---------------------------- MODULE NetworkProofs ----------------------------
(***************************************************************************)
(* Proofs about how the two firmwares come by their network.               *)
(*                                                                         *)
(* The gateway's start-up, for any subnet, any number of lost beacons,     *)
(* strays, clients and failures: its client's handle is never left         *)
(* unstarted unless a start failed, there is one client while nothing      *)
(* fails, and while the beacon is heard the client is one of the broker.   *)
(*                                                                         *)
(* The web server's lists of networks and variables, for any number of     *)
(* entries, requests, restarts and faults: what is listed is what the      *)
(* flash holds, unless a load, save or erasure failed or was cut short.    *)
(*                                                                         *)
(* The web server's Wi-Fi manager, for any networks, interfaces, calls and *)
(* mishaps: what it reports settles on the truth.                          *)
(***************************************************************************)
EXTENDS Startup, WifiStore, WifiManager, SequenceTheorems, Induction, TLAPS

-----------------------------------------------------------------------------
(***************************************************************************)
(* The gateway's start-up.                                                 *)
(***************************************************************************)

(* The address a task goes to create a client with has been found.         *)
UriKnown == \A t \in Tasks : at[t] = "create" /\ found[t] # "default" => uri \in Addresses

(* While nothing fails the LoRa task never looks for the broker: the radio *)
(* is started after the client.                                            *)
Alone == failures = 0 =>
    /\ at["lora"] = "idle"
    /\ client = Len(clients) /\ client \in {0, 1}
    /\ at["manager"] \in {"beacon", "mdns", "scan", "create"} => client = 0
    /\ at["manager"] \in {"start", "radio"} => client = 1
    /\ radio => client = 1

(* While the beacon is heard nobody gets past it.                          *)
Heard == beacon /\ MaxMissed < ListenTicks /\ failures = 0 =>
    /\ \A t \in Tasks :
          /\ quiet[t] <= listened[t] /\ listened[t] <= MaxMissed
          /\ at[t] \notin {"mdns", "scan"}
          /\ at[t] = "create" => found[t] # "default" /\ uri = Broker
    /\ \A i \in DOMAIN clients : clients[i] = Broker

(* The inductive invariant.                                                *)
StartupInv == StartupTypeOK /\ UriKnown /\ HandleIsLive /\ Alone /\ Heard

(* The hosts that the scan tries are addresses.                            *)
LEMMA HostsAreAddresses ==
  Len(Hosts) \in Nat /\ DOMAIN Hosts = 1 .. Len(Hosts) /\ \A i \in DOMAIN Hosts : Hosts[i] \in Addresses
BY StartupAssumption

(* Nothing has been found or created.                                      *)
LEMMA StartupInitInv == StartupInit => StartupInv
<1> SUFFICES ASSUME StartupInit PROVE StartupInv
  OBVIOUS
<1>1. clients \in Seq(Addresses) /\ Len(clients) = 0 /\ client = 0 /\ started = {}
  BY DEF StartupInit
<1>2. LookupTypeOK
  BY HostsAreAddresses, StartupAssumption DEF StartupInit, LookupTypeOK, Tasks
<1>3. StatesTypeOK
  BY DEF StartupInit, StatesTypeOK
<1>4. TasksTypeOK
  BY DEF StartupInit, TasksTypeOK, Tasks
<1>5. StartupTypeOK
  BY <1>1, <1>2, <1>3, <1>4, StartupAssumption DEF StartupInit, StartupTypeOK, MqttTypeOK
<1>6. UriKnown /\ HandleIsLive
  BY DEF StartupInit, UriKnown, HandleIsLive
<1>7. Alone
  BY <1>1 DEF StartupInit, Alone, Tasks
<1>8. Heard
  BY <1>1, StartupAssumption DEF StartupInit, Heard
<1>9. QED
  BY <1>5, <1>6, <1>7, <1>8 DEF StartupInv

(* Types, one group of variables after the other.                          *)
LEMMA StatesInv == StartupTypeOK /\ StartupNext => StatesTypeOK'
<1> SUFFICES ASSUME StartupTypeOK, StartupNext PROVE StatesTypeOK'
  OBVIOUS
<1>1. ASSUME NEW t \in Tasks, InitAsync(t) PROVE UNCHANGED <<port, beacon, wifi, mdns, radio>>
  BY <1>1 DEF InitAsync, HearBeacon, Tick, ListenTimesOut, NoSocket, MdnsAnswers, MdnsSilent,
     TryHost, NextHost, SkipSelf, UseDefault, CreateClient, CreateFails, StartClient, StartFails, network
<1>2. /\ UNCHANGED <<port, beacon>>
      /\ wifi' \in {wifi, TRUE, FALSE} /\ mdns' \in {mdns, TRUE} /\ radio' \in {radio, TRUE}
  BY <1>1 DEF StartupNext, Manager, Tasks, network, OnWifiConnected, OnWifiDisconnected,
     StartRadio, RadioFails, PublishWithoutClient, StrayPacket
<1>3. QED
  BY <1>2 DEF StartupTypeOK, StatesTypeOK

(* ... where each task is, ...                                             *)
LEMMA TasksInv == StartupTypeOK /\ StartupNext => TasksTypeOK'
<1> SUFFICES ASSUME StartupTypeOK, StartupNext PROVE TasksTypeOK'
  OBVIOUS
<1>1. ASSUME NEW t \in Tasks, InitAsync(t) PROVE TasksTypeOK'
  BY <1>1 DEF StartupTypeOK, TasksTypeOK, InitAsync, GoesOn, Found,
     HearBeacon, Tick, ListenTimesOut, NoSocket, MdnsAnswers, MdnsSilent,
     TryHost, NextHost, SkipSelf, UseDefault, CreateClient, CreateFails, StartClient, StartFails, Tasks
<1>2. QED
  BY <1>1 DEF StartupTypeOK, TasksTypeOK, StartupNext, Manager, Tasks, GoesOn, OnWifiConnected,
     OnWifiDisconnected, StartRadio, RadioFails, PublishWithoutClient, StrayPacket

(* ... what the lookup has found, ...                                      *)
LEMMA LookupInv == StartupTypeOK /\ StartupNext => LookupTypeOK'
<1> SUFFICES ASSUME StartupTypeOK, StartupNext PROVE LookupTypeOK'
  OBVIOUS
<1>1. ASSUME NEW t \in Tasks, InitAsync(t) PROVE LookupTypeOK'
  <2>1. LookupTypeOK
    BY DEF StartupTypeOK
  <2>2. ListenTicks \in Nat /\ 0 \in 0 .. ListenTicks /\ 1 \in 1 .. Len(Hosts) + 1
    BY StartupAssumption, HostsAreAddresses
  <2>3. CASE HearBeacon(t)
    BY <2>1, <2>2, <2>3 DEF HearBeacon, Found, CloseSocket, LookupTypeOK, Addresses
  <2>4. CASE Tick(t)
    <3>1. quiet[t] + 1 \in 0 .. ListenTicks /\ listened[t] + 1 \in Nat
      BY <2>1, <2>2, <2>4 DEF Tick, LookupTypeOK
    <3>2. QED
      BY <2>1, <2>4, <3>1 DEF Tick, LookupTypeOK
  <2>5. CASE ListenTimesOut(t)
    BY <2>1, <2>2, <2>5 DEF ListenTimesOut, CloseSocket, LookupTypeOK
  <2>6. CASE MdnsAnswers(t)
    BY <2>1, <2>6 DEF MdnsAnswers, Found, LookupTypeOK, Addresses
  <2>7. CASE TryHost(t)
    BY <2>1, <2>2, <2>7, HostsAreAddresses DEF TryHost, Found, LookupTypeOK
  <2>8. CASE NextHost(t) \/ SkipSelf(t)
    <3>1. host[t] + 1 \in 1 .. Len(Hosts) + 1
      BY <2>1, <2>8, HostsAreAddresses DEF NextHost, SkipSelf, LookupTypeOK
    <3>2. QED
      BY <2>1, <2>8, <3>1 DEF NextHost, SkipSelf, LookupTypeOK
  <2>9. CASE UseDefault(t)
    BY <2>1, <2>2, <2>9 DEF UseDefault, LookupTypeOK
  <2>10. CASE NoSocket(t) \/ MdnsSilent(t) \/ CreateClient(t) \/ CreateFails(t)
                \/ StartClient(t) \/ StartFails(t)
    BY <2>1, <2>10
       DEF NoSocket, MdnsSilent, CreateClient, CreateFails, StartClient, StartFails, LookupTypeOK, lookup
  <2>11. QED
    BY <1>1, <2>3, <2>4, <2>5, <2>6, <2>7, <2>8, <2>9, <2>10 DEF InitAsync
<1>2. ASSUME NEW t \in Tasks, StrayPacket(t) PROVE LookupTypeOK'
  BY <1>2, StartupAssumption DEF StartupTypeOK, StrayPacket, LookupTypeOK
<1>3. QED
  BY <1>1, <1>2 DEF StartupTypeOK, LookupTypeOK, StartupNext, Manager, Tasks, lookup,
     OnWifiConnected, OnWifiDisconnected, StartRadio, RadioFails, PublishWithoutClient

(* ... a client that is created, ...                                       *)
LEMMA CreateKeepsTypes ==
  ASSUME StartupTypeOK, UriKnown, NEW t \in Tasks, CreateClient(t)
  PROVE  MqttTypeOK' /\ Len(clients') = Len(clients) + 1
<1> DEFINE address == IF found[t] = "default" THEN Default ELSE uri
<1>1. address \in Addresses
  BY DEF CreateClient, GoesOn, UriKnown, Addresses
<1>2. clients \in Seq(Addresses) /\ Len(clients) \in Nat /\ started \cup unstarted \subseteq 1 .. Len(clients)
  BY DEF StartupTypeOK, MqttTypeOK
<1>3. clients' = Append(clients, address) /\ client' = Len(clients) + 1
      /\ UNCHANGED <<started, unstarted>>
  BY DEF CreateClient
<1> HIDE DEF address
<1>4. clients' \in Seq(Addresses) /\ Len(clients') = Len(clients) + 1
  BY <1>1, <1>2, <1>3, AppendProperties
<1>5. DOMAIN clients' = 1 .. Len(clients')
  BY <1>4
<1>6. QED
  BY <1>2, <1>3, <1>4, <1>5 DEF MqttTypeOK

(* ... the clients, ...                                                    *)
LEMMA MqttInv == StartupTypeOK /\ UriKnown /\ StartupNext => MqttTypeOK'
<1> SUFFICES ASSUME StartupTypeOK, UriKnown, StartupNext PROVE MqttTypeOK'
  OBVIOUS
<1>1. Len(clients) \in Nat /\ DOMAIN clients = 1 .. Len(clients)
  BY DEF StartupTypeOK, MqttTypeOK
<1>2. ASSUME NEW t \in Tasks, CreateFails(t) PROVE MqttTypeOK'
  BY <1>1, <1>2 DEF StartupTypeOK, MqttTypeOK, CreateFails
<1>3. ASSUME NEW t \in Tasks, StartClient(t) \/ StartFails(t) PROVE MqttTypeOK'
  BY <1>1, <1>3 DEF StartupTypeOK, MqttTypeOK, StartClient, StartFails
<1>4. CASE UNCHANGED mqtt
  BY <1>4 DEF StartupTypeOK, MqttTypeOK, mqtt
<1>5. QED
  BY <1>2, <1>3, <1>4, CreateKeepsTypes
     DEF StartupNext, InitAsync, Manager, Tasks, mqtt, HearBeacon, Tick, ListenTimesOut, NoSocket,
         MdnsAnswers, MdnsSilent, TryHost, NextHost, SkipSelf, UseDefault, OnWifiConnected,
         OnWifiDisconnected, StartRadio, RadioFails, PublishWithoutClient, StrayPacket

(* ... and the count of the failures.                                      *)
LEMMA BoundsInv ==
  StartupTypeOK /\ StartupNext => failures' \in 0 .. MaxFailures /\ (failures' = 0 => failures = 0)
<1> SUFFICES ASSUME StartupTypeOK, StartupNext
             PROVE  failures' \in 0 .. MaxFailures /\ (failures' = 0 => failures = 0)
  OBVIOUS
<1>1. ASSUME NEW t \in Tasks, InitAsync(t)
      PROVE  failures' = failures \/ StepFails
  BY <1>1 DEF InitAsync, HearBeacon, Tick, ListenTimesOut, NoSocket, MdnsAnswers,
     MdnsSilent, TryHost, NextHost, SkipSelf, UseDefault, CreateClient, CreateFails, StartClient, StartFails
<1>2. failures' = failures \/ StepFails
  BY <1>1 DEF StartupNext, Manager, Tasks, OnWifiConnected, OnWifiDisconnected,
     StartRadio, RadioFails, PublishWithoutClient, StrayPacket
<1>3. QED
  BY <1>2, StartupAssumption DEF StartupTypeOK, StepFails

(* A task that has just found the broker knows its address.                *)
LEMMA UriInv == StartupTypeOK /\ UriKnown /\ StartupNext => UriKnown'
<1> SUFFICES ASSUME StartupTypeOK, UriKnown, StartupNext PROVE UriKnown'
  OBVIOUS
<1>1. ASSUME NEW t \in Tasks, InitAsync(t) PROVE UriKnown'
  <2>1. ASSUME NEW a \in Addresses, NEW how, Found(t, a, how) PROVE UriKnown'
    BY <2>1 DEF StartupTypeOK, TasksTypeOK, LookupTypeOK, Found, UriKnown
  <2>2. CASE HearBeacon(t) \/ MdnsAnswers(t)
    BY <2>1, <2>2 DEF HearBeacon, MdnsAnswers, Addresses
  <2>3. CASE TryHost(t)
    BY <2>1, <2>3, HostsAreAddresses DEF TryHost
  <2>4. QED
    BY <1>1, <2>2, <2>3 DEF InitAsync, GoesOn, UriKnown, Tasks, StartupTypeOK, TasksTypeOK,
       LookupTypeOK, Tick, ListenTimesOut, NoSocket, MdnsSilent, NextHost, SkipSelf, UseDefault,
       CreateClient, CreateFails, StartClient, StartFails, lookup
<1>2. QED
  BY <1>1 DEF StartupNext, Manager, Tasks, GoesOn, UriKnown, StartupTypeOK, TasksTypeOK, lookup,
     OnWifiConnected, OnWifiDisconnected, StartRadio, RadioFails, PublishWithoutClient, StrayPacket

(* A handle that is not started yet belongs to a task about to start it.   *)
LEMMA HandleInv == StartupTypeOK /\ HandleIsLive /\ StartupNext => HandleIsLive'
<1> SUFFICES ASSUME StartupTypeOK, HandleIsLive, StartupNext PROVE HandleIsLive'
  OBVIOUS
<1>1. ASSUME NEW t \in Tasks, InitAsync(t) PROVE HandleIsLive'
  <2>1. CASE CreateClient(t) \/ CreateFails(t)
    <3>1. at'[t] = "start"
      BY <2>1 DEF CreateClient, CreateFails, GoesOn, StartupTypeOK, TasksTypeOK
    <3>2. QED
      BY <3>1 DEF HandleIsLive
  <2>2. CASE StartClient(t) \/ StartFails(t)
    BY <2>2 DEF StartClient, StartFails, HandleIsLive
  <2>3. QED
    BY <1>1, <2>1, <2>2 DEF InitAsync, GoesOn, Found, HandleIsLive, Tasks, mqtt, StartupTypeOK,
       TasksTypeOK, HearBeacon, Tick, ListenTimesOut, NoSocket, MdnsAnswers, MdnsSilent,
       TryHost, NextHost, SkipSelf, UseDefault
<1>2. QED
  BY <1>1 DEF StartupNext, Manager, Tasks, GoesOn, HandleIsLive, StartupTypeOK, TasksTypeOK, mqtt,
     OnWifiConnected, OnWifiDisconnected, StartRadio, RadioFails, PublishWithoutClient, StrayPacket

(* Without a failure the LoRa task has nothing to do before the manager's  *)
(* client exists, and none to create afterwards.                           *)
LEMMA AloneInv == StartupTypeOK /\ UriKnown /\ Alone /\ StartupNext => Alone'
<1> SUFFICES ASSUME StartupTypeOK, UriKnown, Alone, StartupNext, failures' = 0 PROVE Alone'
  BY DEF Alone
<1>1. failures = 0 /\ ~StepFails
  BY BoundsInv, StartupAssumption DEF StepFails, StartupTypeOK
<1>2. /\ at["lora"] = "idle" /\ client = Len(clients) /\ client \in {0, 1}
      /\ at["manager"] \in {"beacon", "mdns", "scan", "create"} => client = 0
      /\ at["manager"] \in {"start", "radio"} => client = 1
      /\ radio => client = 1
  BY <1>1 DEF Alone
<1>3. at \in [Tasks -> {"idle", "beacon", "mdns", "scan", "create", "start", "radio"}]
  BY DEF StartupTypeOK, TasksTypeOK
<1>4. ~PublishWithoutClient /\ ~RadioFails /\ ~InitAsync("lora")
  BY <1>1, <1>2 DEF PublishWithoutClient, RadioFails, InitAsync, GoesOn, HearBeacon, Tick,
     ListenTimesOut, NoSocket, MdnsAnswers, MdnsSilent, TryHost, NextHost, SkipSelf, UseDefault,
     CreateClient, CreateFails, StartClient, StartFails
<1>5. CASE InitAsync("manager")
  <2>1. CASE CreateClient("manager")
    <3>1. Len(clients') = Len(clients) + 1
      BY <2>1, CreateKeepsTypes DEF Tasks
    <3>2. client' = 1 /\ Len(clients') = 1
      BY <1>2, <2>1, <3>1 DEF CreateClient, GoesOn
    <3>3. at'["lora"] = "idle" /\ at'["manager"] = "start"
      BY <1>2, <1>3, <2>1 DEF CreateClient, GoesOn, Tasks
    <3>4. QED
      BY <3>2, <3>3 DEF Alone
  <2>2. CASE StartClient("manager")
    BY <1>2, <1>3, <2>2 DEF StartClient, GoesOn, Alone, Tasks
  <2>3. CASE UNCHANGED <<mqtt, radio>>
    BY <1>1, <1>2, <1>3, <1>5, <2>3 DEF Alone, InitAsync, GoesOn, Found, mqtt, Tasks,
       HearBeacon, Tick, ListenTimesOut, NoSocket, MdnsAnswers, MdnsSilent, TryHost, NextHost,
       SkipSelf, UseDefault, CreateClient, CreateFails, StartClient, StartFails
  <2>4. QED
    BY <1>1, <1>5, <2>1, <2>2, <2>3 DEF InitAsync, mqtt, HearBeacon, Tick, ListenTimesOut, NoSocket,
       MdnsAnswers, MdnsSilent, TryHost, NextHost, SkipSelf, UseDefault, CreateFails, StartFails
<1>6. CASE OnWifiConnected \/ OnWifiDisconnected \/ StartRadio \/ \E t \in Tasks : StrayPacket(t)
  <2>1. UNCHANGED <<client, clients>>
    BY <1>6 DEF OnWifiConnected, OnWifiDisconnected, StartRadio, StrayPacket, mqtt
  <2>2. CASE OnWifiConnected
    BY <1>2, <1>3, <2>1, <2>2 DEF OnWifiConnected, Alone, Tasks
  <2>3. CASE StartRadio
    BY <1>2, <1>3, <2>1, <2>3 DEF StartRadio, GoesOn, Alone, Tasks
  <2>4. CASE UNCHANGED <<at, radio>>
    BY <1>2, <2>1, <2>4 DEF Alone
  <2>5. QED
    BY <1>6, <2>2, <2>3, <2>4 DEF OnWifiDisconnected, StrayPacket
<1>7. QED
  BY <1>4, <1>5, <1>6 DEF StartupNext, Manager

(* Nobody gives up listening while the beacon comes in time, and what is   *)
(* heard is the broker's address.                                          *)
LEMMA HeardInv == StartupTypeOK /\ UriKnown /\ Heard /\ StartupNext => Heard'
<1> SUFFICES ASSUME StartupTypeOK, UriKnown, Heard, StartupNext,
                    beacon', MaxMissed < ListenTicks, failures' = 0
             PROVE  Heard'
  BY DEF Heard
<1>1. failures = 0 /\ ~StepFails
  BY BoundsInv, StartupAssumption DEF StepFails, StartupTypeOK
<1>2. beacon
  BY DEF StartupNext, InitAsync, Manager, Tasks, network, HearBeacon, Tick, ListenTimesOut, NoSocket,
     MdnsAnswers, MdnsSilent, TryHost, NextHost, SkipSelf, UseDefault, OnWifiConnected,
     OnWifiDisconnected, StartRadio, RadioFails, PublishWithoutClient, StrayPacket,
     CreateClient, CreateFails, StartClient, StartFails
<1>3. \A t \in Tasks :
         /\ quiet[t] <= listened[t] /\ listened[t] <= MaxMissed
         /\ at[t] \notin {"mdns", "scan"}
         /\ at[t] = "create" => found[t] # "default" /\ uri = Broker
  BY <1>1, <1>2 DEF Heard
<1>4. \A i \in DOMAIN clients : clients[i] = Broker
  BY <1>1, <1>2 DEF Heard
<1>5. /\ at \in [Tasks -> {"idle", "beacon", "mdns", "scan", "create", "start", "radio"}]
      /\ found \in [Tasks -> {"beacon", "mdns", "scan", "default"}]
      /\ quiet \in [Tasks -> Nat] /\ listened \in [Tasks -> Nat]
      /\ MaxMissed \in Nat /\ ListenTicks \in Nat
  BY StartupAssumption DEF StartupTypeOK, TasksTypeOK, LookupTypeOK
<1>6. ASSUME NEW t \in Tasks, InitAsync(t) PROVE Heard'
  <2>1. HearBeacon(t) \/ Tick(t) \/ CreateClient(t) \/ StartClient(t)
    <3>1. ~ListenTimesOut(t)
      BY <1>3, <1>5 DEF ListenTimesOut, GoesOn
    <3>2. QED
      BY <1>1, <1>3, <1>6, <3>1 DEF InitAsync, GoesOn, NoSocket, MdnsAnswers, MdnsSilent, TryHost,
         NextHost, SkipSelf, UseDefault, CreateFails, StartFails
  <2>2. CASE HearBeacon(t)
    BY <1>3, <1>4, <1>5, <2>2 DEF HearBeacon, Found, CloseSocket, Heard, mqtt
  <2>3. CASE Tick(t)
    BY <1>2, <1>3, <1>4, <1>5, <2>3 DEF Tick, Heard, mqtt
  <2>4. CASE CreateClient(t)
    <3>1. clients' = Append(clients, Broker)
      BY <1>3, <2>4 DEF CreateClient, GoesOn
    <3>2. \A i \in DOMAIN clients' : clients'[i] = Broker
      BY <1>4, <3>1, AppendProperties DEF StartupTypeOK, MqttTypeOK, Addresses
    <3>3. QED
      BY <1>3, <1>5, <2>4, <3>2 DEF CreateClient, GoesOn, Heard, lookup
  <2>5. CASE StartClient(t)
    BY <1>3, <1>4, <1>5, <2>5 DEF StartClient, GoesOn, Heard, lookup
  <2>6. QED
    BY <2>1, <2>2, <2>3, <2>4, <2>5
<1>7. ASSUME NEW t \in Tasks, StrayPacket(t) PROVE Heard'
  BY <1>3, <1>4, <1>5, <1>7 DEF StrayPacket, Heard, mqtt
<1>8. CASE OnWifiConnected \/ OnWifiDisconnected \/ StartRadio \/ RadioFails \/ PublishWithoutClient
  <2>1. UNCHANGED <<lookup, mqtt>>
    BY <1>8 DEF OnWifiConnected, OnWifiDisconnected, StartRadio, RadioFails, PublishWithoutClient
  <2>2. \A t \in Tasks : at'[t] = at[t] \/ at'[t] \in {"radio", "beacon", "idle"}
    BY <1>5, <1>8 DEF OnWifiConnected, OnWifiDisconnected, StartRadio, RadioFails,
       PublishWithoutClient, GoesOn, Tasks
  <2>3. QED
    BY <1>3, <1>4, <2>1, <2>2 DEF Heard, lookup, mqtt
<1>9. QED
  BY <1>6, <1>7, <1>8 DEF StartupNext, Manager, Tasks

(* Every step keeps the invariant.                                         *)
LEMMA StartupNextInv == StartupInv /\ [StartupNext]_startupVars => StartupInv'
<1> SUFFICES ASSUME StartupInv, [StartupNext]_startupVars PROVE StartupInv'
  OBVIOUS
<1>1. CASE StartupNext
  <2>1. StartupTypeOK'
    BY <1>1, StatesInv, TasksInv, LookupInv, MqttInv, BoundsInv DEF StartupInv, StartupTypeOK
  <2>2. QED
    BY <1>1, <2>1, UriInv, HandleInv, AloneInv, HeardInv DEF StartupInv
<1>2. CASE UNCHANGED startupVars
  <2>1. StartupTypeOK'
    BY <1>2 DEF StartupInv, StartupTypeOK, StatesTypeOK, TasksTypeOK, LookupTypeOK, MqttTypeOK,
       startupVars, network, lookup, mqtt
  <2>2. UriKnown' /\ HandleIsLive' /\ Alone' /\ Heard'
    BY <1>2 DEF StartupInv, UriKnown, HandleIsLive, Alone, Heard,
       startupVars, network, lookup, mqtt
  <2>3. QED
    BY <2>1, <2>2 DEF StartupInv
<1>3. QED
  BY <1>1, <1>2

(* Hence the invariant of the start-up.                                    *)
LEMMA StartupInvariant == StartupSpec => []StartupInv
<1>1. QED
  BY StartupInitInv, StartupNextInv, PTL DEF StartupSpec

(* The gateway's variables keep their types, and a client is created with  *)
(* the default address or with one that was found.                         *)
THEOREM StartupTypes == StartupSpec => [](StartupTypeOK /\ UriKnown)
<1>1. StartupInv => StartupTypeOK /\ UriKnown
  BY DEF StartupInv
<1>2. QED
  BY <1>1, StartupInvariant, PTL

(* mqtt_client is null, or a client that was started or that a start       *)
(* failed for, unless a task is in between creating and starting one:      *)
(* whatever fails, and although the two tasks share the handle without a   *)
(* lock.                                                                   *)
THEOREM HandleStaysLive == StartupSpec => []HandleIsLive
<1>1. StartupInv => HandleIsLive
  BY DEF StartupInv
<1>2. QED
  BY <1>1, StartupInvariant, PTL

(* While no call fails there is never a second client.                     *)
THEOREM NeverTwoClients == StartupSpec => []OneClient
<1>1. StartupInv => OneClient
  BY DEF StartupInv, Alone, OneClient
<1>2. QED
  BY <1>1, StartupInvariant, PTL

(* A beacon that is heard in time decides the broker.                      *)
THEOREM BeaconWins == StartupSpec => []BeaconDecides
<1>1. StartupInv => BeaconDecides
  BY DEF StartupInv, Heard, BeaconDecides
<1>2. QED
  BY <1>1, StartupInvariant, PTL

-----------------------------------------------------------------------------
(***************************************************************************)
(* The lists of networks and variables.  The heart of the invariant is     *)
(* that a list which nobody saves just now is the flash's; a save          *)
(* makes it so because the counter is written first and the places in      *)
(* their order, while the mutex keeps everybody else out.                  *)
(***************************************************************************)

(* f collects what the places 1 to n of b hold, one after the other.        *)
Reads(b, n, f) ==
    f = [i \in 0..n |-> IF i = 0 THEN <<>>
                        ELSE IF b[i] = None THEN f[i - 1]
                        ELSE Append(f[i - 1], b[i])]

(* There is such a collection of any number of places.                      *)
LEMMA ReadsExist ==
    ASSUME NEW b, NEW n \in Nat
    PROVE  \E f : Reads(b, n, f)
<1> DEFINE S == {m \in Nat : \E f : Reads(b, m, f)}
<1>1. 0 \in S
  <2> DEFINE f == [i \in 0..0 |-> <<>>]
  <2>1. Reads(b, 0, f)
    BY DEF Reads
  <2>2. QED
    BY <2>1
<1>2. ASSUME NEW m \in Nat, m \in S
      PROVE  m + 1 \in S
  <2>1. PICK f : Reads(b, m, f)
    BY <1>2
  <2> DEFINE next == IF b[m + 1] = None THEN f[m] ELSE Append(f[m], b[m + 1])
             g == [i \in 0..(m + 1) |-> IF i = m + 1 THEN next ELSE f[i]]
             h == [i \in 0..(m + 1) |-> IF i = 0 THEN <<>>
                                        ELSE IF b[i] = None THEN g[i - 1]
                                        ELSE Append(g[i - 1], b[i])]
  <2>2. ASSUME NEW i \in 0..(m + 1)
        PROVE  g[i] = h[i]
    <3>1. CASE i = m + 1
      <4>1. i # 0 /\ i - 1 = m /\ m \in 0..(m + 1) /\ m # m + 1
        BY <3>1
      <4>2. g[i - 1] = f[m]
        BY <4>1
      <4>3. QED
        BY <3>1, <4>1, <4>2
    <3>2. CASE i = 0
      <4>1. f[0] = <<>> /\ 0 # m + 1
        BY <2>1 DEF Reads
      <4>2. QED
        BY <3>2, <4>1
    <3>3. CASE i # 0 /\ i # m + 1
      <4>1. i \in 0..m /\ i - 1 \in 0..(m + 1) /\ i - 1 # m + 1
        BY <3>3
      <4>2. f[i] = IF b[i] = None THEN f[i - 1] ELSE Append(f[i - 1], b[i])
        BY <2>1, <3>3, <4>1 DEF Reads
      <4>3. g[i - 1] = f[i - 1] /\ g[i] = f[i]
        BY <3>3, <4>1
      <4>4. QED
        BY <3>3, <4>2, <4>3
    <3>4. QED
      BY <3>1, <3>2, <3>3
  <2>3. g = h
    <3> HIDE DEF next
    <3>1. g = [i \in 0..(m + 1) |-> g[i]] /\ h = [i \in 0..(m + 1) |-> h[i]]
      OBVIOUS
    <3>2. QED
      BY <2>2, <3>1
  <2>4. Reads(b, m + 1, g)
    BY <2>3 DEF Reads
  <2>5. QED
    BY <2>4
<1>3. \A m \in Nat : m \in S
  <2> HIDE DEF S
  <2>1. QED
    BY <1>1, <1>2, Induct
<1>4. QED
  BY <1>3

(* s is a list of the entries in n places of b, of all of them if none is   *)
(* missing.                                                                 *)
Holds(b, n, s) ==
    /\ s \in Seq(Entries) /\ Len(s) <= n
    /\ (\A i \in 1..n : b[i] # None) => Len(s) = n /\ \A i \in 1..n : s[i] = b[i]

(* What is read is a list of entries, of all of them if none is missing.    *)
LEMMA WhatIsRead ==
    ASSUME NEW b, NEW n \in Nat, NEW f, Reads(b, n, f),
           \A i \in 1..n : b[i] \in Entries \cup {None}
    PROVE  Holds(b, n, f[n])
<1> DEFINE Good(m) ==
               /\ f[m] \in Seq(Entries) /\ Len(f[m]) <= m
               /\ (\A i \in 1..n : b[i] # None) =>
                     Len(f[m]) = m /\ \A i \in 1..m : f[m][i] = b[i]
           S == {m \in Nat : m <= n => Good(m)}
<1>0. \A i \in 0..n : f[i] = IF i = 0 THEN <<>>
                              ELSE IF b[i] = None THEN f[i - 1]
                              ELSE Append(f[i - 1], b[i])
  BY DEF Reads
<1>1. 0 \in S
  <2>0. 0 \in 0..n
    OBVIOUS
  <2>1. f[0] = <<>>
    BY <1>0, <2>0
  <2>2. f[0] \in Seq(Entries) /\ Len(f[0]) = 0 /\ \A i \in 1..0 : f[0][i] = b[i]
    BY <2>1
  <2>3. Good(0)
    BY <2>2
  <2>4. QED
    BY <2>3
<1>2. ASSUME NEW m \in Nat, m \in S
      PROVE  m + 1 \in S
  <2> SUFFICES ASSUME m + 1 <= n
               PROVE  Good(m + 1)
    BY <1>2
  <2>1. Good(m) /\ m + 1 \in 1..n /\ m + 1 \in 0..n /\ (m + 1) - 1 = m
    BY <1>2
  <2>2. f[m + 1] = IF b[m + 1] = None THEN f[m] ELSE Append(f[m], b[m + 1])
    <3>1. m + 1 # 0
      OBVIOUS
    <3>2. QED
      BY <1>0, <2>1, <3>1
  <2>3. CASE b[m + 1] = None
    <3>1. f[m + 1] = f[m] /\ Len(f[m]) \in Nat
      BY <2>1, <2>2, <2>3
    <3>2. QED
      BY <2>1, <2>3, <3>1
  <2>4. CASE b[m + 1] # None
    <3>1. b[m + 1] \in Entries /\ f[m + 1] = Append(f[m], b[m + 1]) /\ f[m] \in Seq(Entries)
      BY <2>1, <2>2, <2>4
    <3>2. /\ f[m + 1] \in Seq(Entries) /\ Len(f[m + 1]) = Len(f[m]) + 1 /\ Len(f[m]) \in Nat
          /\ \A i \in 1..Len(f[m]) : f[m + 1][i] = f[m][i]
          /\ f[m + 1][Len(f[m]) + 1] = b[m + 1]
      BY <3>1, AppendProperties
    <3>3. QED
      <4>1. Len(f[m + 1]) <= m + 1
        BY <2>1, <3>2
      <4>2. ASSUME \A i \in 1..n : b[i] # None
            PROVE  Len(f[m + 1]) = m + 1 /\ \A i \in 1..(m + 1) : f[m + 1][i] = b[i]
        <5>1. Len(f[m]) = m /\ \A i \in 1..m : f[m][i] = b[i]
          BY <2>1, <4>2
        <5>2. ASSUME NEW i \in 1..(m + 1)
              PROVE  f[m + 1][i] = b[i]
          <6>1. i = m + 1 \/ i \in 1..m
            OBVIOUS
          <6>2. QED
            BY <3>2, <5>1, <6>1
        <5>3. QED
          BY <3>2, <5>1, <5>2
      <4>3. QED
        BY <3>2, <4>1, <4>2
  <2>5. QED
    BY <2>3, <2>4
<1>3. n \in S
  <2> HIDE DEF S
  <2>1. QED
    BY <1>1, <1>2, Induct
<1>4. Good(n)
  BY <1>3
<1>5. QED
  BY <1>4 DEF Holds

(* The list that is loaded from n places of flash.                          *)
FromFlash(b, n) == (CHOOSE f : Reads(b, n, f))[n]

(* So the list from flash is one of entries, whole if no place is missing.  *)
LEMMA FlashIsRead ==
    ASSUME NEW b, NEW n \in Nat, \A i \in 1..n : b[i] \in Entries \cup {None}
    PROVE  Holds(b, n, FromFlash(b, n))
<1>1. PICK f : f = CHOOSE g : Reads(b, n, g)
  OBVIOUS
<1>2. Reads(b, n, f)
  BY <1>1, ReadsExist
<1>3. FromFlash(b, n) = f[n]
  BY <1>1 DEF FromFlash
<1>4. Holds(b, n, f[n])
  BY <1>2, WhatIsRead
<1>5. QED
  BY <1>3, <1>4

(* What the code collects is this list, ...                                 *)
LEMMA CollectedIsFlash ==
    ASSUME NEW b, NEW n
    PROVE  Collected(b, n) = FromFlash(b, n)
BY DEF Collected, FromFlash, Reads

(* ... before a step and after it.                                          *)
LEMMA LoadedIsFlash ==
    /\ \A l : Loaded(l) = FromFlash(blob[l], count[l])
    /\ \A l : Loaded(l)' = FromFlash(blob'[l], count'[l])
BY DEF Loaded, Collected, FromFlash, Reads

(* A list that was saved is read back.                                      *)
LEMMA SavedIsRead ==
    ASSUME NEW b, NEW m \in Seq(Entries), \A i \in 1..Len(m) : b[i] = m[i]
    PROVE  FromFlash(b, Len(m)) = m
<1> DEFINE r == FromFlash(b, Len(m))
<1>1. Len(m) \in Nat /\ \A i \in 1..Len(m) : b[i] \in Entries
  OBVIOUS
<1>2. \A i \in 1..Len(m) : b[i] # None
  BY <1>1, StoreAssumption
<1>3. r \in Seq(Entries) /\ Len(r) = Len(m) /\ \A i \in 1..Len(m) : r[i] = b[i]
  BY <1>1, <1>2, FlashIsRead DEF Holds
<1> HIDE DEF r
<1>4. r = m
  BY <1>3, SeqEqual
<1>5. QED
  BY <1>4 DEF r

(* Nothing is read from no places.                                          *)
LEMMA EmptyIsRead ==
    ASSUME NEW b
    PROVE  FromFlash(b, 0) = <<>>
<1>1. <<>> \in Seq(Entries) /\ Len(<<>>) = 0 /\ \A j \in 1..Len(<<>>) : b[j] = <<>>[j]
  OBVIOUS
<1>2. FromFlash(b, Len(<<>>)) = <<>>
  BY <1>1, SavedIsRead
<1>3. QED
  BY <1>1, <1>2

-----------------------------------------------------------------------------
(* Whoever loads or saves has the mutex, and nobody else does.              *)
Exclusive == \A c \in Clients : doing[c].pc \in {"load", "count", "entry"} <=> holder = c

(* Half-way through a save the counter and the places before the next one   *)
(* are those of the list, unless a reset cleared them meanwhile.            *)
SavesInOrder ==
    \A c \in Clients : doing[c].pc = "entry" =>
        LET l == doing[c].list IN
        /\ doing[c].i \in 1..Len(memory[l])
        /\ ~torn =>
              /\ count[l] = Len(memory[l])
              /\ \A j \in 1..(doing[c].i - 1) : blob[l][j] = memory[l][j]

(* Between the two halves of a reset nobody else is at work, and the flash  *)
(* is empty.                                                                *)
ResetAlone == ~torn /\ Resetting => holder = None /\ \A l \in Lists : count[l] = 0

(* The list in memory and the one in flash have the same entries.           *)
Agrees(l) ==
    Members(Loaded(l)) = Members(memory[l]) /\ Len(Loaded(l)) = Len(memory[l])

(* The property, by this name.                                              *)
RestAgrees ==
    \A l \in Lists : (l \notin unsaved /\ ~Saving(l) /\ ~Resetting /\ ~torn) => Agrees(l)

(* The inductive invariant.                                                 *)
StoreInv == StoreTypeOK /\ Exclusive /\ SavesInOrder /\ ResetAlone /\ RestAgrees

(* The flash is empty like the lists, and the boot is about to load it.     *)
LEMMA StoreStart == StoreInit => StoreInv
<1> SUFFICES ASSUME StoreInit
             PROVE  StoreInv
  OBVIOUS
<1>1. /\ memory = [l \in Lists |-> <<>>] /\ count = [l \in Lists |-> 0] /\ unsaved = {}
      /\ blob = [l \in Lists |-> [i \in 1..MaxItems |-> None]] /\ holder = "boot" /\ torn = FALSE
      /\ \A c \in Clients : doing[c].pc = IF c = "boot" THEN "load" ELSE "idle"
      /\ doing \in [Clients -> [pc : {"idle", "load"}, list : Lists, i : {0}]]
  BY DEF StoreInit, Booting, Loads, Resting, Clients, Lists
<1>2. StoreTypeOK
  <2>1. memory \in [Lists -> {<<>>}] /\ count \in [Lists -> {0}] /\ blob \in [Lists -> [1..MaxItems -> {None}]]
    BY <1>1
  <2>2. \A l \in Lists : memory[l] \in Seq(Entries) /\ Len(memory[l]) <= MaxItems
    <3>1. \A l \in Lists : memory[l] = <<>>
      BY <2>1
    <3>2. <<>> \in Seq(Entries) /\ Len(<<>>) = 0 /\ 0 <= MaxItems
      BY StoreAssumption
    <3>3. QED
      BY <3>1, <3>2
  <2>3. count \in [Lists -> 0..MaxItems]
    BY <2>1, StoreAssumption
  <2>4. blob \in [Lists -> [1..MaxItems -> Entries \cup {None}]]
    BY <1>1
  <2>5. doing \in [Clients -> [pc : {"idle", "load", "count", "entry", "clear"}, list : Lists, i : 0..MaxItems]]
    BY <1>1, StoreAssumption
  <2>6. memory \in [Lists -> Seq(Entries)]
    BY <2>1, <2>2
  <2>7. QED
    BY <1>1, <2>2, <2>3, <2>4, <2>5, <2>6 DEF StoreTypeOK, Clients
<1>3. RestAgrees
  <2> SUFFICES ASSUME NEW l \in Lists
               PROVE  Agrees(l)
    BY DEF RestAgrees
  <2>1. Loaded(l) = <<>>
    BY <1>1, EmptyIsRead, LoadedIsFlash
  <2>2. memory[l] = <<>>
    BY <1>1
  <2>3. QED
    BY <2>1, <2>2 DEF Agrees
<1>4. QED
  BY <1>1, <1>2, <1>3 DEF StoreInv, Exclusive, SavesInOrder, ResetAlone, Resetting, Clients

(* A list becomes that of the flash; the defaults are about to be saved.    *)
LEMMA BootsKeeps ==
    ASSUME StoreInv, Boots
    PROVE  StoreInv'
<1> DEFINE Doings == [pc : {"idle", "load", "count", "entry", "clear"}, list : Lists, i : 0..MaxItems]
<1>1. /\ "boot" \in Clients /\ doing["boot"].pc = "load" /\ UNCHANGED <<count, blob, torn>>
      /\ doing \in [Clients -> Doings]
  BY DEF Boots, Clients, StoreInv, StoreTypeOK
<1>2. PICK l : l = doing["boot"].list
  OBVIOUS
<1>3. l \in Lists
  BY <1>1, <1>2
<1>4. PICK unread \in SUBSET (1..MaxItems) :
         /\ LoadsList(l, unread)
         /\ unsaved' = IF unread = {} THEN unsaved \ {l} ELSE unsaved \cup {l}
  BY <1>2 DEF Boots
<1>5. PICK b : b = [i \in 1..MaxItems |-> IF i \in unread THEN None ELSE blob[l][i]]
  OBVIOUS
<1>6. PICK got : got = Collected(b, count[l])
  OBVIOUS
<1>7. /\ count[l] \in Nat /\ count[l] \in 0..MaxItems /\ MaxItems \in Nat
      /\ \A i \in 1..MaxItems : blob[l][i] \in Entries \cup {None}
      /\ blob[l] = [i \in 1..MaxItems |-> blob[l][i]]
  BY <1>3, StoreAssumption DEF StoreInv, StoreTypeOK
<1>8. got \in Seq(Entries) /\ Len(got) <= MaxItems
  <2>1. \A i \in 1..count[l] : b[i] \in Entries \cup {None}
    BY <1>5, <1>7
  <2>2. got = FromFlash(b, count[l])
    BY <1>6, CollectedIsFlash
  <2>3. PICK n \in Nat : n = count[l]
    BY <1>7
  <2>4. Holds(b, n, FromFlash(b, n))
    BY <2>1, <2>3, FlashIsRead
  <2>5. got \in Seq(Entries) /\ Len(got) <= n
    BY <2>2, <2>3, <2>4 DEF Holds
  <2>6. Len(got) \in Nat
    BY <2>5
  <2>7. QED
    BY <1>7, <2>3, <2>5, <2>6
<1>9. PICK next \in Doings, kept \in Seq(Entries) :
         /\ Len(kept) <= MaxItems /\ memory' = [memory EXCEPT ![l] = kept]
         /\ doing' = [doing EXCEPT !["boot"] = next]
         /\ \/ next.pc = "count" /\ next.list = l /\ holder' = holder
            \/ kept = got /\ next.pc = "load" /\ holder' = holder
            \/ kept = got /\ next.pc = "idle" /\ holder' = None
  <2>1. /\ Saves(l) \in Doings /\ Saves(l).pc = "count" /\ Saves(l).list = l
        /\ Loads("vars") \in Doings /\ Loads("vars").pc = "load"
        /\ Resting \in Doings /\ Resting.pc = "idle"
    BY <1>3, <1>7 DEF Saves, Loads, Resting, Lists
  <2>2. Defaults[l] \in Seq(Entries) /\ Len(Defaults[l]) <= MaxItems
    BY <1>3, StoreAssumption
  <2> HIDE DEF Doings
  <2>3. CASE got = <<>> /\ Defaults[l] # <<>>
    <3>1. /\ memory' = [memory EXCEPT ![l] = Defaults[l]]
          /\ doing' = [doing EXCEPT !["boot"] = Saves(l)] /\ holder' = holder
      BY <1>4, <1>5, <1>6, <2>3 DEF LoadsList
    <3>2. QED
      BY <2>1, <2>2, <3>1
  <2>4. CASE ~(got = <<>> /\ Defaults[l] # <<>>)
    <3>1. memory' = [memory EXCEPT ![l] = got] /\ Finishes("boot")
      BY <1>4, <1>5, <1>6, <2>4 DEF LoadsList
    <3>2. \/ doing' = [doing EXCEPT !["boot"] = Loads("vars")] /\ holder' = holder
          \/ doing' = [doing EXCEPT !["boot"] = Resting] /\ holder' = None
      BY <3>1 DEF Finishes
    <3>3. QED
      BY <1>8, <2>1, <3>1, <3>2
  <2>5. QED
    BY <2>3, <2>4
<1> HIDE DEF Doings
<1>10. /\ holder = "boot" /\ None \notin Clients
       /\ \A c \in Clients : c # "boot" => doing[c].pc \notin {"load", "count", "entry"}
  BY <1>1, StoreAssumption DEF StoreInv, Exclusive
<1>11. /\ doing' \in [Clients -> Doings] /\ doing'["boot"] = next
       /\ \A c \in Clients : c # "boot" => doing'[c] = doing[c]
  BY <1>1, <1>9
<1>12. /\ memory' \in [Lists -> Seq(Entries)] /\ memory'[l] = kept
       /\ \A m \in Lists : m # l => memory'[m] = memory[m]
  BY <1>3, <1>9 DEF StoreInv, StoreTypeOK
<1>13. StoreTypeOK'
  BY <1>1, <1>3, <1>4, <1>9, <1>10, <1>11, <1>12 DEF StoreInv, StoreTypeOK, Doings
<1>14. Exclusive'
  BY <1>9, <1>10, <1>11 DEF Exclusive
<1>15. SavesInOrder'
  BY <1>9, <1>10, <1>11 DEF SavesInOrder
<1>16. Resetting' <=> Resetting
  BY <1>1, <1>9, <1>11 DEF Resetting
<1>17. ResetAlone'
  BY <1>1, <1>10, <1>16 DEF StoreInv, ResetAlone
<1>18. RestAgrees'
  <2> SUFFICES ASSUME NEW m \in Lists, m \notin unsaved', ~Saving(m)', ~Resetting, ~torn
               PROVE  Agrees(m)'
    BY <1>1, <1>16 DEF RestAgrees
  <2>1. Loaded(m)' = Loaded(m)
    BY <1>1, LoadedIsFlash
  <2>2. CASE m # l
    <3>1. ~Saving(m) /\ m \notin unsaved
      BY <1>1, <1>4, <1>10, <2>2 DEF Saving
    <3>2. Agrees(m)
      BY <3>1 DEF StoreInv, RestAgrees
    <3>3. QED
      BY <1>12, <2>1, <2>2, <3>2 DEF Agrees
  <2>3. CASE m = l
    <3>1. unread = {}
      BY <1>4, <2>3
    <3>2. b = blob[l]
      BY <1>5, <1>7, <3>1
    <3>3. kept = got
      BY <1>1, <1>9, <1>11, <2>3 DEF Saving
    <3>4. Loaded(l) = got
      BY <1>6, <3>2 DEF Loaded
    <3>5. memory'[l] = got
      BY <1>12, <3>3
    <3>6. QED
      BY <2>1, <2>3, <3>4, <3>5 DEF Agrees
  <2>4. QED
    BY <2>2, <2>3
<1>19. QED
  BY <1>13, <1>14, <1>15, <1>17, <1>18 DEF StoreInv

(* Whoever ends a save rests, or goes on to load: a list that is to agree   *)
(* with the flash does.                                                     *)
LEMMA SaveEnds ==
    ASSUME StoreInv, NEW c \in Clients, doing[c].pc \in {"count", "entry"},
           NEW l \in Lists, l = doing[c].list, Finishes(c),
           UNCHANGED <<memory, torn>>,
           count' \in [Lists -> 0..MaxItems], blob' \in [Lists -> [1..MaxItems -> Entries \cup {None}]],
           \A m \in Lists : m # l => count'[m] = count[m] /\ blob'[m] = blob[m],
           unsaved' \subseteq Lists, \A m \in unsaved : m # l => m \in unsaved',
           l \in unsaved' \/ torn \/ Agrees(l)'
    PROVE  StoreInv'
<1> DEFINE Doings == [pc : {"idle", "load", "count", "entry", "clear"}, list : Lists, i : 0..MaxItems]
<1>1. /\ doing \in [Clients -> Doings] /\ holder = c /\ None \notin Clients
      /\ \A d \in Clients : d # c => doing[d].pc \notin {"load", "count", "entry"}
  BY StoreAssumption DEF StoreInv, StoreTypeOK, Exclusive
<1>2. PICK next \in Doings :
         /\ doing' = [doing EXCEPT ![c] = next]
         /\ \/ next.pc = "load" /\ holder' = holder
            \/ next.pc = "idle" /\ holder' = None
  <2>1. /\ Loads("vars") \in Doings /\ Loads("vars").pc = "load"
        /\ Resting \in Doings /\ Resting.pc = "idle"
    BY StoreAssumption DEF Loads, Resting, Lists
  <2> HIDE DEF Doings
  <2>2. QED
    BY <2>1 DEF Finishes
<1> HIDE DEF Doings
<1>3. doing' \in [Clients -> Doings] /\ doing'[c] = next /\ \A d \in Clients : d # c => doing'[d] = doing[d]
  BY <1>1, <1>2
<1>4. StoreTypeOK'
  BY <1>1, <1>2, <1>3 DEF StoreInv, StoreTypeOK, Doings
<1>5. Exclusive' /\ SavesInOrder'
  BY <1>1, <1>2, <1>3 DEF Exclusive, SavesInOrder
<1>6. ResetAlone'
  <2>1. Resetting' <=> Resetting
    BY <1>2, <1>3 DEF Resetting
  <2>2. ~torn => ~Resetting
    BY <1>1 DEF StoreInv, ResetAlone
  <2>3. QED
    BY <2>1, <2>2 DEF ResetAlone
<1>7. RestAgrees'
  <2> SUFFICES ASSUME NEW m \in Lists, m \notin unsaved', ~torn
               PROVE  Agrees(m)'
    BY DEF RestAgrees
  <2>1. CASE m # l
    <3>1. ~Saving(m) /\ m \notin unsaved
      BY <1>1, <2>1 DEF Saving
    <3>2. ~Resetting
      BY <1>1 DEF StoreInv, ResetAlone
    <3>3. Agrees(m)
      BY <3>1, <3>2 DEF StoreInv, RestAgrees
    <3>4. Loaded(m)' = Loaded(m)
      BY <2>1, LoadedIsFlash
    <3>5. QED
      BY <3>3, <3>4 DEF Agrees
  <2>2. QED
    BY <2>1
<1>8. QED
  BY <1>4, <1>5, <1>6, <1>7 DEF StoreInv

(* A save that has come to place i goes on, or ends with the list in flash. *)
LEMMA SaveGoesOn ==
    ASSUME StoreInv, NEW c \in Clients, doing[c].pc \in {"count", "entry"},
           NEW l \in Lists, l = doing[c].list, NEW i \in 0..Len(memory[l]), Continues(c, i),
           UNCHANGED <<memory, torn>>,
           count' \in [Lists -> 0..MaxItems], blob' \in [Lists -> [1..MaxItems -> Entries \cup {None}]],
           \A m \in Lists : m # l => count'[m] = count[m] /\ blob'[m] = blob[m],
           ~torn => count'[l] = Len(memory[l]) /\ \A j \in 1..i : blob'[l][j] = memory[l][j]
    PROVE  StoreInv'
<1> DEFINE Doings == [pc : {"idle", "load", "count", "entry", "clear"}, list : Lists, i : 0..MaxItems]
           goes == [pc |-> "entry", list |-> l, i |-> i + 1]
<1>1. /\ doing \in [Clients -> Doings] /\ holder = c /\ None \notin Clients
      /\ memory[l] \in Seq(Entries) /\ Len(memory[l]) \in Nat /\ Len(memory[l]) <= MaxItems /\ MaxItems \in Nat
      /\ \A d \in Clients : d # c => doing[d].pc \notin {"load", "count", "entry"}
      /\ i \in Nat /\ unsaved \subseteq Lists
  BY StoreAssumption DEF StoreInv, StoreTypeOK, Exclusive
<1>2. CASE i < Len(memory[l])
  <2>1. doing' = [doing EXCEPT ![c] = goes] /\ holder' = holder /\ unsaved' = unsaved
    BY <1>2 DEF Continues
  <2>2. goes \in Doings /\ goes.pc = "entry" /\ goes.list = l /\ goes.i = i + 1
    BY <1>1, <1>2
  <2> HIDE DEF goes, Doings
  <2>3. doing' \in [Clients -> Doings] /\ doing'[c] = goes /\ \A d \in Clients : d # c => doing'[d] = doing[d]
    BY <1>1, <2>1, <2>2
  <2>4. StoreTypeOK'
    BY <1>1, <2>1, <2>3 DEF StoreInv, StoreTypeOK, Doings
  <2>5. Exclusive'
    BY <1>1, <2>1, <2>2, <2>3 DEF Exclusive
  <2>6. SavesInOrder'
    <3>1. \A d \in Clients : doing'[d].pc = "entry" => d = c
      BY <1>1, <2>3
    <3>2. i + 1 \in 1..Len(memory[l]) /\ (i + 1) - 1 = i
      BY <1>1, <1>2
    <3>3. ~torn => count'[l] = Len(memory[l]) /\ \A j \in 1..i : blob'[l][j] = memory[l][j]
      OBVIOUS
    <3> SUFFICES ASSUME NEW d \in Clients, doing'[d].pc = "entry"
                 PROVE  LET k == doing'[d].list IN
                        /\ doing'[d].i \in 1..Len(memory[k])
                        /\ ~torn => /\ count'[k] = Len(memory[k])
                                    /\ \A j \in 1..(doing'[d].i - 1) : blob'[k][j] = memory[k][j]
      BY DEF SavesInOrder
    <3>4. doing'[d].list = l /\ doing'[d].i = i + 1
      BY <2>2, <2>3, <3>1
    <3>5. QED
      BY <3>2, <3>3, <3>4
  <2>7. ResetAlone'
    <3>1. Resetting' <=> Resetting
      BY <2>2, <2>3 DEF Resetting
    <3>2. ~torn => ~Resetting
      BY <1>1 DEF StoreInv, ResetAlone
    <3>3. QED
      BY <3>1, <3>2 DEF ResetAlone
  <2>8. RestAgrees'
    <3> SUFFICES ASSUME NEW m \in Lists, m \notin unsaved, ~Saving(m)', ~torn
                 PROVE  Agrees(m)'
      BY <2>1 DEF RestAgrees
    <3>1. m # l
      BY <2>2, <2>3 DEF Saving
    <3>2. ~Saving(m)
      BY <1>1, <3>1 DEF Saving
    <3>3. ~Resetting
      BY <1>1 DEF StoreInv, ResetAlone
    <3>4. Agrees(m)
      BY <3>2, <3>3 DEF StoreInv, RestAgrees
    <3>5. Loaded(m)' = Loaded(m)
      BY <3>1, LoadedIsFlash
    <3>6. QED
      BY <3>4, <3>5 DEF Agrees
  <2>9. QED
    BY <2>4, <2>5, <2>6, <2>7, <2>8 DEF StoreInv
<1>3. CASE ~(i < Len(memory[l]))
  <2>1. Finishes(c) /\ unsaved' = unsaved \ {l}
    BY <1>3 DEF Continues
  <2>2. i = Len(memory[l])
    BY <1>1, <1>3
  <2>3. torn \/ Agrees(l)'
    <3> SUFFICES ASSUME ~torn
                 PROVE  Agrees(l)'
      OBVIOUS
    <3>1. PICK b, m : b = blob'[l] /\ m = memory[l]
      OBVIOUS
    <3>2. m \in Seq(Entries) /\ \A j \in 1..Len(m) : b[j] = m[j]
      BY <1>1, <2>2, <3>1
    <3>3. FromFlash(b, Len(m)) = m
      BY <3>2, SavedIsRead
    <3>4. Loaded(l)' = memory'[l]
      BY <3>1, <3>3, LoadedIsFlash
    <3>5. QED
      BY <3>4 DEF Agrees
  <2>4. unsaved' \subseteq Lists /\ \A m \in unsaved : m # l => m \in unsaved'
    BY <1>1, <2>1
  <2>5. QED
    BY <2>1, <2>3, <2>4, SaveEnds
<1>4. QED
  BY <1>2, <1>3

(* A save that fails is one that need not agree.                            *)
LEMMA FailKeeps ==
    ASSUME StoreInv, NEW c \in Clients, SaveFails(c)
    PROVE  StoreInv'
<1>1. PICK l : l = doing[c].list
  OBVIOUS
<1>2. /\ l \in Lists /\ unsaved \subseteq Lists
      /\ count \in [Lists -> 0..MaxItems] /\ blob \in [Lists -> [1..MaxItems -> Entries \cup {None}]]
  BY <1>1 DEF StoreInv, StoreTypeOK
<1>3. /\ doing[c].pc \in {"count", "entry"} /\ unsaved' = unsaved \cup {l} /\ Finishes(c)
      /\ UNCHANGED <<memory, count, blob, torn>>
  BY <1>1 DEF SaveFails
<1>4. /\ count' \in [Lists -> 0..MaxItems] /\ blob' \in [Lists -> [1..MaxItems -> Entries \cup {None}]]
      /\ \A m \in Lists : m # l => count'[m] = count[m] /\ blob'[m] = blob[m]
      /\ unsaved' \subseteq Lists /\ l \in unsaved' /\ \A m \in unsaved : m # l => m \in unsaved'
  BY <1>2, <1>3
<1>5. QED
  BY <1>1, <1>2, <1>3, <1>4, SaveEnds

(* Both steps of a save bring the flash closer to the list it saves.        *)
LEMMA SavesKeep ==
    ASSUME StoreInv, NEW c \in Clients, SavesCount(c) \/ SavesEntry(c)
    PROVE  StoreInv'
<1> DEFINE l == doing[c].list
           i == doing[c].i
<1>1. /\ l \in Lists /\ memory[l] \in Seq(Entries) /\ Len(memory[l]) \in 0..MaxItems
      /\ count \in [Lists -> 0..MaxItems] /\ blob \in [Lists -> [1..MaxItems -> Entries \cup {None}]]
  BY DEF StoreInv, StoreTypeOK
<1>2. CASE SavesCount(c)
  <2>1. /\ doing[c].pc = "count" /\ count' = [count EXCEPT ![l] = Len(memory[l])]
        /\ Continues(c, 0) /\ UNCHANGED <<memory, blob, torn>>
    BY <1>2 DEF SavesCount
  <2>2. /\ count' \in [Lists -> 0..MaxItems] /\ count'[l] = Len(memory[l])
        /\ \A m \in Lists : m # l => count'[m] = count[m]
    BY <1>1, <2>1
  <2>3. 0 \in 0..Len(memory[l]) /\ \A j \in 1..0 : blob'[l][j] = memory[l][j]
    BY <1>1
  <2>4. QED
    BY <1>1, <2>1, <2>2, <2>3, SaveGoesOn
<1>3. CASE SavesEntry(c)
  <2>1. /\ doing[c].pc = "entry" /\ blob' = [blob EXCEPT ![l][i] = memory[l][i]]
        /\ Continues(c, i) /\ UNCHANGED <<memory, count, torn>>
    BY <1>3 DEF SavesEntry
  <2>2. /\ i \in 1..Len(memory[l]) /\ i \in 1..MaxItems /\ i \in 0..Len(memory[l]) /\ memory[l][i] \in Entries
        /\ ~torn => /\ count[l] = Len(memory[l])
                    /\ \A j \in 1..(i - 1) : blob[l][j] = memory[l][j]
    <3>1. /\ i \in 1..Len(memory[l])
          /\ ~torn => /\ count[l] = Len(memory[l])
                      /\ \A j \in 1..(i - 1) : blob[l][j] = memory[l][j]
      BY <2>1 DEF StoreInv, SavesInOrder
    <3>2. MaxItems \in Nat
      BY StoreAssumption
    <3>3. QED
      BY <1>1, <3>1, <3>2
  <2>3. /\ blob' \in [Lists -> [1..MaxItems -> Entries \cup {None}]]
        /\ \A m \in Lists : m # l => blob'[m] = blob[m]
        /\ \A j \in 1..MaxItems : blob'[l][j] = IF j = i THEN memory[l][i] ELSE blob[l][j]
    BY <1>1, <2>1, <2>2
  <2>4. ~torn => \A j \in 1..i : blob'[l][j] = memory[l][j]
    <3>1. \A j \in 1..i : j \in 1..MaxItems /\ (j = i \/ j \in 1..(i - 1))
      <4>1. i \in 1..MaxItems /\ MaxItems \in Nat
        BY <2>2, StoreAssumption
      <4> HIDE DEF i, l
      <4>2. QED
        BY <4>1
    <3>2. QED
      BY <2>2, <2>3, <3>1
  <2>5. /\ count' \in [Lists -> 0..MaxItems]
        /\ \A m \in Lists : m # l => count'[m] = count[m] /\ blob'[m] = blob[m]
        /\ ~torn => count'[l] = Len(memory[l]) /\ \A j \in 1..i : blob'[l][j] = memory[l][j]
    BY <1>1, <2>1, <2>2, <2>3, <2>4
  <2>6. doing[c].pc \in {"count", "entry"} /\ l \in Lists /\ i \in 0..Len(memory[l])
    BY <1>1, <2>1, <2>2
  <2>7. QED
    BY <2>1, <2>3, <2>5, <2>6, SaveGoesOn
<1>4. QED
  BY <1>2, <1>3

(* A list that is changed is about to be saved, and the other is the flash's.*)
LEMMA ChangesKeep ==
    ASSUME StoreInv, NEW c \in Clients, NEW l \in Lists, NEW changed \in Seq(Entries),
           Len(changed) <= MaxItems, Changes(c, l, changed)
    PROVE  StoreInv'
<1>1. /\ doing[c].pc = "idle" /\ holder = None /\ None \notin Clients
      /\ memory' = [memory EXCEPT ![l] = changed] /\ holder' = c
      /\ doing' = [doing EXCEPT ![c] = Saves(l)] /\ torn' = (torn \/ Resetting)
      /\ UNCHANGED <<count, blob, unsaved>>
  BY StoreAssumption DEF Changes
<1> DEFINE Doings == [pc : {"idle", "load", "count", "entry", "clear"}, list : Lists, i : 0..MaxItems]
<1>2. Saves(l) \in Doings /\ Saves(l).pc = "count" /\ Saves(l).list = l
  BY StoreAssumption DEF Saves
<1> HIDE DEF Doings
<1>3. doing \in [Clients -> Doings] /\ \A d \in Clients : doing[d].pc \notin {"load", "count", "entry"}
  BY <1>1 DEF StoreInv, StoreTypeOK, Exclusive, Doings
<1>4. /\ doing' \in [Clients -> Doings] /\ doing'[c] = Saves(l)
      /\ \A d \in Clients : d # c => doing'[d] = doing[d]
  BY <1>1, <1>2, <1>3
<1>5. /\ memory' \in [Lists -> Seq(Entries)] /\ \A m \in Lists : Len(memory'[m]) <= MaxItems
      /\ \A m \in Lists : m # l => memory'[m] = memory[m]
  BY <1>1 DEF StoreInv, StoreTypeOK
<1>6. StoreTypeOK'
  BY <1>1, <1>4, <1>5 DEF StoreInv, StoreTypeOK, Doings
<1>7. Exclusive' /\ SavesInOrder'
  BY <1>1, <1>2, <1>3, <1>4 DEF Exclusive, SavesInOrder
<1>8. Resetting' => Resetting
  BY <1>2, <1>4 DEF Resetting
<1>9. ResetAlone'
  BY <1>1, <1>8 DEF ResetAlone
<1>10. RestAgrees'
  <2> SUFFICES ASSUME ~torn', NEW m \in Lists, m \notin unsaved, ~Saving(m)'
               PROVE  Agrees(m)'
    BY <1>1 DEF RestAgrees
  <2>1. m # l
    BY <1>2, <1>4 DEF Saving
  <2>2. ~Saving(m)
    BY <1>3 DEF Saving
  <2>3. Agrees(m)
    BY <1>1, <2>2 DEF StoreInv, RestAgrees
  <2>4. Loaded(m)' = Loaded(m) /\ memory'[m] = memory[m]
    BY <1>1, <1>5, <2>1, LoadedIsFlash
  <2>5. QED
    BY <2>3, <2>4 DEF Agrees
<1>11. QED
  BY <1>6, <1>7, <1>9, <1>10 DEF StoreInv

(* What a request makes of a list is again a list that fits.                *)
LEMMA RequestIsAChange ==
    ASSUME StoreTypeOK, Requests
    PROVE  \E c \in Clients :
              \/ Reset(c) \/ ResetFails(c)
              \/ \E l \in Lists : \E changed \in Seq(Entries) :
                    Len(changed) <= MaxItems /\ Changes(c, l, changed)
<1> DEFINE Does(c) ==
              \E l \in Lists : \E changed \in Seq(Entries) :
                  Len(changed) <= MaxItems /\ Changes(c, l, changed)
<1>1. /\ \A l \in Lists : memory[l] \in Seq(Entries) /\ Len(memory[l]) \in Nat /\ Len(memory[l]) <= MaxItems
      /\ MaxItems \in Nat /\ "networks" \in Lists /\ "vars" \in Lists
  BY StoreAssumption DEF StoreTypeOK, Lists
<1>2. \A k \in Keys, v \in Nat : Entry(k, v) \in Entries
  BY DEF Entry, Entries
<1>3. ASSUME NEW l \in Lists, NEW k \in Keys, NEW v \in Nat, Len(memory[l]) < MaxItems
      PROVE  Append(memory[l], Entry(k, v)) \in Seq(Entries) /\ Len(Append(memory[l], Entry(k, v))) <= MaxItems
  <2>1. Entry(k, v) \in Entries
    BY <1>2
  <2>2. /\ Append(memory[l], Entry(k, v)) \in Seq(Entries)
        /\ Len(Append(memory[l], Entry(k, v))) = Len(memory[l]) + 1
    BY <1>1, <2>1, AppendProperties
  <2>3. QED
    BY <1>1, <1>3, <2>2
<1>4. ASSUME NEW l \in Lists, NEW k \in Keys, NEW v \in Nat, NEW i \in Places(l, k)
      PROVE  /\ [memory[l] EXCEPT ![i] = Entry(k, v)] \in Seq(Entries)
             /\ Len([memory[l] EXCEPT ![i] = Entry(k, v)]) <= MaxItems
  BY <1>1, <1>2 DEF Places
<1>5. ASSUME NEW c \in Clients, NEW k \in Keys, NEW v \in Nat,
             AddNetwork(c, k, v) \/ UpdateNetwork(c, k, v) \/ SetVar(c, k, v)
      PROVE  Does(c)
  <2>1. CASE AddNetwork(c, k, v)
    BY <1>1, <1>3, <2>1 DEF AddNetwork
  <2>2. CASE UpdateNetwork(c, k, v)
    BY <1>1, <1>4, <2>2 DEF UpdateNetwork
  <2>3. CASE SetVar(c, k, v)
    BY <1>1, <1>3, <1>4, <2>3 DEF SetVar
  <2>4. QED
    BY <1>5, <2>1, <2>2, <2>3
<1>6. ASSUME NEW c \in Clients, NEW l \in Lists, NEW k \in Keys, Remove(c, l, k)
      PROVE  Does(c)
  <2>1. PICK i \in Places(l, k) :
           Changes(c, l, [j \in 1..(Len(memory[l]) - 1) |-> memory[l][IF j < i THEN j ELSE j + 1]])
    BY <1>6 DEF Remove
  <2> DEFINE n == Len(memory[l])
             rest == [j \in 1..(n - 1) |-> memory[l][IF j < i THEN j ELSE j + 1]]
  <2>2. i \in 1..n /\ n \in Nat /\ n - 1 \in Nat
    BY <1>1 DEF Places
  <2>3. \A j \in 1..(n - 1) : (IF j < i THEN j ELSE j + 1) \in 1..n
    BY <2>2
  <2>4. \A j \in 1..(n - 1) : rest[j] \in Entries
    BY <1>1, <2>3
  <2>5. rest \in Seq(Entries) /\ Len(rest) = n - 1
    <3>1. rest \in [1..(n - 1) -> Entries] /\ DOMAIN rest = 1..(n - 1)
      BY <2>4
    <3>2. n - 1 \in Nat
      BY <2>2
    <3> HIDE DEF rest, n
    <3>3. QED
      BY <3>1, <3>2
  <2>6. Len(rest) <= MaxItems
    BY <1>1, <2>2, <2>5
  <2>7. QED
    BY <2>1, <2>5, <2>6
<1>7. "http" \in Clients /\ "cli" \in Clients /\ "ble" \in Clients /\ "bus" \in Clients
      /\ Given \subseteq Nat /\ 0 \in Nat /\ 10 \in Nat
  BY StoreAssumption DEF Clients
<1> HIDE DEF Does
<1>8. \E c \in Clients : Reset(c) \/ ResetFails(c) \/ Does(c)
  <2>1. CASE HttpPostNetwork \/ HttpPutNetwork \/ HttpDeleteNetwork \/ HttpPutVar \/ HttpDeleteVar \/ HttpFactoryReset
    BY <1>1, <1>5, <1>6, <1>7, <2>1 DEF HttpPostNetwork, HttpPutNetwork, HttpDeleteNetwork, HttpPutVar, HttpDeleteVar,
       HttpFactoryReset
  <2>2. CASE CliAdd \/ CliDel \/ CliVarSet \/ CliReset
    BY <1>1, <1>5, <1>6, <1>7, <2>2 DEF CliAdd, CliDel, CliVarSet, CliReset
  <2>3. CASE BleAdd \/ BleDel \/ BleSetVar \/ BleReset
    BY <1>1, <1>5, <1>6, <1>7, <2>3 DEF BleAdd, BleDel, BleSetVar, BleReset
  <2>4. CASE BusRequest
    BY <1>1, <1>5, <1>6, <1>7, <2>4 DEF BusRequest
  <2>5. QED
    BY <2>1, <2>2, <2>3, <2>4 DEF Requests
<1>9. QED
  BY <1>8 DEF Does

(* A reset that finds the mutex free leaves an empty flash, ...             *)
LEMMA ResetKeeps ==
    ASSUME StoreInv, NEW c \in Clients, Reset(c)
    PROVE  StoreInv'
<1> DEFINE Doings == [pc : {"idle", "load", "count", "entry", "clear"}, list : Lists, i : 0..MaxItems]
           clears == [Resting EXCEPT !.pc = "clear"]
<1>1. /\ doing[c].pc = "idle" /\ count' = [l \in Lists |-> 0]
      /\ blob' = [l \in Lists |-> [i \in 1..MaxItems |-> None]]
      /\ doing' = [doing EXCEPT ![c] = clears] /\ torn' = (torn \/ holder # None)
      /\ UNCHANGED <<memory, holder, unsaved>>
  BY DEF Reset
<1>2. clears \in Doings /\ clears.pc = "clear"
  BY StoreAssumption DEF Resting, Lists
<1> HIDE DEF clears, Doings
<1>3. doing \in [Clients -> Doings]
  BY DEF StoreInv, StoreTypeOK, Doings
<1>4. /\ doing' \in [Clients -> Doings] /\ doing'[c].pc = "clear"
      /\ \A d \in Clients : d # c => doing'[d] = doing[d]
  BY <1>1, <1>2, <1>3
<1>5. count' \in [Lists -> 0..MaxItems] /\ blob' \in [Lists -> [1..MaxItems -> Entries \cup {None}]]
  BY <1>1, StoreAssumption
<1>6. StoreTypeOK'
  BY <1>1, <1>4, <1>5 DEF StoreInv, StoreTypeOK, Doings
<1>7. Exclusive'
  <2>1. holder # c
    BY <1>1 DEF StoreInv, Exclusive
  <2>2. QED
    BY <1>1, <1>4, <2>1 DEF StoreInv, Exclusive
<1>8. SavesInOrder'
  <2> SUFFICES ASSUME NEW d \in Clients, doing'[d].pc = "entry"
               PROVE  /\ doing'[d].i \in 1..Len(memory'[doing'[d].list])
                      /\ torn'
    BY DEF SavesInOrder
  <2>1. doing'[d] = doing[d] /\ holder = d
    BY <1>4 DEF StoreInv, Exclusive
  <2>2. d # None
    BY StoreAssumption
  <2>3. QED
    BY <1>1, <2>1, <2>2 DEF StoreInv, SavesInOrder
<1>9. Resetting'
  BY <1>4 DEF Resetting
<1>10. ResetAlone' /\ RestAgrees'
  BY <1>1, <1>9 DEF ResetAlone, RestAgrees
<1>11. QED
  BY <1>6, <1>7, <1>8, <1>10 DEF StoreInv

(* ... one that fails, lists that need not agree, ...                       *)
LEMMA ResetFailsKeeps ==
    ASSUME StoreInv, NEW c \in Clients, ResetFails(c)
    PROVE  StoreInv'
<1>1. PICK gone \in SUBSET (Lists \X (0..MaxItems)) :
         /\ count' = [l \in Lists |-> IF <<l, 0>> \in gone THEN 0 ELSE count[l]]
         /\ blob' = [l \in Lists |-> [i \in 1..MaxItems |-> IF <<l, i>> \in gone THEN None ELSE blob[l][i]]]
  BY DEF ResetFails
<1>2. unsaved' = Lists /\ torn' = (torn \/ holder # None) /\ UNCHANGED <<memory, holder, doing>>
  BY DEF ResetFails
<1>3. count' \in [Lists -> 0..MaxItems] /\ blob' \in [Lists -> [1..MaxItems -> Entries \cup {None}]]
  BY <1>1, StoreAssumption DEF StoreInv, StoreTypeOK
<1>4. StoreTypeOK' /\ Exclusive'
  BY <1>2, <1>3 DEF StoreInv, StoreTypeOK, Exclusive
<1>5. SavesInOrder'
  <2> SUFFICES ASSUME NEW d \in Clients, doing[d].pc = "entry"
               PROVE  doing[d].i \in 1..Len(memory[doing[d].list]) /\ torn'
    BY <1>2 DEF SavesInOrder
  <2>1. holder = d /\ d # None
    BY StoreAssumption DEF StoreInv, Exclusive
  <2>2. QED
    BY <1>2, <2>1 DEF StoreInv, SavesInOrder
<1>6. ResetAlone'
  <2>1. Resetting' <=> Resetting
    BY <1>2 DEF Resetting
  <2>2. \A l \in Lists : count[l] = 0 => count'[l] = 0
    BY <1>1
  <2>3. QED
    BY <1>2, <2>1, <2>2 DEF StoreInv, ResetAlone
<1>7. RestAgrees'
  BY <1>2 DEF RestAgrees
<1>8. QED
  BY <1>4, <1>5, <1>6, <1>7 DEF StoreInv

(* ... and lists that are empty like it.                                    *)
LEMMA ClearsKeeps ==
    ASSUME StoreInv, NEW c \in Clients, ResetClears(c)
    PROVE  StoreInv'
<1> DEFINE Doings == [pc : {"idle", "load", "count", "entry", "clear"}, list : Lists, i : 0..MaxItems]
<1>1. /\ doing[c].pc = "clear" /\ holder = None /\ None \notin Clients
      /\ memory' = [l \in Lists |-> <<>>] /\ doing' = [doing EXCEPT ![c] = Resting]
      /\ unsaved' = {} /\ UNCHANGED <<count, blob, holder, torn>>
  BY StoreAssumption DEF ResetClears
<1>2. Resting \in Doings /\ Resting.pc = "idle"
  BY StoreAssumption DEF Resting, Lists
<1> HIDE DEF Doings
<1>3. doing \in [Clients -> Doings] /\ \A d \in Clients : doing[d].pc \notin {"load", "count", "entry"}
  BY <1>1 DEF StoreInv, StoreTypeOK, Exclusive, Doings
<1>4. /\ doing' \in [Clients -> Doings] /\ doing'[c].pc = "idle"
      /\ \A d \in Clients : d # c => doing'[d] = doing[d]
  BY <1>1, <1>2, <1>3
<1>5. \A l \in Lists : memory'[l] = <<>> /\ memory'[l] \in Seq(Entries) /\ Len(memory'[l]) = 0 /\ 0 <= MaxItems
  BY <1>1, StoreAssumption
<1>6. StoreTypeOK'
  BY <1>1, <1>4, <1>5 DEF StoreInv, StoreTypeOK, Doings
<1>7. Exclusive' /\ SavesInOrder'
  BY <1>1, <1>3, <1>4 DEF Exclusive, SavesInOrder
<1>8. ~torn => \A l \in Lists : count[l] = 0
  BY <1>1 DEF StoreInv, ResetAlone, Resetting
<1>9. ResetAlone'
  BY <1>1, <1>8 DEF ResetAlone
<1>10. RestAgrees'
  <2> SUFFICES ASSUME ~torn, NEW l \in Lists
               PROVE  Agrees(l)'
    BY <1>1 DEF RestAgrees
  <2>1. FromFlash(blob'[l], 0) = <<>>
    BY EmptyIsRead
  <2>2. Loaded(l)' = <<>>
    BY <1>1, <1>8, <2>1, LoadedIsFlash
  <2>3. QED
    BY <1>5, <2>2 DEF Agrees
<1>11. QED
  BY <1>6, <1>7, <1>9, <1>10 DEF StoreInv

(* Sorting keeps the entries, whatever their order.                         *)
LEMMA SortKeeps ==
    ASSUME StoreInv, SortNetworks
    PROVE  StoreInv'
<1> DEFINE nets == memory["networks"]
<1>1. PICK place \in [DOMAIN nets -> DOMAIN nets] :
         /\ {place[i] : i \in DOMAIN nets} = DOMAIN nets
         /\ memory' = [memory EXCEPT !["networks"] = [i \in DOMAIN nets |-> nets[place[i]]]]
  BY DEF SortNetworks
<1> DEFINE sorted == [i \in DOMAIN nets |-> nets[place[i]]]
<1>2. holder = None /\ None \notin Clients /\ UNCHANGED <<count, blob, holder, doing, torn, unsaved>>
  BY StoreAssumption DEF SortNetworks
<1>3. nets \in Seq(Entries) /\ Len(nets) \in Nat /\ Len(nets) <= MaxItems /\ DOMAIN nets = 1..Len(nets)
  BY DEF StoreInv, StoreTypeOK, Lists
<1>4. sorted \in Seq(Entries) /\ Len(sorted) = Len(nets) /\ DOMAIN sorted = DOMAIN nets
  <2>1. \A i \in 1..Len(nets) : place[i] \in 1..Len(nets) /\ nets[place[i]] \in Entries
    BY <1>3
  <2>2. QED
    BY <1>3, <2>1
<1>5. Members(sorted) = Members(nets)
  <2>1. Members(sorted) = {nets[place[i]] : i \in DOMAIN nets}
    BY <1>4 DEF Members
  <2>2. {nets[place[i]] : i \in DOMAIN nets} = {nets[j] : j \in {place[i] : i \in DOMAIN nets}}
    OBVIOUS
  <2>3. QED
    BY <1>1, <2>1, <2>2 DEF Members
<1> HIDE DEF sorted
<1>6. ASSUME NEW l \in Lists
      PROVE  /\ memory'[l] \in Seq(Entries) /\ Len(memory'[l]) = Len(memory[l])
             /\ Members(memory'[l]) = Members(memory[l])
             /\ Len(memory[l]) <= MaxItems
  <2>1. memory'[l] = memory[l] \/ (l = "networks" /\ memory'[l] = sorted)
    BY <1>1 DEF sorted
  <2>2. QED
    BY <1>3, <1>4, <1>5, <2>1 DEF StoreInv, StoreTypeOK
<1>7. StoreTypeOK' /\ Exclusive' /\ SavesInOrder' /\ ResetAlone'
  <2>0. memory' \in [Lists -> Seq(Entries)]
    BY <1>1, <1>3, <1>4 DEF sorted, StoreInv, StoreTypeOK
  <2>1. StoreTypeOK' /\ Exclusive'
    BY <1>2, <1>6, <2>0 DEF StoreInv, StoreTypeOK, Exclusive
  <2>2. \A c \in Clients : doing[c].pc # "entry"
    BY <1>2 DEF StoreInv, Exclusive
  <2>3. SavesInOrder' /\ ResetAlone'
    BY <1>2, <2>2 DEF StoreInv, SavesInOrder, ResetAlone, Resetting
  <2>4. QED
    BY <2>1, <2>3
<1>8. RestAgrees'
  <2>1. \A l \in Lists : Loaded(l)' = Loaded(l) /\ (Saving(l)' <=> Saving(l))
    BY <1>2, LoadedIsFlash DEF Saving
  <2>2. QED
    BY <1>2, <1>6, <2>1 DEF StoreInv, RestAgrees, Agrees, Resetting
<1>9. QED
  BY <1>7, <1>8 DEF StoreInv

(* A restart finds the flash as it was.                                     *)
LEMMA RestartsKeeps ==
    ASSUME StoreInv, Restarts
    PROVE  StoreInv'
<1>1. /\ holder' = "boot" /\ torn' = FALSE /\ doing' = Booting
      /\ unsaved' = {l \in Lists : l \in unsaved \/ Saving(l) \/ Resetting \/ torn}
      /\ UNCHANGED <<memory, count, blob>>
  BY DEF Restarts
<1>2. /\ \A c \in Clients : doing'[c].pc = IF c = "boot" THEN "load" ELSE "idle"
      /\ doing' \in [Clients -> [pc : {"idle", "load", "count", "entry", "clear"}, list : Lists, i : 0..MaxItems]]
  BY <1>1, StoreAssumption DEF Booting, Loads, Resting, Clients, Lists
<1>3. StoreTypeOK'
  BY <1>1, <1>2 DEF StoreInv, StoreTypeOK, Clients
<1>4. RestAgrees'
  <2> SUFFICES ASSUME NEW l \in Lists, l \notin unsaved'
               PROVE  Agrees(l)'
    BY DEF RestAgrees
  <2>1. Agrees(l)
    BY <1>1 DEF StoreInv, RestAgrees
  <2>2. Loaded(l)' = Loaded(l)
    BY <1>1, LoadedIsFlash
  <2>3. QED
    BY <1>1, <2>1, <2>2 DEF Agrees
<1>5. QED
  BY <1>1, <1>2, <1>3, <1>4 DEF StoreInv, Exclusive, SavesInOrder, ResetAlone, Resetting, Clients

(* Every step keeps the invariant.                                          *)
LEMMA StoreStep == StoreInv /\ [StoreNext]_storeVars => StoreInv'
<1> SUFFICES ASSUME StoreInv, [StoreNext]_storeVars
             PROVE  StoreInv'
  OBVIOUS
<1>1. CASE UNCHANGED storeVars
  <2>1. UNCHANGED <<memory, count, blob, holder, doing, torn, unsaved>>
    BY <1>1 DEF storeVars
  <2>2. \A l \in Lists : Loaded(l)' = Loaded(l)
    BY <2>1, LoadedIsFlash
  <2>3. (StoreTypeOK /\ Exclusive /\ SavesInOrder)'
    BY <2>1 DEF StoreInv, StoreTypeOK, Exclusive, SavesInOrder
  <2>4. ResetAlone' /\ (Resetting' <=> Resetting)
    BY <2>1 DEF StoreInv, ResetAlone, Resetting
  <2>5. \A l \in Lists : (Saving(l)' <=> Saving(l)) /\ (Agrees(l) => Agrees(l)')
    BY <2>1, <2>2 DEF Saving, Agrees
  <2>6. RestAgrees'
    BY <2>1, <2>4, <2>5 DEF StoreInv, RestAgrees
  <2>7. QED
    BY <2>3, <2>4, <2>6 DEF StoreInv
<1>2. CASE Requests
  <2>1. PICK c \in Clients :
           \/ Reset(c) \/ ResetFails(c)
           \/ \E l \in Lists : \E changed \in Seq(Entries) :
                 Len(changed) <= MaxItems /\ Changes(c, l, changed)
    BY <1>2, RequestIsAChange DEF StoreInv
  <2>2. QED
    BY <2>1, ResetKeeps, ResetFailsKeeps, ChangesKeep
<1>3. QED
  BY <1>1, <1>2, BootsKeeps, SavesKeep, FailKeeps, ClearsKeeps, SortKeeps, RestartsKeeps DEF StoreNext

(* What the interfaces list is what a restart finds, for any number of      *)
(* networks, variables, requests, restarts and faults, with the exceptions  *)
(* of ReloadsWhatIsListed: a load, save or erasure that failed or was cut   *)
(* short, and a factory reset that overlaps another request.                *)
THEOREM FlashHasWhatIsListed == StoreSpec => []ReloadsWhatIsListed
<1>1. StoreInv => ReloadsWhatIsListed
  BY DEF StoreInv, RestAgrees, Agrees, ReloadsWhatIsListed
<1>2. QED
  BY <1>1, StoreStart, StoreStep, PTL DEF StoreSpec

-----------------------------------------------------------------------------
(***************************************************************************)
(* The Wi-Fi manager.  Station and access point change first in the        *)
(* driver; an event follows, through posted and queue, and the manager     *)
(* learns of it when it receives the event.  The invariant says what the   *)
(* last event under way will make the manager believe, and what it         *)
(* believes already when none is.                                          *)
(***************************************************************************)

StationEvents == {"sta_connected", "sta_disconnected"}
ApEvents == {"ap_start", "ap_stop"}

(* The last of the events of K in s, if there is one, is in G.             *)
LastIsIn(s, K, G) ==
    \A i \in DOMAIN s :
        s[i] \in K /\ (\A j \in DOMAIN s : j > i => s[j] \notin K) => s[i] \in G

(* No event of K is in s.                                                  *)
Free(s, K) == \A i \in DOMAIN s : s[i] \notin K

(* The last event of K on its way, if there is one, is in G: those in p    *)
(* will come after those in q.                                             *)
Tells(q, p, K, G) == LastIsIn(p, K, G) /\ (Free(p, K) => LastIsIn(q, K, G))

(* No event of K is on its way.                                            *)
Settled(q, p, K) == Free(p, K) /\ Free(q, K)

(* The driver reports an event of K: it is the last one.                   *)
LEMMA ReportIsLast ==
    ASSUME NEW q, NEW p \in Seq(Events), NEW K, NEW G, NEW e \in Events, e \in K, e \in G
    PROVE  Tells(q, Append(p, e), K, G) /\ ~Settled(q, Append(p, e), K)
<1> DEFINE r == Append(p, e)
<1>1. /\ Len(p) \in Nat /\ DOMAIN p = 1..Len(p) /\ DOMAIN r = 1..(Len(p) + 1)
      /\ r[Len(p) + 1] = e
  BY AppendProperties
<1> HIDE DEF r
<1>2. Len(p) + 1 \in DOMAIN r
  BY <1>1
<1>3. ~Free(r, K)
  BY <1>1, <1>2 DEF Free
<1>4. LastIsIn(r, K, G)
  <2> SUFFICES ASSUME NEW i \in DOMAIN r, \A j \in DOMAIN r : j > i => r[j] \notin K
               PROVE  r[i] \in G
    BY DEF LastIsIn
  <2>1. ~(Len(p) + 1 > i)
    BY <1>1, <1>2
  <2>2. i = Len(p) + 1
    BY <1>1, <2>1
  <2>3. QED
    BY <1>1, <2>2
<1>5. QED
  BY <1>3, <1>4 DEF Tells, Settled, r

(* An event that is not of K changes nothing for K, at the end of a list.  *)
LEMMA OthersDoNotCount ==
    ASSUME NEW s \in Seq(Events), NEW K, NEW G, NEW e \in Events, e \notin K
    PROVE  /\ LastIsIn(s, K, G) => LastIsIn(Append(s, e), K, G)
           /\ Free(Append(s, e), K) <=> Free(s, K)
<1> DEFINE r == Append(s, e)
<1>1. /\ Len(s) \in Nat /\ DOMAIN s = 1..Len(s) /\ DOMAIN r = 1..(Len(s) + 1)
      /\ r[Len(s) + 1] = e /\ \A i \in 1..Len(s) : r[i] = s[i]
  BY AppendProperties
<1> HIDE DEF r
<1>2. ASSUME NEW i \in DOMAIN r
      PROVE  i = Len(s) + 1 \/ (i \in DOMAIN s /\ r[i] = s[i])
  <2>1. i \in 1..(Len(s) + 1)
    BY <1>1
  <2>2. CASE i \in 1..Len(s)
    <3>1. r[i] = s[i]
      BY <1>1, <2>2
    <3>2. i \in DOMAIN s
      BY <1>1, <2>2
    <3>3. QED
      BY <3>1, <3>2
  <2>3. QED
    BY <1>1, <2>1, <2>2
<1>3. \A i \in DOMAIN s : i \in DOMAIN r /\ r[i] = s[i]
  BY <1>1
<1>4. Free(r, K) <=> Free(s, K)
  BY <1>1, <1>2, <1>3 DEF Free
<1>5. ASSUME LastIsIn(s, K, G)
      PROVE  LastIsIn(r, K, G)
  <2> SUFFICES ASSUME NEW i \in DOMAIN r, r[i] \in K, \A j \in DOMAIN r : j > i => r[j] \notin K
               PROVE  r[i] \in G
    BY DEF LastIsIn
  <2>1. i \in DOMAIN s /\ r[i] = s[i]
    BY <1>1, <1>2
  <2>2. \A j \in DOMAIN s : j > i => s[j] \notin K
    BY <1>3
  <2>3. QED
    BY <1>5, <2>1, <2>2 DEF LastIsIn
<1>6. QED
  BY <1>4, <1>5 DEF r

(* What is taken from the front was not the last, unless it was alone.     *)
LEMMA FrontIsTaken ==
    ASSUME NEW s \in Seq(Events), s # <<>>, NEW K, NEW G, LastIsIn(s, K, G)
    PROVE  /\ LastIsIn(Tail(s), K, G)
           /\ Head(s) \in K /\ Free(Tail(s), K) => Head(s) \in G
           /\ Head(s) \notin K => (Free(Tail(s), K) <=> Free(s, K))
           /\ Head(s) \in K => ~Free(s, K)
<1> DEFINE r == Tail(s)
           h == Head(s)
<1>1. /\ Len(s) \in Nat \ {0} /\ DOMAIN s = 1..Len(s) /\ DOMAIN r = 1..(Len(s) - 1)
      /\ h = s[1] /\ \A i \in 1..(Len(s) - 1) : r[i] = s[i + 1]
  BY EmptySeq, HeadTailProperties
<1> HIDE DEF r, h
<1>2. \A i \in DOMAIN r : i + 1 \in DOMAIN s /\ r[i] = s[i + 1]
  BY <1>1
<1>3. ASSUME NEW i \in DOMAIN s
      PROVE  i = 1 \/ (i - 1 \in DOMAIN r /\ s[i] = r[i - 1])
  <2>1. i \in 1..Len(s)
    BY <1>1
  <2>2. CASE i # 1
    <3>1. i - 1 \in 1..(Len(s) - 1) /\ (i - 1) + 1 = i
      BY <1>1, <2>1, <2>2
    <3>2. r[i - 1] = s[(i - 1) + 1]
      BY <1>1, <3>1
    <3>3. i - 1 \in DOMAIN r
      BY <1>1, <3>1
    <3>4. QED
      BY <3>1, <3>2, <3>3
  <2>3. QED
    BY <2>2
<1>4. LastIsIn(r, K, G)
  <2> SUFFICES ASSUME NEW i \in DOMAIN r, r[i] \in K, \A j \in DOMAIN r : j > i => r[j] \notin K
               PROVE  r[i] \in G
    BY DEF LastIsIn
  <2>1. ASSUME NEW j \in DOMAIN s, j > i + 1
        PROVE  s[j] \notin K
    <3>1. j - 1 \in DOMAIN r /\ s[j] = r[j - 1] /\ j - 1 > i
      BY <1>1, <1>3, <2>1
    <3>2. QED
      BY <3>1
  <2>2. QED
    BY <1>2, <2>1 DEF LastIsIn
<1>5. ASSUME h \in K, Free(r, K)
      PROVE  h \in G
  <2>1. \A j \in DOMAIN s : j > 1 => s[j] \notin K
    BY <1>1, <1>3, <1>5 DEF Free
  <2>2. QED
    BY <1>1, <1>5, <2>1 DEF LastIsIn
<1>6. h \notin K => (Free(r, K) <=> Free(s, K))
  BY <1>1, <1>2, <1>3 DEF Free
<1>7. h \in K => ~Free(s, K)
  BY <1>1 DEF Free
<1>8. QED
  BY <1>4, <1>5, <1>6, <1>7 DEF r, h

(* A handler moves the first event of p to the end of q.                   *)
LEMMA EventMovesOn ==
    ASSUME NEW q \in Seq(Events), NEW p \in Seq(Events), p # <<>>, NEW K, NEW G, Tells(q, p, K, G)
    PROVE  /\ Tells(Append(q, Head(p)), Tail(p), K, G)
           /\ Settled(Append(q, Head(p)), Tail(p), K) <=> Settled(q, p, K)
<1>1. PICK e : e = Head(p)
  OBVIOUS
<1>2. e \in Events
  BY <1>1, EmptySeq, HeadTailProperties
<1>3. /\ LastIsIn(Tail(p), K, G) /\ (e \in K /\ Free(Tail(p), K) => e \in G)
      /\ e \notin K => (Free(Tail(p), K) <=> Free(p, K))
      /\ e \in K => ~Free(p, K)
  BY <1>1, FrontIsTaken DEF Tells
<1>4. CASE e \in K
  <2>1. e \in G => LastIsIn(Append(q, e), K, G)
    BY <1>2, <1>4, ReportIsLast DEF Tells
  <2>2. ~Free(Append(q, e), K)
    <3>1. /\ Len(q) \in Nat /\ DOMAIN Append(q, e) = 1..(Len(q) + 1)
          /\ Append(q, e)[Len(q) + 1] = e
      BY <1>2, AppendProperties
    <3>2. Len(q) + 1 \in DOMAIN Append(q, e)
      BY <3>1
    <3>3. QED
      BY <1>4, <3>1, <3>2 DEF Free
  <2>3. QED
    BY <1>1, <1>3, <1>4, <2>1, <2>2 DEF Tells, Settled
<1>5. CASE e \notin K
  <2>1. /\ LastIsIn(q, K, G) => LastIsIn(Append(q, e), K, G)
        /\ Free(Append(q, e), K) <=> Free(q, K)
    BY <1>2, <1>5, OthersDoNotCount
  <2>2. QED
    BY <1>1, <1>3, <1>5, <2>1 DEF Tells, Settled
<1>6. QED
  BY <1>4, <1>5

(* The manager receives the first event of q.                              *)
LEMMA EventArrives ==
    ASSUME NEW q \in Seq(Events), NEW p, q # <<>>, NEW K, NEW G, Tells(q, p, K, G)
    PROVE  /\ Tells(Tail(q), p, K, G)
           /\ Head(q) \in K /\ Settled(Tail(q), p, K) => Head(q) \in G
           /\ Head(q) \notin K => (Settled(Tail(q), p, K) <=> Settled(q, p, K))
<1>1. CASE Free(p, K)
  <2>1. LastIsIn(q, K, G)
    BY <1>1 DEF Tells
  <2>2. QED
    BY <1>1, <2>1, FrontIsTaken DEF Tells, Settled
<1>2. CASE ~Free(p, K)
  BY <1>2 DEF Tells, Settled
<1>3. QED
  BY <1>1, <1>2

(* An event that is not of K changes nothing for K, wherever it is added.  *)
LEMMA OthersPass ==
    ASSUME NEW q \in Seq(Events), NEW p \in Seq(Events), NEW K, NEW G, NEW e \in Events, e \notin K,
           Tells(q, p, K, G)
    PROVE  /\ Tells(Append(q, e), p, K, G) /\ Tells(q, Append(p, e), K, G)
           /\ Settled(Append(q, e), p, K) <=> Settled(q, p, K)
           /\ Settled(q, Append(p, e), K) <=> Settled(q, p, K)
BY OthersDoNotCount DEF Tells, Settled

-----------------------------------------------------------------------------
(* What the last event on its way has to be.                               *)
StationTruth == IF Associated THEN {"sta_connected"} ELSE {"sta_disconnected"}
ApTruth == {IF apOn THEN "ap_start" ELSE "ap_stop"}

(* The tasks that carry out a procedure of the access point.               *)
Switching(pcs) == \E t \in DOMAIN ap : ap[t] \in pcs

WifiTypes ==
    /\ posted \in Seq(Events) /\ queue \in Seq(Events) /\ Len(queue) <= QueueSize
    /\ station \in {"idle", "joining", "joined", "up"}
    /\ DOMAIN ap = Interfaces \cup {Task}
    /\ apOn \in BOOLEAN /\ apActive \in BOOLEAN /\ dnsRunning \in BOOLEAN /\ lost \in BOOLEAN

(* The station is associated if the manager says so and nothing is to come.*)
StationIsKnown ==
    /\ Tells(queue, posted, StationEvents, StationTruth)
    /\ Settled(queue, posted, StationEvents) /\ mgrState = "connected" => Associated

(* Once nothing is to come the mark of the access point is wrong only      *)
(* while somebody is about to switch it, or if the driver did not.         *)
ApIsKnown ==
    /\ Tells(queue, posted, ApEvents, ApTruth)
    /\ Settled(queue, posted, ApEvents) =>
          /\ apActive /\ ~apOn => "mode" \in failed \/ Switching({"mode", "set"})
          /\ ~apActive /\ apOn => "mode" \in failed \/ Switching({"sta"})

(* An access point without DNS server is being started or stopped, unless  *)
(* something failed.                                                       *)
DnsFollows == apOn /\ ~dnsRunning => failed # {} \/ Switching({"dns", "unmark", "sta"})

WifiInv == WifiTypes /\ DnsFollows /\ (~lost => StationIsKnown /\ ApIsKnown)

(* Nothing has happened but the start of the station.                      *)
LEMMA WifiStart == WifiInit => WifiInv
<1> SUFFICES ASSUME WifiInit
             PROVE  WifiInv
  OBVIOUS
<1>1. /\ posted = <<"sta_start">> /\ queue = <<>> /\ station = "idle" /\ mgrState = "disconnected"
      /\ apOn = FALSE /\ failed = {} /\ apActive = FALSE /\ dnsRunning = FALSE /\ lost = FALSE
      /\ ap = [p \in Interfaces \cup {Task} |-> "none"]
  BY DEF WifiInit
<1>2. WifiTypes
  <2>1. "sta_start" \in Events
    BY DEF Events
  <2>2. <<"sta_start">> \in Seq(Events) /\ <<>> \in Seq(Events)
    BY <2>1
  <2>3. Len(<<>>) <= QueueSize
    BY WifiAssumption
  <2>4. QED
    BY <1>1, <2>2, <2>3 DEF WifiTypes
<1>3. DOMAIN posted = {1} /\ posted[1] = "sta_start" /\ DOMAIN queue = {}
  BY <1>1
<1>4. /\ "sta_start" \notin StationEvents /\ "sta_start" \notin ApEvents
      /\ \A i \in DOMAIN posted : posted[i] = "sta_start"
  BY <1>3 DEF StationEvents, ApEvents
<1>5. /\ Tells(queue, posted, StationEvents, StationTruth)
      /\ Tells(queue, posted, ApEvents, ApTruth)
  <2>1. DOMAIN queue = {}
    BY <1>3
  <2>2. /\ LastIsIn(posted, StationEvents, StationTruth) /\ LastIsIn(queue, StationEvents, StationTruth)
        /\ LastIsIn(posted, ApEvents, ApTruth) /\ LastIsIn(queue, ApEvents, ApTruth)
    BY <1>4, <2>1 DEF LastIsIn
  <2>3. QED
    BY <2>2 DEF Tells
<1>6. QED
  BY <1>1, <1>2, <1>5 DEF WifiInv, DnsFollows, StationIsKnown, ApIsKnown

-----------------------------------------------------------------------------
(***************************************************************************)
(* The steps, by what they do to driver and events.                        *)
(***************************************************************************)

(* A step that leaves driver, events and access point alone, and does not  *)
(* claim a connection.                                                     *)
LEMMA QuietStep ==
    ASSUME WifiInv, UNCHANGED <<station, posted, queue, lost, apOn, failed, apActive, dnsRunning>>,
           mgrState' = "connected" => mgrState = "connected",
           DOMAIN ap' = DOMAIN ap,
           \A t \in DOMAIN ap : ap'[t] = ap[t] \/ ap[t] \notin {"mode", "set", "dns", "unmark", "sta"}
    PROVE  WifiInv'
<1>1. WifiTypes'
  BY DEF WifiInv, WifiTypes
<1>2. /\ Switching({"mode", "set"}) => Switching({"mode", "set"})'
      /\ Switching({"sta"}) => Switching({"sta"})'
      /\ Switching({"dns", "unmark", "sta"}) => Switching({"dns", "unmark", "sta"})'
  BY DEF Switching
<1>3. StationTruth' = StationTruth /\ ApTruth' = ApTruth /\ Associated' = Associated
  BY DEF StationTruth, ApTruth, Associated
<1>4. DnsFollows'
  BY <1>2 DEF WifiInv, DnsFollows
<1>5. ~lost => StationIsKnown' /\ ApIsKnown'
  BY <1>2, <1>3 DEF WifiInv, StationIsKnown, ApIsKnown
<1>6. QED
  BY <1>1, <1>4, <1>5 DEF WifiInv

(* The station changes, and the driver reports it unless it only starts to *)
(* join.                                                                   *)
Moves ==
    /\ \/ posted' = posted /\ station = "idle" /\ station' = "joining"
       \/ posted' = posted /\ station' = station
       \/ posted' = Append(posted, "sta_connected") /\ station' = "joined"
       \/ posted' = Append(posted, "got_ip") /\ station = "joined" /\ station' = "up"
       \/ posted' = Append(posted, "sta_disconnected") /\ station' \in {"idle", "joining"}
    /\ UNCHANGED <<queue, lost, apOn, failed, apActive, dnsRunning, ap>>
    /\ mgrState' \in {mgrState, "connecting"}

(* ... which keeps the invariant.                                          *)
LEMMA MoveKeeps ==
    ASSUME WifiInv, Moves
    PROVE  WifiInv'
<1>1. WifiTypes
  BY DEF WifiInv
<1>2. /\ "sta_connected" \in Events /\ "got_ip" \in Events /\ "sta_disconnected" \in Events
      /\ "sta_connected" \notin ApEvents /\ "got_ip" \notin ApEvents /\ "sta_disconnected" \notin ApEvents
      /\ "got_ip" \notin StationEvents
      /\ "sta_connected" \in StationEvents /\ "sta_disconnected" \in StationEvents
  BY DEF Events, ApEvents, StationEvents
<1>3. /\ \A e \in Events : Append(posted, e) \in Seq(Events)
      /\ station' \in {"idle", "joining", "joined", "up"}
  BY <1>1 DEF WifiTypes, Moves
<1>4. WifiTypes'
  BY <1>1, <1>2, <1>3 DEF WifiTypes, Moves
<1>5. /\ DnsFollows'
      /\ Switching({"mode", "set"})' = Switching({"mode", "set"}) /\ Switching({"sta"})' = Switching({"sta"})
      /\ ApTruth' = ApTruth
  BY DEF WifiInv, DnsFollows, Switching, ApTruth, Moves
<1>6. ASSUME ~lost
      PROVE  StationIsKnown' /\ ApIsKnown'
  <2>1. StationIsKnown /\ ApIsKnown
    BY <1>6 DEF WifiInv
  <2>2. CASE posted' = posted
    <3>1. Associated' = Associated
      BY <2>2 DEF Moves, Associated
    <3>2. StationTruth' = StationTruth
      BY <3>1 DEF StationTruth
    <3>3. QED
      BY <1>5, <2>1, <2>2, <3>1, <3>2 DEF StationIsKnown, ApIsKnown, Moves
  <2>3. ASSUME NEW e \in {"sta_connected", "got_ip", "sta_disconnected"}, posted' = Append(posted, e)
        PROVE  ApIsKnown'
    <3>1. /\ Tells(queue, Append(posted, e), ApEvents, ApTruth)
          /\ Settled(queue, Append(posted, e), ApEvents) <=> Settled(queue, posted, ApEvents)
      BY <1>1, <1>2, <2>1, <2>3, OthersPass DEF WifiTypes, ApIsKnown
    <3>2. QED
      BY <1>5, <2>1, <2>3, <3>1 DEF ApIsKnown, Moves
  <2>4. ASSUME NEW e \in StationEvents, posted' = Append(posted, e), e \in StationTruth'
        PROVE  StationIsKnown'
    <3>1. PICK G : G = StationTruth'
      OBVIOUS
    <3>2. Tells(queue, Append(posted, e), StationEvents, G) /\ ~Settled(queue, Append(posted, e), StationEvents)
      <4>1. e \in Events /\ posted \in Seq(Events) /\ e \in G
        BY <1>1, <1>2, <2>4, <3>1 DEF StationEvents, WifiTypes
      <4>2. QED
        BY <4>1, ReportIsLast
    <3>3. QED
      BY <2>4, <3>1, <3>2 DEF StationIsKnown, Moves
  <2>5. CASE posted' = Append(posted, "sta_connected") /\ station' = "joined"
    <3>1. "sta_connected" \in StationTruth'
      BY <2>5 DEF StationTruth, Associated
    <3>2. QED
      BY <1>2, <2>3, <2>4, <2>5, <3>1
  <2>6. CASE posted' = Append(posted, "sta_disconnected") /\ station' \in {"idle", "joining"}
    <3>1. "sta_disconnected" \in StationTruth'
      BY <2>6 DEF StationTruth, Associated
    <3>2. QED
      BY <1>2, <2>3, <2>4, <2>6, <3>1
  <2>7. CASE posted' = Append(posted, "got_ip") /\ station = "joined" /\ station' = "up"
    <3>1. Associated' /\ Associated /\ StationTruth' = StationTruth
      BY <2>7 DEF StationTruth, Associated
    <3>2. /\ Tells(queue, Append(posted, "got_ip"), StationEvents, StationTruth)
          /\ Settled(queue, Append(posted, "got_ip"), StationEvents) <=> Settled(queue, posted, StationEvents)
      BY <1>1, <1>2, <2>1, OthersPass DEF WifiTypes, StationIsKnown
    <3>3. StationIsKnown'
      BY <2>7, <3>1, <3>2 DEF StationIsKnown, Moves
    <3>4. QED
      BY <2>3, <2>7, <3>3
  <2>8. QED
    BY <2>2, <2>5, <2>6, <2>7 DEF Moves
<1>7. QED
  BY <1>4, <1>5, <1>6 DEF WifiInv, Moves

(* What is put into the queue fits in it.                                  *)
LEMMA EnqueueFits ==
    ASSUME NEW q \in Seq(Events), Len(q) <= QueueSize, NEW e \in Events
    PROVE  LET r == IF Len(q) < QueueSize THEN Append(q, e) ELSE q IN
           r \in Seq(Events) /\ Len(r) <= QueueSize
<1>1. /\ Append(q, e) \in Seq(Events) /\ Len(q) \in Nat /\ Len(Append(q, e)) = Len(q) + 1
      /\ QueueSize \in Nat
  BY WifiAssumption, AppendProperties
<1>2. QED
  BY <1>1

(* The handlers of the event loop pass an event on to the manager.         *)
LEMMA HandlerKeeps ==
    ASSUME WifiInv, HandleEvent
    PROVE  WifiInv'
<1>1. /\ posted # <<>> /\ posted' = Tail(posted)
      /\ queue' = IF Len(queue) < QueueSize THEN Append(queue, Head(posted)) ELSE queue
      /\ lost' = (lost \/ Len(queue) = QueueSize)
      /\ UNCHANGED <<station, apOn, failed, apActive, dnsRunning, mgrState, ap>>
  BY DEF HandleEvent, Enqueue, managerVars
<1>2. WifiTypes
  BY DEF WifiInv
<1>3. PICK e : e = Head(posted)
  OBVIOUS
<1>4. e \in Events /\ Tail(posted) \in Seq(Events)
  BY <1>1, <1>2, <1>3, EmptySeq, HeadTailProperties DEF WifiTypes
<1>5. queue' \in Seq(Events) /\ Len(queue') <= QueueSize
  BY <1>1, <1>2, <1>3, <1>4, EnqueueFits DEF WifiTypes
<1>6. WifiTypes'
  BY <1>1, <1>2, <1>4, <1>5 DEF WifiTypes
<1>7. /\ DnsFollows' /\ Associated' = Associated /\ StationTruth' = StationTruth /\ ApTruth' = ApTruth
      /\ Switching({"mode", "set"})' = Switching({"mode", "set"}) /\ Switching({"sta"})' = Switching({"sta"})
  BY <1>1 DEF WifiInv, DnsFollows, Switching, Associated, StationTruth, ApTruth
<1>8. ASSUME ~lost'
      PROVE  StationIsKnown' /\ ApIsKnown'
  <2>1. StationIsKnown /\ ApIsKnown
    BY <1>1, <1>8 DEF WifiInv
  <2>2. Len(queue) # QueueSize
    BY <1>1, <1>8
  <2>3. queue' = Append(queue, Head(posted))
    <3>1. Len(queue) \in Nat /\ Len(queue) <= QueueSize /\ QueueSize \in Nat
      BY <1>2, WifiAssumption DEF WifiTypes
    <3>2. QED
      BY <1>1, <2>2, <3>1
  <2>4. /\ Tells(Append(queue, Head(posted)), Tail(posted), StationEvents, StationTruth)
        /\ Settled(Append(queue, Head(posted)), Tail(posted), StationEvents)
              <=> Settled(queue, posted, StationEvents)
    BY <1>1, <1>2, <2>1, EventMovesOn DEF WifiTypes, StationIsKnown
  <2>5. /\ Tells(Append(queue, Head(posted)), Tail(posted), ApEvents, ApTruth)
        /\ Settled(Append(queue, Head(posted)), Tail(posted), ApEvents) <=> Settled(queue, posted, ApEvents)
    BY <1>1, <1>2, <2>1, EventMovesOn DEF WifiTypes, ApIsKnown
  <2>6. StationIsKnown'
    BY <1>1, <1>7, <2>1, <2>3, <2>4 DEF StationIsKnown
  <2>7. ApIsKnown'
    BY <1>1, <1>7, <2>1, <2>3, <2>5 DEF ApIsKnown
  <2>8. QED
    BY <2>6, <2>7
<1>9. QED
  BY <1>6, <1>7, <1>8 DEF WifiInv

(* An interface wakes the manager with an event that tells nothing.        *)
LEMMA WakeKeeps ==
    ASSUME WifiInv, NEW i \in Interfaces, AutoConnect(i)
    PROVE  WifiInv'
<1>1. /\ queue' = IF Len(queue) < QueueSize THEN Append(queue, "sta_start") ELSE queue
      /\ lost' = (lost \/ Len(queue) = QueueSize)
      /\ UNCHANGED <<posted, station, apOn, failed, apActive, dnsRunning, mgrState, ap>>
  BY DEF AutoConnect, Enqueue, driverVars, managerVars
<1>2. WifiTypes
  BY DEF WifiInv
<1>3. "sta_start" \in Events /\ "sta_start" \notin StationEvents /\ "sta_start" \notin ApEvents
  BY DEF Events, StationEvents, ApEvents
<1>4. queue' \in Seq(Events) /\ Len(queue') <= QueueSize
  BY <1>1, <1>2, <1>3, EnqueueFits DEF WifiTypes
<1>5. WifiTypes'
  BY <1>1, <1>2, <1>4 DEF WifiTypes
<1>6. /\ DnsFollows' /\ Associated' = Associated /\ StationTruth' = StationTruth /\ ApTruth' = ApTruth
      /\ Switching({"mode", "set"})' = Switching({"mode", "set"}) /\ Switching({"sta"})' = Switching({"sta"})
  BY <1>1 DEF WifiInv, DnsFollows, Switching, Associated, StationTruth, ApTruth
<1>7. ASSUME ~lost'
      PROVE  StationIsKnown' /\ ApIsKnown'
  <2>1. StationIsKnown /\ ApIsKnown
    BY <1>1, <1>7 DEF WifiInv
  <2>2. CASE queue' = queue
    BY <1>1, <1>6, <2>1, <2>2 DEF StationIsKnown, ApIsKnown
  <2>3. CASE queue' = Append(queue, "sta_start")
    <3>1. /\ Tells(Append(queue, "sta_start"), posted, StationEvents, StationTruth)
          /\ Settled(Append(queue, "sta_start"), posted, StationEvents)
                <=> Settled(queue, posted, StationEvents)
      BY <1>2, <1>3, <2>1, OthersPass DEF WifiTypes, StationIsKnown
    <3>2. /\ Tells(Append(queue, "sta_start"), posted, ApEvents, ApTruth)
          /\ Settled(Append(queue, "sta_start"), posted, ApEvents) <=> Settled(queue, posted, ApEvents)
      BY <1>2, <1>3, <2>1, OthersPass DEF WifiTypes, ApIsKnown
    <3>3. QED
      BY <1>1, <1>6, <2>1, <2>3, <3>1, <3>2 DEF StationIsKnown, ApIsKnown
  <2>4. QED
    BY <1>1, <2>2, <2>3
<1>8. QED
  BY <1>5, <1>6, <1>7 DEF WifiInv

(* The manager takes an event and believes it; if it was the last of its   *)
(* kind, it is true.                                                       *)
Learns(event) ==
    /\ queue # <<>> /\ Head(queue) = event /\ queue' = Tail(queue)
    /\ mgrState' = "connected" =>
          event = "sta_connected" \/ (event # "sta_disconnected" /\ mgrState = "connected")
    /\ apActive' = IF event \in ApEvents THEN event = "ap_start" ELSE apActive
    /\ UNCHANGED <<station, posted, apOn, failed, dnsRunning, lost>>
    /\ DOMAIN ap' = DOMAIN ap
    /\ \A t \in DOMAIN ap : ap'[t] = ap[t] \/ ap[t] = "none"

(* ... which keeps the invariant.                                          *)
LEMMA ReceiptKeeps ==
    ASSUME WifiInv, NEW event \in Events, Learns(event)
    PROVE  WifiInv'
<1>1. WifiTypes
  BY DEF WifiInv
<1>2. Tail(queue) \in Seq(Events) /\ Len(Tail(queue)) <= QueueSize
  <2>1. queue \in Seq(Events) /\ queue # <<>> /\ Len(queue) <= QueueSize /\ QueueSize \in Nat
    BY <1>1, WifiAssumption DEF Learns, WifiTypes
  <2>2. Tail(queue) \in Seq(Events) /\ Len(queue) \in Nat /\ Len(Tail(queue)) = Len(queue) - 1
    BY <2>1, EmptySeq, HeadTailProperties
  <2>3. QED
    BY <2>1, <2>2
<1>3. apActive' \in BOOLEAN
  BY <1>1 DEF Learns, WifiTypes
<1>4. WifiTypes'
  BY <1>1, <1>2, <1>3 DEF Learns, WifiTypes
<1>5. /\ Switching({"mode", "set"}) => Switching({"mode", "set"})'
      /\ Switching({"sta"}) => Switching({"sta"})'
      /\ Switching({"dns", "unmark", "sta"}) => Switching({"dns", "unmark", "sta"})'
  BY DEF Switching, Learns
<1>6. DnsFollows' /\ Associated' = Associated /\ StationTruth' = StationTruth /\ ApTruth' = ApTruth
  BY <1>5 DEF WifiInv, DnsFollows, Learns, Associated, StationTruth, ApTruth
<1>7. ASSUME StationIsKnown
      PROVE  StationIsKnown'
  <2>1. /\ Tells(Tail(queue), posted, StationEvents, StationTruth)
        /\ event \in StationEvents /\ Settled(Tail(queue), posted, StationEvents) => event \in StationTruth
        /\ event \notin StationEvents =>
              (Settled(Tail(queue), posted, StationEvents) <=> Settled(queue, posted, StationEvents))
    BY <1>1, <1>7, EventArrives DEF WifiTypes, StationIsKnown, Learns
  <2>2. ASSUME Settled(Tail(queue), posted, StationEvents), mgrState' = "connected"
        PROVE  Associated
    <3>1. CASE event \in StationEvents
      <4>1. event = "sta_connected" /\ event \in StationTruth
        BY <2>1, <2>2, <3>1 DEF Learns, StationEvents
      <4>2. QED
        BY <4>1 DEF StationTruth
    <3>2. CASE event \notin StationEvents
      <4>1. mgrState = "connected"
        BY <2>2, <3>2 DEF Learns, StationEvents
      <4>2. QED
        BY <1>7, <2>1, <2>2, <3>2, <4>1 DEF StationIsKnown
    <3>3. QED
      BY <3>1, <3>2
  <2>3. QED
    BY <1>6, <2>1, <2>2 DEF StationIsKnown, Learns
<1>8. ASSUME ApIsKnown
      PROVE  ApIsKnown'
  <2>1. /\ Tells(Tail(queue), posted, ApEvents, ApTruth)
        /\ event \in ApEvents /\ Settled(Tail(queue), posted, ApEvents) => event \in ApTruth
        /\ event \notin ApEvents =>
              (Settled(Tail(queue), posted, ApEvents) <=> Settled(queue, posted, ApEvents))
    BY <1>1, <1>8, EventArrives DEF WifiTypes, ApIsKnown, Learns
  <2>2. ASSUME Settled(Tail(queue), posted, ApEvents)
        PROVE  /\ apActive' /\ ~apOn => "mode" \in failed \/ Switching({"mode", "set"})'
               /\ ~apActive' /\ apOn => "mode" \in failed \/ Switching({"sta"})'
    <3>1. CASE event \in ApEvents
      <4>1. event \in ApTruth /\ apActive' = (event = "ap_start")
        BY <2>1, <2>2, <3>1 DEF Learns
      <4>2. apActive' <=> apOn
        BY <1>1, <4>1 DEF ApTruth, WifiTypes
      <4>3. QED
        BY <4>2
    <3>2. CASE event \notin ApEvents
      <4>1. apActive' = apActive
        BY <3>2 DEF Learns
      <4>2. /\ apActive /\ ~apOn => "mode" \in failed \/ Switching({"mode", "set"})
            /\ ~apActive /\ apOn => "mode" \in failed \/ Switching({"sta"})
        BY <1>8, <2>1, <2>2, <3>2 DEF ApIsKnown
      <4>3. QED
        BY <1>5, <4>1, <4>2
    <3>3. QED
      BY <3>1, <3>2
  <2>3. QED
    BY <1>6, <2>1, <2>2 DEF ApIsKnown, Learns
<1>9. QED
  BY <1>4, <1>6, <1>7, <1>8 DEF WifiInv, Learns

-----------------------------------------------------------------------------
(* What the steps of the access point's procedures have in common.         *)
LEMMA ApTypes ==
    ASSUME WifiInv, NEW p \in Interfaces \cup {Task}, NEW from, NEW to, ApStep(p, from, to)
    PROVE  /\ DOMAIN ap' = Interfaces \cup {Task} /\ DOMAIN ap = Interfaces \cup {Task}
           /\ ap[p] = from /\ ap'[p] = to
           /\ \A t \in DOMAIN ap : t # p => ap'[t] = ap[t]
           /\ \A pcs : to \in pcs => Switching(pcs)'
           /\ \A pcs : Switching(pcs) /\ (from \in pcs => to \in pcs) => Switching(pcs)'
<1>1. DOMAIN ap = Interfaces \cup {Task} /\ ap[p] = from /\ ap' = [ap EXCEPT ![p] = to]
  BY DEF WifiInv, WifiTypes, ApStep
<1>2. /\ DOMAIN ap' = Interfaces \cup {Task} /\ ap'[p] = to
      /\ \A t \in DOMAIN ap : t # p => ap'[t] = ap[t]
  BY <1>1
<1>3. ASSUME NEW pcs, to \in pcs
      PROVE  Switching(pcs)'
  BY <1>2, <1>3 DEF Switching
<1>4. ASSUME NEW pcs, Switching(pcs), from \in pcs => to \in pcs
      PROVE  Switching(pcs)'
  <2>1. PICK t \in DOMAIN ap : ap[t] \in pcs
    BY <1>4 DEF Switching
  <2>2. CASE t = p
    BY <1>1, <1>3, <1>4, <2>1, <2>2
  <2>3. CASE t # p
    BY <1>1, <1>2, <2>1, <2>3 DEF Switching
  <2>4. QED
    BY <2>2, <2>3
<1>5. QED
  BY <1>1, <1>2, <1>3, <1>4

(* A step of a procedure that leaves the mode as it is.                    *)
LEMMA ApStepKeeps ==
    ASSUME WifiInv, UNCHANGED <<station, posted, queue, lost, apOn, mgrState>>,
           apActive' \in BOOLEAN, dnsRunning' \in BOOLEAN, DOMAIN ap' = DOMAIN ap,
           DnsFollows',
           Settled(queue, posted, ApEvents) /\ ~lost =>
               /\ apActive' /\ ~apOn => "mode" \in failed' \/ Switching({"mode", "set"})'
               /\ ~apActive' /\ apOn => "mode" \in failed' \/ Switching({"sta"})'
    PROVE  WifiInv'
<1>1. WifiTypes'
  BY DEF WifiInv, WifiTypes
<1>2. StationTruth' = StationTruth /\ ApTruth' = ApTruth /\ Associated' = Associated
  BY DEF StationTruth, ApTruth, Associated
<1>3. ~lost => StationIsKnown'
  BY <1>2 DEF WifiInv, StationIsKnown
<1>4. ~lost => ApIsKnown'
  BY <1>2 DEF WifiInv, ApIsKnown
<1>5. QED
  BY <1>1, <1>3, <1>4 DEF WifiInv

(* The mode changes, or is what it should be already.                      *)
LEMMA SetModeKeeps ==
    ASSUME WifiInv, NEW on \in BOOLEAN, SetMode(on),
           UNCHANGED <<station, queue, lost, apActive, dnsRunning, mgrState>>,
           DOMAIN ap' = DOMAIN ap, DnsFollows',
           apOn = on => (/\ apActive /\ ~apOn => "mode" \in failed \/ Switching({"mode", "set"})'
                         /\ ~apActive /\ apOn => "mode" \in failed \/ Switching({"sta"})')
                        \/ ~Settled(queue, posted, ApEvents) \/ lost
    PROVE  WifiInv'
<1>1. WifiTypes
  BY DEF WifiInv
<1>2. PICK e : e = IF on THEN "ap_start" ELSE "ap_stop"
  OBVIOUS
<1>3. e \in Events /\ e \in ApEvents /\ e \notin StationEvents
  BY <1>2 DEF Events, ApEvents, StationEvents
<1>4. apOn' = on /\ posted' = IF apOn = on THEN posted ELSE Append(posted, e)
  BY <1>2 DEF SetMode
<1>5. Append(posted, e) \in Seq(Events)
  BY <1>1, <1>3 DEF WifiTypes
<1>6. WifiTypes'
  BY <1>1, <1>4, <1>5 DEF WifiTypes
<1>7. Associated' = Associated /\ StationTruth' = StationTruth
  BY DEF Associated, StationTruth
<1>8. ASSUME ~lost, apOn = on
      PROVE  StationIsKnown' /\ ApIsKnown'
  <2>1. ApTruth' = ApTruth /\ posted' = posted /\ apOn' = apOn /\ failed' = failed
    BY <1>4, <1>8 DEF ApTruth, SetMode
  <2>2. QED
    BY <1>7, <1>8, <2>1 DEF WifiInv, StationIsKnown, ApIsKnown
<1>9. ASSUME ~lost, apOn # on
      PROVE  StationIsKnown' /\ ApIsKnown'
  <2>1. posted' = Append(posted, e)
    BY <1>4, <1>9
  <2>2. PICK G : G = ApTruth'
    OBVIOUS
  <2>3. e \in G
    BY <1>2, <1>4, <2>2 DEF ApTruth
  <2>4. Tells(queue, Append(posted, e), ApEvents, G) /\ ~Settled(queue, Append(posted, e), ApEvents)
    BY <1>1, <1>3, <2>3, ReportIsLast DEF WifiTypes
  <2>5. ApIsKnown'
    BY <2>1, <2>2, <2>4 DEF ApIsKnown
  <2>6. StationIsKnown
    BY <1>9 DEF WifiInv
  <2>7. /\ Tells(queue, Append(posted, e), StationEvents, StationTruth)
        /\ Settled(queue, Append(posted, e), StationEvents) <=> Settled(queue, posted, StationEvents)
    BY <1>1, <1>3, <2>6, OthersPass DEF WifiTypes, StationIsKnown
  <2>8. StationIsKnown'
    BY <1>7, <2>1, <2>6, <2>7 DEF StationIsKnown
  <2>9. QED
    BY <2>5, <2>8
<1>10. QED
  BY <1>6, <1>8, <1>9 DEF WifiInv

(* Every step of starting or stopping the access point, in any task.       *)
LEMMA ApProcedureKeeps ==
    ASSUME WifiInv, NEW p \in Interfaces \cup {Task}, ApProcedure(p)
    PROVE  WifiInv'
<1>1. /\ WifiTypes /\ DnsFollows
      /\ ~lost /\ Settled(queue, posted, ApEvents) =>
            /\ apActive /\ ~apOn => "mode" \in failed \/ Switching({"mode", "set"})
            /\ ~apActive /\ apOn => "mode" \in failed \/ Switching({"sta"})
  BY DEF WifiInv, ApIsKnown
<1>2. CASE StartMarks(p)
  <2>1. /\ ApStep(p, "start", "mode") /\ apActive' = TRUE
        /\ UNCHANGED <<station, posted, queue, lost, apOn, failed, mgrState, dnsRunning>>
    BY <1>2 DEF StartMarks, driverVars
  <2>2. /\ DOMAIN ap' = DOMAIN ap /\ Switching({"mode", "set"})'
        /\ Switching({"dns", "unmark", "sta"}) => Switching({"dns", "unmark", "sta"})'
    BY <2>1, ApTypes
  <2>3. DnsFollows'
    BY <1>1, <2>1, <2>2 DEF DnsFollows
  <2>4. QED
    BY <1>1, <2>1, <2>2, <2>3, ApStepKeeps DEF WifiTypes
<1>3. CASE StartReadsMode(p)
  <2>1. PICK to : to = IF apOn THEN "dns" ELSE "set"
    OBVIOUS
  <2>2. /\ ApStep(p, "mode", to)
        /\ UNCHANGED <<station, posted, queue, lost, apOn, failed, mgrState, apActive, dnsRunning>>
    BY <1>3, <2>1 DEF StartReadsMode, driverVars, managerVars
  <2>3. /\ DOMAIN ap' = DOMAIN ap
        /\ Switching({"sta"}) => Switching({"sta"})'
        /\ Switching({"dns", "unmark", "sta"}) => Switching({"dns", "unmark", "sta"})'
        /\ ~apOn => Switching({"mode", "set"})'
    BY <2>1, <2>2, ApTypes
  <2>4. DnsFollows'
    BY <1>1, <2>2, <2>3 DEF DnsFollows
  <2>5. QED
    BY <1>1, <2>2, <2>3, <2>4, ApStepKeeps DEF WifiTypes
<1>4. CASE StartSetsMode(p)
  <2>1. /\ ApStep(p, "set", "dns") /\ SetMode(TRUE)
        /\ UNCHANGED <<station, queue, lost, mgrState, apActive, dnsRunning>>
    BY <1>4 DEF StartSetsMode, managerVars
  <2>2. /\ DOMAIN ap' = DOMAIN ap /\ Switching({"dns", "unmark", "sta"})'
        /\ Switching({"sta"}) => Switching({"sta"})'
    BY <2>1, ApTypes
  <2>3. DnsFollows'
    BY <2>2 DEF DnsFollows
  <2>4. QED
    BY <1>1, <2>1, <2>2, <2>3, SetModeKeeps
<1>5. CASE StartsDns(p)
  <2>1. /\ ApStep(p, "dns", "none") /\ dnsRunning' = TRUE
        /\ UNCHANGED <<station, posted, queue, lost, apOn, mgrState, apActive>>
        /\ "mode" \in failed => "mode" \in failed'
    BY <1>5 DEF StartsDns
  <2>2. /\ DOMAIN ap' = DOMAIN ap
        /\ Switching({"mode", "set"}) => Switching({"mode", "set"})'
        /\ Switching({"sta"}) => Switching({"sta"})'
    BY <2>1, ApTypes
  <2>3. DnsFollows'
    BY <2>1 DEF DnsFollows
  <2>4. QED
    BY <1>1, <2>1, <2>2, <2>3, ApStepKeeps DEF WifiTypes
<1>6. CASE StopsDns(p)
  <2>1. /\ ApStep(p, "stop", "unmark") /\ dnsRunning' = FALSE
        /\ UNCHANGED <<station, posted, queue, lost, apOn, failed, mgrState, apActive>>
    BY <1>6 DEF StopsDns, driverVars
  <2>2. /\ DOMAIN ap' = DOMAIN ap
        /\ Switching({"mode", "set"}) => Switching({"mode", "set"})'
        /\ Switching({"sta"}) => Switching({"sta"})'
        /\ Switching({"dns", "unmark", "sta"})'
    BY <2>1, ApTypes
  <2>3. DnsFollows'
    BY <2>2 DEF DnsFollows
  <2>4. QED
    BY <1>1, <2>1, <2>2, <2>3, ApStepKeeps DEF WifiTypes
<1>7. CASE StopUnmarks(p)
  <2>1. /\ ApStep(p, "unmark", "sta") /\ apActive' = FALSE
        /\ UNCHANGED <<station, posted, queue, lost, apOn, failed, mgrState, dnsRunning>>
    BY <1>7 DEF StopUnmarks, driverVars
  <2>2. /\ DOMAIN ap' = DOMAIN ap /\ Switching({"sta"})' /\ Switching({"dns", "unmark", "sta"})'
    BY <2>1, ApTypes
  <2>3. DnsFollows'
    BY <2>2 DEF DnsFollows
  <2>4. QED
    BY <1>1, <2>1, <2>2, <2>3, ApStepKeeps DEF WifiTypes
<1>8. CASE StopSetsMode(p)
  <2>1. /\ ApStep(p, "sta", "none") /\ SetMode(FALSE)
        /\ UNCHANGED <<station, queue, lost, mgrState, apActive, dnsRunning>>
    BY <1>8 DEF StopSetsMode, managerVars
  <2>2. /\ DOMAIN ap' = DOMAIN ap
        /\ Switching({"mode", "set"}) => Switching({"mode", "set"})'
    BY <2>1, ApTypes
  <2>3. DnsFollows'
    BY <2>1 DEF DnsFollows, SetMode
  <2>4. QED
    BY <1>1, <2>1, <2>2, <2>3, SetModeKeeps
<1>9. CASE DnsFails(p)
  <2>1. /\ ApStep(p, "dns", "none") /\ failed' = failed \cup {"dns"}
        /\ UNCHANGED <<station, posted, queue, lost, apOn, mgrState, apActive, dnsRunning>>
    BY <1>9 DEF DnsFails, managerVars
  <2>2. /\ DOMAIN ap' = DOMAIN ap
        /\ Switching({"mode", "set"}) => Switching({"mode", "set"})'
        /\ Switching({"sta"}) => Switching({"sta"})'
    BY <2>1, ApTypes
  <2>3. DnsFollows'
    BY <2>1 DEF DnsFollows
  <2>4. QED
    BY <1>1, <2>1, <2>2, <2>3, ApStepKeeps DEF WifiTypes
<1>10. CASE ModeFails(p)
  <2>1. /\ ApStep(p, "set", "dns") \/ ApStep(p, "sta", "none")
        /\ failed' = failed \cup {"mode"}
        /\ UNCHANGED <<station, posted, queue, lost, apOn, mgrState, apActive, dnsRunning>>
    BY <1>10 DEF ModeFails, managerVars
  <2>2. DOMAIN ap' = DOMAIN ap
    BY <2>1, ApTypes
  <2>3. DnsFollows' /\ "mode" \in failed'
    BY <2>1 DEF DnsFollows
  <2>4. QED
    BY <1>1, <2>1, <2>2, <2>3, ApStepKeeps DEF WifiTypes
<1>11. QED
  BY <1>2, <1>3, <1>4, <1>5, <1>6, <1>7, <1>8, <1>9, <1>10 DEF ApProcedure

-----------------------------------------------------------------------------
(* The parts of the manager's steps that begin a procedure or go on.       *)
LEMMA GoesOnQuietly ==
    ASSUME WifiInv, At("connect") \/ At("wait") \/ At("backoff") \/ At("delay") \/ At("started") \/ At("receive"),
           \/ BeginSequence \/ GiveUp \/ NextAttempt \/ AfterFailure \/ Starts
           \/ UNCHANGED <<mgrState, ap>>
           \/ Begins("start") /\ UNCHANGED mgrState
           \/ Begins("stop") /\ UNCHANGED mgrState
    PROVE  /\ mgrState' \in {mgrState, "connecting", "disconnected"}
           /\ DOMAIN ap' = DOMAIN ap
           /\ \A t \in DOMAIN ap : ap'[t] = ap[t] \/ ap[t] = "none"
<1>1. ap[Task] = "none"
  BY DEF At
<1>2. ASSUME NEW procedure, Begins(procedure)
      PROVE  DOMAIN ap' = DOMAIN ap /\ \A t \in DOMAIN ap : ap'[t] = ap[t] \/ ap[t] = "none"
  BY <1>1, <1>2 DEF Begins
<1>3. BeginSequence => mgrState' \in {mgrState, "connecting"} /\ (ap' = ap \/ Begins("start"))
  BY DEF BeginSequence
<1>4. GiveUp => mgrState' = "disconnected" /\ (ap' = ap \/ Begins("start"))
  BY DEF GiveUp
<1>5. Starts => mgrState' \in {mgrState, "connecting"} /\ (ap' = ap \/ Begins("start"))
  BY <1>3 DEF Starts
<1>6. NextAttempt => mgrState' \in {mgrState, "connecting", "disconnected"} /\ (ap' = ap \/ Begins("start"))
  BY <1>4 DEF NextAttempt
<1>7. AfterFailure => mgrState' \in {mgrState, "connecting", "disconnected"} /\ (ap' = ap \/ Begins("start"))
  BY <1>6 DEF AfterFailure
<1>8. /\ mgrState' \in {mgrState, "connecting", "disconnected"}
      /\ ap' = ap \/ Begins("start") \/ Begins("stop")
  BY <1>3, <1>4, <1>5, <1>6, <1>7
<1>9. QED
  BY <1>2, <1>8

(* The manager's task goes on without an event.                            *)
LEMMA TaskKeeps ==
    ASSUME WifiInv,
           \/ AttemptRefused \/ Succeeds \/ Fails \/ TimesOut \/ BackoffEnds \/ DelayEnds \/ OnStartGoesOn
    PROVE  WifiInv'
<1>1. /\ UNCHANGED <<station, posted, queue, lost, apOn, failed, apActive, dnsRunning>>
      /\ At("connect") \/ At("wait") \/ At("backoff") \/ At("delay") \/ At("started")
      /\ BeginSequence \/ NextAttempt \/ AfterFailure \/ Starts \/ UNCHANGED <<mgrState, ap>>
  BY DEF AttemptRefused, Succeeds, Fails, TimesOut, BackoffEnds, DelayEnds, OnStartGoesOn, driverVars
<1>2. /\ mgrState' \in {mgrState, "connecting", "disconnected"}
      /\ DOMAIN ap' = DOMAIN ap
      /\ \A t \in DOMAIN ap : ap'[t] = ap[t] \/ ap[t] = "none"
  BY <1>1, GoesOnQuietly
<1>3. /\ mgrState' = "connected" => mgrState = "connected"
      /\ \A t \in DOMAIN ap : ap'[t] = ap[t] \/ ap[t] \notin {"mode", "set", "dns", "unmark", "sta"}
  BY <1>2
<1>4. QED
  BY <1>1, <1>2, <1>3, QuietStep

(* The manager's task receives an event.                                   *)
LEMMA EventsKeep ==
    ASSUME WifiInv, OnStart \/ OnConnected \/ OnDisconnected \/ OnGotIp \/ OnApEvent
    PROVE  WifiInv'
<1>1. ASSUME NEW event \in Events, Receives(event),
             UNCHANGED <<station, posted, apOn, failed, dnsRunning, lost>>,
             apActive' = IF event \in ApEvents THEN event = "ap_start" ELSE apActive,
             mgrState' = "connected" =>
                event = "sta_connected" \/ (event # "sta_disconnected" /\ mgrState = "connected"),
             DOMAIN ap' = DOMAIN ap,
             \A t \in DOMAIN ap : ap'[t] = ap[t] \/ ap[t] = "none"
      PROVE  WifiInv'
  BY <1>1, ReceiptKeeps DEF Receives, Learns
<1>2. CASE OnStart
  <2>1. /\ Receives("sta_start") /\ At("receive")
        /\ UNCHANGED <<station, posted, apOn, failed, dnsRunning, lost, apActive>>
        /\ Starts \/ (Begins("start") /\ UNCHANGED mgrState)
    BY <1>2 DEF OnStart, Receives
  <2>2. /\ mgrState' \in {mgrState, "connecting", "disconnected"} /\ DOMAIN ap' = DOMAIN ap
        /\ \A t \in DOMAIN ap : ap'[t] = ap[t] \/ ap[t] = "none"
    BY <2>1, GoesOnQuietly
  <2>3. "sta_start" \in Events /\ "sta_start" \notin ApEvents
    BY DEF Events, ApEvents
  <2>4. QED
    BY <1>1, <2>1, <2>2, <2>3
<1>3. CASE OnConnected
  BY <1>1, <1>3 DEF OnConnected, driverVars, Events, ApEvents
<1>4. CASE OnDisconnected
  BY <1>1, <1>4 DEF OnDisconnected, driverVars, Events, ApEvents
<1>5. CASE OnGotIp
  <2>1. /\ Receives("got_ip") /\ At("receive")
        /\ UNCHANGED <<station, posted, apOn, failed, dnsRunning, lost, apActive, mgrState>>
        /\ Begins("stop") \/ UNCHANGED ap
    BY <1>5 DEF OnGotIp, Receives, driverVars, managerVars
  <2>2. /\ DOMAIN ap' = DOMAIN ap
        /\ \A t \in DOMAIN ap : ap'[t] = ap[t] \/ ap[t] = "none"
    BY <2>1, GoesOnQuietly
  <2>3. "got_ip" \in Events /\ "got_ip" \notin ApEvents
    BY DEF Events, ApEvents
  <2>4. QED
    BY <1>1, <2>1, <2>2, <2>3
<1>6. CASE OnApEvent
  <2>1. PICK event \in ApEvents :
           /\ Receives(event) /\ apActive' = (event = "ap_start")
           /\ UNCHANGED <<station, posted, apOn, failed, dnsRunning, lost, mgrState, ap>>
    BY <1>6 DEF OnApEvent, ApEvents, driverVars
  <2>2. event \in Events /\ event \notin StationEvents
    BY DEF Events, ApEvents, StationEvents
  <2>3. QED
    BY <1>1, <2>1, <2>2 DEF StationEvents
<1>7. QED
  BY <1>2, <1>3, <1>4, <1>5, <1>6

(* The calls of the interfaces.                                            *)
LEMMA CallsKeep ==
    ASSUME WifiInv, NEW i \in Interfaces, AnyConnect(i) \/ Disconnect(i) \/ Scan(i) \/ SwitchesAp(i) \/ SetApConfig(i)
    PROVE  WifiInv'
<1>1. CASE AutoConnect(i)
  BY <1>1, WakeKeeps
<1>2. CASE \E n \in Networks : ConnectTo(i, n)
  <2>1. PICK n \in Networks : ConnectTo(i, n)
    BY <1>2
  <2>2. Moves
    BY <2>1 DEF ConnectTo, Moves, Connects, Report, Associated
  <2>3. QED
    BY <2>2, MoveKeeps
<1>3. CASE Disconnect(i) \/ Scan(i)
  <2>1. Moves
    BY <1>3 DEF Disconnect, Scan, Leaves, Moves, Report
  <2>2. QED
    BY <2>1, MoveKeeps
<1>4. ASSUME NEW procedure, SwitchAp(i, procedure)
      PROVE  WifiInv'
  <2>1. /\ ap[i] = "none" /\ ap' = [ap EXCEPT ![i] = procedure]
        /\ UNCHANGED <<station, posted, queue, lost, apOn, failed, apActive, dnsRunning, mgrState>>
    BY <1>4 DEF SwitchAp, Called, driverVars, managerVars
  <2>2. DOMAIN ap' = DOMAIN ap /\ \A t \in DOMAIN ap : ap'[t] = ap[t] \/ ap[t] = "none"
    BY <2>1
  <2>3. \A t \in DOMAIN ap : ap'[t] = ap[t] \/ ap[t] \notin {"mode", "set", "dns", "unmark", "sta"}
    BY <2>2
  <2>4. QED
    BY <2>1, <2>2, <2>3, QuietStep
<1>5. QED
  BY <1>1, <1>2, <1>3, <1>4 DEF AnyConnect, SwitchesAp, StartAp, StopAp, SetApConfig

(* Every step keeps the invariant.                                         *)
LEMMA WifiStep == WifiInv /\ [WifiNext]_wifiVars => WifiInv'
<1> SUFFICES ASSUME WifiInv, [WifiNext]_wifiVars
             PROVE  WifiInv'
  OBVIOUS
<1>1. CASE UNCHANGED wifiVars
  BY <1>1, QuietStep DEF wifiVars, driverVars, managerVars
<1>2. CASE Driver
  <2>1. Moves
    BY <1>2 DEF Driver, Joins, GetsAddress, Drops, Report, Moves, managerVars
  <2>2. QED
    BY <2>1, MoveKeeps
<1>3. CASE ManagerTask
  <2>1. CASE Attempt
    <3>1. Moves
      BY <2>1 DEF Attempt, Connects, Report, Associated, Moves, managerVars
    <3>2. QED
      BY <3>1, MoveKeeps
  <2>2. QED
    BY <1>3, <2>1, TaskKeeps, EventsKeep, ApProcedureKeeps DEF ManagerTask
<1>4. CASE Calls
  BY <1>4, CallsKeep, ApProcedureKeeps DEF Calls, Http, Cli, Ble, Bus
<1>5. QED
  BY <1>1, <1>2, <1>3, <1>4, HandlerKeeps DEF WifiNext

(* What the manager reports settles on the truth, for any networks and     *)
(* retries, any number of tasks that call and of mishaps, however their    *)
(* starts and stops of the access point and late events overlap, with      *)
(* modes the driver does not take and DNS servers that do not start.       *)
THEOREM StatusIsTheTruth == WifiSpec => []StatusSettles
<1>1. WifiInv => StatusSettles
  <2> SUFFICES ASSUME WifiInv, AtRest, ~lost
               PROVE  /\ mgrState = "connected" => Associated
                      /\ "mode" \notin failed => (apOn <=> apActive)
                      /\ failed = {} /\ apOn => dnsRunning
    BY DEF StatusSettles
  <2>1. /\ Settled(queue, posted, ApEvents) /\ Settled(queue, posted, StationEvents)
        /\ \A pcs : "none" \notin pcs => ~Switching(pcs)
    BY DEF AtRest, Settled, Free, Switching
  <2>2. StationIsKnown /\ ApIsKnown /\ DnsFollows
    BY DEF WifiInv
  <2>3. ~Switching({"mode", "set"}) /\ ~Switching({"sta"}) /\ ~Switching({"dns", "unmark", "sta"})
    BY <2>1
  <2>4. mgrState = "connected" => Associated
    BY <2>1, <2>2 DEF StationIsKnown
  <2>5. /\ apActive /\ ~apOn => "mode" \in failed
        /\ ~apActive /\ apOn => "mode" \in failed
    BY <2>1, <2>2, <2>3 DEF ApIsKnown
  <2>6. "mode" \notin failed => (apOn <=> apActive)
    BY <2>5 DEF WifiInv, WifiTypes
  <2>7. failed = {} /\ apOn => dnsRunning
    BY <2>2, <2>3 DEF DnsFollows
  <2>8. QED
    BY <2>4, <2>6, <2>7
<1>2. QED
  BY <1>1, WifiStart, WifiStep, PTL DEF WifiSpec
=============================================================================
