------------------------------- MODULE Startup -------------------------------
(***************************************************************************)
(* The gateway coming up, proyecto-final/gateway-module/main: once it has  *)
(* an IP address, the task of the Wi-Fi manager looks for the broker,      *)
(* creates the MQTT client and starts the radio, in this order:            *)
(*                                                                         *)
(*   idle -> beacon -> mdns -> scan -> create -> start -> radio -> idle    *)
(*                                                                         *)
(* The LoRa task, which exists once the radio is started, does the same    *)
(* from beacon to start when it has a heartbeat to publish and finds no    *)
(* client.  The two share the client's handle and the buffer for its       *)
(* address without any lock.  Time is counted in intervals of the beacon   *)
(* (DISCOVERY_INTERVAL_SEC, 3 s).                                          *)
(***************************************************************************)
EXTENDS Naturals, Sequences, FiniteSets

CONSTANTS
    Hosts,          \* the addresses .1, .2, ... the subnet scan tries
    Self,           \* the gateway's own address
    Broker,         \* the address the broker runs on
    Default,        \* the address in MQTT_BROKER_URI
    ListenTicks,    \* DISCOVERY_LISTEN_TIMEOUT_MS: 2 intervals
    MaxMissed,      \* beacons that may be lost in a row
    MaxClients,     \* bound on the clients created
    MaxFailures     \* bound on failing sockets, clients and radios

Addresses == { Hosts[i] : i \in DOMAIN Hosts } \cup {Broker, Default}

ASSUME StartupAssumption ==
    /\ Hosts \in Seq(Addresses)
    /\ ListenTicks \in Nat \ {0} /\ MaxMissed \in Nat
    /\ MaxClients \in Nat /\ MaxFailures \in Nat

VARIABLES
    port,       \* how port 1883 of each address answers
    beacon,     \* discovery_beacon.py is running
    wifi,       \* s_wifi_connected
    mdns,       \* s_mdns_initialized
    at,         \* where each task is
    quiet,      \* time a task has waited in recvfrom
    listened,   \* time a task has spent listening, counted as far as MaxMissed + 1
    host,       \* the loop variable of a task's subnet scan
    found,      \* how a task came by its target_uri
    uri,        \* s_dynamic_mqtt_uri
    client,     \* mqtt_client: the number of a client, 0 for null
    clients,    \* the addresses of the clients created
    started,    \* the clients started
    unstarted,  \* history: clients that a start failed for
    radio,      \* s_lora_started
    failures    \* how many sockets, clients and radios failed so far

network == <<port, beacon>>
lookup == <<quiet, listened, host, found, uri>>
mqtt == <<client, clients, started, unstarted>>
startupVars ==
    <<network, wifi, mdns, at, lookup, mqtt, radio, failures>>

Tasks == {"manager", "lora"}
Nobody == "nobody"

(* A call fails, for lack of memory or of a radio.                         *)
StepFails == failures < MaxFailures /\ failures' = failures + 1

GoesOn(t, from, to) == at[t] = from /\ at' = [at EXCEPT ![t] = to]

(* The gateway has no server, so that its own address refuses.             *)
StartupInit ==
    /\ port \in [Addresses -> {"broker", "refuses", "silent"}]
    /\ \A a \in Addresses : port[a] = "broker" => a = Broker
    /\ Self \in Addresses => port[Self] = "refuses"
    /\ beacon \in BOOLEAN
    /\ wifi = FALSE /\ mdns = FALSE
    /\ at = [t \in Tasks |-> "idle"]
    /\ quiet = [t \in Tasks |-> 0] /\ listened = [t \in Tasks |-> 0]
    /\ host = [t \in Tasks |-> 1]
    /\ found = [t \in Tasks |-> "default"]
    /\ uri = Nobody
    /\ client = 0 /\ clients = << >> /\ started = {} /\ unstarted = {}
    /\ radio = FALSE /\ failures = 0

-----------------------------------------------------------------------------
(* Variants with a plausible bug, to test the properties against; none is  *)
(* a part of the specification.                                            *)

(* The radio is started before the client.                                 *)
OnWifiConnected_RadioFirst ==
    /\ at["manager"] = "idle"
    /\ wifi' = TRUE
    /\ at' = [at EXCEPT !["manager"] = IF client # 0 THEN "radio" ELSE "beacon"]
    /\ mdns' \in {mdns, TRUE}
    /\ radio' = TRUE
    /\ UNCHANGED <<network, lookup, mqtt, failures>>

(* One interval of the beacon is taken for enough.                         *)
ListenTimesOut_OneCycle(t) ==
    /\ quiet[t] = 1
    /\ GoesOn(t, "beacon", "mdns")
    /\ quiet' = [quiet EXCEPT ![t] = 0]
    /\ listened' = [listened EXCEPT ![t] = 0]
    /\ UNCHANGED <<network, wifi, mdns, host, found, uri, mqtt, radio, failures>>

(* The scan's continue for the own address skips the increment.            *)
SkipSelf_Stays(t) ==
    /\ at[t] = "scan" /\ host[t] \in DOMAIN Hosts
    /\ Hosts[host[t]] = Self
    /\ UNCHANGED startupVars

(* A client of the default address is left for later.                      *)
StartClient_FoundOnly(t) ==
    /\ GoesOn(t, "start", IF t = "manager" THEN "radio" ELSE "idle")
    /\ started' = IF client = 0 \/ found[t] = "default" THEN started
                                                        ELSE started \cup {client}
    /\ UNCHANGED <<network, wifi, mdns, lookup, client, clients, unstarted, radio, failures>>

-----------------------------------------------------------------------------
(* The Wi-Fi manager's task calls the callbacks one after the other.       *)

(* mqtt_service_init_async returns at once if there is a client.           *)
OnWifiConnected ==
    /\ at["manager"] = "idle"
    /\ wifi' = TRUE
    /\ at' = [at EXCEPT !["manager"] = IF client # 0 THEN "radio" ELSE "beacon"]
    /\ mdns' \in {mdns, TRUE}
    /\ UNCHANGED <<network, lookup, mqtt, radio, failures>>

OnWifiDisconnected ==
    /\ at["manager"] = "idle"
    /\ wifi' = FALSE
    /\ UNCHANGED <<network, mdns, at, lookup, mqtt, radio, failures>>

(* gateway_start_radio: lora_init, the LoRa task, the interrupt.  A radio  *)
(* that does not start is tried again with the next IP address only.       *)
StartRadio ==
    /\ GoesOn("manager", "radio", "idle")
    /\ radio' = TRUE
    /\ UNCHANGED <<network, wifi, mdns, lookup, mqtt, failures>>

RadioFails ==
    /\ StepFails /\ ~radio
    /\ GoesOn("manager", "radio", "idle")
    /\ UNCHANGED <<network, wifi, mdns, lookup, mqtt, radio>>

(* mqtt_init_and_publish in the LoRa task, with a heartbeat to publish and *)
(* no client to do it.                                                     *)
PublishWithoutClient ==
    /\ radio /\ wifi /\ client = 0
    /\ GoesOn("lora", "idle", "beacon")
    /\ UNCHANGED <<network, wifi, mdns, lookup, mqtt, radio, failures>>

-----------------------------------------------------------------------------
(* resolve_mqtt_uri.                                                       *)

(* The waits of the socket count from when it is opened.                   *)
CloseSocket(t) ==
    /\ quiet' = [quiet EXCEPT ![t] = 0]
    /\ listened' = [listened EXCEPT ![t] = 0]

(* The address is written to the one buffer both tasks have.               *)
Found(t, a, how) ==
    /\ at' = [at EXCEPT ![t] = "create"]
    /\ found' = [found EXCEPT ![t] = how]
    /\ uri' = a

(* discover_broker_via_udp: the beacon, which also answers the request     *)
(* sent at first...                                                        *)
HearBeacon(t) ==
    /\ at[t] = "beacon" /\ beacon
    /\ Found(t, Broker, "beacon")
    /\ CloseSocket(t)
    /\ UNCHANGED <<network, wifi, mdns, host, mqtt, radio, failures>>

(* ... any other packet, after which recvfrom waits its time again, as     *)
(* often as one comes...                                                   *)
StrayPacket(t) ==
    /\ at[t] = "beacon"
    /\ quiet' = [quiet EXCEPT ![t] = 0]
    /\ UNCHANGED <<network, wifi, mdns, at, listened, host, found, uri, mqtt, radio, failures>>

(* ... an interval in which the beacon was lost, or is not running...      *)
Tick(t) ==
    /\ at[t] = "beacon" /\ quiet[t] < ListenTicks
    /\ beacon => listened[t] < MaxMissed
    /\ quiet' = [quiet EXCEPT ![t] = @ + 1]
    /\ listened' = [listened EXCEPT ![t] = IF @ > MaxMissed THEN @ ELSE @ + 1]
    /\ UNCHANGED <<network, wifi, mdns, at, host, found, uri, mqtt, radio, failures>>

(* ... and SO_RCVTIMEO.                                                    *)
ListenTimesOut(t) ==
    /\ quiet[t] = ListenTicks
    /\ GoesOn(t, "beacon", "mdns")
    /\ CloseSocket(t)
    /\ UNCHANGED <<network, wifi, mdns, host, found, uri, mqtt, radio, failures>>

(* There is no socket, or its port is taken.                               *)
NoSocket(t) ==
    /\ StepFails /\ quiet[t] = 0 /\ listened[t] = 0
    /\ GoesOn(t, "beacon", "mdns")
    /\ UNCHANGED <<network, wifi, mdns, lookup, mqtt, radio>>

(* One of the service, the target host and the two other names answers:    *)
(* all are names of the broker's machine.                                  *)
MdnsAnswers(t) ==
    /\ at[t] = "mdns" /\ mdns
    /\ Found(t, Broker, "mdns")
    /\ UNCHANGED <<network, wifi, mdns, quiet, listened, host, mqtt, radio, failures>>

MdnsSilent(t) ==
    /\ GoesOn(t, "mdns", "scan")
    /\ UNCHANGED <<network, wifi, mdns, lookup, mqtt, radio, failures>>

(* scan_subnet_for_mqtt.  select reports a connection refused like one     *)
(* accepted: the socket is writable.                                       *)
Writable(a) == port[a] \in {"broker", "refuses"}

TryHost(t) ==
    /\ at[t] = "scan" /\ host[t] \in DOMAIN Hosts
    /\ Hosts[host[t]] # Self /\ Writable(Hosts[host[t]])
    /\ Found(t, Hosts[host[t]], "scan")
    /\ host' = [host EXCEPT ![t] = 1]
    /\ UNCHANGED <<network, wifi, mdns, quiet, listened, mqtt, radio, failures>>

NextHost(t) ==
    /\ at[t] = "scan" /\ host[t] \in DOMAIN Hosts
    /\ Hosts[host[t]] # Self /\ ~Writable(Hosts[host[t]])
    /\ host' = [host EXCEPT ![t] = @ + 1]
    /\ UNCHANGED <<network, wifi, mdns, at, quiet, listened, found, uri, mqtt, radio, failures>>

SkipSelf(t) ==
    /\ at[t] = "scan" /\ host[t] \in DOMAIN Hosts
    /\ Hosts[host[t]] = Self
    /\ host' = [host EXCEPT ![t] = @ + 1]
    /\ UNCHANGED <<network, wifi, mdns, at, quiet, listened, found, uri, mqtt, radio, failures>>

UseDefault(t) ==
    /\ host[t] = Len(Hosts) + 1
    /\ GoesOn(t, "scan", "create")
    /\ found' = [found EXCEPT ![t] = "default"]
    /\ host' = [host EXCEPT ![t] = 1]
    /\ UNCHANGED <<network, wifi, mdns, quiet, listened, uri, mqtt, radio, failures>>

-----------------------------------------------------------------------------
(* The rest of mqtt_service_init_async.                                    *)

(* esp_mqtt_client_init copies the address.                                *)
CreateClient(t) ==
    /\ Len(clients) < MaxClients
    /\ GoesOn(t, "create", "start")
    /\ clients' = Append(clients, IF found[t] = "default" THEN Default ELSE uri)
    /\ client' = Len(clients) + 1
    /\ UNCHANGED <<network, wifi, mdns, lookup, started, unstarted, radio, failures>>

(* It returns null, which overwrites the handle.                           *)
CreateFails(t) ==
    /\ StepFails
    /\ GoesOn(t, "create", "start")
    /\ client' = 0
    /\ UNCHANGED <<network, wifi, mdns, lookup, clients, started, unstarted, radio>>

(* The handle is read again: it may be the other task's client by now.     *)
StartClient(t) ==
    /\ GoesOn(t, "start", IF t = "manager" THEN "radio" ELSE "idle")
    /\ started' = IF client = 0 THEN started ELSE started \cup {client}
    /\ UNCHANGED <<network, wifi, mdns, lookup, client, clients, unstarted, radio, failures>>

(* Nobody looks at its result: a client that did not start stays.          *)
StartFails(t) ==
    /\ StepFails
    /\ GoesOn(t, "start", IF t = "manager" THEN "radio" ELSE "idle")
    /\ unstarted' = IF client = 0 THEN unstarted ELSE unstarted \cup {client}
    /\ UNCHANGED <<network, wifi, mdns, lookup, client, clients, started, radio>>

-----------------------------------------------------------------------------
InitAsync(t) ==
    \/ HearBeacon(t) \/ Tick(t) \/ ListenTimesOut(t) \/ NoSocket(t)
    \/ MdnsAnswers(t) \/ MdnsSilent(t)
    \/ TryHost(t) \/ NextHost(t) \/ SkipSelf(t) \/ UseDefault(t)
    \/ CreateClient(t) \/ CreateFails(t) \/ StartClient(t) \/ StartFails(t)

Manager == InitAsync("manager") \/ StartRadio \/ RadioFails

StartupNext ==
    \/ OnWifiConnected \/ OnWifiDisconnected \/ PublishWithoutClient
    \/ Manager \/ InitAsync("lora")
    \/ \E t \in Tasks : StrayPacket(t)

(* The manager's task runs, and each of its waits has a time-out.          *)
StartupSpec ==
    StartupInit /\ [][StartupNext]_startupVars /\ WF_startupVars(Manager)

-----------------------------------------------------------------------------
StatesTypeOK ==
    /\ port \in [Addresses -> {"broker", "refuses", "silent"}]
    /\ beacon \in BOOLEAN /\ wifi \in BOOLEAN /\ mdns \in BOOLEAN /\ radio \in BOOLEAN

TasksTypeOK ==
    /\ at \in [Tasks -> {"idle", "beacon", "mdns", "scan", "create", "start", "radio"}]
    /\ at["lora"] # "radio"

LookupTypeOK ==
    /\ quiet \in [Tasks -> 0 .. ListenTicks] /\ listened \in [Tasks -> Nat]
    /\ host \in [Tasks -> 1 .. Len(Hosts) + 1]
    /\ found \in [Tasks -> {"beacon", "mdns", "scan", "default"}]
    /\ uri \in Addresses \cup {Nobody}

MqttTypeOK ==
    /\ clients \in Seq(Addresses)
    /\ client \in 0 .. Len(clients)
    /\ started \subseteq DOMAIN clients /\ unstarted \subseteq DOMAIN clients

StartupTypeOK ==
    /\ StatesTypeOK /\ TasksTypeOK /\ LookupTypeOK /\ MqttTypeOK
    /\ failures \in 0 .. MaxFailures

(* There is never a second client, which would take every order and        *)
(* publish every heartbeat a second time: the LoRa task, which could       *)
(* create one as well, comes to life only when the manager's client        *)
(* exists.  Where a client could not be created this is not so.            *)
OneClient == failures = 0 => Len(clients) <= 1

(* With no task in between creating and starting, the handle is null, or   *)
(* that of a client that was started, or of one whose start failed: the    *)
(* two tasks, which overwrite each other's handle, leave no other.  A      *)
(* handle that was never started makes every later mqtt_service_init_async *)
(* return at once, and the gateway never publishes: so it is after a start *)
(* that failed, which the code takes for done.                             *)
HandleIsLive ==
    (\A t \in Tasks : at[t] # "start") => client \in started \cup unstarted \cup {0}

(* While the beacon runs and fewer of its packets are lost in a row than   *)
(* the gateway waits for, the client is one of the broker, whatever else   *)
(* is on the port and in the subnet, unless there was no socket.           *)
BeaconDecides ==
    beacon /\ MaxMissed < ListenTicks /\ failures = 0 =>
        \A i \in DOMAIN clients : clients[i] = Broker

(* A gateway that got an IP address comes to start its radio, if client    *)
(* and radio work and the beacon runs or the other packets on its port     *)
(* stop: each of them has the gateway wait its six seconds anew, so that   *)
(* with one every now and then it would listen for ever.  Whatever else    *)
(* the network answers or fails to answer makes no difference.             *)
BeaconOrQuiet == <>[][\A t \in Tasks : StrayPacket(t) => beacon]_startupVars

RadioComesUp == BeaconOrQuiet => (at["manager"] # "idle" ~> radio \/ failures > 0)

=============================================================================
