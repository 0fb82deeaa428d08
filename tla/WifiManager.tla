----------------------------- MODULE WifiManager -----------------------------
(***************************************************************************)
(* The station and the access point of esp_wifi_manager: the manager's     *)
(* task, which tries the saved networks and reacts to the driver, and the  *)
(* calls that the HTTP server, the console, Bluetooth and the event bus    *)
(* make in tasks of their own.                                             *)
(*                                                                         *)
(* The driver reports what happens in the order it happens (posted); the   *)
(* handlers of these events set two bits at once, for a task that waits    *)
(* on them, and put an event into the manager's queue, which is lossy.     *)
(* Of the times one thing is kept: the event loop has handled what was     *)
(* reported before a pause or a time-out, of seconds, ends.                *)
(***************************************************************************)
EXTENDS Naturals, Sequences

CONSTANTS Known,        \* the saved networks, by priority
          Retries,      \* max_retry_per_network
          QueueSize,    \* WIFI_MGR_QUEUE_SIZE
          Confs,        \* the configurations the manager may be started with
          Interfaces,   \* the tasks that call, for HTTP, console, Bluetooth or event bus
          MaxCalls,     \* bound: calls made by the interfaces
          MaxMishaps    \* bound: drops, failed joins, refused connects, time-outs, and
                        \* modes and DNS servers that fail

ASSUME WifiAssumption ==
    /\ Retries \in Nat \ {0} /\ QueueSize \in Nat \ {0}
    /\ MaxCalls \in Nat /\ MaxMishaps \in Nat
    /\ Confs \subseteq [autoReconnect : BOOLEAN, portal : BOOLEAN, apOnInit : BOOLEAN,
                        stopApOnConnect : BOOLEAN]

VARIABLES
    conf,        \* wifi_manager_config_t, as far as it decides something
    station,     \* the driver: "idle", "joining", "joined" or "up" (with an address)
    target,      \* the network configured for the station; 0: none
    apOn,        \* the driver is in mode APSTA
    failed,      \* history: "mode", esp_wifi_set_mode failed and the mode has not changed
                 \* since; "dns", the captive DNS did not start when it was started last
    posted,      \* events the driver reported and nobody has handled
    queue,       \* the manager's queue
    bits,        \* WIFI_CONNECTED_BIT and WIFI_FAIL_BIT
    mgrState,    \* g_wifi_mgr->state
    connecting, apActive, dnsRunning,
    task,        \* where the manager's task is: pc, network, retry
    ap,          \* where each task is in wifi_manager_start_ap or _stop_ap
    lost,        \* history: the queue was full once
    refused,     \* history: the driver refused to connect once
    calls, mishaps

driverVars == <<station, target, apOn, failed, posted>>
managerVars == <<mgrState, connecting, apActive, dnsRunning>>
wifiBounds == <<calls, mishaps>>
wifiVars == <<conf, driverVars, queue, bits, managerVars, task, ap, lost, refused, wifiBounds>>

Networks == 1..Len(Known)
Associated == station \in {"joined", "up"}

Idle == [pc |-> "receive", network |-> 0, retry |-> 0]
Task == "task"

WifiInit ==
    /\ conf \in Confs
    /\ station = "idle" /\ target = 0 /\ apOn = FALSE /\ failed = {}
    /\ posted = <<"sta_start">>
    /\ queue = <<>>
    /\ bits = {}
    /\ mgrState = "disconnected"
    /\ connecting = FALSE /\ apActive = FALSE /\ dnsRunning = FALSE
    /\ task = Idle
    /\ ap = [p \in Interfaces \cup {Task} |-> "none"]
    /\ lost = FALSE /\ refused = FALSE
    /\ calls = 0 /\ mishaps = 0

-----------------------------------------------------------------------------
(* The driver.                                                              *)

Mishap == mishaps < MaxMishaps /\ mishaps' = mishaps + 1

Report(s, event) ==
    /\ station' = s
    /\ posted' = Append(posted, event)

Joins ==
    /\ station = "joining"
    /\ Report("joined", "sta_connected")
    /\ UNCHANGED <<conf, target, apOn, failed, queue, bits, managerVars, task, ap, lost, refused, wifiBounds>>

GetsAddress ==
    /\ station = "joined"
    /\ Report("up", "got_ip")
    /\ UNCHANGED <<conf, target, apOn, failed, queue, bits, managerVars, task, ap, lost, refused, wifiBounds>>

(* A network that is out of reach, or goes away.                            *)
Drops ==
    /\ Mishap
    /\ station # "idle"
    /\ Report("idle", "sta_disconnected")
    /\ UNCHANGED <<conf, target, apOn, failed, queue, bits, managerVars, task, ap, lost, refused, calls>>

(* esp_wifi_disconnect *)
Leaves ==
    IF station = "idle" THEN UNCHANGED <<station, posted>> ELSE Report("idle", "sta_disconnected")

(***************************************************************************)
(* esp_wifi_connect, as its callers see it: it refuses while it is joining *)
(* and may do so at other times; of a network it is connected to it first  *)
(* takes leave.                                                            *)
(***************************************************************************)
Connects ==
    \/ /\ station = "idle"
       /\ station' = "joining"
       /\ UNCHANGED posted
    \/ /\ Associated
       /\ Report("joining", "sta_disconnected")

Refuses == station # "idle" \/ mishaps < MaxMishaps

SetMode(on) ==
    /\ apOn' = on
    /\ posted' = IF apOn = on THEN posted ELSE Append(posted, IF on THEN "ap_start" ELSE "ap_stop")
    /\ failed' = IF apOn = on THEN failed ELSE failed \ {"mode"}

-----------------------------------------------------------------------------
(***************************************************************************)
(* wifi_event_handler and ip_event_handler, in the task of the event loop. *)
(***************************************************************************)
Enqueue(event) ==
    /\ queue' = IF Len(queue) < QueueSize THEN Append(queue, event) ELSE queue
    /\ lost' = (lost \/ Len(queue) = QueueSize)

BitsAfter(event) ==
    CASE event = "sta_disconnected" -> {"fail"}
      [] event = "got_ip" -> {"connected"}
      [] OTHER -> bits

HandleEvent ==
    /\ posted # <<>>
    /\ posted' = Tail(posted)
    /\ bits' = BitsAfter(Head(posted))
    /\ Enqueue(Head(posted))
    /\ UNCHANGED <<conf, station, target, apOn, failed, managerVars, task, ap, refused, wifiBounds>>

-----------------------------------------------------------------------------
(***************************************************************************)
(* wifi_manager_start_ap and wifi_manager_stop_ap, in the task p: flag,    *)
(* mode and captive DNS change one after the other.                        *)
(***************************************************************************)
ApStep(p, from, to) == ap[p] = from /\ ap' = [ap EXCEPT ![p] = to]

StartMarks(p) ==
    /\ ApStep(p, "start", "mode")
    /\ apActive' = TRUE
    /\ UNCHANGED <<conf, driverVars, queue, bits, mgrState, connecting, dnsRunning, task, lost,
                   refused, wifiBounds>>

StartReadsMode(p) ==
    /\ ApStep(p, "mode", IF apOn THEN "dns" ELSE "set")
    /\ UNCHANGED <<conf, driverVars, queue, bits, managerVars, task, lost, refused, wifiBounds>>

StartSetsMode(p) ==
    /\ ApStep(p, "set", "dns")
    /\ SetMode(TRUE)
    /\ UNCHANGED <<conf, station, target, queue, bits, managerVars, task, lost, refused, wifiBounds>>

StartsDns(p) ==
    /\ ApStep(p, "dns", "none")
    /\ dnsRunning' = TRUE
    /\ failed' = failed \ {"dns"}
    /\ UNCHANGED <<conf, station, target, apOn, posted, queue, bits, mgrState, connecting,
                   apActive, task, lost, refused, wifiBounds>>

(* wifi_mgr_dns_start gets no socket, port or task; nobody looks at that.   *)
DnsFails(p) ==
    /\ ApStep(p, "dns", "none")
    /\ ~dnsRunning
    /\ Mishap
    /\ failed' = failed \cup {"dns"}
    /\ UNCHANGED <<conf, station, target, apOn, posted, queue, bits, managerVars, task, lost,
                   refused, calls>>

StopsDns(p) ==
    /\ ApStep(p, "stop", "unmark")
    /\ dnsRunning' = FALSE
    /\ UNCHANGED <<conf, driverVars, queue, bits, mgrState, connecting, apActive, task, lost,
                   refused, wifiBounds>>

StopUnmarks(p) ==
    /\ ApStep(p, "unmark", "sta")
    /\ apActive' = FALSE
    /\ UNCHANGED <<conf, driverVars, queue, bits, mgrState, connecting, dnsRunning, task, lost,
                   refused, wifiBounds>>

StopSetsMode(p) ==
    /\ ApStep(p, "sta", "none")
    /\ SetMode(FALSE)
    /\ UNCHANGED <<conf, station, target, queue, bits, managerVars, task, lost, refused, wifiBounds>>

(* esp_wifi_set_mode fails, in either of them, which goes on all the same.  *)
ModeFails(p) ==
    /\ ApStep(p, "set", "dns") \/ ApStep(p, "sta", "none")
    /\ Mishap
    /\ failed' = failed \cup {"mode"}
    /\ UNCHANGED <<conf, station, target, apOn, posted, queue, bits, managerVars, task, lost,
                   refused, calls>>

ApProcedure(p) ==
    \/ StartMarks(p) \/ StartReadsMode(p) \/ StartSetsMode(p) \/ StartsDns(p)
    \/ StopsDns(p) \/ StopUnmarks(p) \/ StopSetsMode(p) \/ DnsFails(p) \/ ModeFails(p)

-----------------------------------------------------------------------------
(***************************************************************************)
(* The manager's task.  It is at "receive" with a procedure of the access  *)
(* point under way while a handler waits for that procedure.               *)
(***************************************************************************)
At(pc) == task.pc = pc /\ ap[Task] = "none"
Goto(pc) == task' = [task EXCEPT !.pc = pc]
Begins(procedure) == ap' = [ap EXCEPT ![Task] = procedure]

(* wifi_mgr_start_connect_sequence, and the end of it.                      *)
BeginSequence ==
    IF Known = <<>>
    THEN /\ task' = Idle
         /\ IF conf.portal THEN Begins("start") ELSE UNCHANGED ap
         /\ UNCHANGED <<connecting, mgrState, target, bits>>
    ELSE /\ task' = [pc |-> "connect", network |-> 1, retry |-> 0]
         /\ connecting' = TRUE
         /\ mgrState' = "connecting"
         /\ target' = 1
         /\ bits' = {}
         /\ UNCHANGED ap

GiveUp ==
    /\ task' = Idle
    /\ connecting' = FALSE
    /\ mgrState' = "disconnected"
    /\ IF conf.portal /\ ~apActive THEN Begins("start") ELSE UNCHANGED ap
    /\ UNCHANGED <<target, bits>>

(* After the last attempt at a network comes the next network.              *)
NextAttempt ==
    CASE task.retry + 1 < Retries ->
            /\ task' = [task EXCEPT !.pc = "connect", !.retry = @ + 1]
            /\ bits' = {}
            /\ UNCHANGED <<connecting, mgrState, target, ap>>
      [] task.retry + 1 = Retries /\ task.network < Len(Known) ->
            /\ task' = [pc |-> "connect", network |-> task.network + 1, retry |-> 0]
            /\ mgrState' = "connecting"
            /\ target' = task.network + 1
            /\ bits' = {}
            /\ UNCHANGED <<connecting, ap>>
      [] OTHER -> GiveUp

Attempt ==
    /\ At("connect")
    /\ Connects
    /\ Goto("wait")
    /\ UNCHANGED <<conf, target, apOn, failed, queue, bits, managerVars, ap, lost, refused, wifiBounds>>

(* esp_wifi_connect reports an error: on to the next attempt, without delay.*)
AttemptRefused ==
    /\ At("connect")
    /\ Refuses
    /\ NextAttempt
    /\ refused' = TRUE
    /\ mishaps' = IF mishaps < MaxMishaps THEN mishaps + 1 ELSE mishaps
    /\ UNCHANGED <<conf, station, apOn, failed, posted, queue, apActive, dnsRunning, lost, calls>>

Succeeds ==
    /\ At("wait")
    /\ "connected" \in bits
    /\ task' = Idle
    /\ connecting' = FALSE
    /\ UNCHANGED <<conf, driverVars, queue, bits, mgrState, apActive, dnsRunning, ap, lost, refused,
                   wifiBounds>>

(* The attempt failed: after a pause, unless it was the last.               *)
AfterFailure ==
    IF task.retry + 1 < Retries
    THEN Goto("backoff") /\ UNCHANGED <<connecting, mgrState, target, bits, ap>>
    ELSE NextAttempt

Fails ==
    /\ At("wait")
    /\ "fail" \in bits /\ "connected" \notin bits
    /\ AfterFailure
    /\ UNCHANGED <<conf, station, apOn, failed, posted, queue, apActive, dnsRunning, lost, refused, wifiBounds>>

TimesOut ==
    /\ At("wait")
    /\ bits = {} /\ posted = <<>>
    /\ Mishap
    /\ AfterFailure
    /\ UNCHANGED <<conf, station, apOn, failed, posted, queue, apActive, dnsRunning, lost, refused, calls>>

BackoffEnds ==
    /\ At("backoff")
    /\ posted = <<>>
    /\ NextAttempt
    /\ UNCHANGED <<conf, station, apOn, failed, posted, queue, apActive, dnsRunning, lost, refused, wifiBounds>>

(* The delay before a reconnection is over.                                 *)
DelayEnds ==
    /\ At("delay")
    /\ posted = <<>>
    /\ IF apActive THEN task' = Idle /\ UNCHANGED <<connecting, mgrState, target, bits, ap>>
       ELSE BeginSequence
    /\ UNCHANGED <<conf, station, apOn, failed, posted, queue, apActive, dnsRunning, lost, refused, wifiBounds>>

-----------------------------------------------------------------------------
(* The events of wifi_mgr_task.                                             *)

Receives(event) ==
    /\ At("receive")
    /\ queue # <<>> /\ Head(queue) = event
    /\ queue' = Tail(queue)

Starts ==
    IF Known = <<>> /\ apActive
    THEN task' = Idle /\ UNCHANGED <<connecting, mgrState, target, bits, ap>>
    ELSE BeginSequence

OnStart ==
    /\ Receives("sta_start")
    /\ IF conf.apOnInit
       THEN /\ Begins("start")
            /\ Goto("started")
            /\ UNCHANGED <<connecting, mgrState, target, bits>>
       ELSE Starts
    /\ UNCHANGED <<conf, station, apOn, failed, posted, apActive, dnsRunning, lost, refused, wifiBounds>>

(* ... with start_ap_on_init, after wifi_manager_start_ap has returned.     *)
OnStartGoesOn ==
    /\ At("started")
    /\ Starts
    /\ UNCHANGED <<conf, station, apOn, failed, posted, queue, apActive, dnsRunning, lost, refused, wifiBounds>>

OnConnected ==
    /\ Receives("sta_connected")
    /\ mgrState' = "connected"
    /\ connecting' = FALSE
    /\ UNCHANGED <<conf, driverVars, bits, apActive, dnsRunning, task, ap, lost, refused, wifiBounds>>

Reconnects == conf.autoReconnect /\ ~apActive /\ ~connecting

(* Variant with a plausible bug: only a station known as connected          *)
(* reconnects.                                                              *)
OnDisconnected_FromConnected ==
    /\ Receives("sta_disconnected")
    /\ mgrState' = "disconnected"
    /\ bits' = {"fail"}
    /\ IF Reconnects /\ mgrState = "connected" THEN Goto("delay") ELSE UNCHANGED task
    /\ UNCHANGED <<conf, driverVars, connecting, apActive, dnsRunning, ap, lost, refused, wifiBounds>>

OnDisconnected ==
    /\ Receives("sta_disconnected")
    /\ mgrState' = "disconnected"
    /\ bits' = {"fail"}
    /\ IF Reconnects THEN Goto("delay") ELSE UNCHANGED task
    /\ UNCHANGED <<conf, driverVars, connecting, apActive, dnsRunning, ap, lost, refused, wifiBounds>>

OnGotIp ==
    /\ Receives("got_ip")
    /\ bits' = {"connected"}
    /\ IF conf.stopApOnConnect /\ apActive THEN Begins("stop") ELSE UNCHANGED ap
    /\ UNCHANGED <<conf, driverVars, managerVars, task, lost, refused, wifiBounds>>

(* Variant with a plausible bug: wifi_manager_start_ap has set it already.  *)
OnApEvent_StopOnly ==
    \E event \in {"ap_start", "ap_stop"} :
        /\ Receives(event)
        /\ apActive' = (apActive /\ event = "ap_start")
        /\ UNCHANGED <<conf, driverVars, bits, mgrState, connecting, dnsRunning, task, ap, lost,
                       refused, wifiBounds>>

OnApEvent ==
    \E event \in {"ap_start", "ap_stop"} :
        /\ Receives(event)
        /\ apActive' = (event = "ap_start")
        /\ UNCHANGED <<conf, driverVars, bits, mgrState, connecting, dnsRunning, task, ap, lost,
                       refused, wifiBounds>>

ManagerTask ==
    \/ Attempt \/ AttemptRefused \/ Succeeds \/ Fails \/ TimesOut \/ BackoffEnds \/ DelayEnds
    \/ OnStart \/ OnStartGoesOn \/ OnConnected \/ OnDisconnected \/ OnGotIp \/ OnApEvent
    \/ ApProcedure(Task)

-----------------------------------------------------------------------------
(***************************************************************************)
(* What the interfaces call, each in its own task, one call at a time.     *)
(***************************************************************************)
Called(i) ==
    /\ ap[i] = "none"
    /\ calls < MaxCalls /\ calls' = calls + 1

(* wifi_manager_connect without a network wakes the task.                   *)
AutoConnect(i) ==
    /\ Called(i)
    /\ Enqueue("sta_start")
    /\ UNCHANGED <<conf, driverVars, bits, managerVars, task, ap, refused, mishaps>>

ConnectTo(i, n) ==
    /\ Called(i)
    /\ ~(mgrState = "connected" /\ Associated /\ target = n)
    /\ mgrState' = "connecting"
    /\ target' = n
    /\ \/ Connects /\ UNCHANGED refused
       \/ Refuses /\ refused' = TRUE /\ UNCHANGED <<station, posted>>
    /\ UNCHANGED <<conf, apOn, failed, queue, bits, connecting, apActive, dnsRunning, task, ap, lost, mishaps>>

Disconnect(i) ==
    /\ Called(i)
    /\ conf' = [conf EXCEPT !.autoReconnect = FALSE]
    /\ connecting' = FALSE
    /\ Leaves
    /\ UNCHANGED <<target, apOn, failed, queue, bits, mgrState, apActive, dnsRunning, task, ap, lost, refused,
                   mishaps>>

(* A scan gives up the attempt that is under way.                           *)
Scan(i) ==
    /\ Called(i)
    /\ IF connecting \/ mgrState = "connecting"
       THEN connecting' = FALSE /\ Leaves
       ELSE UNCHANGED <<connecting, station, posted>>
    /\ UNCHANGED <<conf, target, apOn, failed, queue, bits, mgrState, apActive, dnsRunning, task, ap, lost,
                   refused, mishaps>>

SwitchAp(i, procedure) ==
    /\ Called(i)
    /\ ap' = [ap EXCEPT ![i] = procedure]
    /\ UNCHANGED <<conf, driverVars, queue, bits, managerVars, task, lost, refused, mishaps>>

StartAp(i) == SwitchAp(i, "start")
StopAp(i) == SwitchAp(i, "stop")

(* wifi_manager_set_ap_config restarts an access point that is active.      *)
SetApConfig(i) ==
    /\ apActive
    /\ SwitchAp(i, "start")

AnyConnect(i) == AutoConnect(i) \/ \E n \in Networks : ConnectTo(i, n)
SwitchesAp(i) == StartAp(i) \/ StopAp(i)

(* What the handlers of each interface offer.                               *)
Http(i) == AnyConnect(i) \/ Disconnect(i) \/ Scan(i) \/ SwitchesAp(i) \/ SetApConfig(i)
Cli(i) == AnyConnect(i) \/ Disconnect(i) \/ Scan(i) \/ SwitchesAp(i)
Ble(i) == AnyConnect(i) \/ Disconnect(i) \/ Scan(i) \/ SwitchesAp(i)
Bus(i) == AnyConnect(i) \/ Disconnect(i) \/ Scan(i) \/ SwitchesAp(i)

Calls == \E i \in Interfaces : Http(i) \/ Cli(i) \/ Ble(i) \/ Bus(i) \/ ApProcedure(i)

-----------------------------------------------------------------------------
Driver == Joins \/ GetsAddress \/ Drops

WifiNext == Driver \/ HandleEvent \/ ManagerTask \/ Calls

(***************************************************************************)
(* The driver ends every attempt, the tasks run and the delays end; calls  *)
(* and mishaps may or may not come.                                        *)
(***************************************************************************)
WifiFairness ==
    /\ WF_wifiVars(Joins \/ GetsAddress)
    /\ WF_wifiVars(HandleEvent)
    /\ WF_wifiVars(ManagerTask)

WifiSpec == WifiInit /\ [][WifiNext]_wifiVars /\ WifiFairness

-----------------------------------------------------------------------------
Events == {"sta_start", "sta_connected", "sta_disconnected", "got_ip", "ap_start", "ap_stop"}

WifiTypeOK ==
    /\ conf \in [autoReconnect : BOOLEAN, portal : BOOLEAN, apOnInit : BOOLEAN,
                 stopApOnConnect : BOOLEAN]
    /\ station \in {"idle", "joining", "joined", "up"}
    /\ target \in Networks \cup {0}
    /\ posted \in Seq(Events) /\ queue \in Seq(Events) /\ Len(queue) <= QueueSize
    /\ bits \in {{}, {"connected"}, {"fail"}}
    /\ failed \subseteq {"mode", "dns"}
    /\ mgrState \in {"disconnected", "connecting", "connected"}
    /\ {apOn, connecting, apActive, dnsRunning, lost, refused} \subseteq BOOLEAN
    /\ task \in [pc : {"receive", "started", "delay", "connect", "wait", "backoff"},
                 network : 0..Len(Known), retry : 0..(Retries - 1)]

(* Nothing is under way between driver, event loop and tasks.               *)
AtRest ==
    /\ posted = <<>> /\ queue = <<>>
    /\ task.pc = "receive"
    /\ \A p \in DOMAIN ap : ap[p] = "none"

(***************************************************************************)
(* What the manager reports settles on the truth, however starts and stops *)
(* of the access point by several tasks and late events of the driver      *)
(* overlap, unless the queue was full: a station that is reported          *)
(* connected is, the access point counts as active exactly when it is on,  *)
(* unless the driver did not take the last change of mode, and its portal  *)
(* has a DNS server, unless that did not start either.                     *)
(***************************************************************************)
StatusSettles ==
    AtRest /\ ~lost =>
        /\ mgrState = "connected" => Associated
        /\ "mode" \notin failed => (apOn <=> apActive)
        /\ failed = {} /\ apOn => dnsRunning

(***************************************************************************)
(* "If connected and disconnected -> auto-reconnect if enabled" (README of *)
(* the manager): as long as no access point counts as active, no event is  *)
(* lost and the driver never refuses, a station comes up again and again,  *)
(* whoever takes it down, and whatever stale events follow.                *)
(***************************************************************************)
Undisturbed == Known # <<>> /\ conf.autoReconnect /\ ~apActive /\ ~lost /\ ~refused

ComesBack == []Undisturbed => []<>(station = "up")
=============================================================================
