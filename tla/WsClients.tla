------------------------------ MODULE WsClients ------------------------------
(***************************************************************************)
(* The page's updates in the environment web server (web_server.c): the    *)
(* registry of WebSocket clients, the readings the sensor task publishes   *)
(* to it and the server's task that sends them, built with the callback    *)
(* after the handshake (CONFIG_HTTPD_WS_POST_HANDSHAKE_CB_SUPPORT).        *)
(*                                                                         *)
(* The server's task does one thing at a time; the sensor task and the     *)
(* event bus run beside it and share last_temperature, last_humidity and   *)
(* the registry with it, without a lock.                                   *)
(***************************************************************************)
EXTENDS Naturals, Sequences

CONSTANTS Fds,             \* descriptors of sockets, used again and again
          ClientsMax,      \* WS_CLIENTS_MAX
          MaxPublished,    \* bound: readings published
          MaxSendFailures  \* bound: sends, snapshots and queued works that fail

ASSUME WsAssumption ==
    ClientsMax \in Nat \ {0} /\ MaxPublished \in Nat /\ MaxSendFailures \in Nat

VARIABLES
    session,      \* of each descriptor: "free", "http", "ws" or "closing"
    clients,      \* ws_clients and ws_client_count
    lastTemp, lastHum,  \* last_temperature, last_humidity: numbers of readings
    works,        \* broadcasts queued with httpd_queue_work
    frame,        \* the snapshot a broadcast sends, or NoFrame
    place,        \* i in ws_broadcast_work
    ledState,     \* led_state
    page,         \* what the page at each descriptor received last
    dropped,      \* history: sessions whose last send failed
    behind,       \* history: clients that a snapshot or a broadcast that failed was for,
                  \* and no later one
    sendFailures

wsVars == <<session, clients, lastTemp, lastHum, works, frame, place, ledState, page, dropped,
            behind, sendFailures>>

(* What ws_build_snapshot reads, without the history (see Dht11).           *)
Snapshot == [temp |-> lastTemp, hum |-> lastHum, led |-> ledState]
NoFrame == [temp |-> 0, hum |-> 0, led |-> FALSE, none |-> TRUE]

Registered == {clients[i] : i \in 1..Len(clients)}

WsInit ==
    /\ session = [f \in Fds |-> "free"]
    /\ clients = <<>>
    /\ lastTemp = 0 /\ lastHum = 0
    /\ works = 0
    /\ frame = NoFrame
    /\ place = 1
    /\ ledState = FALSE
    /\ page = [f \in Fds |-> NoFrame]
    /\ dropped = {}
    /\ behind = {}
    /\ sendFailures = 0

(* The server's task is between two requests or works.                      *)
Free == frame = NoFrame

(* A browser connects, or goes away: the registry does not hear of it.      *)
ConnectPage(f) ==
    /\ Free
    /\ session[f] = "free"
    /\ session' = [session EXCEPT ![f] = "http"]
    /\ UNCHANGED <<clients, lastTemp, lastHum, works, frame, place, ledState, page, dropped,
                   behind, sendFailures>>

SessionEnds(f) ==
    /\ Free
    /\ session[f] # "free"
    /\ session' = [session EXCEPT ![f] = "free"]
    /\ page' = [page EXCEPT ![f] = NoFrame]
    /\ dropped' = dropped \ {f}
    /\ behind' = behind \ {f}
    /\ UNCHANGED <<clients, lastTemp, lastHum, works, frame, place, ledState, sendFailures>>

(* ws_add_client_fd *)
Added(f) ==
    IF f \in Registered \/ Len(clients) >= ClientsMax THEN clients ELSE Append(clients, f)

Refused(f) == f \notin Registered /\ Len(clients) >= ClientsMax

(* ws_remove_client_fd, for the registry c: those after the first f move up. *)
FirstOf(c, f) == CHOOSE i \in 1..Len(c) : c[i] = f /\ \A j \in 1..(i - 1) : c[j] # f
Without(c, f) ==
    IF \A i \in 1..Len(c) : c[i] # f THEN c
    ELSE SubSeq(c, 1, FirstOf(c, f) - 1) \o SubSeq(c, FirstOf(c, f) + 1, Len(c))

(***************************************************************************)
(* ws_post_handshake_cb: the client is added and gets a snapshot.  One     *)
(* that finds the registry full is closed, and gets its snapshot as well.  *)
(***************************************************************************)
Handshake(f) ==
    /\ Free
    /\ session[f] = "http"
    /\ session' = [session EXCEPT ![f] = IF Refused(f) THEN "closing" ELSE "ws"]
    /\ clients' = Added(f)
    /\ page' = [page EXCEPT ![f] = Snapshot]
    /\ behind' = behind \ {f}
    /\ UNCHANGED <<lastTemp, lastHum, works, frame, place, ledState, dropped, sendFailures>>

(* The same when ws_send_snapshot_to_fd fails.                              *)
HandshakeUnsent(f) ==
    /\ Free
    /\ session[f] = "http"
    /\ sendFailures < MaxSendFailures
    /\ sendFailures' = sendFailures + 1
    /\ session' = [session EXCEPT ![f] = IF Refused(f) THEN "closing" ELSE "ws"]
    /\ clients' = Without(Added(f), f)
    /\ dropped' = dropped \cup {f}
    /\ UNCHANGED <<lastTemp, lastHum, works, frame, place, ledState, page, behind>>

(* The same when there is no memory for the snapshot: the client stays.     *)
HandshakeNoMemory(f) ==
    /\ Free
    /\ session[f] = "http"
    /\ sendFailures < MaxSendFailures
    /\ sendFailures' = sendFailures + 1
    /\ session' = [session EXCEPT ![f] = IF Refused(f) THEN "closing" ELSE "ws"]
    /\ clients' = Added(f)
    /\ behind' = behind \cup {f}
    /\ UNCHANGED <<lastTemp, lastHum, works, frame, place, ledState, page, dropped>>

(* handler_post_led with a body that is JSON, whatever it says.             *)
PostLed ==
    /\ Free
    /\ ledState' = ~ledState
    /\ UNCHANGED <<session, clients, lastTemp, lastHum, works, frame, place, page, dropped,
                   behind, sendFailures>>

(* web_server_publish_metrics, in the sensor task.                          *)
PublishTemp ==
    /\ lastTemp = lastHum
    /\ lastTemp < MaxPublished
    /\ lastTemp' = lastTemp + 1
    /\ UNCHANGED <<session, clients, lastHum, works, frame, place, ledState, page, dropped,
                   behind, sendFailures>>

PublishHum ==
    /\ lastTemp # lastHum
    /\ lastHum' = lastTemp
    /\ works' = works + 1
    /\ UNCHANGED <<session, clients, lastTemp, frame, place, ledState, page, dropped, behind,
                   sendFailures>>

(* The same when httpd_queue_work fails, which nobody looks at.             *)
PublishUnqueued ==
    /\ lastTemp # lastHum
    /\ lastHum' = lastTemp
    /\ sendFailures < MaxSendFailures
    /\ sendFailures' = sendFailures + 1
    /\ behind' = behind \cup Registered
    /\ UNCHANGED <<session, clients, lastTemp, works, frame, place, ledState, page, dropped>>

(* ws_broadcast_work: one snapshot for all clients.                         *)
BeginBroadcast ==
    /\ Free
    /\ works > 0
    /\ works' = works - 1
    /\ frame' = Snapshot
    /\ place' = 1
    /\ behind' = {}
    /\ UNCHANGED <<session, clients, lastTemp, lastHum, ledState, page, dropped, sendFailures>>

(* The same when there is no memory for the snapshot: nobody is sent to.    *)
BroadcastNoMemory ==
    /\ Free
    /\ works > 0
    /\ works' = works - 1
    /\ sendFailures < MaxSendFailures
    /\ sendFailures' = sendFailures + 1
    /\ behind' = behind \cup Registered
    /\ UNCHANGED <<session, clients, lastTemp, lastHum, frame, place, ledState, page, dropped>>

Broadcasting == ~Free /\ place <= Len(clients)

SendTo ==
    /\ Broadcasting
    /\ session[clients[place]] = "ws"
    /\ page' = [page EXCEPT ![clients[place]] = frame]
    /\ place' = place + 1
    /\ UNCHANGED <<session, clients, lastTemp, lastHum, works, frame, ledState, dropped,
                   behind, sendFailures>>

SendFails ==
    /\ Broadcasting
    /\ session[clients[place]] = "ws"
    /\ sendFailures < MaxSendFailures
    /\ sendFailures' = sendFailures + 1
    /\ dropped' = dropped \cup {clients[place]}
    /\ clients' = Without(clients, clients[place])
    /\ UNCHANGED <<session, lastTemp, lastHum, works, frame, place, ledState, page, behind>>

(* Variant with a plausible bug: the next client has moved up and is skipped. *)
ForgetClient_SkipsNext ==
    /\ Broadcasting
    /\ session[clients[place]] # "ws"
    /\ clients' = Without(clients, clients[place])
    /\ place' = place + 1
    /\ UNCHANGED <<session, lastTemp, lastHum, works, frame, ledState, page, dropped,
                   behind, sendFailures>>

(* The descriptor is no WebSocket any more.                                 *)
ForgetClient ==
    /\ Broadcasting
    /\ session[clients[place]] # "ws"
    /\ clients' = Without(clients, clients[place])
    /\ UNCHANGED <<session, lastTemp, lastHum, works, frame, place, ledState, page, dropped,
                   behind, sendFailures>>

EndBroadcast ==
    /\ ~Free
    /\ place > Len(clients)
    /\ frame' = NoFrame
    /\ UNCHANGED <<session, clients, lastTemp, lastHum, works, place, ledState, page, dropped,
                   behind, sendFailures>>

(***************************************************************************)
(* The access point stops: the bus calls on_wifi_event with the name of    *)
(* the event, without its source, and only for the qualified name the      *)
(* handler closes the clients (web_server_close_websocket_clients).        *)
(***************************************************************************)
PassedName == "ap_stop"
ExpectedName == "wifi:ap_stop"

ApStops ==
    /\ clients # <<>>
    /\ IF PassedName = ExpectedName
       THEN /\ session' = [f \in Fds |-> IF f \in Registered THEN "closing" ELSE session[f]]
            /\ clients' = <<>>
       ELSE UNCHANGED <<session, clients>>
    /\ UNCHANGED <<lastTemp, lastHum, works, frame, place, ledState, page, dropped, behind,
                   sendFailures>>

WsNext ==
    \/ \E f \in Fds : ConnectPage(f) \/ SessionEnds(f)
    \/ \E f \in Fds : Handshake(f) \/ HandshakeUnsent(f) \/ HandshakeNoMemory(f)
    \/ PostLed \/ PublishTemp \/ PublishHum \/ PublishUnqueued
    \/ BeginBroadcast \/ BroadcastNoMemory \/ SendTo \/ SendFails \/ ForgetClient \/ EndBroadcast
    \/ ApStops

WsSpec == WsInit /\ [][WsNext]_wsVars

-----------------------------------------------------------------------------
WsTypeOK ==
    /\ session \in [Fds -> {"free", "http", "ws", "closing"}]
    /\ clients \in Seq(Fds) /\ Len(clients) <= ClientsMax
    /\ lastTemp \in 0..MaxPublished /\ lastHum \in 0..MaxPublished
    /\ works \in 0..MaxPublished
    /\ place \in 1..(ClientsMax + 1)
    /\ dropped \subseteq Fds /\ behind \subseteq Fds
    /\ sendFailures \in 0..MaxSendFailures

(***************************************************************************)
(* No page is forgotten: every WebSocket whose last send did not fail is   *)
(* in the registry, once, although descriptors of sessions that ended stay *)
(* there and are used again; and when nothing is under way it shows the    *)
(* last reading, temperature and humidity of the same one, unless that     *)
(* reading's broadcast was not queued or had no memory, or its first       *)
(* snapshot had none: such a page is up to date again with the next        *)
(* broadcast.                                                              *)
(***************************************************************************)
Quiet == Free /\ works = 0 /\ lastTemp = lastHum

NobodyForgotten ==
    \A f \in Fds :
        session[f] = "ws" /\ f \notin dropped =>
            /\ \E i \in 1..Len(clients) :
                  clients[i] = f /\ \A j \in 1..Len(clients) : clients[j] = f => j = i
            /\ Quiet /\ f \notin behind => page[f].temp = lastTemp /\ page[f].hum = lastHum

=============================================================================
