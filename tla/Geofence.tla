------------------------------- MODULE Geofence -------------------------------
(***************************************************************************)
(* The system: collars (Edge), the gateway (Gateway), the air between them *)
(* and the MQTT broker the operator's orders come from.                    *)
(*                                                                         *)
(* An order is the n-th position or fence the operator publishes; what     *)
(* Gateway calls its version is its place in that sequence.  The two       *)
(* halves of a text are its latitudes and its longitudes.                  *)
(***************************************************************************)
EXTENDS Integers, Sequences, FiniteSetsExt

CONSTANTS
    Collars, Coord, StepNormal, StepFast, DefaultPos, DefaultFence,
    None, WakeModulus,                      \* as in Edge
    Noise, Echo, Faulty,                    \* as in Gateway
    GpsOrders, FenceOrders,     \* what the operator orders, in this order
    Topics,                     \* the control topics the operator uses
    Silence,                    \* nothing for a collar to receive
    AirLoses,                   \* whether a listener may miss a packet
    OutboxSize,     \* how many messages the MQTT client has the memory to keep
    MaxWakes,                   \* bound on the wake-ups of a collar
    MaxOutages      \* bound on resets, gateway restarts and driver errors

VARIABLES
    pos, fence, wakeCount, lastInside, pc, console, inside, resets,
    lora, rx, asked, copied, downlink, notified, dio0, radio, fifo,
    handler, incoming, buffer, has, connected, wifi, newest, relayed, troubled,
    air,            \* the packet a listening collar is about to read
    retained,       \* per topic, the order the broker retains, 0 if none
    inbox,          \* what the broker is delivering to the gateway
    kept,           \* heartbeats the gateway's MQTT client may send again
    published,      \* per collar, the wake of the last that reached the broker
    restarts        \* how many restarts the gateway had, for the bound

collarVars == <<pos, fence, wakeCount, lastInside, pc, console, inside, resets>>
gatewayVars ==
    <<lora, rx, asked, copied, downlink, notified, dio0, radio, fifo,
      handler, incoming, buffer, has, connected, wifi, newest, relayed,
      troubled>>
uplink == <<kept, published>>
envVars == <<air, retained, inbox, uplink, restarts>>
vars == <<collarVars, gatewayVars, envVars>>

(* Every text the gateway can put together: the latitudes of one order and *)
(* the longitudes of another.                                              *)
GpsMix(a, b) == [lat |-> GpsOrders[a].lat, lon |-> GpsOrders[b].lon]
FenceMix(a, b) ==
    [minLat |-> FenceOrders[a].minLat, maxLat |-> FenceOrders[a].maxLat,
     minLon |-> FenceOrders[b].minLon, maxLon |-> FenceOrders[b].maxLon]

GpsTexts == { GpsMix(a, b) : a, b \in DOMAIN GpsOrders }
FenceTexts == { FenceMix(a, b) : a, b \in DOMAIN FenceOrders }

E == INSTANCE Edge WITH GpsTargets <- GpsTexts, FenceTargets <- FenceTexts,
                        MaxResets <- MaxOutages

Heartbeats == [from: Collars, pos: E!Position, inside: BOOLEAN,
               wake: 0 .. WakeModulus - 1]

G == INSTANCE Gateway WITH
         MaxVersion <- [k \in {"gps", "fence"} |->
             IF k = "gps" THEN Len(GpsOrders) ELSE Len(FenceOrders)]

ASSUME GeofenceAssumption ==
    /\ Coord \subseteq Int /\ DefaultFence \in E!Fence /\ None \notin E!Fence
    /\ FenceOrders \in Seq(E!Fence)
    /\ Topics \subseteq {"simulated_gps", "fence_update", "config_update"}
    /\ Echo \notin Heartbeats /\ None \notin Heartbeats
    /\ WakeModulus \in Nat \ {0} /\ MaxWakes \in Nat /\ MaxOutages \in Nat
    /\ OutboxSize \in Nat

(* The control topics are simulated_gps, fence_update and config_update.   *)
KindOf(t) == IF t = "simulated_gps" THEN "gps" ELSE "fence"

(* What the bound counts: an error of the driver for as long as it shows.  *)
Outages == resets + restarts + (IF troubled THEN 1 ELSE 0)

Init ==
    /\ E!EdgeInit /\ G!GatewayInit
    /\ air = [c \in Collars |-> Silence]
    /\ retained = [t \in Topics |-> 0]
    /\ inbox = << >>
    /\ kept = {}
    /\ published = [c \in Collars |-> 0]
    /\ restarts = 0

-----------------------------------------------------------------------------
(* The air.  All radios share one frequency and one sync word: whoever     *)
(* listens hears a packet, unless it is lost for this listener.            *)

Nothing == [gps |-> None, fence |-> None]

Parse(d) ==
    [gps   |-> IF d["gps"][1] = 0 THEN None
                                  ELSE GpsMix(d["gps"][1], d["gps"][2]),
     fence |-> IF d["fence"][1] = 0 THEN None
                                    ELSE FenceMix(d["fence"][1], d["fence"][2])]

Listening == { c \in Collars : pc[c] = "listen" }

Broadcast(packet) ==
    \E hearers \in IF AirLoses THEN SUBSET Listening ELSE {Listening} :
        air' = [c \in Collars |-> IF c \in hearers THEN packet ELSE air[c]]

(* A heartbeat: the gateway hears it, if its radio receives, and so do the *)
(* other collars that listen, for whom it is a packet without a position   *)
(* and without a fence.                                                    *)
SendHeartbeat(c) ==
    /\ E!Transmit(c)
    /\ \/ G!PacketArrives(E!Heartbeat(c))
       \/ /\ AirLoses \/ radio # "rx" \/ lora = "drain"
          /\ UNCHANGED gatewayVars
    /\ Broadcast(Nothing)
    /\ UNCHANGED <<retained, inbox, uplink, restarts>>

SendDownlink ==
    /\ G!SendDownlink
    /\ Broadcast(Parse(downlink))
    /\ UNCHANGED <<collarVars, retained, inbox, uplink, restarts>>

(* A packet ends the receive window of whoever reads it.                   *)
Receive(c) ==
    /\ air[c] # Silence
    /\ E!Receive(c, air[c])
    /\ air' = [air EXCEPT ![c] = Silence]
    /\ UNCHANGED <<gatewayVars, retained, inbox, uplink, restarts>>

(* The gateway has the collar's heartbeat and still owes the answer.       *)
Awaited(c) ==
    \/ lora \in {"waiting", "read"} /\ dio0 /\ fifo \in Heartbeats /\ fifo.from = c
    \/ lora \in {"delay", "format", "send"} /\ rx.from = c

(* The window of 8 s outlasts the answer, which comes 350 ms and one       *)
(* packet's time after the heartbeat.                                      *)
WindowCloses(c) ==
    /\ air[c] = Silence /\ ~Awaited(c)
    /\ E!WindowCloses(c)
    /\ UNCHANGED <<gatewayVars, envVars>>

-----------------------------------------------------------------------------
(* What collars and gateway do by themselves.                              *)

Wake(c) ==
    /\ wakeCount[c] < MaxWakes
    /\ E!Wake(c)
    /\ UNCHANGED <<gatewayVars, envVars>>

CollarStep(c) ==
    /\ E!LeaveConsole(c) \/ E!Evaluate(c) \/ E!RadioFails(c) \/ E!Settle(c)
    /\ UNCHANGED <<gatewayVars, envVars>>

UseConsole(c) ==
    /\ E!Operate(c)
    /\ UNCHANGED <<gatewayVars, envVars>>

ResetCollar(c) ==
    /\ Outages < MaxOutages
    /\ E!Reset(c)
    /\ air' = [air EXCEPT ![c] = Silence]
    /\ UNCHANGED <<gatewayVars, retained, inbox, uplink, restarts>>

GatewayStep ==
    /\ \/ G!TaskWakes \/ G!ReadHeartbeat \/ G!ReadOther \/ G!SampleFlags
       \/ G!CopyPart \/ G!ResetFlags \/ G!SkipPublish
       \/ G!AwaitBroker \/ G!DropHeartbeat \/ G!Rearm \/ G!Drain
    /\ UNCHANGED <<collarVars, envVars>>

(* The gateway's radio driver reports an error, once between two starts.   *)
DriverFails ==
    /\ ~troubled /\ Outages < MaxOutages
    /\ G!SendFails \/ G!RearmFails
    /\ UNCHANGED <<collarVars, envVars>>

HandlerStep ==
    /\ G!MqttTask
    /\ UNCHANGED <<collarVars, envVars>>

-----------------------------------------------------------------------------
(* The way of the heartbeats to the broker.  A connection keeps the order  *)
(* of what is written to it, so that a message counts as arrived when it   *)
(* is written.  The publications have QoS 1: the client forgets one when   *)
(* it is acknowledged, or after a while; one whose acknowledgement is late *)
(* or lost, or that did not arrive because the connection is dead, it      *)
(* keeps, and sends again, in whatever order.                              *)

ReachesBroker(h) == published' = [published EXCEPT ![h.from] = h.wake]

Keep(h) == Cardinality(kept \cup {h}) <= OutboxSize /\ kept' = kept \cup {h}

(* A client that has no memory for the heartbeat refuses it; the result of *)
(* the call is ignored.                                                    *)
Publish ==
    /\ G!PublishHeartbeat
    /\ \/ ReachesBroker(rx) /\ (Keep(rx) \/ UNCHANGED kept)
       \/ Keep(rx) /\ UNCHANGED published
       \/ UNCHANGED uplink
    /\ UNCHANGED <<collarVars, air, retained, inbox, restarts>>

Resend(h) ==
    /\ connected /\ h \in kept
    /\ ReachesBroker(h)
    /\ kept' \in {kept, kept \ {h}}
    /\ UNCHANGED <<collarVars, gatewayVars, air, retained, inbox, restarts>>

Forget(h) ==
    /\ h \in kept
    /\ kept' = kept \ {h}
    /\ UNCHANGED <<collarVars, gatewayVars, air, retained, inbox, published, restarts>>

OutboxStep == \E h \in kept : Resend(h) \/ Forget(h)

-----------------------------------------------------------------------------
(* The broker.                                                             *)

Ordered(kind) == Max({0} \cup { retained[t] : t \in { u \in Topics : KindOf(u) = kind } })

Orders(kind) == IF kind = "gps" THEN GpsOrders ELSE FenceOrders

(* The operator publishes the next order, retained.                        *)
Order(t) ==
    /\ Ordered(KindOf(t)) < Len(Orders(KindOf(t)))
    /\ LET n == Ordered(KindOf(t)) + 1 IN
          /\ retained' = [retained EXCEPT ![t] = n]
          /\ inbox' = IF connected THEN Append(inbox, <<t, n>>) ELSE inbox
    /\ UNCHANGED <<collarVars, gatewayVars, air, uplink, restarts>>

(* The gateway connects with a clean session and subscribes, topic by      *)
(* topic: the broker delivers what it retains.                             *)
Retained(t) ==
    IF t \in Topics /\ retained[t] > 0 THEN << <<t, retained[t]>> >> ELSE << >>

Connect ==
    /\ ~connected /\ wifi
    /\ G!SetConnected(TRUE)
    /\ inbox' = Retained("simulated_gps") \o Retained("fence_update")
                  \o Retained("config_update")
    /\ UNCHANGED <<collarVars, air, retained, uplink, restarts>>

Disconnect ==
    /\ connected
    /\ G!SetConnected(FALSE)
    /\ inbox' = << >>
    /\ UNCHANGED <<collarVars, air, retained, uplink, restarts>>

Deliver ==
    /\ inbox # << >>
    /\ G!StoreFirstHalf(KindOf(Head(inbox)[1]), Head(inbox)[2])
    /\ inbox' = Tail(inbox)
    /\ UNCHANGED <<collarVars, air, retained, uplink, restarts>>

SwitchWifi ==
    /\ G!SetWifi(~wifi)
    /\ UNCHANGED <<collarVars, envVars>>

(* The gateway loses power and starts again: nothing of it is persistent.  *)
RestartGateway ==
    /\ Outages < MaxOutages
    /\ restarts' = restarts + 1
    /\ lora' = "waiting" /\ rx' = None
    /\ asked' = [k \in G!Kind |-> FALSE] /\ copied' = 0 /\ downlink' = G!Blank
    /\ notified' = FALSE /\ dio0' = FALSE /\ radio' = "rx" /\ fifo' = None
    /\ handler' = "idle" /\ incoming' = <<"gps", 0>> /\ buffer' = G!Blank
    /\ has' = [k \in G!Kind |-> FALSE]
    /\ connected' = FALSE /\ wifi' = TRUE
    /\ newest' = [k \in G!Kind |-> 0] /\ relayed' = G!Blank /\ troubled' = FALSE
    /\ inbox' = << >> /\ kept' = {}
    /\ UNCHANGED <<collarVars, air, retained, published>>

-----------------------------------------------------------------------------
CollarNext(c) ==
    \/ Wake(c) \/ CollarStep(c) \/ UseConsole(c) \/ ResetCollar(c)
    \/ SendHeartbeat(c) \/ Receive(c) \/ WindowCloses(c)

GatewayNext == GatewayStep \/ DriverFails \/ SendDownlink \/ Publish

Next ==
    \/ \E c \in Collars : CollarNext(c)
    \/ GatewayNext \/ HandlerStep \/ OutboxStep \/ Deliver
    \/ \E t \in Topics : Order(t)
    \/ Connect \/ Disconnect \/ SwitchWifi \/ RestartGateway

(* The tasks of both firmwares run when they can: the position console and *)
(* the receive window have a time-out, the sleep a timer.                  *)
Scheduling ==
    /\ WF_vars(GatewayNext) /\ WF_vars(HandlerStep)
    /\ \A c \in Collars :
          /\ WF_vars(Wake(c)) /\ WF_vars(CollarStep(c))
          /\ WF_vars(Receive(c)) /\ WF_vars(WindowCloses(c))

(* A collar's radio starts now and then, a heartbeat that ends while the   *)
(* gateway waits for one is heard now and then, and its checksum is right  *)
(* now and then.                                                           *)
AirCarries ==
    /\ \A c \in Collars :
          /\ SF_vars(SendHeartbeat(c))
          /\ SF_vars(SendHeartbeat(c) /\ lora = "waiting" /\ notified')
    /\ SF_vars(GatewayStep /\ lora = "read" /\ lora' = "delay")

Spec == Init /\ [][Next]_vars /\ Scheduling /\ AirCarries

-----------------------------------------------------------------------------
TypeOK ==
    /\ E!EdgeTypeOK /\ G!GatewayTypeOK
    /\ air \in [Collars -> E!Downlink \cup {Silence}]
    /\ retained \in [Topics -> 0 .. Max({Len(GpsOrders), Len(FenceOrders)})]
    /\ inbox \in Seq(Topics \X (Nat \ {0}))
    /\ kept \subseteq Heartbeats
    /\ published \in [Collars -> 0 .. WakeModulus - 1]
    /\ restarts \in 0 .. MaxOutages

(* The gateway publishes the heartbeats of a collar in the order they were *)
(* sent, and none twice: each is newer than whatever of its collar reached *)
(* the broker before and than what the client may still send again, across *)
(* lost packets, busy gateways and gateways that restart.  What the client *)
(* sends again, with QoS 1, may reach the broker late, or twice.  A reset  *)
(* starts the wake count of a collar again.                                *)
PublishedInOrder ==
    [][resets = 0 /\ G!PublishHeartbeat =>
          /\ rx.wake > published[rx.from]
          /\ \A h \in kept : h.from = rx.from => rx.wake > h.wake]_vars

(* a is at least as new as b: no coordinate of it comes from an older      *)
(* order.  This reads the age of a coordinate off its value, so that the   *)
(* orders of a run ascend in every coordinate, from the default on.        *)
NotOlder(a, b) ==
    /\ a.minLat >= b.minLat /\ a.minLon >= b.minLon
    /\ a.maxLat >= b.maxLat /\ a.maxLon >= b.maxLon

(* What NotOlder needs of the orders: the latest has the greatest          *)
(* coordinates.  Fences come on one topic only: of several the broker      *)
(* retains one fence each, and delivers them in the order of the topics.   *)
FenceAt(n) == IF n = 0 THEN DefaultFence ELSE FenceOrders[n]

OrdersAscend ==
    \A m, n \in 0 .. Len(FenceOrders) : m <= n => NotOlder(FenceAt(n), FenceAt(m))

OneFenceTopic ==
    \A t, u \in Topics : KindOf(t) = "fence" /\ KindOf(u) = "fence" => t = u

(* A collar never goes back to an older fence, not even in one coordinate, *)
(* unless it is reset.                                                     *)
FenceAdvances ==
    [][resets' = resets =>
          \A c \in Collars : NotOlder(fence'[c], fence[c])]_vars

(* With one collar, air that loses nothing and a driver that works, a      *)
(* fence that is pending whole in the gateway reaches the collar, or a     *)
(* newer one does: the answer to a heartbeat always finds the collar's     *)
(* window open.                                                            *)
PendingReachesCollar ==
    \A c \in Collars : \A n \in DOMAIN FenceOrders :
        (lora = "waiting" /\ has["fence"] /\ \A h \in G!Half : buffer["fence"][h] = n)
            ~> NotOlder(fence[c], FenceOrders[n])

=============================================================================
