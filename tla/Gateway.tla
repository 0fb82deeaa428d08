------------------------------- MODULE Gateway -------------------------------
(***************************************************************************)
(* The gateway firmware once its radio is started,                         *)
(* proyecto-final/gateway-module/main.  Two tasks run in parallel:         *)
(*                                                                         *)
(*   - the LoRa task (lora_rx_processing_task), woken by the DIO0          *)
(*     interrupt, answers a heartbeat with a downlink that carries the     *)
(*     commands received so far, and publishes the heartbeat;              *)
(*   - the MQTT client's task (mqtt_event_handler) stores the commands of  *)
(*     the dashboard in two buffers, each with a flag.                     *)
(*                                                                         *)
(* They share the buffers and the flags without any lock.  A command is a  *)
(* version number, and a buffer is the pair of its two halves: memcpy and  *)
(* snprintf work from front to back, and either can be overtaken by the    *)
(* other, so that a text read while it is written mixes two versions.      *)
(***************************************************************************)
EXTENDS Naturals, Sequences

CONSTANTS
    Heartbeats,     \* what lora_rx_processing_task accepts as a heartbeat
    Noise,          \* any other packet
    Echo,           \* what a transmission leaves in the radio's FIFO
    None,           \* nothing received yet
    MaxVersion,     \* commands of each kind the dashboard sends, a bound
    Faulty          \* whether the radio driver may report errors

Kind == {"gps", "fence"}
Half == {1, 2}

(* The order in which snprintf copies the parts of the downlink.           *)
Parts == << <<"gps", 1>>, <<"gps", 2>>, <<"fence", 1>>, <<"fence", 2>> >>

ASSUME GatewayAssumption ==
    /\ Noise \notin Heartbeats /\ Echo \notin Heartbeats /\ None \notin Heartbeats
    /\ MaxVersion \in [Kind -> Nat]
    /\ Faulty \in BOOLEAN

VARIABLES
    \* the LoRa task
    lora,           \* where it is in its loop
    rx,             \* rx_buffer, the heartbeat being processed
    asked,          \* the flags as the downlink's arguments were evaluated
    copied,         \* how many Parts snprintf has copied
    downlink,       \* the text under construction: version of each half
    \* the interrupt and the radio
    notified,       \* the LoRa task's notification count is not zero
    dio0,           \* the level of the DIO0 pin
    radio,          \* mode of the SX1278
    fifo,           \* the packet in its FIFO
    \* the MQTT task
    handler,        \* where mqtt_event_handler is
    incoming,       \* the command it is storing
    buffer,         \* downlink_gps_buffer and downlink_fence_buffer
    has,            \* has_new_gps and has_new_fence
    connected,      \* mqtt_connected
    \* the Wi-Fi manager
    wifi,           \* s_wifi_connected
    \* history
    newest,         \* the newest command of each kind MQTT has delivered
    relayed,        \* halves of the last command of each kind put on the air
    troubled        \* the radio driver has reported an error

loraVars  == <<lora, rx, asked, copied, downlink>>
radioVars == <<notified, dio0, radio, fifo>>
mqttVars  == <<handler, incoming, buffer, has, connected>>
history   == <<newest, relayed, troubled>>
gatewayVars ==
    <<lora, rx, asked, copied, downlink, notified, dio0, radio, fifo,
      handler, incoming, buffer, has, connected, wifi, history>>

Stages == {"waiting", "read", "delay", "format", "send", "reset",
           "publish", "await", "rearm", "drain"}
Blank == [k \in Kind |-> [h \in Half |-> 0]]

Step(from, to) == lora = from /\ lora' = to

(* gateway_start_radio has run: the task waits, the radio receives.        *)
GatewayInit ==
    /\ lora = "waiting" /\ rx = None
    /\ asked = [k \in Kind |-> FALSE]
    /\ copied = 0 /\ downlink = Blank
    /\ notified = FALSE /\ dio0 = FALSE /\ radio = "rx" /\ fifo = None
    /\ handler = "idle" /\ incoming = <<"gps", 0>>
    /\ buffer = Blank
    /\ has = [k \in Kind |-> FALSE]
    /\ connected = FALSE /\ wifi = TRUE
    /\ newest = [k \in Kind |-> 0]
    /\ relayed = Blank
    /\ troubled = FALSE

-----------------------------------------------------------------------------
(* Variants with a plausible bug, to test the properties against; none is  *)
(* a part of the specification.                                            *)

(* The result of lora_receive is ignored: the buffer still holds the       *)
(* heartbeat before.                                                       *)
ReadOther_Stale ==
    /\ lora = "read"
    /\ lora' = IF rx \in Heartbeats THEN "delay" ELSE "rearm"
    /\ dio0' \in {FALSE, dio0}
    /\ UNCHANGED <<rx, asked, copied, downlink, notified, radio, fifo,
                   mqttVars, wifi, history>>

(* With nothing to relay the downlink is left out.                         *)
SampleFlags_OnlyIfAny ==
    /\ lora = "delay"
    /\ lora' = IF \E k \in Kind : has[k] THEN "format" ELSE "publish"
    /\ asked' = has
    /\ copied' = 0
    /\ UNCHANGED <<rx, downlink, radioVars, mqttVars, wifi, history>>

(* The flag of the position decides for both parts.                        *)
SampleFlags_OneForBoth ==
    /\ Step("delay", "format")
    /\ asked' = [k \in Kind |-> has["gps"]]
    /\ copied' = 0
    /\ UNCHANGED <<rx, downlink, radioVars, mqttVars, wifi, history>>

(* Without Wi-Fi the rest of the loop is skipped.                          *)
SkipPublish_Continue ==
    /\ ~wifi
    /\ Step("publish", "drain")
    /\ UNCHANGED <<rx, asked, copied, downlink, radioVars, mqttVars, wifi,
                   history>>

(* The radio is started again only if it stopped receiving.                *)
Rearm_IfStopped ==
    /\ Step("rearm", "drain")
    /\ radio' = "rx"
    /\ dio0' = (dio0 /\ radio = "rx")
    /\ UNCHANGED <<rx, asked, copied, downlink, notified, fifo, mqttVars,
                   wifi, history>>

(* The notification of the gateway's own TxDone is left pending.           *)
Drain_KeepsNotification ==
    /\ Step("drain", "waiting")
    /\ asked' = [k \in Kind |-> FALSE]
    /\ copied' = 0
    /\ downlink' = Blank
    /\ UNCHANGED <<rx, radioVars, mqttVars, wifi, history>>

-----------------------------------------------------------------------------
(* The radio.                                                              *)

(* A packet has arrived completely: DIO0 goes high, and its rising edge    *)
(* runs lora_dio0_isr_handler, which notifies the task.  A pin that is     *)
(* high already has no rising edge.  A packet takes the better part of a   *)
(* second on the air, so that none is complete between startReceive and    *)
(* the ulTaskNotifyTake that follows it.                                   *)
PacketArrives(p) ==
    /\ radio = "rx"
    /\ lora # "drain"
    /\ fifo' = p
    /\ dio0' = TRUE
    /\ notified' = (notified \/ ~dio0)
    /\ UNCHANGED <<loraVars, radio, mqttVars, wifi, history>>

(* transmit: standby, then the packet out of the FIFO; TxDone raises DIO0  *)
(* and with it the interrupt, and the driver clears the pin.               *)
Transmitted ==
    /\ radio' = "standby"
    /\ fifo' = Echo
    /\ dio0' = FALSE
    /\ notified' = TRUE

(* transmit reports an error, as it does for a text over 255 bytes.        *)
TransmitFails == radio' = "standby" /\ UNCHANGED <<fifo, dio0, notified>>

(* startReceive clears the pin and listens until told otherwise.           *)
StartReceive == radio' = "rx" /\ dio0' = FALSE /\ UNCHANGED <<fifo, notified>>

-----------------------------------------------------------------------------
(* The LoRa task.                                                          *)

(* ulTaskNotifyTake(pdTRUE, portMAX_DELAY): the count goes to zero.        *)
TaskWakes ==
    /\ notified
    /\ Step("waiting", "read")
    /\ notified' = FALSE
    /\ UNCHANGED <<rx, asked, copied, downlink, dio0, radio, fifo,
                   mqttVars, wifi, history>>

(* lora_receive returned a heartbeat; the radio keeps receiving.           *)
ReadHeartbeat ==
    /\ fifo \in Heartbeats
    /\ Step("read", "delay")
    /\ rx' = fifo
    /\ dio0' = FALSE
    /\ UNCHANGED <<asked, copied, downlink, notified, radio, fifo,
                   mqttVars, wifi, history>>

(* lora_receive failed, as for a bad checksum, or what it returned does    *)
(* not look like a heartbeat: the task only listens again.                 *)
ReadOther ==
    /\ Step("read", "rearm")
    /\ dio0' \in {FALSE, dio0}
    /\ UNCHANGED <<rx, asked, copied, downlink, notified, radio, fifo,
                   mqttVars, wifi, history>>

(* The 350 ms turnaround is over and the arguments of snprintf are         *)
(* evaluated: each flag decides between its buffer and null.               *)
SampleFlags ==
    /\ Step("delay", "format")
    /\ asked' = has
    /\ copied' = 0
    /\ UNCHANGED <<rx, downlink, radioVars, mqttVars, wifi, history>>

(* snprintf copies one half of one buffer, as it is now.                   *)
CopyPart ==
    /\ lora = "format"
    /\ copied < Len(Parts)
    /\ LET part == Parts[copied + 1] IN
          downlink' = [downlink EXCEPT ![part[1]][part[2]] =
              IF asked[part[1]] THEN buffer[part[1]][part[2]] ELSE 0]
    /\ copied' = copied + 1
    /\ lora' = IF copied + 1 = Len(Parts) THEN "send" ELSE "format"
    /\ UNCHANGED <<rx, asked, radioVars, mqttVars, wifi, history>>

(* lora_send_downlink; an error is only logged.                            *)
SendDownlink ==
    /\ Step("send", "reset")
    /\ Transmitted
    /\ relayed' = [k \in Kind |-> IF asked[k] THEN downlink[k] ELSE relayed[k]]
    /\ UNCHANGED <<rx, asked, copied, downlink, mqttVars, wifi, newest, troubled>>

SendFails ==
    /\ Faulty
    /\ Step("send", "reset")
    /\ TransmitFails
    /\ troubled' = TRUE
    /\ UNCHANGED <<rx, asked, copied, downlink, mqttVars, wifi, newest, relayed>>

(* mqtt_reset_flags: both flags, whether or not the downlink went out and  *)
(* whatever was stored since they were read.                               *)
ResetFlags ==
    /\ Step("reset", "publish")
    /\ has' = [k \in Kind |-> FALSE]
    /\ UNCHANGED <<rx, asked, copied, downlink, radioVars, handler, incoming,
                   buffer, connected, wifi, history>>

(* Without Wi-Fi the heartbeat is not published.                           *)
SkipPublish ==
    /\ ~wifi
    /\ Step("publish", "rearm")
    /\ UNCHANGED <<rx, asked, copied, downlink, radioVars, mqttVars, wifi,
                   history>>

(* mqtt_init_and_publish waits for the broker, up to 3 s...                *)
AwaitBroker ==
    /\ wifi
    /\ Step("publish", "await")
    /\ UNCHANGED <<rx, asked, copied, downlink, radioVars, mqttVars, wifi,
                   history>>

(* ... publishes the heartbeat if the client is connected by then ...      *)
PublishHeartbeat ==
    /\ connected
    /\ Step("await", "rearm")
    /\ UNCHANGED <<rx, asked, copied, downlink, radioVars, mqttVars, wifi,
                   history>>

(* ... and drops it otherwise.                                             *)
DropHeartbeat ==
    /\ ~connected
    /\ Step("await", "rearm")
    /\ UNCHANGED <<rx, asked, copied, downlink, radioVars, mqttVars, wifi,
                   history>>

(* lora_set_rx_and_prepare_sleep; an error is only logged.                 *)
Rearm ==
    /\ Step("rearm", "drain")
    /\ StartReceive
    /\ UNCHANGED <<rx, asked, copied, downlink, mqttVars, wifi, history>>

RearmFails ==
    /\ Faulty
    /\ Step("rearm", "drain")
    /\ troubled' = TRUE
    /\ UNCHANGED <<rx, asked, copied, downlink, radioVars, mqttVars, wifi,
                   newest, relayed>>

(* ulTaskNotifyTake(pdTRUE, 0), and the locals of the loop body end.       *)
Drain ==
    /\ Step("drain", "waiting")
    /\ notified' = FALSE
    /\ asked' = [k \in Kind |-> FALSE]
    /\ copied' = 0
    /\ downlink' = Blank
    /\ UNCHANGED <<rx, dio0, radio, fifo, mqttVars, wifi, history>>

LoraTask ==
    \/ TaskWakes \/ ReadHeartbeat \/ ReadOther \/ SampleFlags \/ CopyPart
    \/ SendDownlink \/ SendFails \/ ResetFlags
    \/ SkipPublish \/ AwaitBroker \/ PublishHeartbeat \/ DropHeartbeat
    \/ Rearm \/ RearmFails \/ Drain

-----------------------------------------------------------------------------
(* The MQTT task: one event at a time.                                     *)

(* MQTT_EVENT_DATA with a command: the first half of the text is stored.   *)
(* A fence text without its four numbers changes nothing.                  *)
StoreFirstHalf(k, v) ==
    /\ connected
    /\ handler = "idle" /\ handler' = "half"
    /\ incoming' = <<k, v>>
    /\ buffer' = [buffer EXCEPT ![k][1] = v]
    /\ newest' = [newest EXCEPT ![k] = v]
    /\ UNCHANGED <<loraVars, radioVars, has, connected, wifi, relayed, troubled>>

StoreSecondHalf ==
    /\ handler = "half" /\ handler' = "stored"
    /\ buffer' = [buffer EXCEPT ![incoming[1]][2] = incoming[2]]
    /\ UNCHANGED <<loraVars, radioVars, incoming, has, connected, wifi,
                   history>>

RaiseFlag ==
    /\ handler = "stored" /\ handler' = "idle"
    /\ has' = [has EXCEPT ![incoming[1]] = TRUE]
    /\ UNCHANGED <<loraVars, radioVars, incoming, buffer, connected, wifi,
                   history>>

(* MQTT_EVENT_CONNECTED and MQTT_EVENT_DISCONNECTED.                       *)
SetConnected(up) ==
    /\ handler = "idle"
    /\ connected' = up
    /\ UNCHANGED <<loraVars, radioVars, handler, incoming, buffer, has, wifi,
                   history>>

(* on_wifi_connected and on_wifi_disconnected, the radio being started.    *)
SetWifi(up) ==
    /\ wifi' = up
    /\ UNCHANGED <<loraVars, radioVars, mqttVars, history>>

MqttTask == StoreSecondHalf \/ RaiseFlag

(* QoS 1: the newest command may be delivered again.                       *)
DeliverCommand ==
    \E k \in Kind : \E v \in {newest[k], newest[k] + 1} \cap 1 .. MaxVersion[k] :
        StoreFirstHalf(k, v)

-----------------------------------------------------------------------------
GatewayNext ==
    \/ LoraTask
    \/ MqttTask
    \/ DeliverCommand
    \/ \E p \in Heartbeats \cup {Noise} : PacketArrives(p)
    \/ \E up \in BOOLEAN : SetConnected(up) \/ SetWifi(up)

(* FreeRTOS runs a task that is ready, and every wait of the two tasks but *)
(* the one for a packet is bounded.                                        *)
GatewayScheduling == WF_gatewayVars(LoraTask) /\ WF_gatewayVars(MqttTask)

(* The collars keep sending heartbeats, not all of them fall into the time *)
(* the gateway is busy, and neither noise nor bad checksums spoil every    *)
(* one of those it could hear.                                             *)
CollarsKeepSending ==
    /\ SF_gatewayVars(lora = "waiting" /\ \E h \in Heartbeats : PacketArrives(h))
    /\ SF_gatewayVars(fifo \in Heartbeats /\ TaskWakes)
    /\ SF_gatewayVars(ReadHeartbeat)

GatewaySpec ==
    GatewayInit /\ [][GatewayNext]_gatewayVars
        /\ GatewayScheduling /\ CollarsKeepSending

-----------------------------------------------------------------------------
(* Types, and where the loop is says what its locals hold: the heartbeat   *)
(* being answered passed the filter.                                       *)
GatewayTypeOK ==
    /\ lora \in Stages
    /\ rx \in Heartbeats \cup {None}
    /\ lora \in {"delay", "format", "send", "reset", "publish", "await"}
          => rx \in Heartbeats
    /\ asked \in [Kind -> BOOLEAN] /\ copied \in 0 .. Len(Parts)
    /\ notified \in BOOLEAN /\ dio0 \in BOOLEAN
    /\ radio \in {"rx", "standby"}
    /\ fifo \in Heartbeats \cup {Noise, Echo, None}
    /\ handler \in {"idle", "half", "stored"}
    /\ incoming \in Kind \X Nat
    /\ has \in [Kind -> BOOLEAN] /\ connected \in BOOLEAN /\ wifi \in BOOLEAN
    /\ newest \in [Kind -> Nat]
    /\ buffer \in [Kind -> [Half -> Nat]]
    /\ downlink \in [Kind -> [Half -> Nat]]
    /\ relayed \in [Kind -> [Half -> Nat]]
    /\ troubled \in BOOLEAN

(* While the task waits and the radio receives, a packet the radio holds   *)
(* has notified it.  Were the pin high without a notification, no later    *)
(* packet would give a rising edge and the gateway would be deaf for good. *)
(* A driver that fails to start the reception leaves the pin as it was.    *)
NotDeaf ==
    lora = "waiting" /\ radio = "rx" /\ dio0 => notified \/ troubled

(* The task is never woken without a packet: the interrupt of its own      *)
(* TxDone does not make it read the FIFO again.                            *)
NoSpuriousWake == lora = "waiting" /\ notified => dio0

(* The task always comes back to wait for a packet with the radio          *)
(* receiving, however its last round ended, while the driver works: there  *)
(* is no retry of a reception that could not be started.                   *)
ListensAgain == []<>(troubled \/ (lora = "waiting" /\ radio = "rx"))

(* A command that is stored while the task waits is put on the air whole,  *)
(* or a newer one is, provided that heartbeats keep coming and the driver  *)
(* works.                                                                  *)
PendingIsRelayed ==
    \A k \in Kind : \A v \in 1 .. MaxVersion[k] :
        (lora = "waiting" /\ has[k] /\ \A h \in Half : buffer[k][h] = v)
            ~> (troubled \/ \A h \in Half : relayed[k][h] >= v)

(* Each heartbeat taken is answered by exactly one transmission before the *)
(* radio receives again.                                                   *)
Duty ==
    IF lora \in {"delay", "format", "send"} THEN "owing"
    ELSE IF radio = "standby" THEN "answered" ELSE "listening"

Promise == INSTANCE Responder
               WITH duty <- Duty,
                    request <- IF Duty = "listening" THEN None ELSE rx

(* Errors of the driver do not change the order of things, they may keep   *)
(* the last of them from happening.                                        *)
AnswersEachHeartbeat == Promise!Order /\ (Promise!Fairness \/ <>troubled)

(* A command leaves the gateway's memory only when it has been put on the  *)
(* air as it is in the buffer.                                             *)
HeldUntilRelayed ==
    [][\A k \in Kind : has[k] /\ ~has'[k] => relayed[k] = buffer[k]]_gatewayVars

=============================================================================
