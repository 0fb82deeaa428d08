---------------------------- MODULE GatewayProofs ----------------------------
(***************************************************************************)
(* What Gateway.tla states, proved for any set of heartbeats, any number   *)
(* of commands, and a radio driver that may report errors at any time.     *)
(***************************************************************************)
EXTENDS Gateway, TLAPS

(* The stage of the loop fixes the radio's mode, but for a reception that  *)
(* could not be started, after which nothing wakes the loop; and nothing   *)
(* is pending in the radio when the loop is about to wait.                 *)
RadioByStage ==
    /\ lora \in {"read", "delay", "format", "send"} => radio = "rx"
    /\ lora \in {"reset", "publish", "await"} => radio = "standby"
    /\ lora = "waiting" /\ notified => radio = "rx"
    /\ lora = "drain" => ~dio0 \/ troubled

HealthyInv == NotDeaf /\ RadioByStage

(* The table of the copying order, as the provers need it.                 *)
LEMMA PartsTable ==
    /\ Len(Parts) = 4
    /\ \A i \in 1 .. 4 : Parts[i][1] \in Kind /\ Parts[i][2] \in Half
  BY DEF Parts, Kind, Half

LEMMA BlankIsTyped == Blank \in [Kind -> [Half -> Nat]]
  BY DEF Blank

LEMMA InitTypes == GatewayInit => GatewayTypeOK
<1> SUFFICES ASSUME GatewayInit PROVE GatewayTypeOK
  OBVIOUS
<1> USE DEF GatewayInit
<1>1. lora \in Stages /\ rx \in Heartbeats \cup {None} /\ lora = "waiting"
  BY DEF Stages
<1>2. asked \in [Kind -> BOOLEAN] /\ copied \in 0 .. Len(Parts)
  BY PartsTable
<1>3. fifo \in Heartbeats \cup {Noise, Echo, None}
  OBVIOUS
<1>4. incoming \in Kind \X Nat
  BY DEF Kind
<1>5. has \in [Kind -> BOOLEAN] /\ newest \in [Kind -> Nat]
  OBVIOUS
<1>6. /\ buffer \in [Kind -> [Half -> Nat]]
      /\ downlink \in [Kind -> [Half -> Nat]]
      /\ relayed \in [Kind -> [Half -> Nat]]
  BY BlankIsTyped
<1> QED
  BY <1>1, <1>2, <1>3, <1>4, <1>5, <1>6 DEF GatewayTypeOK

(* The steps of the LoRa task before the downlink is complete.             *)
LEMMA ReceiveTypes ==
    ASSUME GatewayTypeOK,
           TaskWakes \/ ReadHeartbeat \/ ReadOther \/ SampleFlags \/ CopyPart
    PROVE  GatewayTypeOK'
<1> USE DEF GatewayTypeOK, Step, Stages, radioVars, mqttVars, history
<1>1. CASE TaskWakes
  BY <1>1 DEF TaskWakes
<1>2. CASE ReadHeartbeat
  BY <1>2 DEF ReadHeartbeat
<1>3. CASE ReadOther
  BY <1>3 DEF ReadOther
<1>4. CASE SampleFlags
  BY <1>4, PartsTable DEF SampleFlags
<1>5. CASE CopyPart
  <2> DEFINE part == Parts[copied + 1]
             half == IF asked[part[1]] THEN buffer[part[1]][part[2]] ELSE 0
  <2>1. copied + 1 \in 1 .. 4 /\ part[1] \in Kind /\ part[2] \in Half
    BY <1>5, PartsTable DEF CopyPart
  <2>2. half \in Nat
    BY <2>1
  <2>3. downlink' = [downlink EXCEPT ![part[1]][part[2]] = half]
    BY <1>5 DEF CopyPart
  <2>4. downlink' \in [Kind -> [Half -> Nat]]
    <3> HIDE DEF part, half
    <3> QED BY <2>1, <2>2, <2>3
  <2>5. copied' \in 0 .. Len(Parts)
    BY <1>5, <2>1, PartsTable DEF CopyPart
  <2>6. lora' \in {"send", "format"} /\ rx \in Heartbeats
    BY <1>5 DEF CopyPart
  <2> QED
    BY <1>5, <2>4, <2>5, <2>6 DEF CopyPart
<1> QED
  BY <1>1, <1>2, <1>3, <1>4, <1>5

(* The steps of the LoRa task from the downlink on.                        *)
LEMMA AnswerTypes ==
    ASSUME GatewayTypeOK,
           \/ SendDownlink \/ SendFails \/ ResetFlags \/ SkipPublish
           \/ AwaitBroker \/ PublishHeartbeat \/ DropHeartbeat
           \/ Rearm \/ RearmFails \/ Drain
    PROVE  GatewayTypeOK'
<1> USE DEF GatewayTypeOK, Step, Stages, radioVars, mqttVars, history
<1>1. CASE SendDownlink
  <2>1. relayed' \in [Kind -> [Half -> Nat]]
    BY <1>1 DEF SendDownlink
  <2> QED BY <1>1, <2>1 DEF SendDownlink, Transmitted
<1>2. CASE SendFails
  BY <1>2 DEF SendFails, TransmitFails
<1>3. CASE ResetFlags
  BY <1>3 DEF ResetFlags
<1>4. CASE SkipPublish \/ AwaitBroker \/ PublishHeartbeat \/ DropHeartbeat
  BY <1>4 DEF SkipPublish, AwaitBroker, PublishHeartbeat, DropHeartbeat
<1>5. CASE Rearm \/ RearmFails
  BY <1>5 DEF Rearm, RearmFails, StartReceive
<1>6. CASE Drain
  <2>1. downlink' \in [Kind -> [Half -> Nat]]
    BY <1>6, BlankIsTyped DEF Drain
  <2>2. copied' \in 0 .. Len(Parts)
    BY <1>6, PartsTable DEF Drain
  <2> QED BY <1>6, <2>1, <2>2 DEF Drain
<1> QED
  BY <1>1, <1>2, <1>3, <1>4, <1>5, <1>6

(* The steps of everybody else.                                            *)
LEMMA OtherTypes ==
    ASSUME GatewayTypeOK,
           \/ MqttTask \/ DeliverCommand
           \/ \E p \in Heartbeats \cup {Noise} : PacketArrives(p)
           \/ \E up \in BOOLEAN : SetConnected(up) \/ SetWifi(up)
    PROVE  GatewayTypeOK'
<1> USE DEF GatewayTypeOK, loraVars, radioVars, mqttVars, history
<1>1. CASE StoreSecondHalf
  <2>1. incoming[1] \in Kind /\ incoming[2] \in Nat
    OBVIOUS
  <2> QED BY <1>1, <2>1 DEF StoreSecondHalf, Half
<1>2. CASE RaiseFlag
  BY <1>2 DEF RaiseFlag
<1>3. CASE DeliverCommand
  <2>1. PICK k \in Kind : \E v \in {newest[k], newest[k] + 1} \cap 1 .. MaxVersion[k] :
                              StoreFirstHalf(k, v)
    BY <1>3 DEF DeliverCommand
  <2>2. PICK v \in {newest[k], newest[k] + 1} : StoreFirstHalf(k, v)
    BY <2>1
  <2>3. v \in Nat
    BY <2>2
  <2> QED BY <2>2, <2>3 DEF StoreFirstHalf, Half
<1>4. CASE \E p \in Heartbeats \cup {Noise} : PacketArrives(p)
  BY <1>4 DEF PacketArrives
<1>5. CASE \E up \in BOOLEAN : SetConnected(up) \/ SetWifi(up)
  BY <1>5 DEF SetConnected, SetWifi
<1> QED
  BY <1>1, <1>2, <1>3, <1>4, <1>5 DEF MqttTask

LEMMA StepTypes == GatewayTypeOK /\ [GatewayNext]_gatewayVars => GatewayTypeOK'
<1> SUFFICES ASSUME GatewayTypeOK, [GatewayNext]_gatewayVars
             PROVE  GatewayTypeOK'
  OBVIOUS
<1>1. CASE LoraTask
  BY <1>1, ReceiveTypes, AnswerTypes DEF LoraTask
<1>2. CASE UNCHANGED gatewayVars
  BY <1>2 DEF gatewayVars, history, GatewayTypeOK
<1> QED
  BY <1>1, <1>2, OtherTypes DEF GatewayNext

(* The gateway's variables keep their types, and from the filter to the    *)
(* publication the loop works on a heartbeat, whatever the radio reports.  *)
THEOREM GatewayTypes == GatewaySpec => []GatewayTypeOK
  BY InitTypes, StepTypes, PTL DEF GatewaySpec

-----------------------------------------------------------------------------
LEMMA StepWake ==
    GatewayTypeOK /\ NoSpuriousWake /\ [GatewayNext]_gatewayVars
        => NoSpuriousWake'
<1> SUFFICES ASSUME GatewayTypeOK, NoSpuriousWake, [GatewayNext]_gatewayVars
             PROVE  NoSpuriousWake'
  OBVIOUS
<1> USE DEF NoSpuriousWake
(* Only Drain comes back to the wait, and it leaves no notification.       *)
<1>1. CASE LoraTask
  <2>1. CASE Drain
    BY <2>1 DEF Drain
  <2>2. CASE TaskWakes \/ ReadHeartbeat \/ ReadOther \/ SampleFlags \/ CopyPart
    BY <2>2 DEF TaskWakes, ReadHeartbeat, ReadOther, SampleFlags, CopyPart, Step
  <2>3. CASE \/ SendDownlink \/ SendFails \/ ResetFlags \/ SkipPublish
             \/ AwaitBroker \/ PublishHeartbeat \/ DropHeartbeat
             \/ Rearm \/ RearmFails
    BY <2>3 DEF SendDownlink, SendFails, ResetFlags, SkipPublish, AwaitBroker,
                PublishHeartbeat, DropHeartbeat, Rearm, RearmFails, Step
  <2> QED BY <1>1, <2>1, <2>2, <2>3 DEF LoraTask
<1>2. CASE MqttTask \/ DeliverCommand
  BY <1>2 DEF MqttTask, DeliverCommand, StoreFirstHalf, StoreSecondHalf,
              RaiseFlag, loraVars, radioVars
<1>3. CASE \E p \in Heartbeats \cup {Noise} : PacketArrives(p)
  BY <1>3 DEF PacketArrives, loraVars
<1>4. CASE \E up \in BOOLEAN : SetConnected(up) \/ SetWifi(up)
  <2>1. UNCHANGED <<lora, notified, dio0>>
    BY <1>4 DEF SetConnected, SetWifi, loraVars, radioVars
  <2> QED BY <2>1
<1>5. CASE UNCHANGED gatewayVars
  BY <1>5 DEF gatewayVars
<1> QED
  BY <1>1, <1>2, <1>3, <1>4, <1>5 DEF GatewayNext

(* The transmission of a downlink never makes the gateway read its own     *)
(* packet as if it had been received, even when the driver fails.          *)
THEOREM GatewayWakesForPackets == GatewaySpec => []NoSpuriousWake
<1>1. GatewayInit => NoSpuriousWake
  BY DEF GatewayInit, NoSpuriousWake
<1> QED
  BY <1>1, StepWake, GatewayTypes, PTL DEF GatewaySpec

-----------------------------------------------------------------------------
LEMMA HealthyStep ==
    ASSUME GatewayTypeOK, HealthyInv, [GatewayNext]_gatewayVars
    PROVE  HealthyInv'
<1> USE DEF HealthyInv, NotDeaf, RadioByStage
<1>1. CASE LoraTask
  <2> USE DEF Step, history
  <2>1. CASE TaskWakes
    BY <2>1 DEF TaskWakes
  <2>2. CASE ReadHeartbeat
    BY <2>2 DEF ReadHeartbeat
  <2>3. CASE ReadOther
    BY <2>3 DEF ReadOther
  <2>4. CASE SampleFlags
    BY <2>4 DEF SampleFlags, radioVars
  <2>5. CASE CopyPart
    BY <2>5 DEF CopyPart, radioVars
  <2>6. CASE SendDownlink
    BY <2>6 DEF SendDownlink, Transmitted
  (* An error of startReceive leaves the pin as it was, and is noted.      *)
  <2>7. CASE SendFails \/ RearmFails
    BY <2>7 DEF SendFails, RearmFails, TransmitFails, radioVars
  <2>8. CASE ResetFlags
    BY <2>8 DEF ResetFlags, radioVars
  <2>9. CASE SkipPublish
    BY <2>9 DEF SkipPublish, radioVars
  <2>10. CASE AwaitBroker
    BY <2>10 DEF AwaitBroker, radioVars
  <2>11. CASE PublishHeartbeat \/ DropHeartbeat
    BY <2>11 DEF PublishHeartbeat, DropHeartbeat, radioVars
  (* startReceive clears the pin, so that the wait starts with an edge to  *)
  (* come.                                                                 *)
  <2>12. CASE Rearm
    BY <2>12 DEF Rearm, StartReceive
  <2>13. CASE Drain
    BY <2>13 DEF Drain
  <2> QED
    BY <1>1, <2>1, <2>2, <2>3, <2>4, <2>5, <2>6, <2>7, <2>8, <2>9, <2>10,
       <2>11, <2>12, <2>13 DEF LoraTask
<1>2. CASE MqttTask \/ DeliverCommand
  <2>1. UNCHANGED <<lora, notified, dio0, radio, troubled>>
    BY <1>2 DEF MqttTask, DeliverCommand, StoreFirstHalf, StoreSecondHalf,
                RaiseFlag, loraVars, radioVars, history
  <2> QED BY <2>1
<1>3. CASE \E p \in Heartbeats \cup {Noise} : PacketArrives(p)
  <2>1. /\ lora # "drain" /\ radio = "rx" /\ UNCHANGED <<lora, radio, troubled>>
        /\ dio0' = TRUE /\ notified' = (notified \/ ~dio0)
    BY <1>3 DEF PacketArrives, loraVars, history
  <2> QED BY <2>1 DEF GatewayTypeOK
<1>4. CASE \E up \in BOOLEAN : SetConnected(up) \/ SetWifi(up)
  <2>1. UNCHANGED <<lora, notified, dio0, radio, troubled>>
    BY <1>4 DEF SetConnected, SetWifi, loraVars, radioVars, history
  <2> QED BY <2>1
<1>5. CASE UNCHANGED gatewayVars
  BY <1>5 DEF gatewayVars, history
<1> QED
  BY <1>1, <1>2, <1>3, <1>4, <1>5 DEF GatewayNext

LEMMA Healthy == GatewaySpec => []HealthyInv
<1>1. GatewayInit => HealthyInv
  BY DEF GatewayInit, HealthyInv, NotDeaf, RadioByStage
<1>2. GatewayTypeOK /\ HealthyInv /\ [GatewayNext]_gatewayVars => HealthyInv'
  BY HealthyStep
<1> QED
  BY <1>1, <1>2, GatewayTypes, PTL DEF GatewaySpec

(* No packet is left in the radio unannounced while the gateway waits for  *)
(* one, until the driver first reports an error, so that the next packet   *)
(* always gives a rising edge of DIO0.                                     *)
THEOREM GatewayNeverDeaf == GatewaySpec => []NotDeaf
  BY Healthy, PTL DEF HealthyInv

-----------------------------------------------------------------------------
(* What the gateway does on the radio, one step at a time.                 *)
LEMMA GatewayAnswers ==
    ASSUME GatewayTypeOK, HealthyInv, [GatewayNext]_gatewayVars
    PROVE  [Promise!Next]_(Promise!vars)
<1> DEFINE request == IF Duty = "listening" THEN None ELSE rx
<1> USE DEF HealthyInv, RadioByStage, Duty
<1>1. CASE ReadHeartbeat
  <2>1. /\ Duty = "listening" /\ Duty' = "owing"
        /\ request' = rx' /\ rx' \in Heartbeats
    BY <1>1 DEF ReadHeartbeat, Step
  <2>2. Promise!Take(rx')
    BY <2>1 DEF Promise!Take
  <2> QED BY <2>1, <2>2 DEF Promise!Next
<1>2. CASE SendDownlink \/ SendFails
  <2>1. Duty = "owing" /\ Duty' = "answered" /\ rx' = rx
    BY <1>2 DEF SendDownlink, SendFails, Transmitted, TransmitFails, Step
  <2> QED BY <2>1 DEF Promise!Next, Promise!Answer
<1>3. CASE Rearm
  <2>1. Duty \in {"answered", "listening"} /\ Duty' = "listening"
    BY <1>3 DEF Rearm, StartReceive, Step
  <2>2. CASE Duty = "answered"
    BY <2>1, <2>2 DEF Promise!Next, Promise!Resume
  <2>3. CASE Duty = "listening"
    BY <2>1, <2>3 DEF Promise!vars
  <2> QED BY <2>1, <2>2, <2>3
(* Everything else is invisible on the radio.                              *)
<1>4. ASSUME UNCHANGED <<rx, Duty>>
      PROVE  [Promise!Next]_(Promise!vars)
  BY <1>4 DEF Promise!vars
<1>5. CASE TaskWakes \/ ReadOther \/ SampleFlags \/ CopyPart
  <2>1. UNCHANGED <<rx, Duty>>
    BY <1>5 DEF TaskWakes, ReadOther, SampleFlags, CopyPart, Step, radioVars
  <2> QED BY <2>1, <1>4
<1>6. CASE \/ ResetFlags \/ SkipPublish \/ AwaitBroker
           \/ PublishHeartbeat \/ DropHeartbeat \/ RearmFails \/ Drain
  <2>1. UNCHANGED <<rx, Duty>>
    BY <1>6 DEF ResetFlags, SkipPublish, AwaitBroker, PublishHeartbeat,
                DropHeartbeat, RearmFails, Drain, Step, radioVars
  <2> QED BY <2>1, <1>4
<1>7. CASE MqttTask \/ DeliverCommand
  <2>1. UNCHANGED <<rx, lora, radio>>
    BY <1>7 DEF MqttTask, DeliverCommand, StoreFirstHalf, StoreSecondHalf,
                RaiseFlag, loraVars, radioVars
  <2> QED BY <2>1, <1>4
<1>8. CASE \E p \in Heartbeats \cup {Noise} : PacketArrives(p)
  <2>1. UNCHANGED <<rx, lora, radio>>
    BY <1>8 DEF PacketArrives, loraVars
  <2> QED BY <2>1, <1>4
<1>9. CASE \E up \in BOOLEAN : SetConnected(up) \/ SetWifi(up)
  <2>1. UNCHANGED <<rx, lora, radio>>
    BY <1>9 DEF SetConnected, SetWifi, loraVars, radioVars
  <2> QED BY <2>1, <1>4
<1>10. CASE UNCHANGED gatewayVars
  <2>1. UNCHANGED <<rx, lora, radio>>
    BY <1>10 DEF gatewayVars
  <2> QED BY <2>1, <1>4
<1> QED
  BY <1>1, <1>2, <1>3, <1>5, <1>6, <1>7, <1>8, <1>9, <1>10
  DEF GatewayNext, LoraTask

(* The safety part of AnswersEachHeartbeat: every heartbeat taken is       *)
(* answered by exactly one transmission, or attempt at one, and there is   *)
(* none without a heartbeat.                                               *)
THEOREM GatewayImplementsPromise == GatewaySpec => Promise!Order
<1>1. GatewayInit => Promise!Init
  BY DEF GatewayInit, Promise!Init, Duty
<1>2. GatewayTypeOK /\ HealthyInv /\ [GatewayNext]_gatewayVars
          => [Promise!Next]_(Promise!vars)
  BY GatewayAnswers
<1> QED
  BY <1>1, <1>2, GatewayTypes, Healthy, PTL DEF GatewaySpec, Promise!Order

=============================================================================
