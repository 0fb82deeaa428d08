---------------------------- MODULE GeofenceProofs ----------------------------
(***************************************************************************)
(* The two action properties of the whole system, proved for any number of *)
(* collars, orders, wakes and outages, with packets that may be lost: the  *)
(* fence of a collar never goes back to an older one, and the heartbeats   *)
(* of a collar are published in the order they were sent.                  *)
(*                                                                         *)
(* A fence is under way in six places: retained by the broker, in delivery,*)
(* being stored, in the buffer, copied for the downlink, and on the air.   *)
(* The first part shows that each place holds nothing newer than the one   *)
(* before it, in each half by itself because the two tasks of the gateway  *)
(* overtake each other, and that whatever may still come is at least as    *)
(* new as what the collars have.  The second part follows a heartbeat's    *)
(* wake count in the other direction.                                      *)
(***************************************************************************)
EXTENDS Geofence, SequenceTheorems, TLAPS

(* The kind of order this part is about, and the newest one there is.      *)
F == "fence"
Newest == Ordered(F)

(* The n-th order is at least as new as the fence f in the half h: the     *)
(* latitudes, or the longitudes.                                           *)
Covers(n, h, f) ==
    IF h = 1 THEN FenceAt(n).minLat >= f.minLat /\ FenceAt(n).maxLat >= f.maxLat
             ELSE FenceAt(n).minLon >= f.minLon /\ FenceAt(n).maxLon >= f.maxLon

(* The fences that collars have, or hear now.                              *)
InTheAir(c) == air[c] # Silence /\ air[c].fence # None
Around(f) == \E c \in Collars : f = fence[c] \/ (InTheAir(c) /\ f = air[c].fence)
CoversAll(n, h) == \A f \in E!Fence : Around(f) => Covers(n, h, f)

(* The i-th message in delivery is a fence; the gateway is storing one;    *)
(* the half h of the downlink's fence is copied.                           *)
ToCome(i) == i \in 1 .. Len(inbox) /\ KindOf(inbox[i][1]) = F
Storing == handler # "idle" /\ incoming[1] = F
Copied(h) == lora = "send" \/ (lora = "format" /\ copied >= 2 + h)

(* The types of what carries fences.                                       *)
PipelineTypes ==
    /\ fence \in [Collars -> E!Fence]
    /\ \E packets : air \in [Collars -> packets]
    /\ \A c \in Collars : air[c] # Silence => air[c].fence \in E!Fence \cup {None}
    /\ retained \in [Topics -> Nat]
    /\ inbox \in Seq(Topics \X Nat)
    /\ incoming \in G!Kind \X Nat
    /\ buffer \in [G!Kind -> [G!Half -> Nat]]
    /\ downlink \in [G!Kind -> [G!Half -> Nat]]
    /\ has \in [G!Kind -> BOOLEAN] /\ asked \in [G!Kind -> BOOLEAN]
    /\ copied \in 0 .. 4

(* In order: the broker delivers no order before an older one, ...         *)
InboxInOrder ==
    \A i \in 1 .. Len(inbox) : ToCome(i) =>
        /\ inbox[i][2] \in 1 .. Newest
        /\ \A j \in 1 .. Len(inbox) : ToCome(j) /\ i <= j => inbox[i][2] <= inbox[j][2]

(* ... what is being stored is older than what is to come, its first half  *)
(* is in the buffer and after its second half both are, ...                *)
StoredInOrder ==
    Storing =>
        /\ incoming[2] \in 1 .. Newest
        /\ \A i \in 1 .. Len(inbox) : ToCome(i) => incoming[2] <= inbox[i][2]
        /\ buffer[F][1] = incoming[2] /\ buffer[F][2] <= incoming[2]
        /\ handler = "stored" => buffer[F][2] = incoming[2]

(* ... the buffer is older than both, and holds an order if the flag is    *)
(* up, ...                                                                 *)
BufferInOrder ==
    \A h \in G!Half :
        /\ buffer[F][h] <= Newest
        /\ \A i \in 1 .. Len(inbox) : ToCome(i) => buffer[F][h] <= inbox[i][2]
        /\ has[F] => buffer[F][h] >= 1

(* ... and what is copied is no newer than the buffer. The flag as it was  *)
(* sampled is still up: only the LoRa task lowers it, and later.           *)
DownlinkInOrder ==
    /\ lora \in {"format", "send"} /\ asked[F] => has[F]
    /\ \A h \in G!Half : Copied(h) =>
          /\ downlink[F][h] <= buffer[F][h]
          /\ asked[F] => downlink[F][h] >= 1
          /\ ~asked[F] => downlink[F][h] = 0

InOrder == InboxInOrder /\ StoredInOrder /\ BufferInOrder /\ DownlinkInOrder

(* The orders that may still reach a collar: the n-th one, with half h.    *)
Live(h, n) ==
    \/ n = Newest
    \/ \E i \in 1 .. Len(inbox) : ToCome(i) /\ n = inbox[i][2]
    \/ Storing /\ n = incoming[2]
    \/ has[F] /\ n = buffer[F][h]
    \/ Copied(h) /\ asked[F] /\ n = downlink[F][h]

(* Whatever may still come is at least as new as any fence around.         *)
Newer ==
    \A h \in G!Half : \A n \in 0 .. Len(FenceOrders) : Live(h, n) => CoversAll(n, h)

(* A collar is never about to read an older fence than its own.            *)
HeardIsNewer == \A c \in Collars : InTheAir(c) => NotOlder(air[c].fence, fence[c])

(* The inductive invariant of the first part.                              *)
FencesInv ==
    /\ PipelineTypes /\ Newest \in 0 .. Len(FenceOrders)
    /\ InOrder /\ Newer /\ HeardIsNewer

-----------------------------------------------------------------------------
(* The newest fence is the one the only topic for fences retains. Stated   *)
(* for any function, so that it also speaks of the next state.             *)
LEMMA NewestIs ==
    ASSUME OneFenceTopic, NEW r \in [Topics -> Nat]
    PROVE  LET newest_ == Max({0} \cup { r[t] : t \in { u \in Topics : KindOf(u) = F } })
           IN  /\ newest_ \in Nat
               /\ \A t \in Topics : KindOf(t) = F => newest_ = r[t]
               /\ (\A t \in Topics : KindOf(t) # F) => newest_ = 0
<1> DEFINE S == {0} \cup { r[t] : t \in { u \in Topics : KindOf(u) = F } }
<1>1. CASE \A t \in Topics : KindOf(t) # F
  <2>1. S = {0}
    BY <1>1
  <2>2. Max(S) = 0
    BY <2>1 DEF Max
  <2>3. QED
    BY <1>1, <2>2
<1>2. ASSUME NEW t \in Topics, KindOf(t) = F
      PROVE  Max(S) = r[t]
  <2>1. { u \in Topics : KindOf(u) = F } = {t}
    BY <1>2 DEF OneFenceTopic, F
  <2>2. S = {0, r[t]} /\ r[t] \in Nat
    BY <2>1
  <2>3. /\ r[t] \in S /\ \A y \in S : r[t] >= y
        /\ \A x \in S : (\A y \in S : x >= y) => x = r[t]
    BY <2>2
  <2>4. QED
    BY <2>3 DEF Max
<1>3. QED
  BY <1>1, <1>2

(* The coordinates of a fence are integers.                                *)
LEMMA Coordinates ==
    ASSUME NEW f \in E!Fence
    PROVE  f.minLat \in Int /\ f.minLon \in Int /\ f.maxLat \in Int /\ f.maxLon \in Int
BY GeofenceAssumption DEF E!Fence

(* What an older fence exceeds a newer one exceeds, too.                   *)
LEMMA NotOlderCarries ==
    ASSUME NEW a \in E!Fence, NEW b \in E!Fence, NEW f \in E!Fence, NotOlder(a, b)
    PROVE  /\ b.minLat >= f.minLat => a.minLat >= f.minLat
           /\ b.maxLat >= f.maxLat => a.maxLat >= f.maxLat
           /\ b.minLon >= f.minLon => a.minLon >= f.minLon
           /\ b.maxLon >= f.maxLon => a.maxLon >= f.maxLon
<1> DEFINE Ints(g) == g.minLat \in Int /\ g.minLon \in Int /\ g.maxLat \in Int /\ g.maxLon \in Int
<1>1. Ints(a) /\ Ints(b) /\ Ints(f)
  BY Coordinates
<1>2. /\ a.minLat >= b.minLat /\ a.minLon >= b.minLon
      /\ a.maxLat >= b.maxLat /\ a.maxLon >= b.maxLon
  BY DEF NotOlder
<1>3. \A x, y, z \in Int : x >= y /\ y >= z => x >= z
  OBVIOUS
<1>4. QED
  BY <1>1, <1>2, <1>3

(* A later order covers what an earlier one covers.                        *)
LEMMA Ascending ==
    ASSUME OrdersAscend, NEW n \in 0 .. Len(FenceOrders), NEW m \in 0 .. n,
           NEW h \in G!Half, NEW f \in E!Fence, Covers(m, h, f)
    PROVE  Covers(n, h, f)
<1>1. m \in 0 .. Len(FenceOrders) /\ m <= n
  BY GeofenceAssumption
<1>2. NotOlder(FenceAt(n), FenceAt(m))
  BY <1>1 DEF OrdersAscend
<1>3. FenceAt(n) \in E!Fence /\ FenceAt(m) \in E!Fence
  BY <1>1, GeofenceAssumption DEF FenceAt
<1>4. /\ FenceAt(m).minLat >= f.minLat => FenceAt(n).minLat >= f.minLat
      /\ FenceAt(m).maxLat >= f.maxLat => FenceAt(n).maxLat >= f.maxLat
      /\ FenceAt(m).minLon >= f.minLon => FenceAt(n).minLon >= f.minLon
      /\ FenceAt(m).maxLon >= f.maxLon => FenceAt(n).maxLon >= f.maxLon
  BY <1>2, <1>3, NotOlderCarries
<1>5. QED
  BY <1>2, <1>3, <1>4 DEF Covers

(* Every order covers the fence the collars start with.                    *)
LEMMA CoversDefault ==
    ASSUME OrdersAscend, NEW n \in 0 .. Len(FenceOrders), NEW h \in G!Half
    PROVE  Covers(n, h, DefaultFence)
<1>1. DefaultFence \in E!Fence /\ 0 \in 0 .. n
  BY GeofenceAssumption
<1>2. Covers(0, h, DefaultFence)
  BY <1>1, Coordinates DEF Covers, FenceAt
<1>3. QED
  BY <1>1, <1>2, Ascending

(* Newer is preserved if nothing new comes around but the default fence,   *)
(* and what is under way was, or something older was.                      *)
LEMMA NewerStays ==
    ASSUME OrdersAscend, FencesInv,
           \A f \in E!Fence : Around(f)' => Around(f) \/ f = DefaultFence,
           \A h \in G!Half : \A n \in 0 .. Len(FenceOrders) :
               Live(h, n)' => \E m \in 0 .. n : Live(h, m)
    PROVE  Newer'
<1> SUFFICES ASSUME NEW h \in G!Half, NEW n \in 0 .. Len(FenceOrders), Live(h, n)',
                    NEW f \in E!Fence, Around(f)'
             PROVE  Covers(n, h, f)
  BY DEF Newer, CoversAll, Covers, FenceAt
<1>1. PICK m \in 0 .. n : Live(h, m)
  OBVIOUS
<1>2. m \in 0 .. Len(FenceOrders)
  BY GeofenceAssumption
<1>3. CASE Around(f)
  <2>1. Covers(m, h, f)
    BY <1>1, <1>2, <1>3 DEF FencesInv, Newer, CoversAll
  <2>2. QED
    BY <2>1, Ascending
<1>4. CASE f = DefaultFence
  BY <1>4, CoversDefault
<1>5. QED
  BY <1>3, <1>4

(* The collars start with the default fence and nothing is under way.      *)
LEMMA FencesStart ==
    ASSUME OrdersAscend, OneFenceTopic, Init
    PROVE  FencesInv
<1>1. /\ fence = [c \in Collars |-> DefaultFence] /\ air = [c \in Collars |-> Silence]
      /\ retained = [t \in Topics |-> 0] /\ inbox = << >> /\ incoming = <<"gps", 0>>
      /\ buffer = G!Blank /\ downlink = G!Blank /\ has = [k \in G!Kind |-> FALSE]
      /\ asked = [k \in G!Kind |-> FALSE] /\ copied = 0 /\ lora = "waiting" /\ handler = "idle"
  BY DEF Init, E!EdgeInit, G!GatewayInit
<1>2. G!Blank \in [G!Kind -> [G!Half -> Nat]] /\ \A h \in G!Half : G!Blank[F][h] = 0
  BY DEF G!Blank, G!Kind, G!Half, F
<1>3. PipelineTypes
  <2>1. air \in [Collars -> {Silence}] /\ fence \in [Collars -> E!Fence]
    BY <1>1, GeofenceAssumption
  <2>2. \A c \in Collars : air[c] = Silence
    BY <1>1
  <2>3. inbox \in Seq(Topics \X Nat) /\ incoming \in G!Kind \X Nat
    BY <1>1 DEF G!Kind
  <2>4. retained \in [Topics -> Nat] /\ copied \in 0 .. 4
        /\ has \in [G!Kind -> BOOLEAN] /\ asked \in [G!Kind -> BOOLEAN]
    BY <1>1
  <2>5. \E packets : air \in [Collars -> packets]
    BY <2>1
  <2>6. QED
    BY <1>1, <1>2, <2>1, <2>2, <2>3, <2>4, <2>5 DEF PipelineTypes
<1>4. Newest = 0
  <2>1. /\ retained \in [Topics -> Nat] /\ \A t \in Topics : retained[t] = 0
    BY <1>1
  <2>2. QED
    BY <2>1, NewestIs DEF Newest, Ordered
<1>5. InOrder
  BY <1>1, <1>2, <1>4 DEF InOrder, InboxInOrder, StoredInOrder, BufferInOrder, DownlinkInOrder,
     Storing, Copied, F, G!Kind
<1>6. Newer
  <2> SUFFICES ASSUME NEW h \in G!Half, NEW n \in 0 .. Len(FenceOrders), NEW f \in E!Fence, Around(f)
               PROVE  Covers(n, h, f)
    BY DEF Newer, CoversAll
  <2>1. f = DefaultFence
    BY <1>1 DEF Around, InTheAir
  <2>2. QED
    BY <2>1, CoversDefault
<1>7. HeardIsNewer
  BY <1>1 DEF HeardIsNewer, InTheAir
<1>8. QED
  BY <1>3, <1>4, <1>5, <1>6, <1>7, GeofenceAssumption DEF FencesInv

(* A step that moves no order on.                                          *)
LEMMA FencesStay ==
    ASSUME OrdersAscend, FencesInv, PipelineTypes', HeardIsNewer',
           UNCHANGED <<retained, inbox, handler, incoming, buffer>>,
           \A f \in E!Fence : Around(f)' => Around(f) \/ f = DefaultFence,
           has'[F] => has[F],
           lora' \in {"format", "send"} /\ asked'[F] => has'[F],
           \A h \in G!Half : Copied(h)' => Copied(h) /\ UNCHANGED <<asked, downlink>>
    PROVE  FencesInv'
<1>1. Newest' = Newest
  BY DEF Newest, Ordered
<1>2. \A i : ToCome(i)' <=> ToCome(i)
  BY DEF ToCome
<1>3. InOrder'
  BY <1>1, <1>2 DEF FencesInv, InOrder, InboxInOrder, StoredInOrder, BufferInOrder, DownlinkInOrder, Storing
<1>4. ASSUME NEW h \in G!Half, NEW n \in 0 .. Len(FenceOrders), Live(h, n)'
      PROVE  Live(h, n) /\ n \in 0 .. n
  BY <1>1, <1>2, <1>4 DEF Live, Storing
<1>5. Newer'
  BY <1>4, NewerStays
<1>6. QED
  BY <1>1, <1>3, <1>5 DEF FencesInv

(* FencesStay for the steps that leave collars and air alone.              *)
LEMMA PlacesKeepFences ==
    ASSUME OrdersAscend, FencesInv,
           UNCHANGED <<fence, air, retained, inbox, handler, incoming, buffer>>,
           has' \in [G!Kind -> BOOLEAN], asked' \in [G!Kind -> BOOLEAN], copied' \in 0 .. 4,
           downlink' \in [G!Kind -> [G!Half -> Nat]], has'[F] => has[F],
           lora' \in {"format", "send"} /\ asked'[F] => has'[F],
           \A h \in G!Half : Copied(h)' => Copied(h) /\ UNCHANGED <<asked, downlink>>
    PROVE  FencesInv'
<1>1. PipelineTypes'
  BY DEF FencesInv, PipelineTypes
<1>2. HeardIsNewer' /\ \A f : Around(f)' => Around(f)
  BY DEF FencesInv, HeardIsNewer, Around, InTheAir
<1>3. QED
  BY <1>1, <1>2, FencesStay

(* FencesStay for the steps that leave the gateway's texts alone.          *)
LEMMA CollarsKeepFences ==
    ASSUME OrdersAscend, FencesInv, PipelineTypes', HeardIsNewer',
           UNCHANGED <<retained, inbox, handler, incoming, buffer, has, asked, copied, downlink, lora>>,
           \A f \in E!Fence : Around(f)' => Around(f) \/ f = DefaultFence
    PROVE  FencesInv'
BY FencesStay DEF FencesInv, InOrder, DownlinkInOrder, Copied

(* The steps that touch no fence.                                          *)
LEMMA QuietStepsKeepFences ==
    ASSUME OrdersAscend, FencesInv,
           \/ \E c \in Collars : Wake(c) \/ CollarStep(c) \/ UseConsole(c) \/ WindowCloses(c)
           \/ OutboxStep \/ SwitchWifi \/ UNCHANGED vars
    PROVE  FencesInv'
<1>1. UNCHANGED <<fence, air, retained, inbox, handler, incoming, buffer,
                  has, asked, copied, downlink, lora>>
  BY DEF Wake, CollarStep, UseConsole, WindowCloses, OutboxStep, Resend, Forget, SwitchWifi, vars,
     collarVars, gatewayVars, envVars,
     E!Wake, E!LeaveConsole, E!Evaluate, E!RadioFails, E!Settle, E!Operate, E!PressArrow, E!PressFast,
     E!Confirm, E!WindowCloses, G!SetWifi, G!loraVars, G!mqttVars
<1>2. PipelineTypes' /\ HeardIsNewer' /\ \A f : Around(f)' => Around(f)
  BY <1>1 DEF FencesInv, PipelineTypes, HeardIsNewer, Around, InTheAir
<1>3. QED
  BY <1>1, <1>2, CollarsKeepFences

(* Every action of the gateway that moves no text.                         *)
LEMMA GatewayKeepsFences ==
    ASSUME OrdersAscend, FencesInv, Publish \/ DriverFails \/ (GatewayStep /\ ~G!CopyPart)
    PROVE  FencesInv'
<1>1. UNCHANGED <<fence, air, retained, inbox>>
  BY DEF Publish, DriverFails, GatewayStep, collarVars, envVars
<1>2. /\ has \in [G!Kind -> BOOLEAN] /\ asked \in [G!Kind -> BOOLEAN] /\ copied \in 0 .. 4
      /\ downlink \in [G!Kind -> [G!Half -> Nat]]
      /\ lora \in {"format", "send"} /\ asked[F] => has[F]
  BY DEF FencesInv, PipelineTypes, InOrder, DownlinkInOrder
<1>3. CASE \/ G!TaskWakes \/ G!ReadHeartbeat \/ G!ReadOther \/ G!SkipPublish \/ G!AwaitBroker
           \/ G!DropHeartbeat \/ G!Rearm \/ G!PublishHeartbeat \/ G!SendFails \/ G!RearmFails
  <2>1. /\ UNCHANGED <<handler, incoming, buffer, has, asked, copied, downlink>>
        /\ lora' \notin {"format", "send"}
    BY <1>3 DEF G!TaskWakes, G!ReadHeartbeat, G!ReadOther, G!SkipPublish, G!AwaitBroker,
       G!DropHeartbeat, G!Rearm, G!PublishHeartbeat, G!SendFails, G!RearmFails, G!Step, G!mqttVars
  <2>2. QED
    BY <1>1, <1>2, <2>1, PlacesKeepFences DEF Copied
<1>4. CASE G!SampleFlags
  <2>1. /\ UNCHANGED <<handler, incoming, buffer, has, downlink>>
        /\ lora' = "format" /\ asked' = has /\ copied' = 0
    BY <1>4 DEF G!SampleFlags, G!Step, G!mqttVars
  <2>2. \A h \in G!Half : ~Copied(h)'
    BY <2>1 DEF Copied, G!Half
  <2>3. QED
    BY <1>1, <1>2, <2>1, <2>2, PlacesKeepFences
<1>5. CASE G!ResetFlags
  <2>1. /\ UNCHANGED <<handler, incoming, buffer, asked, copied, downlink>>
        /\ lora' = "publish" /\ has' = [k \in G!Kind |-> FALSE]
    BY <1>5 DEF G!ResetFlags, G!Step
  <2>2. has' \in [G!Kind -> BOOLEAN] /\ ~has'[F]
    BY <2>1 DEF G!Kind, F
  <2>3. QED
    BY <1>1, <1>2, <2>1, <2>2, PlacesKeepFences DEF Copied
<1>6. CASE G!Drain
  <2>1. /\ UNCHANGED <<handler, incoming, buffer, has>> /\ lora' = "waiting"
        /\ asked' = [k \in G!Kind |-> FALSE] /\ copied' = 0 /\ downlink' = G!Blank
    BY <1>6 DEF G!Drain, G!Step, G!mqttVars
  <2>2. asked' \in [G!Kind -> BOOLEAN] /\ downlink' \in [G!Kind -> [G!Half -> Nat]]
    BY <2>1 DEF G!Blank
  <2>3. QED
    BY <1>1, <1>2, <2>1, <2>2, PlacesKeepFences DEF Copied
<1>7. QED
  BY <1>3, <1>4, <1>5, <1>6 DEF Publish, DriverFails, GatewayStep

(* A reset gives the collar the default fence, which is older than all.    *)
LEMMA ResetKeepsFences ==
    ASSUME OrdersAscend, FencesInv, NEW c \in Collars, ResetCollar(c)
    PROVE  FencesInv'
<1>1. /\ UNCHANGED <<retained, inbox, handler, incoming, buffer, has, asked, copied, downlink, lora>>
      /\ fence' = [fence EXCEPT ![c] = DefaultFence] /\ air' = [air EXCEPT ![c] = Silence]
  BY DEF ResetCollar, gatewayVars, E!Reset
<1>2. PICK packets : air \in [Collars -> packets]
  BY DEF FencesInv, PipelineTypes
<1>3. air' \in [Collars -> packets \cup {Silence}]
  BY <1>1, <1>2
<1>4. fence \in [Collars -> E!Fence] /\ fence' \in [Collars -> E!Fence]
  BY <1>1, GeofenceAssumption DEF FencesInv, PipelineTypes
<1>5. \A d \in Collars : IF d = c THEN fence'[d] = DefaultFence /\ air'[d] = Silence
                                  ELSE fence'[d] = fence[d] /\ air'[d] = air[d]
  BY <1>1, <1>2, <1>4
<1>6. PipelineTypes'
  BY <1>1, <1>3, <1>4, <1>5 DEF FencesInv, PipelineTypes
<1>7. HeardIsNewer' /\ \A f \in E!Fence : Around(f)' => Around(f) \/ f = DefaultFence
  BY <1>5 DEF FencesInv, HeardIsNewer, Around, InTheAir
<1>8. QED
  BY <1>1, <1>6, <1>7, CollarsKeepFences

(* Receiving moves a fence from the air into the collar.                   *)
LEMMA ReceiveKeepsFences ==
    ASSUME OrdersAscend, FencesInv, NEW c \in Collars, Receive(c)
    PROVE  FencesInv'
<1>1. /\ UNCHANGED <<retained, inbox, handler, incoming, buffer, has, asked, copied, downlink, lora>>
      /\ air[c] # Silence /\ air' = [air EXCEPT ![c] = Silence]
      /\ fence' = [fence EXCEPT ![c] = IF air[c].fence = None THEN fence[c] ELSE air[c].fence]
  BY DEF Receive, gatewayVars, E!Receive
<1>2. PICK packets : air \in [Collars -> packets]
  BY DEF FencesInv, PipelineTypes
<1>3. air' \in [Collars -> packets \cup {Silence}]
  BY <1>1, <1>2
<1>4. fence \in [Collars -> E!Fence] /\ fence' \in [Collars -> E!Fence]
  BY <1>1 DEF FencesInv, PipelineTypes
<1>5. \A d \in Collars :
          IF d = c THEN /\ fence'[d] = IF air[c].fence = None THEN fence[c] ELSE air[c].fence
                        /\ air'[d] = Silence
                   ELSE fence'[d] = fence[d] /\ air'[d] = air[d]
  BY <1>1, <1>2, <1>4
<1>6. PipelineTypes'
  BY <1>1, <1>3, <1>4, <1>5 DEF FencesInv, PipelineTypes
<1>7. HeardIsNewer' /\ \A f \in E!Fence : Around(f)' => Around(f)
  BY <1>1, <1>5 DEF FencesInv, HeardIsNewer, Around, InTheAir
<1>8. QED
  BY <1>1, <1>6, <1>7, CollarsKeepFences

(* A heartbeat carries no fence to whoever hears it.                       *)
LEMMA HeartbeatKeepsFences ==
    ASSUME OrdersAscend, FencesInv, NEW c \in Collars, SendHeartbeat(c)
    PROVE  FencesInv'
<1>1. /\ UNCHANGED <<fence, retained, inbox, handler, incoming, buffer, has, asked, copied, downlink, lora>>
      /\ Broadcast(Nothing)
  BY DEF SendHeartbeat, E!Transmit, G!PacketArrives, G!loraVars, G!mqttVars, gatewayVars
<1>2. PICK hearers : air' = [d \in Collars |-> IF d \in hearers THEN Nothing ELSE air[d]]
  BY <1>1 DEF Broadcast
<1>3. PICK packets : air \in [Collars -> packets]
  BY DEF FencesInv, PipelineTypes
<1>4. air' \in [Collars -> packets \cup {Nothing}]
  BY <1>2, <1>3
<1>5. \A d \in Collars : air'[d] = air[d] \/ air'[d].fence = None
  BY <1>2 DEF Nothing
<1>6. PipelineTypes'
  BY <1>1, <1>4, <1>5 DEF FencesInv, PipelineTypes
<1>7. HeardIsNewer' /\ \A f \in E!Fence : Around(f)' => Around(f)
  BY <1>1, <1>5 DEF FencesInv, HeardIsNewer, Around, InTheAir
<1>8. QED
  BY <1>1, <1>6, <1>7, CollarsKeepFences

(* The copying order: the two halves of the fence come last.               *)
LEMMA CopiedParts ==
    /\ Len(G!Parts) = 4
    /\ \A n \in 0 .. 3 :
          /\ G!Parts[n + 1][1] \in G!Kind /\ G!Parts[n + 1][2] \in G!Half
          /\ G!Parts[n + 1][1] = F <=> n >= 2
          /\ n >= 2 => G!Parts[n + 1][2] = n - 1
<1>1. /\ Len(G!Parts) = 4
      /\ G!Parts[1] = <<"gps", 1>> /\ G!Parts[2] = <<"gps", 2>>
      /\ G!Parts[3] = <<"fence", 1>> /\ G!Parts[4] = <<"fence", 2>>
  BY DEF G!Parts
<1>2. ASSUME NEW n \in 0 .. 3
      PROVE  n \in {0, 1, 2, 3}
  OBVIOUS
<1>3. QED
  BY <1>1, <1>2 DEF F, G!Kind, G!Half

(* snprintf copies a half of a fence that is in the buffer at that time.   *)
LEMMA CopyKeepsFences ==
    ASSUME OrdersAscend, FencesInv, GatewayStep, G!CopyPart
    PROVE  FencesInv'
<1> DEFINE part == G!Parts[copied + 1]
           text == [downlink EXCEPT ![part[1]][part[2]] =
                       IF asked[part[1]] THEN buffer[part[1]][part[2]] ELSE 0]
<1>1. /\ UNCHANGED <<fence, air, retained, inbox, handler, incoming, buffer, has, asked>>
      /\ lora = "format" /\ copied < Len(G!Parts) /\ downlink' = text /\ copied' = copied + 1
      /\ lora' = IF copied + 1 = Len(G!Parts) THEN "send" ELSE "format"
  BY DEF GatewayStep, G!CopyPart, collarVars, envVars, G!mqttVars
<1>2. /\ copied \in 0 .. 3 /\ Len(G!Parts) = 4 /\ part[1] \in G!Kind /\ part[2] \in G!Half
      /\ (part[1] = F <=> copied >= 2) /\ (copied >= 2 => part[2] = copied - 1)
  <2>1. copied \in 0 .. 4 /\ Len(G!Parts) = 4
    BY CopiedParts DEF FencesInv, PipelineTypes
  <2>2. copied \in 0 .. 3
    BY <1>1, <2>1
  <2>3. QED
    BY <2>1, <2>2, CopiedParts
<1>3. /\ downlink \in [G!Kind -> [G!Half -> Nat]] /\ buffer \in [G!Kind -> [G!Half -> Nat]]
      /\ asked \in [G!Kind -> BOOLEAN] /\ F \in G!Kind /\ G!Half = {1, 2}
  BY DEF FencesInv, PipelineTypes, F, G!Kind, G!Half
<1>4. downlink' \in [G!Kind -> [G!Half -> Nat]]
  BY <1>1, <1>2, <1>3
<1>5. ASSUME NEW h \in G!Half, Copied(h)'
      PROVE  \/ Copied(h) /\ downlink'[F][h] = downlink[F][h]
             \/ downlink'[F][h] = IF asked[F] THEN buffer[F][h] ELSE 0
  <2>1. copied >= 2 /\ part[1] = F /\ part[2] = copied - 1
    BY <1>1, <1>2, <1>3, <1>5 DEF Copied
  <2>2. CASE h = part[2]
    BY <1>1, <1>2, <1>3, <2>1, <2>2
  <2>3. CASE h # part[2]
    <3>1. h = 1 /\ copied = 3
      BY <1>1, <1>2, <1>3, <1>5, <2>1, <2>3 DEF Copied
    <3>2. downlink'[F][h] = downlink[F][h]
      BY <1>1, <1>2, <1>3, <2>1, <2>3
    <3>3. QED
      BY <1>1, <3>1, <3>2 DEF Copied
  <2>4. QED
    BY <2>2, <2>3
<1>6. PipelineTypes' /\ HeardIsNewer' /\ Newest' = Newest /\ \A f : Around(f)' => Around(f)
  <2>1. copied' \in 0 .. 4
    BY <1>1, <1>2
  <2>2. PipelineTypes'
    BY <1>1, <1>4, <2>1 DEF FencesInv, PipelineTypes
  <2>3. QED
    BY <1>1, <2>2 DEF FencesInv, HeardIsNewer, Around, InTheAir, Newest, Ordered
<1>7. InOrder'
  <2>1. InboxInOrder' /\ StoredInOrder' /\ BufferInOrder'
    BY <1>1, <1>6 DEF FencesInv, InOrder, InboxInOrder, StoredInOrder, BufferInOrder, ToCome, Storing
  <2>2. asked[F] => has[F] /\ \A h \in G!Half : buffer[F][h] >= 1
    BY <1>1 DEF FencesInv, InOrder, DownlinkInOrder, BufferInOrder
  <2>3. ASSUME NEW h \in G!Half, Copied(h)'
        PROVE  /\ downlink'[F][h] <= buffer[F][h]
               /\ asked[F] => downlink'[F][h] >= 1
               /\ ~asked[F] => downlink'[F][h] = 0
    <3>1. CASE Copied(h) /\ downlink'[F][h] = downlink[F][h]
      BY <3>1 DEF FencesInv, InOrder, DownlinkInOrder
    <3>2. CASE downlink'[F][h] = IF asked[F] THEN buffer[F][h] ELSE 0
      <4>1. buffer[F][h] \in Nat
        BY <1>3
      <4>2. QED
        BY <2>2, <3>2, <4>1
    <3>3. QED
      BY <1>5, <2>3, <3>1, <3>2
  <2>4. QED
    BY <1>1, <2>1, <2>2, <2>3 DEF InOrder, DownlinkInOrder
<1>8. ASSUME NEW h \in G!Half, NEW n \in 0 .. Len(FenceOrders), Live(h, n)'
      PROVE  Live(h, n) /\ n \in 0 .. n
  <2>1. asked[F] => has[F]
    BY <1>1 DEF FencesInv, InOrder, DownlinkInOrder
  <2>2. Copied(h)' /\ asked[F] /\ n = downlink'[F][h] => Live(h, n)
    BY <1>5, <2>1 DEF Live
  <2>3. QED
    BY <1>1, <1>6, <1>8, <2>2 DEF Live, Storing, ToCome
<1>9. QED
  BY <1>1, <1>6, <1>8, <1>7, NewerStays DEF FencesInv

(* What goes on the air covers what is there, and what may follow covers   *)
(* what goes on the air.                                                   *)
LEMMA DownlinkKeepsFences ==
    ASSUME OrdersAscend, FencesInv, SendDownlink
    PROVE  FencesInv'
<1> DEFINE d1 == downlink[F][1]
           d2 == downlink[F][2]
           sent == FenceMix(d1, d2)
<1>1. /\ UNCHANGED <<fence, retained, inbox, handler, incoming, buffer, has, asked, copied, downlink>>
      /\ lora = "send" /\ lora' = "reset" /\ Broadcast(Parse(downlink))
  BY DEF SendDownlink, collarVars, G!SendDownlink, G!Step, G!mqttVars
<1>2. PICK hearers : air' = [c \in Collars |-> IF c \in hearers THEN Parse(downlink) ELSE air[c]]
  BY <1>1 DEF Broadcast
<1>3. PICK packets : air \in [Collars -> packets]
  BY DEF FencesInv, PipelineTypes
<1>4. air' \in [Collars -> packets \cup {Parse(downlink)}]
  BY <1>2, <1>3
<1>5. Parse(downlink).fence = (IF d1 = 0 THEN None ELSE sent)
  BY DEF Parse, F
<1>6. \A h \in G!Half : Copied(h)
  BY <1>1 DEF Copied
<1>7. /\ buffer \in [G!Kind -> [G!Half -> Nat]] /\ downlink \in [G!Kind -> [G!Half -> Nat]]
      /\ F \in G!Kind /\ G!Half = {1, 2} /\ fence \in [Collars -> E!Fence]
  BY DEF FencesInv, PipelineTypes, F, G!Kind, G!Half
<1>8. CASE d1 = 0
  <2>1. \A c \in Collars : air'[c] = air[c] \/ air'[c].fence = None
    BY <1>2, <1>5, <1>8
  <2>2. PipelineTypes'
    BY <1>1, <1>4, <2>1 DEF FencesInv, PipelineTypes
  <2>3. HeardIsNewer' /\ \A f \in E!Fence : Around(f)' => Around(f)
    BY <1>1, <2>1 DEF FencesInv, HeardIsNewer, Around, InTheAir
  <2>4. QED
    BY <1>1, <2>2, <2>3, FencesStay DEF Copied
<1>9. CASE d1 # 0
  <2>1. asked[F] /\ has[F] /\ d1 >= 1 /\ d2 >= 1
    BY <1>1, <1>6, <1>7, <1>9 DEF FencesInv, InOrder, DownlinkInOrder
  <2>2. /\ d1 \in 1 .. Len(FenceOrders) /\ d2 \in 1 .. Len(FenceOrders) /\ Len(FenceOrders) \in Nat
        /\ d1 <= buffer[F][1] /\ d2 <= buffer[F][2]
        /\ buffer[F][1] <= Newest /\ buffer[F][2] <= Newest
    <3>1. /\ d1 <= buffer[F][1] /\ d2 <= buffer[F][2]
          /\ buffer[F][1] <= Newest /\ buffer[F][2] <= Newest
      BY <1>6, <1>7 DEF FencesInv, InOrder, DownlinkInOrder, BufferInOrder
    <3>2. /\ d1 \in Nat /\ d2 \in Nat /\ buffer[F][1] \in Nat /\ buffer[F][2] \in Nat
          /\ Newest \in 0 .. Len(FenceOrders) /\ Len(FenceOrders) \in Nat
      BY <1>7, GeofenceAssumption DEF FencesInv
    <3>3. QED
      BY <2>1, <3>1, <3>2
  <2>3. /\ sent \in E!Fence
        /\ sent.minLat = FenceAt(d1).minLat /\ sent.maxLat = FenceAt(d1).maxLat
        /\ sent.minLon = FenceAt(d2).minLon /\ sent.maxLon = FenceAt(d2).maxLon
    <3>1. FenceOrders[d1] \in E!Fence /\ FenceOrders[d2] \in E!Fence
      BY <2>2, GeofenceAssumption
    <3>2. FenceAt(d1) = FenceOrders[d1] /\ FenceAt(d2) = FenceOrders[d2]
      BY <2>2 DEF FenceAt
    <3>3. QED
      BY <3>1, <3>2 DEF FenceMix, E!Fence
  <2>4. \A f \in E!Fence : Around(f) => Covers(d1, 1, f) /\ Covers(d2, 2, f)
    <3>1. Live(1, d1) /\ Live(2, d2)
      BY <1>6, <1>7, <2>1 DEF Live
    <3>2. QED
      BY <1>7, <2>2, <3>1 DEF FencesInv, Newer, CoversAll
  <2>5. ASSUME NEW c \in Collars
        PROVE  NotOlder(sent, fence[c])
    <3>1. Covers(d1, 1, fence[c]) /\ Covers(d2, 2, fence[c])
      BY <1>7, <2>4 DEF Around
    <3>2. QED
      BY <2>3, <3>1 DEF Covers, NotOlder
  <2>6. \A c \in Collars : air'[c] = air[c] \/ air'[c].fence = sent
    BY <1>2, <1>5, <1>9
  <2>7. PipelineTypes'
    BY <1>1, <1>4, <2>3, <2>6 DEF FencesInv, PipelineTypes
  <2>8. HeardIsNewer'
    BY <1>1, <2>5, <2>6 DEF FencesInv, HeardIsNewer, InTheAir
  <2>9. \A f \in E!Fence : Around(f)' => Around(f) \/ f = sent
    BY <1>1, <2>6 DEF Around, InTheAir
  <2>10. Newest' = Newest /\ InOrder'
    <3>1. Newest' = Newest
      BY <1>1 DEF Newest, Ordered
    <3>2. QED
      BY <1>1, <3>1 DEF FencesInv, InOrder, InboxInOrder, StoredInOrder, BufferInOrder,
         DownlinkInOrder, ToCome, Storing, Copied
  <2>11. Newer'
    <3> SUFFICES ASSUME NEW h \in G!Half, NEW n \in 0 .. Len(FenceOrders), Live(h, n)',
                        NEW f \in E!Fence, Around(f)'
                 PROVE  Covers(n, h, f)
      BY DEF Newer, CoversAll, Covers, FenceAt
    <3>1. \/ n = Newest
          \/ \E i \in 1 .. Len(inbox) : ToCome(i) /\ n = inbox[i][2]
          \/ Storing /\ n = incoming[2]
          \/ n = buffer[F][h]
      BY <1>1, <2>10 DEF Live, Storing, ToCome, Copied
    <3>2. Live(h, n) /\ buffer[F][h] <= n
      <4>1. /\ Newest \in Int /\ \A i \in G!Half : buffer[F][i] \in Nat
            /\ Storing => incoming[2] = buffer[F][1] /\ buffer[F][2] <= incoming[2]
            /\ buffer[F][h] <= Newest
            /\ \A i \in 1 .. Len(inbox) : ToCome(i) => buffer[F][h] <= inbox[i][2]
        BY <1>7 DEF FencesInv, InOrder, StoredInOrder, BufferInOrder
      <4>2. buffer[F][h] <= n
        BY <1>7, <3>1, <4>1
      <4>3. QED
        BY <2>1, <3>1, <4>2 DEF Live
    <3>3. CASE Around(f)
      BY <3>2, <3>3 DEF FencesInv, Newer, CoversAll
    <3>4. CASE f = sent
      <4>1. d1 \in 0 .. Len(FenceOrders) /\ d2 \in 0 .. Len(FenceOrders) /\ downlink[F][h] \in 0 .. n
        BY <1>7, <2>2, <3>2
      <4>2. Covers(downlink[F][h], h, sent)
        <5>1. \A g \in E!Fence : g.minLat >= g.minLat /\ g.minLon >= g.minLon
                                    /\ g.maxLat >= g.maxLat /\ g.maxLon >= g.maxLon
          BY Coordinates
        <5>2. /\ FenceAt(d1).minLat >= sent.minLat /\ FenceAt(d1).maxLat >= sent.maxLat
              /\ FenceAt(d2).minLon >= sent.minLon /\ FenceAt(d2).maxLon >= sent.maxLon
          BY <2>3, <5>1
        <5>3. QED
          BY <1>7, <5>2 DEF Covers
      <4>3. QED
        BY <2>3, <3>4, <4>1, <4>2, Ascending
    <3>5. QED
      BY <2>9, <3>3, <3>4
  <2>12. QED
    BY <1>1, <2>7, <2>8, <2>10, <2>11 DEF FencesInv
<1>10. QED
  BY <1>8, <1>9

(* The collars and the air are untouched.                                  *)
LEMMA StillHeard ==
    ASSUME FencesInv, UNCHANGED <<fence, air>>
    PROVE  HeardIsNewer' /\ \A f : Around(f)' => Around(f)
BY DEF FencesInv, HeardIsNewer, Around, InTheAir

(* The steps of the MQTT task keep the types and the newest order.         *)
LEMMA OrdersMove ==
    ASSUME FencesInv, UNCHANGED <<fence, air, retained, asked, copied, downlink>>,
           inbox' \in Seq(Topics \X Nat), incoming' \in G!Kind \X Nat,
           buffer' \in [G!Kind -> [G!Half -> Nat]], has' \in [G!Kind -> BOOLEAN]
    PROVE  PipelineTypes' /\ HeardIsNewer' /\ Newest' = Newest /\ \A f : Around(f)' => Around(f)
<1>1. PipelineTypes'
  BY DEF FencesInv, PipelineTypes
<1>2. Newest' = Newest
  BY DEF Newest, Ordered
<1>3. QED
  BY <1>1, <1>2, StillHeard

(* Storing the second half of a fence, or of a position.                   *)
LEMMA SecondHalfKeepsFences ==
    ASSUME OrdersAscend, FencesInv, HandlerStep, G!StoreSecondHalf
    PROVE  FencesInv'
<1>1. /\ UNCHANGED <<fence, air, retained, inbox, incoming, has, asked, copied, downlink, lora>>
      /\ handler = "half" /\ handler' = "stored"
      /\ buffer' = [buffer EXCEPT ![incoming[1]][2] = incoming[2]]
  BY DEF HandlerStep, G!StoreSecondHalf, collarVars, envVars, G!loraVars
<1>2. /\ buffer \in [G!Kind -> [G!Half -> Nat]] /\ incoming \in G!Kind \X Nat
      /\ F \in G!Kind /\ G!Half = {1, 2}
  BY DEF FencesInv, PipelineTypes, F, G!Kind, G!Half
<1>3. /\ buffer' \in [G!Kind -> [G!Half -> Nat]] /\ buffer'[F][1] = buffer[F][1]
      /\ IF incoming[1] = F THEN buffer'[F][2] = incoming[2] ELSE buffer'[F][2] = buffer[F][2]
  BY <1>1, <1>2
<1>4. PipelineTypes' /\ HeardIsNewer' /\ Newest' = Newest /\ \A f : Around(f)' => Around(f)
  BY <1>1, <1>2, <1>3, OrdersMove DEF FencesInv, PipelineTypes
<1>5. Storing' <=> Storing
  BY <1>1 DEF Storing
<1>6. CASE incoming[1] # F
  <2>1. ~Storing /\ ~Storing' /\ \A h \in G!Half : buffer'[F][h] = buffer[F][h]
    BY <1>1, <1>2, <1>3, <1>6 DEF Storing
  <2>2. InOrder'
    BY <1>1, <1>4, <2>1 DEF FencesInv, InOrder, InboxInOrder, StoredInOrder, BufferInOrder,
       DownlinkInOrder, ToCome, Copied
  <2>3. ASSUME NEW h \in G!Half, NEW n \in 0 .. Len(FenceOrders), Live(h, n)'
        PROVE  Live(h, n) /\ n \in 0 .. n
    BY <1>1, <1>4, <2>1, <2>3 DEF Live, ToCome, Copied
  <2>4. QED
    BY <1>4, <2>2, <2>3, NewerStays DEF FencesInv
<1>7. CASE incoming[1] = F
  <2>1. /\ Storing /\ incoming[2] \in 1 .. Newest /\ Newest \in Nat
        /\ \A j \in 1 .. Len(inbox) : ToCome(j) => incoming[2] <= inbox[j][2]
        /\ buffer[F][1] = incoming[2] /\ buffer[F][2] <= incoming[2]
    BY <1>1, <1>7 DEF FencesInv, InOrder, StoredInOrder, Storing
  <2>2. \A h \in G!Half : buffer'[F][h] = incoming[2] /\ buffer[F][h] <= incoming[2]
    BY <1>2, <1>3, <1>7, <2>1
  <2>3. InboxInOrder' /\ StoredInOrder' /\ BufferInOrder'
    BY <1>1, <1>2, <1>4, <1>5, <2>1, <2>2 DEF FencesInv, InOrder, InboxInOrder, StoredInOrder,
       BufferInOrder, ToCome
  <2>4. DownlinkInOrder'
    <3>1. \A h \in G!Half : downlink[F][h] \in Nat /\ buffer[F][h] \in Nat /\ incoming[2] \in Nat
      BY <1>2 DEF FencesInv, PipelineTypes
    <3>2. QED
      BY <1>1, <2>2, <3>1 DEF FencesInv, InOrder, DownlinkInOrder, Copied
  <2>5. ASSUME NEW h \in G!Half, NEW n \in 0 .. Len(FenceOrders), Live(h, n)'
        PROVE  Live(h, n) /\ n \in 0 .. n
    BY <1>1, <1>4, <1>5, <2>1, <2>2, <2>5 DEF Live, ToCome, Copied
  <2>6. QED
    BY <1>4, <2>3, <2>4, <2>5, NewerStays DEF FencesInv, InOrder
<1>8. QED
  BY <1>6, <1>7

(* Raising the flag makes the buffer's fence one that may come.            *)
LEMMA FlagKeepsFences ==
    ASSUME OrdersAscend, FencesInv, HandlerStep, G!RaiseFlag
    PROVE  FencesInv'
<1>1. /\ UNCHANGED <<fence, air, retained, inbox, incoming, buffer, asked, copied, downlink, lora>>
      /\ handler = "stored" /\ handler' = "idle" /\ has' = [has EXCEPT ![incoming[1]] = TRUE]
  BY DEF HandlerStep, G!RaiseFlag, collarVars, envVars, G!loraVars
<1>2. /\ incoming \in G!Kind \X Nat /\ F \in G!Kind /\ has \in [G!Kind -> BOOLEAN]
      /\ buffer \in [G!Kind -> [G!Half -> Nat]]
  BY DEF FencesInv, PipelineTypes, F, G!Kind
<1>3. has' \in [G!Kind -> BOOLEAN] /\ (has'[F] <=> has[F] \/ incoming[1] = F)
  BY <1>1, <1>2
<1>4. PipelineTypes' /\ HeardIsNewer' /\ Newest' = Newest /\ \A f : Around(f)' => Around(f)
  BY <1>1, <1>2, <1>3, OrdersMove DEF FencesInv, PipelineTypes
<1>5. incoming[1] = F => Storing /\ incoming[2] >= 1 /\ \A h \in G!Half : buffer[F][h] = incoming[2]
  BY <1>1 DEF FencesInv, InOrder, StoredInOrder, Storing, G!Half
<1>6. InOrder'
  BY <1>1, <1>3, <1>4, <1>5 DEF FencesInv, InOrder, InboxInOrder, StoredInOrder, BufferInOrder,
     DownlinkInOrder, ToCome, Storing, Copied
<1>7. ASSUME NEW h \in G!Half, NEW n \in 0 .. Len(FenceOrders), Live(h, n)'
      PROVE  Live(h, n) /\ n \in 0 .. n
  BY <1>1, <1>3, <1>4, <1>5, <1>7 DEF Live, ToCome, Copied, Storing
<1>8. QED
  BY <1>4, <1>6, <1>7, NewerStays DEF FencesInv

(* Storing the first half of the oldest order on its way.                  *)
LEMMA DeliveryKeepsFences ==
    ASSUME OrdersAscend, FencesInv, Deliver
    PROVE  FencesInv'
<1> DEFINE k == KindOf(inbox[1][1])
           v == inbox[1][2]
<1>1. /\ inbox \in Seq(Topics \X Nat) /\ inbox # << >> /\ Len(inbox) \in Nat \ {0}
      /\ inbox' = Tail(inbox) /\ Head(inbox) = inbox[1]
  BY DEF Deliver, FencesInv, PipelineTypes
<1>2. /\ inbox' \in Seq(Topics \X Nat) /\ Len(inbox') = Len(inbox) - 1
      /\ \A i \in 1 .. Len(inbox') : i + 1 \in 1 .. Len(inbox) /\ inbox'[i] = inbox[i + 1]
  BY <1>1
<1>3. /\ UNCHANGED <<fence, air, retained, has, asked, copied, downlink, lora>>
      /\ handler = "idle" /\ handler' = "half" /\ incoming' = <<k, v>>
      /\ buffer' = [buffer EXCEPT ![k][1] = v]
  BY <1>1 DEF Deliver, collarVars, G!StoreFirstHalf, G!loraVars
<1>4. /\ buffer \in [G!Kind -> [G!Half -> Nat]] /\ F \in G!Kind /\ G!Half = {1, 2}
      /\ k \in G!Kind /\ v \in Nat /\ 1 \in 1 .. Len(inbox)
  <2>1. inbox[1] \in Topics \X Nat /\ 1 \in 1 .. Len(inbox)
    BY <1>1
  <2>2. QED
    BY <2>1 DEF FencesInv, PipelineTypes, F, G!Kind, G!Half, KindOf
<1>5. /\ buffer' \in [G!Kind -> [G!Half -> Nat]] /\ buffer'[F][2] = buffer[F][2]
      /\ IF k = F THEN buffer'[F][1] = v ELSE buffer'[F][1] = buffer[F][1]
  BY <1>3, <1>4
<1>6. PipelineTypes' /\ HeardIsNewer' /\ Newest' = Newest /\ \A f : Around(f)' => Around(f)
  <2>1. incoming' \in G!Kind \X Nat
    BY <1>3, <1>4
  <2>2. has' \in [G!Kind -> BOOLEAN]
    BY <1>3 DEF FencesInv, PipelineTypes
  <2>3. QED
    BY <1>2, <1>3, <1>5, <2>1, <2>2, OrdersMove
<1>7. /\ ~Storing /\ (Storing' <=> k = F)
      /\ \A i \in 1 .. Len(inbox') : ToCome(i)' <=> ToCome(i + 1)
  BY <1>2, <1>3 DEF Storing, ToCome
<1>8. \A i, j \in 1 .. Len(inbox') : i <= j => i + 1 <= j + 1
  BY <1>1, <1>2
<1>9. InboxInOrder'
  <2> SUFFICES ASSUME NEW i \in 1 .. Len(inbox'), ToCome(i)'
               PROVE  /\ inbox'[i][2] \in 1 .. Newest'
                      /\ \A j \in 1 .. Len(inbox') : ToCome(j)' /\ i <= j => inbox'[i][2] <= inbox'[j][2]
    BY DEF InboxInOrder
  <2>1. i + 1 \in 1 .. Len(inbox) /\ ToCome(i + 1) /\ inbox'[i] = inbox[i + 1]
    BY <1>2, <1>7
  <2>2. /\ inbox[i + 1][2] \in 1 .. Newest
        /\ \A j \in 1 .. Len(inbox) : ToCome(j) /\ i + 1 <= j => inbox[i + 1][2] <= inbox[j][2]
    BY <2>1 DEF FencesInv, InOrder, InboxInOrder
  <2>3. ASSUME NEW j \in 1 .. Len(inbox'), ToCome(j)', i <= j
        PROVE  inbox'[i][2] <= inbox'[j][2]
    <3>1. j + 1 \in 1 .. Len(inbox) /\ ToCome(j + 1) /\ inbox'[j] = inbox[j + 1] /\ i + 1 <= j + 1
      BY <1>2, <1>7, <1>8, <2>3
    <3>2. QED
      BY <2>1, <2>2, <3>1
  <2>4. QED
    BY <1>6, <2>1, <2>2, <2>3
<1>10. ASSUME k = F
       PROVE  /\ v \in 1 .. Newest /\ Live(1, v) /\ Live(2, v)
              /\ \A i \in 1 .. Len(inbox') : ToCome(i)' => v <= inbox'[i][2]
              /\ buffer[F][1] <= v /\ buffer[F][2] <= v
  <2>1. ToCome(1)
    BY <1>4, <1>10 DEF ToCome
  <2>2. v \in 1 .. Newest /\ \A j \in 1 .. Len(inbox) : ToCome(j) /\ 1 <= j => v <= inbox[j][2]
    BY <1>4, <2>1 DEF FencesInv, InOrder, InboxInOrder
  <2>3. \A i \in 1 .. Len(inbox') : ToCome(i)' => v <= inbox'[i][2]
    <3>1. ASSUME NEW i \in 1 .. Len(inbox'), ToCome(i)'
          PROVE  v <= inbox'[i][2]
      <4>1. i + 1 \in 1 .. Len(inbox) /\ 1 <= i + 1 /\ ToCome(i + 1) /\ inbox'[i] = inbox[i + 1]
        BY <1>2, <1>7, <3>1
      <4>2. QED
        BY <2>2, <4>1
    <3>2. QED
      BY <3>1
  <2>4. buffer[F][1] <= v /\ buffer[F][2] <= v
    BY <1>4, <2>1 DEF FencesInv, InOrder, BufferInOrder
  <2>5. QED
    BY <1>4, <2>1, <2>2, <2>3, <2>4 DEF Live
<1>11. \A h \in G!Half : \A i \in 1 .. Len(inbox') : ToCome(i)' => buffer[F][h] <= inbox'[i][2]
  <2> SUFFICES ASSUME NEW h \in G!Half, NEW i \in 1 .. Len(inbox'), ToCome(i)'
               PROVE  buffer[F][h] <= inbox'[i][2]
    OBVIOUS
  <2>1. i + 1 \in 1 .. Len(inbox) /\ ToCome(i + 1) /\ inbox'[i] = inbox[i + 1]
    BY <1>2, <1>7
  <2>2. QED
    BY <2>1 DEF FencesInv, InOrder, BufferInOrder
<1>12. StoredInOrder'
  BY <1>3, <1>4, <1>5, <1>6, <1>7, <1>10 DEF StoredInOrder
<1>13. BufferInOrder'
  <2> SUFFICES ASSUME NEW h \in G!Half
               PROVE  /\ buffer'[F][h] <= Newest
                      /\ \A i \in 1 .. Len(inbox') : ToCome(i)' => buffer'[F][h] <= inbox'[i][2]
                      /\ has[F] => buffer'[F][h] >= 1
    BY <1>3, <1>6 DEF BufferInOrder
  <2>1. CASE buffer'[F][h] = buffer[F][h]
    BY <1>11, <2>1 DEF FencesInv, InOrder, BufferInOrder
  <2>2. CASE k = F /\ buffer'[F][h] = v
    BY <1>10, <2>2 DEF FencesInv
  <2>3. QED
    BY <1>4, <1>5, <2>1, <2>2
<1>14. DownlinkInOrder'
  <2>1. ASSUME NEW h \in G!Half
        PROVE  buffer[F][h] <= buffer'[F][h] /\ downlink[F][h] \in Nat
                  /\ buffer[F][h] \in Nat /\ buffer'[F][h] \in Nat
    <3>1. buffer[F][h] \in Nat /\ buffer'[F][h] \in Nat /\ downlink[F][h] \in Nat
      BY <1>4, <1>5 DEF FencesInv, PipelineTypes
    <3>2. h = 1 \/ h = 2
      BY <1>4
    <3>3. buffer'[F][h] = buffer[F][h] \/ (k = F /\ buffer'[F][h] = v)
      BY <1>5, <3>2
    <3>4. k = F => buffer[F][h] <= v
      BY <1>10, <3>2
    <3>5. QED
      BY <3>1, <3>3, <3>4
  <2>2. QED
    BY <1>3, <2>1 DEF FencesInv, InOrder, DownlinkInOrder, Copied
<1>15. ASSUME NEW h \in G!Half, NEW n \in 0 .. Len(FenceOrders), Live(h, n)'
       PROVE  Live(h, n) /\ n \in 0 .. n
  <2>1. CASE k = F /\ n = v
    BY <1>4, <1>10, <2>1
  <2>2. CASE \E i \in 1 .. Len(inbox') : ToCome(i)' /\ n = inbox'[i][2]
    <3>1. PICK i \in 1 .. Len(inbox') : ToCome(i)' /\ n = inbox'[i][2]
      BY <2>2
    <3>2. i + 1 \in 1 .. Len(inbox) /\ ToCome(i + 1) /\ n = inbox[i + 1][2]
      BY <1>2, <1>7, <3>1
    <3>3. Live(h, n)
      BY <3>2 DEF Live
    <3>4. QED
      BY <3>3
  <2>3. CASE \/ n = Newest
             \/ has[F] /\ n = buffer[F][h]
             \/ Copied(h) /\ asked[F] /\ n = downlink[F][h]
    BY <2>3 DEF Live
  <2>4. \/ n = Newest'
        \/ \E i \in 1 .. Len(inbox') : ToCome(i)' /\ n = inbox'[i][2]
        \/ Storing' /\ n = incoming'[2]
        \/ has'[F] /\ n = buffer'[F][h]
        \/ Copied(h)' /\ asked'[F] /\ n = downlink'[F][h]
    BY <1>15 DEF Live, ToCome, Storing, Copied
  <2>5. Copied(h)' <=> Copied(h)
    BY <1>3 DEF Copied
  <2>6. buffer'[F][h] = buffer[F][h] \/ (k = F /\ buffer'[F][h] = v)
    BY <1>4, <1>5
  <2>7. QED
    BY <1>3, <1>6, <1>7, <2>1, <2>2, <2>3, <2>4, <2>5, <2>6
<1>16. QED
  BY <1>6, <1>9, <1>12, <1>13, <1>14, <1>15, NewerStays DEF FencesInv, InOrder

(* A new order is newer than everything under way.                         *)
LEMMA OrderKeepsFences ==
    ASSUME OrdersAscend, OneFenceTopic, FencesInv, NEW t \in Topics, Order(t)
    PROVE  FencesInv'
<1> DEFINE n == Ordered(KindOf(t)) + 1
<1>1. /\ UNCHANGED <<fence, air, handler, incoming, buffer, has, asked, copied, downlink, lora>>
      /\ retained' = [retained EXCEPT ![t] = n]
      /\ inbox' = Append(inbox, <<t, n>>) \/ inbox' = inbox
      /\ Ordered(KindOf(t)) < Len(Orders(KindOf(t)))
  BY DEF Order, collarVars, gatewayVars
<1>2. /\ inbox \in Seq(Topics \X Nat) /\ retained \in [Topics -> Nat] /\ Len(inbox) \in Nat
      /\ Newest \in 0 .. Len(FenceOrders) /\ Newest \in Nat /\ Len(FenceOrders) \in Nat
  BY GeofenceAssumption DEF FencesInv, PipelineTypes
<1>3. n \in Nat
  <2>1. CASE KindOf(t) = F
    BY <1>2, <2>1 DEF Newest
  <2>2. CASE KindOf(t) # F
    <3>1. \A u \in Topics : (KindOf(u) = "gps") => u = "simulated_gps"
      BY DEF KindOf
    <3>2. KindOf(t) = "gps" /\ t = "simulated_gps"
      BY <2>2 DEF KindOf, F
    <3>3. { u \in Topics : KindOf(u) = "gps" } = {t}
      BY <3>1, <3>2
    <3>4. Ordered("gps") = Max({0, retained[t]}) /\ retained[t] \in Nat
      <4>1. {0} \cup { retained[u] : u \in {t} } = {0, retained[t]}
        OBVIOUS
      <4>2. QED
        BY <1>2, <3>3, <4>1 DEF Ordered
    <3>5. Ordered("gps") \in Nat
      <4> DEFINE S == {0, retained[t]}
      <4>1. \E x \in S : \A y \in S : x >= y
        BY <3>4
      <4>2. Max(S) \in S
        BY <4>1 DEF Max
      <4>3. QED
        BY <3>4, <4>2
    <3>6. QED
      BY <3>2, <3>5
  <2>3. QED
    BY <2>1, <2>2
<1>4. /\ retained' \in [Topics -> Nat]
      /\ inbox' \in Seq(Topics \X Nat)
  <2>1. <<t, n>> \in Topics \X Nat
    BY <1>3
  <2>2. Append(inbox, <<t, n>>) \in Seq(Topics \X Nat)
    BY <1>2, <2>1, AppendProperties
  <2>3. retained' \in [Topics -> Nat]
    BY <1>1, <1>2, <1>3
  <2>4. QED
    BY <1>1, <1>2, <2>2, <2>3
<1>5. PipelineTypes' /\ HeardIsNewer' /\ \A f : Around(f)' => Around(f)
  BY <1>1, <1>4, StillHeard DEF FencesInv, PipelineTypes
<1>6. /\ Newest' \in 0 .. Len(FenceOrders) /\ Newest <= Newest'
      /\ KindOf(t) = F => n = Newest' /\ Newest < Newest'
  <2>1. CASE KindOf(t) = F
    <3>1. Newest' = retained'[t]
      BY <1>4, <2>1, NewestIs DEF Newest, Ordered
    <3>2. retained'[t] = n /\ n = Newest + 1 /\ Newest < Len(FenceOrders)
      BY <1>1, <1>2, <2>1 DEF Newest, Orders, F
    <3>3. QED
      BY <1>2, <3>1, <3>2
  <2>2. CASE KindOf(t) # F
    <3>1. { retained'[u] : u \in { w \in Topics : KindOf(w) = F } }
            = { retained[u] : u \in { w \in Topics : KindOf(w) = F } }
      BY <1>1, <1>2, <2>2
    <3>2. Newest' = Newest
      BY <3>1 DEF Newest, Ordered
    <3>3. QED
      BY <1>2, <2>2, <3>2
  <2>3. QED
    BY <2>1, <2>2
<1>7. ASSUME NEW i \in 1 .. Len(inbox'), ToCome(i)'
      PROVE  \/ i \in 1 .. Len(inbox) /\ ToCome(i) /\ inbox'[i] = inbox[i]
             \/ i = Len(inbox) + 1 /\ KindOf(t) = F /\ inbox'[i][2] = Newest'
  <2>1. CASE inbox' = inbox
    BY <1>7, <2>1 DEF ToCome
  <2>2. CASE inbox' = Append(inbox, <<t, n>>)
    <3>1. Len(inbox') = Len(inbox) + 1
      BY <1>2, <2>2
    <3>2. CASE i = Len(inbox) + 1
      <4>1. inbox'[i] = <<t, n>>
        BY <1>2, <2>2, <3>2
      <4>2. QED
        BY <1>6, <1>7, <3>2, <4>1 DEF ToCome
    <3>3. CASE i # Len(inbox) + 1
      <4>1. i \in 1 .. Len(inbox) /\ inbox'[i] = inbox[i]
        BY <1>2, <2>2, <3>1, <3>3
      <4>2. QED
        BY <1>7, <4>1 DEF ToCome
    <3>4. QED
      BY <3>2, <3>3
  <2>3. QED
    BY <1>1, <2>1, <2>2
<1>8. Len(inbox') \in {Len(inbox), Len(inbox) + 1}
  BY <1>1, <1>2
<1>9. ASSUME NEW m \in Nat, m <= Newest,
             \A i \in 1 .. Len(inbox) : ToCome(i) => m <= inbox[i][2]
      PROVE  /\ m <= Newest'
             /\ \A i \in 1 .. Len(inbox') : ToCome(i)' => m <= inbox'[i][2]
  <2>1. m <= Newest'
    BY <1>2, <1>6, <1>9
  <2>2. QED
    BY <1>7, <1>9, <2>1
<1>10. InboxInOrder'
  <2> SUFFICES ASSUME NEW i \in 1 .. Len(inbox'), ToCome(i)'
               PROVE  /\ inbox'[i][2] \in 1 .. Newest'
                      /\ \A j \in 1 .. Len(inbox') : ToCome(j)' /\ i <= j => inbox'[i][2] <= inbox'[j][2]
    BY DEF InboxInOrder
  <2>1. CASE i \in 1 .. Len(inbox) /\ ToCome(i) /\ inbox'[i] = inbox[i]
    <3>1. /\ inbox[i][2] \in 1 .. Newest
          /\ \A j \in 1 .. Len(inbox) : ToCome(j) /\ i <= j => inbox[i][2] <= inbox[j][2]
      BY <2>1 DEF FencesInv, InOrder, InboxInOrder
    <3>2. inbox[i][2] \in 1 .. Newest'
      BY <1>2, <1>6, <3>1
    <3>3. \A j \in 1 .. Len(inbox') : ToCome(j)' /\ i <= j => inbox'[i][2] <= inbox'[j][2]
      BY <1>7, <2>1, <3>1, <3>2
    <3>4. QED
      BY <2>1, <3>2, <3>3
  <2>2. CASE i = Len(inbox) + 1 /\ KindOf(t) = F /\ inbox'[i][2] = Newest'
    <3>1. Newest' \in 1 .. Newest'
      BY <1>2, <1>6, <2>2
    <3>2. \A j \in 1 .. Len(inbox') : i <= j => i = j
      BY <1>2, <1>8, <2>2
    <3>3. QED
      BY <2>2, <3>1, <3>2
  <2>3. QED
    BY <1>7, <2>1, <2>2
<1>11. StoredInOrder'
  <2>1. ASSUME Storing
        PROVE  /\ incoming[2] \in 1 .. Newest'
               /\ \A i \in 1 .. Len(inbox') : ToCome(i)' => incoming[2] <= inbox'[i][2]
    <3>1. /\ incoming[2] \in 1 .. Newest
          /\ \A i \in 1 .. Len(inbox) : ToCome(i) => incoming[2] <= inbox[i][2]
      BY <2>1 DEF FencesInv, InOrder, StoredInOrder
    <3>2. incoming[2] \in Nat /\ 1 <= incoming[2] /\ incoming[2] <= Newest
      BY <1>2, <3>1
    <3>3. QED
      BY <1>6, <1>9, <3>1, <3>2
  <2>2. QED
    BY <1>1, <2>1 DEF FencesInv, InOrder, StoredInOrder, Storing
<1>12. BufferInOrder'
  <2>1. \A h \in G!Half : buffer[F][h] \in Nat
    BY DEF FencesInv, PipelineTypes, F, G!Kind
  <2>2. QED
    BY <1>1, <1>9, <2>1 DEF FencesInv, InOrder, BufferInOrder
<1>13. DownlinkInOrder'
  BY <1>1 DEF FencesInv, InOrder, DownlinkInOrder, Copied
<1>14. ASSUME NEW h \in G!Half, NEW m \in 0 .. Len(FenceOrders), Live(h, m)'
       PROVE  \E l \in 0 .. m : Live(h, l)
  <2>1. CASE m = Newest'
    <3>1. Newest \in 0 .. m /\ Live(h, Newest)
      BY <1>2, <1>6, <2>1 DEF Live
    <3>2. QED
      BY <3>1
  <2>2. CASE Live(h, m)
    BY <2>2
  <2>3. CASE \E i \in 1 .. Len(inbox') : ToCome(i)' /\ m = inbox'[i][2]
    BY <1>7, <2>1, <2>2, <2>3 DEF Live
  <2>4. \/ m = Newest'
        \/ \E i \in 1 .. Len(inbox') : ToCome(i)' /\ m = inbox'[i][2]
        \/ Live(h, m)
    BY <1>1, <1>14 DEF Live, ToCome, Storing, Copied
  <2>5. QED
    BY <2>1, <2>2, <2>3, <2>4
<1>15. QED
  BY <1>5, <1>6, <1>10, <1>11, <1>12, <1>13, <1>14, NewerStays DEF FencesInv, InOrder

(* A clean session begins or ends: the inbox holds what is retained.       *)
LEMMA SessionKeepsFences ==
    ASSUME OrdersAscend, OneFenceTopic, FencesInv, Connect \/ Disconnect
    PROVE  FencesInv'
<1> DEFINE S == { <<t, retained[t]>> : t \in { u \in Topics : retained[u] > 0 } }
<1>1. /\ UNCHANGED <<fence, air, retained, handler, incoming, buffer, has, asked, copied, downlink, lora>>
      /\ handler = "idle"
  BY DEF Connect, Disconnect, G!SetConnected, collarVars, G!loraVars
<1>2. retained \in [Topics -> Nat] /\ Newest \in 0 .. Len(FenceOrders) /\ Len(FenceOrders) \in Nat
  BY GeofenceAssumption DEF FencesInv, PipelineTypes
<1>3. inbox' \in Seq(S)
  <2>1. \A t : Retained(t) \in Seq(S)
    <3> SUFFICES ASSUME NEW t
                 PROVE  Retained(t) \in Seq(S)
      OBVIOUS
    <3>1. CASE t \in Topics /\ retained[t] > 0
      <4>1. Retained(t) = << <<t, retained[t]>> >> /\ <<t, retained[t]>> \in S
        BY <3>1 DEF Retained
      <4>2. QED
        BY <4>1
    <3>2. CASE ~(t \in Topics /\ retained[t] > 0)
      BY <3>2 DEF Retained
    <3>3. QED
      BY <3>1, <3>2
  <2>2. CASE Disconnect
    BY <2>2 DEF Disconnect
  <2>3. CASE Connect
    <3>1. inbox' = Retained("simulated_gps") \o Retained("fence_update") \o Retained("config_update")
      BY <2>3 DEF Connect
    <3>2. Retained("simulated_gps") \o Retained("fence_update") \in Seq(S)
      BY <2>1, ConcatProperties
    <3>3. QED
      BY <2>1, <3>1, <3>2, ConcatProperties
  <2>4. QED
    BY <2>2, <2>3
<1>4. inbox' \in Seq(Topics \X Nat)
  <2>1. S \subseteq Topics \X Nat
    BY <1>2
  <2>2. \A i \in 1 .. Len(inbox') : inbox'[i] \in Topics \X Nat
    BY <1>3, <2>1
  <2>3. QED
    BY <1>3, <2>1, SeqMonotonic
<1>5. /\ PipelineTypes' /\ HeardIsNewer' /\ Newest' = Newest /\ \A f : Around(f)' => Around(f)
  BY <1>1, <1>4, OrdersMove DEF FencesInv, PipelineTypes
<1>6. ASSUME NEW i \in 1 .. Len(inbox'), ToCome(i)'
      PROVE  inbox'[i][2] = Newest /\ Newest >= 1
  <2>1. PICK t \in Topics : inbox'[i] = <<t, retained[t]>> /\ retained[t] > 0
    BY <1>3
  <2>2. KindOf(t) = F
    BY <1>6, <2>1 DEF ToCome
  <2>3. Newest = retained[t]
    BY <1>2, <2>2, NewestIs DEF Newest, Ordered
  <2>4. QED
    BY <1>2, <2>1, <2>3
<1>7. ~Storing /\ ~Storing'
  BY <1>1 DEF Storing
<1>8. InboxInOrder'
  BY <1>2, <1>5, <1>6 DEF InboxInOrder
<1>9. BufferInOrder' /\ DownlinkInOrder' /\ StoredInOrder'
  BY <1>1, <1>5, <1>6, <1>7 DEF FencesInv, InOrder, BufferInOrder, DownlinkInOrder, Copied, StoredInOrder
<1>10. ASSUME NEW h \in G!Half, NEW n \in 0 .. Len(FenceOrders), Live(h, n)'
       PROVE  Live(h, n) /\ n \in 0 .. n
  <2>1. \/ n = Newest
        \/ \E i \in 1 .. Len(inbox') : ToCome(i)' /\ n = inbox'[i][2]
        \/ Live(h, n)
    BY <1>1, <1>5, <1>7, <1>10 DEF Live, ToCome, Storing, Copied
  <2>2. QED
    BY <1>6, <2>1 DEF Live
<1>11. QED
  BY <1>5, <1>8, <1>9, <1>10, NewerStays DEF FencesInv, InOrder

(* A restarted gateway has no fence under way.                             *)
LEMMA RestartKeepsFences ==
    ASSUME OrdersAscend, FencesInv, RestartGateway
    PROVE  FencesInv'
<1>1. /\ UNCHANGED <<fence, air, retained>>
      /\ lora' = "waiting" /\ handler' = "idle" /\ inbox' = << >> /\ incoming' = <<"gps", 0>>
      /\ asked' = [k \in G!Kind |-> FALSE] /\ has' = [k \in G!Kind |-> FALSE]
      /\ copied' = 0 /\ downlink' = G!Blank /\ buffer' = G!Blank
  BY DEF RestartGateway, collarVars
<1>2. /\ G!Blank \in [G!Kind -> [G!Half -> Nat]] /\ \A h \in G!Half : G!Blank[F][h] = 0
      /\ F \in G!Kind /\ "gps" \in G!Kind
  BY DEF G!Blank, G!Kind, G!Half, F
<1>3. PipelineTypes'
  <2>1. /\ incoming' \in G!Kind \X Nat /\ inbox' \in Seq(Topics \X Nat) /\ copied' \in 0 .. 4
        /\ has' \in [G!Kind -> BOOLEAN] /\ asked' \in [G!Kind -> BOOLEAN]
    BY <1>1, <1>2
  <2>2. QED
    BY <1>1, <1>2, <2>1 DEF FencesInv, PipelineTypes
<1>4. Newest' = Newest /\ Newest \in Nat
  BY <1>1, GeofenceAssumption DEF FencesInv, Newest, Ordered
<1>5. InOrder'
  <2>1. \A i : ~ToCome(i)'
    BY <1>1 DEF ToCome
  <2>2. ~Storing' /\ ~has'[F] /\ \A h \in G!Half : ~Copied(h)' /\ buffer'[F][h] = 0
    BY <1>1, <1>2 DEF Storing, Copied
  <2>3. QED
    BY <1>1, <1>4, <2>1, <2>2 DEF InOrder, InboxInOrder, StoredInOrder, BufferInOrder, DownlinkInOrder
<1>6. ASSUME NEW h \in G!Half, NEW n \in 0 .. Len(FenceOrders), Live(h, n)'
      PROVE  Live(h, n) /\ n \in 0 .. n
  <2>1. ~has'[F] /\ ~asked'[F]
    BY <1>1, <1>2
  <2>2. n = Newest
    BY <1>1, <1>4, <1>6, <2>1 DEF Live, ToCome, Storing
  <2>3. QED
    BY <2>2 DEF Live
<1>7. QED
  BY <1>1, <1>3, <1>4, <1>5, <1>6, StillHeard, NewerStays DEF FencesInv

(* Every step preserves the invariant of the first part.                   *)
LEMMA FencesStep ==
    ASSUME OrdersAscend, OneFenceTopic, FencesInv, [Next]_vars
    PROVE  FencesInv'
<1>1. ASSUME NEW c \in Collars, CollarNext(c)
      PROVE  FencesInv'
  BY <1>1, QuietStepsKeepFences, ResetKeepsFences, ReceiveKeepsFences, HeartbeatKeepsFences
     DEF CollarNext
<1>2. CASE GatewayNext
  BY <1>2, GatewayKeepsFences, CopyKeepsFences, DownlinkKeepsFences DEF GatewayNext
<1>3. CASE HandlerStep
  BY <1>3, SecondHalfKeepsFences, FlagKeepsFences DEF HandlerStep, G!MqttTask
<1>4. QED
  BY <1>1, <1>2, <1>3, QuietStepsKeepFences, DeliveryKeepsFences, OrderKeepsFences,
     SessionKeepsFences, RestartKeepsFences DEF Next

(* Only a received downlink and a reset replace a collar's fence.          *)
LEMMA FenceChanges ==
    ASSUME [Next]_vars
    PROVE  \/ UNCHANGED <<fence, resets>>
           \/ \E c \in Collars : Receive(c) /\ UNCHANGED resets
           \/ resets' = resets + 1
<1>1. CASE UNCHANGED vars
  BY <1>1 DEF vars, collarVars
<1>2. ASSUME NEW c \in Collars, CollarNext(c)
      PROVE  \/ UNCHANGED <<fence, resets>>
             \/ Receive(c) /\ UNCHANGED resets
             \/ resets' = resets + 1
  <2>1. CASE Wake(c) \/ CollarStep(c) \/ UseConsole(c) \/ SendHeartbeat(c) \/ WindowCloses(c)
    BY <2>1 DEF Wake, CollarStep, UseConsole, SendHeartbeat, WindowCloses, E!Wake, E!LeaveConsole,
       E!Evaluate, E!RadioFails, E!Settle, E!Operate, E!PressArrow, E!PressFast, E!Confirm,
       E!Transmit, E!WindowCloses
  <2>2. CASE ResetCollar(c) \/ Receive(c)
    BY <2>2 DEF ResetCollar, Receive, E!Reset, E!Receive
  <2>3. QED
    BY <1>2, <2>1, <2>2 DEF CollarNext
<1>3. CASE \/ GatewayNext \/ HandlerStep \/ OutboxStep \/ Deliver \/ \E t \in Topics : Order(t)
           \/ Connect \/ Disconnect \/ SwitchWifi \/ RestartGateway
  BY <1>3 DEF GatewayNext, GatewayStep, DriverFails, SendDownlink, Publish, HandlerStep, OutboxStep,
     Resend, Forget, Deliver, Order, Connect, Disconnect, SwitchWifi, RestartGateway, collarVars
<1>4. QED
  BY <1>1, <1>2, <1>3 DEF Next

(* Whatever replaces a fence, a reset apart, is not older.                 *)
LEMMA NotOlderFences ==
    ASSUME FencesInv, resets \in Nat, [Next]_vars, resets' = resets, NEW c \in Collars
    PROVE  NotOlder(fence'[c], fence[c])
<1>1. fence \in [Collars -> E!Fence] /\ fence[c] \in E!Fence
  BY DEF FencesInv, PipelineTypes
<1>2. NotOlder(fence[c], fence[c])
  BY <1>1, Coordinates DEF NotOlder
<1>3. CASE UNCHANGED fence
  BY <1>2, <1>3
<1>4. ASSUME NEW d \in Collars, Receive(d)
      PROVE  NotOlder(fence'[c], fence[c])
  <2>1. /\ fence' = [fence EXCEPT ![d] = IF air[d].fence = None THEN fence[d] ELSE air[d].fence]
        /\ air[d] # Silence
    BY <1>4 DEF Receive, E!Receive
  <2>2. fence'[c] = fence[c] \/ (d = c /\ fence'[c] = air[c].fence /\ InTheAir(c))
    BY <1>1, <2>1 DEF InTheAir
  <2>3. QED
    BY <1>2, <2>2 DEF FencesInv, HeardIsNewer
<1>5. resets' # resets + 1
  OBVIOUS
<1>6. QED
  BY <1>3, <1>4, <1>5, FenceChanges

(* A collar never goes back to an older fence, in no coordinate, until a   *)
(* collar is reset: across lost packets, halves that are overtaken while   *)
(* they are stored or copied, redelivered orders and gateways that         *)
(* restart. The age of a coordinate is read off its value, hence orders    *)
(* that ascend; and with one topic for fences, as NotOlder explains.       *)
THEOREM FencesAdvance ==
    ASSUME OrdersAscend, OneFenceTopic
    PROVE  Spec => FenceAdvances
<1> DEFINE Inv == FencesInv /\ resets \in Nat
<1>1. Init => Inv
  BY FencesStart DEF Init, E!EdgeInit
<1>2. Inv /\ [Next]_vars => Inv'
  BY FencesStep, FenceChanges
<1>3. Inv /\ [Next]_vars => (resets' = resets =>
          \A c \in Collars : NotOlder(fence'[c], fence[c]))
  BY NotOlderFences
<1>4. QED
  BY <1>1, <1>2, <1>3, PTL DEF Spec, FenceAdvances

-----------------------------------------------------------------------------
(* The stages from a heartbeat's reading to its publication, a packet the  *)
(* LoRa task has not read yet, and the stages of a collar that has counted *)
(* a wake and not sent its heartbeat.                                      *)
Answering == {"delay", "format", "send", "reset", "publish", "await"}
Unread == (lora = "waiting" /\ notified) \/ lora = "read"
Awake == {"console", "evaluate", "radio"}

(* The types of what carries wake counts.                                  *)
WakeTypes ==
    /\ wakeCount \in [Collars -> Nat] /\ published \in [Collars -> Nat]
    /\ kept \subseteq Heartbeats
    /\ \E stages : pc \in [Collars -> stages]
    /\ resets \in Nat
    /\ lora \in Answering => rx \in Heartbeats

(* The wakes of a collar that are with the broker or still with the        *)
(* client, and that they are all older than n.                             *)
Handed(c) == {published[c]} \cup { h.wake : h \in { k \in kept : k.from = c } }

Behind(c, n) == \A m \in Handed(c) : m < n

(* The heartbeat p was sent in this wake of its collar or before it.       *)
Sent(p) ==
    /\ p.wake <= wakeCount[p.from]
    /\ pc[p.from] \in Awake => p.wake < wakeCount[p.from]

(* A collar that is about to send has published nothing of this wake; what *)
(* the gateway has read, or was woken to read, is newer than what it       *)
(* published of the same collar.                                           *)
WakesInOrder ==
    /\ \A c \in Collars :
          /\ wakeCount[c] <= MaxWakes /\ \A m \in Handed(c) : m <= wakeCount[c]
          /\ pc[c] \in Awake => Behind(c, wakeCount[c])
    /\ fifo \in Heartbeats => Sent(fifo)
    /\ rx \in Heartbeats => Sent(rx)
    /\ lora \in Answering => Behind(rx.from, rx.wake)
    /\ Unread /\ fifo \in Heartbeats => Behind(fifo.from, fifo.wake)

(* The inductive invariant of the second part: without resets, since a     *)
(* reset starts the count again.                                           *)
WakesInv == WakeTypes /\ (resets = 0 => WakesInOrder)

(* Nothing was sent or published yet.                                      *)
LEMMA WakesStart == Init => WakesInv
<1> SUFFICES ASSUME Init
             PROVE  WakesInv
  OBVIOUS
<1>1. /\ wakeCount = [c \in Collars |-> 0] /\ pc = [c \in Collars |-> "off"] /\ resets = 0
      /\ lora = "waiting" /\ notified = FALSE /\ fifo = None /\ rx = None
      /\ published = [c \in Collars |-> 0] /\ kept = {}
  BY DEF Init, E!EdgeInit, G!GatewayInit
<1>2. WakeTypes
  <2>1. pc \in [Collars -> {"off"}]
    BY <1>1
  <2>2. QED
    BY <1>1, <2>1 DEF WakeTypes, Answering
<1>3. WakesInOrder
  <2>1. \A c \in Collars : Handed(c) = {0}
    BY <1>1 DEF Handed
  <2>2. QED
    BY <1>1, <2>1, GeofenceAssumption DEF WakesInOrder, Answering, Unread, Awake
<1>4. QED
  BY <1>2, <1>3 DEF WakesInv

(* A step that counts no wake, reads nothing and hands nothing to the      *)
(* client.                                                                 *)
LEMMA WakesShrink ==
    ASSUME WakesInv, UNCHANGED <<wakeCount, resets, fifo, rx>>,
           published' \in [Collars -> Nat], kept' \subseteq Heartbeats,
           \A c \in Collars : Handed(c)' \subseteq Handed(c),
           \E stages : pc' \in [Collars -> stages],
           \A c \in Collars : pc'[c] \in Awake => pc[c] \in Awake,
           lora' \in Answering => lora \in Answering, Unread' => Unread
    PROVE  WakesInv'
<1>1. WakeTypes'
  BY DEF WakesInv, WakeTypes
<1>2. resets = 0 => WakesInOrder'
  <2> SUFFICES ASSUME resets = 0
               PROVE  WakesInOrder'
    OBVIOUS
  <2>1. WakesInOrder
    BY DEF WakesInv
  <2>2. ASSUME NEW p \in Heartbeats, Sent(p)
        PROVE  Sent(p)'
    <3>1. p.from \in Collars
      BY <2>2 DEF Heartbeats
    <3>2. QED
      BY <2>2, <3>1 DEF Sent
  <2>3. /\ fifo \in Heartbeats => Sent(fifo)'
        /\ rx \in Heartbeats => Sent(rx)'
    BY <2>1, <2>2 DEF WakesInOrder
  <2>4. \A c \in Collars :
          /\ wakeCount[c] <= MaxWakes /\ \A m \in Handed(c)' : m <= wakeCount[c]
          /\ pc'[c] \in Awake => \A m \in Handed(c)' : m < wakeCount[c]
    BY <2>1 DEF WakesInOrder, Behind
  <2>5. lora' \in Answering => \A m \in Handed(rx.from)' : m < rx.wake
    <3>1. lora' \in Answering => rx.from \in Collars
      BY DEF Heartbeats, WakesInv, WakeTypes
    <3>2. QED
      BY <2>1, <3>1 DEF WakesInOrder, Behind
  <2>6. Unread' /\ fifo \in Heartbeats => \A m \in Handed(fifo.from)' : m < fifo.wake
    <3>1. fifo \in Heartbeats => fifo.from \in Collars
      BY DEF Heartbeats
    <3>2. QED
      BY <2>1, <3>1 DEF WakesInOrder, Behind
  <2>7. (lora \in Answering => Behind(rx.from, rx.wake))'
    BY <2>5 DEF Behind, Handed
  <2>8. (Unread /\ fifo \in Heartbeats => Behind(fifo.from, fifo.wake))'
    BY <2>6 DEF Behind, Handed
  <2>9. (\A c \in Collars :
          /\ wakeCount[c] <= MaxWakes /\ \A m \in Handed(c) : m <= wakeCount[c]
          /\ pc[c] \in Awake => Behind(c, wakeCount[c]))'
    BY <2>4 DEF Behind
  <2>10. QED
    BY <2>3, <2>7, <2>8, <2>9 DEF WakesInOrder
<1>3. QED
  BY <1>1, <1>2 DEF WakesInv

(* A step that counts no wake, publishes nothing and reads nothing.        *)
LEMMA WakesStay ==
    ASSUME WakesInv, UNCHANGED <<wakeCount, published, kept, resets, fifo, rx>>,
           \E stages : pc' \in [Collars -> stages],
           \A c \in Collars : pc'[c] \in Awake => pc[c] \in Awake,
           lora' \in Answering => lora \in Answering, Unread' => Unread
    PROVE  WakesInv'
<1>1. \A c \in Collars : Handed(c)' \subseteq Handed(c)
  BY DEF Handed
<1>2. published' \in [Collars -> Nat] /\ kept' \subseteq Heartbeats
  BY DEF WakesInv, WakeTypes
<1>3. QED
  BY <1>1, <1>2, WakesShrink

(* The steps of a collar that neither count a wake nor send.               *)
LEMMA CollarStepsStay ==
    ASSUME WakesInv, NEW c \in Collars,
           CollarStep(c) \/ UseConsole(c) \/ WindowCloses(c) \/ Receive(c)
    PROVE  WakesInv'
<1>1. UNCHANGED <<wakeCount, published, kept, resets, fifo, rx, lora, notified>>
  BY DEF CollarStep, UseConsole, WindowCloses, Receive, gatewayVars, envVars,
     uplink, E!LeaveConsole, E!Evaluate, E!RadioFails, E!Settle, E!Operate, E!PressArrow, E!PressFast,
     E!Confirm, E!WindowCloses, E!Receive
<1>2. \E to : pc' = [pc EXCEPT ![c] = to] /\ (to \in Awake => pc[c] \in Awake)
  <2>1. CASE E!PressArrow(c) \/ E!PressFast(c)
    <3>1. pc' = [pc EXCEPT ![c] = pc[c]]
      BY <2>1 DEF WakesInv, WakeTypes, E!PressArrow, E!PressFast
    <3>2. QED
      BY <3>1
  <2>2. CASE E!LeaveConsole(c) \/ E!Confirm(c) \/ E!Evaluate(c)
    BY <2>2 DEF Awake, E!LeaveConsole, E!Confirm, E!Evaluate, E!Goto
  <2>3. CASE E!RadioFails(c) \/ E!Settle(c) \/ E!WindowCloses(c) \/ E!Receive(c, air[c])
    <3>1. \E to \in {"sleep", "settle"} : pc' = [pc EXCEPT ![c] = to]
      BY <2>3 DEF E!RadioFails, E!Settle, E!WindowCloses, E!Receive, E!Goto
    <3>2. QED
      BY <3>1 DEF Awake
  <2>4. QED
    BY <2>1, <2>2, <2>3 DEF CollarStep, UseConsole, WindowCloses, Receive, E!Operate
<1>3. \E stages : pc' \in [Collars -> stages]
  <2>1. PICK stages, to : pc \in [Collars -> stages] /\ pc' = [pc EXCEPT ![c] = to]
    BY <1>2 DEF WakesInv, WakeTypes
  <2>2. pc' \in [Collars -> stages \cup {to}]
    BY <2>1
  <2>3. QED
    BY <2>2
<1>4. \A d \in Collars : pc'[d] \in Awake => pc[d] \in Awake
  BY <1>2 DEF WakesInv, WakeTypes
<1>5. QED
  BY <1>1, <1>3, <1>4, WakesStay DEF Unread

(* WakesStay for the steps that leave the collars alone.                   *)
LEMMA PlacesStay ==
    ASSUME WakesInv, UNCHANGED <<wakeCount, pc, published, kept, resets, fifo, rx>>,
           lora' \in Answering => lora \in Answering, Unread' => Unread
    PROVE  WakesInv'
BY WakesStay DEF WakesInv, WakeTypes

(* The steps of the gateway and the broker that neither read nor publish.  *)
LEMMA GatewayStepsStay ==
    ASSUME WakesInv,
           \/ DriverFails \/ HandlerStep \/ Deliver \/ Connect \/ Disconnect \/ SwitchWifi
           \/ GatewayStep /\ ~G!ReadHeartbeat
           \/ \E t \in Topics : Order(t)
    PROVE  WakesInv'
<1>1. UNCHANGED <<wakeCount, pc, published, kept, resets>>
  BY DEF DriverFails, HandlerStep, Deliver, Connect, Disconnect, SwitchWifi, GatewayStep, Order,
     collarVars, envVars, uplink
<1>2. CASE DriverFails
  BY <1>1, <1>2, PlacesStay DEF DriverFails, G!SendFails, G!RearmFails, G!Step, G!TransmitFails,
     G!radioVars, Answering, Unread
<1>3. CASE HandlerStep \/ Deliver \/ Connect \/ Disconnect \/ SwitchWifi \/ \E t \in Topics : Order(t)
  <2>1. UNCHANGED <<lora, notified, rx, fifo>>
    BY <1>3 DEF HandlerStep, Deliver, Connect, Disconnect, SwitchWifi, Order, gatewayVars,
       G!MqttTask, G!StoreSecondHalf, G!RaiseFlag, G!StoreFirstHalf, G!SetConnected, G!SetWifi,
       G!loraVars, G!radioVars
  <2>2. QED
    BY <1>1, <2>1, PlacesStay DEF Unread
<1>4. CASE GatewayStep /\ ~G!ReadHeartbeat
  <2>1. UNCHANGED <<rx, fifo>> /\ (lora' \in Answering => lora \in Answering) /\ (Unread' => Unread)
    <3>1. CASE G!TaskWakes \/ G!ReadOther \/ G!SampleFlags \/ G!CopyPart
      BY <3>1 DEF G!TaskWakes, G!ReadOther, G!SampleFlags, G!CopyPart, G!Step, G!radioVars,
         Answering, Unread
    <3>2. CASE G!ResetFlags \/ G!SkipPublish \/ G!AwaitBroker \/ G!DropHeartbeat
      BY <3>2 DEF G!ResetFlags, G!SkipPublish, G!AwaitBroker, G!DropHeartbeat, G!Step, G!radioVars,
         Answering, Unread
    <3>3. CASE G!Rearm \/ G!Drain
      BY <3>3 DEF G!Rearm, G!Drain, G!Step, G!StartReceive, Answering, Unread
    <3>4. QED
      BY <1>4, <3>1, <3>2, <3>3 DEF GatewayStep
  <2>2. QED
    BY <1>1, <2>1, PlacesStay
<1>5. QED
  BY <1>2, <1>3, <1>4

(* What the client sends again it has had before.                          *)
LEMMA OutboxShrinks ==
    ASSUME WakesInv, OutboxStep
    PROVE  WakesInv'
<1>1. UNCHANGED <<wakeCount, pc, resets, fifo, rx, lora, notified>>
  BY DEF OutboxStep, Resend, Forget, collarVars, gatewayVars
<1>2. PICK h \in kept : /\ kept' = kept \/ kept' = kept \ {h}
                        /\ ReachesBroker(h) \/ UNCHANGED published
  BY DEF OutboxStep, Resend, Forget
<1>3. /\ published \in [Collars -> Nat] /\ kept \subseteq Heartbeats
      /\ h.from \in Collars /\ h.wake \in Nat
  BY GeofenceAssumption DEF WakesInv, WakeTypes, Heartbeats
<1>4. \A c \in Collars : published'[c] = published[c] \/ (c = h.from /\ published'[c] = h.wake)
  BY <1>2, <1>3 DEF ReachesBroker
<1>5. published' \in [Collars -> Nat] /\ kept' \subseteq kept
  BY <1>2, <1>3 DEF ReachesBroker
<1>6. ASSUME NEW c \in Collars
      PROVE  Handed(c)' \subseteq Handed(c)
  <2>1. published'[c] \in Handed(c)
    BY <1>4 DEF Handed
  <2>2. QED
    BY <1>5, <2>1 DEF Handed
<1>7. QED
  BY <1>1, <1>3, <1>5, <1>6, WakesShrink DEF WakesInv, WakeTypes, Unread

(* The wakes of heartbeats are numbers.                                    *)
LEMMA HandedTypes ==
    ASSUME WakeTypes, NEW c \in Collars
    PROVE  Handed(c) \subseteq Nat
BY GeofenceAssumption DEF WakeTypes, Handed, Heartbeats

(* A wake is counted: with fewer wakes than the counter holds it is a new  *)
(* one.                                                                    *)
LEMMA WakeCounts ==
    ASSUME MaxWakes < WakeModulus, WakesInv, NEW c \in Collars, Wake(c)
    PROVE  WakesInv'
<1>1. /\ UNCHANGED <<published, kept, resets, fifo, rx, lora, notified>>
      /\ wakeCount[c] < MaxWakes /\ pc[c] \notin Awake
      /\ wakeCount' = [wakeCount EXCEPT ![c] = (@ + 1) % WakeModulus]
      /\ pc' = [pc EXCEPT ![c] = "console"]
  BY DEF Wake, gatewayVars, envVars, uplink, E!Wake, Awake
<1>2. wakeCount \in [Collars -> Nat] /\ wakeCount[c] \in Nat
  BY DEF WakesInv, WakeTypes
<1>3. (wakeCount[c] + 1) % WakeModulus = wakeCount[c] + 1
  <2>1. wakeCount[c] + 1 \in 0 .. WakeModulus - 1 /\ WakeModulus \in Nat \ {0}
    BY <1>1, <1>2, GeofenceAssumption
  <2>2. QED
    BY <2>1
<1>4. wakeCount' = [wakeCount EXCEPT ![c] = wakeCount[c] + 1]
  BY <1>1, <1>3
<1>5. PICK stages : pc \in [Collars -> stages]
  BY DEF WakesInv, WakeTypes
<1>6. /\ \A d \in Collars : wakeCount[d] <= wakeCount'[d]
      /\ \A d \in Collars : IF d = c THEN wakeCount[d] < wakeCount'[d] /\ wakeCount'[d] <= MaxWakes
                                     ELSE wakeCount'[d] = wakeCount[d] /\ pc'[d] = pc[d]
  BY <1>1, <1>2, <1>4, <1>5, GeofenceAssumption
<1>7. WakeTypes'
  <2>1. pc' \in [Collars -> stages \cup {"console"}]
    BY <1>1, <1>5
  <2>2. wakeCount' \in [Collars -> Nat]
    BY <1>2, <1>4
  <2>3. QED
    BY <1>1, <2>1, <2>2 DEF WakesInv, WakeTypes
<1>8. ASSUME WakesInOrder
      PROVE  WakesInOrder'
  <2>1. ASSUME NEW p \in Heartbeats, Sent(p)
        PROVE  Sent(p)'
    <3>1. p.from \in Collars /\ p.wake \in Nat
      BY GeofenceAssumption DEF Heartbeats
    <3>2. wakeCount[p.from] \in Nat /\ wakeCount'[p.from] \in Nat
      BY <1>7, <3>1 DEF WakesInv, WakeTypes
    <3>3. QED
      BY <1>6, <2>1, <3>1, <3>2 DEF Sent
  <2>2. /\ fifo \in Heartbeats => Sent(fifo)'
        /\ rx \in Heartbeats => Sent(rx)'
    BY <1>1, <1>8, <2>1 DEF WakesInOrder, Sent
  <2>3. ASSUME NEW d \in Collars
        PROVE  /\ wakeCount'[d] <= MaxWakes /\ \A m \in Handed(d) : m <= wakeCount'[d]
               /\ pc'[d] \in Awake => \A m \in Handed(d) : m < wakeCount'[d]
    <3>1. Handed(d) \subseteq Nat /\ wakeCount[d] \in Nat /\ wakeCount'[d] \in Nat
      BY <1>7, HandedTypes DEF WakesInv, WakeTypes
    <3>2. \A m \in Handed(d) : m \in Nat /\ m <= wakeCount[d]
      BY <1>8, <3>1 DEF WakesInOrder
    <3>3. wakeCount'[d] <= MaxWakes
      BY <1>6, <1>8, <3>1 DEF WakesInOrder
    <3>4. \A m \in Handed(d) : m <= wakeCount'[d]
      BY <1>6, <3>1, <3>2
    <3>5. pc'[d] \in Awake => \A m \in Handed(d) : m < wakeCount'[d]
      <4>1. CASE d = c
        BY <1>6, <3>1, <3>2, <4>1
      <4>2. CASE d # c
        BY <1>6, <1>8, <4>2 DEF WakesInOrder, Behind
      <4>3. QED
        BY <4>1, <4>2
    <3>6. QED
      BY <3>3, <3>4, <3>5
  <2>4. \A d : Handed(d)' = Handed(d)
    BY <1>1 DEF Handed
  <2>5. (\A d \in Collars :
          /\ wakeCount[d] <= MaxWakes /\ \A m \in Handed(d) : m <= wakeCount[d]
          /\ pc[d] \in Awake => Behind(d, wakeCount[d]))'
    BY <2>3, <2>4 DEF Behind
  <2>6. /\ (lora \in Answering => Behind(rx.from, rx.wake))'
        /\ (Unread /\ fifo \in Heartbeats => Behind(fifo.from, fifo.wake))'
    BY <1>1, <1>8 DEF WakesInOrder, Unread, Behind, Handed
  <2>7. QED
    BY <1>1, <2>2, <2>5, <2>6 DEF WakesInOrder
<1>9. QED
  BY <1>1, <1>7, <1>8 DEF WakesInv

(* After a reset nothing is promised.                                      *)
LEMMA ResetEnds ==
    ASSUME WakesInv, NEW c \in Collars, ResetCollar(c)
    PROVE  WakesInv'
<1>1. /\ UNCHANGED <<published, kept, lora, rx>> /\ resets' = resets + 1
      /\ wakeCount' = [wakeCount EXCEPT ![c] = 0] /\ pc' = [pc EXCEPT ![c] = "off"]
  BY DEF ResetCollar, gatewayVars, uplink, E!Reset
<1>2. PICK stages : pc \in [Collars -> stages]
  BY DEF WakesInv, WakeTypes
<1>3. pc' \in [Collars -> stages \cup {"off"}]
  BY <1>1, <1>2
<1>4. resets \in Nat /\ wakeCount \in [Collars -> Nat]
  BY DEF WakesInv, WakeTypes
<1>5. resets' \in Nat /\ resets' # 0 /\ wakeCount' \in [Collars -> Nat]
  BY <1>1, <1>4
<1>6. QED
  BY <1>1, <1>3, <1>5 DEF WakesInv, WakeTypes

(* A heartbeat is newer than whatever was published of its collar.         *)
LEMMA HeartbeatIsNew ==
    ASSUME WakesInv, NEW c \in Collars, SendHeartbeat(c)
    PROVE  WakesInv'
<1>1. /\ UNCHANGED <<wakeCount, published, kept, resets, lora, rx>>
      /\ pc[c] = "radio" /\ pc' = [pc EXCEPT ![c] = "listen"]
      /\ \/ fifo' = E!Heartbeat(c) /\ (Unread' => Unread \/ lora = "waiting")
         \/ UNCHANGED <<fifo, notified>>
  BY DEF SendHeartbeat, E!Transmit, E!Goto, G!PacketArrives, G!loraVars, gatewayVars, uplink, Unread
<1>2. PICK stages : pc \in [Collars -> stages]
  BY DEF WakesInv, WakeTypes
<1>3. pc' \in [Collars -> stages \cup {"listen"}]
  BY <1>1, <1>2
<1>4. WakeTypes'
  BY <1>1, <1>3 DEF WakesInv, WakeTypes
<1>5. \A d \in Collars : pc'[d] \in Awake => pc[d] \in Awake /\ d # c
  BY <1>1, <1>2 DEF Awake
<1>6. ASSUME WakesInOrder
      PROVE  WakesInOrder'
  <2>1. ASSUME NEW p \in Heartbeats, Sent(p)
        PROVE  Sent(p)'
    <3>1. p.from \in Collars
      BY DEF Heartbeats
    <3>2. QED
      BY <1>1, <1>5, <2>1, <3>1 DEF Sent
  <2>2. rx \in Heartbeats => Sent(rx)'
    BY <1>1, <1>6, <2>1 DEF WakesInOrder, Sent
  <2>3. Behind(c, wakeCount[c])
    BY <1>1, <1>6 DEF WakesInv, WakeTypes, WakesInOrder, Awake
  <2>7. /\ (\A d \in Collars :
              /\ wakeCount[d] <= MaxWakes /\ \A m \in Handed(d) : m <= wakeCount[d]
              /\ pc[d] \in Awake => Behind(d, wakeCount[d]))'
        /\ (lora \in Answering => Behind(rx.from, rx.wake))'
    BY <1>1, <1>5, <1>6 DEF WakesInOrder, Behind, Handed
  <2>4. CASE fifo' = E!Heartbeat(c)
    <3>1. fifo'.wake = wakeCount[c] /\ fifo'.from = c /\ pc'[c] \notin Awake
      BY <2>4, <1>1, <1>2 DEF E!Heartbeat, Awake
    <3>2. wakeCount[c] \in Nat
      BY DEF WakesInv, WakeTypes
    <3>3. (fifo \in Heartbeats => Sent(fifo))' /\ Behind(fifo.from, fifo.wake)'
      BY <1>1, <2>3, <3>1, <3>2 DEF Sent, Behind, Handed
    <3>4. QED
      BY <1>1, <2>2, <2>7, <3>3 DEF WakesInOrder
  <2>5. CASE UNCHANGED <<fifo, notified>>
    <3>1. fifo \in Heartbeats => Sent(fifo)'
      BY <1>1, <1>6, <2>1, <2>5 DEF WakesInOrder, Sent
    <3>2. QED
      <4>1. (Unread /\ fifo \in Heartbeats => Behind(fifo.from, fifo.wake))'
        BY <1>1, <1>6, <2>5 DEF WakesInOrder, Unread, Behind, Handed
      <4>2. QED
        BY <1>1, <2>2, <2>5, <2>7, <3>1, <4>1 DEF WakesInOrder
  <2>6. QED
    BY <1>1, <2>4, <2>5
<1>7. QED
  BY <1>1, <1>4, <1>6 DEF WakesInv

(* What the gateway reads it has not read before: it is woken by packets.  *)
LEMMA ReadIsUnread ==
    ASSUME WakesInv, GatewayStep, G!ReadHeartbeat
    PROVE  WakesInv'
<1>1. /\ UNCHANGED <<wakeCount, pc, published, kept, resets, fifo>>
      /\ fifo \in Heartbeats /\ rx' = fifo /\ lora = "read" /\ lora' = "delay"
  BY DEF GatewayStep, collarVars, envVars, uplink, G!ReadHeartbeat, G!Step
<1>2. WakeTypes'
  BY <1>1 DEF WakesInv, WakeTypes
<1>3. ASSUME WakesInOrder
      PROVE  WakesInOrder'
  <2>1. Sent(fifo) /\ Behind(fifo.from, fifo.wake)
    BY <1>1, <1>3 DEF WakesInOrder, Unread
  <2>2. Sent(fifo)' /\ Sent(rx)' /\ Behind(rx.from, rx.wake)'
    BY <1>1, <2>1 DEF Sent, Behind, Handed
  <2>3. (\A d \in Collars :
          /\ wakeCount[d] <= MaxWakes /\ \A m \in Handed(d) : m <= wakeCount[d]
          /\ pc[d] \in Awake => Behind(d, wakeCount[d]))'
    BY <1>1, <1>3 DEF WakesInOrder, Behind, Handed
  <2>4. QED
    BY <1>1, <2>2, <2>3 DEF WakesInOrder, Unread, Answering
<1>4. QED
  BY <1>1, <1>2, <1>3 DEF WakesInv

(* What is published is the latest of its collar, and the collar sent it.  *)
LEMMA PublishIsLatest ==
    ASSUME WakesInv, Publish
    PROVE  WakesInv'
<1>1. /\ UNCHANGED <<wakeCount, pc, resets, fifo, rx>>
      /\ lora = "await" /\ lora' = "rearm" /\ rx \in Heartbeats
  BY DEF Publish, collarVars, G!PublishHeartbeat, G!Step, G!radioVars, WakesInv, WakeTypes, Answering
<1>2. /\ published' = published \/ ReachesBroker(rx)
      /\ kept' = kept \/ kept' = kept \cup {rx}
  BY DEF Publish, Keep, uplink
<1>3. /\ rx.from \in Collars /\ rx.wake \in Nat
      /\ published \in [Collars -> Nat] /\ kept \subseteq Heartbeats
  BY <1>1, GeofenceAssumption DEF Heartbeats, WakesInv, WakeTypes
<1>4. published' \in [Collars -> Nat] /\ kept' \subseteq Heartbeats
  BY <1>1, <1>2, <1>3 DEF ReachesBroker
<1>5. WakeTypes'
  BY <1>1, <1>4 DEF WakesInv, WakeTypes, Answering
<1>6. ASSUME NEW c \in Collars, NEW m \in Handed(c)'
      PROVE  m \in Handed(c) \/ (c = rx.from /\ m = rx.wake)
  <2>1. published'[c] \in Handed(c) \/ (c = rx.from /\ published'[c] = rx.wake)
    BY <1>2, <1>3 DEF ReachesBroker, Handed
  <2>2. \A h \in kept' : h \in kept \/ h = rx
    BY <1>2
  <2>3. QED
    BY <2>1, <2>2 DEF Handed
<1>7. ASSUME WakesInOrder
      PROVE  WakesInOrder'
  <2>1. Sent(rx)
    BY <1>1, <1>7 DEF WakesInOrder
  <2>2. (\A c \in Collars :
          /\ wakeCount[c] <= MaxWakes /\ \A m \in Handed(c) : m <= wakeCount[c]
          /\ pc[c] \in Awake => Behind(c, wakeCount[c]))'
    BY <1>1, <1>6, <1>7, <2>1 DEF WakesInOrder, Sent, Behind
  <2>3. (fifo \in Heartbeats => Sent(fifo))' /\ (rx \in Heartbeats => Sent(rx))'
    BY <1>1, <1>7 DEF WakesInOrder, Sent
  <2>4. QED
    BY <1>1, <2>2, <2>3 DEF WakesInOrder, Unread, Answering
<1>8. QED
  BY <1>1, <1>5, <1>7 DEF WakesInv

(* The gateway's own packet in the FIFO is no heartbeat.                   *)
LEMMA DownlinkStays ==
    ASSUME WakesInv, SendDownlink
    PROVE  WakesInv'
<1>1. /\ UNCHANGED <<wakeCount, pc, resets, published, kept, rx>>
      /\ fifo' = Echo /\ lora = "send" /\ lora' = "reset" /\ Echo \notin Heartbeats
  BY GeofenceAssumption DEF SendDownlink, collarVars, uplink, G!SendDownlink, G!Step, G!Transmitted
<1>2. WakeTypes'
  BY <1>1 DEF WakesInv, WakeTypes, Answering
<1>3. WakesInOrder => WakesInOrder'
  BY <1>1 DEF WakesInOrder, Sent, Unread, Answering, Behind, Handed
<1>4. QED
  BY <1>1, <1>2, <1>3 DEF WakesInv

(* A restarted gateway has read nothing and keeps nothing to send again.   *)
LEMMA RestartForgets ==
    ASSUME WakesInv, RestartGateway
    PROVE  WakesInv'
<1>1. /\ UNCHANGED <<wakeCount, pc, resets, published>> /\ kept' = {}
      /\ fifo' = None /\ rx' = None /\ lora' = "waiting" /\ notified' = FALSE
      /\ None \notin Heartbeats
  BY GeofenceAssumption DEF RestartGateway, collarVars
<1>2. WakeTypes'
  BY <1>1 DEF WakesInv, WakeTypes, Answering
<1>3. WakesInOrder => WakesInOrder'
  <2>1. \A c : Handed(c)' \subseteq Handed(c)
    BY <1>1 DEF Handed
  <2>2. QED
    BY <1>1, <2>1 DEF WakesInOrder, Sent, Unread, Answering, Behind
<1>4. QED
  BY <1>1, <1>2, <1>3 DEF WakesInv

(* Every step preserves the invariant of the second part.                  *)
LEMMA WakesStep ==
    ASSUME MaxWakes < WakeModulus, WakesInv, [Next]_vars
    PROVE  WakesInv'
<1>1. CASE UNCHANGED vars
  <2>1. UNCHANGED <<wakeCount, pc, published, kept, resets, fifo, rx, lora, notified>>
    BY <1>1 DEF vars, collarVars, gatewayVars, envVars, uplink
  <2>2. QED
    BY <2>1, PlacesStay DEF Unread
<1>2. ASSUME NEW c \in Collars, CollarNext(c)
      PROVE  WakesInv'
  BY <1>2, WakeCounts, CollarStepsStay, ResetEnds, HeartbeatIsNew DEF CollarNext
<1>3. CASE GatewayNext
  <2>1. CASE GatewayStep
    BY <2>1, GatewayStepsStay, ReadIsUnread
  <2>2. QED
    BY <1>3, <2>1, GatewayStepsStay, DownlinkStays, PublishIsLatest DEF GatewayNext
<1>4. QED
  BY <1>1, <1>2, <1>3, GatewayStepsStay, OutboxShrinks, RestartForgets DEF Next

(* The gateway hands the heartbeats of a collar to its MQTT client in the  *)
(* order they were sent and none twice: each is newer than what the broker *)
(* got last and than all the client may still send again, up to the first  *)
(* reset of a collar. The wake counter must not wrap around; its 32 bits   *)
(* outlast the battery.                                                    *)
THEOREM HeartbeatsInOrder ==
    ASSUME MaxWakes < WakeModulus
    PROVE  Spec => PublishedInOrder
<1>1. Init => WakesInv
  BY WakesStart
<1>2. WakesInv /\ [Next]_vars => WakesInv'
  BY WakesStep
<1>3. WakesInv => (resets = 0 /\ G!PublishHeartbeat =>
          /\ rx.wake > published[rx.from]
          /\ \A h \in kept : h.from = rx.from => rx.wake > h.wake)
  <2> SUFFICES ASSUME WakesInv, resets = 0, G!PublishHeartbeat
               PROVE  /\ rx.wake > published[rx.from]
                      /\ \A h \in kept : h.from = rx.from => rx.wake > h.wake
    OBVIOUS
  <2>1. lora = "await"
    BY DEF G!PublishHeartbeat, G!Step
  <2>2. rx.from \in Collars /\ rx.wake \in Nat
    BY <2>1, GeofenceAssumption DEF Heartbeats, WakesInv, WakeTypes, Answering
  <2>3. \A m \in Handed(rx.from) : m \in Nat /\ m < rx.wake
    BY <2>1, <2>2, HandedTypes DEF WakesInv, WakesInOrder, Answering, Behind
  <2>4. \A m \in Handed(rx.from) : rx.wake > m
    BY <2>2, <2>3
  <2>5. QED
    BY <2>4 DEF Handed
<1>4. QED
  BY <1>1, <1>2, <1>3, PTL DEF Spec, PublishedInOrder

===============================================================================
