-------------------------------- MODULE Edge --------------------------------
(***************************************************************************)
(* The collar firmware, proyecto-final/edge-module/main.  A collar runs    *)
(* app_main once per wake-up and ends it in deep sleep:                    *)
(*                                                                         *)
(*   sleep -> console -> evaluate -> radio -> listen -> settle -> sleep    *)
(*                                                                         *)
(* What survives deep sleep are the RTC_DATA_ATTR variables of             *)
(* rtc_state.cpp; any other reset (power loss, brownout, panic) loads      *)
(* their initialisers again.  Coordinates are integers: the 1e-6 degree    *)
(* grid that every message of the system carries them on ("%.6f").         *)
(***************************************************************************)
EXTENDS Integers

CONSTANTS
    Collars,        \* the collars
    Coord,          \* the coordinates of the map, bounds the console
    StepNormal,     \* STEP_NORMAL and STEP_FAST, the two console strides
    StepFast,
    DefaultPos,     \* the initialisers of current_lat and current_lon
    DefaultFence,   \* the initialisers of fence_min_lat ... fence_max_lon
    GpsTargets,     \* positions a downlink may carry
    FenceTargets,   \* fences a downlink may carry
    None,           \* no such part in the downlink
    WakeModulus,    \* the width of wake_count: 2^32 in the code
    MaxResets       \* bound on resets other than deep sleep

Position == [lat: Coord, lon: Coord]
Fence    == [minLat: Coord, maxLat: Coord, minLon: Coord, maxLon: Coord]

(* What lora_wait_for_downlink can take from a packet: each part is usable *)
(* only when all its numbers are there, otherwise it counts as None.       *)
Downlink == [gps: GpsTargets \cup {None}, fence: FenceTargets \cup {None}]

ASSUME EdgeAssumption ==
    /\ Coord \subseteq Int
    /\ StepNormal \in Int /\ StepFast \in Int
    /\ DefaultPos \in Position /\ DefaultFence \in Fence
    /\ GpsTargets \subseteq Position /\ FenceTargets \subseteq Fence
    /\ None \notin Position /\ None \notin Fence
    /\ WakeModulus \in Nat \ {0}
    /\ MaxResets \in Nat

VARIABLES
    pos, fence,     \* RTC memory: current_lat/lon and the bounding box
    wakeCount,      \* RTC memory: wake_count
    lastInside,     \* RTC memory: last_inside
    pc,             \* where app_main is, per collar
    console,        \* locals of console_update_position, None outside it
    inside,         \* app_main's local: the status the heartbeat reports
    resets          \* how many resets there have been, for the bound

edgeVars ==
    <<pos, fence, wakeCount, lastInside, pc, console, inside, resets>>

ConsoleState == [at: Position, stride: {StepNormal, StepFast}]

Stages == {"off", "sleep", "console", "evaluate", "radio", "listen", "settle"}

(* geofence_is_inside: both ends included; no point is inside a box whose  *)
(* minimum exceeds its maximum.                                            *)
Inside(p, f) ==
    /\ f.minLat <= p.lat /\ p.lat <= f.maxLat
    /\ f.minLon <= p.lon /\ p.lon <= f.maxLon

Goto(c, from, to) ==
    /\ pc[c] = from
    /\ pc' = [pc EXCEPT ![c] = to]

EdgeInit ==
    /\ pos = [c \in Collars |-> DefaultPos]
    /\ fence = [c \in Collars |-> DefaultFence]
    /\ wakeCount = [c \in Collars |-> 0]
    /\ lastInside = [c \in Collars |-> TRUE]
    /\ pc = [c \in Collars |-> "off"]
    /\ console = [c \in Collars |-> None]
    /\ inside = [c \in Collars |-> FALSE]
    /\ resets = 0

-----------------------------------------------------------------------------
(* Variants with a plausible bug, to test the properties against; none is  *)
(* a part of the specification.                                            *)

(* The fence is an ordinary variable: a wake-up loads its initialiser.     *)
Wake_ForgetsFence(c) ==
    /\ pc[c] \in {"off", "sleep"}
    /\ pc' = [pc EXCEPT ![c] = "console"]
    /\ fence' = [fence EXCEPT ![c] = DefaultFence]
    /\ wakeCount' = [wakeCount EXCEPT ![c] = (@ + 1) % WakeModulus]
    /\ console' = [console EXCEPT ![c] = [at |-> pos[c], stride |-> StepNormal]]
    /\ UNCHANGED <<pos, lastInside, inside, resets>>

(* The console's time-out starts again with every key that moves.          *)
LeaveConsole_Restarting(c) ==
    /\ Goto(c, "console", "evaluate")
    /\ console[c].at = pos[c]
    /\ console' = [console EXCEPT ![c] = None]
    /\ UNCHANGED <<pos, fence, wakeCount, lastInside, inside, resets>>

(* The stored status is reported as long as nothing new was received.      *)
Evaluate_Cached(c) ==
    /\ Goto(c, "evaluate", "radio")
    /\ inside' = [inside EXCEPT ![c] = lastInside[c]]
    /\ UNCHANGED <<pos, fence, wakeCount, lastInside, console, resets>>

(* A downlink without a position is taken for an empty one.                *)
Receive_PositionFirst(c, d) ==
    /\ Goto(c, "listen", "settle")
    /\ pos' = [pos EXCEPT ![c] = IF d.gps = None THEN @ ELSE d.gps]
    /\ fence' = [fence EXCEPT ![c] =
                    IF d.gps = None \/ d.fence = None THEN @ ELSE d.fence]
    /\ UNCHANGED <<wakeCount, lastInside, console, inside, resets>>

(* The status is stored again only when the collar leaves its fence.       *)
Settle_ExitsOnly(c) ==
    /\ Goto(c, "settle", "sleep")
    /\ lastInside' = [lastInside EXCEPT ![c] = @ /\ Inside(pos[c], fence[c])]
    /\ UNCHANGED <<pos, fence, wakeCount, console, inside, resets>>

-----------------------------------------------------------------------------
(* Waking up and the position console.                                     *)

(* The RTC timer, or power, starts app_main: the wake is counted and the   *)
(* console opens on the stored position with the short stride.             *)
Wake(c) ==
    /\ pc[c] \in {"off", "sleep"}
    /\ pc' = [pc EXCEPT ![c] = "console"]
    /\ wakeCount' = [wakeCount EXCEPT ![c] = (@ + 1) % WakeModulus]
    /\ console' = [console EXCEPT ![c] = [at |-> pos[c], stride |-> StepNormal]]
    /\ UNCHANGED <<pos, fence, lastInside, inside, resets>>

(* The four arrow keys: north, south, east and west by one stride.         *)
Moves(at, d) ==
    { [at EXCEPT !.lat = @ + d], [at EXCEPT !.lat = @ - d],
      [at EXCEPT !.lon = @ + d], [at EXCEPT !.lon = @ - d] }

PressArrow(c) ==
    /\ pc[c] = "console"
    /\ \E at \in Moves(console[c].at, console[c].stride) \cap Position :
          console' = [console EXCEPT ![c].at = at]
    /\ UNCHANGED <<pos, fence, wakeCount, lastInside, pc, inside, resets>>

(* F switches between the two strides.                                     *)
PressFast(c) ==
    /\ pc[c] = "console"
    /\ console' = [console EXCEPT ![c].stride =
                      IF @ > StepNormal THEN StepNormal ELSE StepFast]
    /\ UNCHANGED <<pos, fence, wakeCount, lastInside, pc, inside, resets>>

(* ENTER stores the position shown by the console.                         *)
Confirm(c) ==
    /\ Goto(c, "console", "evaluate")
    /\ pos' = [pos EXCEPT ![c] = console[c].at]
    /\ console' = [console EXCEPT ![c] = None]
    /\ UNCHANGED <<fence, wakeCount, lastInside, inside, resets>>

(* Q, or the 15 s of CONSOLE_TIMEOUT_MS, leave the stored position alone.  *)
LeaveConsole(c) ==
    /\ Goto(c, "console", "evaluate")
    /\ console' = [console EXCEPT ![c] = None]
    /\ UNCHANGED <<pos, fence, wakeCount, lastInside, inside, resets>>

-----------------------------------------------------------------------------
(* The rest of app_main.                                                   *)

(* The status is computed from the stored position and fence, and stored.  *)
Evaluate(c) ==
    /\ Goto(c, "evaluate", "radio")
    /\ LET now == Inside(pos[c], fence[c]) IN
          /\ inside' = [inside EXCEPT ![c] = now]
          /\ lastInside' = [lastInside EXCEPT ![c] = now]
    /\ UNCHANGED <<pos, fence, wakeCount, console, resets>>

(* lora_init fails: the collar sleeps without transmitting.                *)
RadioFails(c) ==
    /\ Goto(c, "radio", "sleep")
    /\ UNCHANGED <<pos, fence, wakeCount, lastInside, console, inside, resets>>

(* What lora_send_heartbeat formats.                                       *)
Heartbeat(c) ==
    [from |-> c, pos |-> pos[c], inside |-> inside[c], wake |-> wakeCount[c]]

(* The heartbeat is transmitted; a failed transmission is only logged.     *)
Transmit(c) ==
    /\ Goto(c, "radio", "listen")
    /\ UNCHANGED <<pos, fence, wakeCount, lastInside, console, inside, resets>>

(* A packet ends the receive window, whoever sent it.  Its two parts are   *)
(* taken independently of each other.                                      *)
Receive(c, d) ==
    /\ Goto(c, "listen", "settle")
    /\ pos' = [pos EXCEPT ![c] = IF d.gps = None THEN @ ELSE d.gps]
    /\ fence' = [fence EXCEPT ![c] = IF d.fence = None THEN @ ELSE d.fence]
    /\ UNCHANGED <<wakeCount, lastInside, console, inside, resets>>

(* The other returns of lora_wait_for_downlink: startReceive failed, no    *)
(* packet within RX_WAIT_TIMEOUT_MS, readData failed, not a JSON text.     *)
WindowCloses(c) ==
    /\ Goto(c, "listen", "settle")
    /\ UNCHANGED <<pos, fence, wakeCount, lastInside, console, inside, resets>>

(* The status is computed again, stored if it changed; the collar sleeps.  *)
Settle(c) ==
    /\ Goto(c, "settle", "sleep")
    /\ LET now == Inside(pos[c], fence[c]) IN
          lastInside' = [lastInside EXCEPT ![c] =
                            IF now # inside[c] THEN now ELSE @]
    /\ UNCHANGED <<pos, fence, wakeCount, console, inside, resets>>

(* Any reset that is not a wake-up from deep sleep, at any point.          *)
Reset(c) ==
    /\ resets < MaxResets
    /\ resets' = resets + 1
    /\ pos' = [pos EXCEPT ![c] = DefaultPos]
    /\ fence' = [fence EXCEPT ![c] = DefaultFence]
    /\ wakeCount' = [wakeCount EXCEPT ![c] = 0]
    /\ lastInside' = [lastInside EXCEPT ![c] = TRUE]
    /\ pc' = [pc EXCEPT ![c] = "off"]
    /\ console' = [console EXCEPT ![c] = None]
    /\ inside' = [inside EXCEPT ![c] = FALSE]

-----------------------------------------------------------------------------
Operate(c) == PressArrow(c) \/ PressFast(c) \/ Confirm(c)

(* What app_main does by itself, with nobody at the console.               *)
Run(c) ==
    \/ Wake(c) \/ LeaveConsole(c) \/ Evaluate(c)
    \/ RadioFails(c) \/ Transmit(c)
    \/ WindowCloses(c) \/ Settle(c)

EdgeNext ==
    \E c \in Collars :
        \/ Operate(c)
        \/ Run(c)
        \/ \E d \in Downlink : Receive(c, d)
        \/ Reset(c)

(* The sleep timer, the console time-out and the receive window all bound  *)
(* the time a stage may take, so app_main never stops advancing.           *)
EdgeFairness == \A c \in Collars : WF_edgeVars(Run(c))

EdgeSpec == EdgeInit /\ [][EdgeNext]_edgeVars /\ EdgeFairness

-----------------------------------------------------------------------------
EdgeTypeOK ==
    /\ pos \in [Collars -> Position]
    /\ fence \in [Collars -> Fence]
    /\ wakeCount \in [Collars -> 0 .. WakeModulus - 1]
    /\ lastInside \in [Collars -> BOOLEAN]
    /\ pc \in [Collars -> Stages]
    /\ console \in [Collars -> ConsoleState \cup {None}]
    /\ inside \in [Collars -> BOOLEAN]
    /\ resets \in 0 .. MaxResets

(* A sleeping collar remembers the status of the position and fence it     *)
(* sleeps with, also when the downlink or the console changed them after   *)
(* the status was first computed.                                          *)
SleepStatusFresh ==
    \A c \in Collars :
        pc[c] = "sleep" => lastInside[c] = Inside(pos[c], fence[c])

(* The status a heartbeat reports is that of the position it reports: no   *)
(* step between computing the one and formatting the other moves the       *)
(* collar or its fence.                                                    *)
HeartbeatTruthful ==
    \A c \in Collars :
        pc[c] \in {"radio", "listen"} => inside[c] = Inside(pos[c], fence[c])

(* The inductive invariant behind the two: the console has its locals as   *)
(* long as it is open, and from the first evaluation until it sleeps the   *)
(* collar stores the status app_main holds.                                *)
ConsoleOpen ==
    \A c \in Collars : pc[c] = "console" => console[c] \in ConsoleState

StatusStored ==
    \A c \in Collars :
        pc[c] \in {"radio", "listen", "settle"} => lastInside[c] = inside[c]

EdgeInv ==
    EdgeTypeOK /\ ConsoleOpen /\ StatusStored
        /\ HeartbeatTruthful /\ SleepStatusFresh

(* The battery budget: whatever is typed at the console and whatever is on *)
(* the air, a collar is asleep again and again.                            *)
SleepsAgain == \A c \in Collars : []<>(pc[c] = "sleep")

=============================================================================
