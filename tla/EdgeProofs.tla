----------------------------- MODULE EdgeProofs -----------------------------
(***************************************************************************)
(* Proofs about the collar firmware, for any number of collars, any map    *)
(* and any fences: EdgeInv is inductive, and it implies the properties.    *)
(***************************************************************************)
EXTENDS Edge, TLAPS

(* Every initial state of the collars satisfies the inductive invariant.   *)
LEMMA EdgeInitInv == EdgeInit => EdgeInv
  BY EdgeAssumption
     DEF EdgeInit, EdgeInv, EdgeTypeOK, ConsoleOpen, StatusStored,
         HeartbeatTruthful, SleepStatusFresh, Stages

(* A membership test has a truth value, whatever the numbers.              *)
LEMMA InsideBoolean == \A p, f : Inside(p, f) \in BOOLEAN
  BY DEF Inside

(* One arrow key leaves the stride alone and keeps the console on the map. *)
LEMMA MovesStayConsole ==
  ASSUME NEW s \in ConsoleState, NEW at \in Position
  PROVE  [s EXCEPT !.at = at] \in ConsoleState
  BY DEF ConsoleState

(* The steps that open, use and close the console keep the types.          *)
LEMMA ConsoleTypes ==
  ASSUME EdgeTypeOK, ConsoleOpen, NEW c \in Collars,
         Wake(c) \/ Operate(c) \/ LeaveConsole(c)
  PROVE  EdgeTypeOK'
<1>1. CASE Wake(c)
  <2>1. [at |-> pos[c], stride |-> StepNormal] \in ConsoleState
    BY DEF EdgeTypeOK, ConsoleState
  <2>2. (wakeCount[c] + 1) % WakeModulus \in 0 .. WakeModulus - 1
    BY EdgeAssumption DEF EdgeTypeOK
  <2>3. QED
    BY <1>1, <2>1, <2>2 DEF EdgeTypeOK, Wake, Stages
<1>2. CASE PressArrow(c)
  <2>1. console[c] \in ConsoleState
    BY <1>2 DEF PressArrow, ConsoleOpen
  <2>2. PICK at \in Position : console' = [console EXCEPT ![c].at = at]
    BY <1>2 DEF PressArrow
  <2>3. [console[c] EXCEPT !.at = at] \in ConsoleState
    BY <2>1, MovesStayConsole
  <2>4. console' = [console EXCEPT ![c] = [console[c] EXCEPT !.at = at]]
    BY <2>2
  <2>5. QED
    BY <1>2, <2>3, <2>4 DEF EdgeTypeOK, PressArrow
<1>3. CASE PressFast(c)
  <2>1. console[c] \in ConsoleState
    BY <1>3 DEF PressFast, ConsoleOpen
  <2>2. PICK s \in {StepNormal, StepFast} :
          console' = [console EXCEPT ![c].stride = s]
    BY <1>3 DEF PressFast
  <2>3. [console[c] EXCEPT !.stride = s] \in ConsoleState
    BY <2>1 DEF ConsoleState
  <2>4. QED
    BY <1>3, <2>2, <2>3 DEF EdgeTypeOK, PressFast
<1>4. CASE Confirm(c)
  <2>1. console[c].at \in Position
    BY <1>4 DEF Confirm, Goto, ConsoleOpen, ConsoleState
  <2>2. QED
    BY <1>4, <2>1 DEF EdgeTypeOK, Confirm, Goto, Stages
<1>5. CASE LeaveConsole(c)
  BY <1>5 DEF EdgeTypeOK, LeaveConsole, Goto, Stages
<1>6. QED
  BY <1>1, <1>2, <1>3, <1>4, <1>5 DEF Operate

(* The steps of the radio cycle, and a reset, keep the types.              *)
LEMMA CycleTypes ==
  ASSUME EdgeTypeOK, NEW c \in Collars,
         \/ Evaluate(c) \/ RadioFails(c) \/ Transmit(c)
         \/ WindowCloses(c) \/ Settle(c) \/ Reset(c)
         \/ \E d \in Downlink : Receive(c, d)
  PROVE  EdgeTypeOK'
<1>1. CASE Evaluate(c)
  BY <1>1, InsideBoolean DEF EdgeTypeOK, Evaluate, Goto, Stages
<1>2. CASE RadioFails(c) \/ Transmit(c) \/ WindowCloses(c)
  BY <1>2 DEF EdgeTypeOK, RadioFails, Transmit, WindowCloses, Goto, Stages
<1>3. CASE Settle(c)
  BY <1>3, InsideBoolean DEF EdgeTypeOK, Settle, Goto, Stages
<1>4. CASE Reset(c)
  BY <1>4, EdgeAssumption DEF EdgeTypeOK, Reset, Stages
<1>5. ASSUME NEW d \in Downlink, Receive(c, d)
      PROVE  EdgeTypeOK'
  <2>1. /\ (IF d.gps = None THEN pos[c] ELSE d.gps) \in Position
        /\ (IF d.fence = None THEN fence[c] ELSE d.fence) \in Fence
    BY EdgeAssumption DEF Downlink, EdgeTypeOK
  <2>2. QED
    BY <1>5, <2>1 DEF EdgeTypeOK, Receive, Goto, Stages
<1>6. QED
  BY <1>1, <1>2, <1>3, <1>4, <1>5

(* A step of one collar keeps the three relations between its status, its  *)
(* position and its fence.                                                 *)
LEMMA StatusStep ==
  ASSUME EdgeInv, EdgeTypeOK', NEW c \in Collars,
         \/ Operate(c) \/ Run(c) \/ Reset(c)
         \/ \E d \in Downlink : Receive(c, d)
  PROVE  (ConsoleOpen /\ StatusStored /\ HeartbeatTruthful /\ SleepStatusFresh)'
<1> USE DEF EdgeInv, EdgeTypeOK, ConsoleOpen, StatusStored,
            HeartbeatTruthful, SleepStatusFresh, Goto
<1>1. CASE Wake(c)
  <2>1. [at |-> pos[c], stride |-> StepNormal] \in ConsoleState
    BY DEF ConsoleState
  <2>2. QED
    BY <1>1, <2>1 DEF Wake
<1>2. CASE PressArrow(c)
  <2>1. PICK at \in Position :
          console' = [console EXCEPT ![c] = [console[c] EXCEPT !.at = at]]
    BY <1>2 DEF PressArrow
  <2>2. console'[c] \in ConsoleState
    BY <1>2, <2>1, MovesStayConsole DEF PressArrow
  <2>3. QED
    BY <1>2, <2>1, <2>2 DEF PressArrow
<1>3. CASE PressFast(c)
  <2>1. PICK s \in {StepNormal, StepFast} :
          console' = [console EXCEPT ![c].stride = s]
    BY <1>3 DEF PressFast
  <2>2. console'[c] \in ConsoleState
    BY <1>3, <2>1 DEF PressFast, ConsoleState
  <2>3. QED
    BY <1>3, <2>1, <2>2 DEF PressFast
<1>4. CASE Confirm(c) \/ LeaveConsole(c)
  BY <1>4 DEF Confirm, LeaveConsole
<1>5. CASE Evaluate(c)
  BY <1>5, InsideBoolean DEF Evaluate
<1>6. CASE RadioFails(c) \/ Transmit(c) \/ WindowCloses(c)
  BY <1>6 DEF RadioFails, Transmit, WindowCloses
<1>7. CASE Settle(c)
  BY <1>7, InsideBoolean DEF Settle
<1>8. CASE Reset(c)
  BY <1>8 DEF Reset
<1>9. ASSUME NEW d \in Downlink, Receive(c, d)
      PROVE  (ConsoleOpen /\ StatusStored /\ HeartbeatTruthful /\ SleepStatusFresh)'
  BY <1>9 DEF Receive
<1>10. QED
  BY <1>1, <1>2, <1>3, <1>4, <1>5, <1>6, <1>7, <1>8, <1>9 DEF Operate, Run

(* The invariant is inductive.                                             *)
LEMMA EdgeStepInv == EdgeInv /\ [EdgeNext]_edgeVars => EdgeInv'
<1> SUFFICES ASSUME EdgeInv, [EdgeNext]_edgeVars
             PROVE  EdgeInv'
  OBVIOUS
<1>1. ASSUME NEW c \in Collars,
             \/ Operate(c) \/ Run(c) \/ Reset(c)
             \/ \E d \in Downlink : Receive(c, d)
      PROVE  EdgeInv'
  <2>1. EdgeTypeOK'
    BY <1>1, ConsoleTypes, CycleTypes DEF EdgeInv, Operate, Run
  <2>2. QED
    BY <1>1, <2>1, StatusStep DEF EdgeInv
<1>2. CASE UNCHANGED edgeVars
  BY <1>2 DEF EdgeInv, EdgeTypeOK, ConsoleOpen, StatusStored,
              HeartbeatTruthful, SleepStatusFresh, edgeVars
<1>3. QED
  BY <1>1, <1>2 DEF EdgeNext

(* The inductive invariant holds in every reachable state of the collars.  *)
THEOREM EdgeInvariant == EdgeSpec => []EdgeInv
<1>1. QED
  BY EdgeInitInv, EdgeStepInv, PTL DEF EdgeSpec

(* Types: the RTC memory of a collar always holds a position and a fence   *)
(* of the map, a wake count of its width and a status.                     *)
THEOREM EdgeTypes == EdgeSpec => []EdgeTypeOK
<1>1. EdgeInv => EdgeTypeOK
  BY DEF EdgeInv
<1>2. QED
  BY <1>1, EdgeInvariant, PTL

(* A collar never sleeps with a status that contradicts the position and   *)
(* fence it sleeps with.                                                   *)
THEOREM CollarSleepsFresh == EdgeSpec => []SleepStatusFresh
<1>1. EdgeInv => SleepStatusFresh
  BY DEF EdgeInv
<1>2. QED
  BY <1>1, EdgeInvariant, PTL

(* No heartbeat reports a status that contradicts the position it reports. *)
THEOREM CollarReportsTruth == EdgeSpec => []HeartbeatTruthful
<1>1. EdgeInv => HeartbeatTruthful
  BY DEF EdgeInv
<1>2. QED
  BY <1>1, EdgeInvariant, PTL

=============================================================================
