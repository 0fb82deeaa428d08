------------------------------ MODULE Responder ------------------------------
(***************************************************************************)
(* What the gateway promises on the radio, whatever its tasks do inside:   *)
(* it takes one heartbeat at a time, answers each one it takes by exactly  *)
(* one transmission, and then goes back to listening.                      *)
(***************************************************************************)
CONSTANTS Heartbeats, None

VARIABLES duty, request

Init == duty = "listening" /\ request = None

Take(h) ==
    /\ duty = "listening" /\ duty' = "owing"
    /\ request' = h

Answer ==
    /\ duty = "owing" /\ duty' = "answered"
    /\ UNCHANGED request

Resume ==
    /\ duty = "answered" /\ duty' = "listening"
    /\ request' = None

Next == (\E h \in Heartbeats : Take(h)) \/ Answer \/ Resume

vars == <<duty, request>>

Order == Init /\ [][Next]_vars

(* An answer that is owed is given, and an answered request is closed.     *)
Fairness == WF_vars(Answer) /\ WF_vars(Resume)

Spec == Order /\ Fairness

=============================================================================
