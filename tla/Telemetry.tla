------------------------------ MODULE Telemetry ------------------------------
(***************************************************************************)
(* The dashboard's polling of positions, useCattleTelemetry.ts.            *)
(*                                                                         *)
(* An effect fetches at once and sets a timer that fetches again.  The     *)
(* function that fetches depends on the point shown: each point that comes *)
(* makes a new function, and the effect runs again, fetches at once and    *)
(* sets its timer anew.  A fetch under way keeps the function, and with it *)
(* the point, it was started with.                                         *)
(***************************************************************************)
EXTENDS Naturals, Sequences, SequencesExt

CONSTANTS
    Simulated,      \* the points of generateSimulatedPoints
    Nothing,        \* no point yet
    Interval,       \* refreshIntervalMs
    MaxLatency,     \* the time an answer may take
    MaxFetches,     \* bound on the fetches under way
    MaxRefetches,   \* bound on the presses of the refresh button
    MaxPoint,       \* bound on the points stored
    MaxOutages      \* bound on the times InfluxDB is out of reach

ASSUME TelemetryAssumption ==
    /\ Simulated \notin Nat /\ Nothing \notin Nat /\ Simulated # Nothing
    /\ Interval \in Nat \ {0} /\ MaxLatency \in Nat
    /\ MaxFetches \in Nat \ {0} /\ MaxRefetches \in Nat
    /\ MaxPoint \in Nat /\ MaxOutages \in Nat

(* How far the database was when the fetch was sent, whether its function  *)
(* has a point, whether the database was out of reach since, and its age.  *)
Fetch == [from : 0 .. MaxPoint, hasPoint : BOOLEAN, cut : BOOLEAN, age : 0 .. MaxLatency]

VARIABLES
    latestPoint,  \* Nothing, Simulated, or the number of a point
    fetches,    \* the fetches under way
    timer,      \* time since the timer was set or fired
    points,     \* the number of points in cattle_position
    reachable,  \* whether InfluxDB answers
    refetches, outages  \* for the bounds

fetchBounds == <<refetches, outages>>
telemetryVars == <<latestPoint, fetches, timer, points, reachable, fetchBounds>>

Point == 1 .. MaxPoint

Fetching(point) ==
    [from |-> points, hasPoint |-> point # Nothing, cut |-> ~reachable, age |-> 0]

TelemetryInit ==
    /\ latestPoint = Nothing
    /\ points \in 0 .. MaxPoint /\ reachable \in BOOLEAN
    /\ fetches = <<Fetching(Nothing)>>
    /\ timer = 0
    /\ refetches = 0 /\ outages = 0

-----------------------------------------------------------------------------
(* Variants with a plausible bug, to test the properties against; none is  *)
(* a part of the specification.                                            *)

(* The effect does not clear its timer.                                    *)
Show_KeepsTimer(i, point) ==
    /\ latestPoint' = point
    /\ fetches' = Append(RemoveAt(fetches, i), Fetching(point))
    /\ UNCHANGED timer

(* A failed fetch shows simulated points even when there are real ones.    *)
Fails_AlwaysSimulates(i) ==
    /\ fetches[i].cut
    /\ latestPoint' = Simulated
    /\ fetches' = Append(RemoveAt(fetches, i), Fetching(Simulated))
    /\ timer' = 0

(* Only the first point is shown.                                          *)
Succeeds_First(i) ==
    \E row \in 1 .. points :
        IF fetches[i].hasPoint
        THEN fetches' = RemoveAt(fetches, i) /\ UNCHANGED <<latestPoint, timer>>
        ELSE /\ latestPoint' = row
             /\ fetches' = Append(RemoveAt(fetches, i), Fetching(row))
             /\ timer' = 0

-----------------------------------------------------------------------------
(* A new point: the effect runs again.                                     *)
Show(i, point) ==
    /\ latestPoint' = point
    /\ fetches' = Append(RemoveAt(fetches, i), Fetching(point))
    /\ timer' = 0

(* Points[0] of the rows the database had at some time since.              *)
Succeeds(i) == \E row \in Point :
    /\ row \in fetches[i].from .. points
    /\ Show(i, row)

(* Nothing to show, and nothing shown when the function was made.          *)
Simulate(i) ==
    IF fetches[i].hasPoint
    THEN fetches' = RemoveAt(fetches, i) /\ UNCHANGED <<latestPoint, timer>>
    ELSE Show(i, Simulated)

Empty(i) == fetches[i].from = 0 /\ Simulate(i)

Fails(i) == fetches[i].cut /\ Simulate(i)

AnswerFetch ==
    /\ \E i \in DOMAIN fetches :
        \/ reachable /\ Succeeds(i)
        \/ reachable /\ Empty(i)
        \/ Fails(i)
    /\ UNCHANGED <<points, reachable, fetchBounds>>

(* setInterval, and the button of the header.                              *)
TimerFires ==
    /\ timer = Interval /\ timer' = 0
    /\ Len(fetches) < MaxFetches
    /\ fetches' = Append(fetches, Fetching(latestPoint))
    /\ UNCHANGED <<latestPoint, points, reachable, fetchBounds>>

Refetch ==
    /\ refetches < MaxRefetches /\ refetches' = refetches + 1
    /\ Len(fetches) < MaxFetches
    /\ fetches' = Append(fetches, Fetching(latestPoint))
    /\ UNCHANGED <<latestPoint, timer, points, reachable, outages>>

-----------------------------------------------------------------------------
PageTick ==
    /\ timer < Interval /\ timer' = timer + 1
    /\ \A i \in DOMAIN fetches : fetches[i].age < MaxLatency
    /\ fetches' = [i \in DOMAIN fetches |-> [fetches[i] EXCEPT !.age = @ + 1]]
    /\ UNCHANGED <<latestPoint, points, reachable, fetchBounds>>

Store ==
    /\ points < MaxPoint /\ points' = points + 1
    /\ UNCHANGED <<latestPoint, fetches, timer, reachable, fetchBounds>>

Outage ==
    /\ reachable /\ outages < MaxOutages
    /\ reachable' = FALSE /\ outages' = outages + 1
    /\ fetches' = [i \in DOMAIN fetches |-> [fetches[i] EXCEPT !.cut = TRUE]]
    /\ UNCHANGED <<latestPoint, timer, points, refetches>>

Recovers ==
    /\ ~reachable /\ reachable' = TRUE
    /\ UNCHANGED <<latestPoint, fetches, timer, points, fetchBounds>>

TelemetryNext ==
    AnswerFetch \/ TimerFires \/ Refetch \/ PageTick \/ Store \/ Outage \/ Recovers

(* Time passes, the timer fires, and every fetch ends in one way or other. *)
TelemetryFairness ==
    /\ WF_telemetryVars(PageTick) /\ WF_telemetryVars(TimerFires)
    /\ WF_telemetryVars(AnswerFetch)

TelemetrySpec == TelemetryInit /\ [][TelemetryNext]_telemetryVars /\ TelemetryFairness

-----------------------------------------------------------------------------
TelemetryTypeOK ==
    /\ latestPoint \in Point \cup {Simulated, Nothing}
    /\ fetches \in Seq(Fetch) /\ Len(fetches) <= MaxFetches
    /\ timer \in 0 .. Interval
    /\ points \in 0 .. MaxPoint /\ reachable \in BOOLEAN
    /\ refetches \in 0 .. MaxRefetches /\ outages \in 0 .. MaxOutages

(* While answers come within the interval and nobody presses the button,   *)
(* there is one fetch at a time: each one either starts the next or leaves *)
(* it to the timer.                                                        *)
Quick == refetches = 0 /\ MaxLatency < Interval

OneAtATime == Quick => Len(fetches) <= 1

(* Then neither a simulated point nor an older one takes the place of a    *)
(* real point that is shown.                                               *)
RealStaysLatest ==
    [][Quick' /\ latestPoint \in Point
          => latestPoint' \in Point /\ latestPoint' >= latestPoint]_telemetryVars

(* However late and in whatever order answers come, and however many       *)
(* fetches are under way, when InfluxDB has points and stays in reach, the *)
(* dashboard comes to show real ones and goes on to.                       *)
LiveAgain == <>[](reachable /\ points > 0) => <>[](latestPoint \in Point)

=============================================================================
