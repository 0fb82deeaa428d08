------------------------------- MODULE BusLed -------------------------------
(***************************************************************************)
(* The LED module of the event bus and the timers it lives on              *)
(* (esp_bus_led.c, esp_bus_run_services).                                  *)
(*                                                                         *)
(* Everything here happens in the bus task: requests to the LED come from  *)
(* messages, between the rounds of services, or from the callback of       *)
(* another service, within a round.  In a round the bus first retains all  *)
(* timers that are due and then calls them one after the other, whatever   *)
(* the callbacks before have cancelled.                                    *)
(***************************************************************************)
EXTENDS Naturals, Integers, FiniteSets

CONSTANTS Half,       \* what blink_count does not reach (2^15 of an int16_t)
          Asks,       \* numbers of blinks that are asked for; -1 is "for ever"
          MaxTimers   \* bound: timers ever scheduled

ASSUME LedAssumption ==
    /\ Half \in Nat \ {0}
    /\ Asks \subseteq Int
    /\ MaxTimers \in Nat

Timers == 1..MaxTimers
NoTimer == 0

VARIABLES
    lit,         \* led->state
    blinkCount,  \* led->blink_count
    ledTimer,    \* led->timer_id
    timers,      \* of each: "unborn", "waiting", "due", "collected", "cancelled" or "gone"
    round,       \* a round of services is going on
    asked,       \* history: the blinks of the last request, 0 for none
    flashes,     \* history: how often the LED was lit since that request
    overtaken    \* history: a request cancelled a timer that was already collected

ledVars == <<lit, blinkCount, ledTimer, timers, round, asked, flashes, overtaken>>

(* A value kept in an int16_t.                                              *)
Signed(x) ==
    LET low == x % (2 * Half) IN IF low < Half THEN low ELSE low - 2 * Half

LedInit ==
    /\ lit = FALSE
    /\ blinkCount = 0
    /\ ledTimer = NoTimer
    /\ timers = [t \in Timers |-> "unborn"]
    /\ round = FALSE
    /\ asked = 0
    /\ flashes = 0
    /\ overtaken = FALSE

(* esp_bus_cancel: a collected timer is only marked.                        *)
Cancelled ==
    [t \in Timers |->
        IF t # ledTimer THEN timers[t]
        ELSE CASE timers[t] \in {"waiting", "due"} -> "gone"
               [] timers[t] = "collected" -> "cancelled"
               [] OTHER -> timers[t]]

(* esp_bus_after: the next timer of a table T of timers, and T with it.     *)
Unborn(T) == {t \in Timers : T[t] = "unborn"}
NextTimer(T) == CHOOSE t \in Unborn(T) : \A u \in Unborn(T) : t <= u
Scheduled(T) == [T EXCEPT ![NextTimer(T)] = "waiting"]

Overtakes == overtaken \/ (ledTimer # NoTimer /\ timers[ledTimer] = "collected")

(***************************************************************************)
(* The requests, which may come at any time between two callbacks; all     *)
(* begin with led_stop_blink.                                              *)
(***************************************************************************)
Switch(on) ==
    /\ timers' = Cancelled
    /\ ledTimer' = NoTimer
    /\ blinkCount' = 0
    /\ lit' = on
    /\ asked' = 0
    /\ flashes' = 0
    /\ overtaken' = Overtakes
    /\ UNCHANGED round

On == Switch(TRUE)
Off == Switch(FALSE)
Toggle == Switch(~lit)

Blink(n) ==
    IF n = 0
    THEN /\ timers' = Cancelled /\ ledTimer' = NoTimer /\ blinkCount' = 0
         /\ asked' = 0 /\ flashes' = 0 /\ overtaken' = Overtakes
         /\ UNCHANGED <<lit, round>>
    ELSE /\ Unborn(timers) # {}
         /\ timers' = Scheduled(Cancelled)
         /\ ledTimer' = NextTimer(Cancelled)
         /\ blinkCount' = IF n < 0 THEN -1 ELSE Signed(n * 2)
         /\ lit' = TRUE
         /\ asked' = n
         /\ flashes' = 1
         /\ overtaken' = Overtakes
         /\ UNCHANGED round

(* Time passes for a timer.                                                 *)
LedDue(t) ==
    /\ timers[t] = "waiting"
    /\ timers' = [timers EXCEPT ![t] = "due"]
    /\ UNCHANGED <<lit, blinkCount, ledTimer, round, asked, flashes, overtaken>>

(* esp_bus_run_services retains what is due.                                *)
BeginRound ==
    /\ ~round
    /\ round' = TRUE
    /\ timers' = [t \in Timers |-> IF timers[t] = "due" THEN "collected" ELSE timers[t]]
    /\ UNCHANGED <<lit, blinkCount, ledTimer, asked, flashes, overtaken>>

(***************************************************************************)
(* led_blink_step, called for a collected timer.  A cancelled one is       *)
(* called as well: the round does not look at pending_delete again.        *)
(***************************************************************************)
Steps(t) == round /\ timers[t] \in {"collected", "cancelled"}

(* Variant with a plausible bug: the count is looked at before the step.    *)
LastStep_Late == blinkCount = 0

LastStep == blinkCount = 1

BlinkStep(t) ==
    /\ Steps(t)
    /\ LET left == IF blinkCount > 0 THEN blinkCount - 1 ELSE blinkCount
           ran == [timers EXCEPT ![t] = "gone"]
       IN  /\ blinkCount' = left
           /\ IF LastStep
              THEN /\ lit' = FALSE
                   /\ ledTimer' = NoTimer
                   /\ timers' = ran
                   /\ UNCHANGED flashes
              ELSE /\ Unborn(timers) # {}
                   /\ lit' = ~lit
                   /\ ledTimer' = NextTimer(ran)
                   /\ timers' = Scheduled(ran)
                   /\ flashes' = IF lit \/ flashes > MaxTimers THEN flashes ELSE flashes + 1
    /\ UNCHANGED <<round, asked, overtaken>>

EndRound ==
    /\ round
    /\ \A t \in Timers : ~Steps(t)
    /\ round' = FALSE
    /\ UNCHANGED <<lit, blinkCount, ledTimer, timers, asked, flashes, overtaken>>

LedRequest == On \/ Off \/ Toggle \/ \E n \in Asks : Blink(n)
LedServices == BeginRound \/ EndRound \/ \E t \in Timers : BlinkStep(t)

LedNext == LedRequest \/ LedServices \/ \E t \in Timers : LedDue(t)

LedSpec == LedInit /\ [][LedNext]_ledVars

-----------------------------------------------------------------------------
LedTypeOK ==
    /\ lit \in BOOLEAN
    /\ blinkCount \in -Half..(Half - 1)
    /\ ledTimer \in Timers \cup {NoTimer}
    /\ timers \in [Timers -> {"unborn", "waiting", "due", "collected", "cancelled", "gone"}]
    /\ round \in BOOLEAN
    /\ asked \in Asks \cup {0}
    /\ flashes \in 0..(MaxTimers + 1)

(***************************************************************************)
(* "100,200,5: blink 5 times" (README of esp_bus): when a counted blink is *)
(* over the LED was lit that often and is dark, for counts that fit twice  *)
(* in blink_count.                                                         *)
(***************************************************************************)
BlinksAsAsked ==
    ~overtaken /\ asked > 0 /\ 2 * asked < Half =>
        /\ flashes <= asked
        /\ ledTimer = NoTimer => flashes = asked /\ ~lit

=============================================================================
