------------------------------ MODULE BusButton -----------------------------
(***************************************************************************)
(* The button module of the event bus (esp_bus_btn.c): a tick of the bus   *)
(* polls the pin, waits until it is stable, and turns what it reads into   *)
(* presses, double presses, long presses and releases.                     *)
(*                                                                         *)
(* Times are in polls; the pin may change between any two.  A poll may be  *)
(* late: the bus task calls its services one after the other.              *)
(***************************************************************************)
EXTENDS Naturals, Sequences

CONSTANTS LongPress, DoublePress, Debounce,  \* the times of esp_bus_btn_cfg_t
          RegisteredBy,                      \* bound: latest time of esp_bus_btn_reg
          MaxTime                            \* bound: polls that are followed

ASSUME ButtonAssumption ==
    /\ LongPress \in Nat \ {0}
    /\ DoublePress \in Nat \ {0}
    /\ Debounce \in Nat \ {0}
    /\ RegisteredBy \in Nat \ {0}
    /\ MaxTime \in Nat

VARIABLES
    now, pin,
    rawState, stable,     \* the pin as read last, and as taken for good
    debounceUntil,
    pressTime,           \* 0: no press recorded
    lastPress,           \* 0: none yet
    longFired,
    events,              \* history: what the last poll emitted
    pressed,             \* history: a press was emitted and no release since
    longEmitted          \* history: a long press was emitted since the last press

buttonVars == <<now, pin, rawState, stable, debounceUntil, pressTime, lastPress, longFired,
          events, pressed, longEmitted>>

(* esp_bus_btn_reg, at a time of its own, reads the pin and emits nothing.  *)
ButtonInit ==
    /\ now \in 1..RegisteredBy
    /\ pin \in BOOLEAN
    /\ rawState = pin
    /\ stable = pin
    /\ debounceUntil = 0
    /\ pressTime = 0
    /\ lastPress = 0
    /\ longFired = FALSE
    /\ events = <<>>
    /\ pressed = FALSE
    /\ longEmitted = FALSE

Flip ==
    /\ pin' = ~pin
    /\ UNCHANGED <<now, rawState, stable, debounceUntil, pressTime, lastPress, longFired, events,
                   pressed, longEmitted>>

Emitted(es) ==
    /\ events' = es
    /\ pressed' = IF \E i \in 1..Len(es) : es[i] = "short" THEN TRUE
                  ELSE IF \E i \in 1..Len(es) : es[i] \in {"short_rel", "long_rel"} THEN FALSE
                  ELSE pressed
    /\ longEmitted' = IF \E i \in 1..Len(es) : es[i] = "long" THEN TRUE
                      ELSE IF \E i \in 1..Len(es) : es[i] = "short" THEN FALSE
                      ELSE longEmitted

(* The time of the poll: the next, or a later one.                          *)
Later(t) == t > now /\ t <= now + 2 /\ t <= MaxTime

Debouncing(t) == t < debounceUntil

(* btn_tick while the pin is not yet stable.                                *)
Waits(t) ==
    /\ Debouncing(t)
    /\ Emitted(<<>>)
    /\ UNCHANGED <<rawState, stable, debounceUntil, pressTime, lastPress, longFired>>

(* The pin differs from the last reading: wait and read again.              *)
Bounces(t) ==
    /\ ~Debouncing(t)
    /\ pin # rawState
    /\ rawState' = pin
    /\ debounceUntil' = t + Debounce
    /\ Emitted(<<>>)
    /\ UNCHANGED <<stable, pressTime, lastPress, longFired>>

Stable(t) == ~Debouncing(t) /\ pin = rawState

(* The check for a long press at the end of a poll.                         *)
LongNow(t, from, fired) == ~fired /\ t - from >= LongPress
IfLong(t, from, fired) == IF LongNow(t, from, fired) THEN <<"long">> ELSE <<>>

IsDouble(t) == lastPress > 0 /\ t - lastPress < DoublePress

Presses(t) ==
    /\ Stable(t)
    /\ pin /\ ~stable
    /\ stable' = TRUE
    /\ pressTime' = t
    /\ lastPress' = t
    /\ longFired' = LongNow(t, t, FALSE)
    /\ Emitted(<<"short">> \o (IF IsDouble(t) THEN <<"double">> ELSE <<>>) \o IfLong(t, t, FALSE))
    /\ UNCHANGED <<rawState, debounceUntil>>

(* Variant with a plausible bug. *)
Releases_Startup(t) ==
    /\ Stable(t)
    /\ ~pin /\ stable
    /\ stable' = FALSE
    /\ pressTime' = 0
    /\ Emitted(IF longFired THEN <<"long_rel">> ELSE <<"short_rel">>)
    /\ UNCHANGED <<rawState, debounceUntil, lastPress, longFired>>

Releases(t) ==
    /\ Stable(t)
    /\ ~pin /\ stable
    /\ stable' = FALSE
    /\ pressTime' = 0
    /\ Emitted(IF pressTime = 0 THEN <<>>
               ELSE IF longFired THEN <<"long_rel">> ELSE <<"short_rel">>)
    /\ UNCHANGED <<rawState, debounceUntil, lastPress, longFired>>

Holds(t) ==
    /\ Stable(t)
    /\ pin = stable
    /\ longFired' = (longFired \/ (stable /\ LongNow(t, pressTime, longFired)))
    /\ Emitted(IF stable THEN IfLong(t, pressTime, longFired) ELSE <<>>)
    /\ UNCHANGED <<rawState, stable, debounceUntil, pressTime, lastPress>>

(* btn_tick.                                                                *)
Poll(t) ==
    /\ Later(t)
    /\ now' = t
    /\ Waits(t) \/ Bounces(t) \/ Presses(t) \/ Releases(t) \/ Holds(t)
    /\ UNCHANGED pin

ButtonNext == Flip \/ \E t \in 1..MaxTime : Poll(t)

ButtonSpec == ButtonInit /\ [][ButtonNext]_buttonVars

-----------------------------------------------------------------------------
ButtonTypeOK ==
    /\ now \in 1..MaxTime
    /\ pin \in BOOLEAN /\ rawState \in BOOLEAN /\ stable \in BOOLEAN /\ longFired \in BOOLEAN
    /\ debounceUntil \in 0..(MaxTime + Debounce)
    /\ pressTime \in 0..now /\ lastPress \in 0..now
    /\ events \in {<<>>, <<"short">>, <<"short", "double">>, <<"long">>, <<"short_rel">>,
                   <<"long_rel">>}

Emits(e) == \E i \in 1..Len(events') : events'[i] = e

(***************************************************************************)
(* Subscribers see presses and releases in turn, at least a debounce apart *)
(* however the contacts bounce, and every release says whether its press   *)
(* became a long one, also for a button that was held when it was          *)
(* registered.                                                             *)
(***************************************************************************)
InTurn ==
    [][ /\ Emits("short") => ~pressed
        /\ Emits("short_rel") => pressed /\ ~longEmitted
        /\ Emits("long_rel") => pressed /\ longEmitted
        /\ Emits("long") => ~longEmitted
        /\ Emits("short_rel") \/ Emits("long_rel") => now' - lastPress >= Debounce ]_<<now>>

=============================================================================
