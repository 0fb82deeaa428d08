----------------------------- MODULE BusPattern -----------------------------
(***************************************************************************)
(* The wildcards of the event bus (esp_bus_match_pattern): "?" stands for  *)
(* one character and "*" for any number of them.  Match follows the code's *)
(* two pointers; Reference says what the characters of a pattern stand     *)
(* for.  esp_bus_parse_pattern takes the name of a message apart.  The     *)
(* module grows every pair of a pattern and a name up to a length, for the *)
(* two to be compared and the name to be taken apart.                      *)
(***************************************************************************)
EXTENDS Naturals, Sequences

CONSTANTS Letters,     \* ordinary characters
          NameMax,     \* ESP_BUS_NAME_MAX: room for the name of a module
          PatternMax,  \* ESP_BUS_PATTERN_MAX: room for a pattern or a message's name
          MaxLength    \* bound: characters of a pattern and of a name

ASSUME PatternAssumption ==
    /\ Letters \cap {"*", "?"} = {}
    /\ NameMax \in Nat \ {0}
    /\ PatternMax \in Nat \ {0}
    /\ MaxLength \in Nat

VARIABLES pattern, target
patternVars == <<pattern, target>>

(* Variant with a plausible bug. *)
MatchesFrom_StarTakesOne(pat, tgt) ==
    LET Match[p \in 1..(Len(pat) + 1)] == [t \in 1..(Len(tgt) + 1) |->
            IF p > Len(pat) \/ t > Len(tgt)
            THEN p > Len(pat) /\ t > Len(tgt)
            ELSE CASE pat[p] = "?" -> Match[p + 1][t + 1]
                   [] pat[p] = "*" ->
                         \/ p = Len(pat)
                         \/ \E u \in t..Len(tgt) : Match[p + 1][u]
                   [] OTHER -> pat[p] = tgt[t] /\ Match[p + 1][t + 1]]
    IN  Match[1][1]

(***************************************************************************)
(* Match[p][t]: the loop of the code with its pointers before the p-th     *)
(* character of the pattern and the t-th of the name.  A star tries the    *)
(* rest of the pattern at every character that is left, not at the end.    *)
(***************************************************************************)
MatchesFrom(pat, tgt) ==
    LET Match[p \in 1..(Len(pat) + 1)] == [t \in 1..(Len(tgt) + 1) |->
            IF p > Len(pat) \/ t > Len(tgt)
            THEN /\ t > Len(tgt)
                 /\ \A q \in p..Len(pat) : pat[q] = "*"
            ELSE CASE pat[p] = "?" -> Match[p + 1][t + 1]
                   [] pat[p] = "*" ->
                         \/ p = Len(pat)
                         \/ \E u \in t..Len(tgt) : Match[p + 1][u]
                   [] OTHER -> pat[p] = tgt[t] /\ Match[p + 1][t + 1]]
    IN  Match[1][1]

(***************************************************************************)
(* What room is left for: strncpy and snprintf cut what is longer.  So     *)
(* patterns are stored, and names put into messages.                       *)
(***************************************************************************)
Cut(s, n) == IF Len(s) <= n THEN s ELSE SubSeq(s, 1, n)
Kept(s) == Cut(s, PatternMax - 1)

(* esp_bus_parse_pattern: split at the first dot, or at the first colon,    *)
(* unless what is before it is too long for the name of a module.           *)
PositionsOf(c, s) == {i \in 1..Len(s) : s[i] = c}
First(S) == CHOOSE i \in S : \A j \in S : i <= j

TooLong == [ok |-> FALSE]
Parts(m, c, a) == [ok |-> TRUE, module |-> m, sep |-> c, action |-> a]

SplitAt(i, c, s) ==
    IF i - 1 >= NameMax THEN TooLong
    ELSE Parts(SubSeq(s, 1, i - 1), c, Kept(SubSeq(s, i + 1, Len(s))))

Split(s) ==
    CASE PositionsOf(".", s) # {} -> SplitAt(First(PositionsOf(".", s)), ".", s)
      [] PositionsOf(".", s) = {} /\ PositionsOf(":", s) # {} ->
            SplitAt(First(PositionsOf(":", s)), ":", s)
      [] OTHER -> Parts(Cut(s, NameMax - 1), "none", <<>>)

-----------------------------------------------------------------------------
PatternInit == pattern = <<>> /\ target = <<>>

GrowPattern(c) ==
    /\ Len(pattern) < MaxLength
    /\ target = <<>>
    /\ pattern' = Append(pattern, c)
    /\ UNCHANGED target

GrowTarget(c) ==
    /\ Len(target) < MaxLength
    /\ target' = Append(target, c)
    /\ UNCHANGED pattern

PatternNext ==
    \/ \E c \in Letters \cup {"*", "?"} : GrowPattern(c)
    \/ \E c \in Letters : GrowTarget(c)

PatternSpec == PatternInit /\ [][PatternNext]_patternVars

-----------------------------------------------------------------------------
(* Cuts of the name into as many pieces as the pattern has characters.      *)
Cuts(n, len) ==
    {cut \in [0..n -> 0..len] :
        cut[0] = 0 /\ cut[n] = len /\ \A i \in 1..n : cut[i - 1] <= cut[i]}

StandsFor(c, s) ==
    CASE c = "*" -> TRUE
      [] c = "?" -> Len(s) = 1
      [] OTHER -> s = <<c>>

Reference(pat, tgt) ==
    \E cut \in Cuts(Len(pat), Len(tgt)) :
        \A i \in 1..Len(pat) : StandsFor(pat[i], SubSeq(tgt, cut[i - 1] + 1, cut[i]))

(***************************************************************************)
(* An event is posted as "module:event", a request as "module.action", and *)
(* cut to the room of a message.  If the name of the module has neither    *)
(* separator and fits, it is split where it was put together: a dot in an  *)
(* action is kept, one in the name of an event makes it a request.  If the *)
(* name of the module does not fit, the message is for no module, and not  *)
(* for the one of a shorter name: the caller takes what has no separator   *)
(* for no request, and no event.                                           *)
(***************************************************************************)
Posted(m, c, a) == Kept(m \o <<c>> \o a)

SplitsAsJoined ==
    PositionsOf(".", pattern) \cup PositionsOf(":", pattern) = {} =>
        \A c \in {".", ":"} : (c = ":" => PositionsOf(".", target) = {}) =>
            LET parts == Split(Posted(pattern, c, target))
            IN  IF Len(pattern) < NameMax /\ Len(pattern) < PatternMax - 1
                THEN parts = Parts(pattern, c, Cut(target, PatternMax - 2 - Len(pattern)))
                ELSE parts.ok => parts.sep = "none"

(***************************************************************************)
(* Subscriptions and routes get exactly the events their pattern stands    *)
(* for, both as far as there is room for them: the search that never tries *)
(* a star at the end of the name, and gives up after the first star,       *)
(* misses nothing and adds nothing.  And names are split as they were put  *)
(* together.                                                               *)
(***************************************************************************)
MatchesAsMeant ==
    /\ MatchesFrom(Kept(pattern), Kept(target)) <=> Reference(Kept(pattern), Kept(target))
    /\ SplitsAsJoined
=============================================================================
