---------------------------- MODULE MdnsProofs -----------------------------
(***************************************************************************)
(* Proofs about the mDNS library.  First, that the end of a search         *)
(* that is queued never ends another one that was allocated at the same    *)
(* address since, for any number of searches, browses and answers and any  *)
(* length of the queue: the queue keeps the order, and the end was queued  *)
(* before the other was added.  Then, that what a search and a browse make *)
(* of the records belongs together, and that changes are told.  Last, that *)
(* the responder never loses a probe, and uses no name it has not probed.  *)
(***************************************************************************)
EXTENDS MdnsQuery, MdnsResults, MdnsResponder, Induction, SequenceTheorems,
        FiniteSetTheorems, FunctionTheorems, TLAPS

Action ==
    [type : {"search"}, what : {"add", "send", "end"}, of : Searches]
      \cup [type : {"answer"}, of : Searches \cup Browsed, last : BOOLEAN,
             authoritative : BOOLEAN, news : BOOLEAN]
      \cup [type : {"browse"}, what : {"add", "end"}, of : Browsed]
      \cup [type : {"sync"}, of : Browsed, id : Nat]

Entry == [state : {"free", "INIT", "RUNNING", "OFF"}, waits : BOOLEAN,
          listed : BOOLEAN, done : BOOLEAN, full : BOOLEAN]

BrowseEntry == [id : Nat, gone : BOOLEAN]

QueueTypeOK ==
    /\ actions \in Seq(Action) /\ hand \in Action \cup {None}
    /\ search \in [Searches -> Entry]
    /\ browse \in [Browsed -> BrowseEntry] /\ allocated \in Nat

(* A search that is to be added waits for that, and nothing of it comes    *)
(* after that in the queue.                                                *)
NotYet(s) == search[s].state = "INIT" /\ ~search[s].listed /\ ~search[s].done

Of(s) == {SearchAction("add", s), SearchAction("end", s)}

AddFirst(s) ==
    /\ hand = SearchAction("add", s) =>
          NotYet(s) /\ \A j \in 1 .. Len(actions) : actions[j] \notin Of(s)
    /\ \A i \in 1 .. Len(actions) : actions[i] = SearchAction("add", s) =>
          NotYet(s) /\ \A j \in 1 .. Len(actions) : j > i => actions[j] \notin Of(s)

(* A search that is listed is one, and its end comes when it is off.       *)
EndKnown(s) ==
    search[s].listed =>
       /\ search[s].state # "free"
       /\ search[s].state # "OFF" =>
             /\ hand # SearchAction("end", s)
             /\ \A i \in 1 .. Len(actions) : actions[i] # SearchAction("end", s)

QueryInv == QueueTypeOK /\ \A s \in Searches : AddFirst(s) /\ EndKnown(s)

LEMMA Names ==
  \A s, t \in Searches, what, w \in {"add", "send", "end"} :
     /\ SearchAction(what, s) \in Action
     /\ SearchAction(what, s) = SearchAction(w, t) => what = w /\ s = t
<1> SUFFICES ASSUME NEW s \in Searches, NEW t \in Searches,
                    NEW what \in {"add", "send", "end"}, NEW w \in {"add", "send", "end"}
             PROVE  /\ SearchAction(what, s) \in Action
                    /\ SearchAction(what, s) = SearchAction(w, t) => what = w /\ s = t
  OBVIOUS
<1>1. SearchAction(what, s) \in Action
  BY DEF SearchAction, Action
<1>2. /\ SearchAction(what, s).what = what /\ SearchAction(what, s).of = s
      /\ SearchAction(w, t).what = w /\ SearchAction(w, t).of = t
  BY DEF SearchAction
<1>3. QED
  BY <1>1, <1>2

LEMMA QueryInitInv == QueueInit /\ QueryInit => QueryInv
<1> SUFFICES ASSUME QueueInit, QueryInit PROVE QueryInv
  OBVIOUS
<1>1. actions \in Seq(Action) /\ Len(actions) = 0
  BY DEF QueueInit
<1>2. QueueTypeOK
  <2>1. Free \in Entry /\ NoBrowse \in BrowseEntry
    BY DEF Free, NoBrowse, Entry, BrowseEntry
  <2>2. QED
    BY <1>1, <2>1 DEF QueueInit, QueryInit, QueueTypeOK
<1>3. \A s \in Searches : AddFirst(s) /\ EndKnown(s)
  BY <1>1, NoneIsNoAction DEF QueueInit, QueryInit, AddFirst, EndKnown, Free
<1>4. QED
  BY <1>2, <1>3 DEF QueryInv

(* What is queued comes last, if it finds room.                            *)
LEMMA QueuedProperties ==
  ASSUME QueueTypeOK, NEW a \in Action
  PROVE  /\ Queued(actions, a) \in Seq(Action)
         /\ \/ Queued(actions, a) = actions
            \/ /\ HasRoom
               /\ Len(Queued(actions, a)) = Len(actions) + 1
               /\ \A i \in 1 .. Len(actions) : Queued(actions, a)[i] = actions[i]
               /\ Queued(actions, a)[Len(actions) + 1] = a
<1>1. actions \in Seq(Action)
  BY DEF QueueTypeOK
<1>2. CASE HasRoom
  BY <1>1, <1>2, AppendProperties DEF Queued, HasRoom
<1>3. CASE ~HasRoom
  BY <1>1, <1>3 DEF Queued, HasRoom
<1>4. QED
  BY <1>2, <1>3

(* A step that lists no search, takes nothing but the action in hand, and  *)
(* queues no add, and an end only of a search that is listed.              *)
LEMMA Later ==
  ASSUME QueryInv, NEW s \in Searches,
         NotYet(s) => NotYet(s)',
         search'[s].listed => /\ search[s].listed /\ search'[s].state # "free"
                              /\ search'[s].state # "OFF" => search[s].state # "OFF",
         hand' \in {hand, None},
         \/ actions' = actions
         \/ \E a \in Action :
               /\ actions' = Queued(actions, a) /\ a # SearchAction("add", s)
               /\ a = SearchAction("end", s) =>
                     search[s].listed /\ (search'[s].state = "OFF" \/ ~HasRoom)
  PROVE  AddFirst(s)' /\ EndKnown(s)'
<1>1. AddFirst(s) /\ EndKnown(s) /\ actions \in Seq(Action)
  BY DEF QueryInv, QueueTypeOK
<1>2. None \notin Of(s)
  BY NoneIsNoAction DEF Of
<1>3. CASE actions' = actions
  BY <1>1, <1>2, <1>3 DEF AddFirst, EndKnown, Of
<1>4. CASE \E a \in Action :
               /\ actions' = Queued(actions, a) /\ a # SearchAction("add", s)
               /\ a = SearchAction("end", s) =>
                     search[s].listed /\ (search'[s].state = "OFF" \/ ~HasRoom)
  <2>1. PICK a \in Action :
               /\ actions' = Queued(actions, a) /\ a # SearchAction("add", s)
               /\ a = SearchAction("end", s) =>
                     search[s].listed /\ (search'[s].state = "OFF" \/ ~HasRoom)
    BY <1>4
  <2>2. CASE Queued(actions, a) # actions
    <3>1. /\ HasRoom /\ Len(actions) \in Nat /\ Len(actions') = Len(actions) + 1
          /\ \A i \in 1 .. Len(actions) : actions'[i] = actions[i]
          /\ actions'[Len(actions) + 1] = a
      BY <1>1, <2>1, <2>2, QueuedProperties DEF QueryInv
    <3>2. a = SearchAction("end", s) => ~NotYet(s)
      BY <2>1 DEF NotYet
    <3>3. AddFirst(s)'
      BY <1>1, <1>2, <2>1, <3>1, <3>2 DEF AddFirst, Of
    <3>4. EndKnown(s)'
      BY <1>1, <1>2, <2>1, <3>1 DEF EndKnown, Of
    <3>5. QED
      BY <3>3, <3>4
  <2>3. QED
    BY <1>3, <2>1, <2>2
<1>5. QED
  BY <1>3, <1>4

(* The task takes the first action: the order stays.                       *)
LEMMA ReceiveInv ==
  ASSUME QueryInv, Receive, UNCHANGED queryVars PROVE QueryInv'
<1>1. actions \in Seq(Action) /\ actions # << >> /\ Len(actions) \in Nat
  BY DEF QueryInv, QueueTypeOK, Receive
<1>2. /\ hand' \in Action /\ hand' = actions[1] /\ actions' \in Seq(Action)
      /\ Len(actions') = Len(actions) - 1 /\ Len(actions) >= 1
      /\ \A i \in 1 .. Len(actions') : actions'[i] = actions[i + 1]
  <2>1. Len(actions) >= 1 /\ Head(actions) = actions[1]
    BY <1>1, EmptySeq
  <2>2. QED
    BY <1>1, <2>1, HeadTailProperties DEF Receive
<1>3. UNCHANGED <<search, browse, allocated>>
  BY DEF queryVars
<1>4. QueueTypeOK'
  BY <1>2, <1>3 DEF QueryInv, QueueTypeOK
<1>5. ASSUME NEW s \in Searches PROVE AddFirst(s)' /\ EndKnown(s)'
  <2>1. AddFirst(s) /\ EndKnown(s)
    BY DEF QueryInv
  <2>2. ASSUME hand' = SearchAction("add", s), NEW j \in 1 .. Len(actions')
        PROVE  actions'[j] \notin Of(s)
    <3>1. /\ actions[1] = SearchAction("add", s) /\ 1 \in 1 .. Len(actions)
          /\ j + 1 \in 1 .. Len(actions) /\ j + 1 > 1 /\ actions'[j] = actions[j + 1]
      BY <1>1, <1>2, <2>2
    <3>2. QED
      BY <2>1, <3>1 DEF AddFirst
  <2>3. ASSUME NEW i \in 1 .. Len(actions'), actions'[i] = SearchAction("add", s),
               NEW j \in 1 .. Len(actions'), j > i
        PROVE  actions'[j] \notin Of(s)
    <3>1. i + 1 \in 1 .. Len(actions) /\ j + 1 \in 1 .. Len(actions) /\ j + 1 > i + 1
      BY <1>1, <1>2, <2>3
    <3>2. actions[i + 1] = SearchAction("add", s)
      BY <1>2, <2>3
    <3>3. actions[j + 1] \notin Of(s)
      BY <2>1, <3>1, <3>2 DEF AddFirst
    <3>4. QED
      BY <1>2, <3>3
  <2>4. ASSUME hand' = SearchAction("add", s) \/
               \E i \in 1 .. Len(actions') : actions'[i] = SearchAction("add", s)
        PROVE  NotYet(s)'
    <3>1. \E i \in 1 .. Len(actions) : actions[i] = SearchAction("add", s)
      BY <1>1, <1>2, <2>4
    <3>2. NotYet(s)
      BY <2>1, <3>1 DEF AddFirst
    <3>3. QED
      BY <1>3, <3>2 DEF NotYet
  <2>5. AddFirst(s)'
    BY <2>2, <2>3, <2>4 DEF AddFirst
  <2>6. EndKnown(s)'
    BY <1>1, <1>2, <1>3, <2>1 DEF EndKnown
  <2>7. QED
    BY <2>5, <2>6
<1>6. QED
  BY <1>4, <1>5 DEF QueryInv

(* What the actions make of a search.                                      *)
LEMMA EntriesStay ==
  ASSUME NEW e \in Entry
  PROVE  /\ Free \in Entry
         /\ \A w \in BOOLEAN : [Free EXCEPT !.state = "INIT", !.waits = w] \in Entry
         /\ \A st \in {"OFF", "RUNNING"} : [e EXCEPT !.state = st] \in Entry
         /\ [e EXCEPT !.listed = TRUE] \in Entry
         /\ [e EXCEPT !.done = FALSE] \in Entry
         /\ [e EXCEPT !.full = TRUE] \in Entry
         /\ [e EXCEPT !.state = "OFF", !.listed = FALSE, !.done = TRUE] \in Entry
BY DEF Entry, Free

LEMMA TypesInv == QueueTypeOK /\ QueryNext => QueueTypeOK'
<1> SUFFICES ASSUME QueueTypeOK, QueryNext PROVE QueueTypeOK'
  OBVIOUS
<1>1. /\ actions \in Seq(Action) /\ hand \in Action \cup {None}
      /\ search \in [Searches -> Entry]
      /\ browse \in [Browsed -> BrowseEntry] /\ allocated \in Nat
  BY DEF QueueTypeOK
<1>2. ASSUME NEW s \in Searches,
             \/ \E waits \in BOOLEAN : NewSearch(s, waits)
             \/ TimesOut(s) \/ SendsAgain(s)
      PROVE  QueueTypeOK'
  <2>1. actions' \in Seq(Action)
    BY <1>2, QueuedProperties, Names DEF NewSearch, TimesOut, SendsAgain
  <2>2. search' \in [Searches -> Entry]
    <3>1. search[s] \in Entry
      BY <1>1
    <3>2. PICK e \in Entry : search' = [search EXCEPT ![s] = e]
      BY <1>2, <3>1, EntriesStay DEF NewSearch, TimesOut, SendsAgain
    <3>3. QED
      BY <1>1, <3>2
  <2>3. QED
    BY <1>1, <1>2, <2>1, <2>2 DEF QueueTypeOK, NewSearch, TimesOut, SendsAgain, BrowserRests
<1>3. ASSUME NEW s \in Searches, WaiterReturns(s) \/ GetResults(s) \/ AsyncDelete(s)
      PROVE  QueueTypeOK'
  <2>1. search' \in [Searches -> Entry]
    <3>1. search[s] \in Entry
      BY <1>1
    <3>2. PICK e \in Entry : search' = [search EXCEPT ![s] = e]
      BY <1>3, <3>1, EntriesStay DEF WaiterReturns, GetResults, AsyncDelete
    <3>3. QED
      BY <1>1, <3>2
  <2>2. QED
    BY <1>1, <1>3, <2>1
       DEF QueueTypeOK, WaiterReturns, GetResults, AsyncDelete, BrowserRests, queueVars
<1>4. ASSUME NEW b \in Browsed, NEW what \in {"add", "end"}, AskBrowse(what, b)
      PROVE  QueueTypeOK'
  <2>1. [type |-> "browse", what |-> what, of |-> b] \in Action
    BY DEF Action
  <2>2. QED
    BY <1>1, <1>4, <2>1, QueuedProperties DEF AskBrowse, QueueTypeOK
<1>5. ASSUME NEW of \in Searches \cup Browsed, NEW last \in BOOLEAN, NEW authoritative \in BOOLEAN,
             NEW news \in BOOLEAN, AnswerComes(of, last, authoritative, news)
      PROVE  QueueTypeOK'
  <2>1. [type |-> "answer", of |-> of, last |-> last, authoritative |-> authoritative,
         news |-> news] \in Action
    BY DEF Action
  <2>2. QED
    BY <1>1, <1>5, <2>1, QueuedProperties DEF AnswerComes, QueueTypeOK
<1>6. ASSUME Receive, UNCHANGED queryVars PROVE QueueTypeOK'
  <2>1. hand' \in Action /\ actions' \in Seq(Action)
    <3>1. actions # << >> /\ Head(actions) \in Action /\ Tail(actions) \in Seq(Action)
      BY <1>1, <1>6, HeadTailProperties DEF Receive
    <3>2. QED
      BY <1>6, <3>1 DEF Receive
  <2>2. QED
    BY <1>1, <1>6, <2>1 DEF QueueTypeOK, queryVars
<1>7. CASE ExecuteSearch
  <2>1. hand.of \in Searches
    BY <1>1, <1>7 DEF ExecuteSearch, Runs, Action
  <2>2. search' \in [Searches -> Entry]
    <3>1. search[hand.of] \in Entry
      BY <1>1, <2>1
    <3>2. search' = search \/ \E e \in Entry : search' = [search EXCEPT ![hand.of] = e]
      BY <1>7, <3>1, EntriesStay DEF ExecuteSearch, Finish
    <3>3. QED
      BY <1>1, <3>2
  <2>3. QED
    BY <1>1, <1>7, <2>2 DEF ExecuteSearch, Done, BrowserRests, QueueTypeOK
<1>8. CASE ExecuteAnswer
  <2>1. hand \in [type : {"answer"}, of : Searches \cup Browsed, last : BOOLEAN,
                 authoritative : BOOLEAN, news : BOOLEAN]
    BY <1>1, <1>8 DEF ExecuteAnswer, Runs, Action
  <2>2. search' \in [Searches -> Entry]
    <3>1. \A list \in [Searches -> Entry] : FinishFull(list) \in [Searches -> Entry]
      <4> SUFFICES ASSUME NEW list \in [Searches -> Entry], NEW s \in Searches
                   PROVE  list[s] \in Entry /\ Finish(list, s)[s] \in Entry
        BY DEF FinishFull
      <4> QED
        BY EntriesStay DEF Finish
    <3>2. hand.of \in Searches => Found(search, hand.of) \in [Searches -> Entry]
      BY <1>1, EntriesStay DEF Found
    <3>3. search' \in {search, FinishFull(search)} \/
             (hand.of \in Searches /\
              search' \in {Found(search, hand.of), FinishFull(Found(search, hand.of))})
      BY <1>8 DEF ExecuteAnswer
    <3>4. QED
      BY <1>1, <3>1, <3>2, <3>3
  <2>3. actions' \in Seq(Action) /\ browse' \in [Browsed -> BrowseEntry]
    <3>1. CASE hand.of \in Searches /\ UNCHANGED <<actions, browse>>
      BY <1>1, <3>1
    <3>2. CASE ~(hand.of \in Searches /\ UNCHANGED <<actions, browse>>)
      <4>1. hand.of \in Browsed
        BY <1>8, <3>2 DEF ExecuteAnswer
      <4> DEFINE sync == [type |-> "sync", of |-> hand.of, id |-> browse[hand.of].id]
      <4>2. sync \in Action
        BY <1>1, <2>1, <4>1 DEF Action, BrowseEntry
      <4>3. actions' = actions \/ actions' = Queued(actions, sync)
        BY <1>8, <3>2 DEF ExecuteAnswer
      <4>4. actions' \in Seq(Action)
        BY <1>1, <4>2, <4>3, QueuedProperties
      <4>5. browse' \in [Browsed -> BrowseEntry]
        <5>1. browse[hand.of] \in BrowseEntry /\ hand.last \in BOOLEAN
          BY <1>1, <2>1, <4>1
        <5>2. PICK gone \in BOOLEAN : browse' = [browse EXCEPT ![hand.of].gone = gone]
          BY <1>8, <3>2, <5>1 DEF ExecuteAnswer, BrowseEntry
        <5>3. [browse[hand.of] EXCEPT !.gone = gone] \in BrowseEntry
          BY <5>1 DEF BrowseEntry
        <5>4. QED
          BY <1>1, <4>1, <5>2, <5>3
      <4>6. QED
        BY <4>4, <4>5
    <3>3. QED
      BY <3>1, <3>2
  <2>4. hand' = None /\ allocated' = allocated
    BY <1>8 DEF ExecuteAnswer
  <2>5. QED
    BY <1>1, <2>2, <2>3, <2>4 DEF QueueTypeOK
<1>9. CASE ExecuteBrowse \/ ExecuteSync
  <2>1. hand.of \in Browsed
    BY <1>1, <1>9 DEF ExecuteBrowse, ExecuteSync, Runs, Action
  <2>2. allocated' \in Nat /\ browse' \in [Browsed -> BrowseEntry]
    <3>1. browse[hand.of] \in BrowseEntry
      BY <1>1, <2>1
    <3>2. allocated + 1 \in Nat
      BY <1>1
    <3>3. [browse[hand.of] EXCEPT !.id = allocated + 1] \in BrowseEntry
      BY <3>1, <3>2 DEF BrowseEntry
    <3>4. NoBrowse \in BrowseEntry
      BY DEF NoBrowse, BrowseEntry
    <3>5. browse' = browse \/ \E b \in BrowseEntry : browse' = [browse EXCEPT ![hand.of] = b]
      BY <1>9, <3>3, <3>4 DEF ExecuteBrowse, ExecuteSync
    <3>6. allocated' \in {allocated, allocated + 1}
      BY <1>9 DEF ExecuteBrowse, ExecuteSync
    <3>7. browse' \in [Browsed -> BrowseEntry]
      BY <1>1, <3>5
    <3>8. QED
      BY <1>1, <3>2, <3>6, <3>7
  <2>3. hand' \in {hand, None} /\ UNCHANGED <<actions, search>>
    BY <1>9 DEF ExecuteBrowse, ExecuteSync, Done
  <2>4. QED
    BY <1>1, <2>2, <2>3 DEF QueueTypeOK
<1>10. QED
  BY <1>2, <1>3, <1>4, <1>5, <1>6, <1>7, <1>8, <1>9 DEF QueryNext, QueryExecute

(* A search is allocated at a free address: of what is queued nothing adds *)
(* another there.                                                          *)
LEMMA NewSearchInv ==
  ASSUME QueryInv, NEW t \in Searches, NEW waits \in BOOLEAN, NewSearch(t, waits), NEW s \in Searches
  PROVE  AddFirst(s)' /\ EndKnown(s)'
<1>1. search \in [Searches -> Entry] /\ actions \in Seq(Action)
  BY DEF QueryInv, QueueTypeOK
<1>2. CASE s = t
  <2>1. /\ search'[s].state = "INIT" /\ search'[s].listed = FALSE /\ search'[s].done = FALSE
        /\ hand' = hand
    BY <1>1, <1>2 DEF NewSearch, Free
  <2>2. ~NotYet(s) /\ NotYet(s)'
    BY <1>2, <2>1 DEF NotYet, NewSearch
  <2>3. AddFirst(s)
    BY DEF QueryInv
  <2>4. /\ Len(actions) \in Nat /\ Len(actions') = Len(actions) + 1
        /\ \A i \in 1 .. Len(actions) : actions'[i] = actions[i]
    BY <1>1, AppendProperties DEF NewSearch, HasRoom, Queued
  <2>5. AddFirst(s)'
    <3>1. hand' # SearchAction("add", s)
      BY <2>1, <2>2, <2>3 DEF AddFirst
    <3>2. \A i \in 1 .. Len(actions) : actions'[i] # SearchAction("add", s)
      BY <2>2, <2>3, <2>4 DEF AddFirst
    <3>3. \A i, j \in 1 .. Len(actions') :
             actions'[i] = SearchAction("add", s) /\ j > i => FALSE
      BY <2>4, <3>2
    <3>4. QED
      BY <2>2, <3>1, <3>3 DEF AddFirst
  <2>6. EndKnown(s)'
    BY <2>1 DEF EndKnown
  <2>7. QED
    BY <2>5, <2>6
<1>3. CASE s # t
  <2>1. search'[s] = search[s] /\ hand' = hand
    BY <1>1, <1>3 DEF NewSearch
  <2>2. /\ SearchAction("add", t) \in Action /\ SearchAction("add", t) \notin Of(s)
        /\ actions' = Queued(actions, SearchAction("add", t))
    BY <1>3, Names DEF NewSearch, Of
  <2>3. (NotYet(s) => NotYet(s)') /\ EndKnown(s)
    BY <2>1 DEF NotYet, QueryInv
  <2>4. QED
    BY <2>1, <2>2, <2>3, Later DEF EndKnown, Of
<1>4. QED
  BY <1>2, <1>3

(* The timer, which looks at listed searches only.                         *)
LEMMA WatchedInv ==
  ASSUME QueryInv, NEW t \in Searches, TimesOut(t) \/ SendsAgain(t), NEW s \in Searches
  PROVE  AddFirst(s)' /\ EndKnown(s)'
<1>1. search \in [Searches -> Entry] /\ EndKnown(s)
  BY DEF QueryInv, QueueTypeOK
<1>2. hand' = hand /\ search[t].listed /\ search[t].state # "OFF"
  BY DEF TimesOut, SendsAgain, Watched
<1>3. PICK what \in {"end", "send"} :
         /\ actions' = Queued(actions, SearchAction(what, t))
         /\ search' = [search EXCEPT ![t].state = IF what = "end" /\ HasRoom THEN "OFF" ELSE "RUNNING"]
  BY DEF TimesOut, SendsAgain
<1>4. /\ s # t => search'[s] = search[s]
      /\ s = t => search'[s] = [search[s] EXCEPT !.state = IF what = "end" /\ HasRoom THEN "OFF" ELSE "RUNNING"]
  BY <1>1, <1>3
<1>5. /\ search[s] \in Entry /\ search'[s].listed = search[s].listed
      /\ s = t => search'[s].state = IF what = "end" /\ HasRoom THEN "OFF" ELSE "RUNNING"
  BY <1>1, <1>4 DEF Entry
<1>6. SearchAction(what, t) \in Action /\ SearchAction(what, t) # SearchAction("add", s)
  BY Names
<1>7. SearchAction(what, t) = SearchAction("end", s) => s = t /\ what = "end"
  BY Names
<1>8. NotYet(s) => NotYet(s)'
  BY <1>2, <1>4 DEF NotYet
<1>9. search'[s].listed => /\ search[s].listed /\ search'[s].state # "free"
                           /\ search'[s].state # "OFF" => search[s].state # "OFF"
  BY <1>1, <1>2, <1>4, <1>5 DEF EndKnown
<1>10. SearchAction(what, t) = SearchAction("end", s) =>
          search[s].listed /\ (search'[s].state = "OFF" \/ ~HasRoom)
  BY <1>2, <1>5, <1>7
<1>11. QED
  BY <1>2, <1>3, <1>6, <1>8, <1>9, <1>10, Later

(* The callers, who free a search that is done or off.                     *)
LEMMA CallerInv ==
  ASSUME QueryInv, NEW t \in Searches, WaiterReturns(t) \/ GetResults(t) \/ AsyncDelete(t),
         NEW s \in Searches
  PROVE  AddFirst(s)' /\ EndKnown(s)'
<1>1. search \in [Searches -> Entry] /\ EndKnown(s)
  BY DEF QueryInv, QueueTypeOK
<1>2. hand' = hand /\ actions' = actions
  BY DEF WaiterReturns, GetResults, AsyncDelete, queueVars
<1>3. /\ search[t].done \/ search[t].state = "OFF"
      /\ search' = [search EXCEPT ![t] = Free] \/ search' = [search EXCEPT ![t].done = FALSE]
  BY DEF WaiterReturns, GetResults, AsyncDelete
<1>4. s # t => search'[s] = search[s]
  BY <1>1, <1>3
<1>5. s = t => \/ search'[s].listed = FALSE
               \/ search'[s].listed = search[s].listed /\ search'[s].state = search[s].state
  BY <1>1, <1>3 DEF Entry, Free
<1>6. NotYet(s) => NotYet(s)'
  BY <1>3, <1>4 DEF NotYet
<1>7. QED
  BY <1>1, <1>2, <1>4, <1>5, <1>6, Later DEF EndKnown

(* What the task makes of a search it ends, or of an answer for it.        *)
LEMMA FinishKeeps ==
  ASSUME NEW list \in [Searches -> Entry], NEW s \in Searches, NEW t \in Searches
  PROVE  Finish(list, t)[s] = list[s] \/ (list[s].listed /\ Finish(list, t)[s].listed = FALSE)
<1>1. list[s] \in Entry /\ list[t] \in Entry
  OBVIOUS
<1>2. QED
  BY <1>1 DEF Finish, Entry

LEMMA FullKeeps ==
  ASSUME NEW list \in [Searches -> Entry], NEW s \in Searches
  PROVE  FinishFull(list)[s] = list[s] \/ (list[s].listed /\ FinishFull(list)[s].listed = FALSE)
<1>1. Finish(list, s)[s] = list[s] \/ (list[s].listed /\ Finish(list, s)[s].listed = FALSE)
  BY FinishKeeps
<1>2. FinishFull(list)[s] \in {list[s], Finish(list, s)[s]}
  BY DEF FinishFull
<1>3. QED
  BY <1>1, <1>2

LEMMA FoundKeeps ==
  ASSUME NEW list \in [Searches -> Entry], NEW s \in Searches, NEW t \in Searches
  PROVE  Found(list, t)[s] = list[s] \/
            (list[s].listed /\ Found(list, t)[s] = [list[s] EXCEPT !.full = TRUE])
BY DEF Found

LEMMA ExecuteSearchInv ==
  ASSUME QueryInv, ExecuteSearch, NEW s \in Searches
  PROVE  AddFirst(s)' /\ EndKnown(s)'
<1> DEFINE t == hand.of
<1>1. /\ search \in [Searches -> Entry] /\ AddFirst(s) /\ EndKnown(s)
      /\ hand' = None /\ actions' = actions
  BY DEF QueryInv, QueueTypeOK, ExecuteSearch, Done
<1>2. /\ t \in Searches /\ hand = SearchAction(hand.what, t)
      /\ hand.what \in {"add", "send", "end"}
  BY DEF QueryInv, QueueTypeOK, ExecuteSearch, Runs, Action, SearchAction
<1>3. CASE hand.what = "add" /\ search' = [search EXCEPT ![t].listed = TRUE]
  <2>1. CASE s = t
    <3>1. NotYet(s) /\ \A j \in 1 .. Len(actions) : actions[j] \notin Of(s)
      BY <1>1, <1>2, <1>3, <2>1 DEF AddFirst
    <3>2. search'[s].state = "INIT"
      BY <1>1, <1>3, <2>1, <3>1 DEF NotYet, Entry
    <3>3. None \notin Of(s)
      BY NoneIsNoAction DEF Of
    <3>4. AddFirst(s)'
      BY <1>1, <3>1, <3>3 DEF AddFirst, Of
    <3>5. EndKnown(s)'
      BY <1>1, <3>1, <3>2, <3>3 DEF EndKnown, Of
    <3>6. QED
      BY <3>4, <3>5
  <2>2. CASE s # t
    <3>1. search'[s] = search[s]
      BY <1>1, <1>3, <2>2
    <3>2. NotYet(s) => NotYet(s)'
      BY <3>1 DEF NotYet
    <3>3. QED
      BY <1>1, <3>1, <3>2, Later DEF EndKnown
  <2>3. QED
    BY <2>1, <2>2
<1>4. CASE search' = search \/ search' = Finish(search, t)
  <2>1. search'[s] = search[s] \/ (search[s].listed /\ search'[s].listed = FALSE)
    <3>1. Finish(search, t)[s] = search[s] \/
            (search[s].listed /\ Finish(search, t)[s].listed = FALSE)
      BY <1>1, <1>2, FinishKeeps
    <3>2. QED
      BY <1>4, <3>1
  <2>2. NotYet(s) => NotYet(s)'
    BY <2>1 DEF NotYet
  <2>3. QED
    BY <1>1, <2>1, <2>2, Later DEF EndKnown
<1>5. QED
  BY <1>3, <1>4 DEF ExecuteSearch

LEMMA ExecuteAnswerInv ==
  ASSUME QueryInv, ExecuteAnswer, NEW s \in Searches
  PROVE  AddFirst(s)' /\ EndKnown(s)'
<1>1. search \in [Searches -> Entry] /\ EndKnown(s) /\ hand' = None /\ search[s] \in Entry
  BY DEF QueryInv, QueueTypeOK, ExecuteAnswer
<1>2. hand.of \in Searches => Found(search, hand.of) \in [Searches -> Entry]
  BY <1>1, EntriesStay DEF Found
<1>3. \/ search' = search \/ search' = FinishFull(search)
      \/ hand.of \in Searches /\ search' = Found(search, hand.of)
      \/ hand.of \in Searches /\ search' = FinishFull(Found(search, hand.of))
  BY DEF ExecuteAnswer
<1>4. \/ search'[s] = search[s]
      \/ search[s].listed /\ search'[s].listed = FALSE
      \/ search[s].listed /\ search'[s] = [search[s] EXCEPT !.full = TRUE]
  <2>1. CASE search' = search \/ search' = FinishFull(search)
    <3>1. FinishFull(search)[s] = search[s] \/
            (search[s].listed /\ FinishFull(search)[s].listed = FALSE)
      BY <1>1, FullKeeps
    <3>2. QED
      BY <2>1, <3>1
  <2>2. CASE hand.of \in Searches /\ search' = Found(search, hand.of)
    <3>1. Found(search, hand.of)[s] = search[s] \/
            (search[s].listed /\ Found(search, hand.of)[s] = [search[s] EXCEPT !.full = TRUE])
      BY <1>1, <2>2, FoundKeeps
    <3>2. QED
      BY <2>2, <3>1
  <2>3. CASE hand.of \in Searches /\ search' = FinishFull(Found(search, hand.of))
    <3> DEFINE marked == Found(search, hand.of)
    <3>1. marked[s] = search[s] \/ (search[s].listed /\ marked[s] = [search[s] EXCEPT !.full = TRUE])
      BY <1>1, <2>3, FoundKeeps
    <3>2. search'[s] = marked[s] \/ (marked[s].listed /\ search'[s].listed = FALSE)
      BY <1>2, <2>3, FullKeeps
    <3>3. marked[s].listed => search[s].listed
      BY <1>1, <3>1
    <3> HIDE DEF marked
    <3>4. QED
      BY <3>1, <3>2, <3>3
  <2>4. QED
    BY <1>3, <2>1, <2>2, <2>3
<1>5. search'[s].listed =>
         search[s].listed /\ search'[s].state = search[s].state
  BY <1>1, <1>4 DEF Entry
<1>6. NotYet(s) => NotYet(s)'
  BY <1>4 DEF NotYet
<1>7. \/ actions' = actions
      \/ \E a \in Action : actions' = Queued(actions, a) /\ a \notin Of(s)
  <2>1. CASE ~UNCHANGED actions
    <3> DEFINE sync == [type |-> "sync", of |-> hand.of, id |-> browse[hand.of].id]
    <3>1. hand.of \in Browsed /\ actions' = Queued(actions, sync)
      BY <2>1 DEF ExecuteAnswer
    <3>2. browse[hand.of] \in BrowseEntry
      BY <3>1 DEF QueryInv, QueueTypeOK
    <3>3. sync \in Action
      BY <3>1, <3>2 DEF Action, BrowseEntry
    <3>4. sync.type = "sync" /\ \A a \in Of(s) : a.type = "search"
      BY DEF Of, SearchAction
    <3>5. QED
      BY <3>1, <3>3, <3>4
  <2>2. QED
    BY <2>1
<1>8. QED
  BY <1>1, <1>5, <1>6, <1>7, Later DEF EndKnown, Of

(* What concerns no search.                                                *)
LEMMA OtherInv ==
  ASSUME QueryInv, NEW s \in Searches,
         \/ \E b \in Browsed, what \in {"add", "end"} : AskBrowse(what, b)
         \/ \E of \in Searches \cup Browsed, last, authoritative, news \in BOOLEAN :
               AnswerComes(of, last, authoritative, news)
         \/ ExecuteBrowse \/ ExecuteSync
  PROVE  AddFirst(s)' /\ EndKnown(s)'
<1>1. EndKnown(s) /\ search' = search /\ hand' \in {hand, None}
  BY DEF QueryInv, AskBrowse, AnswerComes, ExecuteBrowse, ExecuteSync, Done
<1>2. \A a \in Of(s) : a.type = "search"
  BY DEF Of, SearchAction
<1>3. \/ actions' = actions
      \/ \E a \in Action : actions' = Queued(actions, a) /\ a \notin Of(s)
  <2>1. ASSUME NEW b \in Browsed, NEW what \in {"add", "end"}, AskBrowse(what, b)
        PROVE  \E a \in Action : actions' = Queued(actions, a) /\ a \notin Of(s)
    <3> DEFINE a == [type |-> "browse", what |-> what, of |-> b]
    <3>1. a \in Action /\ a.type = "browse"
      BY DEF Action
    <3>2. actions' = Queued(actions, a)
      BY <2>1 DEF AskBrowse
    <3> HIDE DEF a
    <3>3. QED
      BY <1>2, <3>1, <3>2
  <2>2. ASSUME NEW of \in Searches \cup Browsed, NEW last \in BOOLEAN, NEW authoritative \in BOOLEAN,
               NEW news \in BOOLEAN, AnswerComes(of, last, authoritative, news)
        PROVE  \E a \in Action : actions' = Queued(actions, a) /\ a \notin Of(s)
    <3> DEFINE a == [type |-> "answer", of |-> of, last |-> last,
                     authoritative |-> authoritative, news |-> news]
    <3>1. a \in Action /\ a.type = "answer"
      BY DEF Action
    <3>2. actions' = Queued(actions, a)
      BY <2>2 DEF AnswerComes
    <3> HIDE DEF a
    <3>3. QED
      BY <1>2, <3>1, <3>2
  <2>3. QED
    BY <2>1, <2>2 DEF ExecuteBrowse, ExecuteSync, Done
<1>4. NotYet(s) => NotYet(s)'
  BY <1>1 DEF NotYet
<1>5. QED
  BY <1>1, <1>3, <1>4, Later DEF EndKnown, Of

LEMMA QueryNextInv == QueryInv /\ [QueryNext]_<<queueVars, queryVars>> => QueryInv'
<1> SUFFICES ASSUME QueryInv, [QueryNext]_<<queueVars, queryVars>> PROVE QueryInv'
  OBVIOUS
<1>1. CASE QueryNext
  <2>1. QueueTypeOK'
    BY <1>1, TypesInv DEF QueryInv
  <2>2. CASE Receive /\ UNCHANGED queryVars
    BY <2>2, ReceiveInv
  <2>3. CASE ~(Receive /\ UNCHANGED queryVars)
    <3>1. ASSUME NEW s \in Searches PROVE AddFirst(s)' /\ EndKnown(s)'
      BY <1>1, <2>3, NewSearchInv, WatchedInv, CallerInv, ExecuteSearchInv, ExecuteAnswerInv, OtherInv
         DEF QueryNext, QueryExecute
    <3>2. QED
      BY <2>1, <3>1 DEF QueryInv
  <2>4. QED
    BY <2>2, <2>3
<1>2. CASE UNCHANGED <<queueVars, queryVars>>
  BY <1>2 DEF QueryInv, QueueTypeOK, AddFirst, EndKnown, NotYet, queueVars, queryVars
<1>3. QED
  BY <1>1, <1>2

(* The end that is queued for an address is that of the search listed      *)
(* there, and the list holds no search that was freed.                     *)
THEOREM EndsTheRightSearch == QuerySpec => []EndsItsOwn
<1>1. QueryInv => EndsItsOwn
  <2> SUFFICES ASSUME QueryInv, NEW s \in Searches, search[s].listed
               PROVE  /\ search[s].state # "free"
                      /\ SearchAction("end", s) \in Pending => search[s].state = "OFF"
    BY DEF EndsItsOwn
  <2>1. EndKnown(s) /\ DOMAIN actions = 1 .. Len(actions)
    BY DEF QueryInv, QueueTypeOK
  <2>2. QED
    BY <2>1 DEF EndKnown, Pending
<1>2. QED
  BY <1>1, QueryInitInv, QueryNextInv, PTL DEF QuerySpec

-----------------------------------------------------------------------------
(* Results.  The addresses of all hosts.                                   *)
AnyAddress == UNION {AddressesOf[h] : h \in Hosts}

(* What a list may hold.                                                   *)
Findings == [of : Instances \cup Alike \cup {Nil}, host : Hosts \cup {Nil},
             addrs : SUBSET AnyAddress, txt : Texts \cup {Nil}]

(* The addresses of a result are those of its host.                        *)
Truthful(r) == IF r.host = Nil THEN r.addrs = {} ELSE r.addrs \subseteq AddressesOf[r.host]

(* Whether a result is for something that the list does not have yet.      *)
New(list, r) ==
    /\ kind = "PTR" => \A n \in DOMAIN list : list[n].of # r.of
    /\ kind # "PTR" => \A n \in DOMAIN list : list[n].of = r.of => list[n].host # r.host
    /\ kind = "A" => list = <<>> /\ r.host = SoughtHost

(* Each service or host has one result, and a host that was asked for is   *)
(* all there is.                                                           *)
OneEach(list) ==
    /\ kind = "PTR" => \A m, n \in DOMAIN list : list[m].of = list[n].of => m = n
    /\ kind # "PTR" => \A m, n \in DOMAIN list :
                          list[m].of = list[n].of /\ list[m].host = list[n].host => m = n
    /\ kind = "A" => \A n \in DOMAIN list : list[n].host = SoughtHost

(* The list of the search is as it should be, and no longer than asked.    *)
Sound(list) ==
    /\ list \in Seq(Findings)
    /\ limit # 0 => Len(list) <= limit
    /\ OneEach(list)
    /\ \A n \in DOMAIN list : Truthful(list[n])

Wanted == kind \in {"PTR", "SRV", "TXT", "A"} /\ limit \in Limits

-----------------------------------------------------------------------------
(* The least of a set of places, or 0, is what PlaceOf takes.              *)
FirstOf(places) ==
    IF places = {} THEN 0 ELSE CHOOSE n \in places : \A m \in places : n <= m

(* The place taken is one of them, if there is any.                        *)
LEMMA FirstIsPlace ==
    ASSUME NEW places, places \subseteq Nat \ {0}
    PROVE  /\ FirstOf(places) = 0 => places = {}
           /\ FirstOf(places) # 0 => FirstOf(places) \in places
<1>1. CASE places = {}
  BY <1>1 DEF FirstOf
<1>2. CASE places # {}
  <2>1. \E n \in places : \A m \in places : n <= m
    <3>1. places \subseteq Nat
      OBVIOUS
    <3>2. QED
      BY <1>2, <3>1, LeastNumber
  <2>2. FirstOf(places) \in places
    BY <1>2, <2>1 DEF FirstOf
  <2>3. QED
    BY <1>2, <2>2
<1>3. QED
  BY <1>1, <1>2

(* The same for places of a list.                                          *)
LEMMA PlaceIsFirst ==
    ASSUME NEW list \in Seq(Findings), NEW places, places \subseteq DOMAIN list,
           NEW n, n = FirstOf(places)
    PROVE  IF n = 0 THEN places = {} ELSE n \in places
<1>1. places \subseteq Nat \ {0}
  OBVIOUS
<1>2. QED
  BY <1>1, FirstIsPlace

-----------------------------------------------------------------------------
(* A list that takes something new in front stays sound.                   *)
LEMMA AddedIsSound ==
    ASSUME Wanted, NEW list, Sound(list), NEW r \in Findings, Truthful(r), New(list, r)
    PROVE  Sound(Added(list, r))
<1>1. CASE ~Room(list)
  BY <1>1 DEF Added
<1>2. CASE Room(list)
  <2> DEFINE g == <<r>> \o list
  <2>1. /\ list \in Seq(Findings) /\ Len(list) \in Nat /\ DOMAIN list = 1..Len(list)
        /\ limit \in Nat
    BY ResultsAssumption DEF Sound, Wanted
  <2>2. PICK one : one = <<r>>
    OBVIOUS
  <2>3. one \in Seq(Findings) /\ Len(one) = 1 /\ one[1] = r
    BY <2>2
  <2>4. /\ g \in Seq(Findings) /\ Len(g) = Len(list) + 1
        /\ \A n \in 1..Len(g) : g[n] = IF n = 1 THEN r ELSE list[n - 1]
    BY <2>1, <2>2, <2>3, ConcatProperties
  <2> HIDE DEF g
  <2>5. DOMAIN g = 1..(Len(list) + 1)
    BY <2>4
  <2>6. g[1] = r /\ \A n \in DOMAIN g \ {1} : n - 1 \in DOMAIN list /\ g[n] = list[n - 1]
    BY <2>1, <2>4, <2>5
  <2>7. limit # 0 => Len(g) <= limit
    BY <1>2, <2>1, <2>4 DEF Room
  <2>8. \A n \in DOMAIN g : Truthful(g[n])
    BY <2>6 DEF Sound
  <2>9. OneEach(g)
    <3>1. kind = "PTR" => \A m, n \in DOMAIN g : g[m].of = g[n].of => m = n
      <4> SUFFICES ASSUME kind = "PTR", NEW m \in DOMAIN g, NEW n \in DOMAIN g, g[m].of = g[n].of
                   PROVE  m = n
        OBVIOUS
      <4>1. \A k \in DOMAIN list : list[k].of # r.of
        BY DEF New
      <4>2. m # 1 /\ n # 1 => m - 1 = n - 1
        BY <2>6 DEF Sound, OneEach
      <4>3. m \in Nat /\ n \in Nat
        BY <2>1, <2>5
      <4>4. QED
        BY <2>6, <4>1, <4>2, <4>3
    <3>2. kind # "PTR" => \A m, n \in DOMAIN g :
             g[m].of = g[n].of /\ g[m].host = g[n].host => m = n
      <4> SUFFICES ASSUME kind # "PTR", NEW m \in DOMAIN g, NEW n \in DOMAIN g,
                          g[m].of = g[n].of, g[m].host = g[n].host
                   PROVE  m = n
        OBVIOUS
      <4>1. \A k \in DOMAIN list : list[k].of = r.of => list[k].host # r.host
        BY DEF New
      <4>2. m # 1 /\ n # 1 => m - 1 = n - 1
        BY <2>6 DEF Sound, OneEach
      <4>3. m \in Nat /\ n \in Nat
        BY <2>1, <2>5
      <4>4. QED
        BY <2>6, <4>1, <4>2, <4>3
    <3>3. kind = "A" => \A n \in DOMAIN g : g[n].host = SoughtHost
      BY <2>6 DEF Sound, OneEach, New
    <3>4. QED
      BY <3>1, <3>2, <3>3 DEF OneEach
  <2>10. Sound(g)
    BY <2>4, <2>7, <2>8, <2>9 DEF Sound
  <2>11. QED
    BY <1>2, <2>10 DEF Added, g
<1>3. QED
  BY <1>1, <1>2

(* A list whose results change in text, address or first host stays sound. *)
LEMMA ChangedIsSound ==
    ASSUME NEW list, Sound(list), NEW g \in Seq(Findings), Len(g) = Len(list),
           \A n \in DOMAIN list : g[n].of = list[n].of /\ Truthful(g[n]),
           kind # "PTR" => \A n \in DOMAIN list : g[n].host = list[n].host
    PROVE  Sound(g)
<1>1. list \in Seq(Findings) /\ DOMAIN g = DOMAIN list
  BY DEF Sound
<1>2. OneEach(g)
  BY <1>1 DEF Sound, OneEach
<1>3. QED
  BY <1>1, <1>2 DEF Sound

(* What each kind of record makes of a sound list is sound.                *)
LEMMA PtrIsSound ==
    ASSUME Wanted, kind # "A", NEW list, Sound(list), NEW i \in Instances \cup Alike
    PROVE  Sound(AddPtr(list, i))
<1>1. CASE Knows(list, i)
  BY <1>1 DEF AddPtr
<1>2. CASE ~Knows(list, i)
  <2>1. PICK r : r = Result(i)
    OBVIOUS
  <2>2. r \in Findings /\ Truthful(r) /\ r.of = i
    BY <2>1 DEF Result, Unknown, Findings, Truthful
  <2>3. New(list, r)
    BY <1>2, <2>2 DEF New, Knows
  <2>4. Sound(Added(list, r))
    BY <2>2, <2>3, AddedIsSound
  <2>5. QED
    BY <1>2, <2>1, <2>4 DEF AddPtr
<1>3. QED
  BY <1>1, <1>2

(* A host goes to the service, or makes a result of its own.               *)
LEMMA SrvIsSound ==
    ASSUME Wanted, kind # "A", NEW list, Sound(list), NEW i \in Instances \cup Alike,
           NEW h \in Hosts
    PROVE  Sound(AddSrv(list, i, h))
<1>1. CASE kind = "PTR"
  <2>1. PICK known : known = AddPtr(list, i)
    OBVIOUS
  <2>2. Sound(known)
    BY <1>1, <2>1, PtrIsSound
  <2> DEFINE g == [n \in DOMAIN known |-> IF known[n].of = i /\ known[n].host = Nil
                                    THEN [known[n] EXCEPT !.host = h] ELSE known[n]]
  <2>3. known \in Seq(Findings)
    BY <2>2 DEF Sound
  <2>4. \A n \in DOMAIN known : g[n].of = known[n].of /\ Truthful(g[n]) /\ g[n] \in Findings
    <3> SUFFICES ASSUME NEW n \in DOMAIN known
                 PROVE  g[n].of = known[n].of /\ Truthful(g[n]) /\ g[n] \in Findings
      OBVIOUS
    <3>1. known[n] \in Findings /\ Truthful(known[n])
      BY <2>2, <2>3 DEF Sound
    <3>2. CASE known[n].of = i /\ known[n].host = Nil
      <4>1. g[n] = [known[n] EXCEPT !.host = h]
        BY <3>2
      <4>2. known[n].addrs = {}
        BY <3>1, <3>2 DEF Truthful
      <4>3. g[n] \in Findings /\ g[n].of = known[n].of /\ g[n].addrs = {} /\ g[n].host = h
        BY <3>1, <4>1, <4>2 DEF Findings
      <4>4. QED
        BY <4>3 DEF Truthful
    <3>3. CASE ~(known[n].of = i /\ known[n].host = Nil)
      BY <3>1, <3>3
    <3>4. QED
      BY <3>2, <3>3
  <2>5. g \in Seq(Findings) /\ Len(g) = Len(known)
    <3>1. DOMAIN g = 1..Len(known) /\ Len(known) \in Nat
      BY <2>3
    <3>2. g \in [1..Len(known) -> Findings]
      BY <2>3, <2>4
    <3> HIDE DEF g
    <3>3. QED
      BY <3>1, <3>2
  <2> HIDE DEF g
  <2>6. Sound(g)
    BY <1>1, <2>2, <2>4, <2>5, ChangedIsSound
  <2>7. QED
    BY <1>1, <2>1, <2>6 DEF AddSrv, g
<1>2. CASE kind # "PTR"
  <2>1. CASE \E n \in DOMAIN list : list[n].host = h
    BY <1>2, <2>1 DEF AddSrv
  <2>2. CASE ~\E n \in DOMAIN list : list[n].host = h
    <3>1. PICK r : r = [Result(SoughtService) EXCEPT !.host = h]
      OBVIOUS
    <3>2. r \in Findings /\ r.addrs = {} /\ r.host = h
      BY <3>1, ResultsAssumption DEF Result, Unknown, Findings
    <3>3. Truthful(r) /\ New(list, r)
      BY <1>2, <2>2, <3>2 DEF New, Truthful
    <3>4. Sound(Added(list, r))
      BY <3>2, <3>3, AddedIsSound
    <3>5. QED
      BY <1>2, <2>2, <3>1, <3>4 DEF AddSrv
  <2>3. QED
    BY <2>1, <2>2
<1>3. QED
  BY <1>1, <1>2

(* A text goes where there is none yet.                                    *)
LEMMA TxtIsSound ==
    ASSUME Wanted, kind # "A", NEW list, Sound(list), NEW i \in Instances \cup Alike,
           NEW t \in Texts
    PROVE  Sound(AddTxt(list, i, t))
<1>1. CASE kind # "PTR" /\ list = <<>>
  <2>1. PICK r : r = [Unknown EXCEPT !.txt = t]
    OBVIOUS
  <2>2. r \in Findings /\ r.addrs = {} /\ r.host = Nil
    BY <2>1 DEF Unknown, Findings
  <2>3. DOMAIN list = {}
    BY <1>1
  <2>4. Truthful(r) /\ New(list, r)
    BY <1>1, <2>2, <2>3 DEF New, Truthful
  <2>5. Sound(Added(list, r))
    BY <2>2, <2>4, AddedIsSound
  <2>6. QED
    BY <1>1, <2>1, <2>5 DEF AddTxt
<1>2. CASE ~(kind # "PTR" /\ list = <<>>)
  <2>1. PICK known : known = IF kind = "PTR" THEN AddPtr(list, i) ELSE list
    OBVIOUS
  <2>2. Sound(known)
    BY <2>1, PtrIsSound
  <2> DEFINE g == [n \in DOMAIN known |->
                      IF /\ IF kind = "PTR" THEN known[n].of = i ELSE n = 1
                         /\ known[n].txt = Nil
                      THEN [known[n] EXCEPT !.txt = t] ELSE known[n]]
  <2>3. known \in Seq(Findings)
    BY <2>2 DEF Sound
  <2>4. \A n \in DOMAIN known : /\ g[n].of = known[n].of /\ g[n].host = known[n].host
                                /\ Truthful(g[n]) /\ g[n] \in Findings
    <3> SUFFICES ASSUME NEW n \in DOMAIN known
                 PROVE  /\ g[n].of = known[n].of /\ g[n].host = known[n].host
                        /\ Truthful(g[n]) /\ g[n] \in Findings
      OBVIOUS
    <3>1. known[n] \in Findings /\ Truthful(known[n])
      BY <2>2, <2>3 DEF Sound
    <3>2. CASE g[n] = [known[n] EXCEPT !.txt = t]
      <4>1. /\ g[n] \in Findings /\ g[n].of = known[n].of
            /\ g[n].addrs = known[n].addrs /\ g[n].host = known[n].host
        BY <3>1, <3>2 DEF Findings
      <4>2. QED
        BY <3>1, <4>1 DEF Truthful
    <3>3. CASE g[n] = known[n]
      BY <3>1, <3>3
    <3>4. QED
      BY <3>2, <3>3
  <2>5. g \in Seq(Findings) /\ Len(g) = Len(known)
    <3>1. DOMAIN g = 1..Len(known) /\ Len(known) \in Nat
      BY <2>3
    <3>2. g \in [1..Len(known) -> Findings]
      BY <2>3, <2>4
    <3> HIDE DEF g
    <3>3. QED
      BY <3>1, <3>2
  <2> HIDE DEF g
  <2>6. Sound(g)
    BY <2>2, <2>4, <2>5, ChangedIsSound
  <2>7. QED
    BY <1>2, <2>1, <2>6 DEF AddTxt, g
<1>3. QED
  BY <1>1, <1>2

(* An address goes to a result of its host, or makes one.                  *)
LEMMA IpIsSound ==
    ASSUME Wanted, NEW list, Sound(list), NEW h \in Hosts, NEW a \in AddressesOf[h],
           kind = "A" => h = SoughtHost
    PROVE  Sound(AddIp(list, h, a))
<1>0. list \in Seq(Findings) /\ a \in AnyAddress /\ h # Nil
  BY ResultsAssumption DEF Sound, AnyAddress
<1> DEFINE places == {m \in DOMAIN list : kind = "A" \/ list[m].host = h}
<1>1. PICK n : n = FirstOf(places)
  OBVIOUS
<1>2. /\ n = 0 => \A m \in DOMAIN list : kind # "A" /\ list[m].host # h
      /\ n # 0 => n \in DOMAIN list /\ (kind = "A" \/ list[n].host = h)
  <2>1. IF n = 0 THEN places = {} ELSE n \in places
    <3>1. places \subseteq DOMAIN list
      OBVIOUS
    <3> HIDE DEF places
    <3>2. QED
      BY <1>0, <1>1, <3>1, PlaceIsFirst
  <2>2. QED
    BY <2>1
<1>20. n = PlaceOf(list, LAMBDA r : kind = "A" \/ r.host = h)
  BY <1>1 DEF PlaceOf, FirstOf
<1>3. CASE n # 0
  <2> DEFINE g == [list EXCEPT ![n].addrs = @ \cup {a}]
  <2>1. list[n].host = h
    BY <1>2, <1>3, ResultsAssumption DEF Sound, OneEach
  <2>2. list[n] \in Findings /\ Truthful(list[n])
    BY <1>0, <1>2, <1>3 DEF Sound
  <2>3. /\ g[n] = [list[n] EXCEPT !.addrs = @ \cup {a}]
        /\ \A m \in DOMAIN list \ {n} : g[m] = list[m]
    BY <1>2, <1>3
  <2>4. /\ g[n] \in Findings /\ g[n].of = list[n].of /\ g[n].host = h
        /\ g[n].addrs = list[n].addrs \cup {a}
    BY <1>0, <2>1, <2>2, <2>3 DEF Findings
  <2>5. Truthful(g[n])
    BY <1>0, <2>1, <2>2, <2>4 DEF Truthful
  <2>6. g \in Seq(Findings) /\ Len(g) = Len(list)
    BY <1>0, <1>2, <1>3, <2>3, <2>4
  <2> HIDE DEF g
  <2>7. Sound(g)
    <3>1. \A m \in DOMAIN list : g[m].of = list[m].of /\ g[m].host = list[m].host /\ Truthful(g[m])
      BY <2>1, <2>3, <2>4, <2>5 DEF Sound
    <3>2. QED
      BY <2>6, <3>1, ChangedIsSound
  <2>8. QED
    BY <1>20, <1>3, <2>7 DEF AddIp, g
<1>4. CASE n = 0 /\ kind = "A"
  <2>1. PICK r : r = [Unknown EXCEPT !.host = h, !.addrs = {a}]
    OBVIOUS
  <2>2. r \in Findings /\ r.host = h /\ r.addrs = {a}
    BY <1>0, <2>1 DEF Unknown, Findings
  <2>3. list = <<>>
    <3>1. DOMAIN list = {}
      BY <1>2, <1>4
    <3>2. Len(list) = 0
      BY <1>0, <3>1
    <3>3. QED
      BY <1>0, <3>2
  <2>4. Truthful(r) /\ New(list, r)
    BY <1>0, <1>4, <2>2, <2>3 DEF Truthful, New
  <2>5. Sound(Added(list, r))
    BY <2>2, <2>4, AddedIsSound
  <2>6. QED
    BY <1>20, <1>4, <2>1, <2>5 DEF AddIp
<1>5. CASE n = 0 /\ kind # "A"
  BY <1>20, <1>5 DEF AddIp
<1>6. QED
  BY <1>3, <1>4, <1>5

(* Whatever record the search is handed, its list stays sound.             *)
LEMMA AnsweredIsSound ==
    ASSUME Wanted, NEW list, Sound(list), NEW record \in Records,
           kind = "A" => record.type = "A" /\ record.host = SoughtHost
    PROVE  Sound(Answered(list, record))
<1>1. CASE record.type = "PTR"
  <2>1. record.of \in Instances \cup Alike /\ kind # "A"
    BY <1>1 DEF Records, Record
  <2>2. Sound(AddPtr(list, record.of))
    BY <2>1, PtrIsSound
  <2>3. QED
    BY <1>1, <2>2 DEF Answered
<1>2. CASE record.type = "SRV"
  <2>1. record.of \in Instances \cup Alike /\ record.host \in Hosts /\ kind # "A"
    BY <1>2, ResultsAssumption DEF Records, Record
  <2>2. Sound(AddSrv(list, record.of, record.host))
    BY <2>1, SrvIsSound
  <2>3. QED
    BY <1>2, <2>2 DEF Answered
<1>3. CASE record.type = "TXT"
  <2>1. record.of \in Instances \cup Alike /\ record.data \in Texts /\ kind # "A"
    BY <1>3, ResultsAssumption DEF Records, Record
  <2>2. Sound(AddTxt(list, record.of, record.data))
    BY <2>1, TxtIsSound
  <2>3. QED
    BY <1>3, <2>2 DEF Answered
<1>4. CASE record.type = "A"
  <2>1. record.host \in Hosts /\ record.data \in AddressesOf[record.host]
    BY <1>4 DEF Records, Record
  <2>2. Sound(AddIp(list, record.host, record.data))
    BY <2>1, IpIsSound
  <2>3. QED
    BY <1>4, <2>2 DEF Answered
<1>5. record.type \in {"PTR", "SRV", "TXT", "A"}
  BY DEF Records, Record
<1>6. QED
  BY <1>1, <1>2, <1>3, <1>4, <1>5

-----------------------------------------------------------------------------
(* The list of the browse: one result for each service it knows of.        *)
Distinct(list) ==
    /\ list \in Seq(Findings)
    /\ \A n \in DOMAIN list : list[n].of \in Instances
    /\ \A m, n \in DOMAIN list : list[m].of = list[n].of => m = n

Listed(list) == {list[n].of : n \in DOMAIN list}

(* Nothing that is told of a result changes, but for its first text.       *)
Same(r, s) ==
    /\ r.of = s.of /\ r.host = s.host /\ r.addrs = s.addrs
    /\ r.txt # Nil => r.txt = s.txt

(* From one list to a later one: nothing goes, and what changed is news.   *)
Grown(old, list, news) ==
    /\ Distinct(list)
    /\ news \subseteq Listed(list) /\ Listed(old) \subseteq Listed(list)
    /\ \A n \in DOMAIN list :
          list[n].of \in news \/ \E m \in DOMAIN old : Same(old[m], list[n])

(* A list that stays has not lost or changed anything.                     *)
LEMMA StaysGrown ==
    ASSUME NEW list, Distinct(list)
    PROVE  Grown(list, list, {})
BY DEF Grown, Same

(* Growing twice is growing.                                               *)
LEMMA GrowsFurther ==
    ASSUME NEW old, NEW list, NEW news, NEW next, NEW more,
           Grown(old, list, news), Grown(list, next, more)
    PROVE  Grown(old, next, news \cup more)
<1>1. Distinct(next) /\ news \cup more \subseteq Listed(next) /\ Listed(old) \subseteq Listed(next)
  BY DEF Grown
<1>2. ASSUME NEW n \in DOMAIN next, next[n].of \notin news \cup more
      PROVE  \E m \in DOMAIN old : Same(old[m], next[n])
  <2>1. PICK k \in DOMAIN list : Same(list[k], next[n])
    BY <1>2 DEF Grown
  <2>2. list[k].of \notin news
    BY <1>2, <2>1 DEF Same
  <2>3. PICK m \in DOMAIN old : Same(old[m], list[k])
    BY <2>2 DEF Grown
  <2>4. Same(old[m], next[n])
    BY <2>1, <2>3 DEF Same
  <2>5. QED
    BY <2>4
<1>3. QED
  BY <1>1, <1>2 DEF Grown

(* A result for a service that was unknown is news.                        *)
LEMMA GrowsInFront ==
    ASSUME NEW list, Distinct(list), NEW r \in Findings, r.of \in Instances,
           r.of \notin Listed(list)
    PROVE  Grown(list, <<r>> \o list, {r.of})
<1> DEFINE g == <<r>> \o list
<1>1. list \in Seq(Findings) /\ Len(list) \in Nat /\ DOMAIN list = 1..Len(list)
  BY DEF Distinct
<1>2. PICK one : one = <<r>>
  OBVIOUS
<1>3. one \in Seq(Findings) /\ Len(one) = 1 /\ one[1] = r
  BY <1>2
<1>4. /\ g \in Seq(Findings) /\ Len(g) = Len(list) + 1
      /\ \A n \in 1..Len(g) : g[n] = IF n = 1 THEN r ELSE list[n - 1]
  BY <1>1, <1>2, <1>3, ConcatProperties
<1> HIDE DEF g
<1>5. DOMAIN g = 1..(Len(list) + 1)
  BY <1>4
<1>6. g[1] = r /\ \A n \in DOMAIN g \ {1} : n - 1 \in DOMAIN list /\ g[n] = list[n - 1]
  BY <1>1, <1>4, <1>5
<1>7. \A m, n \in DOMAIN g : g[m].of = g[n].of => m = n
  <2> SUFFICES ASSUME NEW m \in DOMAIN g, NEW n \in DOMAIN g, g[m].of = g[n].of
               PROVE  m = n
    OBVIOUS
  <2>1. \A k \in DOMAIN list : list[k].of # r.of
    BY DEF Listed
  <2>2. m # 1 /\ n # 1 => m - 1 = n - 1
    BY <1>6 DEF Distinct
  <2>3. m \in Nat /\ n \in Nat
    BY <1>1, <1>5
  <2>4. QED
    BY <1>6, <2>1, <2>2, <2>3
<1>8. Distinct(g)
  BY <1>4, <1>6, <1>7 DEF Distinct
<1>9. 1 \in DOMAIN g /\ \A n \in DOMAIN list : n + 1 \in DOMAIN g /\ g[n + 1] = list[n]
  <2>1. 1 \in DOMAIN g /\ \A n \in DOMAIN list : n + 1 \in DOMAIN g /\ n + 1 # 1
    BY <1>1, <1>5
  <2>2. QED
    BY <1>1, <1>4, <1>5, <2>1
<1>10. {r.of} \subseteq Listed(g) /\ Listed(list) \subseteq Listed(g)
  BY <1>6, <1>9 DEF Listed
<1>11. \A n \in DOMAIN g : g[n].of \in {r.of} \/ \E m \in DOMAIN list : Same(list[m], g[n])
  BY <1>6 DEF Same
<1>12. QED
  BY <1>8, <1>10, <1>11 DEF Grown, g

(* A result that changes is news, but for its first text.                  *)
LEMMA GrowsInPlace ==
    ASSUME NEW list, Distinct(list), NEW n \in DOMAIN list, NEW r \in Findings,
           r.of = list[n].of, NEW news, news = {r.of} \/ (news = {} /\ Same(list[n], r))
    PROVE  Grown(list, [list EXCEPT ![n] = r], news)
<1> DEFINE g == [list EXCEPT ![n] = r]
<1>1. list \in Seq(Findings)
  BY DEF Distinct
<1>2. /\ g \in Seq(Findings) /\ DOMAIN g = DOMAIN list /\ g[n] = r
      /\ \A m \in DOMAIN list \ {n} : g[m] = list[m]
  BY <1>1
<1> HIDE DEF g
<1>3. \A m \in DOMAIN list : g[m].of = list[m].of
  BY <1>2
<1>4. Distinct(g) /\ Listed(g) = Listed(list) /\ r.of \in Listed(g)
  BY <1>2, <1>3 DEF Distinct, Listed
<1>5. \A m \in DOMAIN g : g[m].of \in news \/ \E k \in DOMAIN list : Same(list[k], g[m])
  <2> SUFFICES ASSUME NEW m \in DOMAIN g, g[m].of \notin news
               PROVE  Same(list[m], g[m])
    BY <1>2
  <2>1. CASE m = n
    BY <1>2, <2>1
  <2>2. CASE m # n
    BY <1>2, <2>2 DEF Same
  <2>3. QED
    BY <2>1, <2>2
<1>6. QED
  BY <1>4, <1>5 DEF Grown, g

(* A host, ...                                                             *)
LEMMA BrowseSrvGrows ==
    ASSUME NEW list, Distinct(list), NEW i \in Instances, NEW h \in Hosts
    PROVE  Grown(list, BrowseSrv(list, i, h).list, BrowseSrv(list, i, h).news)
<1> DEFINE places == {m \in DOMAIN list : list[m].of = i}
<1>0. list \in Seq(Findings)
  BY DEF Distinct
<1>1. PICK n : n = FirstOf(places)
  OBVIOUS
<1>2. IF n = 0 THEN places = {} ELSE n \in places
  <2>1. places \subseteq DOMAIN list
    OBVIOUS
  <2> HIDE DEF places
  <2>2. QED
    BY <1>0, <1>1, <2>1, PlaceIsFirst
<1>3. n = PlaceOf(list, LAMBDA r : r.of = i)
  BY <1>1 DEF PlaceOf, FirstOf
<1>4. CASE n = 0
  <2>1. PICK r : r = [Result(i) EXCEPT !.host = h]
    OBVIOUS
  <2>2. r \in Findings /\ r.of = i
    BY <2>1 DEF Result, Unknown, Findings
  <2>3. i \notin Listed(list)
    BY <1>2, <1>4 DEF Listed
  <2>4. Grown(list, <<r>> \o list, {r.of})
    BY <2>2, <2>3, GrowsInFront
  <2>5. BrowseSrv(list, i, h) = Outcome(<<r>> \o list, {i})
    BY <1>3, <1>4, <2>1 DEF BrowseSrv
  <2>6. QED
    BY <2>2, <2>4, <2>5 DEF Outcome
<1>5. CASE n # 0 /\ list[n].host = h
  <2>1. BrowseSrv(list, i, h) = Outcome(list, {})
    BY <1>3, <1>5 DEF BrowseSrv, Unchanged
  <2>2. QED
    BY <2>1, StaysGrown DEF Outcome
<1>6. CASE n # 0 /\ list[n].host # h
  <2>1. n \in DOMAIN list /\ list[n].of = i /\ list[n] \in Findings
    BY <1>0, <1>2, <1>6
  <2>2. PICK r : r = [list[n] EXCEPT !.host = h,
                              !.addrs = IF @ = {} THEN AddressesAt(list, h) ELSE @]
    OBVIOUS
  <2>3. AddressesAt(list, h) \subseteq AnyAddress
    <3> DEFINE homes == {m \in DOMAIN list : list[m].host = h /\ list[m].addrs # {}}
    <3>1. PICK k : k = FirstOf(homes)
      OBVIOUS
    <3>2. IF k = 0 THEN homes = {} ELSE k \in homes
      <4>1. homes \subseteq DOMAIN list
        OBVIOUS
      <4> HIDE DEF homes
      <4>2. QED
        BY <1>0, <3>1, <4>1, PlaceIsFirst
    <3>3. k = PlaceOf(list, LAMBDA s : s.host = h /\ s.addrs # {})
      BY <3>1 DEF PlaceOf, FirstOf
    <3>4. CASE k = 0
      BY <3>3, <3>4 DEF AddressesAt
    <3>5. CASE k # 0
      <4>1. list[k] \in Findings
        BY <1>0, <3>2, <3>5
      <4>2. AddressesAt(list, h) = list[k].addrs
        BY <3>3, <3>5 DEF AddressesAt
      <4>3. QED
        BY <4>1, <4>2 DEF Findings
    <3>6. QED
      BY <3>4, <3>5
  <2>4. r \in Findings /\ r.of = list[n].of
    BY <2>1, <2>2, <2>3 DEF Findings
  <2>5. Grown(list, [list EXCEPT ![n] = r], {r.of})
    BY <2>1, <2>4, GrowsInPlace
  <2>6. BrowseSrv(list, i, h) = Outcome([list EXCEPT ![n] = r], {i})
    BY <1>0, <1>3, <1>6, <2>1, <2>2 DEF BrowseSrv
  <2>7. QED
    BY <2>1, <2>4, <2>5, <2>6 DEF Outcome
<1>7. QED
  BY <1>4, <1>5, <1>6

(* ... a text ...                                                          *)
LEMMA BrowseTxtGrows ==
    ASSUME NEW list, Distinct(list), NEW i \in Instances, NEW t \in Texts
    PROVE  Grown(list, BrowseTxt(list, i, t).list, BrowseTxt(list, i, t).news)
<1> DEFINE places == {m \in DOMAIN list : list[m].of = i}
<1>0. list \in Seq(Findings)
  BY DEF Distinct
<1>1. PICK n : n = FirstOf(places)
  OBVIOUS
<1>2. IF n = 0 THEN places = {} ELSE n \in places
  <2>1. places \subseteq DOMAIN list
    OBVIOUS
  <2> HIDE DEF places
  <2>2. QED
    BY <1>0, <1>1, <2>1, PlaceIsFirst
<1>3. n = PlaceOf(list, LAMBDA r : r.of = i)
  BY <1>1 DEF PlaceOf, FirstOf
<1>4. CASE n = 0
  <2>1. PICK r : r = [Result(i) EXCEPT !.txt = t]
    OBVIOUS
  <2>2. r \in Findings /\ r.of = i
    BY <2>1 DEF Result, Unknown, Findings
  <2>3. i \notin Listed(list)
    BY <1>2, <1>4 DEF Listed
  <2>4. Grown(list, <<r>> \o list, {r.of})
    BY <2>2, <2>3, GrowsInFront
  <2>5. BrowseTxt(list, i, t) = Outcome(<<r>> \o list, {i})
    BY <1>3, <1>4, <2>1 DEF BrowseTxt
  <2>6. QED
    BY <2>2, <2>4, <2>5 DEF Outcome
<1>5. CASE n # 0
  <2>1. n \in DOMAIN list /\ list[n].of = i /\ list[n] \in Findings
    BY <1>0, <1>2, <1>5
  <2>2. PICK r : r = [list[n] EXCEPT !.txt = t]
    OBVIOUS
  <2>3. /\ r \in Findings /\ r.of = list[n].of /\ r.host = list[n].host
        /\ r.addrs = list[n].addrs /\ r.txt = t
    BY <2>1, <2>2 DEF Findings
  <2>4. PICK news : news = IF list[n].txt \in {Nil, t} THEN {} ELSE {i}
    OBVIOUS
  <2>5. news = {r.of} \/ (news = {} /\ Same(list[n], r))
    BY <2>1, <2>3, <2>4 DEF Same
  <2>6. Grown(list, [list EXCEPT ![n] = r], news)
    BY <2>1, <2>3, <2>5, GrowsInPlace
  <2>7. [list EXCEPT ![n] = r] = [list EXCEPT ![n].txt = t]
    BY <2>1, <2>2
  <2>8. BrowseTxt(list, i, t) = Outcome([list EXCEPT ![n] = r], news)
    BY <1>3, <1>5, <2>4, <2>7 DEF BrowseTxt
  <2>9. QED
    BY <2>6, <2>8 DEF Outcome
<1>6. QED
  BY <1>4, <1>5

(* ... and an address change the list that way, ...                        *)
LEMMA BrowseIpGrows ==
    ASSUME NEW list, Distinct(list), NEW h \in Hosts, NEW a \in AddressesOf[h]
    PROVE  Grown(list, BrowseIp(list, h, a).list, BrowseIp(list, h, a).news)
<1> DEFINE places == {m \in DOMAIN list : list[m].host = h /\ a \notin list[m].addrs}
<1>0. list \in Seq(Findings)
  BY DEF Distinct
<1>1. PICK n : n = FirstOf(places)
  OBVIOUS
<1>2. IF n = 0 THEN places = {} ELSE n \in places
  <2>1. places \subseteq DOMAIN list
    OBVIOUS
  <2> HIDE DEF places
  <2>2. QED
    BY <1>0, <1>1, <2>1, PlaceIsFirst
<1>3. n = PlaceOf(list, LAMBDA r : r.host = h /\ a \notin r.addrs)
  BY <1>1 DEF PlaceOf, FirstOf
<1>4. CASE n = 0
  <2>1. BrowseIp(list, h, a) = Outcome(list, {})
    BY <1>3, <1>4 DEF BrowseIp, Unchanged
  <2>2. QED
    BY <2>1, StaysGrown DEF Outcome
<1>5. CASE n # 0
  <2>1. n \in DOMAIN list /\ list[n] \in Findings
    BY <1>0, <1>2, <1>5
  <2>2. PICK r : r = [list[n] EXCEPT !.addrs = @ \cup {a}]
    OBVIOUS
  <2>3. r \in Findings /\ r.of = list[n].of
    BY <2>1, <2>2 DEF Findings, AnyAddress
  <2>4. Grown(list, [list EXCEPT ![n] = r], {r.of})
    BY <2>1, <2>3, GrowsInPlace
  <2>5. [list EXCEPT ![n] = r] = [list EXCEPT ![n].addrs = @ \cup {a}]
    BY <2>1, <2>2
  <2>6. BrowseIp(list, h, a) = Outcome([list EXCEPT ![n] = r], {r.of})
    BY <1>3, <1>5, <2>3, <2>5 DEF BrowseIp
  <2>7. QED
    BY <2>4, <2>6 DEF Outcome
<1>6. QED
  BY <1>4, <1>5

(* ... and so does any record, for the service that was named.             *)
LEMMA BrowseGrows ==
    ASSUME NEW list, Distinct(list), NEW record \in Records, NEW i,
           record.type \in {"SRV", "TXT"} => i \in Instances
    PROVE  Grown(list, Browse(list, record, i).list, Browse(list, record, i).news)
<1>1. CASE record.type = "PTR"
  <2>1. Browse(list, record, i) = Outcome(list, {})
    BY <1>1 DEF Browse, Unchanged
  <2>2. QED
    BY <2>1, StaysGrown DEF Outcome
<1>2. CASE record.type = "SRV"
  <2>1. i \in Instances /\ record.host \in Hosts
    BY <1>2 DEF Records, Record
  <2>2. QED
    BY <1>2, <2>1, BrowseSrvGrows DEF Browse
<1>3. CASE record.type = "TXT"
  <2>1. i \in Instances /\ record.data \in Texts
    BY <1>3 DEF Records, Record
  <2>2. QED
    BY <1>3, <2>1, BrowseTxtGrows DEF Browse
<1>4. CASE record.type = "A"
  <2>1. record.host \in Hosts /\ record.data \in AddressesOf[record.host]
    BY <1>4 DEF Records, Record
  <2>2. QED
    BY <1>4, <2>1, BrowseIpGrows DEF Browse
<1>5. record.type \in {"PTR", "SRV", "TXT", "A"}
  BY DEF Records, Record
<1>6. QED
  BY <1>1, <1>2, <1>3, <1>4, <1>5

-----------------------------------------------------------------------------
(* What a packet may leave, from lists that are as they should be.  A      *)
(* search for a host is never carried over to another record.              *)
Reading ==
    [found : Seq(Findings), seen : Seq(Findings), news : SUBSET Instances,
     search : BOOLEAN, browse : BOOLEAN, named : Instances \cup {Nil}, faulted : BOOLEAN]
Keeping(state) ==
    /\ state \in Reading
    /\ Sound(state.found) /\ Grown(seen, state.seen, state.news)
    /\ kind = "A" => ~state.search

(* Looking up changes nothing but who the record is for, and a search for  *)
(* a host gets no records but its addresses.                               *)
LEMMA LookedUpKeeps ==
    ASSUME Wanted, NEW state, Keeping(state), NEW record \in Records
    PROVE  /\ LookedUp(state, record) \in Reading
           /\ LookedUp(state, record).found = state.found
           /\ LookedUp(state, record).seen = state.seen
           /\ LookedUp(state, record).news = state.news
           /\ kind = "A" /\ LookedUp(state, record).search =>
                 record.type = "A" /\ record.host = SoughtHost
<1>1. state \in Reading
  BY DEF Keeping
<1>2. CASE Ours(record)
  BY <1>1, <1>2 DEF LookedUp, Keeping
<1>3. CASE ~Ours(record)
  <2>1. PICK looks \in BOOLEAN : looks = (searching /\ Finds(state.found, record))
    OBVIOUS
  <2>2. PICK browsed \in BOOLEAN : browsed = Browses(state.seen, record)
    BY DEF Browses
  <2>3. PICK named : named = IF browsed /\ record.type # "A" THEN record.of ELSE state.named
    OBVIOUS
  <2>4. named \in Instances \cup {Nil}
    <3>1. record.type \in {"PTR", "SRV", "TXT", "A"}
      BY DEF Records, Record
    <3>2. browsed /\ record.type # "A" => record.of \in Instances
      BY <2>2, <3>1 DEF Browses
    <3>3. QED
      BY <1>1, <2>3, <3>2 DEF Reading
  <2>5. LookedUp(state, record) = [state EXCEPT !.search = looks, !.browse = browsed, !.named = named]
    BY <1>3, <2>1, <2>2, <2>3 DEF LookedUp
  <2>6. /\ LookedUp(state, record) \in Reading
        /\ LookedUp(state, record).found = state.found
        /\ LookedUp(state, record).seen = state.seen
        /\ LookedUp(state, record).news = state.news
        /\ LookedUp(state, record).search = looks
    BY <1>1, <2>4, <2>5 DEF Reading
  <2>7. kind = "A" /\ looks => record.type = "A" /\ record.host = SoughtHost
    <3>1. record.type \in {"PTR", "SRV", "TXT", "A"}
      BY DEF Records, Record
    <3>2. QED
      BY <2>1, <3>1 DEF Finds
  <2>8. QED
    BY <2>6, <2>7
<1>4. QED
  BY <1>2, <1>3

(* A record leaves both lists as they should be.                           *)
LEMMA HeardKeeps ==
    ASSUME Wanted, NEW before, Keeping(before), NEW record \in Records
    PROVE  Keeping(Heard(before, record))
<1>1. PICK state : state = LookedUp(before, record)
  OBVIOUS
<1>2. /\ state \in Reading /\ Sound(state.found) /\ Grown(seen, state.seen, state.news)
      /\ kind = "A" /\ state.search => record.type = "A" /\ record.host = SoughtHost
  BY <1>1, LookedUpKeeps DEF Keeping
<1>3. record.type \in {"PTR", "SRV", "TXT", "A"}
  BY DEF Records, Record
<1>4. CASE before.faulted
  BY <1>4 DEF Heard
<1>5. CASE ~before.faulted /\ Skipped(state, record)
  <2>1. Heard(before, record) = state
    BY <1>1, <1>5 DEF Heard
  <2>2. kind # "A"
    BY <1>5 DEF Skipped
  <2>3. QED
    BY <1>2, <2>1, <2>2 DEF Keeping
<1>6. CASE ~before.faulted /\ ~Skipped(state, record) /\ Faults(state, record)
  <2>1. Heard(before, record) = [state EXCEPT !.faulted = TRUE]
    BY <1>1, <1>6 DEF Heard
  <2>2. PICK next : next = [state EXCEPT !.faulted = TRUE]
    OBVIOUS
  <2>3. /\ next \in Reading /\ next.found = state.found /\ next.seen = state.seen
        /\ next.news = state.news /\ next.search = state.search
    BY <1>2, <2>2 DEF Reading
  <2>4. kind = "A" => ~state.search
    BY <1>2, <1>6 DEF Faults
  <2>5. QED
    BY <1>2, <2>1, <2>2, <2>3, <2>4 DEF Keeping
<1>7. CASE ~before.faulted /\ ~Skipped(state, record) /\ ~Faults(state, record)
  <2>1. PICK list, news, next, more :
           /\ list = state.seen /\ news = state.news
           /\ next = (IF state.browse THEN Browse(list, record, state.named) ELSE Unchanged(list)).list
           /\ more = (IF state.browse THEN Browse(list, record, state.named) ELSE Unchanged(list)).news
    OBVIOUS
  <2>2. PICK result, grown, further :
           /\ result = IF state.search THEN Answered(state.found, record) ELSE state.found
           /\ grown = news \cup more
           /\ further = (state.search /\ record.type # "A")
    OBVIOUS
  <2>3. Heard(before, record) = [state EXCEPT !.found = result, !.seen = next,
                                              !.news = grown, !.search = further]
    BY <1>1, <1>7, <2>1, <2>2 DEF Heard
  <2>4. Sound(result)
    <3>1. PICK old : old = state.found
      OBVIOUS
    <3>2. CASE state.search
      <4>1. Sound(Answered(old, record))
        BY <1>2, <3>1, <3>2, AnsweredIsSound
      <4>2. QED
        BY <2>2, <3>1, <3>2, <4>1
    <3>3. CASE ~state.search
      BY <1>2, <2>2, <3>3
    <3>4. QED
      BY <3>2, <3>3
  <2>5. Grown(seen, list, news) /\ Distinct(list)
    BY <1>2, <2>1 DEF Grown
  <2>6. Grown(list, next, more)
    <3>1. CASE state.browse
      <4>1. PICK i : i = state.named
        OBVIOUS
      <4>2. record.type \in {"SRV", "TXT"} => i \in Instances
        BY <1>2, <1>7, <3>1, <4>1 DEF Faults, Reading
      <4>3. Grown(list, Browse(list, record, i).list, Browse(list, record, i).news)
        BY <2>5, <4>2, BrowseGrows
      <4>4. QED
        BY <2>1, <3>1, <4>1, <4>3
    <3>2. CASE ~state.browse
      <4>1. next = list /\ more = {}
        BY <2>1, <3>2 DEF Unchanged, Outcome
      <4>2. QED
        BY <2>5, <4>1, StaysGrown
    <3>3. QED
      BY <3>1, <3>2
  <2>7. Grown(seen, next, grown)
    BY <2>2, <2>5, <2>6, GrowsFurther
  <2>8. /\ result \in Seq(Findings) /\ next \in Seq(Findings) /\ grown \in SUBSET Instances
        /\ further \in BOOLEAN
    <3>1. grown \subseteq Listed(next) /\ Distinct(next)
      BY <2>7 DEF Grown
    <3>2. QED
      BY <2>2, <2>4, <3>1 DEF Sound, Distinct, Listed
  <2>9. kind = "A" => ~further
    BY <1>2, <2>2
  <2>10. PICK last : last = Heard(before, record)
    OBVIOUS
  <2>11. /\ last \in Reading /\ last.found = result /\ last.seen = next
         /\ last.news = grown /\ last.search = further
    BY <1>2, <2>3, <2>8, <2>10 DEF Reading
  <2>12. QED
    BY <2>4, <2>7, <2>9, <2>10, <2>11 DEF Keeping
<1>8. QED
  BY <1>4, <1>5, <1>6, <1>7

(* The states of a packet that is read as far as its record n.             *)
Run(records, n, state) ==
    state = [i \in 0..n |->
                IF i = 0
                THEN [found |-> found, seen |-> seen, news |-> {}, search |-> FALSE,
                      browse |-> FALSE, named |-> Nil, faulted |-> FALSE]
                ELSE Heard(state[i - 1], records[i])]

(* There are such states, for any number of records: a packet has an       *)
(* outcome.                                                                *)
LEMMA RunsExist ==
    ASSUME NEW records, NEW n \in Nat
    PROVE  \E state : Run(records, n, state)
<1> DEFINE S == {m \in Nat : \E f : Run(records, m, f)}
           start == [found |-> found, seen |-> seen, news |-> {}, search |-> FALSE,
                     browse |-> FALSE, named |-> Nil, faulted |-> FALSE]
<1>1. 0 \in S
  <2> DEFINE f == [i \in 0..0 |-> start]
  <2>1. Run(records, 0, f)
    BY DEF Run
  <2>2. QED
    BY <2>1
<1>2. ASSUME NEW m \in Nat, m \in S
      PROVE  m + 1 \in S
  <2>1. PICK f : Run(records, m, f)
    BY <1>2
  <2> DEFINE next == Heard(f[m], records[m + 1])
             g == [i \in 0..(m + 1) |-> IF i = m + 1 THEN next ELSE f[i]]
             h == [i \in 0..(m + 1) |-> IF i = 0 THEN start ELSE Heard(g[i - 1], records[i])]
  <2>2. ASSUME NEW i \in 0..(m + 1)
        PROVE  g[i] = h[i]
    <3>1. CASE i = m + 1
      <4>1. i # 0 /\ i - 1 = m /\ m \in 0..(m + 1) /\ m # m + 1
        BY <3>1
      <4>2. g[i - 1] = f[m]
        BY <4>1
      <4>3. QED
        BY <3>1, <4>1, <4>2
    <3>2. CASE i = 0
      <4>1. f[0] = start /\ 0 # m + 1
        BY <2>1 DEF Run
      <4>2. QED
        BY <3>2, <4>1
    <3>3. CASE i # 0 /\ i # m + 1
      <4>1. i \in 0..m /\ i - 1 \in 0..(m + 1) /\ i - 1 # m + 1
        BY <3>3
      <4>2. f[i] = Heard(f[i - 1], records[i])
        BY <2>1, <3>3, <4>1 DEF Run
      <4>3. g[i - 1] = f[i - 1] /\ g[i] = f[i]
        BY <3>3, <4>1
      <4>4. QED
        BY <3>3, <4>2, <4>3
    <3>4. QED
      BY <3>1, <3>2, <3>3
  <2>3. g = h
    BY <2>2
  <2> HIDE DEF g
  <2>4. Run(records, m + 1, g)
    BY <2>3 DEF Run
  <2>5. QED
    BY <2>4
<1> HIDE DEF S
<1>3. \A m \in Nat : m \in S
  BY <1>1, <1>2, Induct
<1>4. QED
  BY <1>3 DEF S

(* After any number of records both lists are as they should be.           *)
LEMMA RunsKeep ==
    ASSUME Wanted, Sound(found), Distinct(seen), NEW records \in Seq(Records),
           NEW state, Run(records, Len(records), state)
    PROVE  Keeping(state[Len(records)])
<1> DEFINE N == Len(records)
           S == {m \in Nat : m <= N => Keeping(state[m])}
<1>0. N \in Nat
  OBVIOUS
<1>1. 0 \in S
  <2>1. state[0] = [found |-> found, seen |-> seen, news |-> {}, search |-> FALSE,
                    browse |-> FALSE, named |-> Nil, faulted |-> FALSE]
    BY <1>0 DEF Run
  <2>2. PICK first : first = state[0]
    OBVIOUS
  <2>3. /\ first \in Reading /\ first.found = found /\ first.seen = seen
        /\ first.news = {} /\ first.search = FALSE
    BY <2>1, <2>2 DEF Reading, Sound, Distinct
  <2>4. Keeping(state[0])
    BY <2>2, <2>3, StaysGrown DEF Keeping
  <2>5. QED
    BY <2>4
<1>2. ASSUME NEW m \in Nat, m \in S
      PROVE  m + 1 \in S
  <2> SUFFICES ASSUME m + 1 <= N
               PROVE  Keeping(state[m + 1])
    OBVIOUS
  <2>1. PICK s, r : s = state[m] /\ r = records[m + 1]
    OBVIOUS
  <2>2. Keeping(s)
    <3>1. m <= N
      BY <1>0
    <3>2. QED
      BY <1>2, <2>1, <3>1
  <2>3. r \in Records
    <3>1. m + 1 \in 1..N
      BY <1>0
    <3>2. QED
      BY <2>1, <3>1
  <2>4. state[m + 1] = Heard(s, r)
    <3>1. m + 1 \in 0..N /\ m + 1 # 0 /\ (m + 1) - 1 = m
      BY <1>0
    <3>2. state[m + 1] = Heard(state[(m + 1) - 1], records[m + 1])
      BY <3>1 DEF Run
    <3>3. QED
      BY <2>1, <3>1, <3>2
  <2>5. QED
    BY <2>2, <2>3, <2>4, HeardKeeps
<1> HIDE DEF S
<1>3. \A m \in Nat : m \in S
  BY <1>1, <1>2, Induct
<1>4. N \in S
  BY <1>0, <1>3
<1>5. QED
  BY <1>0, <1>4 DEF S

(* What a packet leaves.                                                   *)
Final(records) == (CHOOSE state : Run(records, Len(records), state))[Len(records)]

(* So they are after the packet.                                           *)
LEMMA FinalIsKept ==
    ASSUME Wanted, Sound(found), Distinct(seen), NEW records \in Seq(Records)
    PROVE  Keeping(Final(records))
<1>1. PICK n : n = Len(records)
  OBVIOUS
<1>2. n \in Nat
  BY <1>1
<1>3. \E state : Run(records, n, state)
  BY <1>2, RunsExist
<1>4. PICK state : state = CHOOSE f : Run(records, n, f)
  OBVIOUS
<1>5. Run(records, Len(records), state)
  BY <1>1, <1>3, <1>4
<1>6. Keeping(state[Len(records)])
  BY <1>5, RunsKeep
<1>7. QED
  BY <1>1, <1>4, <1>6 DEF Final

(* The action leaves the lists of the last record.                         *)
LEMMA PacketIsFinal ==
    ASSUME NEW records, NEW authoritative, NEW whole, PacketHeard(records, authoritative, whole)
    PROVE  /\ found' = Final(records).found /\ seen' = Final(records).seen
           /\ \/ /\ syncs' = Append(syncs, Final(records).news)
                 /\ untold' = untold
              \/ /\ untold' = untold \cup Final(records).news
                 /\ syncs' = syncs
           /\ kind' = kind /\ limit' = limit /\ told' = told
BY DEF PacketHeard, Read, Final, Run

-----------------------------------------------------------------------------
(* The invariant: what waits to be told is listed, so that the notifier    *)
(* finds it there.                                                         *)
ResultsInv ==
    /\ Wanted /\ Sound(found) /\ Distinct(seen)
    /\ syncs \in Seq(SUBSET Instances)
    /\ \A k \in DOMAIN syncs : syncs[k] \subseteq Listed(seen)
    /\ ToldOfChanges

(* That a result is still to be told, or could not be.                     *)
Due(i) == (\E k \in DOMAIN syncs : i \in syncs[k]) \/ i \in untold
Shown(r) ==
    /\ told[r.of].host = r.host /\ told[r.of].addrs = r.addrs
    /\ told[r.of].txt # Nil => told[r.of].txt = r.txt

(* ToldOfChanges in these words, before a step and after it.               *)
LEMMA ToldIsShown ==
    /\ ToldOfChanges <=> \A n \in DOMAIN seen : Due(seen[n].of) \/ Shown(seen[n])
    /\ ToldOfChanges' <=> \A n \in DOMAIN seen' : Due(seen[n].of)' \/ Shown(seen[n])'
<1>1. \A i : i \in (UNION {syncs[k] : k \in DOMAIN syncs}) \cup untold <=> Due(i)
  BY DEF Due
<1>2. \A i : i \in (UNION {syncs'[k] : k \in DOMAIN syncs'}) \cup untold' <=> Due(i)'
  BY DEF Due
<1>3. ToldOfChanges <=> \A n \in DOMAIN seen : Due(seen[n].of) \/ Shown(seen[n])
  BY <1>1 DEF ToldOfChanges, Shown
<1>4. ToldOfChanges' <=> \A n \in DOMAIN seen' : Due(seen[n].of)' \/ Shown(seen[n])'
  BY <1>2 DEF ToldOfChanges, Shown, Due
<1>5. QED
  BY <1>3, <1>4

(* The invariant holds at first, ...                                       *)
LEMMA ResultsStart == ResultsInit => ResultsInv
<1> SUFFICES ASSUME ResultsInit
             PROVE  ResultsInv
  OBVIOUS
<1>1. found = <<>> /\ seen = <<>> /\ syncs = <<>> /\ Wanted
  BY DEF ResultsInit, Wanted
<1>2. \A list : list = <<>> => list \in Seq(Findings) /\ Len(list) = 0 /\ DOMAIN list = {}
  OBVIOUS
<1>3. Sound(found)
  BY <1>1, <1>2, ResultsAssumption DEF Sound, OneEach, Wanted
<1>4. Distinct(seen)
  BY <1>1, <1>2 DEF Distinct
<1>5. syncs \in Seq(SUBSET Instances) /\ DOMAIN syncs = {}
  BY <1>1
<1>6. ToldOfChanges
  BY <1>1, <1>2, ToldIsShown
<1>7. QED
  BY <1>1, <1>3, <1>4, <1>5, <1>6 DEF ResultsInv

(* ... a packet keeps it, told or not, ...                                 *)
LEMMA PacketKeeps ==
    ASSUME ResultsInv, NEW records \in Seq(Records), NEW authoritative, NEW whole,
           PacketHeard(records, authoritative, whole)
    PROVE  ResultsInv'
<1>1. PICK news : news = Final(records).news
  OBVIOUS
<1>2. /\ found' = Final(records).found /\ seen' = Final(records).seen
      /\ \/ syncs' = Append(syncs, news) /\ untold' = untold
         \/ untold' = untold \cup news /\ syncs' = syncs
      /\ kind' = kind /\ limit' = limit /\ told' = told
  BY <1>1, PacketIsFinal
<1>3. Sound(found') /\ Grown(seen, seen', news)
  <2>1. Keeping(Final(records))
    BY FinalIsKept DEF ResultsInv
  <2>2. QED
    BY <1>1, <1>2, <2>1 DEF Keeping
<1>4. Wanted' /\ Sound(found)' /\ Distinct(seen)'
  BY <1>2, <1>3 DEF ResultsInv, Wanted, Sound, OneEach, Grown, Distinct
<1>5. news \subseteq Listed(seen)' /\ Listed(seen) \subseteq Listed(seen)' /\ Listed(seen)' \subseteq Instances
  BY <1>3 DEF Grown, Distinct, Listed
<1>6. CASE syncs' = Append(syncs, news) /\ untold' = untold
  <2>1. /\ syncs \in Seq(SUBSET Instances) /\ news \in SUBSET Instances
        /\ Len(syncs) \in Nat /\ DOMAIN syncs = 1..Len(syncs)
    BY <1>5 DEF ResultsInv
  <2>2. /\ syncs' \in Seq(SUBSET Instances) /\ Len(syncs') = Len(syncs) + 1
        /\ syncs'[Len(syncs) + 1] = news
        /\ \A k \in 1..Len(syncs) : syncs'[k] = syncs[k]
    BY <1>6, <2>1, AppendProperties
  <2>3. DOMAIN syncs' = DOMAIN syncs \cup {Len(syncs) + 1}
    BY <2>1, <2>2
  <2>4. \A k \in DOMAIN syncs' : syncs'[k] \subseteq Listed(seen)'
    BY <1>5, <2>1, <2>2, <2>3 DEF ResultsInv
  <2>5. \A i : (i \in news \/ Due(i)) => Due(i)'
    BY <1>6, <2>1, <2>2, <2>3 DEF Due
  <2>6. ToldOfChanges'
    <3>1. ASSUME NEW n \in DOMAIN seen', ~Due(seen[n].of)'
          PROVE  Shown(seen[n])'
      <4>1. PICK m \in DOMAIN seen : Same(seen[m], seen'[n])
        BY <1>3, <2>5, <3>1 DEF Grown
      <4>2. ~Due(seen[m].of)
        BY <2>5, <3>1, <4>1 DEF Same
      <4>3. Shown(seen[m])
        BY <4>2, ToldIsShown DEF ResultsInv
      <4>4. QED
        BY <1>2, <4>1, <4>3 DEF Shown, Same
    <3>2. QED
      BY <3>1, ToldIsShown
  <2>7. QED
    BY <1>4, <2>2, <2>4, <2>6 DEF ResultsInv
<1>7. CASE untold' = untold \cup news /\ syncs' = syncs
  <2>1. syncs' \in Seq(SUBSET Instances) /\ \A k \in DOMAIN syncs' : syncs'[k] \subseteq Listed(seen)'
    BY <1>5, <1>7 DEF ResultsInv
  <2>2. \A i : (i \in news \/ Due(i)) => Due(i)'
    BY <1>7 DEF Due
  <2>3. ToldOfChanges'
    <3>1. ASSUME NEW n \in DOMAIN seen', ~Due(seen[n].of)'
          PROVE  Shown(seen[n])'
      <4>1. PICK m \in DOMAIN seen : Same(seen[m], seen'[n])
        BY <1>3, <2>2, <3>1 DEF Grown
      <4>2. ~Due(seen[m].of)
        BY <2>2, <3>1, <4>1 DEF Same
      <4>3. Shown(seen[m])
        BY <4>2, ToldIsShown DEF ResultsInv
      <4>4. QED
        BY <1>2, <4>1, <4>3 DEF Shown, Same
    <3>2. QED
      BY <3>1, ToldIsShown
  <2>4. QED
    BY <1>4, <2>1, <2>3 DEF ResultsInv
<1>8. QED
  BY <1>2, <1>6, <1>7

(* ... the notifier keeps it: it is shown what is listed by then, ...      *)
LEMMA NotifyKeeps ==
    ASSUME ResultsInv, Notify
    PROVE  ResultsInv'
<1>1. /\ syncs \in Seq(SUBSET Instances) /\ syncs # <<>> /\ Len(syncs) \in Nat
      /\ DOMAIN syncs = 1..Len(syncs) /\ Len(syncs) > 0
  BY DEF ResultsInv, Notify
<1>2. PICK first : first = Head(syncs)
  OBVIOUS
<1>3. first = syncs[1] /\ 1 \in DOMAIN syncs /\ first \subseteq Instances /\ first \subseteq Listed(seen)
  <2>1. first = syncs[1] /\ 1 \in DOMAIN syncs
    BY <1>1, <1>2
  <2>2. QED
    BY <1>1, <2>1 DEF ResultsInv
<1>4. /\ told' = [i \in Instances |->
                   IF i \in first THEN seen[PlaceOf(seen, LAMBDA r : r.of = i)] ELSE told[i]]
      /\ untold' = untold \ first /\ syncs' = Tail(syncs)
      /\ kind' = kind /\ limit' = limit /\ found' = found /\ seen' = seen
  BY <1>2 DEF Notify
<1>5. /\ syncs' \in Seq(SUBSET Instances) /\ Len(syncs') = Len(syncs) - 1
      /\ \A k \in 1..Len(syncs') : syncs'[k] = syncs[k + 1]
  BY <1>1, <1>4
<1>6. DOMAIN syncs' = 1..(Len(syncs) - 1)
  BY <1>5
<1>7. \A k \in DOMAIN syncs' : k + 1 \in DOMAIN syncs /\ syncs'[k] = syncs[k + 1]
  BY <1>1, <1>5, <1>6
<1>8. \A k \in DOMAIN syncs : k = 1 \/ (k - 1 \in DOMAIN syncs' /\ syncs[k] = syncs'[k - 1])
  <2> SUFFICES ASSUME NEW k \in DOMAIN syncs, k # 1
               PROVE  k - 1 \in DOMAIN syncs' /\ syncs[k] = syncs'[k - 1]
    OBVIOUS
  <2>1. k - 1 \in 1..(Len(syncs) - 1) /\ (k - 1) + 1 = k
    BY <1>1
  <2>2. QED
    BY <1>5, <1>6, <2>1
<1>9. \A k \in DOMAIN syncs' : syncs'[k] \subseteq Listed(seen)'
  BY <1>4, <1>7 DEF ResultsInv, Listed
<1>10. \A i : Due(i) => Due(i)' \/ i \in first
  BY <1>3, <1>4, <1>8 DEF Due
<1>11. \A n \in DOMAIN seen : seen[n].of \in first => told'[seen[n].of] = seen[n]
  <2> SUFFICES ASSUME NEW n \in DOMAIN seen, seen[n].of \in first
               PROVE  told'[seen[n].of] = seen[n]
    OBVIOUS
  <2>1. PICK i : i = seen[n].of
    OBVIOUS
  <2> DEFINE places == {m \in DOMAIN seen : seen[m].of = i}
  <2>2. PICK p : p = FirstOf(places)
    OBVIOUS
  <2>3. IF p = 0 THEN places = {} ELSE p \in places
    <3>1. places \subseteq DOMAIN seen /\ seen \in Seq(Findings)
      BY DEF ResultsInv, Distinct
    <3> HIDE DEF places
    <3>2. QED
      BY <2>2, <3>1, PlaceIsFirst
  <2>4. p = PlaceOf(seen, LAMBDA r : r.of = i)
    BY <2>2 DEF PlaceOf, FirstOf
  <2>5. n \in places
    BY <2>1
  <2>6. p = n
    BY <2>1, <2>3, <2>5 DEF ResultsInv, Distinct
  <2>7. i \in Instances /\ i \in first
    BY <1>3, <2>1
  <2>8. told'[i] = seen[PlaceOf(seen, LAMBDA r : r.of = i)]
    BY <1>4, <2>7
  <2>9. QED
    BY <2>1, <2>4, <2>6, <2>8
<1>12. ToldOfChanges'
  <2>1. ASSUME NEW n \in DOMAIN seen', ~Due(seen[n].of)'
        PROVE  Shown(seen[n])'
    <3>1. n \in DOMAIN seen /\ seen'[n] = seen[n] /\ seen[n].of \in Instances
      BY <1>4, <2>1 DEF ResultsInv, Distinct
    <3>2. CASE seen[n].of \in first
      <4>1. told'[seen[n].of] = seen[n]
        BY <1>11, <3>1, <3>2
      <4>2. QED
        BY <1>4, <4>1 DEF Shown
    <3>3. CASE seen[n].of \notin first
      <4>1. ~Due(seen[n].of)
        BY <1>10, <2>1, <3>1, <3>3
      <4>2. Shown(seen[n])
        BY <3>1, <4>1, ToldIsShown DEF ResultsInv
      <4>3. told'[seen[n].of] = told[seen[n].of]
        BY <1>4, <3>1, <3>3
      <4>4. QED
        BY <1>4, <4>2, <4>3 DEF Shown
    <3>4. QED
      BY <3>2, <3>3
  <2>2. QED
    BY <2>1, ToldIsShown
<1>13. Wanted' /\ Sound(found)' /\ Distinct(seen)'
  BY <1>4 DEF ResultsInv, Wanted, Sound, OneEach, Distinct
<1>14. QED
  BY <1>5, <1>9, <1>12, <1>13 DEF ResultsInv

(* ... a device that starts again has nothing to be told, ...              *)
LEMMA FaultKeeps ==
    ASSUME ResultsInv, NEW records, PacketFaults(records)
    PROVE  ResultsInv'
<1>1. /\ found' = <<>> /\ seen' = <<>> /\ syncs' = <<>>
      /\ kind' = kind /\ limit' = limit
  BY DEF PacketFaults
<1>2. \A list : list = <<>> => list \in Seq(Findings) /\ Len(list) = 0 /\ DOMAIN list = {}
  OBVIOUS
<1>3. Wanted /\ Wanted'
  BY <1>1 DEF ResultsInv, Wanted
<1>4. Sound(found)'
  BY <1>1, <1>2, <1>3, ResultsAssumption DEF Sound, OneEach, Wanted
<1>5. Distinct(seen)'
  BY <1>1, <1>2 DEF Distinct
<1>6. syncs' \in Seq(SUBSET Instances) /\ DOMAIN syncs' = {}
  BY <1>1
<1>7. ToldOfChanges'
  BY <1>1, <1>2, ToldIsShown
<1>8. QED
  BY <1>3, <1>4, <1>5, <1>6, <1>7 DEF ResultsInv

(* ... and so does every step.                                             *)
LEMMA ReadsKeep ==
    ASSUME ResultsInv, NEW records \in Seq(Records), Reads(records)
    PROVE  ResultsInv'
<1>1. CASE PacketFaults(records)
  BY <1>1, FaultKeeps
<1>2. ASSUME NEW authoritative, NEW whole, PacketHeard(records, authoritative, whole)
      PROVE  ResultsInv'
  BY <1>2, PacketKeeps
<1>3. QED
  BY <1>1, <1>2 DEF Reads

LEMMA ResultsStep == ResultsInv /\ [ResultsNext]_resultVars => ResultsInv'
<1> SUFFICES ASSUME ResultsInv, [ResultsNext]_resultVars
             PROVE  ResultsInv'
  OBVIOUS
<1>1. CASE Notify
  BY <1>1, NotifyKeeps
<1>2. ASSUME NEW first \in Records, Reads(<<first>>)
      PROVE  ResultsInv'
  <2>1. PICK records : records = <<first>>
    OBVIOUS
  <2>2. records \in Seq(Records) /\ Reads(records)
    BY <1>2, <2>1
  <2>3. QED
    BY <2>2, ReadsKeep
<1>3. ASSUME NEW first \in Records, NEW second \in Records, Reads(<<first, second>>)
      PROVE  ResultsInv'
  <2>1. PICK records : records = <<first, second>>
    OBVIOUS
  <2>2. records \in Seq(Records) /\ Reads(records)
    BY <1>3, <2>1
  <2>3. QED
    BY <2>2, ReadsKeep
<1>4. CASE UNCHANGED resultVars
  <2>1. /\ kind' = kind /\ limit' = limit /\ found' = found /\ seen' = seen
        /\ syncs' = syncs /\ told' = told /\ untold' = untold
    BY <1>4 DEF resultVars
  <2>2. ToldOfChanges'
    BY <2>1 DEF ResultsInv, ToldOfChanges
  <2>3. QED
    BY <2>1, <2>2 DEF ResultsInv, Wanted, Sound, OneEach, Distinct, Listed
<1>5. QED
  BY <1>1, <1>2, <1>3, <1>4 DEF ResultsNext

(* A search finds each service, or each host of the one it names, once, no *)
(* more than it was asked for, and with no address of another host; for any*)
(* services, hosts, addresses and texts, packets in any order, and records *)
(* for the device's own names between them.                                *)
THEOREM ResultsBelongTogether == ResultsSpec => []SearchIsSound
<1>1. ResultsInv => SearchIsSound
  <2> SUFFICES ASSUME ResultsInv
               PROVE  SearchIsSound
    OBVIOUS
  <2>1. ASSUME NEW m \in DOMAIN found, NEW n \in DOMAIN found, found[m].of = found[n].of,
               kind # "PTR" => found[m].host = found[n].host
        PROVE  m = n
    <3>1. CASE kind = "PTR"
      BY <2>1, <3>1 DEF ResultsInv, Sound, OneEach
    <3>2. CASE kind # "PTR"
      BY <2>1, <3>2 DEF ResultsInv, Sound, OneEach
    <3>3. QED
      BY <3>1, <3>2
  <2>2. QED
    BY <2>1 DEF SearchIsSound, ResultsInv, Sound, Truthful
<1>2. QED
  BY <1>1, ResultsStart, ResultsStep, PTL DEF ResultsSpec

(* What the notifier was told of a service is what the browse knows of it, *)
(* or the notifier will be told again, unless the queue was full or the    *)
(* packet malformed further on: for any services and packets, and an action*)
(* queue of any length.                                                    *)
THEOREM BrowserTellsOfChanges == ResultsSpec => []ToldOfChanges
<1>1. ResultsInv => ToldOfChanges
  BY DEF ResultsInv
<1>2. QED
  BY <1>1, ResultsStart, ResultsStep, PTL DEF ResultsSpec
-----------------------------------------------------------------------------
(***************************************************************************)
(* The responder.  Every operation of the library is a function of what    *)
(* the task works on, so that one lemma for each function says that it     *)
(* keeps the invariant of each interface, and most follow from a few: the  *)
(* packets of an interface are replaced (probing), each is changed         *)
(* (answers that are added, a service that leaves), or one is moved on.    *)
(***************************************************************************)

(* What a pcb and a packet are, and what the task works on.                *)
States == ProbeStates \cup AnnounceStates \cup {"RUNNING", "OFF"}

Pcb == [ready : BOOLEAN, state : States, probing : SUBSET Services,
        ip : BOOLEAN, running : BOOLEAN]

TxPacket == [at : Nat, pcb : Pcbs, queued : BOOLEAN, asks : SUBSET Services,
             hosts : SUBSET Services, servers : SUBSET Services, ip : BOOLEAN,
             answers : SUBSET Services, addrs : BOOLEAN]

NetTypes(n) ==
    /\ n = [pcb |-> n.pcb, line |-> n.line, waiting |-> n.waiting, host |-> n.host,
            instance |-> n.instance, services |-> n.services, own |-> n.own, won |-> n.won]
    /\ n.pcb \in [Pcbs -> Pcb] /\ n.line \in Seq(TxPacket)
    /\ n.waiting \subseteq TxPacket /\ IsFiniteSet(n.waiting)
    /\ n.host \in BOOLEAN /\ n.instance \in BOOLEAN
    /\ n.services \in SUBSET Services /\ n.own \in SUBSET Services
    /\ n.won \in [Pcbs -> SUBSET Services]

(* The packet k is the only one of p, in the line or not.                  *)
Alone(n, p, k) ==
    /\ k.pcb = p
    /\ \/ /\ k \in n.waiting /\ \A w \in n.waiting : w.pcb = p => w = k
          /\ \A i \in DOMAIN n.line : n.line[i].pcb # p
       \/ /\ \A w \in n.waiting : w.pcb # p
          /\ \E i \in DOMAIN n.line :
                n.line[i] = k /\ \A j \in DOMAIN n.line : n.line[j].pcb = p => j = i

(* No two services are of one type.                                        *)
TypesDiffer == \A s, t \in Services : Type[s] = Type[t] => s = t

(* What a probe says, and what it is to win. *)
ProbeOf(n, p, k) ==
    /\ k.servers = n.pcb[p].probing /\ k.ip = n.pcb[p].ip
    /\ TypesDiffer => k.asks = n.pcb[p].probing
    /\ n.pcb[p].probing # {} \/ n.pcb[p].ip

(* What an interface is probing now. *)
BeingProbed(n, p) == IF n.pcb[p].state \in ProbeStates THEN n.pcb[p].probing ELSE {}

(* The services that go by the name of the device.                         *)
Common(n) == n.services \ n.own

(* The invariant of an interface that is up. While it probes, one packet   *)
(* and no other is its own and asks for what is probed, which is all that  *)
(* has not been won; afterwards none of its packets has a name to win, and *)
(* while it announces there is one.                                        *)
PcbInv(n, p) ==
    n.pcb[p].ready =>
        /\ n.pcb[p].state \in ProbeStates =>
              /\ \E k \in Scheduled(n) : Alone(n, p, k) /\ ProbeOf(n, p, k)
              /\ n.host => Common(n) \subseteq n.won[p] \cup n.pcb[p].probing
        /\ n.pcb[p].state \notin ProbeStates =>
              \A k \in Scheduled(n) : k.pcb = p => k.servers = {} /\ ~IsEmpty(k)
        /\ n.pcb[p].state \in AnnounceStates => \E k \in Scheduled(n) : k.pcb = p
        /\ n.host /\ n.pcb[p].state \in AfterProbing => Common(n) \subseteq n.won[p]
        /\ n.pcb[p].state # "OFF"

(* The actions that the queue may hold.                                    *)
ActionsOf ==
    [type : {"tx"}, at : Nat]
      \cup [type : {"event"}, what : {"enable", "disable", "announce"}, pcb : Pcbs]
      \cup {[type |-> "hostname"], [type |-> "instance"]}
      \cup [type : {"rx"}, pcb : Pcbs, what : {"srv", "txt"}, of : Services, claims : BOOLEAN]
      \cup [type : {"rx"}, pcb : Pcbs, what : {"question", "address"},
            of : Services \cup {None}, claims : BOOLEAN]

-----------------------------------------------------------------------------
(* What is left of a line after each of its places.                        *)
Rests(line, places, n, rest) ==
    rest = [i \in 0 .. n |->
               IF i = 0 THEN <<>>
               ELSE IF i \in places THEN Append(rest[i - 1], line[i]) ELSE rest[i - 1]]

(* The function that Kept is defined by exists.                            *)
LEMMA RestsExist ==
    ASSUME NEW line, NEW places, NEW n \in Nat
    PROVE  \E rest : Rests(line, places, n, rest)
<1> DEFINE S == {m \in Nat : \E f : Rests(line, places, m, f)}
<1>1. 0 \in S
  <2> DEFINE f == [i \in 0..0 |-> <<>>]
  <2>1. Rests(line, places, 0, f)
    BY DEF Rests
  <2>2. QED
    BY <2>1
<1>2. ASSUME NEW m \in Nat, m \in S
      PROVE  m + 1 \in S
  <2>1. PICK f : Rests(line, places, m, f)
    BY <1>2
  <2> DEFINE next == IF m + 1 \in places THEN Append(f[m], line[m + 1]) ELSE f[m]
             g == [i \in 0..(m + 1) |-> IF i = m + 1 THEN next ELSE f[i]]
             h == [i \in 0..(m + 1) |-> IF i = 0 THEN <<>>
                      ELSE IF i \in places THEN Append(g[i - 1], line[i]) ELSE g[i - 1]]
  <2>2. ASSUME NEW i \in 0..(m + 1)
        PROVE  g[i] = h[i]
    <3>1. CASE i = m + 1
      <4>1. i # 0 /\ i - 1 = m /\ m \in 0..(m + 1) /\ m # m + 1
        BY <3>1
      <4>2. g[i - 1] = f[m]
        BY <4>1
      <4>3. QED
        BY <3>1, <4>1, <4>2
    <3>2. CASE i = 0
      <4>1. f[0] = <<>> /\ 0 # m + 1
        BY <2>1 DEF Rests
      <4>2. QED
        BY <3>2, <4>1
    <3>3. CASE i # 0 /\ i # m + 1
      <4>1. i \in 0..m /\ i - 1 \in 0..(m + 1) /\ i - 1 # m + 1
        BY <3>3
      <4>2. f[i] = IF i \in places THEN Append(f[i - 1], line[i]) ELSE f[i - 1]
        BY <2>1, <3>3, <4>1 DEF Rests
      <4>3. g[i - 1] = f[i - 1] /\ g[i] = f[i]
        BY <3>3, <4>1
      <4>4. QED
        BY <3>3, <4>2, <4>3
    <3>4. QED
      BY <3>1, <3>2, <3>3
  <2>3. g = h
    BY <2>2
  <2> HIDE DEF g
  <2>4. Rests(line, places, m + 1, g)
    BY <2>3 DEF Rests
  <2>5. QED
    BY <2>4
<1> HIDE DEF S
<1>3. \A m \in Nat : m \in S
  BY <1>1, <1>2, Induct
<1>4. QED
  BY <1>3 DEF S

(* What is left is what was at these places, each once.                    *)
Embeds(line, places, n, left) ==
    /\ left \in Seq(TxPacket)
    /\ \E place \in [DOMAIN left -> places \cap (1 .. n)] :
          /\ \A i \in DOMAIN left : left[i] = line[place[i]]
          /\ \A i, j \in DOMAIN left : place[i] = place[j] => i = j
          /\ \A j \in places \cap (1 .. n) : \E i \in DOMAIN left : place[i] = j

(* Its last value is embedded in the line, in order.                       *)
LEMMA RestsEmbed ==
    ASSUME NEW line \in Seq(TxPacket), NEW places,
           NEW rest, Rests(line, places, Len(line), rest)
    PROVE  Embeds(line, places, Len(line), rest[Len(line)])
<1> DEFINE N == Len(line)
           S == {m \in Nat : m <= N => Embeds(line, places, m, rest[m])}
<1>0. N \in Nat /\ DOMAIN line = 1..N
  OBVIOUS
<1>1. 0 \in S
  <2>1. rest[0] = <<>>
    BY <1>0 DEF Rests
  <2>2. PICK empty : empty = <<>>
    OBVIOUS
  <2>3. empty \in Seq(TxPacket) /\ DOMAIN empty = {}
    BY <2>2
  <2>4. empty \in [DOMAIN empty -> places \cap (1..0)]
    BY <2>2, <2>3
  <2>5. places \cap (1..0) = {}
    OBVIOUS
  <2>50. Embeds(line, places, 0, empty)
    BY <2>3, <2>4, <2>5 DEF Embeds
  <2>6. QED
    BY <2>1, <2>2, <2>50
<1>2. ASSUME NEW m \in Nat, m \in S
      PROVE  m + 1 \in S
  <2> SUFFICES ASSUME m + 1 <= N
               PROVE  Embeds(line, places, m + 1, rest[m + 1])
    OBVIOUS
  <2>1. PICK left : left = rest[m]
    OBVIOUS
  <2>2. Embeds(line, places, m, left)
    <3>1. m <= N
      BY <1>0
    <3>2. QED
      BY <1>2, <2>1, <3>1
  <2>3. rest[m + 1] = IF m + 1 \in places THEN Append(left, line[m + 1]) ELSE left
    <3>1. m + 1 \in 0..N /\ m + 1 # 0 /\ (m + 1) - 1 = m
      BY <1>0
    <3>2. rest[m + 1] = IF m + 1 \in places THEN Append(rest[(m + 1) - 1], line[m + 1])
                        ELSE rest[(m + 1) - 1]
      BY <3>1 DEF Rests
    <3>3. QED
      BY <2>1, <3>1, <3>2
  <2>4. PICK place \in [DOMAIN left -> places \cap (1 .. m)] :
          /\ \A i \in DOMAIN left : left[i] = line[place[i]]
          /\ \A i, j \in DOMAIN left : place[i] = place[j] => i = j
          /\ \A j \in places \cap (1 .. m) : \E i \in DOMAIN left : place[i] = j
    BY <2>2 DEF Embeds
  <2>5. left \in Seq(TxPacket) /\ Len(left) \in Nat /\ DOMAIN left = 1..Len(left)
    BY <2>2 DEF Embeds
  <2>6. CASE m + 1 \notin places
    <3>1. places \cap (1 .. (m + 1)) = places \cap (1 .. m)
      BY <2>6
    <3>2. Embeds(line, places, m + 1, left)
      BY <2>2, <3>1 DEF Embeds
    <3>3. QED
      BY <2>3, <2>6, <3>2
  <2>7. CASE m + 1 \in places
    <3>1. PICK next : next = line[m + 1]
      OBVIOUS
    <3>2. next \in TxPacket
      <4>1. m + 1 \in 1..N
        BY <1>0
      <4>2. QED
        BY <1>0, <3>1, <4>1
    <3>3. PICK more : more = Append(left, next)
      OBVIOUS
    <3> DEFINE last == Len(left) + 1
    <3>4. /\ more \in Seq(TxPacket) /\ Len(more) = last /\ more[last] = next
          /\ \A i \in 1..Len(left) : more[i] = left[i]
      BY <2>5, <3>2, <3>3, AppendProperties
    <3>5. DOMAIN more = 1..last /\ last \in DOMAIN more
      BY <2>5, <3>4
    <3> DEFINE to == [i \in DOMAIN more |-> IF i = last THEN m + 1 ELSE place[i]]
    <3>6. to[last] = m + 1 /\ \A i \in DOMAIN left : i \in DOMAIN more /\ i # last /\ to[i] = place[i]
      BY <2>5, <3>5
    <3>7. \A i \in DOMAIN more : i = last \/ i \in DOMAIN left
      BY <2>5, <3>5
    <3> HIDE DEF last
    <3>8. \A i \in DOMAIN left : place[i] \in places \cap (1 .. m) /\ place[i] # m + 1
      BY <2>4
    <3>9. m + 1 \in places \cap (1 .. (m + 1)) /\ places \cap (1 .. m) \subseteq places \cap (1 .. (m + 1))
      BY <2>7
    <3>10. to \in [DOMAIN more -> places \cap (1 .. (m + 1))]
      BY <3>6, <3>7, <3>8, <3>9
    <3> HIDE DEF to
    <3>11. \A i \in DOMAIN more : more[i] = line[to[i]]
      <4>1. more[last] = line[to[last]]
        BY <3>1, <3>4, <3>6
      <4>2. \A i \in DOMAIN left : more[i] = line[to[i]]
        BY <2>4, <2>5, <3>4, <3>6
      <4>3. QED
        BY <3>7, <4>1, <4>2
    <3>12. \A i, j \in DOMAIN more : to[i] = to[j] => i = j
      BY <2>4, <3>6, <3>7, <3>8
    <3>13. \A j \in places \cap (1 .. (m + 1)) : \E i \in DOMAIN more : to[i] = j
      <4> SUFFICES ASSUME NEW j \in places \cap (1 .. (m + 1))
                   PROVE  \E i \in DOMAIN more : to[i] = j
        OBVIOUS
      <4>1. CASE j = m + 1
        BY <3>5, <3>6, <4>1
      <4>2. CASE j # m + 1
        <5>1. j \in places \cap (1 .. m)
          BY <4>2
        <5>2. PICK i \in DOMAIN left : place[i] = j
          BY <2>4, <5>1
        <5>3. QED
          BY <3>6, <5>2
      <4>3. QED
        BY <4>1, <4>2
    <3>14. Embeds(line, places, m + 1, more)
      BY <3>4, <3>10, <3>11, <3>12, <3>13 DEF Embeds
    <3>15. QED
      BY <2>3, <2>7, <3>1, <3>3, <3>14
  <2>8. QED
    BY <2>6, <2>7
<1> HIDE DEF S
<1>3. \A m \in Nat : m \in S
  BY <1>1, <1>2, Induct
<1>4. N \in S
  BY <1>0, <1>3
<1>5. QED
  BY <1>0, <1>4 DEF S

(* Hence Kept is, ...                                                      *)
LEMMA KeptEmbeds ==
    ASSUME NEW line \in Seq(TxPacket), NEW places
    PROVE  Embeds(line, places, Len(line), Kept(line, places))
<1>1. PICK n : n = Len(line)
  OBVIOUS
<1>2. n \in Nat
  BY <1>1
<1>3. \E rest : Rests(line, places, n, rest)
  BY <1>2, RestsExist
<1>4. PICK rest : rest = CHOOSE f : Rests(line, places, n, f)
  OBVIOUS
<1>5. Rests(line, places, Len(line), rest)
  BY <1>1, <1>3, <1>4
<1>6. Embeds(line, places, Len(line), rest[n])
  BY <1>1, <1>5, RestsEmbed
<1>7. Kept(line, places) = rest[n]
  BY <1>1, <1>4 DEF Kept, Rests
<1>8. QED
  BY <1>6, <1>7

(* What follows for the packets: those at the places kept are there, and no*)
(* others; and one that was alone in its place still is.                   *)
Keeps(line, places, left) ==
    /\ left \in Seq(TxPacket)
    /\ \A i \in DOMAIN left : \E j \in DOMAIN line \cap places : left[i] = line[j]
    /\ \A j \in DOMAIN line \cap places :
          \E i \in DOMAIN left :
              /\ left[i] = line[j]
              /\ \A a \in DOMAIN left : a = i \/ \E b \in DOMAIN line \cap places :
                                                   b # j /\ left[a] = line[b]

(* ... and keeps the packets of these places, each as often as before.     *)
LEMMA KeptKeeps ==
    ASSUME NEW line \in Seq(TxPacket), NEW places
    PROVE  Keeps(line, places, Kept(line, places))
<1>1. PICK left : left = Kept(line, places)
  OBVIOUS
<1>2. DOMAIN line = 1..Len(line)
  OBVIOUS
<1>3. Embeds(line, places, Len(line), left)
  BY <1>1, KeptEmbeds
<1>4. PICK place \in [DOMAIN left -> places \cap DOMAIN line] :
          /\ \A i \in DOMAIN left : left[i] = line[place[i]]
          /\ \A i, j \in DOMAIN left : place[i] = place[j] => i = j
          /\ \A j \in places \cap DOMAIN line : \E i \in DOMAIN left : place[i] = j
  BY <1>2, <1>3 DEF Embeds
<1>5. \A i \in DOMAIN left : place[i] \in DOMAIN line \cap places
  BY <1>4
<1>6. \A j \in DOMAIN line \cap places :
          \E i \in DOMAIN left :
              /\ left[i] = line[j]
              /\ \A a \in DOMAIN left : a = i \/ \E b \in DOMAIN line \cap places :
                                                   b # j /\ left[a] = line[b]
  <2> SUFFICES ASSUME NEW j \in DOMAIN line \cap places
               PROVE  \E i \in DOMAIN left :
                        /\ left[i] = line[j]
                        /\ \A a \in DOMAIN left : a = i \/ \E b \in DOMAIN line \cap places :
                                                   b # j /\ left[a] = line[b]
    OBVIOUS
  <2>1. PICK i \in DOMAIN left : place[i] = j
    BY <1>4
  <2>2. left[i] = line[j]
    BY <1>4, <2>1
  <2>3. ASSUME NEW a \in DOMAIN left, a # i
        PROVE  place[a] \in DOMAIN line \cap places /\ place[a] # j /\ left[a] = line[place[a]]
    BY <1>4, <1>5, <2>1, <2>3
  <2>4. QED
    BY <2>2, <2>3
<1>7. QED
  BY <1>1, <1>3, <1>4, <1>5, <1>6 DEF Keeps, Embeds

-----------------------------------------------------------------------------
(* As many things as come of a finite set are a finite set.                *)
LEMMA ImageIsFinite ==
    ASSUME NEW S, IsFiniteSet(S), NEW f
    PROVE  IsFiniteSet({f[x] : x \in S}) /\ Cardinality({f[x] : x \in S}) <= Cardinality(S)
<1> DEFINE T == {f[x] : x \in S}
           g == [x \in S |-> f[x]]
<1>1. g \in [S -> T] /\ \A t \in T : \E x \in S : g[x] = t
  OBVIOUS
<1> HIDE DEF T, g
<1>2. g \in Surjection(S, T)
  BY <1>1, Fun_IsSurj
<1>3. IsFiniteSet(T) /\ Cardinality(T) <= Cardinality(S)
  BY <1>2, FS_Surjection
<1>4. QED
  BY <1>3 DEF T

(* An address is free as long as there are more of them than packets.      *)
LEMMA AddressIsNumber ==
    ASSUME NEW n, NetTypes(n)
    PROVE  Address(n) \in Nat
<1> DEFINE sent == Scheduled(n)
           N == Cardinality(sent)
           ats == {k.at : k \in sent}
           free == (1 .. N + 1) \ ats
<1>1. IsFiniteSet(ToSet(n.line))
  <2>1. n.line \in Seq(TxPacket)
    BY DEF NetTypes
  <2>2. Len(n.line) \in Nat /\ DOMAIN n.line = 1..Len(n.line)
    BY <2>1
  <2>3. IsFiniteSet(1..Len(n.line))
    BY <2>2, FS_Interval
  <2>4. IsFiniteSet({n.line[i] : i \in 1..Len(n.line)})
    <3>1. PICK f, S : f = n.line /\ S = 1..Len(n.line)
      OBVIOUS
    <3>2. IsFiniteSet({f[i] : i \in S})
      BY <2>3, <3>1, ImageIsFinite
    <3>3. QED
      BY <3>1, <3>2
  <2>5. QED
    BY <2>2, <2>4 DEF ToSet
<1>2. IsFiniteSet(sent)
  BY <1>1, FS_Union DEF NetTypes, Scheduled
<1> HIDE DEF sent
<1>3. N \in Nat
  BY <1>2, FS_CardinalityType
<1>4. free # {}
  <2> SUFFICES ASSUME free = {}
               PROVE  FALSE
    OBVIOUS
  <2>1. IsFiniteSet(ats) /\ Cardinality(ats) <= N
    <3> DEFINE f == [k \in sent |-> k.at]
    <3>1. ats = {f[k] : k \in sent}
      OBVIOUS
    <3> HIDE DEF f, ats
    <3>2. IsFiniteSet({f[k] : k \in sent}) /\ Cardinality({f[k] : k \in sent}) <= N
      BY <1>2, ImageIsFinite
    <3>3. QED
      BY <3>1, <3>2
  <2>2. 1 .. N + 1 \subseteq ats
    OBVIOUS
  <2> HIDE DEF ats
  <2>3. Cardinality(1 .. N + 1) <= Cardinality(ats)
    BY <2>1, <2>2, FS_Subset
  <2>4. Cardinality(1 .. N + 1) = N + 1
    <3>1. 1 <= N + 1 /\ N + 1 \in Int /\ (N + 1) - 1 + 1 = N + 1
      BY <1>3
    <3>2. QED
      BY <3>1, FS_Interval
  <2>5. Cardinality(ats) \in Nat
    BY <2>1, FS_CardinalityType
  <2> HIDE DEF N
  <2>6. QED
    BY <1>3, <2>1, <2>3, <2>4, <2>5
<1>5. PICK a \in free : \A b \in free : a <= b
  <2>1. free \subseteq Nat
    BY <1>3
  <2> HIDE DEF free
  <2>2. QED
    BY <1>4, <2>1, LeastNumber
<1>6. a \in 1 .. N + 1 /\ a \in Nat /\ \A k \in sent : k.at # a
  BY <1>3
<1>7. \A b \in 1 .. a - 1 : \E k \in sent : k.at = b
  <2> SUFFICES ASSUME NEW b \in 1 .. a - 1
               PROVE  b \in ats
    OBVIOUS
  <2>1. b \in 1 .. N + 1 /\ ~(a <= b)
    BY <1>3, <1>6
  <2>2. QED
    BY <1>5, <2>1
<1>8. Address(n) \in 1 .. N + 1
  <2>1. \E x \in 1 .. N + 1 : /\ \A k \in sent : k.at # x
                              /\ \A b \in 1 .. x - 1 : \E k \in sent : k.at = b
    BY <1>6, <1>7
  <2>2. Address(n) = CHOOSE x \in 1 .. N + 1 :
                        /\ \A k \in sent : k.at # x
                        /\ \A b \in 1 .. x - 1 : \E k \in sent : k.at = b
    BY DEF Address, sent
  <2> HIDE DEF N, free, ats
  <2>3. QED
    BY <2>1, <2>2
<1>9. QED
  BY <1>3, <1>8

-----------------------------------------------------------------------------
(* What a change of one pcb leaves of another.                             *)
SameNames(n, m) == m.host = n.host /\ m.services = n.services /\ m.own = n.own

(* The packets of q are the same, and what was alone is.                   *)
SamePackets(n, m, q) ==
    /\ \A k : k.pcb = q => (k \in Scheduled(n) <=> k \in Scheduled(m))
    /\ \A k : Alone(n, q, k) => Alone(m, q, k)

(* Nothing changes for q.                                                  *)
SameAt(n, m, q) ==
    m.pcb[q] = n.pcb[q] /\ m.won[q] = n.won[q] /\ SamePackets(n, m, q)

(* Then its invariant is kept.                                             *)
LEMMA SameKeeps ==
    ASSUME NEW n, NEW m, NEW q, SameNames(n, m), SameAt(n, m, q), PcbInv(n, q)
    PROVE  PcbInv(m, q)
<1> SUFFICES ASSUME m.pcb[q].ready
             PROVE  PcbInv(m, q)
  BY DEF PcbInv
<1>0. n.pcb[q].ready
  BY DEF SameAt
<1>1. \A k \in Scheduled(m) : k.pcb = q => k \in Scheduled(n)
  BY DEF SameAt, SamePackets
<1>2. \A k \in Scheduled(n) : k.pcb = q => k \in Scheduled(m)
  BY DEF SameAt, SamePackets
<1>3. m.pcb[q] = n.pcb[q] /\ m.won[q] = n.won[q] /\ Common(m) = Common(n) /\ m.host = n.host
  BY DEF SameAt, SameNames, Common
<1>4. m.pcb[q].state \in ProbeStates =>
              /\ \E k \in Scheduled(m) : Alone(m, q, k) /\ ProbeOf(m, q, k)
              /\ m.host => Common(m) \subseteq m.won[q] \cup m.pcb[q].probing
  <2> SUFFICES ASSUME m.pcb[q].state \in ProbeStates
               PROVE  /\ \E k \in Scheduled(m) : Alone(m, q, k) /\ ProbeOf(m, q, k)
                      /\ m.host => Common(m) \subseteq m.won[q] \cup m.pcb[q].probing
    OBVIOUS
  <2>1. PICK k \in Scheduled(n) : Alone(n, q, k) /\ ProbeOf(n, q, k)
    BY <1>0, <1>3 DEF PcbInv
  <2>2. k \in Scheduled(m) /\ Alone(m, q, k)
    BY <1>2, <2>1 DEF SameAt, SamePackets, Alone
  <2>3. ProbeOf(m, q, k)
    BY <1>3, <2>1 DEF ProbeOf
  <2>4. QED
    BY <1>0, <1>3, <2>2, <2>3 DEF PcbInv
<1>5. m.pcb[q].state \notin ProbeStates =>
              \A k \in Scheduled(m) : k.pcb = q => k.servers = {} /\ ~IsEmpty(k)
  BY <1>0, <1>1, <1>3 DEF PcbInv
<1>6. m.pcb[q].state \in AnnounceStates => \E k \in Scheduled(m) : k.pcb = q
  BY <1>0, <1>2, <1>3 DEF PcbInv
<1>7. m.host /\ m.pcb[q].state \in AfterProbing => Common(m) \subseteq m.won[q]
  BY <1>0, <1>3 DEF PcbInv
<1>8. m.pcb[q].state # "OFF"
  BY <1>0, <1>3 DEF PcbInv
<1>9. QED
  BY <1>4, <1>5, <1>6, <1>7, <1>8 DEF PcbInv

(* One such step after the other is one.                                   *)
LEMMA SameFollows ==
    ASSUME NEW a, NEW b, NEW c, NEW q, SameAt(a, b, q), SameAt(b, c, q)
    PROVE  SameAt(a, c, q)
BY DEF SameAt, SamePackets

(* The rest of a state that has other packets.                             *)
OtherPackets(n, m) ==
    /\ NetTypes(m) /\ SameNames(n, m) /\ m.instance = n.instance
    /\ m.pcb = n.pcb /\ m.won = n.won

(* p has no packet.                                                        *)
Absent(n, p) == \A k \in Scheduled(n) : k.pcb # p

(* Clearing the queue of p takes its packets and no others.                *)
LEMMA ClearOfClears ==
    ASSUME NEW n, NetTypes(n), NEW p \in Pcbs, NEW m, m = ClearOf(n, p)
    PROVE  /\ OtherPackets(n, m) /\ Absent(m, p)
           /\ \A q \in Pcbs : q # p => SameAt(n, m, q)
<1> DEFINE places == {i \in DOMAIN n.line : n.line[i].pcb # p}
<1>1. PICK line, left : line = n.line /\ left = Kept(line, places)
  OBVIOUS
<1>2. line \in Seq(TxPacket)
  BY <1>1 DEF NetTypes
<1>3. Keeps(line, places, left)
  BY <1>1, <1>2, KeptKeeps
<1>4. m = [n EXCEPT !.line = left, !.waiting = {k \in n.waiting : k.pcb # p}]
  BY <1>1 DEF ClearOf
<1>5. /\ m.line = left /\ m.waiting = {k \in n.waiting : k.pcb # p}
      /\ m.pcb = n.pcb /\ m.won = n.won /\ m.host = n.host /\ m.services = n.services
      /\ m.own = n.own /\ m.instance = n.instance
  BY <1>4 DEF NetTypes
<1>6. NetTypes(m)
  <2>1. left \in Seq(TxPacket)
    BY <1>3 DEF Keeps
  <2>2. m.waiting \in SUBSET n.waiting
    BY <1>5
  <2>3. IsFiniteSet(m.waiting)
    BY <2>2, FS_Subset DEF NetTypes
  <2>4. m = [pcb |-> m.pcb, line |-> m.line, waiting |-> m.waiting, host |-> m.host,
            instance |-> m.instance, services |-> m.services, own |-> m.own, won |-> m.won]
    BY <1>4 DEF NetTypes
  <2>5. QED
    BY <1>5, <2>1, <2>2, <2>3, <2>4 DEF NetTypes
<1>7. OtherPackets(n, m)
  BY <1>5, <1>6 DEF OtherPackets, SameNames
<1>8. Scheduled(m) = {k \in Scheduled(n) : k.pcb # p}
  <2>1. \A i \in DOMAIN left : \E j \in DOMAIN line : left[i] = line[j] /\ line[j].pcb # p
    BY <1>1, <1>3 DEF Keeps
  <2>2. \A j \in DOMAIN line : line[j].pcb # p => \E i \in DOMAIN left : left[i] = line[j]
    <3>1. \A j \in DOMAIN line : line[j].pcb # p => j \in DOMAIN line \cap places
      BY <1>1
    <3> HIDE DEF places
    <3>2. QED
      BY <1>3, <3>1 DEF Keeps
  <2>3. ToSet(left) = {k \in ToSet(line) : k.pcb # p}
    BY <2>1, <2>2 DEF ToSet
  <2>4. QED
    BY <1>1, <1>5, <2>3 DEF Scheduled
<1>9. ASSUME NEW q \in Pcbs, q # p
      PROVE  SameAt(n, m, q)
  <2>1. \A k : k.pcb = q => (k \in Scheduled(n) <=> k \in Scheduled(m))
    BY <1>8, <1>9
  <2>2. ASSUME NEW k, Alone(n, q, k)
        PROVE  Alone(m, q, k)
    <3>1. k.pcb = q
      BY <2>2 DEF Alone
    <3>2. CASE /\ k \in n.waiting /\ \A w \in n.waiting : w.pcb = q => w = k
               /\ \A i \in DOMAIN n.line : n.line[i].pcb # q
      <4>1. \A i \in DOMAIN m.line : m.line[i].pcb # q
        BY <1>1, <1>3, <1>5, <3>2 DEF Keeps
      <4>2. QED
        BY <1>5, <1>9, <3>1, <3>2, <4>1 DEF Alone
    <3>3. CASE /\ \A w \in n.waiting : w.pcb # q
               /\ \E i \in DOMAIN n.line :
                     n.line[i] = k /\ \A j \in DOMAIN n.line : n.line[j].pcb = q => j = i
      <4>1. PICK i \in DOMAIN line :
                     line[i] = k /\ \A j \in DOMAIN line : line[j].pcb = q => j = i
        BY <1>1, <3>3
      <4>2. i \in DOMAIN line \cap places
        BY <1>1, <1>9, <3>1, <4>1
      <4> HIDE DEF places
      <4>3. PICK a \in DOMAIN left :
                /\ left[a] = line[i]
                /\ \A b \in DOMAIN left : b = a \/ \E c \in DOMAIN line \cap places :
                                                     c # i /\ left[b] = line[c]
        BY <1>3, <4>2 DEF Keeps
      <4>4. left[a] = k /\ \A b \in DOMAIN left : left[b].pcb = q => b = a
        BY <4>1, <4>3
      <4>5. QED
        BY <1>5, <3>1, <3>3, <4>4 DEF Alone
    <3>4. QED
      BY <2>2, <3>2, <3>3 DEF Alone
  <2>3. QED
    BY <1>5, <2>1, <2>2 DEF SameAt, SamePackets
<1>10. Absent(m, p)
  BY <1>8 DEF Absent
<1>11. QED
  BY <1>7, <1>9, <1>10

(* A packet that is sent later is the only one of p if p had none.         *)
LEMMA SentLater ==
    ASSUME NEW n, NetTypes(n), NEW k \in TxPacket, NEW m, m = SendLater(n, k)
    PROVE  /\ OtherPackets(n, m) /\ Scheduled(m) = Scheduled(n) \cup {k}
           /\ \A q \in Pcbs : q # k.pcb => SameAt(n, m, q)
           /\ Absent(n, k.pcb) => Alone(m, k.pcb, k)
<1>1. m = [n EXCEPT !.waiting = n.waiting \cup {k}]
  BY DEF SendLater
<1>2. /\ m.line = n.line /\ m.waiting = n.waiting \cup {k}
      /\ m.pcb = n.pcb /\ m.won = n.won /\ m.host = n.host /\ m.services = n.services
      /\ m.own = n.own /\ m.instance = n.instance
  BY <1>1 DEF NetTypes
<1>3. NetTypes(m)
  <2>1. IsFiniteSet(m.waiting)
    BY <1>2, FS_AddElement DEF NetTypes
  <2>2. m = [pcb |-> m.pcb, line |-> m.line, waiting |-> m.waiting, host |-> m.host,
            instance |-> m.instance, services |-> m.services, own |-> m.own, won |-> m.won]
    BY <1>1 DEF NetTypes
  <2>3. QED
    BY <1>2, <2>1, <2>2 DEF NetTypes
<1>4. Scheduled(m) = Scheduled(n) \cup {k}
  BY <1>2 DEF Scheduled
<1>5. \A q \in Pcbs : q # k.pcb => SameAt(n, m, q)
  BY <1>2, <1>4 DEF SameAt, SamePackets, Alone
<1>6. Absent(n, k.pcb) => Alone(m, k.pcb, k)
  BY <1>2 DEF Absent, Alone, Scheduled, ToSet
<1>7. QED
  BY <1>2, <1>3, <1>4, <1>5, <1>6 DEF OtherPackets, SameNames

(* A pcb is replaced, that is all.                                         *)
LEMMA PcbChanges ==
    ASSUME NEW n, NetTypes(n), NEW p \in Pcbs, NEW b \in Pcb, NEW m, m = [n EXCEPT !.pcb[p] = b]
    PROVE  /\ NetTypes(m) /\ SameNames(n, m) /\ m.instance = n.instance /\ m.won = n.won
           /\ m.pcb[p] = b /\ m.line = n.line /\ m.waiting = n.waiting
           /\ Scheduled(m) = Scheduled(n)
           /\ \A q \in Pcbs : q # p => SameAt(n, m, q)
<1>1. /\ m.pcb = [n.pcb EXCEPT ![p] = b] /\ m.line = n.line /\ m.waiting = n.waiting
      /\ m.won = n.won /\ m.host = n.host /\ m.services = n.services
      /\ m.own = n.own /\ m.instance = n.instance
  BY DEF NetTypes
<1>2. NetTypes(m)
  <2>1. m = [pcb |-> m.pcb, line |-> m.line, waiting |-> m.waiting, host |-> m.host,
            instance |-> m.instance, services |-> m.services, own |-> m.own, won |-> m.won]
    BY DEF NetTypes
  <2>2. m.pcb \in [Pcbs -> Pcb]
    BY <1>1 DEF NetTypes
  <2>3. QED
    BY <1>1, <2>1, <2>2 DEF NetTypes
<1>3. m.pcb[p] = b /\ \A q \in Pcbs : q # p => m.pcb[q] = n.pcb[q]
  BY <1>1 DEF NetTypes
<1>4. Scheduled(m) = Scheduled(n)
  BY <1>1 DEF Scheduled
<1>5. \A q \in Pcbs : q # p => SameAt(n, m, q)
  BY <1>1, <1>3, <1>4 DEF SameAt, SamePackets, Alone
<1>6. QED
  BY <1>1, <1>2, <1>3, <1>4, <1>5 DEF SameNames

-----------------------------------------------------------------------------
(* A new packet says nothing.                                              *)
LEMMA BlankIsPacket ==
    ASSUME NEW n, NetTypes(n), NEW p \in Pcbs, NEW k, k = Blank(n, p)
    PROVE  /\ k \in TxPacket /\ k.pcb = p /\ k.asks = {} /\ k.hosts = {} /\ k.servers = {}
           /\ ~k.ip /\ k.answers = {} /\ ~k.addrs
<1>1. Address(n) \in Nat
  BY AddressIsNumber
<1>2. QED
  BY <1>1 DEF Blank, TxPacket

(* What a step on one pcb leaves: the pcb as it should be, and the others. *)
Only(n, m, p) ==
    /\ NetTypes(m) /\ SameNames(n, m) /\ m.instance = n.instance
    /\ \A q \in Pcbs : q # p => SameAt(n, m, q)

(* Probing starts again on an interface, whatever was scheduled: enough is *)
(* probed if what was not probed to the end is.                            *)
LEMMA ProbeStarts ==
    ASSUME NEW n, NetTypes(n), NEW p \in Pcbs, NEW list \in SUBSET Services, NEW ip \in BOOLEAN,
           list # {} \/ ip,
           n.host /\ n.pcb[p].ready => 
               Common(n) \subseteq n.won[p] \cup list \cup BeingProbed(n, p),
           NEW m, m = InitProbe(n, p, list, ip)
    PROVE  Only(n, m, p) /\ PcbInv(m, p) /\ m.pcb[p].ready = n.pcb[p].ready /\ m.won = n.won
<1>1. PICK c : c = ClearOf(n, p)
  OBVIOUS
<1>2. /\ OtherPackets(n, c) /\ Absent(c, p)
      /\ \A q \in Pcbs : q # p => SameAt(n, c, q)
  BY <1>1, ClearOfClears
<1>3. NetTypes(c) /\ n.pcb[p] \in Pcb /\ c.pcb = n.pcb /\ c.won = n.won /\ SameNames(n, c)
      /\ c.instance = n.instance
  BY <1>2 DEF OtherPackets, NetTypes
<1>4. CASE ~n.host
  <2>1. PICK b : b = [n.pcb[p] EXCEPT !.state = "RUNNING"]
    OBVIOUS
  <2>2. b \in Pcb /\ b.state = "RUNNING" /\ b.ready = n.pcb[p].ready
    BY <1>3, <2>1 DEF Pcb, States
  <2>3. m = [c EXCEPT !.pcb[p] = b]
    <3>1. m = [c EXCEPT !.pcb[p].state = "RUNNING"]
      BY <1>1, <1>4 DEF InitProbe
    <3>2. QED
      BY <1>3, <2>1, <3>1 DEF NetTypes
  <2>4. /\ NetTypes(m) /\ SameNames(c, m) /\ m.instance = c.instance /\ m.won = c.won
        /\ m.pcb[p] = b /\ Scheduled(m) = Scheduled(c)
        /\ \A q \in Pcbs : q # p => SameAt(c, m, q)
    BY <1>3, <2>2, <2>3, PcbChanges
  <2>5. Only(n, m, p)
    <3>1. \A q \in Pcbs : q # p => SameAt(n, m, q)
      BY <1>2, <2>4, SameFollows
    <3>2. QED
      BY <1>3, <2>4, <3>1 DEF Only, SameNames
  <2>6. PcbInv(m, p)
    <3>1. b.state \notin ProbeStates /\ b.state \notin AnnounceStates /\ b.state # "OFF"
      BY <2>2 DEF ProbeStates, AnnounceStates
    <3>2. ~m.host
      BY <1>3, <1>4, <2>4 DEF SameNames
    <3>3. QED
      BY <1>2, <2>4, <3>1, <3>2 DEF PcbInv, Absent
  <2>7. QED
    BY <1>3, <2>2, <2>4, <2>5, <2>6
<1>5. CASE n.host
  <2>1. PICK all, withIp :
           /\ all = list \cup BeingProbed(n, p)
           /\ withIp = (n.pcb[p].ip \/ ip)
    OBVIOUS
  <2>2. all \in SUBSET Services /\ withIp \in BOOLEAN /\ (all # {} \/ withIp)
    BY <1>3, <2>1 DEF Pcb, BeingProbed
  <2>3. PICK b : b = [n.pcb[p] EXCEPT !.state = "PROBE_1", !.probing = all,
                                      !.ip = withIp, !.running = TRUE]
    OBVIOUS
  <2>4. /\ b \in Pcb /\ b.state = "PROBE_1" /\ b.probing = all /\ b.ip = withIp
        /\ b.ready = n.pcb[p].ready
    BY <1>3, <2>2, <2>3 DEF Pcb, States, ProbeStates
  <2>5. PICK k, d : k = ProbePacket(c, p, all, withIp) /\ d = [c EXCEPT !.pcb[p] = b]
    OBVIOUS
  <2>6. k \in TxPacket /\ k.pcb = p /\ k.asks = all /\ k.servers = all /\ k.ip = withIp
    <3>1. PICK blank : blank = Blank(c, p)
      OBVIOUS
    <3>2. blank \in TxPacket /\ blank.pcb = p
      BY <1>3, <3>1, BlankIsPacket
    <3>3. k = [blank EXCEPT !.asks = all, !.servers = all, !.ip = withIp,
                            !.hosts = IF withIp THEN all ELSE {}]
      BY <2>5, <3>1 DEF ProbePacket
    <3>4. QED
      BY <2>2, <3>2, <3>3 DEF TxPacket
  <2>7. m = SendLater(d, k)
    <3>1. m = SendLater([c EXCEPT !.pcb[p] =
                          [@ EXCEPT !.state = "PROBE_1", !.probing = all,
                                    !.ip = withIp, !.running = TRUE]], k)
      BY <1>1, <1>5, <2>1, <2>5 DEF InitProbe, BeingProbed
    <3>2. d = [c EXCEPT !.pcb[p] = [@ EXCEPT !.state = "PROBE_1", !.probing = all,
                                    !.ip = withIp, !.running = TRUE]]
      BY <1>3, <2>3, <2>5 DEF NetTypes
    <3>3. QED
      BY <3>1, <3>2
  <2>8. /\ NetTypes(d) /\ SameNames(c, d) /\ d.instance = c.instance /\ d.won = c.won
        /\ d.pcb[p] = b /\ Scheduled(d) = Scheduled(c)
        /\ \A q \in Pcbs : q # p => SameAt(c, d, q)
    BY <1>3, <2>4, <2>5, PcbChanges
  <2>9. Absent(d, k.pcb)
    BY <1>2, <2>6, <2>8 DEF Absent
  <2>10. /\ OtherPackets(d, m) /\ Scheduled(m) = Scheduled(d) \cup {k}
         /\ \A q \in Pcbs : q # p => SameAt(d, m, q)
         /\ Alone(m, p, k)
    <3>1. /\ OtherPackets(d, m) /\ Scheduled(m) = Scheduled(d) \cup {k}
          /\ \A q \in Pcbs : q # k.pcb => SameAt(d, m, q)
          /\ Absent(d, k.pcb) => Alone(m, k.pcb, k)
      BY <2>6, <2>7, <2>8, SentLater
    <3>2. QED
      BY <2>6, <2>9, <3>1
  <2>11. /\ NetTypes(m) /\ SameNames(n, m) /\ m.instance = n.instance
         /\ m.pcb[p] = b /\ m.won = n.won /\ k \in Scheduled(m)
    BY <1>3, <2>8, <2>10 DEF OtherPackets, SameNames
  <2>12. Only(n, m, p)
    <3>1. \A q \in Pcbs : q # p => SameAt(n, d, q)
      BY <1>2, <2>8, SameFollows
    <3>2. \A q \in Pcbs : q # p => SameAt(n, m, q)
      BY <2>10, <3>1, SameFollows
    <3>3. QED
      BY <2>11, <3>2 DEF Only
  <2>13. PcbInv(m, p)
    <3>1. /\ b.state \in ProbeStates /\ b.state \notin AnnounceStates
          /\ b.state \notin AfterProbing /\ b.state # "OFF"
      BY <2>4 DEF ProbeStates, AnnounceStates, AfterProbing
    <3>2. ProbeOf(m, p, k)
      BY <2>2, <2>4, <2>6, <2>11 DEF ProbeOf
    <3>3. m.host /\ m.pcb[p].ready => Common(m) \subseteq m.won[p] \cup m.pcb[p].probing
      <4>1. Common(m) = Common(n)
        BY <2>11 DEF Common, SameNames
      <4>2. QED
        BY <1>5, <2>1, <2>4, <2>11, <4>1
    <3>4. QED
      BY <2>10, <2>11, <3>1, <3>2, <3>3 DEF PcbInv
  <2>14. QED
    BY <2>4, <2>11, <2>12, <2>13
<1>6. QED
  BY <1>4, <1>5 DEF NetTypes

-----------------------------------------------------------------------------
(* Every interface is as it should be. *)
Held(n) == NetTypes(n) /\ \A p \in Pcbs : PcbInv(n, p)

(* It is enough to look at the interface that changes.                     *)
LEMMA OnlyOneChanges ==
    ASSUME NEW n, Held(n), NEW p \in Pcbs, NEW m, Only(n, m, p), PcbInv(m, p)
    PROVE  Held(m)
<1>1. ASSUME NEW q \in Pcbs, q # p
      PROVE  PcbInv(m, q)
  <2>1. SameNames(n, m) /\ SameAt(n, m, q) /\ PcbInv(n, q)
    BY <1>1 DEF Only, Held
  <2>2. QED
    BY <2>1, SameKeeps
<1>2. QED
  BY <1>1 DEF Held, Only

(* What an interface that is as it should be has not won, it probes.       *)
LEMMA HeldCovers ==
    ASSUME NEW n, NetTypes(n), NEW p \in Pcbs, PcbInv(n, p), n.host, n.pcb[p].ready
    PROVE  Common(n) \subseteq n.won[p] \cup BeingProbed(n, p)
<1>1. n.pcb[p].state \in States
  BY DEF NetTypes, Pcb
<1>2. n.pcb[p].state \notin ProbeStates => n.pcb[p].state \in AfterProbing
  BY <1>1 DEF States, AfterProbing, PcbInv
<1>3. QED
  BY <1>2 DEF PcbInv, BeingProbed

-----------------------------------------------------------------------------
(* Probing on all interfaces. *)
ProbeOn(n, p, list, ip, clearOld) ==
    LET forgot ==
            IF clearOld THEN [n EXCEPT !.pcb[p].probing = {}, !.pcb[p].running = FALSE] ELSE n
    IN IF p \in Pcbs /\ n.pcb[p].ready THEN InitProbe(forgot, p, list, ip) ELSE n

(* Probing goes through the two protocols in turn.                         *)
LEMMA ProbeAllOnEach ==
    ASSUME NEW n, NEW list, NEW ip, NEW clearOld
    PROVE  ProbeAll(n, list, ip, clearOld) =
              ProbeOn(ProbeOn(n, "v4", list, ip, clearOld), "v6", list, ip, clearOld)
BY DEF ProbeAll, ProbeOn

(* What is asked for, and what is still probed, is enough. *)
Covered(n, p, list, clearOld) ==
    n.host /\ n.pcb[p].ready =>
        Common(n) \subseteq n.won[p] \cup list \cup (IF clearOld THEN {} ELSE BeingProbed(n, p))

(* The interface p starts to probe; the other is as it was.                *)
Reprobed(n, m, p) ==
    /\ NetTypes(m) /\ SameNames(n, m) /\ m.instance = n.instance
    /\ \A q \in Pcbs : q # p => SameAt(n, m, q)
    /\ p \in Pcbs => PcbInv(m, p)

(* What does not change is the same.                                       *)
LEMMA SameReflects ==
    ASSUME NEW n, NEW q
    PROVE  SameAt(n, n, q) /\ SameNames(n, n)
BY DEF SameAt, SamePackets, SameNames

(* Probing on one interface gives its invariant, whatever held before, if  *)
(* all that has not been won is probed.                                    *)
LEMMA ProbeOnOne ==
    ASSUME NEW n, NetTypes(n), NEW p, NEW list \in SUBSET Services, NEW ip \in BOOLEAN,
           NEW clearOld \in BOOLEAN, list # {} \/ ip, p \in Pcbs => Covered(n, p, list, clearOld),
           NEW m, m = ProbeOn(n, p, list, ip, clearOld)
    PROVE  Reprobed(n, m, p)
<1>1. CASE ~(p \in Pcbs /\ n.pcb[p].ready)
  <2>1. m = n
    BY <1>1 DEF ProbeOn
  <2>2. p \in Pcbs => PcbInv(m, p)
    BY <1>1, <2>1 DEF PcbInv
  <2>3. QED
    BY <2>1, <2>2, SameReflects DEF Reprobed
<1>2. CASE p \in Pcbs /\ n.pcb[p].ready
  <2>1. PICK b : b = IF clearOld THEN [n.pcb[p] EXCEPT !.probing = {}, !.running = FALSE]
                     ELSE n.pcb[p]
    OBVIOUS
  <2>2. n.pcb[p] \in Pcb
    BY <1>2 DEF NetTypes
  <2>3. b \in Pcb /\ b.ready = n.pcb[p].ready /\ b.state = n.pcb[p].state /\ b.ip = n.pcb[p].ip
    BY <2>1, <2>2 DEF Pcb
  <2>4. PICK d : d = [n EXCEPT !.pcb[p] = b]
    OBVIOUS
  <2>5. m = InitProbe(d, p, list, ip)
    <3>1. CASE clearOld
      <4>1. m = InitProbe([n EXCEPT !.pcb[p].probing = {}, !.pcb[p].running = FALSE], p, list, ip)
        BY <1>2, <3>1 DEF ProbeOn
      <4>2. d = [n EXCEPT !.pcb[p].probing = {}, !.pcb[p].running = FALSE]
        BY <1>2, <2>1, <2>2, <2>4, <3>1 DEF NetTypes, Pcb
      <4>3. QED
        BY <4>1, <4>2
    <3>2. CASE ~clearOld
      <4>1. m = InitProbe(n, p, list, ip)
        BY <1>2, <3>2 DEF ProbeOn
      <4>2. d = n
        BY <1>2, <2>1, <2>4, <3>2 DEF NetTypes
      <4>3. QED
        BY <4>1, <4>2
    <3>3. QED
      BY <3>1, <3>2
  <2>6. /\ NetTypes(d) /\ SameNames(n, d) /\ d.instance = n.instance /\ d.won = n.won
        /\ d.pcb[p] = b /\ \A q \in Pcbs : q # p => SameAt(n, d, q)
    <3>1. /\ NetTypes(d) /\ SameNames(n, d) /\ d.instance = n.instance /\ d.won = n.won
          /\ \A q \in Pcbs : q # p => SameAt(n, d, q)
      BY <1>2, <2>3, <2>4, PcbChanges
    <3>2. d.pcb[p] = b
      BY <1>2, <2>4 DEF NetTypes
    <3>3. QED
      BY <3>1, <3>2
  <2>7. d.host /\ d.pcb[p].ready => Common(d) \subseteq d.won[p] \cup list \cup BeingProbed(d, p)
    <3>1. Common(d) = Common(n) /\ d.host = n.host
      BY <2>6 DEF Common, SameNames
    <3>2. ~clearOld => BeingProbed(d, p) = BeingProbed(n, p)
      BY <2>1, <2>6 DEF BeingProbed
    <3>3. QED
      BY <1>2, <2>3, <2>6, <3>1, <3>2 DEF Covered
  <2>8. Only(d, m, p) /\ PcbInv(m, p)
    BY <1>2, <2>5, <2>6, <2>7, ProbeStarts
  <2>9. \A q \in Pcbs : q # p => SameAt(n, m, q)
    BY <2>6, <2>8, SameFollows DEF Only
  <2>10. QED
    BY <2>6, <2>8, <2>9 DEF Only, Reprobed, SameNames
<1>3. QED
  BY <1>1, <1>2

(* Hence probing on all of them gives the invariant of all.                *)
LEMMA ProbeAllHolds ==
    ASSUME NEW n, NetTypes(n), NEW list \in SUBSET Services, NEW ip \in BOOLEAN,
           NEW clearOld \in BOOLEAN, list # {} \/ ip,
           \A p \in Pcbs : Covered(n, p, list, clearOld),
           NEW m, m = ProbeAll(n, list, ip, clearOld)
    PROVE  Held(m)
<1>1. PICK four, six : four = "v4" /\ six = "v6"
  OBVIOUS
<1>2. PICK c : c = ProbeOn(n, four, list, ip, clearOld)
  OBVIOUS
<1>3. m = ProbeOn(c, six, list, ip, clearOld)
  BY <1>1, <1>2, ProbeAllOnEach
<1>4. Reprobed(n, c, four)
  <2>1. four \in Pcbs => Covered(n, four, list, clearOld)
    OBVIOUS
  <2>2. QED
    BY <1>2, <2>1, ProbeOnOne
<1>5. six \in Pcbs => Covered(c, six, list, clearOld)
  <2> SUFFICES ASSUME six \in Pcbs
               PROVE  Covered(c, six, list, clearOld)
    OBVIOUS
  <2>1. Covered(n, six, list, clearOld) /\ SameAt(n, c, six) /\ SameNames(n, c)
    BY <1>1, <1>4 DEF Reprobed
  <2>2. QED
    BY <2>1 DEF Covered, SameAt, SameNames, Common, BeingProbed
<1>6. Reprobed(c, m, six)
  <2>1. NetTypes(c)
    BY <1>4 DEF Reprobed
  <2>2. QED
    BY <1>3, <1>5, <2>1, ProbeOnOne
<1>7. ASSUME NEW q \in Pcbs
      PROVE  PcbInv(m, q)
  <2>1. q = four \/ q = six
    BY <1>1, ResponderAssumption
  <2>2. CASE q = six
    BY <1>6, <2>2 DEF Reprobed
  <2>3. CASE q = four
    <3>1. PcbInv(c, q) /\ SameNames(c, m) /\ SameAt(c, m, q)
      BY <1>1, <1>4, <1>6, <2>3 DEF Reprobed
    <3>2. QED
      BY <3>1, SameKeeps
  <2>4. QED
    BY <2>1, <2>2, <2>3
<1>8. QED
  BY <1>6, <1>7 DEF Reprobed, Held

-----------------------------------------------------------------------------
(* Packets that change where they are.                                     *)
Mapped(n, m, f) ==
    /\ m.line = [i \in DOMAIN n.line |-> f[n.line[i]]]
    /\ m.waiting = {f[k] : k \in n.waiting}

(* A change of packets that leaves each with its interface.                *)
SamePcb(f) == f \in [TxPacket -> TxPacket] /\ \A k \in TxPacket : f[k].pcb = k.pcb

(* The packets of m are those of n, changed by f.                          *)
Carried(n, m, f) ==
    /\ m.line \in Seq(TxPacket) /\ m.waiting \subseteq TxPacket /\ IsFiniteSet(m.waiting)
    /\ Scheduled(m) = {f[k] : k \in Scheduled(n)}
    /\ \A q \in Pcbs, k \in TxPacket : Alone(n, q, k) => Alone(m, q, f[k])

(* What is scheduled is a packet.                                          *)
LEMMA ScheduledArePackets ==
    ASSUME NEW n, NetTypes(n)
    PROVE  Scheduled(n) \subseteq TxPacket
BY DEF NetTypes, Scheduled, ToSet

(* Changing the packets place by place carries them over.                  *)
LEMMA MappedPackets ==
    ASSUME NEW n, NetTypes(n), NEW f, SamePcb(f), NEW m, Mapped(n, m, f)
    PROVE  Carried(n, m, f)
<1>1. /\ n.line \in Seq(TxPacket) /\ DOMAIN n.line = 1..Len(n.line)
      /\ n.waiting \subseteq TxPacket /\ IsFiniteSet(n.waiting)
  BY DEF NetTypes
<1>2. \A i \in DOMAIN n.line : n.line[i] \in TxPacket /\ f[n.line[i]] \in TxPacket
  BY <1>1 DEF SamePcb
<1>3. /\ m.line \in Seq(TxPacket) /\ DOMAIN m.line = DOMAIN n.line
      /\ \A i \in DOMAIN m.line : m.line[i] = f[n.line[i]]
  <2>1. DOMAIN m.line = DOMAIN n.line /\ \A i \in DOMAIN m.line : m.line[i] = f[n.line[i]]
    BY DEF Mapped
  <2>2. m.line \in Seq(TxPacket)
    <3>1. PICK N, line : N = Len(n.line) /\ line = m.line
      OBVIOUS
    <3>2. N \in Nat /\ line = [i \in 1..N |-> f[n.line[i]]]
      BY <1>1, <3>1 DEF Mapped
    <3>3. \A i \in 1..N : f[n.line[i]] \in TxPacket
      BY <1>1, <1>2, <3>1
    <3>4. line \in [1..N -> TxPacket]
      BY <3>2, <3>3
    <3>5. line \in Seq(TxPacket)
      BY <3>2, <3>4, SeqDef
    <3>6. QED
      BY <3>1, <3>5
  <2>3. QED
    BY <2>1, <2>2
<1>4. m.waiting \subseteq TxPacket /\ IsFiniteSet(m.waiting)
  <2>1. m.waiting \subseteq TxPacket
    BY <1>1 DEF Mapped, SamePcb
  <2>2. PICK S : S = n.waiting
    OBVIOUS
  <2>3. IsFiniteSet({f[k] : k \in S})
    BY <1>1, <2>2, ImageIsFinite
  <2>4. QED
    BY <2>1, <2>2, <2>3 DEF Mapped
<1>5. Scheduled(m) = {f[k] : k \in Scheduled(n)}
  <2>1. \A x : x \in ToSet(m.line) <=> \E k \in ToSet(n.line) : x = f[k]
    BY <1>3 DEF ToSet
  <2>2. QED
    BY <2>1 DEF Scheduled, Mapped
<1>6. ASSUME NEW q \in Pcbs, NEW k \in TxPacket, Alone(n, q, k)
      PROVE  Alone(m, q, f[k])
  <2>1. k.pcb = q /\ f[k].pcb = q
    BY <1>6 DEF Alone, SamePcb
  <2>2. \A i \in DOMAIN m.line : m.line[i].pcb = n.line[i].pcb
    BY <1>2, <1>3 DEF SamePcb
  <2>3. \A w \in m.waiting : \E v \in n.waiting : w = f[v] /\ w.pcb = v.pcb
    BY <1>1 DEF SamePcb, Mapped
  <2>4. CASE /\ k \in n.waiting /\ \A w \in n.waiting : w.pcb = q => w = k
             /\ \A i \in DOMAIN n.line : n.line[i].pcb # q
    <3>1. f[k] \in m.waiting
      BY <2>4 DEF Mapped
    <3>2. \A w \in m.waiting : w.pcb = q => w = f[k]
      BY <2>3, <2>4
    <3>3. \A i \in DOMAIN m.line : m.line[i].pcb # q
      BY <1>3, <2>2, <2>4
    <3>4. QED
      BY <2>1, <3>1, <3>2, <3>3 DEF Alone
  <2>5. CASE /\ \A w \in n.waiting : w.pcb # q
             /\ \E i \in DOMAIN n.line :
                   n.line[i] = k /\ \A j \in DOMAIN n.line : n.line[j].pcb = q => j = i
    <3>1. \A w \in m.waiting : w.pcb # q
      BY <2>3, <2>5
    <3>2. PICK i \in DOMAIN n.line :
                   n.line[i] = k /\ \A j \in DOMAIN n.line : n.line[j].pcb = q => j = i
      BY <2>5
    <3>3. i \in DOMAIN m.line /\ m.line[i] = f[k]
      BY <1>3, <3>2
    <3>4. \A j \in DOMAIN m.line : m.line[j].pcb = q => j = i
      BY <1>3, <2>2, <3>2
    <3>5. QED
      BY <2>1, <3>1, <3>3, <3>4 DEF Alone
  <2>6. QED
    BY <1>6, <2>4, <2>5 DEF Alone
<1>7. QED
  BY <1>3, <1>4, <1>5, <1>6 DEF Carried

(* The change keeps what a probe says, and leaves no packet empty.         *)
Harmless(f) ==
    \A k \in TxPacket : /\ f[k].servers = k.servers /\ f[k].ip = k.ip /\ f[k].asks = k.asks
                        /\ IsEmpty(f[k]) => IsEmpty(k)

(* An interface keeps its invariant if the change is harmless.             *)
LEMMA CarriedKeeps ==
    ASSUME NEW n, NetTypes(n), NEW f, SamePcb(f), Harmless(f), NEW m, Carried(n, m, f),
           NEW q \in Pcbs, PcbInv(n, q), SameNames(n, m), m.pcb[q] = n.pcb[q], m.won[q] = n.won[q]
    PROVE  PcbInv(m, q)
<1> SUFFICES ASSUME m.pcb[q].ready
             PROVE  PcbInv(m, q)
  BY DEF PcbInv
<1>1. Scheduled(n) \subseteq TxPacket
  BY ScheduledArePackets
<1>2. Scheduled(m) = {f[k] : k \in Scheduled(n)}
  BY DEF Carried
<1>3. Common(m) = Common(n) /\ m.host = n.host /\ n.pcb[q].ready
  BY DEF SameNames, Common
<1>4. m.pcb[q].state \in ProbeStates =>
              /\ \E k \in Scheduled(m) : Alone(m, q, k) /\ ProbeOf(m, q, k)
              /\ m.host => Common(m) \subseteq m.won[q] \cup m.pcb[q].probing
  <2> SUFFICES ASSUME m.pcb[q].state \in ProbeStates
               PROVE  /\ \E k \in Scheduled(m) : Alone(m, q, k) /\ ProbeOf(m, q, k)
                      /\ m.host => Common(m) \subseteq m.won[q] \cup m.pcb[q].probing
    OBVIOUS
  <2>1. PICK k \in Scheduled(n) : Alone(n, q, k) /\ ProbeOf(n, q, k)
    BY <1>3 DEF PcbInv
  <2>2. k \in TxPacket /\ f[k] \in Scheduled(m)
    BY <1>1, <1>2
  <2>3. Alone(m, q, f[k])
    BY <2>1, <2>2 DEF Carried
  <2>4. ProbeOf(m, q, f[k])
    BY <2>1, <2>2 DEF ProbeOf, Harmless
  <2>5. QED
    BY <1>3, <2>2, <2>3, <2>4 DEF PcbInv
<1>5. m.pcb[q].state \notin ProbeStates =>
              \A k \in Scheduled(m) : k.pcb = q => k.servers = {} /\ ~IsEmpty(k)
  <2> SUFFICES ASSUME m.pcb[q].state \notin ProbeStates, NEW k \in Scheduled(n), f[k].pcb = q
               PROVE  f[k].servers = {} /\ ~IsEmpty(f[k])
    BY <1>2
  <2>1. k \in TxPacket /\ k.pcb = q
    BY <1>1 DEF SamePcb
  <2>2. k.servers = {} /\ ~IsEmpty(k)
    BY <1>3, <2>1 DEF PcbInv
  <2>3. QED
    BY <2>1, <2>2 DEF Harmless
<1>6. m.pcb[q].state \in AnnounceStates => \E k \in Scheduled(m) : k.pcb = q
  <2> SUFFICES ASSUME m.pcb[q].state \in AnnounceStates
               PROVE  \E k \in Scheduled(m) : k.pcb = q
    OBVIOUS
  <2>1. PICK k \in Scheduled(n) : k.pcb = q
    BY <1>3 DEF PcbInv
  <2>2. f[k] \in Scheduled(m) /\ f[k].pcb = q
    BY <1>1, <1>2, <2>1 DEF SamePcb
  <2>3. QED
    BY <2>2
<1>7. m.host /\ m.pcb[q].state \in AfterProbing => Common(m) \subseteq m.won[q]
  BY <1>3 DEF PcbInv
<1>8. m.pcb[q].state # "OFF"
  BY <1>3 DEF PcbInv
<1>9. QED
  BY <1>4, <1>5, <1>6, <1>7, <1>8 DEF PcbInv

-----------------------------------------------------------------------------
(* Announcing.  Setting the state of a pcb that answers keeps all as it is. *)
LEMMA AnnounceStateSet ==
    ASSUME NEW n, Held(n), NEW p \in Pcbs, n.pcb[p].ready,
           n.pcb[p].state \in AfterProbing, NEW d, d = [n EXCEPT !.pcb[p].state = "ANNOUNCE_1"],
           \E k \in Scheduled(n) : k.pcb = p
    PROVE  Held(d)
<1>1. PICK b : b = [n.pcb[p] EXCEPT !.state = "ANNOUNCE_1"]
  OBVIOUS
<1>2. n.pcb[p] \in Pcb /\ NetTypes(n) /\ PcbInv(n, p)
  BY DEF Held, NetTypes
<1>3. /\ b \in Pcb /\ b.state = "ANNOUNCE_1" /\ b.ready /\ b.probing = n.pcb[p].probing
  BY <1>1, <1>2 DEF Pcb, States, AnnounceStates
<1>4. d = [n EXCEPT !.pcb[p] = b]
  BY <1>1, <1>2 DEF NetTypes
<1>5. /\ NetTypes(d) /\ SameNames(n, d) /\ d.instance = n.instance /\ d.won = n.won
      /\ Scheduled(d) = Scheduled(n) /\ \A q \in Pcbs : q # p => SameAt(n, d, q)
  BY <1>2, <1>3, <1>4, PcbChanges
<1>6. d.pcb[p] = b
  BY <1>2, <1>4 DEF NetTypes
<1>7. Only(n, d, p)
  BY <1>5 DEF Only
<1>8. PcbInv(d, p)
  <2>1. n.pcb[p].state \notin ProbeStates /\ b.state \notin ProbeStates /\ b.state # "OFF"
    BY <1>3 DEF ProbeStates, AfterProbing, AnnounceStates
  <2>2. Common(d) = Common(n) /\ d.host = n.host
    BY <1>5 DEF SameNames, Common
  <2>3. \A k \in Scheduled(d) : k.pcb = p => k.servers = {} /\ ~IsEmpty(k)
    BY <1>2, <1>5, <2>1 DEF PcbInv
  <2>4. \E k \in Scheduled(d) : k.pcb = p
    BY <1>5
  <2>5. d.host => Common(d) \subseteq d.won[p]
    BY <1>2, <1>5, <2>2 DEF PcbInv
  <2>6. QED
    BY <1>6, <2>1, <2>3, <2>4, <2>5 DEF PcbInv
<1>9. QED
  BY <1>7, <1>8, OnlyOneChanges

(* A packet that asks for nothing to be won may be added anywhere that is  *)
(* not being probed.                                                       *)
LEMMA MoreToSay ==
    ASSUME NEW n, Held(n), NEW k \in TxPacket, k.servers = {}, ~IsEmpty(k),
           n.pcb[k.pcb].ready => n.pcb[k.pcb].state \notin ProbeStates,
           NEW m, m = SendLater(n, k)
    PROVE  Held(m)
<1>1. k.pcb \in Pcbs /\ NetTypes(n)
  BY DEF Held, TxPacket
<1>2. PICK p \in Pcbs : p = k.pcb
  BY <1>1
<1>3. /\ OtherPackets(n, m) /\ Scheduled(m) = Scheduled(n) \cup {k}
      /\ \A q \in Pcbs : q # k.pcb => SameAt(n, m, q)
  BY <1>1, SentLater
<1>4. Only(n, m, p)
  BY <1>2, <1>3 DEF Only, OtherPackets
<1>5. PcbInv(m, p)
  <2> SUFFICES ASSUME m.pcb[p].ready
               PROVE  PcbInv(m, p)
    BY DEF PcbInv
  <2>1. m.pcb = n.pcb /\ m.won = n.won /\ m.host = n.host /\ Common(m) = Common(n)
    BY <1>3 DEF OtherPackets, SameNames, Common
  <2>2. PcbInv(n, p) /\ n.pcb[p].ready /\ n.pcb[p].state \notin ProbeStates
    BY <1>2, <2>1 DEF Held
  <2>3. \A l \in Scheduled(m) : l.pcb = p => l.servers = {} /\ ~IsEmpty(l)
    BY <1>3, <2>2 DEF PcbInv
  <2>4. m.pcb[p].state \in AnnounceStates => \E l \in Scheduled(m) : l.pcb = p
    BY <1>2, <1>3
  <2>5. QED
    BY <2>1, <2>2, <2>3, <2>4 DEF PcbInv
<1>6. QED
  BY <1>4, <1>5, OnlyOneChanges

(* What is announced goes into a packet that is there.                     *)
Adding(n, list, ip, first) ==
    [k \in TxPacket |->
        IF k.at = first
        THEN [k EXCEPT !.answers = @ \cup list, !.addrs = @ \/ (ip /\ n.host)]
        ELSE k]

(* Every packet is changed by f and nothing else is.                       *)
Remade(n, m, f) ==
    m = [n EXCEPT !.line = [i \in DOMAIN n.line |-> f[n.line[i]]],
                  !.waiting = {f[k] : k \in n.waiting}]

(* Adding answers to the packet in front keeps the invariant.              *)
LEMMA AddedHolds ==
    ASSUME NEW n, Held(n), NEW list \in SUBSET Services, NEW ip \in BOOLEAN, NEW first,
           NEW f, f = Adding(n, list, ip, first), NEW m, Remade(n, m, f)
    PROVE  Held(m)
<1>1. NetTypes(n) /\ n.host \in BOOLEAN
  BY DEF Held, NetTypes
<1>2. SamePcb(f) /\ Harmless(f)
  <2>1. ASSUME NEW k \in TxPacket
        PROVE  /\ f[k] \in TxPacket /\ f[k].pcb = k.pcb /\ f[k].servers = k.servers
               /\ f[k].ip = k.ip /\ f[k].asks = k.asks /\ (IsEmpty(f[k]) => IsEmpty(k))
    <3>1. CASE k.at = first
      <4>1. f[k] = [k EXCEPT !.answers = @ \cup list, !.addrs = @ \/ (ip /\ n.host)]
        BY <3>1 DEF Adding
      <4>2. /\ f[k].answers = k.answers \cup list /\ f[k].hosts = k.hosts
            /\ f[k].pcb = k.pcb /\ f[k].servers = k.servers
            /\ f[k].ip = k.ip /\ f[k].asks = k.asks
        BY <4>1 DEF TxPacket
      <4>3. f[k].addrs = (k.addrs \/ (ip /\ n.host))
        BY <4>1 DEF TxPacket
      <4>4. f[k] \in TxPacket
        BY <1>1, <4>1 DEF TxPacket
      <4>5. IsEmpty(f[k]) => IsEmpty(k)
        BY <4>2, <4>3 DEF IsEmpty
      <4>6. QED
        BY <4>2, <4>4, <4>5
    <3>2. CASE k.at # first
      <4>1. f[k] = k
        BY <3>2 DEF Adding
      <4>2. QED
        BY <4>1
    <3>3. QED
      BY <3>1, <3>2
  <2>2. f \in [TxPacket -> TxPacket]
    <3>1. DOMAIN f = TxPacket /\ f = [k \in DOMAIN f |-> f[k]]
      BY DEF Adding
    <3>2. QED
      BY <2>1, <3>1
  <2>3. QED
    BY <2>1, <2>2 DEF SamePcb, Harmless
<1>3. /\ m.line = [i \in DOMAIN n.line |-> f[n.line[i]]] /\ m.waiting = {f[k] : k \in n.waiting}
      /\ m.pcb = n.pcb /\ m.won = n.won /\ m.host = n.host /\ m.services = n.services
      /\ m.own = n.own /\ m.instance = n.instance
      /\ m = [pcb |-> m.pcb, line |-> m.line, waiting |-> m.waiting, host |-> m.host,
            instance |-> m.instance, services |-> m.services, own |-> m.own, won |-> m.won]
  BY <1>1 DEF NetTypes, Remade
<1>4. Carried(n, m, f)
  <2>1. Mapped(n, m, f)
    BY <1>3 DEF Mapped
  <2>2. QED
    BY <1>1, <1>2, <2>1, MappedPackets
<1>5. NetTypes(m)
  BY <1>1, <1>3, <1>4 DEF Carried, NetTypes
<1>6. ASSUME NEW q \in Pcbs
      PROVE  PcbInv(m, q)
  <2>1. /\ PcbInv(n, q) /\ SameNames(n, m) /\ m.pcb[q] = n.pcb[q]
        /\ m.won[q] = n.won[q]
    BY <1>3 DEF Held, SameNames
  <2>2. QED
    BY <1>1, <1>2, <1>4, <2>1, CarriedKeeps
<1>7. QED
  BY <1>5, <1>6 DEF Held

(* An announcement on one interface keeps it, ...                          *)
LEMMA AnnounceHolds ==
    ASSUME NEW n, Held(n), NEW p \in Pcbs, NEW list \in SUBSET Services, NEW ip \in BOOLEAN,
           list # {} \/ ip, NEW first, NEW m, m = AnnounceOn(n, p, list, ip, first)
    PROVE  Held(m)
<1>1. NetTypes(n) /\ PcbInv(n, p) /\ n.host \in BOOLEAN /\ n.pcb[p] \in Pcb
  BY DEF Held, NetTypes
<1>2. CASE ~n.pcb[p].ready
  <2>1. m = n
    BY <1>2 DEF AnnounceOn
  <2>2. QED
    BY <2>1
<1>3. CASE n.pcb[p].ready /\ n.pcb[p].state \in ProbeStates
  <2>1. m = InitProbe(n, p, list, ip)
    <3>1. n.pcb[p].state \notin AnnounceStates /\ n.pcb[p].state # "RUNNING"
      BY <1>3 DEF ProbeStates, AnnounceStates
    <3>2. QED
      BY <1>3, <3>1 DEF AnnounceOn
  <2>2. n.host /\ n.pcb[p].ready => Common(n) \subseteq n.won[p] \cup list \cup BeingProbed(n, p)
    BY <1>1, HeldCovers
  <2>3. Only(n, m, p) /\ PcbInv(m, p)
    BY <1>1, <2>1, <2>2, ProbeStarts
  <2>4. QED
    BY <2>3, OnlyOneChanges
<1>4. CASE n.pcb[p].ready /\ n.pcb[p].state \in AnnounceStates /\ first # 0
  <2>1. PICK d : d = [n EXCEPT !.pcb[p].state = "ANNOUNCE_1"]
    OBVIOUS
  <2>2. Held(d)
    <3>1. \E k \in Scheduled(n) : k.pcb = p
      BY <1>1, <1>4 DEF PcbInv
    <3>2. n.pcb[p].state \in AfterProbing
      BY <1>4 DEF AfterProbing
    <3>3. QED
      BY <1>4, <2>1, <3>1, <3>2, AnnounceStateSet
  <2>3. d.line = n.line /\ d.waiting = n.waiting /\ d.host = n.host
    BY <1>1, <2>1 DEF NetTypes
  <2>4. PICK f : f = Adding(d, list, ip, first)
    OBVIOUS
  <2>5. Remade(d, m, f)
    <3> DEFINE Changed(k) == IF k.at = first
                    THEN [k EXCEPT !.answers = @ \cup list, !.addrs = @ \/ (ip /\ n.host)]
                    ELSE k
    <3>1. m = [n EXCEPT !.pcb[p].state = "ANNOUNCE_1",
                        !.line = [i \in DOMAIN n.line |-> Changed(n.line[i])],
                        !.waiting = {Changed(k) : k \in n.waiting}]
      <4>1. n.pcb[p].state \notin ProbeStates /\ n.pcb[p].state # "RUNNING"
        BY <1>4 DEF ProbeStates, AnnounceStates
      <4>2. QED
        BY <1>4, <4>1 DEF AnnounceOn
    <3>2. \A k \in TxPacket : Changed(k) = f[k]
      BY <2>3, <2>4 DEF Adding
    <3> HIDE DEF Changed
    <3>3. [i \in DOMAIN n.line |-> Changed(n.line[i])] = [i \in DOMAIN n.line |-> f[n.line[i]]]
      <4>1. \A i \in DOMAIN n.line : n.line[i] \in TxPacket
        <5>1. n.line \in Seq(TxPacket)
          BY <1>1 DEF NetTypes
        <5>2. QED
          BY <5>1
      <4>2. QED
        BY <3>2, <4>1
    <3>4. {Changed(k) : k \in n.waiting} = {f[k] : k \in n.waiting}
      BY <1>1, <3>2 DEF NetTypes
    <3>5. m = [d EXCEPT !.line = [i \in DOMAIN n.line |-> f[n.line[i]]],
                        !.waiting = {f[k] : k \in n.waiting}]
      BY <1>1, <2>1, <3>1, <3>3, <3>4 DEF NetTypes
    <3>6. QED
      BY <2>3, <3>5 DEF Remade
  <2>6. QED
    BY <2>2, <2>4, <2>5, AddedHolds
<1>5. CASE n.pcb[p].ready /\ n.pcb[p].state = "RUNNING" /\ n.host
  <2>1. PICK k : k = AnnouncePacket(n, p, list, ip)
    OBVIOUS
  <2>2. k \in TxPacket /\ k.pcb = p /\ k.servers = {} /\ ~IsEmpty(k)
    <3>1. PICK blank : blank = Blank(n, p)
      OBVIOUS
    <3>2. blank \in TxPacket /\ blank.pcb = p /\ blank.servers = {}
      BY <1>1, <3>1, BlankIsPacket
    <3>3. k = [blank EXCEPT !.answers = list, !.ip = ip]
      BY <2>1, <3>1 DEF AnnouncePacket
    <3>4. k \in TxPacket /\ k.pcb = p /\ k.servers = {} /\ k.answers = list
      BY <3>2, <3>3 DEF TxPacket
    <3>5. k.ip = ip
      BY <3>2, <3>3 DEF TxPacket
    <3>6. QED
      BY <3>4, <3>5 DEF IsEmpty
  <2>3. PICK c, d : c = SendLater(n, k) /\ d = [c EXCEPT !.pcb[p].state = "ANNOUNCE_1"]
    OBVIOUS
  <2>4. m = d
    <3>1. n.pcb[p].state \notin ProbeStates /\ n.pcb[p].state \notin AnnounceStates
      BY <1>5 DEF ProbeStates, AnnounceStates
    <3>2. m = SendLater([n EXCEPT !.pcb[p].state = "ANNOUNCE_1"], k)
      BY <1>5, <2>1, <3>1 DEF AnnounceOn
    <3>3. QED
      BY <1>1, <2>3, <3>2 DEF SendLater, NetTypes
  <2>5. n.pcb[k.pcb].state \notin ProbeStates
    BY <1>5, <2>2 DEF ProbeStates
  <2>6. Held(c)
    BY <2>2, <2>3, <2>5, MoreToSay
  <2>7. c.pcb = n.pcb /\ k \in Scheduled(c)
    BY <1>1, <2>3 DEF SendLater, NetTypes, Scheduled
  <2>8. c.pcb[p].ready /\ c.pcb[p].state \in AfterProbing
    BY <1>5, <2>7 DEF AfterProbing
  <2>9. Held(d)
    BY <2>2, <2>3, <2>6, <2>7, <2>8, AnnounceStateSet
  <2>10. QED
    BY <2>4, <2>9
<1>6. CASE /\ n.pcb[p].ready /\ n.pcb[p].state \notin ProbeStates
           /\ ~(n.pcb[p].state \in AnnounceStates /\ first # 0)
           /\ ~(n.pcb[p].state = "RUNNING" /\ n.host)
  <2>1. m = n
    BY <1>6 DEF AnnounceOn
  <2>2. QED
    BY <2>1
<1>7. QED
  BY <1>2, <1>3, <1>4, <1>5, <1>6

(* ... and on all of them.                                                 *)
LEMMA AnnounceAllHolds ==
    ASSUME NEW n, Held(n), NEW list \in SUBSET Services, NEW ip \in BOOLEAN, list # {} \/ ip,
           NEW front, NEW m, m = AnnounceAll(n, list, ip, front)
    PROVE  Held(m)
<1> DEFINE On(p, x) == IF p \in Pcbs THEN AnnounceOn(x, p, list, ip, front[p]) ELSE x
<1>1. PICK four, six : four = "v4" /\ six = "v6"
  OBVIOUS
<1>2. PICK c : c = On(four, n)
  OBVIOUS
<1>3. m = On(six, c)
  BY <1>1, <1>2 DEF AnnounceAll
<1>4. Held(c)
  <2>1. CASE four \in Pcbs
    <3>1. PICK first : first = front[four]
      OBVIOUS
    <3>2. c = AnnounceOn(n, four, list, ip, first)
      BY <1>2, <2>1, <3>1
    <3>3. QED
      BY <2>1, <3>2, AnnounceHolds
  <2>2. CASE four \notin Pcbs
    <3>1. c = n
      BY <1>2, <2>2
    <3>2. QED
      BY <3>1
  <2>3. QED
    BY <2>1, <2>2
<1>5. CASE six \in Pcbs
  <2>1. PICK first : first = front[six]
    OBVIOUS
  <2>2. m = AnnounceOn(c, six, list, ip, first)
    BY <1>3, <1>5, <2>1
  <2>3. QED
    BY <1>4, <1>5, <2>2, AnnounceHolds
<1>6. CASE six \notin Pcbs
  <2>1. m = c
    BY <1>3, <1>6
  <2>2. QED
    BY <1>4, <2>1
<1>7. QED
  BY <1>5, <1>6

-----------------------------------------------------------------------------
(* The timer.  A packet in the line is marked, or no longer is.            *)
Marked(n, m, i, pushed) ==
    m = [n EXCEPT !.line = [n.line EXCEPT ![i] = [n.line[i] EXCEPT !.queued = pushed]]]

(* Marking a packet in the line as queued, or not, keeps it.               *)
LEMMA MarkedHolds ==
    ASSUME NEW n, Held(n), NEW i \in DOMAIN n.line, NEW pushed \in BOOLEAN,
           NEW m, Marked(n, m, i, pushed)
    PROVE  Held(m)
<1>1. PICK k : k = [n.line[i] EXCEPT !.queued = pushed]
  OBVIOUS
<1>2. NetTypes(n) /\ n.line \in Seq(TxPacket) /\ n.line[i] \in TxPacket
  <2>1. NetTypes(n) /\ n.line \in Seq(TxPacket)
    BY DEF Held, NetTypes
  <2>2. QED
    BY <2>1
<1>3. /\ k \in TxPacket /\ k.pcb = n.line[i].pcb /\ k.servers = n.line[i].servers
      /\ k.asks = n.line[i].asks /\ k.ip = n.line[i].ip
      /\ k.hosts = n.line[i].hosts /\ k.answers = n.line[i].answers
      /\ k.addrs = n.line[i].addrs
  BY <1>1, <1>2 DEF TxPacket
<1>4. /\ m.line = [n.line EXCEPT ![i] = k] /\ m.waiting = n.waiting /\ m.pcb = n.pcb
      /\ m.won = n.won /\ m.host = n.host /\ m.services = n.services /\ m.own = n.own
      /\ m.instance = n.instance
      /\ m = [pcb |-> m.pcb, line |-> m.line, waiting |-> m.waiting, host |-> m.host,
            instance |-> m.instance, services |-> m.services, own |-> m.own, won |-> m.won]
  BY <1>1, <1>2 DEF NetTypes, Marked
<1>5. /\ m.line \in Seq(TxPacket) /\ DOMAIN m.line = DOMAIN n.line /\ m.line[i] = k
      /\ \A j \in DOMAIN n.line : j # i => m.line[j] = n.line[j]
  <2>1. PICK old, left : old = n.line /\ left = m.line
    OBVIOUS
  <2>2. old \in Seq(TxPacket) /\ i \in DOMAIN old /\ left = [old EXCEPT ![i] = k]
    BY <1>2, <1>4, <2>1
  <2>3. /\ left \in Seq(TxPacket) /\ DOMAIN left = DOMAIN old /\ left[i] = k
        /\ \A j \in DOMAIN old : j # i => left[j] = old[j]
    BY <1>3, <2>2
  <2>4. QED
    BY <2>1, <2>3
<1>6. NetTypes(m)
  BY <1>2, <1>4, <1>5 DEF NetTypes
<1>7. ASSUME NEW q \in Pcbs
      PROVE  PcbInv(m, q)
  <2> SUFFICES ASSUME m.pcb[q].ready
               PROVE  PcbInv(m, q)
    BY DEF PcbInv
  <2>1. PcbInv(n, q) /\ n.pcb[q].ready /\ Common(m) = Common(n)
    BY <1>4 DEF Held, Common
  <2>2. ASSUME NEW l \in Scheduled(m)
        PROVE  \/ l \in Scheduled(n)
               \/ l = k /\ n.line[i] \in Scheduled(n)
    <3>1. \A j \in DOMAIN n.line : n.line[j] \in Scheduled(n)
      BY DEF Scheduled, ToSet
    <3>2. CASE l \in n.waiting
      BY <3>2 DEF Scheduled
    <3>3. CASE l \in ToSet(m.line)
      <4>1. PICK j \in DOMAIN m.line : l = m.line[j]
        BY <3>3 DEF ToSet
      <4>2. QED
        BY <1>5, <3>1, <4>1
    <3>4. QED
      BY <1>4, <2>2, <3>2, <3>3 DEF Scheduled
  <2>3. ASSUME NEW l, Alone(n, q, l), l \in Scheduled(n)
        PROVE  \E x \in Scheduled(m) : /\ Alone(m, q, x) /\ x.servers = l.servers
                                       /\ x.ip = l.ip /\ x.asks = l.asks
    <3>1. l.pcb = q
      BY <2>3 DEF Alone
    <3>2. CASE /\ l \in n.waiting /\ \A w \in n.waiting : w.pcb = q => w = l
               /\ \A j \in DOMAIN n.line : n.line[j].pcb # q
      <4>1. \A j \in DOMAIN m.line : m.line[j].pcb # q
        BY <1>3, <1>5, <3>2
      <4>2. Alone(m, q, l) /\ l \in Scheduled(m)
        BY <1>4, <3>1, <3>2, <4>1 DEF Alone, Scheduled
      <4>3. QED
        BY <4>2
    <3>3. CASE /\ \A w \in n.waiting : w.pcb # q
               /\ \E j \in DOMAIN n.line :
                     n.line[j] = l /\ \A h \in DOMAIN n.line : n.line[h].pcb = q => h = j
      <4>1. PICK j \in DOMAIN n.line :
                     n.line[j] = l /\ \A h \in DOMAIN n.line : n.line[h].pcb = q => h = j
        BY <3>3
      <4>2. PICK x : x = m.line[j]
        OBVIOUS
      <4>3. /\ x.pcb = q /\ x.servers = l.servers /\ x.ip = l.ip /\ x.asks = l.asks
        BY <1>3, <1>5, <3>1, <4>1, <4>2
      <4>4. j \in DOMAIN m.line /\ \A h \in DOMAIN m.line : m.line[h].pcb = q => h = j
        BY <1>3, <1>5, <4>1
      <4>5. Alone(m, q, x) /\ x \in Scheduled(m)
        BY <1>4, <3>3, <4>2, <4>3, <4>4 DEF Alone, Scheduled, ToSet
      <4>6. QED
        BY <4>3, <4>5
    <3>4. QED
      BY <2>3, <3>2, <3>3 DEF Alone
  <2>4. m.pcb[q].state \in ProbeStates =>
              /\ \E x \in Scheduled(m) : Alone(m, q, x) /\ ProbeOf(m, q, x)
              /\ m.host => Common(m) \subseteq m.won[q] \cup m.pcb[q].probing
    <3> SUFFICES ASSUME m.pcb[q].state \in ProbeStates
                 PROVE  /\ \E x \in Scheduled(m) : Alone(m, q, x) /\ ProbeOf(m, q, x)
                        /\ m.host => Common(m) \subseteq m.won[q] \cup m.pcb[q].probing
      OBVIOUS
    <3>1. PICK l \in Scheduled(n) : Alone(n, q, l) /\ ProbeOf(n, q, l)
      BY <1>4, <2>1 DEF PcbInv
    <3>2. PICK x \in Scheduled(m) : /\ Alone(m, q, x) /\ x.servers = l.servers
                                    /\ x.ip = l.ip /\ x.asks = l.asks
      BY <2>3, <3>1
    <3>3. ProbeOf(m, q, x)
      BY <1>4, <3>1, <3>2 DEF ProbeOf
    <3>4. QED
      BY <1>4, <2>1, <3>2, <3>3 DEF PcbInv
  <2>5. m.pcb[q].state \notin ProbeStates =>
              \A l \in Scheduled(m) : l.pcb = q => l.servers = {} /\ ~IsEmpty(l)
    <3> SUFFICES ASSUME m.pcb[q].state \notin ProbeStates, NEW l \in Scheduled(m), l.pcb = q
                 PROVE  l.servers = {} /\ ~IsEmpty(l)
      OBVIOUS
    <3>1. \A x \in Scheduled(n) : x.pcb = q => x.servers = {} /\ ~IsEmpty(x)
      BY <1>4, <2>1 DEF PcbInv
    <3>2. CASE l \in Scheduled(n)
      BY <3>1, <3>2
    <3>3. CASE l = k /\ n.line[i] \in Scheduled(n)
      <4>1. n.line[i].servers = {} /\ ~IsEmpty(n.line[i])
        BY <1>3, <3>1, <3>3
      <4>2. QED
        BY <1>3, <3>3, <4>1 DEF IsEmpty
    <3>4. QED
      BY <2>2, <3>2, <3>3
  <2>6. m.pcb[q].state \in AnnounceStates => \E l \in Scheduled(m) : l.pcb = q
    <3> SUFFICES ASSUME m.pcb[q].state \in AnnounceStates
                 PROVE  \E l \in Scheduled(m) : l.pcb = q
      OBVIOUS
    <3>1. PICK l \in Scheduled(n) : l.pcb = q
      BY <1>4, <2>1 DEF PcbInv
    <3>2. CASE l \in n.waiting
      BY <1>4, <3>1, <3>2 DEF Scheduled
    <3>3. CASE l \in ToSet(n.line)
      <4>1. PICK j \in DOMAIN n.line : n.line[j] = l
        BY <3>3 DEF ToSet
      <4>2. m.line[j].pcb = q /\ m.line[j] \in ToSet(m.line)
        BY <1>3, <1>5, <3>1, <4>1 DEF ToSet
      <4>3. QED
        BY <4>2 DEF Scheduled
    <3>4. QED
      BY <3>2, <3>3 DEF Scheduled
  <2>7. /\ m.host /\ m.pcb[q].state \in AfterProbing => Common(m) \subseteq m.won[q]
        /\ m.pcb[q].state # "OFF"
    BY <1>4, <2>1 DEF PcbInv
  <2>8. QED
    BY <2>4, <2>5, <2>6, <2>7 DEF PcbInv
<1>8. QED
  BY <1>6, <1>7 DEF Held

(* A packet in the line is not among those that wait, or loses nothing.    *)
LEMMA InLineHolds ==
    ASSUME NEW n, Held(n), NEW i \in DOMAIN n.line, NEW m,
           m = [n EXCEPT !.waiting = n.waiting \ {n.line[i]}]
    PROVE  Held(m)
<1>1. NetTypes(n) /\ n.line[i] \in ToSet(n.line)
  BY DEF Held, ToSet
<1>2. /\ m.line = n.line /\ m.waiting = n.waiting \ {n.line[i]} /\ m.pcb = n.pcb
      /\ m.won = n.won /\ m.host = n.host /\ m.services = n.services /\ m.own = n.own
      /\ m.instance = n.instance
      /\ m = [pcb |-> m.pcb, line |-> m.line, waiting |-> m.waiting, host |-> m.host,
            instance |-> m.instance, services |-> m.services, own |-> m.own, won |-> m.won]
  BY <1>1 DEF NetTypes
<1>3. NetTypes(m)
  <2>1. m.waiting \in SUBSET n.waiting
    BY <1>2
  <2>2. IsFiniteSet(m.waiting)
    BY <1>1, <2>1, FS_Subset DEF NetTypes
  <2>3. QED
    BY <1>1, <1>2, <2>1, <2>2 DEF NetTypes
<1>4. Scheduled(m) = Scheduled(n)
  BY <1>1, <1>2 DEF Scheduled
<1>5. ASSUME NEW q \in Pcbs
      PROVE  PcbInv(m, q)
  <2>1. ASSUME NEW k, Alone(n, q, k)
        PROVE  Alone(m, q, k)
    BY <1>2, <2>1 DEF Alone
  <2>2. SameAt(n, m, q) /\ SameNames(n, m) /\ PcbInv(n, q)
    BY <1>2, <1>4, <2>1 DEF SameAt, SamePackets, SameNames, Held
  <2>3. QED
    BY <2>2, SameKeeps
<1>6. QED
  BY <1>3, <1>5 DEF Held

(* One that waits goes to the end of the line.                             *)
LEMMA InLineNowHolds ==
    ASSUME NEW n, Held(n), NEW w \in n.waiting, NEW m,
           m = [n EXCEPT !.line = Append(n.line, w), !.waiting = n.waiting \ {w}]
    PROVE  Held(m)
<1>1. NetTypes(n) /\ w \in TxPacket /\ n.line \in Seq(TxPacket)
  BY DEF Held, NetTypes
<1>2. /\ m.line = Append(n.line, w) /\ m.waiting = n.waiting \ {w} /\ m.pcb = n.pcb
      /\ m.won = n.won /\ m.host = n.host /\ m.services = n.services /\ m.own = n.own
      /\ m.instance = n.instance
      /\ m = [pcb |-> m.pcb, line |-> m.line, waiting |-> m.waiting, host |-> m.host,
            instance |-> m.instance, services |-> m.services, own |-> m.own, won |-> m.won]
  BY <1>1 DEF NetTypes
<1>3. PICK last : last = Len(n.line) + 1
  OBVIOUS
<1>4. /\ m.line \in Seq(TxPacket) /\ m.line[last] = w
      /\ \A j \in DOMAIN n.line : j # last /\ m.line[j] = n.line[j]
      /\ DOMAIN m.line = DOMAIN n.line \cup {last}
  <2>1. PICK line, more : line = n.line /\ more = Append(line, w)
    OBVIOUS
  <2>2. line \in Seq(TxPacket) /\ last = Len(line) + 1
    BY <1>1, <1>3, <2>1
  <2>3. /\ more \in Seq(TxPacket) /\ Len(more) = last /\ more[last] = w
        /\ \A j \in 1..Len(line) : more[j] = line[j]
    BY <1>1, <2>1, <2>2, AppendProperties
  <2>4. Len(line) \in Nat /\ DOMAIN line = 1..Len(line) /\ DOMAIN more = 1..Len(more)
    BY <2>2, <2>3
  <2>5. \A j \in DOMAIN line : j # last
    BY <2>2, <2>4
  <2>6. DOMAIN more = DOMAIN line \cup {last}
    BY <2>2, <2>3, <2>4
  <2>7. QED
    BY <1>2, <2>1, <2>3, <2>4, <2>5, <2>6
<1>5. NetTypes(m)
  <2>1. m.waiting \in SUBSET n.waiting
    BY <1>2
  <2>2. IsFiniteSet(m.waiting)
    BY <1>1, <2>1, FS_Subset DEF NetTypes
  <2>3. QED
    BY <1>1, <1>2, <1>4, <2>1, <2>2 DEF NetTypes
<1>6. Scheduled(m) = Scheduled(n)
  <2>1. ToSet(m.line) = ToSet(n.line) \cup {w}
    BY <1>4 DEF ToSet
  <2>2. QED
    BY <1>2, <2>1 DEF Scheduled
<1>7. ASSUME NEW q \in Pcbs
      PROVE  PcbInv(m, q)
  <2>1. ASSUME NEW k, Alone(n, q, k)
        PROVE  Alone(m, q, k)
    <3>1. k.pcb = q
      BY <2>1 DEF Alone
    <3>2. CASE w.pcb # q
      <4>1. CASE /\ k \in n.waiting /\ \A v \in n.waiting : v.pcb = q => v = k
                 /\ \A j \in DOMAIN n.line : n.line[j].pcb # q
        <5>1. \A j \in DOMAIN m.line : m.line[j].pcb # q
          BY <1>4, <3>2, <4>1
        <5>2. QED
          BY <1>2, <3>1, <3>2, <4>1, <5>1 DEF Alone
      <4>2. CASE /\ \A v \in n.waiting : v.pcb # q
                 /\ \E j \in DOMAIN n.line :
                       n.line[j] = k /\ \A h \in DOMAIN n.line : n.line[h].pcb = q => h = j
        <5>1. PICK j \in DOMAIN n.line :
                       n.line[j] = k /\ \A h \in DOMAIN n.line : n.line[h].pcb = q => h = j
          BY <4>2
        <5>2. /\ j \in DOMAIN m.line /\ m.line[j] = k
              /\ \A h \in DOMAIN m.line : m.line[h].pcb = q => h = j
          BY <1>4, <3>2, <5>1
        <5>3. \A v \in m.waiting : v.pcb # q
          BY <1>2, <4>2
        <5>4. QED
          BY <3>1, <5>2, <5>3 DEF Alone
      <4>3. QED
        BY <2>1, <4>1, <4>2 DEF Alone
    <3>3. CASE w.pcb = q
      <4>1. /\ w = k /\ \A v \in n.waiting : v.pcb = q => v = k
            /\ \A j \in DOMAIN n.line : n.line[j].pcb # q
        BY <2>1, <3>3 DEF Alone
      <4>2. \A v \in m.waiting : v.pcb # q
        BY <1>2, <4>1
      <4>3. /\ last \in DOMAIN m.line /\ m.line[last] = k
            /\ \A h \in DOMAIN m.line : m.line[h].pcb = q => h = last
        BY <1>4, <4>1
      <4>4. QED
        BY <3>1, <4>2, <4>3 DEF Alone
    <3>4. QED
      BY <3>2, <3>3
  <2>2. SameAt(n, m, q) /\ SameNames(n, m) /\ PcbInv(n, q)
    BY <1>2, <1>6, <2>1 DEF SameAt, SamePackets, SameNames, Held
  <2>3. QED
    BY <2>2, SameKeeps
<1>8. QED
  BY <1>5, <1>7 DEF Held

(* The timer moves a packet into the line, or finds it there, and marks it. *)
LEMMA ExamineHolds ==
    ASSUME NEW n, Held(n), NEW line, NEW i, NEW pushed \in BOOLEAN,
           \/ line = n.line /\ i \in DOMAIN n.line
           \/ \E w \in n.waiting : line = Append(n.line, w) /\ i = Len(n.line) + 1,
           NEW m, m = [n EXCEPT !.line = [line EXCEPT ![i].queued = pushed],
                                !.waiting = @ \ {line[i]}]
    PROVE  Held(m)
<1>1. PICK c : c = [n EXCEPT !.line = line, !.waiting = n.waiting \ {line[i]}]
  OBVIOUS
<1>2. NetTypes(n) /\ n.line \in Seq(TxPacket)
  BY DEF Held, NetTypes
<1>3. Held(c) /\ i \in DOMAIN line
  <2>1. CASE line = n.line /\ i \in DOMAIN n.line
    <3>1. c = [n EXCEPT !.waiting = n.waiting \ {n.line[i]}]
      BY <1>1, <1>2, <2>1 DEF NetTypes
    <3>2. QED
      BY <2>1, <3>1, InLineHolds
  <2>2. ASSUME NEW w \in n.waiting, line = Append(n.line, w), i = Len(n.line) + 1
        PROVE  Held(c) /\ i \in DOMAIN line
    <3>1. w \in TxPacket
      BY <1>2 DEF NetTypes
    <3>2. PICK short : short = n.line
      OBVIOUS
    <3>3. short \in Seq(TxPacket) /\ line = Append(short, w) /\ i = Len(short) + 1
      BY <1>2, <2>2, <3>2
    <3>4. line \in Seq(TxPacket) /\ Len(line) = i /\ line[i] = w
      BY <3>1, <3>3, AppendProperties
    <3>5. i \in DOMAIN line
      BY <3>3, <3>4
    <3>6. c = [n EXCEPT !.line = Append(n.line, w), !.waiting = n.waiting \ {w}]
      BY <1>1, <2>2, <3>4
    <3>7. QED
      BY <3>5, <3>6, InLineNowHolds
  <2>3. QED
    BY <2>1, <2>2
<1>4. c.line = line /\ m = [c EXCEPT !.line = [c.line EXCEPT ![i].queued = pushed]]
  BY <1>1, <1>2 DEF NetTypes
<1>5. i \in DOMAIN c.line /\ Held(c)
  BY <1>3, <1>4
<1>6. Marked(c, m, i, pushed)
  BY <1>4 DEF Marked
<1>7. QED
  BY <1>5, <1>6, MarkedHolds

-----------------------------------------------------------------------------
(* The task sends the packet in front. *)
Taken(n, m, p, front) ==
    /\ OtherPackets(n, m) /\ front \in Scheduled(n) /\ front \in TxPacket /\ front.pcb = p
    /\ Scheduled(m) \subseteq Scheduled(n)
    /\ \A q \in Pcbs : q # p => SameAt(n, m, q)
    /\ \A k : Alone(n, p, k) => k = front /\ Absent(m, p)

(* Taking the front of the line leaves the others of its interface.        *)
LEMMA FrontIsTaken ==
    ASSUME NEW n, NetTypes(n), n.line # <<>>, NEW front, front = Head(n.line),
           NEW p, p = front.pcb, NEW m, m = [n EXCEPT !.line = Tail(n.line)]
    PROVE  Taken(n, m, p, front)
<1>1. PICK line, rest : line = n.line /\ rest = Tail(line)
  OBVIOUS
<1>2. line \in Seq(TxPacket) /\ line # <<>>
  BY <1>1 DEF NetTypes
<1>3. /\ rest \in Seq(TxPacket) /\ 1 \in DOMAIN line /\ front = line[1] /\ front \in TxPacket
      /\ \A i \in DOMAIN rest : i + 1 \in DOMAIN line /\ i + 1 # 1 /\ rest[i] = line[i + 1]
      /\ \A j \in DOMAIN line : j # 1 => j - 1 \in DOMAIN rest /\ (j - 1) + 1 = j
  BY <1>1, <1>2
<1>4. /\ m.line = rest /\ m.waiting = n.waiting /\ m.pcb = n.pcb
      /\ m.won = n.won /\ m.host = n.host /\ m.services = n.services /\ m.own = n.own
      /\ m.instance = n.instance
      /\ m = [pcb |-> m.pcb, line |-> m.line, waiting |-> m.waiting, host |-> m.host,
            instance |-> m.instance, services |-> m.services, own |-> m.own, won |-> m.won]
  BY <1>1 DEF NetTypes
<1>5. OtherPackets(n, m)
  BY <1>3, <1>4 DEF NetTypes, OtherPackets, SameNames
<1>6. /\ ToSet(line) = ToSet(rest) \cup {front}
  <2>1. \A i \in DOMAIN rest : rest[i] \in ToSet(line)
    BY <1>3 DEF ToSet
  <2>2. \A j \in DOMAIN line : j = 1 \/ line[j] \in ToSet(rest)
    <3> SUFFICES ASSUME NEW j \in DOMAIN line, j # 1
                 PROVE  line[j] \in ToSet(rest)
      OBVIOUS
    <3>1. j - 1 \in DOMAIN rest /\ rest[j - 1] = line[j]
      BY <1>3
    <3>2. QED
      BY <3>1 DEF ToSet
  <2>3. ToSet(line) \subseteq ToSet(rest) \cup {front}
    BY <1>3, <2>2 DEF ToSet
  <2>4. ToSet(rest) \subseteq ToSet(line)
    BY <2>1 DEF ToSet
  <2>5. front \in ToSet(line)
    BY <1>3 DEF ToSet
  <2>6. QED
    BY <2>3, <2>4, <2>5
<1>7. ASSUME NEW q \in Pcbs, q # p
      PROVE  SameAt(n, m, q)
  <2>1. \A k : k.pcb = q => (k \in Scheduled(n) <=> k \in Scheduled(m))
    BY <1>1, <1>4, <1>6, <1>7 DEF Scheduled
  <2>2. ASSUME NEW k, Alone(n, q, k)
        PROVE  Alone(m, q, k)
    <3>1. k.pcb = q
      BY <2>2 DEF Alone
    <3>2. CASE /\ k \in n.waiting /\ \A w \in n.waiting : w.pcb = q => w = k
               /\ \A i \in DOMAIN n.line : n.line[i].pcb # q
      <4>1. \A i \in DOMAIN m.line : m.line[i].pcb # q
        BY <1>1, <1>3, <1>4, <3>2
      <4>2. QED
        BY <1>4, <3>1, <3>2, <4>1 DEF Alone
    <3>3. CASE /\ \A w \in n.waiting : w.pcb # q
               /\ \E i \in DOMAIN n.line :
                     n.line[i] = k /\ \A j \in DOMAIN n.line : n.line[j].pcb = q => j = i
      <4>1. PICK i \in DOMAIN line :
                     line[i] = k /\ \A j \in DOMAIN line : line[j].pcb = q => j = i
        BY <1>1, <3>3
      <4>2. i # 1 /\ i - 1 \in DOMAIN rest /\ rest[i - 1] = k
        BY <1>3, <1>7, <3>1, <4>1
      <4>3. \A h \in DOMAIN rest : rest[h].pcb = q => h = i - 1
        <5> SUFFICES ASSUME NEW h \in DOMAIN rest, rest[h].pcb = q
                     PROVE  h = i - 1
          OBVIOUS
        <5>1. h + 1 = i
          BY <1>3, <4>1
        <5>2. h \in Int
          BY <1>3
        <5>3. QED
          BY <5>1, <5>2
      <4>4. QED
        BY <1>4, <3>1, <3>3, <4>2, <4>3 DEF Alone
    <3>4. QED
      BY <2>2, <3>2, <3>3 DEF Alone
  <2>3. QED
    BY <1>4, <2>1, <2>2 DEF SameAt, SamePackets
<1>8. ASSUME NEW k, Alone(n, p, k)
      PROVE  k = front /\ Absent(m, p)
  <2>1. /\ \A w \in n.waiting : w.pcb # p
        /\ \E i \in DOMAIN n.line :
              n.line[i] = k /\ \A j \in DOMAIN n.line : n.line[j].pcb = p => j = i
    BY <1>1, <1>3, <1>8 DEF Alone
  <2>2. PICK i \in DOMAIN line : line[i] = k /\ \A j \in DOMAIN line : line[j].pcb = p => j = i
    BY <1>1, <2>1
  <2>3. i = 1 /\ k = front
    BY <1>3, <2>2
  <2>4. \A h \in DOMAIN rest : rest[h].pcb # p
    BY <1>3, <2>2, <2>3
  <2>5. QED
    BY <1>4, <2>1, <2>3, <2>4 DEF Absent, Scheduled, ToSet
<1>9. front \in Scheduled(n) /\ Scheduled(m) \subseteq Scheduled(n)
  BY <1>1, <1>4, <1>6 DEF Scheduled
<1>10. QED
  BY <1>3, <1>5, <1>7, <1>8, <1>9 DEF Taken

(* The pcb moves on; its packet may be sent again.                         *)
Moved(n, m, p, state) == m = [n EXCEPT !.pcb[p] = [n.pcb[p] EXCEPT !.state = state]]

(* A pcb that goes on to another state keeps what it probes.               *)
LEMMA MoveChanges ==
    ASSUME NEW n, NetTypes(n), NEW p \in Pcbs, NEW state \in States, NEW m, Moved(n, m, p, state)
    PROVE  /\ NetTypes(m) /\ SameNames(n, m) /\ m.instance = n.instance /\ m.won = n.won
           /\ m.pcb[p].state = state /\ m.pcb[p].ready = n.pcb[p].ready
           /\ m.pcb[p].probing = n.pcb[p].probing /\ m.pcb[p].ip = n.pcb[p].ip
           /\ Scheduled(m) = Scheduled(n)
           /\ \A q \in Pcbs : q # p => SameAt(n, m, q)
<1>1. PICK b : b = [n.pcb[p] EXCEPT !.state = state]
  OBVIOUS
<1>2. n.pcb[p] \in Pcb
  BY DEF NetTypes
<1>3. b \in Pcb /\ b.state = state /\ b.ready = n.pcb[p].ready
      /\ b.probing = n.pcb[p].probing /\ b.ip = n.pcb[p].ip
  BY <1>1, <1>2 DEF Pcb
<1>4. m = [n EXCEPT !.pcb[p] = b]
  BY <1>1 DEF Moved
<1>5. /\ NetTypes(m) /\ SameNames(n, m) /\ m.instance = n.instance /\ m.won = n.won
      /\ Scheduled(m) = Scheduled(n) /\ \A q \in Pcbs : q # p => SameAt(n, m, q)
  BY <1>3, <1>4, PcbChanges
<1>6. m.pcb[p] = b
  BY <1>4 DEF NetTypes
<1>7. QED
  BY <1>3, <1>5, <1>6

(* A packet that goes on saying what it said.                              *)
SaysTheSame(k, front) ==
    /\ k \in TxPacket /\ k.pcb = front.pcb /\ k.servers = front.servers
    /\ k.asks = front.asks /\ k.ip = front.ip /\ (IsEmpty(k) => IsEmpty(front))

(* What probes goes on probing, what announces goes on announcing.         *)
LEMMA RepeatHolds ==
    ASSUME NEW n, Held(n), NEW t, NEW p \in Pcbs, NEW front, Taken(n, t, p, front),
           NEW k, SaysTheSame(k, front), NEW state,
           \/ n.pcb[p].state \in ProbeStates /\ state \in ProbeStates
           \/ n.pcb[p].state \in AnnounceStates /\ state \in AnnounceStates,
           NEW d, Moved(t, d, p, state), NEW m, m = SendLater(d, k)
    PROVE  Held(m)
<1>1. /\ NetTypes(t) /\ SameNames(n, t) /\ t.instance = n.instance /\ t.pcb = n.pcb /\ t.won = n.won
      /\ Scheduled(t) \subseteq Scheduled(n) /\ front \in Scheduled(n) /\ front.pcb = p
      /\ \A q \in Pcbs : q # p => SameAt(n, t, q)
  BY DEF Taken, OtherPackets
<1>2. state \in States
  BY DEF States
<1>3. /\ NetTypes(d) /\ SameNames(t, d) /\ d.instance = t.instance /\ d.won = t.won
      /\ d.pcb[p].state = state /\ d.pcb[p].ready = t.pcb[p].ready
      /\ d.pcb[p].probing = t.pcb[p].probing /\ d.pcb[p].ip = t.pcb[p].ip
      /\ Scheduled(d) = Scheduled(t)
      /\ \A q \in Pcbs : q # p => SameAt(t, d, q)
  BY <1>1, <1>2, MoveChanges
<1>4. k \in TxPacket /\ k.pcb = p
  BY <1>1 DEF SaysTheSame
<1>5. /\ OtherPackets(d, m) /\ Scheduled(m) = Scheduled(d) \cup {k}
      /\ \A q \in Pcbs : q # k.pcb => SameAt(d, m, q)
      /\ Absent(d, k.pcb) => Alone(m, k.pcb, k)
  BY <1>3, <1>4, SentLater
<1>6. /\ m.pcb = d.pcb /\ m.won = n.won /\ NetTypes(m) /\ SameNames(n, m) /\ m.instance = n.instance
  BY <1>1, <1>3, <1>5 DEF OtherPackets, SameNames
<1>7. Only(n, m, p)
  <2>1. \A q \in Pcbs : q # p => SameAt(n, d, q)
    BY <1>1, <1>3, SameFollows
  <2>2. \A q \in Pcbs : q # p => SameAt(d, m, q)
    BY <1>4, <1>5
  <2>3. \A q \in Pcbs : q # p => SameAt(n, m, q)
    BY <2>1, <2>2, SameFollows
  <2>4. QED
    BY <1>6, <2>3 DEF Only
<1>8. PcbInv(m, p)
  <2> SUFFICES ASSUME m.pcb[p].ready
               PROVE  PcbInv(m, p)
    BY DEF PcbInv
  <2>1. PcbInv(n, p) /\ n.pcb[p].ready /\ Common(m) = Common(n) /\ m.host = n.host
    BY <1>1, <1>3, <1>6 DEF Held, Common, SameNames
  <2>2. /\ m.pcb[p].state = state /\ m.pcb[p].probing = n.pcb[p].probing /\ m.pcb[p].ip = n.pcb[p].ip
    BY <1>1, <1>3, <1>6
  <2>3. CASE n.pcb[p].state \in ProbeStates /\ state \in ProbeStates
    <3>1. PICK l \in Scheduled(n) : Alone(n, p, l) /\ ProbeOf(n, p, l)
      BY <2>1, <2>3 DEF PcbInv
    <3>2. l = front /\ Absent(t, p)
      BY <3>1 DEF Taken
    <3>3. Absent(d, p)
      BY <1>3, <3>2 DEF Absent
    <3>4. Alone(m, p, k) /\ k \in Scheduled(m)
      BY <1>4, <1>5, <3>3
    <3>5. ProbeOf(m, p, k)
      BY <2>2, <3>1, <3>2 DEF ProbeOf, SaysTheSame
    <3>6. state \notin AnnounceStates /\ state \notin AfterProbing /\ state # "OFF"
      BY <2>3 DEF ProbeStates, AnnounceStates, AfterProbing
    <3>7. m.host => Common(m) \subseteq m.won[p] \cup m.pcb[p].probing
      BY <1>6, <2>1, <2>2, <2>3 DEF PcbInv
    <3>8. QED
      BY <2>2, <2>3, <3>4, <3>5, <3>6, <3>7 DEF PcbInv
  <2>4. CASE n.pcb[p].state \in AnnounceStates /\ state \in AnnounceStates
    <3>1. n.pcb[p].state \notin ProbeStates /\ state \notin ProbeStates /\ state # "OFF"
      BY <2>4 DEF ProbeStates, AnnounceStates
    <3>2. \A l \in Scheduled(n) : l.pcb = p => l.servers = {} /\ ~IsEmpty(l)
      BY <2>1, <3>1 DEF PcbInv
    <3>3. k.servers = {} /\ ~IsEmpty(k)
      BY <1>1, <3>2 DEF SaysTheSame
    <3>4. \A l \in Scheduled(m) : l.pcb = p => l.servers = {} /\ ~IsEmpty(l)
      BY <1>1, <1>3, <1>5, <3>2, <3>3
    <3>5. \E l \in Scheduled(m) : l.pcb = p
      BY <1>4, <1>5
    <3>6. m.host => Common(m) \subseteq m.won[p]
      BY <1>6, <2>1, <2>4 DEF PcbInv, AfterProbing
    <3>7. QED
      BY <2>2, <3>1, <3>4, <3>5, <3>6 DEF PcbInv
  <2>5. QED
    BY <2>3, <2>4
<1>9. QED
  BY <1>7, <1>8, OnlyOneChanges

(* What answers already needs no packet, or comes to the end.              *)
LEMMA RestHolds ==
    ASSUME NEW n, Held(n), NEW t, NEW p \in Pcbs, NEW front, Taken(n, t, p, front),
           \/ n.pcb[p].state \in {"RUNNING", "OFF"}
           \/ n.pcb[p].state \in AnnounceStates,
           NEW m,
           \/ m = t /\ n.pcb[p].state \in {"RUNNING", "OFF"}
           \/ Moved(t, m, p, "RUNNING")
    PROVE  Held(m)
<1>1. /\ NetTypes(t) /\ SameNames(n, t) /\ t.instance = n.instance /\ t.pcb = n.pcb /\ t.won = n.won
      /\ Scheduled(t) \subseteq Scheduled(n)
      /\ \A q \in Pcbs : q # p => SameAt(n, t, q)
  BY DEF Taken, OtherPackets
<1>2. /\ Only(n, m, p) /\ m.pcb[p].ready = n.pcb[p].ready /\ Scheduled(m) \subseteq Scheduled(n)
      /\ m.won = n.won
      /\ m.pcb[p].state = "RUNNING" \/ m.pcb[p].state = n.pcb[p].state
      /\ m.pcb[p].state \in {"RUNNING", "OFF"}
  <2>1. CASE m = t /\ n.pcb[p].state \in {"RUNNING", "OFF"}
    BY <1>1, <2>1 DEF Only
  <2>2. CASE Moved(t, m, p, "RUNNING")
    <3>1. PICK state : state = "RUNNING"
      OBVIOUS
    <3>2. state \in States
      BY <3>1 DEF States
    <3>3. /\ NetTypes(m) /\ SameNames(t, m) /\ m.instance = t.instance /\ m.won = t.won
          /\ m.pcb[p].state = state /\ m.pcb[p].ready = t.pcb[p].ready
          /\ Scheduled(m) = Scheduled(t)
          /\ \A q \in Pcbs : q # p => SameAt(t, m, q)
      BY <1>1, <2>2, <3>1, <3>2, MoveChanges
    <3>4. \A q \in Pcbs : q # p => SameAt(n, m, q)
      BY <1>1, <3>3, SameFollows
    <3>5. QED
      BY <1>1, <3>1, <3>3, <3>4 DEF Only, SameNames
  <2>3. QED
    BY <2>1, <2>2
<1>3. PcbInv(m, p)
  <2> SUFFICES ASSUME m.pcb[p].ready
               PROVE  PcbInv(m, p)
    BY DEF PcbInv
  <2>1. PcbInv(n, p) /\ n.pcb[p].ready /\ Common(m) = Common(n) /\ m.host = n.host
    BY <1>2 DEF Held, Common, SameNames, Only
  <2>2. n.pcb[p].state # "OFF"
    BY <2>1 DEF PcbInv
  <2>3. /\ n.pcb[p].state \notin ProbeStates /\ n.pcb[p].state \in AfterProbing
        /\ m.pcb[p].state = "RUNNING"
    BY <1>2, <2>2 DEF ProbeStates, AnnounceStates, AfterProbing
  <2>4. \A l \in Scheduled(m) : l.pcb = p => l.servers = {} /\ ~IsEmpty(l)
    BY <1>2, <2>1, <2>3 DEF PcbInv
  <2>5. m.host => Common(m) \subseteq m.won[p]
    BY <1>2, <2>1, <2>3 DEF PcbInv
  <2>6. m.pcb[p].state \notin ProbeStates /\ m.pcb[p].state \notin AnnounceStates /\ m.pcb[p].state # "OFF"
    BY <2>3 DEF ProbeStates, AnnounceStates
  <2>7. QED
    BY <2>4, <2>5, <2>6 DEF PcbInv
<1>4. QED
  BY <1>2, <1>3, OnlyOneChanges

(* What an interface has won is replaced, that is all.                     *)
LEMMA WonSet ==
    ASSUME NEW n, NetTypes(n), NEW p \in Pcbs, NEW names \in SUBSET Services,
           NEW m, m = [n EXCEPT !.won[p] = names]
    PROVE  /\ NetTypes(m) /\ SameNames(n, m) /\ m.instance = n.instance /\ m.pcb = n.pcb
           /\ m.won[p] = names /\ Scheduled(m) = Scheduled(n)
           /\ \A q \in Pcbs : q # p => SameAt(n, m, q)
<1>1. /\ m.won = [n.won EXCEPT ![p] = names] /\ m.line = n.line /\ m.waiting = n.waiting
      /\ m.pcb = n.pcb /\ m.host = n.host /\ m.services = n.services
      /\ m.own = n.own /\ m.instance = n.instance
      /\ m = [pcb |-> m.pcb, line |-> m.line, waiting |-> m.waiting, host |-> m.host,
            instance |-> m.instance, services |-> m.services, own |-> m.own, won |-> m.won]
  BY DEF NetTypes
<1>2. m.won \in [Pcbs -> SUBSET Services]
  BY <1>1 DEF NetTypes
<1>3. NetTypes(m)
  BY <1>1, <1>2 DEF NetTypes
<1>4. m.won[p] = names /\ \A q \in Pcbs : q # p => m.won[q] = n.won[q]
  BY <1>1 DEF NetTypes
<1>5. Scheduled(m) = Scheduled(n)
  BY <1>1 DEF Scheduled
<1>6. \A q \in Pcbs : q # p => SameAt(n, m, q)
  BY <1>1, <1>4, <1>5 DEF SameAt, SamePackets, Alone
<1>7. QED
  BY <1>1, <1>3, <1>4, <1>5, <1>6 DEF SameNames

(* The third probe is out: what it asked for is won, and announced.        *)
WonState(n, p, servers) ==
    LET moved == [n EXCEPT !.pcb[p].state = NextState["PROBE_3"]]
    IN [moved EXCEPT !.pcb[p] = [@ EXCEPT !.probing = {}, !.ip = FALSE, !.running = FALSE],
                     !.won[p] = @ \cup servers]

(* The third probe wins the names, and its announcement follows.           *)
LEMMA WonHolds ==
    ASSUME NEW n, Held(n), NEW t, NEW p \in Pcbs, NEW front, Taken(n, t, p, front),
           NEW k, SaysTheSame(k, front), n.pcb[p].state = "PROBE_3",
           NEW d, d = WonState(t, p, k.servers),
           NEW c, c = SendLater(d, k),
           NEW a, a = AnnounceFromProbe(c, k), NEW m, m = SendLater(d, a)
    PROVE  Held(m)
<1>1. /\ NetTypes(t) /\ SameNames(n, t) /\ t.instance = n.instance /\ t.pcb = n.pcb /\ t.won = n.won
      /\ Scheduled(t) \subseteq Scheduled(n) /\ front \in Scheduled(n) /\ front.pcb = p
      /\ \A q \in Pcbs : q # p => SameAt(n, t, q)
  BY DEF Taken, OtherPackets
<1>2. /\ k \in TxPacket /\ k.pcb = p /\ k.servers \in SUBSET Services /\ k.ip \in BOOLEAN
  BY <1>1 DEF SaysTheSame, TxPacket
<1>3. PICK b : b = [t.pcb[p] EXCEPT !.state = "ANNOUNCE_1", !.probing = {}, !.ip = FALSE,
                                    !.running = FALSE]
  OBVIOUS
<1>4. t.pcb[p] \in Pcb /\ t.won[p] \in SUBSET Services
  BY <1>1 DEF NetTypes
<1>5. b \in Pcb /\ b.state = "ANNOUNCE_1" /\ b.ready = t.pcb[p].ready
  BY <1>3, <1>4 DEF Pcb, States, AnnounceStates
<1>6. PICK e, names : e = [t EXCEPT !.pcb[p] = b] /\ names = t.won[p] \cup k.servers
  OBVIOUS
<1>7. /\ NetTypes(e) /\ SameNames(t, e) /\ e.instance = t.instance /\ e.won = t.won
      /\ Scheduled(e) = Scheduled(t) /\ \A q \in Pcbs : q # p => SameAt(t, e, q)
  BY <1>1, <1>5, <1>6, PcbChanges
<1>8. e.pcb[p] = b
  BY <1>1, <1>6 DEF NetTypes
<1>9. d = [e EXCEPT !.won[p] = names]
  <2>1. NextState["PROBE_3"] = "ANNOUNCE_1"
    BY DEF NextState
  <2>2. PICK moved : moved = [t EXCEPT !.pcb[p].state = "ANNOUNCE_1"]
    OBVIOUS
  <2>3. d = [moved EXCEPT !.pcb[p] = [@ EXCEPT !.probing = {}, !.ip = FALSE, !.running = FALSE],
                          !.won[p] = @ \cup k.servers]
    BY <2>1, <2>2 DEF WonState
  <2>4. PICK s : s = [t.pcb[p] EXCEPT !.state = "ANNOUNCE_1"]
    OBVIOUS
  <2>5. moved = [t EXCEPT !.pcb = [t.pcb EXCEPT ![p] = s]]
    BY <1>1, <2>2, <2>4 DEF NetTypes
  <2>6. moved.pcb[p] = s /\ moved.won = t.won
    BY <1>1, <2>5 DEF NetTypes
  <2>7. b = [s EXCEPT !.probing = {}, !.ip = FALSE, !.running = FALSE]
    BY <1>3, <1>4, <2>4 DEF Pcb
  <2>8. /\ d.pcb = [moved.pcb EXCEPT ![p] = [@ EXCEPT !.probing = {}, !.ip = FALSE, !.running = FALSE]]
        /\ d.won = [moved.won EXCEPT ![p] = @ \cup k.servers]
        /\ d.line = moved.line /\ d.waiting = moved.waiting /\ d.host = moved.host
        /\ d.instance = moved.instance /\ d.services = moved.services /\ d.own = moved.own
        /\ d = [pcb |-> d.pcb, line |-> d.line, waiting |-> d.waiting, host |-> d.host,
            instance |-> d.instance, services |-> d.services, own |-> d.own, won |-> d.won]
    BY <1>1, <2>3, <2>5 DEF NetTypes
  <2>9. /\ moved.pcb = [t.pcb EXCEPT ![p] = s] /\ moved.line = t.line
        /\ moved.waiting = t.waiting /\ moved.host = t.host
        /\ moved.instance = t.instance /\ moved.services = t.services /\ moved.own = t.own
    BY <1>1, <2>5 DEF NetTypes
  <2>10. d.pcb = [t.pcb EXCEPT ![p] = b]
    <3>1. PICK f, g : f = t.pcb /\ g = moved.pcb
      OBVIOUS
    <3>2. f \in [Pcbs -> Pcb]
      BY <1>1, <3>1 DEF NetTypes
    <3>3. g = [f EXCEPT ![p] = s] /\ g[p] = s
      BY <2>9, <3>1, <3>2
    <3>4. d.pcb = [g EXCEPT ![p] = b]
      BY <2>7, <2>8, <3>1, <3>3
    <3>5. [g EXCEPT ![p] = b] = [f EXCEPT ![p] = b]
      BY <3>2, <3>3
    <3>6. QED
      BY <3>1, <3>4, <3>5
  <2>11. d.won = [t.won EXCEPT ![p] = names]
    BY <1>6, <2>6, <2>8
  <2>12. PICK x : x = [e EXCEPT !.won[p] = names]
    OBVIOUS
  <2>13. /\ x.pcb = [t.pcb EXCEPT ![p] = b] /\ x.won = [t.won EXCEPT ![p] = names]
         /\ x.line = t.line /\ x.waiting = t.waiting /\ x.host = t.host
         /\ x.instance = t.instance /\ x.services = t.services /\ x.own = t.own
         /\ x = [pcb |-> x.pcb, line |-> x.line, waiting |-> x.waiting, host |-> x.host,
            instance |-> x.instance, services |-> x.services, own |-> x.own, won |-> x.won]
    BY <1>1, <1>6, <2>12 DEF NetTypes
  <2>14. QED
    BY <2>8, <2>9, <2>10, <2>11, <2>12, <2>13
<1>10. names \in SUBSET Services
  BY <1>2, <1>4, <1>6
<1>11. /\ NetTypes(d) /\ SameNames(e, d) /\ d.instance = e.instance /\ d.pcb = e.pcb
       /\ d.won[p] = names /\ Scheduled(d) = Scheduled(e)
       /\ \A q \in Pcbs : q # p => SameAt(e, d, q)
  <2>1. /\ NetTypes(d) /\ SameNames(e, d) /\ d.instance = e.instance /\ d.pcb = e.pcb
        /\ Scheduled(d) = Scheduled(e)
        /\ \A q \in Pcbs : q # p => SameAt(e, d, q)
    BY <1>7, <1>9, <1>10, WonSet
  <2>2. d.won[p] = names
    BY <1>7, <1>9 DEF NetTypes
  <2>3. QED
    BY <2>1, <2>2
<1>12. NetTypes(c)
  <2>1. OtherPackets(d, c)
    BY <1>2, <1>11, SentLater
  <2>2. QED
    BY <2>1 DEF OtherPackets
<1>13. /\ a \in TxPacket /\ a.pcb = p /\ a.servers = {} /\ a.answers = k.servers
       /\ a.addrs = (k.ip \/ k.servers # {})
  <2>1. PICK blank : blank = Blank(c, p)
    OBVIOUS
  <2>2. blank \in TxPacket /\ blank.pcb = p /\ blank.servers = {}
    BY <1>12, <2>1, BlankIsPacket
  <2>3. PICK addrs : addrs = (k.ip \/ k.servers # {})
    OBVIOUS
  <2>4. a = [blank EXCEPT !.answers = k.servers, !.addrs = addrs]
    BY <1>2, <2>1, <2>3 DEF AnnounceFromProbe
  <2>5. addrs \in BOOLEAN
    BY <1>2, <2>3
  <2>6. a \in TxPacket /\ a.pcb = p /\ a.servers = {} /\ a.answers = k.servers /\ a.addrs = addrs
    BY <1>2, <2>2, <2>4, <2>5 DEF TxPacket
  <2>7. QED
    BY <2>3, <2>6
<1>14. /\ OtherPackets(d, m) /\ Scheduled(m) = Scheduled(d) \cup {a}
       /\ \A q \in Pcbs : q # a.pcb => SameAt(d, m, q)
  BY <1>11, <1>13, SentLater
<1>15. /\ m.pcb = d.pcb /\ m.won = d.won /\ NetTypes(m) /\ SameNames(n, m) /\ m.instance = n.instance
  BY <1>1, <1>7, <1>11, <1>14 DEF OtherPackets, SameNames
<1>16. Only(n, m, p)
  <2>1. \A q \in Pcbs : q # p => SameAt(n, e, q)
    BY <1>1, <1>7, SameFollows
  <2>2. \A q \in Pcbs : q # p => SameAt(n, d, q)
    BY <1>11, <2>1, SameFollows
  <2>3. \A q \in Pcbs : q # p => SameAt(d, m, q)
    BY <1>13, <1>14
  <2>4. \A q \in Pcbs : q # p => SameAt(n, m, q)
    BY <2>2, <2>3, SameFollows
  <2>5. QED
    BY <1>15, <2>4 DEF Only
<1>17. PcbInv(m, p)
  <2> SUFFICES ASSUME m.pcb[p].ready
               PROVE  PcbInv(m, p)
    BY DEF PcbInv
  <2>1. /\ m.pcb[p] = b /\ m.won[p] = names
    BY <1>8, <1>11, <1>15
  <2>2. PcbInv(n, p) /\ n.pcb[p].ready /\ Common(m) = Common(n) /\ m.host = n.host
    BY <1>1, <1>5, <1>15, <2>1 DEF Held, Common, SameNames
  <2>3. n.pcb[p].state \in ProbeStates
    BY DEF ProbeStates
  <2>4. PICK l \in Scheduled(n) : Alone(n, p, l) /\ ProbeOf(n, p, l)
    BY <2>2, <2>3 DEF PcbInv
  <2>5. l = front /\ Absent(t, p)
    BY <2>4 DEF Taken
  <2>6. k.servers = n.pcb[p].probing /\ k.ip = n.pcb[p].ip /\ (k.servers # {} \/ k.ip)
    BY <2>4, <2>5 DEF ProbeOf, SaysTheSame
  <2>7. ~IsEmpty(a)
    BY <1>13, <2>6 DEF IsEmpty
  <2>8. \A x \in Scheduled(m) : x.pcb = p => x = a
    BY <1>7, <1>11, <1>14, <2>5 DEF Absent
  <2>9. a \in Scheduled(m)
    BY <1>14
  <2>10. m.host => Common(m) \subseteq m.won[p]
    <3>1. n.host => Common(n) \subseteq n.won[p] \cup n.pcb[p].probing
      BY <2>2, <2>3 DEF PcbInv
    <3>2. QED
      BY <1>1, <1>6, <2>1, <2>2, <2>6, <3>1
  <2>11. /\ m.pcb[p].state \notin ProbeStates /\ m.pcb[p].state # "OFF"
    BY <1>5, <2>1 DEF ProbeStates
  <2>12. QED
    BY <1>13, <2>7, <2>8, <2>9, <2>10, <2>11 DEF PcbInv
<1>18. QED
  BY <1>16, <1>17, OnlyOneChanges

(* Whatever the state, a packet that is handled keeps the invariant.       *)
LEMMA HandledHolds ==
    ASSUME NEW n, Held(n), n.line # <<>>, NEW front, front = Head(n.line),
           NEW t, t = [n EXCEPT !.line = Tail(n.line)],
           NEW k, k = [front EXCEPT !.queued = FALSE], NEW m, m = Handled(t, k)
    PROVE  Held(m)
<1>1. PICK p : p = front.pcb
  OBVIOUS
<1>2. Taken(n, t, p, front)
  BY <1>1, FrontIsTaken DEF Held
<1>3. /\ front \in TxPacket /\ p \in Pcbs /\ NetTypes(t) /\ t.pcb = n.pcb
  BY <1>1, <1>2 DEF Taken, OtherPackets, TxPacket
<1>4. SaysTheSame(k, front)
  <2>1. /\ k \in TxPacket /\ k.pcb = front.pcb /\ k.servers = front.servers /\ k.asks = front.asks
        /\ k.ip = front.ip /\ k.hosts = front.hosts /\ k.answers = front.answers
        /\ k.addrs = front.addrs
    BY <1>3 DEF TxPacket
  <2>2. QED
    BY <2>1 DEF SaysTheSame, IsEmpty
<1>5. k.pcb = p /\ n.pcb[p].state \in States /\ n.pcb[p] \in Pcb
  BY <1>1, <1>3, <1>4 DEF SaysTheSame, NetTypes, Pcb
<1>6. PICK state : state = n.pcb[p].state
  OBVIOUS
<1>7. CASE state = "OFF"
  <2>1. m = t
    BY <1>3, <1>5, <1>6, <1>7 DEF Handled
  <2>2. QED
    BY <1>2, <1>3, <1>6, <1>7, <2>1, RestHolds
<1>8. CASE state # "OFF"
  <2>1. m = Reschedule(t, k)
    BY <1>3, <1>5, <1>6, <1>8 DEF Handled
  <2>2. CASE state \in {"PROBE_1", "PROBE_2", "ANNOUNCE_1", "ANNOUNCE_2"}
    <3>1. PICK next, d : next = NextState[state] /\ d = [t EXCEPT !.pcb[p].state = next]
      OBVIOUS
    <3>2. m = SendLater(d, k)
      BY <1>3, <1>5, <1>6, <2>1, <2>2, <3>1 DEF Reschedule
    <3>3. Moved(t, d, p, next)
      BY <1>3, <3>1 DEF Moved, NetTypes
    <3>4. \/ n.pcb[p].state \in ProbeStates /\ next \in ProbeStates
          \/ n.pcb[p].state \in AnnounceStates /\ next \in AnnounceStates
      BY <1>6, <2>2, <3>1 DEF NextState, ProbeStates, AnnounceStates
    <3>5. QED
      BY <1>2, <1>3, <1>4, <3>2, <3>3, <3>4, RepeatHolds
  <2>3. CASE state = "PROBE_3"
    <3>1. PICK d, c, a : /\ d = WonState(t, p, k.servers) /\ c = SendLater(d, k)
                         /\ a = AnnounceFromProbe(c, k)
      OBVIOUS
    <3>2. m = SendLater(d, a)
      BY <1>3, <1>5, <1>6, <2>1, <2>3, <3>1 DEF Reschedule, WonState
    <3>3. QED
      BY <1>2, <1>3, <1>4, <1>6, <2>3, <3>1, <3>2, WonHolds
  <2>4. CASE state = "ANNOUNCE_3"
    <3>1. m = [t EXCEPT !.pcb[p].state = NextState["ANNOUNCE_3"]]
      BY <1>3, <1>5, <1>6, <2>1, <2>4 DEF Reschedule
    <3>2. NextState["ANNOUNCE_3"] = "RUNNING"
      BY DEF NextState
    <3>3. Moved(t, m, p, "RUNNING")
      BY <1>3, <3>1, <3>2 DEF Moved, NetTypes
    <3>4. n.pcb[p].state \in AnnounceStates
      BY <1>6, <2>4 DEF AnnounceStates
    <3>5. QED
      BY <1>2, <1>3, <3>3, <3>4, RestHolds
  <2>5. CASE state = "RUNNING"
    <3>1. m = t
      BY <1>3, <1>5, <1>6, <2>1, <2>5 DEF Reschedule
    <3>2. QED
      BY <1>2, <1>3, <1>6, <2>5, <3>1, RestHolds
  <2>6. QED
    BY <1>5, <1>6, <1>8, <2>2, <2>3, <2>4, <2>5 DEF States, ProbeStates, AnnounceStates
<1>9. QED
  BY <1>7, <1>8

-----------------------------------------------------------------------------
(* Only some of the packets are kept. *)
Sifted(n, m, K) ==
    /\ m.line = Kept(n.line, {i \in DOMAIN n.line : n.line[i] \in K})
    /\ m.waiting = {k \in n.waiting : k \in K}

(* Leaving out packets leaves the others as they were.                     *)
LEMMA SiftedPackets ==
    ASSUME NEW n, NetTypes(n), NEW K, NEW m, Sifted(n, m, K)
    PROVE  /\ m.line \in Seq(TxPacket) /\ m.waiting \subseteq TxPacket /\ IsFiniteSet(m.waiting)
           /\ Scheduled(m) = {k \in Scheduled(n) : k \in K}
           /\ \A q, k : Alone(n, q, k) /\ k \in K => Alone(m, q, k)
<1> DEFINE places == {i \in DOMAIN n.line : n.line[i] \in K}
<1>1. PICK line, left : line = n.line /\ left = Kept(line, places)
  OBVIOUS
<1>2. line \in Seq(TxPacket)
  BY <1>1 DEF NetTypes
<1>3. Keeps(line, places, left)
  BY <1>1, <1>2, KeptKeeps
<1>4. m.line = left /\ m.waiting = {k \in n.waiting : k \in K}
  BY <1>1 DEF Sifted
<1>5. m.line \in Seq(TxPacket)
  BY <1>3, <1>4 DEF Keeps
<1>6. m.waiting \subseteq TxPacket /\ IsFiniteSet(m.waiting)
  <2>1. m.waiting \in SUBSET n.waiting
    BY <1>4
  <2>2. IsFiniteSet(m.waiting)
    BY <2>1, FS_Subset DEF NetTypes
  <2>3. QED
    BY <2>1, <2>2 DEF NetTypes
<1>7. Scheduled(m) = {k \in Scheduled(n) : k \in K}
  <2>1. \A i \in DOMAIN left : \E j \in DOMAIN line : left[i] = line[j] /\ line[j] \in K
    BY <1>1, <1>3 DEF Keeps
  <2>2. \A j \in DOMAIN line : line[j] \in K => \E i \in DOMAIN left : left[i] = line[j]
    <3>1. \A j \in DOMAIN line : line[j] \in K => j \in DOMAIN line \cap places
      BY <1>1
    <3> HIDE DEF places
    <3>2. QED
      BY <1>3, <3>1 DEF Keeps
  <2>3. ToSet(left) = {k \in ToSet(line) : k \in K}
    BY <2>1, <2>2 DEF ToSet
  <2>4. QED
    BY <1>1, <1>4, <2>3 DEF Scheduled
<1>8. ASSUME NEW q, NEW k, Alone(n, q, k), k \in K
      PROVE  Alone(m, q, k)
  <2>1. k.pcb = q
    BY <1>8 DEF Alone
  <2>2. CASE /\ k \in n.waiting /\ \A w \in n.waiting : w.pcb = q => w = k
             /\ \A i \in DOMAIN n.line : n.line[i].pcb # q
    <3>1. \A i \in DOMAIN m.line : m.line[i].pcb # q
      BY <1>1, <1>3, <1>4, <2>2 DEF Keeps
    <3>2. QED
      BY <1>4, <1>8, <2>1, <2>2, <3>1 DEF Alone
  <2>3. CASE /\ \A w \in n.waiting : w.pcb # q
             /\ \E i \in DOMAIN n.line :
                   n.line[i] = k /\ \A j \in DOMAIN n.line : n.line[j].pcb = q => j = i
    <3>1. PICK i \in DOMAIN line :
                   line[i] = k /\ \A j \in DOMAIN line : line[j].pcb = q => j = i
      BY <1>1, <2>3
    <3>2. i \in DOMAIN line \cap places
      BY <1>1, <1>8, <3>1
    <3> HIDE DEF places
    <3>3. PICK a \in DOMAIN left :
              /\ left[a] = line[i]
              /\ \A b \in DOMAIN left : b = a \/ \E c \in DOMAIN line \cap places :
                                                   c # i /\ left[b] = line[c]
      BY <1>3, <3>2 DEF Keeps
    <3>4. left[a] = k /\ \A b \in DOMAIN left : left[b].pcb = q => b = a
      BY <3>1, <3>3
    <3>5. QED
      BY <1>4, <2>1, <2>3, <3>4 DEF Alone
  <2>4. QED
    BY <1>8, <2>2, <2>3 DEF Alone
<1>9. QED
  BY <1>5, <1>6, <1>7, <1>8

(* A packet that is alone is the only one of its interface.                *)
LEMMA AloneIsAll ==
    ASSUME NEW n, NEW q, NEW k, Alone(n, q, k)
    PROVE  \A y \in Scheduled(n) : y.pcb = q => y = k
BY DEF Alone, Scheduled, ToSet

-----------------------------------------------------------------------------
(* A service is removed: what is left of each packet, and of each pcb.     *)
Loses(n, k, s) ==
    /\ n.pcb[k.pcb].ready /\ n.pcb[k.pcb].state \in ProbeStates
    /\ s \in n.pcb[k.pcb].probing

(* What a packet says once the service s has left.                         *)
Leaving(n, s) ==
    [k \in TxPacket |->
        IF Loses(n, k, s) THEN WithoutQuestion(Stripped(k, s), s) ELSE Stripped(k, s)]

(* The packets of p, and whether one of them loses its last answer.        *)
OfPcb(n, p) == {k \in Scheduled(n) : k.pcb = p}
RemovedAnswers(n, p, s) ==
    \E k \in OfPcb(n, p) : HasAnswers(k) /\ ~HasAnswers(Stripped(k, s))

(* What leaves a packet with the service.                                  *)
LEMMA LeavingPackets ==
    ASSUME NEW n, NEW s \in Services, NEW f, f = Leaving(n, s), NEW k \in TxPacket, NEW l, l = f[k]
    PROVE  /\ l \in TxPacket /\ l.pcb = k.pcb /\ l.servers = k.servers \ {s}
           /\ l.answers = k.answers \ {s} /\ l.ip = k.ip /\ l.addrs = k.addrs /\ l.hosts = k.hosts
           /\ ~Loses(n, k, s) => l.asks = k.asks
           /\ Loses(n, k, s) /\ TypesDiffer => l.asks = k.asks \ {s}
<1>1. PICK x : x = Stripped(k, s)
  OBVIOUS
<1>2. /\ x \in TxPacket /\ x.pcb = k.pcb /\ x.servers = k.servers \ {s}
      /\ x.answers = k.answers \ {s} /\ x.ip = k.ip /\ x.addrs = k.addrs /\ x.hosts = k.hosts
      /\ x.asks = k.asks
  BY <1>1 DEF Stripped, TxPacket
<1>3. CASE ~Loses(n, k, s)
  <2>1. l = x
    BY <1>1, <1>3 DEF Leaving
  <2>2. QED
    BY <1>2, <1>3, <2>1
<1>4. CASE Loses(n, k, s)
  <2>1. l = WithoutQuestion(x, s)
    BY <1>1, <1>4 DEF Leaving
  <2>2. PICK same : same = {q \in x.asks : Type[q] = Type[s]}
    OBVIOUS
  <2>3. x.asks \in SUBSET Services
    BY <1>2 DEF TxPacket
  <2>4. CASE same = {}
    <3>1. l = x
      BY <2>1, <2>2, <2>4 DEF WithoutQuestion
    <3>2. s \notin x.asks
      BY <2>2, <2>4
    <3>3. QED
      BY <1>2, <1>4, <3>1, <3>2
  <2>5. CASE same # {}
    <3>1. PICK q : q = CHOOSE y \in same : TRUE
      OBVIOUS
    <3>2. q \in same
      BY <2>5, <3>1
    <3>3. l = [x EXCEPT !.asks = x.asks \ {q}]
      BY <2>1, <2>2, <2>5, <3>1 DEF WithoutQuestion
    <3>4. /\ l \in TxPacket /\ l.pcb = x.pcb /\ l.servers = x.servers /\ l.answers = x.answers
          /\ l.ip = x.ip /\ l.addrs = x.addrs /\ l.hosts = x.hosts /\ l.asks = x.asks \ {q}
      BY <1>2, <2>3, <3>3 DEF TxPacket
    <3>5. TypesDiffer => q = s
      BY <2>2, <2>3, <3>2 DEF TypesDiffer
    <3>6. QED
      BY <1>2, <1>4, <3>4, <3>5
  <2>6. QED
    BY <2>4, <2>5
<1>5. QED
  BY <1>3, <1>4

(* What removing does, step by step.                                       *)
Removes(n, a, m, s, f, K) ==
    /\ f = Leaving(n, s) /\ K = {k \in TxPacket : ~IsEmpty(k)}
    /\ Remade(n, a, f) /\ Sifted(a, m, K)
    /\ m.pcb = [p \in Pcbs |-> IF n.pcb[p].ready /\ OfPcb(n, p) # {}
                               THEN AfterRemoval(n.pcb[p], s, RemovedAnswers(n, p, s))
                               ELSE n.pcb[p]]
    /\ m.host = n.host /\ m.services = n.services /\ m.own = n.own
    /\ m.instance = n.instance /\ m.won = n.won
    /\ m = [pcb |-> m.pcb, line |-> m.line, waiting |-> m.waiting, host |-> m.host,
            instance |-> m.instance, services |-> m.services, own |-> m.own, won |-> m.won]

(* Removing a service first changes the packets, then drops the empty ones, *)
(* and then looks at each interface.                                       *)
LEMMA RemoveSteps ==
    ASSUME NEW n, NetTypes(n), NEW s \in Services, NEW m, m = RemoveScheduled(n, s)
    PROVE  \E a, f, K : NetTypes(a) /\ SamePcb(f) /\ Carried(n, a, f) /\ Removes(n, a, m, s, f, K)
<1>1. PICK f, K : f = Leaving(n, s) /\ K = {k \in TxPacket : ~IsEmpty(k)}
  OBVIOUS
<1>2. SamePcb(f)
  <2>1. \A k \in TxPacket : f[k] \in TxPacket /\ f[k].pcb = k.pcb
    <3> SUFFICES ASSUME NEW k \in TxPacket
                 PROVE  f[k] \in TxPacket /\ f[k].pcb = k.pcb
      OBVIOUS
    <3>1. PICK l : l = f[k]
      OBVIOUS
    <3>2. l \in TxPacket /\ l.pcb = k.pcb
      BY <1>1, <3>1, LeavingPackets
    <3>3. QED
      BY <3>1, <3>2
  <2>2. DOMAIN f = TxPacket /\ f = [k \in DOMAIN f |-> f[k]]
    BY <1>1 DEF Leaving
  <2>3. QED
    BY <2>1, <2>2 DEF SamePcb
<1>3. PICK a : Remade(n, a, f)
  BY DEF Remade
<1>4. /\ a.line = [i \in DOMAIN n.line |-> f[n.line[i]]] /\ a.waiting = {f[k] : k \in n.waiting}
      /\ a.pcb = n.pcb /\ a.won = n.won /\ a.host = n.host /\ a.services = n.services
      /\ a.own = n.own /\ a.instance = n.instance
      /\ a = [pcb |-> a.pcb, line |-> a.line, waiting |-> a.waiting, host |-> a.host,
            instance |-> a.instance, services |-> a.services, own |-> a.own, won |-> a.won]
  BY <1>3 DEF NetTypes, Remade
<1>5. Carried(n, a, f)
  <2>1. Mapped(n, a, f)
    BY <1>4 DEF Mapped
  <2>2. QED
    BY <1>2, <2>1, MappedPackets
<1>6. NetTypes(a)
  BY <1>4, <1>5 DEF Carried, NetTypes
<1> DEFINE Left(k) == IF n.pcb[k.pcb].ready /\ n.pcb[k.pcb].state \in ProbeStates
                         /\ s \in n.pcb[k.pcb].probing
                      THEN WithoutQuestion(Stripped(k, s), s) ELSE Stripped(k, s)
           line == [i \in DOMAIN n.line |-> Left(n.line[i])]
           Here(p) == {k \in Scheduled(n) : k.pcb = p}
           removed(p) == \E k \in Here(p) : HasAnswers(k) /\ ~HasAnswers(Stripped(k, s))
<1>7. m = [n EXCEPT !.pcb = [p \in Pcbs |-> IF n.pcb[p].ready /\ Here(p) # {}
                                         THEN AfterRemoval(n.pcb[p], s, removed(p)) ELSE n.pcb[p]],
                 !.line = Kept(line, {i \in DOMAIN line : ~IsEmpty(line[i])}),
                 !.waiting = {k \in {Left(w) : w \in n.waiting} : ~IsEmpty(k)}]
  BY DEF RemoveScheduled
<1>8. \A k \in TxPacket : Left(k) = f[k]
  BY <1>1 DEF Leaving, Loses
<1>9. line = a.line /\ {Left(w) : w \in n.waiting} = a.waiting
  <2> HIDE DEF Left
  <2>1. \A i \in DOMAIN n.line : n.line[i] \in TxPacket
    <3>1. n.line \in Seq(TxPacket)
      BY DEF NetTypes
    <3>2. QED
      BY <3>1
  <2>2. line = a.line
    BY <1>4, <1>8, <2>1
  <2>3. {Left(w) : w \in n.waiting} = {f[w] : w \in n.waiting}
    BY <1>8 DEF NetTypes
  <2>4. QED
    BY <1>4, <2>2, <2>3
<1>10. Sifted(a, m, K)
  <2>1. m.line = Kept(line, {i \in DOMAIN line : ~IsEmpty(line[i])})
        /\ m.waiting = {k \in {Left(w) : w \in n.waiting} : ~IsEmpty(k)}
    <3> HIDE DEF Left, line, Here, removed
    <3>1. QED
      BY <1>7 DEF NetTypes
  <2> HIDE DEF Left, line, Here, removed
  <2>2. \A i \in DOMAIN a.line : a.line[i] \in TxPacket
    <3>1. a.line \in Seq(TxPacket)
      BY <1>6 DEF NetTypes
    <3>2. QED
      BY <3>1
  <2>3. {i \in DOMAIN line : ~IsEmpty(line[i])} = {i \in DOMAIN a.line : a.line[i] \in K}
    BY <1>1, <1>9, <2>2
  <2>4. m.waiting = {k \in a.waiting : k \in K}
    BY <1>1, <1>6, <1>9, <2>1 DEF NetTypes
  <2>5. QED
    BY <1>9, <2>1, <2>3, <2>4 DEF Sifted
<1>11. /\ m.pcb = [p \in Pcbs |-> IF n.pcb[p].ready /\ Here(p) # {}
                                  THEN AfterRemoval(n.pcb[p], s, removed(p)) ELSE n.pcb[p]]
       /\ m.host = n.host /\ m.services = n.services /\ m.own = n.own
       /\ m.instance = n.instance /\ m.won = n.won
       /\ m = [pcb |-> m.pcb, line |-> m.line, waiting |-> m.waiting, host |-> m.host,
            instance |-> m.instance, services |-> m.services, own |-> m.own, won |-> m.won]
  <2> HIDE DEF Left, line, Here, removed
  <2>1. QED
    BY <1>7 DEF NetTypes
<1>12. Removes(n, a, m, s, f, K)
  BY <1>1, <1>3, <1>10, <1>11 DEF Removes, OfPcb, RemovedAnswers
<1>13. QED
  BY <1>2, <1>5, <1>6, <1>12

(* An interface keeps its invariant when a service is removed: what it     *)
(* probes and what its probe asks for lose the same.                       *)
LEMMA RemovalHoldsAt ==
    ASSUME NEW n, NetTypes(n), NEW s \in Services, s \notin n.services,
           NEW a, NEW f, NEW K, NEW m, NetTypes(a), SamePcb(f), Carried(n, a, f),
           Removes(n, a, m, s, f, K), NEW q \in Pcbs, PcbInv(n, q)
    PROVE  m.pcb[q] \in Pcb /\ PcbInv(m, q)
<1>1. PICK b : b = n.pcb[q]
  OBVIOUS
<1>2. /\ b \in Pcb /\ m.host = n.host /\ Common(m) = Common(n) /\ m.won = n.won
      /\ s \notin Common(n)
      /\ m.pcb[q] = IF b.ready /\ OfPcb(n, q) # {}
                    THEN AfterRemoval(b, s, RemovedAnswers(n, q, s)) ELSE b
  BY <1>1 DEF Removes, NetTypes, Common
<1>3. m.pcb[q] \in Pcb /\ m.pcb[q].ready = b.ready
  <2>1. PICK c, gone : c = AfterRemoval(b, s, gone) /\ gone = RemovedAnswers(n, q, s)
    OBVIOUS
  <2>2. c \in Pcb /\ c.ready = b.ready
    BY <1>2, <2>1 DEF AfterRemoval, Pcb, States
  <2>3. QED
    BY <1>2, <2>1, <2>2
<1> SUFFICES ASSUME m.pcb[q].ready
             PROVE  PcbInv(m, q)
  BY <1>3 DEF PcbInv
<1>4. b.ready
  BY <1>3
<1>5. Scheduled(n) \subseteq TxPacket /\ Scheduled(a) = {f[k] : k \in Scheduled(n)}
  BY ScheduledArePackets DEF Carried
<1>6. /\ K = {k \in TxPacket : ~IsEmpty(k)} /\ f = Leaving(n, s) /\ Sifted(a, m, K)
  BY DEF Removes
<1>7. /\ Scheduled(m) = {k \in Scheduled(a) : k \in K}
      /\ \A k : Alone(a, q, k) /\ k \in K => Alone(m, q, k)
  BY <1>6, SiftedPackets
<1>8. ASSUME NEW k \in TxPacket
      PROVE  /\ f[k] \in TxPacket /\ f[k].pcb = k.pcb /\ f[k].servers = k.servers \ {s}
             /\ f[k].answers = k.answers \ {s} /\ f[k].ip = k.ip /\ f[k].addrs = k.addrs
             /\ f[k].hosts = k.hosts
             /\ ~Loses(n, k, s) => f[k].asks = k.asks
             /\ Loses(n, k, s) /\ TypesDiffer => f[k].asks = k.asks \ {s}
  <2>1. PICK l : l = f[k]
    OBVIOUS
  <2>2. /\ l \in TxPacket /\ l.pcb = k.pcb /\ l.servers = k.servers \ {s}
        /\ l.answers = k.answers \ {s} /\ l.ip = k.ip /\ l.addrs = k.addrs /\ l.hosts = k.hosts
        /\ ~Loses(n, k, s) => l.asks = k.asks
        /\ Loses(n, k, s) /\ TypesDiffer => l.asks = k.asks \ {s}
    BY <1>6, <2>1, LeavingPackets
  <2>3. QED
    BY <2>1, <2>2
<1>9. \A k \in TxPacket : k.pcb = q =>
          (Loses(n, k, s) <=> b.state \in ProbeStates /\ s \in b.probing)
  BY <1>1, <1>4 DEF Loses
<1>10. \A x \in Scheduled(m) : ~IsEmpty(x) /\ \E y \in Scheduled(n) : x = f[y] /\ x.pcb = y.pcb
  BY <1>5, <1>6, <1>7, <1>8
<1>11. CASE b.state \in ProbeStates
  <2>1. PICK k \in Scheduled(n) : Alone(n, q, k) /\ ProbeOf(n, q, k)
    BY <1>1, <1>4, <1>11 DEF PcbInv
  <2>2. k \in TxPacket /\ k.pcb = q /\ OfPcb(n, q) # {}
    BY <1>5, <2>1 DEF Alone, OfPcb
  <2>3. /\ k.servers = b.probing /\ k.ip = b.ip /\ (TypesDiffer => k.asks = b.probing)
        /\ b.probing # {} \/ b.ip
    BY <1>1, <2>1 DEF ProbeOf
  <2>4. PICK l : l = f[k]
    OBVIOUS
  <2>5. /\ l \in TxPacket /\ l.servers = b.probing \ {s} /\ l.ip = b.ip
        /\ TypesDiffer => l.asks = b.probing \ {s}
    <3>1. CASE s \in b.probing
      BY <1>8, <1>9, <1>11, <2>2, <2>3, <2>4, <3>1
    <3>2. CASE s \notin b.probing
      BY <1>8, <1>9, <2>2, <2>3, <2>4, <3>2
    <3>3. QED
      BY <3>1, <3>2
  <2>6. n.host => Common(n) \subseteq n.won[q] \cup b.probing
    BY <1>1, <1>4, <1>11 DEF PcbInv
  <2>7. \A x \in Scheduled(m) : x.pcb = q => x = l
    <3>1. \A y \in Scheduled(n) : y.pcb = q => y = k
      BY <2>1, AloneIsAll
    <3>2. QED
      BY <1>10, <2>4, <3>1
  <2>8. CASE s \in b.probing /\ b.probing = {s} /\ ~b.ip
    <3>1. m.pcb[q] = [b EXCEPT !.probing = {}, !.running = FALSE, !.state = "RUNNING"]
      BY <1>2, <1>4, <1>11, <2>2, <2>8 DEF AfterRemoval
    <3>2. m.pcb[q].state = "RUNNING"
      BY <1>2, <3>1 DEF Pcb
    <3>3. m.pcb[q].state \notin ProbeStates /\ m.pcb[q].state \notin AnnounceStates
          /\ m.pcb[q].state # "OFF"
      BY <3>2 DEF ProbeStates, AnnounceStates
    <3>4. l.servers = {}
      BY <2>5, <2>8
    <3>5. \A x \in Scheduled(m) : x.pcb = q => x.servers = {} /\ ~IsEmpty(x)
      BY <1>10, <2>7, <3>4
    <3>6. m.host => Common(m) \subseteq m.won[q]
      BY <1>2, <2>6, <2>8
    <3>7. QED
      BY <3>3, <3>5, <3>6 DEF PcbInv
  <2>9. CASE ~(s \in b.probing /\ b.probing = {s} /\ ~b.ip)
    <3>1. m.pcb[q] = IF s \in b.probing THEN [b EXCEPT !.probing = b.probing \ {s}] ELSE b
      <4>1. b.state \notin AnnounceStates
        BY <1>11 DEF ProbeStates, AnnounceStates
      <4>2. QED
        BY <1>2, <1>4, <1>11, <2>2, <2>9, <4>1 DEF AfterRemoval
    <3>2. m.pcb[q].state = b.state /\ m.pcb[q].probing = b.probing \ {s} /\ m.pcb[q].ip = b.ip
      BY <1>2, <3>1 DEF Pcb
    <3>3. l.servers # {} \/ l.ip
      BY <2>3, <2>5, <2>9
    <3>4. ~IsEmpty(l)
      BY <3>3 DEF IsEmpty
    <3>5. l \in Scheduled(m) /\ Alone(m, q, l)
      <4>1. Alone(a, q, l) /\ l \in Scheduled(a)
        BY <1>5, <2>1, <2>2, <2>4 DEF Carried
      <4>2. QED
        BY <1>6, <1>7, <2>5, <3>4, <4>1
    <3>6. ProbeOf(m, q, l)
      BY <2>5, <3>2, <3>3 DEF ProbeOf
    <3>7. m.host => Common(m) \subseteq m.won[q] \cup m.pcb[q].probing
      BY <1>2, <2>6, <3>2
    <3>8. /\ m.pcb[q].state \in ProbeStates /\ m.pcb[q].state \notin AnnounceStates
          /\ m.pcb[q].state \notin AfterProbing /\ m.pcb[q].state # "OFF"
      BY <1>11, <3>2 DEF ProbeStates, AnnounceStates, AfterProbing
    <3>9. QED
      BY <3>5, <3>6, <3>7, <3>8 DEF PcbInv
  <2>10. QED
    BY <2>8, <2>9
<1>12. CASE b.state \notin ProbeStates
  <2>1. /\ \A y \in Scheduled(n) : y.pcb = q => y.servers = {} /\ ~IsEmpty(y)
        /\ b.state # "OFF"
    BY <1>1, <1>4, <1>12 DEF PcbInv
  <2>2. b.state \in AfterProbing
    BY <1>2, <1>12, <2>1 DEF Pcb, States, AfterProbing
  <2>3. n.host => Common(n) \subseteq n.won[q]
    BY <1>1, <1>4, <2>2 DEF PcbInv
  <2>4. \A x \in Scheduled(m) : x.pcb = q => x.servers = {} /\ ~IsEmpty(x)
    <3> SUFFICES ASSUME NEW x \in Scheduled(m), x.pcb = q
                 PROVE  x.servers = {} /\ ~IsEmpty(x)
      OBVIOUS
    <3>1. PICK y \in Scheduled(n) : x = f[y] /\ x.pcb = y.pcb
      BY <1>10
    <3>2. y \in TxPacket /\ y.servers = {}
      BY <1>5, <2>1, <3>1
    <3>3. QED
      BY <1>8, <1>10, <3>1, <3>2
  <2> DEFINE announced == OfPcb(n, q) # {} /\ b.state \in AnnounceStates /\ RemovedAnswers(n, q, s)
  <2>5. m.pcb[q].state = "RUNNING" \/ (m.pcb[q].state = b.state /\ ~announced)
    <3>1. m.pcb[q] = [b EXCEPT !.state = "RUNNING"] \/ (m.pcb[q] = b /\ ~announced)
      BY <1>2, <1>4, <1>12 DEF AfterRemoval
    <3>2. [b EXCEPT !.state = "RUNNING"].state = "RUNNING"
      BY <1>2 DEF Pcb
    <3> HIDE DEF announced
    <3>3. QED
      BY <3>1, <3>2
  <2>6. m.pcb[q].state \in AnnounceStates => \E x \in Scheduled(m) : x.pcb = q
    <3> SUFFICES ASSUME m.pcb[q].state \in AnnounceStates
                 PROVE  \E x \in Scheduled(m) : x.pcb = q
      OBVIOUS
    <3>1. b.state \in AnnounceStates /\ ~(OfPcb(n, q) # {} /\ RemovedAnswers(n, q, s))
      BY <2>5 DEF AnnounceStates
    <3>2. PICK k \in Scheduled(n) : k.pcb = q
      BY <1>1, <1>4, <3>1 DEF PcbInv
    <3>3. k \in OfPcb(n, q) /\ k \in TxPacket /\ ~IsEmpty(k) /\ k.servers = {}
      BY <1>5, <2>1, <3>2 DEF OfPcb
    <3>4. HasAnswers(k) => HasAnswers(Stripped(k, s))
      BY <3>1, <3>3 DEF RemovedAnswers
    <3>5. k.answers # {} \/ k.addrs => k.answers \ {s} # {} \/ k.addrs
      <4>1. PICK x : x = Stripped(k, s)
        OBVIOUS
      <4>2. x.answers = k.answers \ {s} /\ x.addrs = k.addrs
        BY <3>3, <4>1 DEF Stripped, TxPacket
      <4>3. HasAnswers(k) => HasAnswers(x)
        BY <3>4, <4>1
      <4>4. QED
        BY <4>2, <4>3 DEF HasAnswers
    <3>6. PICK l : l = f[k]
      OBVIOUS
    <3>7. /\ l \in TxPacket /\ l.pcb = q /\ l.servers = {} /\ l.answers = k.answers \ {s}
          /\ l.ip = k.ip /\ l.addrs = k.addrs /\ l.hosts = k.hosts /\ l.asks = k.asks
      BY <1>8, <1>9, <1>12, <3>2, <3>3, <3>6
    <3>8. ~IsEmpty(l)
      BY <3>3, <3>5, <3>7 DEF IsEmpty
    <3>9. l \in Scheduled(m)
      BY <1>5, <1>6, <1>7, <3>6, <3>7, <3>8
    <3>10. QED
      BY <3>7, <3>9
  <2>7. m.pcb[q].state \notin ProbeStates /\ m.pcb[q].state # "OFF"
    BY <1>12, <2>1, <2>5 DEF ProbeStates
  <2>8. m.host => Common(m) \subseteq m.won[q]
    BY <1>2, <2>3
  <2>9. QED
    BY <2>4, <2>6, <2>7, <2>8 DEF PcbInv
<1>13. QED
  BY <1>11, <1>12

(* The service has lost its name on all interfaces.                        *)
LEMMA RenamedTypes ==
    ASSUME NEW n, NetTypes(n), NEW some, NEW m, m = Renamed(n, some)
    PROVE  /\ NetTypes(m) /\ SameNames(n, m) /\ m.instance = n.instance /\ m.pcb = n.pcb
           /\ Scheduled(m) = Scheduled(n)
           /\ \A q \in Pcbs : m.won[q] = n.won[q] \ some
           /\ \A q, k : Alone(n, q, k) => Alone(m, q, k)
<1>1. /\ m.won = [p \in Pcbs |-> n.won[p] \ some] /\ m.line = n.line /\ m.waiting = n.waiting
      /\ m.pcb = n.pcb /\ m.host = n.host /\ m.services = n.services
      /\ m.own = n.own /\ m.instance = n.instance
      /\ m = [pcb |-> m.pcb, line |-> m.line, waiting |-> m.waiting, host |-> m.host,
            instance |-> m.instance, services |-> m.services, own |-> m.own, won |-> m.won]
  BY DEF NetTypes, Renamed
<1>2. m.won \in [Pcbs -> SUBSET Services]
  BY <1>1 DEF NetTypes
<1>3. NetTypes(m)
  BY <1>1, <1>2 DEF NetTypes
<1>4. Scheduled(m) = Scheduled(n) /\ \A q, k : Alone(n, q, k) => Alone(m, q, k)
  BY <1>1 DEF Scheduled, Alone
<1>5. QED
  BY <1>1, <1>3, <1>4 DEF SameNames

(* Names that no longer count, whether they were won or not.               *)
LEMMA LessToWin ==
    ASSUME NEW n, NEW m, NEW q, PcbInv(n, q), m.pcb[q] = n.pcb[q], m.host = n.host,
           Scheduled(m) = Scheduled(n), \A k : Alone(n, q, k) => Alone(m, q, k),
           Common(m) \subseteq Common(n), Common(m) \cap n.won[q] \subseteq m.won[q]
    PROVE  PcbInv(m, q)
<1> SUFFICES ASSUME m.pcb[q].ready
             PROVE  PcbInv(m, q)
  BY DEF PcbInv
<1>1. m.pcb[q].state \in ProbeStates =>
              /\ \E k \in Scheduled(m) : Alone(m, q, k) /\ ProbeOf(m, q, k)
              /\ m.host => Common(m) \subseteq m.won[q] \cup m.pcb[q].probing
  <2> SUFFICES ASSUME m.pcb[q].state \in ProbeStates
               PROVE  /\ \E k \in Scheduled(m) : Alone(m, q, k) /\ ProbeOf(m, q, k)
                      /\ m.host => Common(m) \subseteq m.won[q] \cup m.pcb[q].probing
    OBVIOUS
  <2>1. PICK k \in Scheduled(n) : Alone(n, q, k) /\ ProbeOf(n, q, k)
    BY DEF PcbInv
  <2>2. Alone(m, q, k) /\ ProbeOf(m, q, k)
    BY <2>1 DEF ProbeOf
  <2>3. n.host => Common(n) \subseteq n.won[q] \cup n.pcb[q].probing
    BY DEF PcbInv
  <2>4. QED
    BY <2>1, <2>2, <2>3
<1>2. m.pcb[q].state \notin ProbeStates =>
              \A k \in Scheduled(m) : k.pcb = q => k.servers = {} /\ ~IsEmpty(k)
  BY DEF PcbInv
<1>3. m.pcb[q].state \in AnnounceStates => \E k \in Scheduled(m) : k.pcb = q
  BY DEF PcbInv
<1>4. m.host /\ m.pcb[q].state \in AfterProbing => Common(m) \subseteq m.won[q]
  BY DEF PcbInv
<1>5. m.pcb[q].state # "OFF"
  BY DEF PcbInv
<1>6. QED
  BY <1>1, <1>2, <1>3, <1>4, <1>5 DEF PcbInv

(* Freeing the item alone keeps the invariant, ...                         *)
LEMMA UnlistedHolds ==
    ASSUME NEW n, Held(n), NEW s, NEW m, m = Unlisted(n, s)
    PROVE  Held(m) /\ s \notin m.services /\ m.services \subseteq n.services
<1>1. PICK c : c = [n EXCEPT !.services = @ \ {s}, !.own = @ \ {s}]
  OBVIOUS
<1>2. NetTypes(n)
  BY DEF Held
<1>3. /\ c.services = n.services \ {s} /\ c.own = n.own \ {s} /\ c.pcb = n.pcb /\ c.host = n.host
      /\ c.line = n.line /\ c.waiting = n.waiting /\ c.won = n.won /\ c.instance = n.instance
      /\ c = [pcb |-> c.pcb, line |-> c.line, waiting |-> c.waiting, host |-> c.host,
            instance |-> c.instance, services |-> c.services, own |-> c.own, won |-> c.won]
  BY <1>1, <1>2 DEF NetTypes
<1>4. NetTypes(c)
  BY <1>2, <1>3 DEF NetTypes
<1>5. PICK some : some = {s}
  OBVIOUS
<1>6. m = Renamed(c, some)
  BY <1>1, <1>5 DEF Unlisted
<1>7. /\ NetTypes(m) /\ SameNames(c, m) /\ m.instance = c.instance /\ m.pcb = c.pcb
      /\ Scheduled(m) = Scheduled(c)
      /\ \A q \in Pcbs : m.won[q] = c.won[q] \ some
      /\ \A q, k : Alone(c, q, k) => Alone(m, q, k)
  BY <1>4, <1>6, RenamedTypes
<1>8. ASSUME NEW q \in Pcbs
      PROVE  PcbInv(m, q)
  <2>1. PcbInv(n, q)
    BY DEF Held
  <2>2. Scheduled(m) = Scheduled(n) /\ \A k : Alone(n, q, k) => Alone(m, q, k)
    BY <1>3, <1>7 DEF Scheduled, Alone
  <2>3. m.pcb[q] = n.pcb[q] /\ m.host = n.host
    BY <1>3, <1>7 DEF SameNames
  <2>4. Common(m) = Common(n) \ {s}
    BY <1>3, <1>7 DEF SameNames, Common
  <2>5. Common(m) \subseteq Common(n) /\ Common(m) \cap n.won[q] \subseteq m.won[q]
    BY <1>3, <1>5, <1>7, <2>4
  <2>6. QED
    BY <2>1, <2>2, <2>3, <2>5, LessToWin
<1>9. QED
  BY <1>3, <1>7, <1>8 DEF Held, SameNames

(* ... and so does removing what was scheduled for it.                     *)
LEMMA RemovedHolds ==
    ASSUME NEW n, Held(n), NEW s \in Services, NEW m, m = RemoveScheduled(Unlisted(n, s), s)
    PROVE  Held(m)
<1>1. PICK c : c = Unlisted(n, s)
  OBVIOUS
<1>2. Held(c) /\ s \notin c.services
  BY <1>1, UnlistedHolds
<1>3. NetTypes(c) /\ m = RemoveScheduled(c, s)
  BY <1>1, <1>2 DEF Held
<1>4. PICK a, f, K : NetTypes(a) /\ SamePcb(f) /\ Carried(c, a, f) /\ Removes(c, a, m, s, f, K)
  BY <1>3, RemoveSteps
<1>5. ASSUME NEW q \in Pcbs
      PROVE  m.pcb[q] \in Pcb /\ PcbInv(m, q)
  <2>1. PcbInv(c, q)
    BY <1>2 DEF Held
  <2>2. QED
    BY <1>2, <1>3, <1>4, <2>1, RemovalHoldsAt
<1>6. /\ m.line \in Seq(TxPacket) /\ m.waiting \subseteq TxPacket /\ IsFiniteSet(m.waiting)
  <2>1. Sifted(a, m, K)
    BY <1>4 DEF Removes
  <2>2. QED
    BY <1>4, <2>1, SiftedPackets
<1>7. m.pcb \in [Pcbs -> Pcb]
  <2>1. DOMAIN m.pcb = Pcbs /\ m.pcb = [p \in DOMAIN m.pcb |-> m.pcb[p]]
    BY <1>4 DEF Removes
  <2>2. QED
    BY <1>5, <2>1
<1>8. NetTypes(m)
  BY <1>3, <1>4, <1>6, <1>7 DEF Removes, NetTypes
<1>9. QED
  BY <1>5, <1>8 DEF Held

-----------------------------------------------------------------------------
(* All services of a list are removed, one after the other.                *)
Removals(n, list, N, after) ==
    after = [i \in 0 .. N |->
                IF i = 0 THEN n ELSE RemoveScheduled(Unlisted(after[i - 1], list[i]), list[i])]

(* The removals of all services, one after the other, exist ...            *)
LEMMA RemovalsExist ==
    ASSUME NEW n, NEW list, NEW N \in Nat
    PROVE  \E after : Removals(n, list, N, after)
<1> DEFINE S == {m \in Nat : \E f : Removals(n, list, m, f)}
           Next(x, s) == RemoveScheduled(Unlisted(x, s), s)
<1>1. 0 \in S
  <2> DEFINE f == [i \in 0..0 |-> n]
  <2>1. Removals(n, list, 0, f)
    BY DEF Removals
  <2>2. QED
    BY <2>1
<1>2. ASSUME NEW m \in Nat, m \in S
      PROVE  m + 1 \in S
  <2>1. PICK f : Removals(n, list, m, f)
    BY <1>2
  <2>2. PICK next : next = Next(f[m], list[m + 1])
    OBVIOUS
  <2> DEFINE g == [i \in 0..(m + 1) |-> IF i = m + 1 THEN next ELSE f[i]]
             h == [i \in 0..(m + 1) |-> IF i = 0 THEN n ELSE Next(g[i - 1], list[i])]
  <2>3. ASSUME NEW i \in 0..(m + 1)
        PROVE  g[i] = h[i]
    <3>1. CASE i = m + 1
      <4>1. i # 0 /\ i - 1 = m /\ m \in 0..(m + 1) /\ m # m + 1
        BY <3>1
      <4>2. g[i - 1] = f[m]
        BY <4>1
      <4> HIDE DEF Next
      <4>3. QED
        BY <2>2, <3>1, <4>1, <4>2
    <3>2. CASE i = 0
      <4>1. f[0] = n /\ 0 # m + 1
        BY <2>1 DEF Removals
      <4>2. QED
        BY <3>2, <4>1
    <3>3. CASE i # 0 /\ i # m + 1
      <4>1. i \in 0..m /\ i - 1 \in 0..(m + 1) /\ i - 1 # m + 1
        BY <3>3
      <4>2. f[i] = Next(f[i - 1], list[i])
        BY <2>1, <3>3, <4>1 DEF Removals
      <4>3. g[i - 1] = f[i - 1] /\ g[i] = f[i]
        BY <3>3, <4>1
      <4> HIDE DEF Next
      <4>4. QED
        BY <3>3, <4>2, <4>3
    <3>4. QED
      BY <3>1, <3>2, <3>3
  <2>4. g = h
    BY <2>3
  <2> HIDE DEF g
  <2>5. Removals(n, list, m + 1, g)
    BY <2>4 DEF Removals
  <2>6. QED
    BY <2>5
<1> HIDE DEF S
<1>3. \A m \in Nat : m \in S
  BY <1>1, <1>2, Induct
<1>4. QED
  BY <1>3 DEF S

(* ... and keep the invariant, by induction.                               *)
LEMMA RemovalsHold ==
    ASSUME NEW n, Held(n), NEW list \in Seq(Services), NEW N, N = Len(list), NEW after,
           Removals(n, list, N, after)
    PROVE  Held(after[N])
<1> DEFINE S == {m \in Nat : m <= N => Held(after[m])}
<1>0. N \in Nat
  OBVIOUS
<1>1. 0 \in S
  <2>1. after[0] = n
    BY <1>0 DEF Removals
  <2>2. QED
    BY <2>1
<1>2. ASSUME NEW m \in Nat, m \in S
      PROVE  m + 1 \in S
  <2> SUFFICES ASSUME m + 1 <= N
               PROVE  Held(after[m + 1])
    OBVIOUS
  <2>1. m <= N /\ m + 1 \in 1..N /\ m + 1 \in 0..N /\ m + 1 # 0 /\ (m + 1) - 1 = m
    BY <1>0
  <2>2. PICK old, new, s : old = after[m] /\ new = after[m + 1] /\ s = list[m + 1]
    OBVIOUS
  <2>3. Held(old) /\ s \in Services
    BY <1>2, <2>1, <2>2
  <2>4. new = RemoveScheduled(Unlisted(old, s), s)
    <3>1. after[m + 1] = RemoveScheduled(Unlisted(after[(m + 1) - 1], list[m + 1]), list[m + 1])
      BY <2>1 DEF Removals
    <3>2. QED
      BY <2>1, <2>2, <3>1
  <2>5. Held(new)
    BY <2>3, <2>4, RemovedHolds
  <2>6. QED
    BY <2>2, <2>5
<1> HIDE DEF S
<1>3. \A m \in Nat : m \in S
  BY <1>1, <1>2, Induct
<1>4. N \in S
  BY <1>0, <1>3
<1>5. QED
  BY <1>0, <1>4 DEF S

(* A finite set can be listed. *)
LEMMA SetListed ==
    ASSUME NEW S, IsFiniteSet(S)
    PROVE  SetToSeq(S) \in Seq(S)
<1>1. Cardinality(S) \in Nat /\ ExistsBijection(1..Cardinality(S), S)
  BY FS_CardinalityType
<1>2. PICK g : g \in Bijection(1..Cardinality(S), S)
  BY <1>1 DEF ExistsBijection
<1>3. g \in [1..Cardinality(S) -> S] /\ IsInjective(g)
  BY <1>2 DEF Bijection, Injection
<1>4. SetToSeq(S) \in [1..Cardinality(S) -> S]
  BY <1>3 DEF SetToSeq
<1>5. QED
  BY <1>1, <1>4, SeqDef

(* Hence mdns_service_remove_all keeps it.                                 *)
LEMMA RemoveAllHolds ==
    ASSUME Held(net), RemoveAll
    PROVE  Held(net')
<1>1. PICK n, list, N : n = net /\ list = SetToSeq(n.services) /\ N = Len(list)
  OBVIOUS
<1>2. Held(n) /\ n.services \in SUBSET Services
  BY <1>1 DEF Held, NetTypes
<1>3. IsFiniteSet(n.services)
  BY <1>2, ResponderAssumption, FS_Subset
<1>4. list \in Seq(Services) /\ N \in Nat
  <2>1. list \in Seq(n.services)
    BY <1>1, <1>3, SetListed
  <2>2. QED
    BY <1>1, <1>2, <2>1
<1>5. PICK after : after = CHOOSE f : Removals(n, list, N, f)
  OBVIOUS
<1>6. Removals(n, list, N, after)
  <2>1. \E f : Removals(n, list, N, f)
    BY <1>4, RemovalsExist
  <2>2. QED
    BY <1>5, <2>1
<1>7. Held(after[N])
  BY <1>1, <1>2, <1>4, <1>6, RemovalsHold
<1>8. net' = after[N]
  BY <1>1, <1>5 DEF RemoveAll, Asked, Removals
<1>9. QED
  BY <1>7, <1>8

-----------------------------------------------------------------------------
(* Probing again, for a reason. *)
LEMMA ReprobeHolds ==
    ASSUME NEW n, Held(n), NEW p \in Pcbs, NEW list \in SUBSET Services, NEW ip \in BOOLEAN,
           list # {} \/ ip, NEW m, m = InitProbe(n, p, list, ip)
    PROVE  Held(m)
<1>1. NetTypes(n) /\ PcbInv(n, p)
  BY DEF Held
<1>2. n.host /\ n.pcb[p].ready => Common(n) \subseteq n.won[p] \cup list \cup BeingProbed(n, p)
  BY <1>1, HeldCovers
<1>3. Only(n, m, p) /\ PcbInv(m, p)
  BY <1>1, <1>2, ProbeStarts
<1>4. QED
  BY <1>3, OnlyOneChanges

(* A restart gives the invariant whatever held before: everything is       *)
(* probed.                                                                 *)
LEMMA RestartAllHolds ==
    ASSUME NEW n, NetTypes(n), NEW m, m = RestartAll(n)
    PROVE  Held(m)
<1>1. PICK c, list : c = [n EXCEPT !.line = <<>>, !.waiting = {}] /\ list = n.services
  OBVIOUS
<1>2. /\ c.line = <<>> /\ c.waiting = {} /\ c.pcb = n.pcb /\ c.host = n.host
      /\ c.services = n.services /\ c.own = n.own /\ c.won = n.won /\ c.instance = n.instance
      /\ c = [pcb |-> c.pcb, line |-> c.line, waiting |-> c.waiting, host |-> c.host,
            instance |-> c.instance, services |-> c.services, own |-> c.own, won |-> c.won]
  BY <1>1 DEF NetTypes
<1>3. NetTypes(c)
  <2>1. IsFiniteSet(c.waiting)
    BY <1>2, FS_EmptySet
  <2>2. c.line \in Seq(TxPacket) /\ c.waiting \subseteq TxPacket
    BY <1>2
  <2>3. QED
    BY <1>2, <2>1, <2>2 DEF NetTypes
<1>4. m = ProbeAll(c, list, TRUE, TRUE)
  BY <1>1 DEF RestartAll
<1>5. list \in SUBSET Services
  BY <1>1 DEF NetTypes
<1>6. \A p \in Pcbs : Covered(c, p, list, TRUE)
  BY <1>1, <1>2 DEF Covered, Common
<1>7. QED
  BY <1>3, <1>4, <1>5, <1>6, ProbeAllHolds

(* One service is probed on all interfaces, with what each probes already. *)
LEMMA ServiceProbed ==
    ASSUME NEW n, Held(n), NEW s \in Services, NEW c, NetTypes(c), c.pcb = n.pcb, c.host = n.host,
           Common(c) \subseteq Common(n) \cup {s},
           \A q \in Pcbs : n.won[q] \subseteq c.won[q] \cup {s},
           NEW m, m = ProbeAll(c, {s}, FALSE, FALSE)
    PROVE  Held(m)
<1>1. PICK list : list = {s}
  OBVIOUS
<1>2. list \in SUBSET Services /\ list # {} /\ m = ProbeAll(c, list, FALSE, FALSE)
  BY <1>1
<1>3. ASSUME NEW p \in Pcbs
      PROVE  Covered(c, p, list, FALSE)
  <2> SUFFICES ASSUME c.host, c.pcb[p].ready
               PROVE  Common(c) \subseteq c.won[p] \cup list \cup BeingProbed(c, p)
    BY DEF Covered
  <2>1. NetTypes(n) /\ PcbInv(n, p) /\ n.host /\ n.pcb[p].ready
    BY DEF Held
  <2>2. Common(n) \subseteq n.won[p] \cup BeingProbed(n, p)
    BY <2>1, HeldCovers
  <2>3. BeingProbed(c, p) = BeingProbed(n, p)
    BY DEF BeingProbed
  <2>4. QED
    BY <1>1, <2>2, <2>3
<1>4. QED
  BY <1>2, <1>3, ProbeAllHolds

(* So does a new hostname.                                                 *)
LEMMA NewHostnameHolds ==
    ASSUME NEW n, NetTypes(n), NEW m, m = NewHostname(n)
    PROVE  Held(m)
<1>1. PICK some, c : some = n.services /\ c = Renamed(n, some)
  OBVIOUS
<1>2. NetTypes(c)
  BY <1>1, RenamedTypes
<1>3. m = RestartAll(c)
  BY <1>1 DEF NewHostname
<1>4. QED
  BY <1>2, <1>3, RestartAllHolds

(* A new name of the device: what goes by it is probed again.              *)
LEMMA NewInstanceHolds ==
    ASSUME NEW n, Held(n), NEW m, m = NewInstance(n)
    PROVE  Held(m)
<1>1. PICK c, some, d : /\ c = [n EXCEPT !.instance = TRUE] /\ some = Common(n)
                        /\ d = Renamed(c, some)
  OBVIOUS
<1>2. NetTypes(n)
  BY DEF Held
<1>3. /\ c.line = n.line /\ c.waiting = n.waiting /\ c.pcb = n.pcb /\ c.host = n.host
      /\ c.services = n.services /\ c.own = n.own /\ c.won = n.won /\ c.instance = TRUE
      /\ c = [pcb |-> c.pcb, line |-> c.line, waiting |-> c.waiting, host |-> c.host,
            instance |-> c.instance, services |-> c.services, own |-> c.own, won |-> c.won]
  BY <1>1, <1>2 DEF NetTypes
<1>4. NetTypes(c)
  BY <1>2, <1>3 DEF NetTypes
<1>5. /\ NetTypes(d) /\ SameNames(c, d) /\ d.pcb = c.pcb /\ Scheduled(d) = Scheduled(c)
      /\ \A q \in Pcbs : d.won[q] = c.won[q] \ some
      /\ \A q, k : Alone(c, q, k) => Alone(d, q, k)
  <2>1. d = Renamed(c, some)
    BY <1>1
  <2>2. NetTypes(d) /\ SameNames(c, d) /\ d.pcb = c.pcb /\ Scheduled(d) = Scheduled(c)
    BY <1>4, <2>1, RenamedTypes
  <2>3. \A q \in Pcbs : d.won[q] = c.won[q] \ some
    BY <1>4, <2>1, RenamedTypes
  <2>4. \A q, k : Alone(c, q, k) => Alone(d, q, k)
    BY <1>4, <2>1, RenamedTypes
  <2>5. QED
    BY <2>2, <2>3, <2>4
<1>6. m = RestartNoInstance(d) /\ Common(d) = Common(n)
  BY <1>1, <1>3, <1>5 DEF NewInstance, Common, SameNames
<1>7. CASE Common(n) = {}
  <2>1. m = d
    BY <1>6, <1>7 DEF RestartNoInstance, Common
  <2>2. ASSUME NEW q \in Pcbs
        PROVE  PcbInv(d, q)
    <3>1. PcbInv(n, q)
      BY DEF Held
    <3>2. Scheduled(d) = Scheduled(n) /\ \A k : Alone(n, q, k) => Alone(d, q, k)
      BY <1>3, <1>5 DEF Scheduled, Alone
    <3>3. /\ d.pcb[q] = n.pcb[q] /\ d.host = n.host
          /\ Common(d) \subseteq Common(n) /\ Common(d) \cap n.won[q] \subseteq d.won[q]
      BY <1>3, <1>5, <1>6, <1>7 DEF SameNames
    <3>4. QED
      BY <3>1, <3>2, <3>3, LessToWin
  <2>3. QED
    BY <1>5, <2>1, <2>2 DEF Held
<1>8. CASE Common(n) # {}
  <2>1. m = ProbeAll(d, some, FALSE, TRUE)
    BY <1>1, <1>6, <1>8 DEF RestartNoInstance, Common
  <2>2. some \in SUBSET Services /\ some # {}
    BY <1>1, <1>2, <1>8 DEF NetTypes, Common
  <2>3. \A p \in Pcbs : Covered(d, p, some, TRUE)
    BY <1>1, <1>6 DEF Covered
  <2>4. QED
    BY <1>5, <2>1, <2>2, <2>3, ProbeAllHolds
<1>9. QED
  BY <1>7, <1>8

-----------------------------------------------------------------------------
(* The actions of the interface. *)
LEMMA EnabledHolds ==
    ASSUME NEW n, Held(n), NEW p \in Pcbs, NEW m, m = Enabled(n, p)
    PROVE  Held(m)
<1>1. PICK list : list = n.services
  OBVIOUS
<1>2. NetTypes(n) /\ list \in SUBSET Services /\ n.pcb[p] \in Pcb
  BY <1>1 DEF Held, NetTypes
<1>3. CASE n.pcb[p].ready
  <2>1. m = InitProbe(n, p, list, TRUE)
    BY <1>1, <1>3 DEF Enabled, RestartPcb, CanInit
  <2>2. QED
    BY <1>2, <2>1, ReprobeHolds
<1>4. CASE ~n.pcb[p].ready /\ CanInit(n, p)
  <2>1. PICK b, d : b = [n.pcb[p] EXCEPT !.ready = TRUE] /\ d = [n EXCEPT !.pcb[p] = b]
    OBVIOUS
  <2>2. b \in Pcb
    BY <1>2, <2>1 DEF Pcb
  <2>3. d = [n EXCEPT !.pcb[p].ready = TRUE]
    BY <1>2, <2>1 DEF NetTypes
  <2>4. d.services = n.services
    BY <1>2, <2>1 DEF NetTypes
  <2>5. m = InitProbe(d, p, list, TRUE)
    BY <1>1, <1>4, <2>3, <2>4 DEF Enabled, RestartPcb
  <2>6. /\ NetTypes(d) /\ SameNames(n, d) /\ d.instance = n.instance
        /\ \A q \in Pcbs : q # p => SameAt(n, d, q)
    <3>1. d = [n EXCEPT !.pcb[p] = b]
      BY <2>1
    <3>2. QED
      BY <1>2, <2>2, <3>1, PcbChanges
  <2>7. Common(d) \subseteq d.won[p] \cup list \cup BeingProbed(d, p)
    BY <1>1, <2>4 DEF Common
  <2>8. Only(d, m, p) /\ PcbInv(m, p)
    BY <1>2, <2>5, <2>6, <2>7, ProbeStarts
  <2>9. Only(n, m, p)
    <3>1. \A q \in Pcbs : q # p => SameAt(n, m, q)
      BY <2>6, <2>8, SameFollows DEF Only
    <3>2. QED
      BY <2>6, <2>8, <3>1 DEF Only, SameNames
  <2>10. QED
    BY <2>8, <2>9, OnlyOneChanges
<1>5. CASE ~n.pcb[p].ready /\ ~CanInit(n, p)
  <2>1. m = n
    BY <1>5 DEF Enabled
  <2>2. QED
    BY <2>1
<1>6. QED
  BY <1>3, <1>4, <1>5

(* An interface that goes down promises nothing.                           *)
LEMMA DisabledHolds ==
    ASSUME NEW n, Held(n), NEW p \in Pcbs, NEW m, m = Disabled(n, p)
    PROVE  Held(m)
<1>1. PICK none, c : none = {} /\ c = [n EXCEPT !.won[p] = none]
  OBVIOUS
<1>2. NetTypes(n) /\ none \in SUBSET Services
  BY <1>1 DEF Held
<1>3. /\ NetTypes(c) /\ SameNames(n, c) /\ c.instance = n.instance /\ c.pcb = n.pcb
      /\ Scheduled(c) = Scheduled(n)
      /\ \A q \in Pcbs : q # p => SameAt(n, c, q)
  BY <1>1, <1>2, WonSet
<1>4. CASE n.pcb[p].ready
  <2>1. PICK d : d = ClearOf(c, p)
    OBVIOUS
  <2>2. OtherPackets(c, d) /\ \A q \in Pcbs : q # p => SameAt(c, d, q)
    BY <1>3, <2>1, ClearOfClears
  <2>3. PcbOff \in Pcb /\ ~PcbOff.ready
    BY DEF PcbOff, Pcb, States
  <2>4. PICK b : b = PcbOff
    OBVIOUS
  <2>5. NetTypes(d) /\ SameNames(c, d) /\ d.instance = c.instance
    BY <2>2 DEF OtherPackets
  <2>6. m = [d EXCEPT !.pcb[p] = b]
    BY <1>1, <1>4, <2>1, <2>4 DEF Disabled, Deinit
  <2>7. /\ NetTypes(m) /\ SameNames(d, m) /\ m.instance = d.instance
        /\ \A q \in Pcbs : q # p => SameAt(d, m, q)
    BY <2>3, <2>4, <2>5, <2>6, PcbChanges
  <2>8. m.pcb[p] = b
    BY <2>5, <2>6 DEF NetTypes
  <2>9. PcbInv(m, p)
    BY <2>3, <2>4, <2>8 DEF PcbInv
  <2>10. Only(n, m, p)
    <3>1. \A q \in Pcbs : q # p => SameAt(n, d, q)
      BY <1>3, <2>2, SameFollows
    <3>2. \A q \in Pcbs : q # p => SameAt(n, m, q)
      BY <2>7, <3>1, SameFollows
    <3>3. QED
      BY <1>3, <2>5, <2>7, <3>2 DEF Only, SameNames
  <2>11. QED
    BY <2>9, <2>10, OnlyOneChanges
<1>5. CASE ~n.pcb[p].ready
  <2>1. m = [c EXCEPT !.pcb[p].state = "OFF"]
    BY <1>1, <1>5 DEF Disabled
  <2>2. PICK state : state = "OFF"
    OBVIOUS
  <2>3. Moved(c, m, p, state)
    BY <1>3, <2>1, <2>2 DEF Moved, NetTypes
  <2>4. state \in States
    BY <2>2 DEF States
  <2>5. /\ NetTypes(m) /\ SameNames(c, m) /\ m.instance = c.instance
        /\ m.pcb[p].ready = c.pcb[p].ready
        /\ \A q \in Pcbs : q # p => SameAt(c, m, q)
    BY <1>3, <2>3, <2>4, MoveChanges
  <2>6. PcbInv(m, p)
    BY <1>3, <1>5, <2>5 DEF PcbInv
  <2>7. Only(n, m, p)
    <3>1. \A q \in Pcbs : q # p => SameAt(n, m, q)
      BY <1>3, <2>5, SameFollows
    <3>2. QED
      BY <1>3, <2>5, <3>1 DEF Only, SameNames
  <2>8. QED
    BY <2>6, <2>7, OnlyOneChanges
<1>6. QED
  BY <1>4, <1>5

-----------------------------------------------------------------------------
(* The queue and what is in hand. *)
QueueTypes == actions \in Seq(ActionsOf) /\ hand \in ActionsOf \cup {None} /\ lock \in Nat

(* The queue holds actions, the task has one in hand or none.              *)
LEMMA QueuedTypes ==
    ASSUME NEW queue \in Seq(ActionsOf), NEW e \in ActionsOf
    PROVE  Queued(queue, e) \in Seq(ActionsOf)
BY DEF Queued

(* What an action in hand carries.                                         *)
LEMMA HandIs ==
    ASSUME QueueTypes, hand # None
    PROVE  /\ hand.type = "event" =>
                /\ hand.pcb \in Pcbs /\ hand.what \in {"enable", "disable", "announce"}
           /\ hand.type = "rx" =>
                /\ hand.pcb \in Pcbs /\ hand.of \in Services \cup {None}
                /\ hand.claims \in BOOLEAN
                /\ hand.what \in {"srv", "txt"} => hand.of \in Services
BY DEF QueueTypes, ActionsOf

(* The task has run its action, ...                                        *)
LEMMA DoneTypes ==
    ASSUME QueueTypes, Done
    PROVE  QueueTypes'
BY DEF QueueTypes, Done

(* ... takes the next, ...                                                 *)
LEMMA ReceiveTypes ==
    ASSUME QueueTypes, Receive
    PROVE  QueueTypes'
BY DEF QueueTypes, Receive

(* ... which may be an event ...                                           *)
LEMMA EventTypes ==
    ASSUME NEW what \in {"enable", "disable", "announce"}, NEW p \in {"v4", "v6"}
    PROVE  Event(what, p).pcb = p /\ (p \in Pcbs => Event(what, p) \in ActionsOf)
BY DEF Event, ActionsOf

(* ... that the interface has posted.                                      *)
LEMMA PostTypes ==
    ASSUME QueueTypes, NEW a, NEW b, a.pcb \in Pcbs => a \in ActionsOf,
           b.pcb \in Pcbs => b \in ActionsOf, Post(a, b)
    PROVE  QueueTypes' /\ net' = net
<1> DEFINE Posted(queue, e) == IF e.pcb \in Pcbs THEN Queued(queue, e) ELSE queue
<1>1. actions' = Posted(Posted(actions, a), b) /\ UNCHANGED <<hand, lock, net>>
  BY DEF Post
<1>2. PICK first : first = Posted(actions, a)
  OBVIOUS
<1>3. first \in Seq(ActionsOf)
  BY <1>2, QueuedTypes DEF QueueTypes
<1>4. Posted(first, b) \in Seq(ActionsOf)
  BY <1>3, QueuedTypes
<1>5. QED
  BY <1>1, <1>2, <1>4 DEF QueueTypes

(* The inductive invariant.                                                *)
ResponderInv == QueueTypes /\ Held(net)

(* What comes from outside only queues actions.                            *)
LEMMA NetworkHolds ==
    ASSUME ResponderInv, Network
    PROVE  ResponderInv'
<1>1. QueueTypes
  BY DEF ResponderInv
<1>2. ASSUME NEW a, NEW b, a.pcb \in Pcbs => a \in ActionsOf,
             b.pcb \in Pcbs => b \in ActionsOf, Post(a, b)
      PROVE  ResponderInv'
  <2>1. QueueTypes' /\ net' = net
    BY <1>1, <1>2, PostTypes
  <2>2. QED
    BY <2>1 DEF ResponderInv
<1>3. \A what \in {"enable", "disable", "announce"}, p \in {"v4", "v6"} :
         Event(what, p).pcb \in Pcbs => Event(what, p) \in ActionsOf
  BY EventTypes
<1>4. CASE GotIp \/ GotIp6 \/ Disconnected
  <2>1. CASE GotIp
    <3>1. PICK a, b : a = Event("enable", "v4") /\ b = Event("announce", "v6")
      OBVIOUS
    <3>2. Post(a, b)
      BY <2>1, <3>1 DEF GotIp
    <3>3. QED
      BY <1>2, <1>3, <3>1, <3>2
  <2>2. CASE GotIp6
    <3>1. PICK a, b : a = Event("enable", "v6") /\ b = Event("announce", "v4")
      OBVIOUS
    <3>2. Post(a, b)
      BY <2>2, <3>1 DEF GotIp6
    <3>3. QED
      BY <1>2, <1>3, <3>1, <3>2
  <2>3. CASE Disconnected
    <3>1. PICK a, b : a = Event("disable", "v4") /\ b = Event("disable", "v6")
      OBVIOUS
    <3>2. Post(a, b)
      BY <2>3, <3>1 DEF Disconnected
    <3>3. QED
      BY <1>2, <1>3, <3>1, <3>2
  <2>4. QED
    BY <1>4, <2>1, <2>2, <2>3
<1>5. ASSUME NEW p \in Pcbs, NEW what, NEW s, NEW claims \in BOOLEAN, PacketComes(p, what, s, claims),
             \/ what \in {"srv", "txt"} /\ s \in Services
             \/ what \in {"question", "address"} /\ s \in Services \cup {None}
      PROVE  ResponderInv'
  <2>1. PICK e : e = Packet(p, what, s, claims)
    OBVIOUS
  <2>2. e \in ActionsOf
    BY <1>5, <2>1 DEF Packet, ActionsOf
  <2>3. actions' = Queued(actions, e) /\ UNCHANGED <<hand, lock, net>>
    BY <1>5, <2>1 DEF PacketComes
  <2>4. Queued(actions, e) \in Seq(ActionsOf)
    BY <1>1, <2>2, QueuedTypes DEF QueueTypes
  <2>5. QED
    BY <1>1, <2>3, <2>4 DEF ResponderInv, QueueTypes
<1>6. CASE ~(GotIp \/ GotIp6 \/ Disconnected)
  <2>1. PICK p \in Pcbs :
          \/ \E s \in Services : \E what \in {"question", "txt"} : PacketComes(p, what, s, FALSE)
          \/ PacketComes(p, "question", None, FALSE)
          \/ \E claims \in BOOLEAN :
                \/ \E s \in Services : PacketComes(p, "srv", s, claims)
                \/ PacketComes(p, "address", None, claims)
    BY <1>6 DEF Network
  <2>2. CASE \E s \in Services : \E what \in {"question", "txt"} : PacketComes(p, what, s, FALSE)
    BY <1>5, <2>2
  <2>3. CASE PacketComes(p, "question", None, FALSE)
    BY <1>5, <2>3
  <2>4. ASSUME NEW claims \in BOOLEAN, NEW s \in Services, PacketComes(p, "srv", s, claims)
        PROVE  ResponderInv'
    BY <1>5, <2>4
  <2>5. ASSUME NEW claims \in BOOLEAN, PacketComes(p, "address", None, claims)
        PROVE  ResponderInv'
    BY <1>5, <2>5
  <2>6. QED
    BY <2>1, <2>2, <2>3, <2>4, <2>5
<1>7. QED
  BY <1>4, <1>6

(* A request that is queued.                                               *)
LEMMA RequestTypes ==
    ASSUME QueueTypes, NEW e \in ActionsOf, actions' = Queued(actions, e), UNCHANGED <<hand, lock>>
    PROVE  QueueTypes'
BY QueuedTypes DEF QueueTypes

(* A request that is done at once.                                         *)
LEMMA AskedTypes ==
    ASSUME QueueTypes, NEW n, Asked(n), Held(n)
    PROVE  ResponderInv'
BY DEF QueueTypes, Asked, queueVars, ResponderInv

(* A service that is added is probed.                                      *)
LEMMA AddHolds ==
    ASSUME ResponderInv, NEW s \in Services, NEW named \in BOOLEAN, Add(s, named)
    PROVE  ResponderInv'
<1>1. PICK n, c : n = net /\ c = Created(n, s, named)
  OBVIOUS
<1>2. Held(n) /\ NetTypes(n) /\ QueueTypes
  BY <1>1 DEF ResponderInv, Held
<1>3. /\ c.services = n.services \cup {s} /\ c.own = IF named THEN n.own \cup {s} ELSE n.own
      /\ c.line = n.line /\ c.waiting = n.waiting /\ c.pcb = n.pcb /\ c.host = n.host
      /\ c.won = n.won /\ c.instance = n.instance
      /\ c = [pcb |-> c.pcb, line |-> c.line, waiting |-> c.waiting, host |-> c.host,
            instance |-> c.instance, services |-> c.services, own |-> c.own, won |-> c.won]
  BY <1>1, <1>2 DEF NetTypes, Created
<1>4. NetTypes(c) /\ Common(c) \subseteq Common(n) \cup {s}
  BY <1>2, <1>3 DEF NetTypes, Common
<1>5. PICK m : m = ProbeAll(c, {s}, FALSE, FALSE)
  OBVIOUS
<1>6. Held(m)
  BY <1>2, <1>3, <1>4, <1>5, ServiceProbed
<1>7. Asked(m)
  BY <1>1, <1>5 DEF Add
<1>8. QED
  BY <1>2, <1>6, <1>7, AskedTypes

(* So is one that gets a name of its own.                                  *)
LEMMA NameInstanceHolds ==
    ASSUME ResponderInv, NEW s \in Services, NameInstance(s)
    PROVE  ResponderInv'
<1>1. PICK n, c, some, d : /\ n = net /\ c = [n EXCEPT !.own = n.own \cup {s}] /\ some = {s}
                           /\ d = Renamed(c, some)
  OBVIOUS
<1>2. Held(n) /\ NetTypes(n) /\ QueueTypes
  BY <1>1 DEF ResponderInv, Held
<1>3. /\ c.services = n.services /\ c.own = n.own \cup {s}
      /\ c.line = n.line /\ c.waiting = n.waiting /\ c.pcb = n.pcb /\ c.host = n.host
      /\ c.won = n.won /\ c.instance = n.instance
      /\ c = [pcb |-> c.pcb, line |-> c.line, waiting |-> c.waiting, host |-> c.host,
            instance |-> c.instance, services |-> c.services, own |-> c.own, won |-> c.won]
  BY <1>1, <1>2 DEF NetTypes
<1>4. NetTypes(c)
  BY <1>2, <1>3 DEF NetTypes
<1>5. /\ NetTypes(d) /\ SameNames(c, d) /\ d.pcb = c.pcb
      /\ \A q \in Pcbs : d.won[q] = c.won[q] \ some
  <2>1. d = Renamed(c, some)
    BY <1>1
  <2>2. NetTypes(d) /\ SameNames(c, d) /\ d.pcb = c.pcb
    BY <1>4, <2>1, RenamedTypes
  <2>3. \A q \in Pcbs : d.won[q] = c.won[q] \ some
    BY <1>4, <2>1, RenamedTypes
  <2>4. QED
    BY <2>2, <2>3
<1>6. PICK m : m = ProbeAll(d, {s}, FALSE, FALSE)
  OBVIOUS
<1>7. Held(m)
  <2>1. Common(d) \subseteq Common(n) \cup {s} /\ d.host = n.host /\ d.pcb = n.pcb
    BY <1>3, <1>5 DEF Common, SameNames
  <2>2. \A q \in Pcbs : n.won[q] \subseteq d.won[q] \cup {s}
    <3>1. some = {s}
      BY <1>1
    <3>2. c.won = n.won
      BY <1>3
    <3>3. QED
      BY <1>5, <3>1, <3>2
  <2>3. QED
    BY <1>2, <1>5, <1>6, <2>1, <2>2, ServiceProbed
<1>8. Asked(m)
  BY <1>1, <1>6 DEF NameInstance
<1>9. QED
  BY <1>2, <1>7, <1>8, AskedTypes

(* What has changed about a service is announced, or probed with the rest. *)
LEMMA UpdatedHolds ==
    ASSUME ResponderInv, NEW s \in Services, NEW ip \in BOOLEAN, Updated(s, ip)
    PROVE  ResponderInv'
<1>1. PICK n, list : n = net /\ list = {s}
  OBVIOUS
<1>2. PICK front : Asked(AnnounceAll(n, list, ip, front))
  BY <1>1 DEF Updated
<1>3. PICK m : m = AnnounceAll(n, list, ip, front)
  OBVIOUS
<1>4. Held(n) /\ QueueTypes /\ list \in SUBSET Services /\ list # {}
  BY <1>1 DEF ResponderInv
<1>5. Held(m)
  BY <1>3, <1>4, AnnounceAllHolds
<1>6. QED
  BY <1>2, <1>3, <1>4, <1>5, AskedTypes

(* Every request of the program keeps the invariant.                       *)
LEMMA ProgramHolds ==
    ASSUME ResponderInv, Program
    PROVE  ResponderInv'
<1>1. QueueTypes /\ Held(net)
  BY DEF ResponderInv
<1>2. CASE SetInstance
  <2>1. PICK e : e = [type |-> "instance"]
    OBVIOUS
  <2>2. e \in ActionsOf /\ actions' = Queued(actions, e) /\ UNCHANGED <<hand, lock, net>>
    BY <1>2, <2>1 DEF SetInstance, ActionsOf
  <2>3. QueueTypes'
    BY <1>1, <2>2, RequestTypes
  <2>4. QED
    BY <1>1, <2>2, <2>3 DEF ResponderInv
<1>3. CASE RemoveAll
  <2>1. Held(net')
    BY <1>1, <1>3, RemoveAllHolds
  <2>2. QueueTypes'
    BY <1>1, <1>3 DEF RemoveAll, Asked, queueVars, QueueTypes
  <2>3. QED
    BY <2>1, <2>2 DEF ResponderInv
<1>4. ASSUME NEW c \in Callers, SetHostname(c)
      PROVE  ResponderInv'
  <2>1. PICK e : e = [type |-> "hostname"]
    OBVIOUS
  <2>2. e \in ActionsOf /\ actions' = Queued(actions, e) /\ UNCHANGED <<hand, lock, net>>
    BY <1>4, <2>1 DEF SetHostname, ActionsOf
  <2>3. QueueTypes'
    BY <1>1, <2>2, RequestTypes
  <2>4. QED
    BY <1>1, <2>2, <2>3 DEF ResponderInv
<1>5. ASSUME NEW s \in Services, RemoveService(s)
      PROVE  ResponderInv'
  <2>1. PICK n, m : n = net /\ m = RemoveScheduled(Unlisted(n, s), s)
    OBVIOUS
  <2>2. Held(m)
    BY <1>1, <2>1, RemovedHolds
  <2>3. Asked(m)
    BY <1>5, <2>1 DEF RemoveService
  <2>4. QED
    BY <1>1, <2>2, <2>3, AskedTypes
<1>6. ASSUME NEW s \in Services, SetPort(s) \/ SetTxt(s) \/ SetTxtItem(s) \/ RemoveTxtItem(s)
                                 \/ AddSubtype(s) \/ UpdateSubtypes(s)
      PROVE  ResponderInv'
  <2>1. Updated(s, TRUE) \/ Updated(s, FALSE)
    BY <1>6 DEF SetPort, SetTxt, SetTxtItem, RemoveTxtItem, AddSubtype, UpdateSubtypes
  <2>2. QED
    BY <2>1, UpdatedHolds
<1>7. ASSUME NEW s \in Services, RemoveSubtype(s)
      PROVE  ResponderInv'
  <2>1. PICK n : n = net
    OBVIOUS
  <2>2. Held(n) /\ Asked(n)
    BY <1>1, <1>7, <2>1 DEF RemoveSubtype
  <2>3. QED
    BY <1>1, <2>2, AskedTypes
<1>8. QED
  BY <1>2, <1>3, <1>4, <1>5, <1>6, <1>7, AddHolds, NameInstanceHolds DEF Program

-----------------------------------------------------------------------------
(* So does every action of the task: events, ...                           *)
LEMMA ExecuteEventHolds ==
    ASSUME ResponderInv, ExecuteEvent
    PROVE  ResponderInv'
<1>1. QueueTypes /\ Held(net) /\ Done /\ hand # None /\ hand.type = "event"
  BY DEF ResponderInv, ExecuteEvent, Runs
<1>2. QueueTypes'
  BY <1>1, DoneTypes
<1>3. PICK n, p, m : n = net /\ p = hand.pcb /\ m = net'
  OBVIOUS
<1>4. p \in Pcbs
  BY <1>1, <1>3, HandIs
<1>5. Held(m)
  <2>1. CASE m = Enabled(n, p)
    BY <1>1, <1>3, <1>4, <2>1, EnabledHolds
  <2>2. CASE m = Disabled(n, p)
    BY <1>1, <1>3, <1>4, <2>2, DisabledHolds
  <2>3. ASSUME NEW f, m = AnnounceOn(n, p, {}, TRUE, f)
        PROVE  Held(m)
    <3>1. PICK list : list = {}
      OBVIOUS
    <3>2. list \in SUBSET Services /\ m = AnnounceOn(n, p, list, TRUE, f)
      BY <2>3, <3>1
    <3>3. QED
      BY <1>1, <1>3, <1>4, <3>2, AnnounceHolds
  <2>4. \/ m = Enabled(n, p) \/ m = Disabled(n, p)
        \/ \E f : m = AnnounceOn(n, p, {}, TRUE, f)
    BY <1>3 DEF ExecuteEvent
  <2>5. QED
    BY <2>1, <2>2, <2>3, <2>4
<1>6. QED
  BY <1>2, <1>3, <1>5 DEF ResponderInv

(* ... names, ...                                                          *)
LEMMA ExecuteNameHolds ==
    ASSUME ResponderInv, ExecuteHostname \/ ExecuteInstance
    PROVE  ResponderInv'
<1>1. QueueTypes /\ Held(net) /\ Done
  BY DEF ResponderInv, ExecuteHostname, ExecuteInstance
<1>2. QueueTypes'
  BY <1>1, DoneTypes
<1>3. PICK n, m : n = net /\ m = net'
  OBVIOUS
<1>4. CASE ExecuteHostname
  <2>1. PICK c, some, d : /\ c = [n EXCEPT !.host = TRUE] /\ some = n.services
                          /\ d = Renamed(c, some)
    OBVIOUS
  <2>2. NetTypes(n)
    BY <1>1, <1>3 DEF Held
  <2>3. NetTypes(c)
    BY <2>1, <2>2 DEF NetTypes
  <2>4. NetTypes(d)
    BY <2>1, <2>3, RenamedTypes
  <2>5. m = RestartAll(d)
    BY <1>3, <1>4, <2>1 DEF ExecuteHostname
  <2>6. Held(m)
    BY <2>4, <2>5, RestartAllHolds
  <2>7. QED
    BY <1>2, <1>3, <2>6 DEF ResponderInv
<1>5. CASE ExecuteInstance
  <2>1. m = NewInstance(n)
    BY <1>3, <1>5 DEF ExecuteInstance
  <2>2. Held(m)
    BY <1>1, <1>3, <2>1, NewInstanceHolds
  <2>3. QED
    BY <1>2, <1>3, <2>2 DEF ResponderInv
<1>6. QED
  BY <1>4, <1>5

(* ... questions, ...                                                      *)
LEMMA AsksHold ==
    ASSUME NEW n, Held(n), NEW p \in Pcbs, NEW s \in Services \cup {None}, NEW m, m \in Asks(n, p, s)
    PROVE  Held(m)
<1>1. CASE m = n
  BY <1>1
<1>2. CASE n.pcb[p].state \in AfterProbing /\ m = SendLater(n, Reply(n, p, s))
  <2>1. PICK k, blank : k = Reply(n, p, s) /\ blank = Blank(n, p)
    OBVIOUS
  <2>2. NetTypes(n)
    BY DEF Held
  <2>3. blank \in TxPacket /\ blank.pcb = p /\ blank.servers = {}
    BY <2>1, <2>2, BlankIsPacket
  <2>4. PICK said, ip, addrs : said = {s} \ {None} /\ ip = (s # None) /\ addrs = (s = None)
    OBVIOUS
  <2>5. said \in SUBSET Services /\ ip \in BOOLEAN /\ addrs \in BOOLEAN /\ (ip \/ addrs)
    BY <2>4
  <2>6. k = [blank EXCEPT !.answers = said, !.ip = ip, !.addrs = addrs]
    BY <2>1, <2>4 DEF Reply
  <2>7. k \in TxPacket /\ k.pcb = p /\ k.servers = {}
    BY <2>3, <2>5, <2>6 DEF TxPacket
  <2>8. k.ip = ip /\ k.addrs = addrs
    BY <2>3, <2>6 DEF TxPacket
  <2>9. ~IsEmpty(k)
    BY <2>5, <2>8 DEF IsEmpty
  <2>10. n.pcb[k.pcb].state \notin ProbeStates
    BY <1>2, <2>7 DEF ProbeStates, AfterProbing, AnnounceStates
  <2>11. QED
    BY <1>2, <2>1, <2>7, <2>9, <2>10, MoreToSay
<1>3. QED
  BY <1>1, <1>2 DEF Asks

(* ... conflicts over names, ...                                           *)
LEMMA OnSrvHolds ==
    ASSUME NEW n, Held(n), NEW p \in Pcbs, NEW s \in Services, NEW claims \in BOOLEAN,
           NEW verdict, NEW m, m = OnSrv(n, p, s, claims, verdict)
    PROVE  Held(m)
<1>1. NetTypes(n)
  BY DEF Held
<1>2. CASE m = n
  BY <1>2
<1>3. CASE m = InitProbe(n, p, {s}, FALSE)
  <2>1. PICK list : list = {s}
    OBVIOUS
  <2>2. list \in SUBSET Services /\ list # {} /\ m = InitProbe(n, p, list, FALSE)
    BY <1>3, <2>1
  <2>3. QED
    BY <2>2, ReprobeHolds
<1>4. CASE m = ProbeAll(Renamed(n, {s}), {s}, FALSE, FALSE)
  <2>1. PICK some : some = {s}
    OBVIOUS
  <2>2. PICK d : d = Renamed(n, some)
    OBVIOUS
  <2>3. NetTypes(d) /\ SameNames(n, d) /\ d.pcb = n.pcb
    BY <1>1, <2>2, RenamedTypes
  <2>4. \A q \in Pcbs : d.won[q] = n.won[q] \ some
    BY <1>1, <2>2, RenamedTypes
  <2>5. m = ProbeAll(d, {s}, FALSE, FALSE)
    BY <1>4, <2>1, <2>2
  <2>6. Common(d) \subseteq Common(n) \cup {s} /\ d.host = n.host
    BY <2>3 DEF Common, SameNames
  <2>7. \A q \in Pcbs : n.won[q] \subseteq d.won[q] \cup {s}
    BY <2>1, <2>4
  <2>8. QED
    BY <2>3, <2>5, <2>6, <2>7, ServiceProbed
<1>5. CASE m = NewInstance(n)
  BY <1>5, NewInstanceHolds
<1>6. CASE m = NewHostname(n)
  BY <1>1, <1>6, NewHostnameHolds
<1>7. QED
  BY <1>2, <1>3, <1>4, <1>5, <1>6 DEF OnSrv

(* ... texts that differ, ...                                              *)
LEMMA OnTxtHolds ==
    ASSUME NEW n, Held(n), NEW p \in Pcbs, NEW s \in Services, NEW verdict,
           NEW m, m = OnTxt(n, p, s, verdict)
    PROVE  Held(m)
<1>1. PICK list : list = {s}
  OBVIOUS
<1>2. list \in SUBSET Services /\ (m = n \/ m = InitProbe(n, p, list, TRUE))
  BY <1>1 DEF OnTxt
<1>3. QED
  BY <1>2, ReprobeHolds

(* ... and conflicts over addresses, ...                                   *)
LEMMA OnAddressHolds ==
    ASSUME NEW n, Held(n), NEW p \in Pcbs, NEW claims \in BOOLEAN, NEW verdict,
           NEW m, m = OnAddress(n, p, claims, verdict)
    PROVE  Held(m)
<1>1. PICK list : list = {}
  OBVIOUS
<1>2. list \in SUBSET Services /\ (m = n \/ m = InitProbe(n, p, list, TRUE) \/ m = NewHostname(n))
  BY <1>1 DEF OnAddress
<1>3. NetTypes(n)
  BY DEF Held
<1>4. QED
  BY <1>2, <1>3, ReprobeHolds, NewHostnameHolds

(* ... hence all that is received, ...                                     *)
LEMMA ExecuteRxHolds ==
    ASSUME ResponderInv, ExecuteRx
    PROVE  ResponderInv'
<1>1. QueueTypes /\ Held(net) /\ Done /\ hand # None /\ hand.type = "rx"
  BY DEF ResponderInv, ExecuteRx, Runs
<1>2. QueueTypes'
  BY <1>1, DoneTypes
<1>3. PICK n, p, m, s, claims : /\ n = net /\ p = hand.pcb /\ m = net' /\ s = hand.of
                                /\ claims = hand.claims
  OBVIOUS
<1>4. /\ p \in Pcbs /\ s \in Services \cup {None} /\ claims \in BOOLEAN
      /\ hand.what \in {"srv", "txt"} => s \in Services
  BY <1>1, <1>3, HandIs
<1>5. Held(m)
  <2>1. CASE m \in Asks(n, p, s)
    BY <1>1, <1>3, <1>4, <2>1, AsksHold
  <2>2. ASSUME NEW verdict \in Verdicts, hand.what = "srv", m = OnSrv(n, p, s, claims, verdict)
        PROVE  Held(m)
    BY <1>1, <1>3, <1>4, <2>2, OnSrvHolds
  <2>3. ASSUME NEW verdict \in Verdicts, hand.what = "txt", m = OnTxt(n, p, s, verdict)
        PROVE  Held(m)
    BY <1>1, <1>3, <1>4, <2>3, OnTxtHolds
  <2>4. ASSUME NEW verdict \in Verdicts, m = OnAddress(n, p, claims, verdict)
        PROVE  Held(m)
    BY <1>1, <1>3, <1>4, <2>4, OnAddressHolds
  <2>5. QED
    BY <1>3, <2>1, <2>2, <2>3, <2>4 DEF ExecuteRx
<1>6. QED
  BY <1>2, <1>3, <1>5 DEF ResponderInv

(* ... and packets that are sent.                                          *)
LEMMA ExecuteTxHolds ==
    ASSUME ResponderInv, ExecuteTx
    PROVE  ResponderInv'
<1>1. QueueTypes /\ Held(net) /\ Done
  BY DEF ResponderInv, ExecuteTx
<1>2. QueueTypes'
  BY <1>1, DoneTypes
<1>3. PICK n, m : n = net /\ m = net'
  OBVIOUS
<1>4. CASE m = n
  BY <1>1, <1>2, <1>3, <1>4 DEF ResponderInv
<1>5. CASE m # n
  <2>1. PICK front, t, k : /\ front = Head(n.line) /\ t = [n EXCEPT !.line = Tail(n.line)]
                           /\ k = [front EXCEPT !.queued = FALSE]
    OBVIOUS
  <2>2. n.line # <<>> /\ m = Handled(t, k)
    BY <1>3, <1>5, <2>1 DEF ExecuteTx
  <2>3. Held(m)
    BY <1>1, <1>3, <2>1, <2>2, HandledHolds
  <2>4. QED
    BY <1>2, <1>3, <2>3 DEF ResponderInv
<1>6. QED
  BY <1>4, <1>5

(* The timer keeps the invariant.                                          *)
LEMMA TimerHolds ==
    ASSUME ResponderInv, TimerQueues
    PROVE  ResponderInv'
<1>1. QueueTypes /\ Held(net) /\ NetTypes(net)
  BY DEF ResponderInv, Held
<1>2. net.line \in Seq(TxPacket) /\ Len(net.line) \in Nat /\ DOMAIN net.line = 1..Len(net.line)
      /\ net.waiting \subseteq TxPacket /\ lock \in Nat
  BY <1>1 DEF NetTypes, QueueTypes
<1>3. ASSUME NEW line, NEW i \in Nat, Examine(line, i), line[i] \in TxPacket,
             \/ line = net.line /\ i \in DOMAIN net.line
             \/ \E w \in net.waiting : line = Append(net.line, w) /\ i = Len(net.line) + 1
      PROVE  ResponderInv'
  <2>1. PICK n, m, pushed : n = net /\ m = net' /\ pushed = HasRoom
    OBVIOUS
  <2>2. pushed \in BOOLEAN
    BY <2>1 DEF HasRoom
  <2>3. m = [n EXCEPT !.line = [line EXCEPT ![i].queued = pushed], !.waiting = @ \ {line[i]}]
    BY <1>3, <2>1 DEF Examine
  <2>4. Held(m)
    <3>1. Held(n)
      BY <1>1, <2>1
    <3>2. \/ line = n.line /\ i \in DOMAIN n.line
          \/ \E w \in n.waiting : line = Append(n.line, w) /\ i = Len(n.line) + 1
      BY <1>3, <2>1
    <3>3. QED
      BY <2>2, <2>3, <3>1, <3>2, ExamineHolds
  <2>5. PICK e : e = TxAction(line[i].at)
    OBVIOUS
  <2>6. e \in ActionsOf
    BY <1>3, <2>5 DEF TxAction, ActionsOf, TxPacket
  <2>7. actions' = Queued(actions, e) /\ lock' \in Nat /\ hand' = hand
    BY <1>3, <2>5 DEF Examine
  <2>8. QueueTypes'
    BY <1>1, <2>6, <2>7, QueuedTypes DEF QueueTypes
  <2>9. QED
    BY <2>1, <2>4, <2>8 DEF ResponderInv
<1>4. ASSUME NEW i \in DOMAIN net.line, Examine(net.line, i)
      PROVE  ResponderInv'
  <2>1. net.line[i] \in TxPacket /\ i \in Nat
    BY <1>2
  <2>2. QED
    BY <1>3, <1>4, <2>1
<1>5. ASSUME NEW w \in net.waiting, Examine(Append(net.line, w), Len(net.line) + 1)
      PROVE  ResponderInv'
  <2>1. PICK line, more, i : line = net.line /\ more = Append(line, w) /\ i = Len(line) + 1
    OBVIOUS
  <2>2. w \in TxPacket /\ line \in Seq(TxPacket) /\ i \in Nat
    BY <1>2, <2>1
  <2>3. more[i] = w
    BY <2>1, <2>2, AppendProperties
  <2>4. Examine(more, i)
    BY <1>5, <2>1
  <2>5. QED
    BY <1>3, <2>1, <2>2, <2>3, <2>4
<1>6. CASE lock = 0 /\ Unqueued # {}
           /\ Examine(net.line, CHOOSE i \in Unqueued : \A j \in Unqueued : i <= j)
  <2>1. PICK i : i = CHOOSE x \in Unqueued : \A j \in Unqueued : x <= j
    OBVIOUS
  <2>2. Unqueued \subseteq Nat /\ Unqueued # {} /\ Unqueued \subseteq DOMAIN net.line
    BY <1>2, <1>6 DEF Unqueued
  <2>3. \E x \in Unqueued : \A j \in Unqueued : x <= j
    BY <2>2, LeastNumber
  <2>4. i \in Unqueued
    BY <2>1, <2>3
  <2>5. QED
    BY <1>4, <1>6, <2>1, <2>2, <2>4
<1>7. CASE lock # 0 /\ lock < Len(net.line) /\ Examine(net.line, lock + 1)
  <2>1. lock + 1 \in DOMAIN net.line
    BY <1>2, <1>7
  <2>2. QED
    BY <1>4, <1>7, <2>1
<1>8. CASE \E w \in net.waiting : Examine(Append(net.line, w), Len(net.line) + 1)
  BY <1>5, <1>8
<1>9. QED
  BY <1>6, <1>7, <1>8 DEF TimerQueues

(* It holds at the start, with names or without, ...                       *)
LEMMA InitHolds ==
    ASSUME ResponderInit
    PROVE  ResponderInv
<1>1. QueueTypes
  BY DEF ResponderInit, QueueInit, QueueTypes
<1>2. PcbOff \in Pcb /\ ~PcbOff.ready
  BY DEF PcbOff, Pcb, States
<1>3. Held(NetInit)
  <2>1. PICK n : n = NetInit
    OBVIOUS
  <2>2. /\ n.pcb = [p \in Pcbs |-> PcbOff] /\ n.line = <<>> /\ n.waiting = {} /\ n.host = FALSE
        /\ n.instance = FALSE /\ n.services = {} /\ n.own = {} /\ n.won = [p \in Pcbs |-> {}]
        /\ n = [pcb |-> n.pcb, line |-> n.line, waiting |-> n.waiting, host |-> n.host,
            instance |-> n.instance, services |-> n.services, own |-> n.own, won |-> n.won]
    BY <2>1 DEF NetInit
  <2>3. IsFiniteSet(n.waiting)
    BY <2>2, FS_EmptySet
  <2>4. NetTypes(n)
    <3>1. n.pcb \in [Pcbs -> Pcb] /\ n.won \in [Pcbs -> SUBSET Services]
      BY <1>2, <2>2
    <3>2. n.line \in Seq(TxPacket) /\ n.waiting \subseteq TxPacket
      BY <2>2
    <3>3. n.host \in BOOLEAN /\ n.instance \in BOOLEAN
          /\ n.services \in SUBSET Services /\ n.own \in SUBSET Services
      BY <2>2
    <3>4. n = [pcb |-> n.pcb, line |-> n.line, waiting |-> n.waiting, host |-> n.host,
            instance |-> n.instance, services |-> n.services, own |-> n.own, won |-> n.won]
      BY <2>2
    <3>5. QED
      BY <2>3, <3>1, <3>2, <3>3, <3>4 DEF NetTypes
  <2>5. \A p \in Pcbs : PcbInv(n, p)
    BY <1>2, <2>2 DEF PcbInv
  <2>6. QED
    BY <2>1, <2>4, <2>5 DEF Held
<1>4. Held(Deployed)
  <2>1. PICK n, m : n = NetInit /\ m = Deployed
    OBVIOUS
  <2>2. m = [n EXCEPT !.host = TRUE, !.instance = TRUE, !.services = AtStart]
    BY <2>1 DEF Deployed
  <2>3. NetTypes(n) /\ n.pcb = [p \in Pcbs |-> PcbOff]
    BY <1>3, <2>1 DEF Held, NetInit
  <2>4. NetTypes(m) /\ m.pcb = n.pcb
    BY <2>2, <2>3, ResponderAssumption DEF NetTypes
  <2>5. \A p \in Pcbs : PcbInv(m, p)
    BY <1>2, <2>3, <2>4 DEF PcbInv
  <2>6. QED
    BY <2>1, <2>4, <2>5 DEF Held
<1>5. QED
  BY <1>1, <1>3, <1>4 DEF ResponderInit, ResponderInv

(* ... every step keeps it, ...                                            *)
LEMMA InvKept ==
    ASSUME ResponderInv, [ResponderNext]_<<queueVars, responderVars>>
    PROVE  ResponderInv'
<1>1. QueueTypes /\ Held(net)
  BY DEF ResponderInv
<1>2. CASE UNCHANGED <<queueVars, responderVars>>
  BY <1>1, <1>2 DEF queueVars, responderVars, ResponderInv, QueueTypes
<1>3. CASE Execute
  BY <1>3, ExecuteEventHolds, ExecuteNameHolds, ExecuteRxHolds, ExecuteTxHolds DEF Execute
<1>4. CASE TimerEnds
  BY <1>1, <1>4 DEF TimerEnds, responderVars, ResponderInv, QueueTypes
<1>5. CASE Receive /\ UNCHANGED responderVars
  <2>1. QueueTypes'
    BY <1>1, <1>5, ReceiveTypes
  <2>2. QED
    BY <1>1, <1>5, <2>1 DEF ResponderInv, responderVars
<1>6. CASE \E c \in Callers : CallerReturns(c)
  BY <1>1, <1>6 DEF CallerReturns, queueVars, ResponderInv, QueueTypes
<1>7. QED
  BY <1>2, <1>3, <1>4, <1>5, <1>6, ProgramHolds, NetworkHolds, TimerHolds DEF ResponderNext

(* ... and so it always holds.                                             *)
LEMMA InvAlways == ResponderSpec => []ResponderInv
<1>1. ResponderInit => ResponderInv
  BY InitHolds
<1>2. ResponderInv /\ [ResponderNext]_<<queueVars, responderVars>> => ResponderInv'
  BY InvKept
<1>3. QED
  BY <1>1, <1>2, PTL DEF ResponderSpec

(* Whatever is restarted, conflicts, is removed or announced: an interface *)
(* that probes or announces has the packet that moves it on, as long as no *)
(* two services are of one type (mdns_pcb.c, mdns_send.c).                 *)
THEOREM ProbesAreNeverLost == TypesDiffer => (ResponderSpec => []BusyHasItsPacket)
<1> SUFFICES ASSUME TypesDiffer
             PROVE  ResponderSpec => []BusyHasItsPacket
  OBVIOUS
<1>1. ResponderInv => BusyHasItsPacket
  <2> SUFFICES ASSUME ResponderInv, NEW p \in Pcbs, net.pcb[p].ready
               PROVE  /\ net.pcb[p].state \in ProbeStates =>
                           \E k \in PacketsOf(p) :
                              /\ PacketsOf(p) = {k}
                              /\ k.asks = net.pcb[p].probing /\ k.servers = net.pcb[p].probing
                              /\ k.ip = net.pcb[p].ip
                      /\ net.pcb[p].state \in AnnounceStates => PacketsOf(p) # {}
    BY DEF BusyHasItsPacket
  <2>1. PcbInv(net, p)
    BY DEF ResponderInv, Held
  <2>2. ASSUME net.pcb[p].state \in ProbeStates
        PROVE  \E k \in PacketsOf(p) :
                  /\ PacketsOf(p) = {k}
                  /\ k.asks = net.pcb[p].probing /\ k.servers = net.pcb[p].probing
                  /\ k.ip = net.pcb[p].ip
    <3>1. PICK k \in Scheduled(net) : Alone(net, p, k) /\ ProbeOf(net, p, k)
      BY <2>1, <2>2 DEF PcbInv
    <3>2. \A y \in Scheduled(net) : y.pcb = p => y = k
      BY <3>1, AloneIsAll
    <3>3. k \in PacketsOf(p) /\ PacketsOf(p) = {k}
      BY <3>1, <3>2 DEF PacketsOf, Alone
    <3>4. QED
      BY <3>1, <3>3 DEF ProbeOf
  <2>3. net.pcb[p].state \in AnnounceStates => PacketsOf(p) # {}
    BY <2>1 DEF PcbInv, PacketsOf
  <2>4. QED
    BY <2>2, <2>3
<1>2. QED
  BY <1>1, InvAlways, PTL

(* An interface answers for a name of the device only when it has probed   *)
(* that name there to the end (mdns_priv_pcb_is_after_probing).            *)
THEOREM OnlyWonNamesAreAnswered == ResponderSpec => []OnlyProbedIsAnswered
<1>1. ResponderInv => OnlyProbedIsAnswered
  BY DEF ResponderInv, Held, PcbInv, OnlyProbedIsAnswered, Common
<1>2. QED
  BY <1>1, InvAlways, PTL
=============================================================================
