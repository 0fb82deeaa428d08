----------------------------- MODULE ServerProofs -----------------------------
(***************************************************************************)
(* Proofs about the firmware of the environment web server: the event bus  *)
(* and its patterns, its LED and button modules, the history of the sensor *)
(* and the registry of WebSocket clients. None of them reads the state of  *)
(* another, so that each has an inductive invariant of its own.            *)
(***************************************************************************)
EXTENDS EventBus, BusPattern, BusLed, BusButton, Dht11, WsClients,
        FiniteSetTheorems, SequenceTheorems, Induction, TLAPS

(***************************************************************************)
(* The event bus. Whoever uses a node has retained it, so that the count   *)
(* of its references covers its users whatever was removed meanwhile; the  *)
(* proof counts the users and not the calls. The types come first, for     *)
(* every step at once, then the invariant for one kind of step after the   *)
(* other.                                                                  *)
(***************************************************************************)

Messages ==
    {Event, Trigger} \cup [type : {"req"}, from : Clients \cup {NoRequest.from}, nr : 0..MaxPosts]

(* The types, and what a message is.                                        *)
BusTypes == EventBusTypeOK /\ queue \in Seq(Messages)

(* Nodes are allocated in the order of their numbers.                       *)
UpTo(n) == \A m \in Ids : (state[m] # "unborn") <=> (m <= n)
BornInOrder == \E n \in 0..MaxNodes : UpTo(n)

(* A node that is not allocated has neither a timer nor a history.          *)
UnbornAreBlank ==
    \A n \in Ids : state[n] = "unborn" => when[n] = "never" /\ runs[n] = 0

(* There is work, a call or a message in hand only where the task is in the *)
(* middle of it.                                                            *)
OneRound ==
    /\ at \notin {"events", "services"} => todo = {}
    /\ running => todo # {}
    /\ held # None => running \/ at = "request"

(* The work of a round is of the kind the round is for.                     *)
WorkIsOfItsKind == \A n \in todo :
    kind[n] \in IF at = "events" THEN {"sub", "route"} ELSE Services

(* Whatever is asked or looked up is a module.                              *)
IsModule(n) == n # None /\ (n \in Ids => kind[n] = "module")

Looks ==
    /\ \A c \in Clients : client[c].at = "looking" => IsModule(client[c].node)
    /\ held # None => IsModule(held)

(* Whoever holds a node has retained it: a callback that is or will be run, *)
(* the module of the request in hand, and the clients that have just looked *)
(* it up.                                                                   *)
RefsCoverHolders == \A n \in Ids : Cardinality(Holders(n)) <= refs[n]

(* A one-shot timer that a round has retained is no longer set, and one     *)
(* that ran is never set again; while it is called it is still of the       *)
(* round.                                                                   *)
OnceIsOver ==
    \A n \in Ids : kind[n] = "once" =>
        /\ n \in todo => when[n] = "never"
        /\ runs[n] > 0 =>
              /\ when[n] = "never"
              /\ n \in todo => running /\ n = Current

OnceAtMost == \A n \in Ids : kind[n] = "once" => runs[n] <= 1

(* A one-shot that was collected and not called is retained, and the one    *)
(* that is being called has been counted.                                   *)
OnceIsKept ==
    \A n \in Ids : kind[n] = "once" /\ state[n] = "live" /\ when[n] = "never" /\ runs[n] = 0
                      => refs[n] > 0

RunIsCounted == running /\ kind[Current] = "once" => runs[Current] = 1

OnceStory == OnceIsOver /\ OnceAtMost /\ OnceIsKept /\ RunIsCounted

BusInv ==
    /\ BusTypes /\ BornInOrder /\ UnbornAreBlank /\ OneRound /\ WorkIsOfItsKind /\ Looks
    /\ RefsCoverHolders /\ HeldIsListed
    /\ OnceStory

-----------------------------------------------------------------------------
(* What is called next is of the work left.                                 *)
LEMMA CurrentIsWork ==
    ASSUME BusTypes, todo # {}
    PROVE  Current \in todo
<1>1. MaxNodes \in Nat /\ todo \subseteq 1..MaxNodes
  BY BusAssumption DEF BusTypes, EventBusTypeOK, Ids
<1>2. \A S : S \subseteq todo /\ S # {} => Max(S) \in S
  BY <1>1, GreatestIsMember
<1> DEFINE subs == {n \in todo : kind[n] = "sub"}
<1>3. subs \subseteq todo
  OBVIOUS
<1>4. Current = Max(IF subs # {} THEN subs ELSE todo)
  BY DEF Current
<1>5. QED
  BY <1>2, <1>3, <1>4

LEMMA NextServiceIsNode ==
    ASSUME BusTypes, NEW n
    PROVE  NextService(n) \in NodeIds
<1>1. MaxNodes \in Nat /\ ServicesBelow(n) \subseteq 1..MaxNodes
  BY BusAssumption DEF ServicesBelow, Ids
<1>2. ServicesBelow(n) # {} => Max(ServicesBelow(n)) \in ServicesBelow(n)
  BY <1>1, GreatestIsMember
<1>3. QED
  BY <1>1, <1>2 DEF NextService, NodeIds, Ids

LEMMA EnqueuedFits ==
    ASSUME BusTypes, NEW m \in Messages
    PROVE  Enqueued(m) \in Seq(Messages) /\ Len(Enqueued(m)) <= QueueSize
BY BusAssumption DEF BusTypes, EventBusTypeOK, Enqueued, Full

LEMMA TypesStart == EventBusInit => BusTypes
<1> SUFFICES ASSUME EventBusInit
             PROVE  BusTypes
  OBVIOUS
<1>1. Idle \in [at : {"idle", "looking", "waiting", "answered"}, node : NodeIds, nr : 0..MaxPosts]
  BY BusAssumption DEF Idle, NodeIds, None
<1>2. kind \in [Ids -> Kinds]
  BY DEF EventBusInit, Kinds
<1>3. queue \in Seq(Messages) /\ Len(queue) <= QueueSize
  BY BusAssumption DEF EventBusInit
<1>4. client \in [Clients -> [at : {"idle", "looking", "waiting", "answered"},
                               node : NodeIds, nr : 0..MaxPosts]]
  BY <1>1 DEF EventBusInit
<1>5. posts \in 0..MaxPosts /\ shortages \in 0..MaxShortages
  BY BusAssumption DEF EventBusInit
<1>6. runs \in [Ids -> 0..2] /\ refs \in [Ids -> Nat]
  BY DEF EventBusInit
<1>7. /\ state \in [Ids -> {"unborn", "live", "deleted", "freed"}]
      /\ when \in [Ids -> {"later", "due", "never"}]
  BY DEF EventBusInit
<1>8. QED
  BY <1>2, <1>3, <1>4, <1>5, <1>6, <1>7 DEF EventBusInit, BusTypes, EventBusTypeOK, NodeIds

LEMMA AddTypes ==
    ASSUME BusTypes, NEW k \in Kinds, Add(k)
    PROVE  BusTypes'
<1>1. Trigger \in Messages
  BY DEF Messages
<1>2. queue' \in Seq(Messages) /\ Len(queue') <= QueueSize
  BY <1>1, EnqueuedFits DEF Add, BusTypes, EventBusTypeOK
<1>3. kind' \in [Ids -> Kinds] /\ state' \in [Ids -> {"unborn", "live", "deleted", "freed"}]
      /\ when' \in [Ids -> {"later", "due", "never"}]
  BY DEF Add, BusTypes, EventBusTypeOK
<1>4. QED
  BY <1>2, <1>3 DEF Add, BusTypes, EventBusTypeOK, taskVars, NodeIds, Messages

LEMMA ReleaseTypes ==
    ASSUME BusTypes, NEW n, Release(n)
    PROVE  /\ refs' \in [Ids -> Nat]
           /\ state' \in [Ids -> {"unborn", "live", "deleted", "freed"}]
<1>1. \A i \in Nat : (IF i > 0 THEN i - 1 ELSE i) \in Nat
  OBVIOUS
<1>2. refs \in [Ids -> Nat]
  BY DEF BusTypes, EventBusTypeOK
<1>3. \A x \in Nat : [refs EXCEPT ![n] = x] \in [Ids -> Nat]
  BY <1>2
<1>4. CASE n \in Ids
  BY <1>1, <1>2, <1>3, <1>4 DEF BusTypes, EventBusTypeOK, Release
<1>5. CASE n \notin Ids
  BY <1>2, <1>5 DEF BusTypes, EventBusTypeOK, Release
<1>6. QED
  BY <1>4, <1>5

LEMMA TaskTypes ==
    ASSUME BusTypes, BusTask
    PROVE  BusTypes'
<1> USE DEF BusTypes, EventBusTypeOK, nodeVars, taskVars
<1>1. CASE BeginScan
  BY <1>1, NextServiceIsNode DEF BeginScan, NodeIds, Messages
<1>2. CASE ScanNext
  BY <1>2, NextServiceIsNode DEF ScanNext, NodeIds, Messages
<1>3. CASE Receive
  <2>1. queue' \in Seq(Messages) /\ Len(queue') <= QueueSize
    BY <1>3, BusAssumption DEF Receive
  <2>2. at' \in {"collect", "request", "drain"}
    BY <1>3 DEF Receive
  <2>3. QED
    BY <1>3, <2>1, <2>2 DEF Receive
<1>4. CASE QueueEmpty
  BY <1>4 DEF QueueEmpty, NodeIds
<1>5. CASE CollectEvent
  BY <1>5 DEF CollectEvent, Retained, Matching
<1>6. CASE ShortOfMemory
  <2>1. \A S : Retained(S) \in [Ids -> Nat]
    BY DEF Retained
  <2>2. refs' \in [Ids -> Nat] /\ at' = "drain" /\ shortages' \in 0..MaxShortages
    BY <1>6, <2>1, BusAssumption DEF ShortOfMemory
  <2>3. QED
    BY <1>6, <2>2 DEF ShortOfMemory
<1>7. CASE CollectServices \/ NoMemoryForServices
  <2>1. PICK S \in SUBSET Due : Collected(S)
    BY <1>7 DEF CollectServices, NoMemoryForServices
  <2>2. /\ refs' \in [Ids -> Nat] /\ when' \in [Ids -> {"later", "due", "never"}]
        /\ state' \in [Ids -> {"unborn", "live", "deleted", "freed"}]
    BY <2>1 DEF Collected, Retained
  <2>3. shortages' \in 0..MaxShortages
    BY <1>7, BusAssumption DEF CollectServices, NoMemoryForServices
  <2>4. QED
    BY <1>7, <2>2, <2>3 DEF CollectServices, NoMemoryForServices, Due
<1>8. CASE CallNext
  BY <1>8, CurrentIsWork DEF CallNext
<1>9. CASE CallModule
  BY <1>9 DEF CallModule, ModuleNamed, NodeIds
<1>10. CASE ModuleReturns
  BY <1>10, ReleaseTypes DEF ModuleReturns, NodeIds
<1>11. CASE NoModule
  BY <1>11 DEF NoModule
<1>12. CASE HandlerReturns
  BY <1>12, ReleaseTypes DEF HandlerReturns
<1>13. CASE AllCalled
  BY <1>13 DEF AllCalled
<1>14. CASE Reply
  BY <1>14 DEF Reply, Awaited
<1>15. QED
  BY <1>1, <1>2, <1>3, <1>4, <1>5, <1>6, <1>7, <1>8, <1>9, <1>10, <1>11, <1>12, <1>13, <1>14
     DEF BusTask

LEMMA ClientTypes ==
    ASSUME BusTypes, NEW c \in Clients, Client(c)
    PROVE  BusTypes'
<1> USE DEF BusTypes, EventBusTypeOK, nodeVars, taskVars
<1>1. CASE LookUp(c)
  <2>1. PICK n \in Ids : /\ client' = [client EXCEPT ![c].at = "looking", ![c].node = n]
                         /\ refs' = [refs EXCEPT ![n] = @ + 1]
    BY <1>1 DEF LookUp, ModuleNamed
  <2>2. client' = [client EXCEPT ![c] = [@ EXCEPT !.at = "looking", !.node = n]]
    BY <2>1
  <2>3. client' \in [Clients -> [at : {"idle", "looking", "waiting", "answered"},
                                 node : NodeIds, nr : 0..MaxPosts]]
    BY <2>2 DEF NodeIds
  <2>4. refs' \in [Ids -> Nat]
    BY <2>1
  <2>5. QED
    BY <1>1, <2>3, <2>4 DEF LookUp
<1>2. CASE LookedUp(c)
  <2>1. client' \in [Clients -> [at : {"idle", "looking", "waiting", "answered"},
                                 node : NodeIds, nr : 0..MaxPosts]]
    <3>1. client' = [client EXCEPT ![c] = [@ EXCEPT !.at = "idle", !.node = None]]
      BY <1>2 DEF LookedUp
    <3>2. None \in NodeIds
      BY DEF NodeIds
    <3>3. [client[c] EXCEPT !.at = "idle", !.node = None]
            \in [at : {"idle", "looking", "waiting", "answered"}, node : NodeIds, nr : 0..MaxPosts]
      BY <3>2
    <3>4. QED
      BY <3>1, <3>3
  <2>2. QED
    BY <1>2, <2>1, ReleaseTypes DEF LookedUp
<1>3. CASE PostRequest(c)
  <2>1. Request(c, posts + 1) \in Messages
    BY <1>3, BusAssumption DEF PostRequest, Messages, Request
  <2>2. queue' \in Seq(Messages) /\ Len(queue') <= QueueSize
    BY <1>3, <2>1, BusAssumption DEF PostRequest, Full
  <2>3. posts + 1 \in 0..MaxPosts
    BY <1>3, BusAssumption DEF PostRequest
  <2>4. QED
    BY <1>3, <2>2, <2>3 DEF PostRequest
<1>4. CASE RequestTimesOut(c) \/ RequestReturns(c)
  <2>1. Idle \in [at : {"idle", "looking", "waiting", "answered"}, node : NodeIds, nr : 0..MaxPosts]
    BY BusAssumption DEF Idle, NodeIds, None
  <2>2. QED
    BY <1>4, <2>1 DEF RequestTimesOut, RequestReturns
<1>5. QED
  BY <1>1, <1>2, <1>3, <1>4 DEF Client

LEMMA PostTypes ==
    ASSUME BusTypes, Emit \/ PostOrder
    PROVE  BusTypes'
<1>1. Event \in Messages /\ Request(NoRequest.from, NoRequest.nr) \in Messages
  BY BusAssumption DEF Messages, Request, NoRequest
<1>2. queue' \in Seq(Messages) /\ Len(queue') <= QueueSize
  BY <1>1, EnqueuedFits DEF Emit, PostOrder
<1>3. posts' \in 0..MaxPosts
  BY BusAssumption DEF Emit, PostOrder, BusTypes, EventBusTypeOK
<1>4. QED
  BY <1>2, <1>3 DEF Emit, PostOrder, BusTypes, EventBusTypeOK, nodeVars, taskVars

LEMMA NodeTypes ==
    ASSUME BusTypes, (\E S : RemoveAll(S)) \/ \E n \in Ids : FallsDue(n)
    PROVE  BusTypes'
<1>1. CASE \E S : RemoveAll(S)
  BY <1>1 DEF RemoveAll, Removed, BusTypes, EventBusTypeOK, taskVars
<1>2. CASE \E n \in Ids : FallsDue(n)
  BY <1>2 DEF FallsDue, BusTypes, EventBusTypeOK, taskVars
<1>3. QED
  BY <1>1, <1>2

LEMMA StepKinds ==
    ASSUME EventBusNext
    PROVE  \/ BusTask \/ Emit \/ PostOrder
           \/ \E k \in Kinds : Add(k)
           \/ \E S \in SUBSET Ids : RemoveAll(S)
           \/ \E n \in Ids : FallsDue(n)
           \/ \E c \in Clients : Client(c)
<1>1. Register \/ Subscribe \/ Connect \/ (\E k \in Services : Schedule(k)) => \E k \in Kinds : Add(k)
  BY DEF Register, Subscribe, Connect, Schedule, Kinds, Services
<1>2. ASSUME NEW n \in Ids, Unregister(n) \/ Unsubscribe(n) \/ Cancel(n)
      PROVE  RemoveAll({n})
  BY <1>2 DEF Unregister, Unsubscribe, Cancel
<1>3. ASSUME NEW S \in SUBSET Ids, Disconnect(S)
      PROVE  RemoveAll(S)
  BY <1>3 DEF Disconnect
<1>4. QED
  BY <1>1, <1>2, <1>3 DEF EventBusNext

LEMMA TypesStep ==
    ASSUME BusTypes, EventBusNext
    PROVE  BusTypes'
BY StepKinds, TaskTypes, ClientTypes, PostTypes, NodeTypes, AddTypes

-----------------------------------------------------------------------------
LEMMA WhoHolds ==
    ASSUME NEW n, NEW h
    PROVE  /\ h \in Holders(n) <=>
                \/ h = "todo" /\ n \in todo
                \/ h = "held" /\ held = n
                \/ h \in Clients /\ client[h].at = "looking" /\ client[h].node = n
           /\ h \in (Holders(n))' <=>
                \/ h = "todo" /\ n \in todo'
                \/ h = "held" /\ held' = n
                \/ h \in Clients /\ client'[h].at = "looking" /\ client'[h].node = n
BY DEF Holders

LEMMA HoldersAreFinite ==
    ASSUME NEW n
    PROVE  IsFiniteSet(Holders(n))
<1>1. IsFiniteSet(Clients \cup {"todo"} \cup {"held"})
  BY FS_AddElement, BusAssumption
<1>2. Holders(n) \in SUBSET (Clients \cup {"todo"} \cup {"held"})
  BY DEF Holders
<1>3. QED
  BY <1>1, <1>2, FS_Subset

LEMMA Retaining ==
    ASSUME BusTypes, RefsCoverHolders, NEW n \in Ids, NEW h,
           (Holders(n))' \subseteq Holders(n) \cup {h},
           refs'[n] = refs[n] + 1
    PROVE  Cardinality((Holders(n))') <= refs'[n]
<1>1. IsFiniteSet(Holders(n))
  BY HoldersAreFinite
<1>2. /\ IsFiniteSet(Holders(n) \cup {h})
      /\ Cardinality(Holders(n) \cup {h}) <= Cardinality(Holders(n)) + 1
  <2>1. Cardinality(Holders(n)) \in Nat
    BY <1>1, FS_CardinalityType
  <2>2. /\ IsFiniteSet(Holders(n) \cup {h})
        /\ Cardinality(Holders(n) \cup {h}) =
             IF h \in Holders(n) THEN Cardinality(Holders(n)) ELSE Cardinality(Holders(n)) + 1
    BY <1>1, FS_AddElement
  <2>3. QED
    BY <2>1, <2>2
<1>3. Cardinality((Holders(n))') <= Cardinality(Holders(n) \cup {h})
  BY <1>2, FS_Subset
<1>4. /\ Cardinality(Holders(n)) \in Nat /\ Cardinality(Holders(n) \cup {h}) \in Nat
      /\ refs[n] \in Nat /\ Cardinality((Holders(n))') \in Nat
  BY <1>1, <1>2, FS_CardinalityType, FS_Subset DEF BusTypes, EventBusTypeOK
<1>5. QED
  BY <1>2, <1>3, <1>4 DEF RefsCoverHolders

LEMMA Releasing ==
    ASSUME BusTypes, RefsCoverHolders, NEW n \in Ids, NEW h \in Holders(n),
           (Holders(n))' = Holders(n) \ {h},
           Release(n), HeldIsListed
    PROVE  /\ Cardinality((Holders(n))') <= refs'[n]
           /\ (Holders(n))' # {} => state'[n] \in {"live", "deleted"}
<1> DEFINE H == Holders(n)
<1>1. IsFiniteSet(H) /\ IsFiniteSet(H \ {h})
  BY HoldersAreFinite, FS_RemoveElement
<1>2. Cardinality(H \ {h}) = Cardinality(H) - 1
  BY <1>1, FS_RemoveElement
<1>3. Cardinality(H) \in Nat /\ Cardinality(H \ {h}) \in Nat
  BY <1>1, FS_CardinalityType
<1>4. Cardinality(H) <= refs[n] /\ refs[n] \in Nat
  BY DEF RefsCoverHolders, BusTypes, EventBusTypeOK
<1>5. refs[n] > 0
  BY <1>2, <1>3, <1>4
<1>6. refs'[n] = refs[n] - 1
  BY <1>5 DEF Release, BusTypes, EventBusTypeOK
<1>7. CASE LastUse(n)
  <2>1. Cardinality(H \ {h}) = 0
    BY <1>2, <1>3, <1>4, <1>7 DEF LastUse
  <2>2. H \ {h} = {}
    BY <1>1, <2>1, FS_EmptySet
  <2>3. QED
    BY <1>4, <1>5, <1>6, <2>1, <2>2
<1>8. CASE ~LastUse(n)
  <2>1. state'[n] = state[n]
    BY <1>8 DEF Release, BusTypes, EventBusTypeOK
  <2>2. state[n] \in {"live", "deleted"}
    BY DEF HeldIsListed, Listed
  <2>3. QED
    BY <1>2, <1>3, <1>4, <1>6, <2>1, <2>2
<1>9. QED
  BY <1>7, <1>8

LEMMA CallsAreCounted ==
    ASSUME BusTypes
    PROVE  \A n \in Ids : runs[n] \in 0..2 /\ (runs[n] = 0 \/ runs[n] > 0)
BY DEF BusTypes, EventBusTypeOK

LEMMA CurrentStays ==
    ASSUME todo' = todo, \A n \in todo : kind'[n] = kind[n]
    PROVE  Current' = Current
<1>1. {n \in todo' : kind'[n] = "sub"} = {n \in todo : kind[n] = "sub"}
  OBVIOUS
<1>2. QED
  BY <1>1 DEF Current

-----------------------------------------------------------------------------
(* A step that changes neither the nodes nor the work and lets nobody take  *)
(* or leave a node.                                                         *)
Bystanding ==
    /\ UNCHANGED <<nodeVars, todo, running, held, runs>>
    /\ at' = at \/ (at' \notin {"events", "services"} /\ todo = {} /\ held = None)
    /\ \A c \in Clients :
          /\ (client'[c].at = "looking") <=> (client[c].at = "looking")
          /\ client[c].at = "looking" => client'[c].node = client[c].node

LEMMA BystandingSteps ==
    ASSUME BusInv,
           \/ BeginScan \/ ScanNext \/ Receive \/ QueueEmpty \/ NoModule \/ AllCalled \/ Reply
           \/ Emit \/ PostOrder
           \/ \E c \in Clients : PostRequest(c) \/ RequestTimesOut(c) \/ RequestReturns(c)
    PROVE  Bystanding
<1> USE DEF Bystanding, nodeVars, taskVars
<1>0. OneRound /\ client \in [Clients -> [at : {"idle", "looking", "waiting", "answered"},
                                         node : NodeIds, nr : 0..MaxPosts]]
  BY DEF BusInv, BusTypes, EventBusTypeOK
<1>1. CASE BeginScan \/ ScanNext \/ QueueEmpty
  BY <1>0, <1>1 DEF BeginScan, ScanNext, QueueEmpty, OneRound
<1>2. CASE Receive
  BY <1>0, <1>2 DEF Receive, OneRound
<1>3. CASE NoModule
  BY <1>0, <1>3 DEF NoModule, OneRound
<1>4. CASE AllCalled
  BY <1>0, <1>4 DEF AllCalled, OneRound
<1>5. CASE Reply
  BY <1>0, <1>5 DEF Reply, OneRound, Awaited
<1>6. CASE Emit \/ PostOrder
  BY <1>6 DEF Emit, PostOrder
<1>7. ASSUME NEW c \in Clients, PostRequest(c) \/ RequestTimesOut(c) \/ RequestReturns(c)
      PROVE  Bystanding
  BY <1>0, <1>7 DEF PostRequest, RequestTimesOut, RequestReturns, Idle
<1>8. QED
  BY <1>1, <1>2, <1>3, <1>4, <1>5, <1>6, <1>7

LEMMA HoldersStay ==
    ASSUME NEW n, UNCHANGED <<todo, held>>,
           \A c \in Clients :
             /\ (client'[c].at = "looking") <=> (client[c].at = "looking")
             /\ client[c].at = "looking" => client'[c].node = client[c].node
    PROVE  (Holders(n))' = Holders(n)
<1>1. {c \in Clients : client'[c].at = "looking" /\ client'[c].node = n}
        = {c \in Clients : client[c].at = "looking" /\ client[c].node = n}
  OBVIOUS
<1>2. QED
  BY <1>1 DEF Holders

LEMMA BystandersKeepAll ==
    ASSUME BusInv, Bystanding, BusTypes'
    PROVE  BusInv'
<1> USE DEF BusInv, Bystanding, nodeVars
<1>1. BornInOrder' /\ UnbornAreBlank'
  BY DEF BornInOrder, UpTo, UnbornAreBlank
<1>2. OneRound' /\ WorkIsOfItsKind' /\ Looks'
  BY DEF OneRound, WorkIsOfItsKind, Looks, IsModule
<1>3. \A n : (Holders(n))' = Holders(n)
  BY HoldersStay
<1>4. RefsCoverHolders' /\ HeldIsListed'
  BY <1>3 DEF RefsCoverHolders, HeldIsListed, Listed
<1>5. Current' = Current
  BY CurrentStays
<1>6. OnceStory'
  BY <1>5 DEF OnceStory, OnceIsOver, OnceAtMost, OnceIsKept, RunIsCounted
<1>7. QED
  BY <1>1, <1>2, <1>4, <1>6

(* A step that calls nobody and sets no timer leaves the story of the       *)
(* one-shots as it was.                                                     *)
LEMMA OnceGoesOn ==
    ASSUME BusInv, BusTypes', UNCHANGED <<kind, todo, running, runs>>,
           \A n \in Ids : kind[n] = "once" =>
               /\ when[n] = "never" => when'[n] = "never"
               /\ state'[n] = "live" /\ when'[n] = "never" =>
                     state[n] = "live" /\ when[n] = "never" /\ refs'[n] >= refs[n]
    PROVE  OnceStory'
<1> USE DEF BusInv
<1>1. \A n \in Ids : refs[n] \in Nat /\ refs'[n] \in Nat /\ runs[n] \in 0..2
  BY DEF BusTypes, EventBusTypeOK
<1>2. Current' = Current
  BY CurrentStays
<1>3. OnceIsOver' /\ OnceAtMost'
  BY <1>2 DEF OnceStory, OnceIsOver, OnceAtMost
<1>4. OnceIsKept'
  <2> SUFFICES ASSUME NEW n \in Ids, kind[n] = "once", state'[n] = "live", when'[n] = "never",
                      runs[n] = 0, refs'[n] >= refs[n]
               PROVE  refs'[n] > 0
    BY DEF OnceIsKept
  <2>1. refs[n] > 0
    BY DEF OnceStory, OnceIsKept
  <2>2. QED
    BY <1>1, <2>1
<1>5. RunIsCounted'
  BY <1>2 DEF OnceStory, RunIsCounted
<1>6. QED
  BY <1>3, <1>4, <1>5 DEF OnceStory

(* Adding a node: nobody can hold it, it was not there.                     *)
LEMMA AddKeepsAll ==
    ASSUME BusInv, NEW k \in Kinds, Add(k), BusTypes'
    PROVE  BusInv'
<1> USE DEF BusInv
<1> DEFINE new == NextId + 1
<1>1. NextId \in 0..MaxNodes /\ UpTo(NextId)
  BY DEF NextId, BornInOrder, UpTo
<1>2. new \in Ids /\ state[new] = "unborn"
  BY <1>1, BusAssumption DEF Add, Ids, UpTo
<1>3. /\ UNCHANGED <<refs, at, todo, running, held, client, runs>>
      /\ kind' = [kind EXCEPT ![new] = k]
      /\ state' = [state EXCEPT ![new] = "live"]
      /\ \A n \in Ids : n # new => when'[n] = when[n]
  BY <1>2 DEF Add, taskVars, BusTypes, EventBusTypeOK
<1>4. \A n \in Ids : IF n = new THEN state'[n] = "live" /\ kind'[n] = k
                     ELSE state'[n] = state[n] /\ kind'[n] = kind[n]
  BY <1>3 DEF BusTypes, EventBusTypeOK
<1>5. \A n : (Holders(n))' = Holders(n)
  BY <1>3, HoldersStay
<1>6. /\ new \notin todo /\ held # new
      /\ \A c \in Clients : client[c].at = "looking" => client[c].node # new
  <2>1. Holders(new) = {}
    BY <1>2 DEF HeldIsListed, Listed
  <2>2. QED
    BY <2>1 DEF Holders
<1>7. todo \subseteq Ids
  BY DEF BusTypes, EventBusTypeOK
<1>8. BornInOrder'
  <2>1. new \in 0..MaxNodes
    BY <1>2, BusAssumption DEF Ids
  <2>2. \A m \in Ids : (state'[m] # "unborn") <=> (m <= new)
    BY <1>1, <1>4, BusAssumption DEF UpTo, Ids
  <2>3. QED
    BY <2>1, <2>2 DEF BornInOrder, UpTo
<1>9. UnbornAreBlank'
  BY <1>3, <1>4 DEF UnbornAreBlank
<1>10. OneRound' /\ WorkIsOfItsKind' /\ Looks'
  BY <1>3, <1>4, <1>6, <1>7 DEF OneRound, WorkIsOfItsKind, Looks, IsModule
<1>11. RefsCoverHolders' /\ HeldIsListed'
  BY <1>3, <1>4, <1>5 DEF RefsCoverHolders, HeldIsListed, Listed
<1>12. Current' = Current
  BY <1>3, <1>4, <1>6, <1>7, CurrentStays
<1>13. runs[new] = 0
  BY <1>2 DEF UnbornAreBlank
<1>14. OnceStory'
  <2>1. OnceIsOver' /\ OnceAtMost'
    BY <1>2, <1>3, <1>4, <1>6, <1>12, <1>13 DEF OnceStory, OnceIsOver, OnceAtMost
  <2>2. k = "once" => when'[new] = "later"
    BY <1>2 DEF Add, Services, BusTypes, EventBusTypeOK
  <2>3. OnceIsKept'
    BY <1>2, <1>3, <1>4, <2>2 DEF OnceStory, OnceIsKept
  <2>4. running => Current \in todo
    BY CurrentIsWork DEF OneRound
  <2>5. RunIsCounted'
    BY <1>3, <1>4, <1>6, <1>7, <1>12, <2>4 DEF OnceStory, RunIsCounted
  <2>6. QED
    BY <2>1, <2>3, <2>5 DEF OnceStory
<1>15. QED
  BY <1>8, <1>9, <1>10, <1>11, <1>14

(* Removing a node that somebody holds only marks it: the references it has *)
(* cover them.                                                              *)
LEMMA RemovingKeepsAll ==
    ASSUME BusInv, NEW S \in SUBSET Ids, RemoveAll(S), BusTypes'
    PROVE  BusInv'
<1> USE DEF BusInv
<1>1. UNCHANGED <<kind, refs, at, todo, running, held, client, runs>>
  BY DEF RemoveAll, taskVars
<1>2. \A n \in Ids : IF n \in S THEN state'[n] = Removed(n) /\ when'[n] = "never"
                     ELSE state'[n] = state[n] /\ when'[n] = when[n]
  BY DEF RemoveAll
<1>3. \A n \in Ids : (state'[n] = "unborn") <=> (state[n] = "unborn")
  BY <1>2 DEF RemoveAll, Removed
<1>4. BornInOrder' /\ UnbornAreBlank'
  BY <1>1, <1>2, <1>3 DEF BornInOrder, UpTo, UnbornAreBlank
<1>5. OneRound' /\ WorkIsOfItsKind' /\ Looks'
  BY <1>1 DEF OneRound, WorkIsOfItsKind, Looks, IsModule
<1>6. \A n : (Holders(n))' = Holders(n)
  BY <1>1, HoldersStay
<1>7. RefsCoverHolders'
  BY <1>1, <1>6 DEF RefsCoverHolders
<1>8. HeldIsListed'
  <2> SUFFICES ASSUME NEW n \in Ids, Holders(n) # {}
               PROVE  Listed(n)'
    BY <1>6 DEF HeldIsListed
  <2>1. refs[n] # 0
    BY HoldersAreFinite, FS_EmptySet, FS_CardinalityType
       DEF RefsCoverHolders, BusTypes, EventBusTypeOK
  <2>2. QED
    BY <1>2, <2>1 DEF Removed, HeldIsListed, Listed
<1>9. OnceStory'
  <2>1. \A n \in Ids : refs[n] \in Nat /\ refs'[n] >= refs[n]
    BY <1>1 DEF BusTypes, EventBusTypeOK
  <2>2. \A n \in S : state[n] = "live" /\ state'[n] # "live" /\ when'[n] = "never"
    BY <1>2 DEF RemoveAll, Removed
  <2>3. QED
    BY <1>1, <1>2, <2>1, <2>2, OnceGoesOn
<1>10. QED
  BY <1>4, <1>5, <1>7, <1>8, <1>9

LEMMA FallingDueKeepsAll ==
    ASSUME BusInv, NEW n \in Ids, FallsDue(n), BusTypes'
    PROVE  BusInv'
<1> USE DEF BusInv
<1>1. UNCHANGED <<kind, state, refs, at, todo, running, held, client, runs>>
  BY DEF FallsDue, taskVars
<1>2. /\ when[n] = "later"
      /\ \A m \in Ids : m # n => when'[m] = when[m]
  BY DEF FallsDue, BusTypes, EventBusTypeOK
<1>3. BornInOrder' /\ UnbornAreBlank' /\ OneRound' /\ WorkIsOfItsKind' /\ Looks'
  BY <1>1, <1>2 DEF BornInOrder, UpTo, UnbornAreBlank, OneRound, WorkIsOfItsKind, Looks, IsModule
<1>4. \A m : (Holders(m))' = Holders(m)
  BY <1>1, HoldersStay
<1>5. RefsCoverHolders' /\ HeldIsListed'
  BY <1>1, <1>4 DEF RefsCoverHolders, HeldIsListed, Listed
<1>6. when'[n] = "due"
  BY DEF FallsDue, BusTypes, EventBusTypeOK
<1>7. OnceStory'
  <2>1. \A m \in Ids : kind[m] = "once" => refs[m] \in Nat
    BY DEF BusTypes, EventBusTypeOK
  <2>2. QED
    BY <1>1, <1>2, <1>6, <2>1, OnceGoesOn
<1>8. QED
  BY <1>3, <1>5, <1>7

LEMMA HoldersOfWork ==
    ASSUME NEW n, held' = held, client' = client,
           n \notin todo
    PROVE  (Holders(n))' = IF n \in todo' THEN Holders(n) \cup {"todo"} ELSE Holders(n)
BY DEF Holders

LEMMA RetainedRefs ==
    ASSUME BusInv, NEW S \in SUBSET Ids, refs' = Retained(S), held' = held, client' = client,
           todo = {}, todo' \subseteq S
    PROVE  RefsCoverHolders'
<1> SUFFICES ASSUME NEW n \in Ids
             PROVE  Cardinality((Holders(n))') <= refs'[n]
  BY DEF RefsCoverHolders
<1>1. (Holders(n))' = IF n \in todo' THEN Holders(n) \cup {"todo"} ELSE Holders(n)
  BY HoldersOfWork
<1>2. Cardinality(Holders(n)) \in Nat /\ Cardinality(Holders(n)) <= refs[n] /\ refs[n] \in Nat
  BY HoldersAreFinite, FS_CardinalityType
     DEF BusInv, BusTypes, EventBusTypeOK, RefsCoverHolders
<1>3. refs'[n] = IF n \in S THEN refs[n] + 1 ELSE refs[n]
  BY DEF Retained
<1>4. CASE n \in S
  BY <1>1, <1>3, <1>4, Retaining DEF BusInv
<1>5. CASE n \notin S
  BY <1>1, <1>2, <1>3, <1>5
<1>6. QED
  BY <1>4, <1>5

(* A round of services retains each timer it will call, and takes the one-  *)
(* shots off.                                                               *)
LEMMA CollectingKeepsAll ==
    ASSUME BusInv, CollectEvent \/ ShortOfMemory, BusTypes'
    PROVE  BusInv'
<1> USE DEF BusInv
<1>1. /\ UNCHANGED <<kind, state, when, running, held, client, runs>>
      /\ todo = {} /\ ~running /\ held = None
      /\ todo' = {} \/ (at' = "events" /\ todo' = Matching)
      /\ at' \in {"events", "drain"} /\ (at' = "drain" => todo' = {})
  BY DEF CollectEvent, ShortOfMemory, OneRound
<1>2. \E S \in SUBSET Ids : refs' = Retained(S) /\ todo' \subseteq S
  <2>1. CASE CollectEvent
    BY <2>1 DEF CollectEvent, Matching
  <2>2. CASE ShortOfMemory
    <3>1. PICK n \in Matching :
            refs' = Retained({m \in Matching : kind[m] = "sub" /\ (kind[n] = "sub" => m > n)}
                     \cup {m \in Matching : kind[m] = "route" /\ kind[n] = "route" /\ m > n})
      BY <2>2 DEF ShortOfMemory
    <3>2. todo' = {}
      BY <2>2, <1>1 DEF ShortOfMemory
    <3>3. Matching \subseteq Ids
      BY DEF Matching
    <3>4. QED
      BY <3>1, <3>2, <3>3
  <2>3. QED
    BY <2>1, <2>2
<1>3. RefsCoverHolders'
  BY <1>1, <1>2, RetainedRefs
<1>4. BornInOrder' /\ UnbornAreBlank' /\ OneRound' /\ WorkIsOfItsKind' /\ Looks'
  BY <1>1 DEF BornInOrder, UpTo, UnbornAreBlank, OneRound, WorkIsOfItsKind, Looks, IsModule, Matching
<1>5. HeldIsListed'
  <2> SUFFICES ASSUME NEW n \in Ids, (Holders(n))' # {}
               PROVE  Listed(n)'
    BY DEF HeldIsListed
  <2>1. Holders(n) # {} \/ n \in Matching
    BY <1>1, HoldersOfWork
  <2>2. QED
    BY <1>1, <2>1 DEF HeldIsListed, Listed, Matching
<1>6. \A n \in todo' : kind[n] # "once"
  BY <1>1 DEF Matching
<1>7. OnceStory'
  <2>1. OnceIsOver' /\ OnceAtMost' /\ RunIsCounted'
    BY <1>1, <1>6 DEF OnceStory, OnceIsOver, OnceAtMost, RunIsCounted
  <2>2. \A n \in Ids : refs[n] \in Nat /\ (refs'[n] = refs[n] \/ refs'[n] = refs[n] + 1)
    BY <1>2 DEF Retained, BusTypes, EventBusTypeOK
  <2>3. OnceIsKept'
    BY <1>1, <2>2 DEF OnceStory, OnceIsKept
  <2>4. QED
    BY <2>1, <2>3 DEF OnceStory
<1>8. QED
  BY <1>3, <1>4, <1>5, <1>7

LEMMA ServicesKeepAll ==
    ASSUME BusInv, CollectServices \/ NoMemoryForServices, BusTypes'
    PROVE  BusInv'
<1> USE DEF BusInv
<1>0. PICK S \in SUBSET Due : Collected(S) /\ (todo' = S \/ todo' = {})
  <2>1. CASE CollectServices
    BY <2>1 DEF CollectServices
  <2>2. CASE NoMemoryForServices
    <3>1. PICK n \in Due : Collected({m \in Due : m > n})
      BY <2>2 DEF NoMemoryForServices
    <3>2. todo' = {}
      BY <2>2 DEF NoMemoryForServices, OneRound
    <3>3. QED
      BY <3>1, <3>2
  <2>3. QED
    BY <2>1, <2>2
<1>1. /\ UNCHANGED <<kind, running, held, client, runs>>
      /\ todo = {} /\ ~running /\ held = None
      /\ refs' = Retained(S)
      /\ at' = "services" \/ (at' = "scan" /\ todo' = {})
  BY <1>0 DEF CollectServices, NoMemoryForServices, Collected, OneRound
<1>2. \A n \in Ids :
        /\ when'[n] = IF n \notin S THEN when[n]
                       ELSE IF kind[n] = "repeat" THEN "later" ELSE "never"
        /\ state'[n] = state[n]
             \/ (Listed(n) /\ n \notin S /\ refs[n] = 0 /\ state'[n] = "freed")
  BY <1>0 DEF Collected
<1>3. S \subseteq Ids /\ S \subseteq Due
  BY DEF Due
<1>4. RefsCoverHolders'
  BY <1>0, <1>1, <1>3, RetainedRefs
<1>5. \A n \in Ids : (state'[n] = "unborn") <=> (state[n] = "unborn")
  BY <1>2 DEF Listed
<1>6. BornInOrder' /\ UnbornAreBlank'
  BY <1>1, <1>2, <1>3, <1>5 DEF BornInOrder, UpTo, UnbornAreBlank, Due
<1>7. OneRound' /\ WorkIsOfItsKind' /\ Looks'
  BY <1>0, <1>1, <1>3 DEF OneRound, WorkIsOfItsKind, Looks, IsModule, Due
<1>8. HeldIsListed'
  <2> SUFFICES ASSUME NEW n \in Ids, (Holders(n))' # {}
               PROVE  Listed(n)'
    BY DEF HeldIsListed
  <2>1. CASE n \in S
    BY <1>2, <1>3, <2>1 DEF Due, Listed
  <2>2. CASE n \notin S
    <3>1. Holders(n) # {}
      BY <1>0, <1>1, <2>2, HoldersOfWork
    <3>2. refs[n] # 0
      BY <3>1, HoldersAreFinite, FS_EmptySet, FS_CardinalityType
         DEF RefsCoverHolders, BusTypes, EventBusTypeOK
    <3>3. QED
      BY <1>2, <3>1, <3>2 DEF HeldIsListed, Listed
  <2>3. QED
    BY <2>1, <2>2
<1>9. \A n \in S : kind[n] = "once" => runs[n] = 0
  <2>1. \A n \in Ids : runs[n] = 0 \/ runs[n] > 0
    BY CallsAreCounted
  <2>2. QED
    BY <1>3, <2>1 DEF Due, OnceStory, OnceIsOver
<1>10. OnceIsOver' /\ OnceAtMost'
  BY <1>0, <1>1, <1>2, <1>3, <1>9 DEF OnceStory, OnceIsOver, OnceAtMost
<1>11. OnceIsKept'
  <2>1. \A n \in Ids : refs[n] \in Nat /\ refs'[n] = IF n \in S THEN refs[n] + 1 ELSE refs[n]
    BY <1>1 DEF Retained, BusTypes, EventBusTypeOK
  <2>2. QED
    BY <1>1, <1>2, <2>1 DEF OnceStory, OnceIsKept
<1>12. RunIsCounted'
  BY <1>1 DEF RunIsCounted
<1>13. QED
  BY <1>4, <1>6, <1>7, <1>8, <1>10, <1>11, <1>12 DEF OnceStory

LEMMA CallingKeepsAll ==
    ASSUME BusInv, CallNext, BusTypes'
    PROVE  BusInv'
<1> USE DEF BusInv
<1>1. /\ UNCHANGED <<kind, state, refs, when, at, todo, held, client>>
      /\ todo # {} /\ ~running /\ running'
  BY DEF CallNext, nodeVars
<1>2. Current \in todo /\ Current' = Current /\ todo \subseteq Ids
  BY <1>1, CurrentIsWork, CurrentStays DEF BusTypes, EventBusTypeOK
<1>3. \A n \in Ids : runs'[n] = IF n = Current /\ kind[n] = "once" /\ runs[n] < 2
                                THEN runs[n] + 1 ELSE runs[n]
  BY <1>2 DEF CallNext, BusTypes, EventBusTypeOK
<1>4. BornInOrder' /\ OneRound' /\ WorkIsOfItsKind' /\ Looks'
  BY <1>1 DEF BornInOrder, UpTo, OneRound, WorkIsOfItsKind, Looks, IsModule
<1>5. \A n : (Holders(n))' = Holders(n)
  BY <1>1, HoldersStay
<1>6. RefsCoverHolders' /\ HeldIsListed'
  BY <1>1, <1>5 DEF RefsCoverHolders, HeldIsListed, Listed
<1>7. state[Current] # "unborn"
  <2>1. Holders(Current) # {}
    BY <1>2 DEF Holders
  <2>2. QED
    BY <1>2, <2>1 DEF HeldIsListed, Listed
<1>8. UnbornAreBlank'
  BY <1>1, <1>3, <1>7 DEF UnbornAreBlank
<1>9. kind[Current] = "once" => when[Current] = "never" /\ runs[Current] = 0
  <2>1. Current \in Ids /\ (runs[Current] = 0 \/ runs[Current] > 0)
    BY <1>2, CallsAreCounted
  <2>2. QED
    BY <1>1, <1>2, <2>1 DEF OnceStory, OnceIsOver
<1>10. \A n \in Ids : runs[n] \in 0..2
  BY CallsAreCounted
<1>11. OnceStory'
  BY <1>1, <1>2, <1>3, <1>9, <1>10 DEF OnceStory, OnceIsOver, OnceAtMost, OnceIsKept, RunIsCounted
<1>12. QED
  BY <1>4, <1>6, <1>8, <1>11

(* Whoever takes a node counts himself in the same step.                    *)
LEMMA TakingKeepsAll ==
    ASSUME BusInv, CallModule \/ \E c \in Clients : LookUp(c), BusTypes'
    PROVE  BusInv'
<1> USE DEF BusInv
<1>1. PICK n, h :
        /\ n \in ModuleNamed
        /\ refs' = [refs EXCEPT ![n] = @ + 1]
        /\ UNCHANGED <<kind, state, when, at, todo, running, runs>>
        /\ \A m \in Ids : (Holders(m))' \subseteq IF m = n THEN Holders(m) \cup {h} ELSE Holders(m)
        /\ held' # None => running \/ at = "request"
        /\ Looks'
  <2>1. CASE CallModule
    <3>1. PICK n \in ModuleNamed : held' = n /\ refs' = [refs EXCEPT ![n] = @ + 1]
      BY <2>1 DEF CallModule
    <3>2. /\ UNCHANGED <<kind, state, when, at, todo, running, client, runs>>
          /\ held = None
          /\ running \/ at = "request"
      BY <2>1 DEF CallModule
    <3>3. \A m \in Ids : (Holders(m))' \subseteq IF m = n THEN Holders(m) \cup {"held"} ELSE Holders(m)
      BY <3>1, <3>2 DEF Holders
    <3>4. kind[n] = "module" /\ n # None
      BY <3>1, BusAssumption DEF ModuleNamed, Ids, None
    <3>5. Looks'
      BY <3>1, <3>2, <3>4 DEF Looks, IsModule
    <3>6. QED
      BY <3>1, <3>2, <3>3, <3>5
  <2>2. ASSUME NEW c \in Clients, LookUp(c)
        PROVE  \E n, h :
                 /\ n \in ModuleNamed
                 /\ refs' = [refs EXCEPT ![n] = @ + 1]
                 /\ UNCHANGED <<kind, state, when, at, todo, running, runs>>
                 /\ \A m \in Ids : (Holders(m))' \subseteq IF m = n THEN Holders(m) \cup {h} ELSE Holders(m)
                 /\ held' # None => running \/ at = "request"
                 /\ Looks'
    <3>1. PICK n \in ModuleNamed :
            /\ refs' = [refs EXCEPT ![n] = @ + 1]
            /\ client' = [client EXCEPT ![c].at = "looking", ![c].node = n]
      BY <2>2 DEF LookUp
    <3>2. UNCHANGED <<kind, state, when, at, todo, running, held, runs>>
      BY <2>2 DEF LookUp, taskVars
    <3>3. \A d \in Clients : IF d = c THEN client'[d].at = "looking" /\ client'[d].node = n
                             ELSE client'[d] = client[d]
      BY <3>1 DEF BusTypes, EventBusTypeOK
    <3>4. \A m \in Ids : (Holders(m))' \subseteq IF m = n THEN Holders(m) \cup {c} ELSE Holders(m)
      BY <3>2, <3>3 DEF Holders
    <3>5. kind[n] = "module" /\ n # None
      BY BusAssumption DEF ModuleNamed, Ids, None
    <3>6. Looks'
      BY <3>1, <3>2, <3>3, <3>5 DEF Looks, IsModule
    <3>7. QED
      BY <3>1, <3>2, <3>4, <3>6 DEF OneRound
  <2>3. QED
    BY <2>1, <2>2
<1>2. n \in Ids /\ state[n] = "live"
  BY <1>1 DEF ModuleNamed
<1>3. refs'[n] = refs[n] + 1 /\ \A m \in Ids : m # n => refs'[m] = refs[m]
  BY <1>1, <1>2 DEF BusTypes, EventBusTypeOK
<1>4. BornInOrder' /\ UnbornAreBlank' /\ OneRound' /\ WorkIsOfItsKind'
  BY <1>1 DEF BornInOrder, UpTo, UnbornAreBlank, OneRound, WorkIsOfItsKind
<1>5. RefsCoverHolders'
  <2> SUFFICES ASSUME NEW m \in Ids
               PROVE  Cardinality((Holders(m))') <= refs'[m]
    BY DEF RefsCoverHolders
  <2>1. CASE m = n
    BY <1>1, <1>3, <2>1, Retaining
  <2>2. CASE m # n
    <3>1. (Holders(m))' \in SUBSET Holders(m)
      BY <1>1, <2>2
    <3>2. /\ IsFiniteSet(Holders(m)) /\ IsFiniteSet((Holders(m))')
          /\ Cardinality((Holders(m))') <= Cardinality(Holders(m))
      BY <3>1, HoldersAreFinite, FS_Subset
    <3>3. /\ Cardinality(Holders(m)) \in Nat /\ Cardinality((Holders(m))') \in Nat
          /\ refs[m] \in Nat
      BY <3>2, FS_CardinalityType DEF BusTypes, EventBusTypeOK
    <3>4. QED
      BY <1>3, <2>2, <3>2, <3>3 DEF RefsCoverHolders
  <2>3. QED
    BY <2>1, <2>2
<1>6. HeldIsListed'
  BY <1>1, <1>2 DEF HeldIsListed, Listed
<1>8. OnceStory'
  <2>1. \A m \in Ids : refs[m] \in Nat
    BY DEF BusTypes, EventBusTypeOK
  <2>2. QED
    BY <1>1, <1>3, <2>1, OnceGoesOn
<1>9. QED
  BY <1>1, <1>4, <1>5, <1>6, <1>8

LEMMA OthersKeepTheirHolders ==
    ASSUME BusInv, NEW n \in Ids, Release(n), NEW h \in Holders(n),
           (Holders(n))' = Holders(n) \ {h},
           \A m \in Ids : m # n => (Holders(m))' = Holders(m)
    PROVE  RefsCoverHolders' /\ HeldIsListed'
<1> USE DEF BusInv
<1>1. /\ Cardinality((Holders(n))') <= refs'[n]
      /\ (Holders(n))' # {} => state'[n] \in {"live", "deleted"}
  BY Releasing
<1>2. \A m \in Ids : m # n => refs'[m] = refs[m] /\ state'[m] = state[m]
  BY DEF Release, BusTypes, EventBusTypeOK
<1>3. QED
  BY <1>1, <1>2 DEF RefsCoverHolders, HeldIsListed, Listed

LEMMA ReleasingBears ==
    ASSUME BusInv, NEW n \in Ids, Release(n), state[n] # "unborn", UNCHANGED <<when, runs>>
    PROVE  BornInOrder' /\ UnbornAreBlank'
<1>1. \A m \in Ids : (state'[m] = "unborn") <=> (state[m] = "unborn")
  BY DEF Release, BusInv, BusTypes, EventBusTypeOK
<1>2. QED
  BY <1>1 DEF BusInv, BornInOrder, UpTo, UnbornAreBlank

(* Whoever leaves a node counts himself out; it goes only with the last.    *)
LEMMA ReleasesKeepAll ==
    ASSUME BusInv, ModuleReturns \/ \E c \in Clients : LookedUp(c), BusTypes'
    PROVE  BusInv'
<1> USE DEF BusInv
<1>1. PICK n \in Ids : \E h \in Holders(n) :
        /\ Release(n)
        /\ UNCHANGED <<kind, when, todo, running, runs>>
        /\ (Holders(n))' = Holders(n) \ {h}
        /\ \A m \in Ids : m # n => (Holders(m))' = Holders(m)
        /\ Looks' /\ kind[n] = "module"
        /\ OneRound' /\ WorkIsOfItsKind'
  <2>1. CASE ModuleReturns
    <3>1. PICK n \in Ids : n = held
      BY <2>1 DEF ModuleReturns, BusTypes, EventBusTypeOK, NodeIds
    <3>2. /\ UNCHANGED <<kind, when, todo, running, client, runs>>
          /\ Release(n)
          /\ held' = None
          /\ at' = at \/ (at = "request" /\ at' = "reply")
      BY <2>1, <3>1 DEF ModuleReturns
    <3>3. n # None
      BY BusAssumption DEF Ids, None
    <3>4. "held" \in Holders(n)
      BY <3>1, WhoHolds
    <3>5. (Holders(n))' = Holders(n) \ {"held"}
      BY <3>1, <3>2, <3>3, BusAssumption, WhoHolds, "held" # "todo"
    <3>6. \A m \in Ids : m # n => (Holders(m))' = Holders(m)
      BY <3>1, <3>2, BusAssumption DEF Holders, Ids, None
    <3>7. OneRound' /\ WorkIsOfItsKind' /\ Looks' /\ kind[n] = "module"
      BY <3>1, <3>2, <3>3 DEF OneRound, WorkIsOfItsKind, Looks, IsModule
    <3>8. QED
      BY <3>2, <3>4, <3>5, <3>6, <3>7
  <2>2. ASSUME NEW c \in Clients, LookedUp(c)
        PROVE  \E n \in Ids : \E h \in Holders(n) :
                 /\ Release(n)
                 /\ UNCHANGED <<kind, when, todo, running, runs>>
                 /\ (Holders(n))' = Holders(n) \ {h}
                 /\ \A m \in Ids : m # n => (Holders(m))' = Holders(m)
                 /\ Looks' /\ kind[n] = "module"
                 /\ OneRound' /\ WorkIsOfItsKind'
    <3>1. PICK n \in Ids : n = client[c].node /\ client[c].at = "looking"
      BY <2>2 DEF LookedUp, Looks, IsModule, BusTypes, EventBusTypeOK, NodeIds
    <3>2. /\ UNCHANGED <<kind, when, at, todo, running, held, runs>>
          /\ Release(n)
          /\ client' = [client EXCEPT ![c].at = "idle", ![c].node = None]
      BY <2>2, <3>1 DEF LookedUp, taskVars
    <3>3. \A d \in Clients : IF d = c THEN client'[d].at = "idle" ELSE client'[d] = client[d]
      BY <3>2 DEF BusTypes, EventBusTypeOK
    <3>4. c \in Holders(n) /\ c # "todo" /\ c # "held"
      BY <3>1, BusAssumption DEF Holders
    <3>5. (Holders(n))' = Holders(n) \ {c}
      <4>1. ASSUME NEW h
            PROVE  h \in (Holders(n))' <=> h \in Holders(n) /\ h # c
        <5>1. CASE h = c
          BY <5>1, <3>3, <3>4, WhoHolds
        <5>2. CASE h # c /\ h \in Clients
          BY <5>2, <3>2, <3>3, WhoHolds
        <5>3. CASE h \notin Clients
          BY <5>3, <3>2, WhoHolds
        <5>4. QED
          BY <5>1, <5>2, <5>3
      <4>2. QED
        BY <4>1
    <3>6. ASSUME NEW m \in Ids, m # n
          PROVE  (Holders(m))' = Holders(m)
      <4>1. ASSUME NEW h
            PROVE  h \in (Holders(m))' <=> h \in Holders(m)
        <5>1. CASE h = c
          BY <5>1, <3>1, <3>2, <3>3, <3>4, <3>6, WhoHolds
        <5>2. CASE h # c /\ h \in Clients
          BY <5>2, <3>2, <3>3, WhoHolds
        <5>3. CASE h \notin Clients
          BY <5>3, <3>2, WhoHolds
        <5>4. QED
          BY <5>1, <5>2, <5>3
      <4>2. QED
        BY <4>1
    <3>7. OneRound' /\ WorkIsOfItsKind' /\ Looks' /\ kind[n] = "module"
      BY <3>1, <3>2, <3>3 DEF OneRound, WorkIsOfItsKind, Looks, IsModule
    <3>8. QED
      BY <3>1, <3>2, <3>4, <3>5, <3>6, <3>7
  <2>3. QED
    BY <2>1, <2>2
<1>2. state[n] # "unborn"
  BY <1>1 DEF HeldIsListed, Listed
<1>3. BornInOrder' /\ UnbornAreBlank'
  BY <1>1, <1>2, ReleasingBears
<1>4. RefsCoverHolders' /\ HeldIsListed'
  BY <1>1, OthersKeepTheirHolders
<1>5. OnceStory'
  <2>1. \A m \in Ids : m # n => refs'[m] = refs[m] /\ state'[m] = state[m]
    BY <1>1 DEF Release, BusTypes, EventBusTypeOK
  <2>2. \A m \in Ids : refs[m] \in Nat
    BY DEF BusTypes, EventBusTypeOK
  <2>3. QED
    BY <1>1, <2>1, <2>2, OnceGoesOn
<1>6. QED
  BY <1>1, <1>3, <1>4, <1>5

LEMMA ReturningKeepsAll ==
    ASSUME BusInv, HandlerReturns, BusTypes'
    PROVE  BusInv'
<1> USE DEF BusInv
<1>0. PICK n : n = Current
  OBVIOUS
<1>1. /\ UNCHANGED <<kind, when, at, held, client, runs>>
      /\ Release(n) /\ running /\ ~running' /\ held = None
      /\ todo' = todo \ {n}
  BY <1>0 DEF HandlerReturns
<1>2. n \in todo /\ n \in Ids
  BY <1>0, <1>1, CurrentIsWork DEF OneRound, BusTypes, EventBusTypeOK
<1>3. "todo" \in Holders(n)
  BY <1>2 DEF Holders
<1>4. (Holders(n))' = Holders(n) \ {"todo"}
  BY <1>1, <1>2, BusAssumption, WhoHolds, "held" # "todo"
<1>5. \A m \in Ids : m # n => (Holders(m))' = Holders(m)
  BY <1>1 DEF Holders
<1>6. RefsCoverHolders' /\ HeldIsListed'
  BY <1>1, <1>2, <1>3, <1>4, <1>5, OthersKeepTheirHolders
<1>7. state[n] # "unborn"
  BY <1>2, <1>3 DEF HeldIsListed, Listed
<1>8. BornInOrder' /\ UnbornAreBlank'
  BY <1>1, <1>2, <1>7, ReleasingBears
<1>9. OneRound' /\ WorkIsOfItsKind' /\ Looks'
  BY <1>1 DEF OneRound, WorkIsOfItsKind, Looks, IsModule
<1>10. OnceIsOver' /\ OnceAtMost' /\ RunIsCounted'
  BY <1>0, <1>1 DEF OnceStory, OnceIsOver, OnceAtMost, RunIsCounted
<1>11. OnceIsKept'
  <2>1. kind[n] = "once" => runs[n] = 1
    BY <1>0, <1>1 DEF OnceStory, RunIsCounted
  <2>2. \A m \in Ids : m # n => refs'[m] = refs[m] /\ state'[m] = state[m]
    BY <1>1 DEF Release, BusTypes, EventBusTypeOK
  <2>3. QED
    BY <1>1, <2>1, <2>2 DEF OnceStory, OnceIsKept
<1>12. QED
  BY <1>6, <1>8, <1>9, <1>10, <1>11 DEF OnceStory

-----------------------------------------------------------------------------
LEMMA BusStart == EventBusInit => BusInv
<1> SUFFICES ASSUME EventBusInit
             PROVE  BusInv
  OBVIOUS
<1>1. BusTypes
  BY TypesStart
<1>2. BornInOrder
  <2>1. UpTo(0) /\ 0 \in 0..MaxNodes
    BY BusAssumption DEF UpTo, EventBusInit, Ids
  <2>2. QED
    BY <2>1 DEF BornInOrder
<1>3. \A n \in Ids : Holders(n) = {}
  BY BusAssumption DEF EventBusInit, Holders, Ids, None, Idle
<1>4. RefsCoverHolders /\ HeldIsListed
  <2>1. \A n \in Ids : refs[n] = 0 /\ Cardinality(Holders(n)) = 0
    BY <1>3, FS_EmptySet DEF EventBusInit
  <2>2. QED
    BY <1>3, <2>1 DEF RefsCoverHolders, HeldIsListed
<1>5. UnbornAreBlank /\ OneRound /\ WorkIsOfItsKind /\ Looks
  BY DEF EventBusInit, UnbornAreBlank, OneRound, WorkIsOfItsKind, Looks, IsModule, Idle
<1>6. OnceStory
  BY DEF EventBusInit, OnceStory, OnceIsOver, OnceAtMost, OnceIsKept, RunIsCounted
<1>7. QED
  BY <1>1, <1>2, <1>4, <1>5, <1>6 DEF BusInv

LEMMA BusStep ==
    ASSUME BusInv, [EventBusNext]_vars
    PROVE  BusInv'
<1>1. CASE UNCHANGED vars
  <2>1. Bystanding /\ BusTypes'
    BY <1>1 DEF Bystanding, vars, nodeVars, taskVars, BusInv, BusTypes, EventBusTypeOK, Messages, NodeIds
  <2>2. QED
    BY <2>1, BystandersKeepAll
<1>2. CASE EventBusNext
  <2>1. BusTypes'
    BY <1>2, TypesStep DEF BusInv
  <2>2. CASE BusTask
    BY <2>1, <2>2, BystandingSteps, BystandersKeepAll, CollectingKeepsAll, ServicesKeepAll,
       CallingKeepsAll, TakingKeepsAll, ReleasesKeepAll, ReturningKeepsAll DEF BusTask
  <2>3. CASE Emit \/ PostOrder
    BY <2>1, <2>3, BystandingSteps, BystandersKeepAll
  <2>4. ASSUME NEW c \in Clients, Client(c)
        PROVE  BusInv'
    BY <2>1, <2>4, BystandingSteps, BystandersKeepAll, TakingKeepsAll, ReleasesKeepAll DEF Client
  <2>5. QED
    BY <1>2, <2>1, <2>2, <2>3, <2>4, StepKinds, AddKeepsAll, RemovingKeepsAll, FallingDueKeepsAll
<1>3. QED
  BY <1>1, <1>2

(* Every step of the bus task, of the callbacks it runs and of its clients  *)
(* keeps the invariant, for any number of nodes, clients, messages and any  *)
(* length of the queue.                                                     *)
THEOREM BusInvariant == EventBusSpec => []BusInv
<1>1. EventBusInit => BusInv
  BY BusStart
<1>2. BusInv /\ [EventBusNext]_vars => BusInv'
  BY BusStep
<1>3. QED
  BY <1>1, <1>2, PTL DEF EventBusSpec

(* A node that a callback, the request in hand or a client still uses is in *)
(* a list or marked for deletion, never freed (node_retain and              *)
(* node_release, esp_bus.c).                                                *)
THEOREM NothingHeldIsFreed == EventBusSpec => []HeldIsListed
<1>1. BusInv => HeldIsListed
  BY DEF BusInv
<1>2. QED
  BY <1>1, BusInvariant, PTL

(* Of a one-shot nobody but its own round, a collection or a cancel frees   *)
(* the node.                                                                *)
LEMMA LeavingSteps ==
    ASSUME BusInv, EventBusNext, NEW n \in Ids, kind[n] = "once",
           state[n] = "live", state'[n] = "freed"
    PROVE  runs[n] = 1 \/ Cancel(n)
<1> USE DEF BusInv
<1>1. CASE CollectServices \/ NoMemoryForServices
  <2>1. PICK S : Collected(S)
    BY <1>1 DEF CollectServices, NoMemoryForServices
  <2>2. refs[n] = 0 /\ when[n] = "never"
    BY <2>1 DEF Collected
  <2>3. runs[n] # 0
    BY <2>2 DEF OnceStory, OnceIsKept
  <2>4. runs[n] \in 0..2 /\ runs[n] <= 1
    BY CallsAreCounted DEF OnceStory, OnceAtMost
  <2>5. QED
    BY <2>3, <2>4
<1>2. CASE HandlerReturns
  <2>1. n = Current /\ running
    BY <1>2 DEF HandlerReturns, Release, BusTypes, EventBusTypeOK
  <2>2. QED
    BY <2>1 DEF OnceStory, RunIsCounted
<1>3. CASE ModuleReturns
  BY <1>3 DEF ModuleReturns, Release, BusTypes, EventBusTypeOK, Looks, IsModule
<1>4. ASSUME NEW c \in Clients, Client(c)
      PROVE  FALSE
  BY <1>4 DEF Client, LookUp, LookedUp, PostRequest, RequestTimesOut, RequestReturns, Release,
     nodeVars, BusTypes, EventBusTypeOK, Looks, IsModule
<1>5. CASE \/ BeginScan \/ ScanNext \/ Receive \/ QueueEmpty \/ CollectEvent \/ ShortOfMemory
           \/ CallNext \/ CallModule \/ NoModule \/ AllCalled \/ Reply \/ Emit \/ PostOrder
  BY <1>5 DEF BeginScan, ScanNext, Receive, QueueEmpty, CollectEvent, ShortOfMemory, CallNext,
     CallModule, NoModule, AllCalled, Reply, Emit, PostOrder, nodeVars
<1>6. CASE Register \/ Subscribe \/ Connect \/ \E k \in Services : Schedule(k)
  BY <1>6 DEF Register, Subscribe, Connect, Schedule, Add, BusTypes, EventBusTypeOK
<1>7. ASSUME NEW m \in Ids, Unregister(m) \/ Unsubscribe(m) \/ Cancel(m) \/ FallsDue(m)
      PROVE  Cancel(n)
  <2>1. CASE Unregister(m) \/ Unsubscribe(m) \/ FallsDue(m)
    BY <1>7, <2>1 DEF Unregister, Unsubscribe, FallsDue, RemoveAll
  <2>2. CASE Cancel(m)
    BY <2>2 DEF Cancel, RemoveAll
  <2>3. QED
    BY <1>7, <2>1, <2>2
<1>8. ASSUME NEW S \in SUBSET Ids, Disconnect(S)
      PROVE  FALSE
  BY <1>8 DEF Disconnect, RemoveAll
<1>9. QED
  BY <1>1, <1>2, <1>3, <1>4, <1>5, <1>6, <1>7, <1>8 DEF EventBusNext, BusTask

(* A node is of one kind from its allocation on.                            *)
LEMMA KindStays ==
    ASSUME BusInv, EventBusNext, NEW n \in Ids
    PROVE  kind'[n] = kind[n] \/ runs'[n] = runs[n]
<1>1. CASE BusTask
  BY <1>1 DEF BusTask, BeginScan, ScanNext, Receive, QueueEmpty, CollectEvent, ShortOfMemory,
     CollectServices, NoMemoryForServices, CallNext, CallModule, ModuleReturns, NoModule,
     HandlerReturns, AllCalled, Reply, nodeVars
<1>2. CASE Emit \/ PostOrder \/ (\E k \in Kinds : Add(k)) \/ (\E S \in SUBSET Ids : RemoveAll(S))
           \/ (\E m \in Ids : FallsDue(m))
  BY <1>2 DEF Emit, PostOrder, Add, RemoveAll, FallsDue
<1>3. CASE \E c \in Clients : Client(c)
  BY <1>3 DEF Client, LookUp, LookedUp, PostRequest, RequestTimesOut, RequestReturns
<1>4. QED
  BY <1>1, <1>2, <1>3, StepKinds

(* A timer of esp_bus_after runs at most once, however the rounds, its own  *)
(* callback and a cancel fall, and does not leave the list uncalled unless  *)
(* it is cancelled, whatever memory there is (esp_bus_run_services).        *)
THEOREM OneShotsRunOnce == EventBusSpec => OnceRunsOnce
<1>1. BusInv /\ BusInv' /\ [EventBusNext]_vars => [\A n \in Ids : kind[n] = "once" =>
          /\ runs'[n] <= 1
          /\ state[n] = "live" /\ state'[n] = "freed" => runs[n] = 1 \/ Cancel(n)]_vars
  <2> SUFFICES ASSUME BusInv, BusInv', EventBusNext, NEW n \in Ids, kind[n] = "once"
               PROVE  /\ runs'[n] <= 1
                      /\ state[n] = "live" /\ state'[n] = "freed" => runs[n] = 1 \/ Cancel(n)
    OBVIOUS
  <2>1. kind'[n] = "once" \/ (runs'[n] = runs[n] /\ runs[n] <= 1)
    <3>1. kind'[n] = "once" \/ runs'[n] = runs[n]
      BY KindStays
    <3>2. QED
      BY <3>1 DEF BusInv, OnceStory, OnceAtMost
  <2>2. runs'[n] <= 1
    BY <2>1 DEF BusInv, OnceStory, OnceAtMost
  <2>3. QED
    BY <2>2, LeavingSteps
<1>2. QED
  BY <1>1, BusInvariant, PTL DEF EventBusSpec, OnceRunsOnce

-----------------------------------------------------------------------------
(***************************************************************************)
(* The LED. While no request cancels a timer that the round has already    *)
(* retained, the LED has one timer, and blink_count says how many flashes  *)
(* are left.                                                               *)
(***************************************************************************)

Over(t) == timers[t] \in {"unborn", "gone"}

(* While no request overtook a callback, no timer but the LED's own can     *)
(* still be called.                                                         *)
OneTimer ==
    ~overtaken =>
        \A t \in Timers :
            Over(t) \/ (t = ledTimer /\ timers[t] \in {"waiting", "due", "collected"})

(* Every flash but the first took a timer: those left have greater numbers. *)
TimersOutlastFlashes == \A t \in Unborn(timers) : flashes < t

(* The blinks that README of esp_bus promises and blink_count can hold.     *)
Counted == ~overtaken /\ asked > 0 /\ 2 * asked < Half

(* blink_count tells how often the LED was lit: two steps for each blink    *)
(* left, one of them taken while the LED is dark.                           *)
CountTellsFlashes ==
    Counted /\ ledTimer # NoTimer =>
        \E k \in 1..asked :
            /\ flashes = asked - k + 1
            /\ \/ blinkCount = 2 * k /\ lit
               \/ blinkCount = 2 * k - 1 /\ ~lit

OverIsDark == Counted /\ ledTimer = NoTimer => flashes = asked /\ ~lit

(* The invariant of the LED, from which follows what was asked.             *)
LedInv ==
    /\ LedTypeOK /\ overtaken \in BOOLEAN
    /\ OneTimer /\ TimersOutlastFlashes /\ CountTellsFlashes /\ OverIsDark

-----------------------------------------------------------------------------
Moods == {"unborn", "waiting", "due", "collected", "cancelled", "gone"}

(* The timer scheduled next is the first that was never used.               *)
LEMMA NextIsLeast ==
    ASSUME NEW T, Unborn(T) # {}
    PROVE  NextTimer(T) \in Unborn(T) /\ \A u \in Unborn(T) : NextTimer(T) <= u
<1>1. Unborn(T) \subseteq Nat
  BY LedAssumption DEF Unborn, Timers
<1>2. \E t \in Unborn(T) : \A u \in Unborn(T) : t <= u
  BY <1>1, LeastNumber
<1>3. QED
  BY <1>2 DEF NextTimer

LEMMA SchedulingTakesOne ==
    ASSUME NEW T \in [Timers -> Moods], Unborn(T) # {}
    PROVE  /\ NextTimer(T) \in Timers /\ T[NextTimer(T)] = "unborn"
           /\ Scheduled(T) \in [Timers -> Moods]
           /\ \A t \in Timers : Scheduled(T)[t] = IF t = NextTimer(T) THEN "waiting" ELSE T[t]
           /\ \A u \in Unborn(Scheduled(T)) : u \in Unborn(T) /\ NextTimer(T) < u
<1>1. NextTimer(T) \in Unborn(T) /\ \A u \in Unborn(T) : NextTimer(T) <= u
  BY NextIsLeast
<1>2. /\ NextTimer(T) \in Timers /\ T[NextTimer(T)] = "unborn"
      /\ Scheduled(T) \in [Timers -> Moods]
      /\ \A t \in Timers : Scheduled(T)[t] = IF t = NextTimer(T) THEN "waiting" ELSE T[t]
  BY <1>1 DEF Unborn, Scheduled, Moods
<1>3. \A u \in Unborn(Scheduled(T)) : u \in Unborn(T) /\ u # NextTimer(T)
  BY <1>2 DEF Unborn
<1>4. \A u \in Unborn(T) : u \in Nat
  BY LedAssumption DEF Unborn, Timers
<1>5. \A u \in Unborn(Scheduled(T)) : NextTimer(T) < u
  BY <1>1, <1>3, <1>4
<1>6. QED
  BY <1>2, <1>3, <1>5

(* What is kept in an int16_t is itself as long as it fits.                 *)
LEMMA SignedFits ==
    ASSUME NEW x \in Int
    PROVE  /\ Signed(x) \in -Half..(Half - 1)
           /\ x \in 0..(Half - 1) => Signed(x) = x
<1>1. Half \in Nat \ {0} /\ 2 * Half \in Nat \ {0}
  BY LedAssumption
<1>2. x % (2 * Half) \in 0..(2 * Half - 1)
  BY <1>1
<1>3. x \in 0..(Half - 1) => x % (2 * Half) = x
  BY <1>1
<1>4. QED
  BY <1>1, <1>2, <1>3 DEF Signed

(* A request stops the blinking that was under way, unless the round had    *)
(* already retained its timer.                                              *)
LEMMA CancellingStops ==
    ASSUME LedInv
    PROVE  /\ Cancelled \in [Timers -> Moods]
           /\ Unborn(Cancelled) = Unborn(timers)
           /\ Overtakes \in BOOLEAN
           /\ ~Overtakes => /\ ~overtaken
                            /\ \A t \in Timers : Cancelled[t] \in {"unborn", "gone"}
<1>1. timers \in [Timers -> Moods] /\ overtaken \in BOOLEAN /\ OneTimer
      /\ ledTimer \in Timers \cup {NoTimer} /\ NoTimer \notin Timers
  BY LedAssumption DEF LedInv, LedTypeOK, Moods, Timers, NoTimer
<1>2. Cancelled \in [Timers -> Moods]
  BY <1>1 DEF Cancelled, Moods
<1>3. \A t \in Timers : Cancelled[t] = "unborn" <=> timers[t] = "unborn"
  BY <1>1 DEF Cancelled, Moods
<1>4. Overtakes \in BOOLEAN
  BY <1>1 DEF Overtakes
<1>5. ASSUME ~Overtakes, NEW t \in Timers
      PROVE  Cancelled[t] \in {"unborn", "gone"}
  <2>1. ~overtaken /\ (ledTimer # NoTimer => timers[ledTimer] # "collected")
    BY <1>5 DEF Overtakes
  <2>2. CASE t # ledTimer
    <3>1. Cancelled[t] = timers[t]
      BY <2>2 DEF Cancelled
    <3>2. QED
      BY <1>1, <2>1, <2>2, <3>1 DEF OneTimer, Over, Moods
  <2>3. CASE t = ledTimer
    BY <1>1, <2>1, <2>3 DEF Cancelled, Moods, OneTimer, Over
  <2>4. QED
    BY <2>2, <2>3
<1>6. QED
  BY <1>2, <1>3, <1>4, <1>5 DEF Unborn, Overtakes

-----------------------------------------------------------------------------
LEMMA LedStart == LedInit => LedInv
<1> SUFFICES ASSUME LedInit
             PROVE  LedInv
  OBVIOUS
<1>1. Half \in Nat \ {0} /\ MaxTimers \in Nat
  BY LedAssumption
<1>2. LedTypeOK /\ overtaken \in BOOLEAN
  <2>1. 0 \in -Half..(Half - 1) /\ 0 \in 0..(MaxTimers + 1)
    BY <1>1
  <2>2. timers \in [Timers -> {"unborn", "waiting", "due", "collected", "cancelled", "gone"}]
    BY DEF LedInit
  <2>3. QED
    BY <2>1, <2>2 DEF LedInit, LedTypeOK
<1>3. \A t \in Timers : timers[t] = "unborn" /\ 0 < t
  BY <1>1 DEF LedInit, Timers
<1>4. OneTimer /\ TimersOutlastFlashes
  BY <1>3 DEF LedInit, OneTimer, Over, TimersOutlastFlashes, Unborn
<1>5. CountTellsFlashes /\ OverIsDark
  BY DEF LedInit, CountTellsFlashes, OverIsDark, Counted
<1>6. QED
  BY <1>2, <1>4, <1>5 DEF LedInv

LEMMA SwitchStep ==
    ASSUME LedInv, NEW on \in BOOLEAN, Switch(on)
    PROVE  LedInv'
<1>1. /\ timers' = Cancelled /\ ledTimer' = NoTimer /\ blinkCount' = 0 /\ lit' = on
      /\ asked' = 0 /\ flashes' = 0 /\ overtaken' = Overtakes /\ round' = round
  BY DEF Switch
<1>2. Half \in Nat \ {0} /\ MaxTimers \in Nat
  BY LedAssumption
<1>3. LedTypeOK' /\ overtaken' \in BOOLEAN
  BY <1>1, <1>2, CancellingStops DEF LedInv, LedTypeOK, Moods
<1>4. OneTimer'
  BY <1>1, CancellingStops DEF OneTimer, Over
<1>5. TimersOutlastFlashes'
  BY <1>1, <1>2 DEF TimersOutlastFlashes, Unborn, Timers
<1>6. CountTellsFlashes' /\ OverIsDark'
  BY <1>1 DEF CountTellsFlashes, OverIsDark, Counted
<1>7. QED
  BY <1>3, <1>4, <1>5, <1>6 DEF LedInv

LEMMA BlinkRequestStep ==
    ASSUME LedInv, NEW n \in Asks, Blink(n)
    PROVE  LedInv'
<1>0. Half \in Nat \ {0} /\ MaxTimers \in Nat /\ n \in Int
  BY LedAssumption
<1>1. CASE n = 0
  <2>1. /\ timers' = Cancelled /\ ledTimer' = NoTimer /\ blinkCount' = 0
        /\ asked' = 0 /\ flashes' = 0 /\ overtaken' = Overtakes /\ UNCHANGED <<lit, round>>
    BY <1>1 DEF Blink
  <2>2. LedTypeOK' /\ overtaken' \in BOOLEAN
    BY <1>0, <2>1, CancellingStops DEF LedInv, LedTypeOK, Moods
  <2>3. OneTimer'
    BY <2>1, CancellingStops DEF OneTimer, Over
  <2>4. TimersOutlastFlashes'
    BY <1>0, <2>1 DEF TimersOutlastFlashes, Unborn, Timers
  <2>5. CountTellsFlashes' /\ OverIsDark'
    BY <2>1 DEF CountTellsFlashes, OverIsDark, Counted
  <2>6. QED
    BY <2>2, <2>3, <2>4, <2>5 DEF LedInv
<1>2. CASE n # 0
  <2> DEFINE x == NextTimer(Cancelled)
  <2>1. /\ Unborn(timers) # {}
        /\ timers' = Scheduled(Cancelled) /\ ledTimer' = x
        /\ blinkCount' = (IF n < 0 THEN -1 ELSE Signed(n * 2))
        /\ lit' = TRUE /\ asked' = n /\ flashes' = 1 /\ overtaken' = Overtakes
        /\ round' = round
    BY <1>2 DEF Blink
  <2>2. /\ x \in Timers
        /\ Scheduled(Cancelled) \in [Timers -> Moods]
        /\ \A t \in Timers : Scheduled(Cancelled)[t] = IF t = x THEN "waiting" ELSE Cancelled[t]
        /\ \A u \in Unborn(Scheduled(Cancelled)) : u \in Unborn(Cancelled) /\ x < u
    BY <2>1, CancellingStops, SchedulingTakesOne
  <2> HIDE DEF x
  <2>3. Signed(n * 2) \in -Half..(Half - 1) /\ (n * 2 \in 0..(Half - 1) => Signed(n * 2) = n * 2)
    BY <1>0, SignedFits
  <2>4. blinkCount' \in -Half..(Half - 1)
    BY <1>0, <2>1, <2>3
  <2>5. LedTypeOK' /\ overtaken' \in BOOLEAN
    BY <1>0, <2>1, <2>2, <2>4, CancellingStops DEF LedInv, LedTypeOK, Moods
  <2>6. OneTimer'
    BY <2>1, <2>2, CancellingStops DEF OneTimer, Over
  <2>7. \A u \in Unborn(Scheduled(Cancelled)) : 1 < u
    BY <1>0, <2>2 DEF Timers, Unborn
  <2>8. TimersOutlastFlashes'
    BY <2>1, <2>7 DEF TimersOutlastFlashes
  <2>9. CountTellsFlashes'
    <3> SUFFICES ASSUME n > 0, 2 * n < Half
                 PROVE  n \in 1..n /\ 1 = n - n + 1 /\ blinkCount' = 2 * n
      BY <2>1 DEF CountTellsFlashes, Counted
    <3>1. n * 2 \in 0..(Half - 1) /\ n * 2 = 2 * n
      BY <1>0
    <3>2. QED
      BY <1>0, <2>1, <2>3, <3>1
  <2>10. OverIsDark'
    BY <1>0, <2>1, <2>2 DEF OverIsDark, NoTimer, Timers
  <2>11. QED
    BY <2>5, <2>6, <2>8, <2>9, <2>10 DEF LedInv
<1>3. QED
  BY <1>1, <1>2

LEMMA WaitingSteps ==
    ASSUME LedInv, BeginRound \/ EndRound \/ \E t \in Timers : LedDue(t)
    PROVE  LedInv'
<1>1. /\ UNCHANGED <<lit, blinkCount, ledTimer, asked, flashes, overtaken>>
      /\ round' \in BOOLEAN
  BY DEF BeginRound, EndRound, LedDue, LedInv, LedTypeOK
<1>2. /\ timers' \in [Timers -> Moods]
      /\ \A t \in Timers : \/ timers'[t] = timers[t]
                          \/ /\ timers[t] \in {"waiting", "due"}
                             /\ timers'[t] \in {"due", "collected"}
  BY DEF BeginRound, EndRound, LedDue, LedInv, LedTypeOK, Moods
<1>3. LedTypeOK' /\ overtaken' \in BOOLEAN
  BY <1>1, <1>2 DEF LedInv, LedTypeOK, Moods
<1>4. OneTimer' /\ TimersOutlastFlashes'
  BY <1>1, <1>2 DEF LedInv, OneTimer, Over, TimersOutlastFlashes, Unborn
<1>5. CountTellsFlashes' /\ OverIsDark'
  BY <1>1 DEF LedInv, CountTellsFlashes, OverIsDark, Counted
<1>6. QED
  BY <1>3, <1>4, <1>5 DEF LedInv

LEMMA BlinkStepStep ==
    ASSUME LedInv, NEW t \in Timers, BlinkStep(t)
    PROVE  LedInv'
<1> DEFINE left == IF blinkCount > 0 THEN blinkCount - 1 ELSE blinkCount
<1> DEFINE ran == [timers EXCEPT ![t] = "gone"]
<1>0. /\ Half \in Nat \ {0} /\ MaxTimers \in Nat /\ LedTypeOK /\ NoTimer \notin Timers
      /\ overtaken \in BOOLEAN /\ asked \in Int /\ flashes \in Nat
      /\ blinkCount \in -Half..(Half - 1)
  BY LedAssumption DEF LedInv, LedTypeOK, Timers, NoTimer
<1>1. /\ Steps(t) /\ blinkCount' = left /\ UNCHANGED <<round, asked, overtaken>>
  BY DEF BlinkStep
<1>2. left \in -Half..(Half - 1)
  BY <1>0
<1>3. ran \in [Timers -> Moods] /\ \A u \in Timers : ran[u] = IF u = t THEN "gone" ELSE timers[u]
  BY <1>0 DEF LedTypeOK, Moods
<1>4. ~overtaken => t = ledTimer
  BY <1>1 DEF LedInv, OneTimer, Over, Steps
<1>5. Unborn(ran) = Unborn(timers)
  BY <1>1, <1>3 DEF Unborn, Steps
<1>6. CASE LastStep
  <2>1. /\ lit' = FALSE /\ ledTimer' = NoTimer /\ timers' = ran /\ flashes' = flashes
    BY <1>6 DEF BlinkStep
  <2>2. LedTypeOK'
    BY <1>0, <1>1, <1>2, <1>3, <2>1 DEF LedTypeOK, Moods
  <2>3. OneTimer'
    BY <1>1, <1>3, <1>4, <2>1 DEF LedInv, OneTimer, Over
  <2>4. TimersOutlastFlashes'
    BY <1>5, <2>1 DEF LedInv, TimersOutlastFlashes
  <2>5. CountTellsFlashes'
    BY <2>1 DEF CountTellsFlashes
  <2>6. OverIsDark'
    <3> SUFFICES ASSUME Counted
                 PROVE  flashes = asked
      BY <1>1, <2>1 DEF OverIsDark, Counted
    <3>1. ledTimer # NoTimer
      BY <1>0, <1>4 DEF Counted
    <3>2. PICK k \in 1..asked : /\ flashes = asked - k + 1
                                /\ \/ blinkCount = 2 * k
                                   \/ blinkCount = 2 * k - 1
      BY <3>1 DEF LedInv, CountTellsFlashes
    <3>3. k = 1
      BY <1>0, <1>6, <3>2 DEF LastStep
    <3>4. QED
      BY <1>0, <3>2, <3>3
  <2>7. QED
    BY <1>0, <1>1, <2>2, <2>3, <2>4, <2>5, <2>6 DEF LedInv
<1>7. CASE ~LastStep
  <2> DEFINE x == NextTimer(ran)
  <2>1. /\ Unborn(timers) # {} /\ lit' = ~lit /\ ledTimer' = x /\ timers' = Scheduled(ran)
        /\ flashes' = (IF lit \/ flashes > MaxTimers THEN flashes ELSE flashes + 1)
    BY <1>7 DEF BlinkStep
  <2>2. /\ x \in Timers /\ timers[x] = "unborn"
        /\ Scheduled(ran) \in [Timers -> Moods]
        /\ \A u \in Timers : Scheduled(ran)[u] = IF u = x THEN "waiting" ELSE ran[u]
        /\ \A u \in Unborn(Scheduled(ran)) : u \in Unborn(ran) /\ x < u
    BY <1>3, <1>5, <2>1, SchedulingTakesOne DEF Unborn
  <2> HIDE DEF x
  <2>3. flashes < x /\ x \in 1..MaxTimers
    BY <2>2 DEF LedInv, TimersOutlastFlashes, Unborn, Timers
  <2>4. flashes' = (IF lit THEN flashes ELSE flashes + 1) /\ flashes' <= x
    BY <1>0, <2>1, <2>3
  <2>5. LedTypeOK'
    <3>1. flashes' \in 0..(MaxTimers + 1)
      BY <1>0, <2>3, <2>4
    <3>2. lit' \in BOOLEAN
      BY <2>1
    <3>3. QED
      BY <1>0, <1>1, <1>2, <2>1, <2>2, <3>1, <3>2 DEF LedTypeOK, Moods
  <2>6. OneTimer'
    BY <1>1, <1>3, <1>4, <2>1, <2>2 DEF LedInv, OneTimer, Over
  <2>7. TimersOutlastFlashes'
    <3>1. ASSUME NEW u \in Unborn(Scheduled(ran))
          PROVE  flashes' < u
      <4>1. x < u
        BY <2>2
      <4>2. u \in Nat
        BY <1>0 DEF Unborn, Timers
      <4>3. QED
        BY <1>0, <2>3, <2>4, <4>1, <4>2
    <3>2. QED
      BY <2>1, <3>1 DEF TimersOutlastFlashes
  <2>8. CountTellsFlashes'
    <3> SUFFICES ASSUME Counted
                 PROVE  \E k \in 1..asked :
                          /\ flashes' = asked - k + 1
                          /\ \/ left = 2 * k /\ lit'
                             \/ left = 2 * k - 1 /\ ~lit'
      BY <1>1 DEF CountTellsFlashes, Counted
    <3>1. ledTimer # NoTimer
      BY <1>0, <1>4 DEF Counted
    <3>2. PICK k \in 1..asked : /\ flashes = asked - k + 1
                                /\ \/ blinkCount = 2 * k /\ lit
                                   \/ blinkCount = 2 * k - 1 /\ ~lit
      BY <3>1 DEF LedInv, CountTellsFlashes
    <3>3. CASE blinkCount = 2 * k /\ lit
      <4>1. left = 2 * k - 1
        BY <1>0, <3>3
      <4>2. flashes' = flashes /\ ~lit'
        BY <2>1, <2>4, <3>3
      <4>3. QED
        BY <3>2, <4>1, <4>2
    <3>4. CASE blinkCount = 2 * k - 1 /\ ~lit
      <4>1. k # 1
        BY <1>7, <3>4 DEF LastStep
      <4>2. k - 1 \in 1..asked /\ left = 2 * (k - 1)
        BY <1>0, <3>4, <4>1
      <4>3. flashes' = asked - (k - 1) + 1
        BY <1>0, <2>4, <3>2, <3>4
      <4>4. QED
        BY <2>1, <3>4, <4>2, <4>3
    <3>5. QED
      BY <3>2, <3>3, <3>4
  <2>9. OverIsDark'
    BY <1>0, <2>1, <2>2 DEF OverIsDark
  <2>10. QED
    BY <1>0, <1>1, <2>5, <2>6, <2>7, <2>8, <2>9 DEF LedInv
<1>8. QED
  BY <1>6, <1>7

LEMMA LedStep ==
    ASSUME LedInv, [LedNext]_ledVars
    PROVE  LedInv'
<1>1. CASE UNCHANGED ledVars
  BY <1>1 DEF ledVars, LedInv, LedTypeOK, OneTimer, Over, TimersOutlastFlashes, Unborn,
              CountTellsFlashes, OverIsDark, Counted
<1>2. CASE LedRequest
  <2>1. lit \in BOOLEAN
    BY DEF LedInv, LedTypeOK
  <2>2. (On \/ Off \/ Toggle) => \E on \in BOOLEAN : Switch(on)
    BY <2>1 DEF On, Off, Toggle
  <2>3. QED
    BY <1>2, <2>2, SwitchStep, BlinkRequestStep DEF LedRequest
<1>3. CASE LedServices \/ \E t \in Timers : LedDue(t)
  BY <1>3, WaitingSteps, BlinkStepStep DEF LedServices
<1>4. QED
  BY <1>1, <1>2, <1>3 DEF LedNext

(* Every request, round and callback keeps the invariant, for any width of  *)
(* blink_count, any requests and any number of timers.                      *)
THEOREM LedInvariant == LedSpec => []LedInv
<1>1. LedInit => LedInv
  BY LedStart
<1>2. LedInv /\ [LedNext]_ledVars => LedInv'
  BY LedStep
<1>3. QED
  BY <1>1, <1>2, PTL DEF LedSpec

(* A counted blink that nobody overtakes ends with the LED lit as often as  *)
(* asked and dark (led_blink_step).                                         *)
THEOREM LedBlinksAsAsked == LedSpec => []BlinksAsAsked
<1>1. LedInv => BlinksAsAsked
  <2> SUFFICES ASSUME LedInv, Counted
               PROVE  flashes <= asked /\ (ledTimer = NoTimer => flashes = asked /\ ~lit)
    BY DEF BlinksAsAsked, Counted
  <2>1. asked \in Int
    BY LedAssumption DEF LedInv, LedTypeOK
  <2>2. CASE ledTimer = NoTimer
    BY <2>1, <2>2 DEF LedInv, OverIsDark
  <2>3. CASE ledTimer # NoTimer
    <3>1. PICK k \in 1..asked : flashes = asked - k + 1
      BY <2>3 DEF LedInv, CountTellsFlashes
    <3>2. QED
      BY <2>1, <2>3, <3>1
  <2>4. QED
    BY <2>2, <2>3
<1>2. QED
  BY <1>1, LedInvariant, PTL

-----------------------------------------------------------------------------
(***************************************************************************)
(* The button. It tells presses and releases in turn, for any times of     *)
(* long press, double press and debounce and for polls that may be late.   *)
(***************************************************************************)

(* What the module remembers of a press, and what its subscribers were     *)
(* told: a button held since it was registered is stable but not pressed.  *)
Times ==
    /\ now \in Nat /\ debounceUntil \in Nat
    /\ pressTime \in 0 .. now /\ lastPress \in 0 .. now

Flags ==
    /\ pin \in BOOLEAN /\ rawState \in BOOLEAN /\ stable \in BOOLEAN /\ longFired \in BOOLEAN
    /\ pressed \in BOOLEAN /\ longEmitted \in BOOLEAN

Told ==
    /\ pressed <=> stable /\ pressTime # 0
    /\ ~stable => pressTime = 0
    /\ stable => (longEmitted <=> longFired)

Spaced == stable /\ ~rawState => debounceUntil >= lastPress + Debounce

ButtonInv == Times /\ Flags /\ Told /\ Spaced

Has(es, e) == \E i \in 1 .. Len(es) : es[i] = e

LEMMA NothingEmitted == \A e : ~Has(<< >>, e)
BY DEF Has

LEMMA OneEmitted == \A a, e : Has(<<a>>, e) <=> e = a
BY DEF Has

LEMMA TwoEmitted == \A a, b, e : Has(<<a, b>>, e) <=> e = a \/ e = b
<1> TAKE a, b, e
<1>1. Len(<<a, b>>) = 2 /\ <<a, b>>[1] = a /\ <<a, b>>[2] = b
  OBVIOUS
<1>2. 1 .. 2 = {1, 2}
  OBVIOUS
<1>3. QED
  BY <1>1, <1>2 DEF Has

(* What a poll that emits es tells, and what it leaves.                    *)
LEMMA EmittedMeans ==
  ASSUME NEW es, Emitted(es)
  PROVE  /\ \A e : Emits(e) <=> Has(es, e)
         /\ pressed' = IF Has(es, "short") THEN TRUE
                       ELSE IF Has(es, "short_rel") \/ Has(es, "long_rel") THEN FALSE ELSE pressed
         /\ longEmitted' = IF Has(es, "long") THEN TRUE
                           ELSE IF Has(es, "short") THEN FALSE ELSE longEmitted
<1>1. (\E i \in 1 .. Len(es) : es[i] \in {"short_rel", "long_rel"})
         <=> Has(es, "short_rel") \/ Has(es, "long_rel")
  BY DEF Has
<1>2. \A e : Emits(e) <=> Has(es, e)
  BY DEF Emitted, Emits, Has
<1>3. QED
  BY <1>1, <1>2 DEF Emitted, Has

LEMMA HasConcat ==
  ASSUME NEW S, NEW s \in Seq(S), NEW u \in Seq(S), NEW e
  PROVE  Has(s \o u, e) <=> Has(s, e) \/ Has(u, e)
<1>1. /\ Len(s) \in Nat /\ Len(u) \in Nat /\ Len(s \o u) = Len(s) + Len(u)
      /\ \A i \in 1 .. Len(s) + Len(u) :
            (s \o u)[i] = IF i <= Len(s) THEN s[i] ELSE u[i - Len(s)]
  BY ConcatProperties
<1>2. ASSUME NEW i \in 1 .. Len(s \o u), (s \o u)[i] = e PROVE Has(s, e) \/ Has(u, e)
  <2>1. CASE i <= Len(s)
    BY <1>1, <1>2, <2>1 DEF Has
  <2>2. CASE ~(i <= Len(s))
    <3>1. i - Len(s) \in 1 .. Len(u) /\ u[i - Len(s)] = e
      BY <1>1, <1>2, <2>2
    <3>2. QED
      BY <3>1 DEF Has
  <2>3. QED
    BY <2>1, <2>2
<1>3. ASSUME NEW i \in 1 .. Len(s), s[i] = e PROVE Has(s \o u, e)
  BY <1>1, <1>3 DEF Has
<1>4. ASSUME NEW i \in 1 .. Len(u), u[i] = e PROVE Has(s \o u, e)
  <2>1. i + Len(s) \in 1 .. Len(s \o u) /\ (s \o u)[i + Len(s)] = e
    BY <1>1, <1>4
  <2>2. QED
    BY <2>1 DEF Has
<1>5. QED
  BY <1>2, <1>3, <1>4 DEF Has

(* A press is no long one yet, though it may be the second of a double one. *)
LEMMA PressEvents ==
  ASSUME NEW t \in Nat, Presses(t)
  PROVE  /\ \A e : Emits(e) => e \in {"short", "double"}
         /\ pressed' = TRUE /\ longEmitted' = FALSE /\ longFired' = FALSE
<1> DEFINE second == IF IsDouble(t) THEN <<"double">> ELSE << >>
           es == <<"short">> \o second \o << >>
<1>1. ~LongNow(t, t, FALSE) /\ longFired' = FALSE
  <2>1. ~LongNow(t, t, FALSE)
    BY ButtonAssumption DEF LongNow
  <2>2. LongNow(t, t, FALSE) = FALSE
    BY <2>1 DEF LongNow
  <2>3. QED
    BY <2>1, <2>2 DEF Presses
<1>2. Emitted(es)
  BY <1>1 DEF Presses, IfLong
<1>3. <<"short">> \in Seq({"short", "double"}) /\ second \in Seq({"short", "double"})
  <2>1. <<"short">> \in Seq({"short", "double"}) /\ <<"double">> \in Seq({"short", "double"})
    OBVIOUS
  <2>2. << >> \in Seq({"short", "double"})
    BY EmptySeq
  <2>3. QED
    BY <2>1, <2>2
<1>4. \A e : Has(second, e) => e = "double"
  BY NothingEmitted, OneEmitted
<1> HIDE DEF second
<1>5. \A e : Has(<<"short">> \o second, e) <=> e = "short" \/ Has(second, e)
  <2> TAKE e
  <2>1. Has(<<"short">> \o second, e) <=> Has(<<"short">>, e) \/ Has(second, e)
    BY <1>3, HasConcat
  <2>2. QED
    BY <2>1, OneEmitted
<1>6. <<"short">> \o second \in Seq({"short", "double"})
  BY <1>3, ConcatProperties
<1>7. \A e : Has(es, e) <=> e = "short" \/ Has(second, e)
  BY <1>5, <1>6, ConcatEmptySeq
<1> HIDE DEF es
<1>8. QED
  BY <1>1, <1>2, <1>4, <1>7, EmittedMeans

LEMMA ReleaseEvents ==
  ASSUME ButtonInv, NEW t \in Nat, Releases(t)
  PROVE  /\ \A e : Emits(e) => pressed /\ e = IF longEmitted THEN "long_rel" ELSE "short_rel"
         /\ pressed' = FALSE
<1>1. CASE pressTime = 0
  <2>1. Emitted(<< >>) /\ ~pressed
    BY <1>1 DEF ButtonInv, Flags, Told, Releases
  <2>2. \A e : ~Emits(e)
    BY <2>1, EmittedMeans, NothingEmitted
  <2>3. pressed' = FALSE
    BY <2>1, EmittedMeans, NothingEmitted DEF ButtonInv, Flags, Told
  <2>4. QED
    BY <2>2, <2>3
<1>2. CASE pressTime # 0 /\ longFired
  <2>1. Emitted(<<"long_rel">>) /\ pressed /\ longEmitted
    BY <1>2 DEF ButtonInv, Flags, Told, Releases
  <2>2. QED
    BY <2>1, EmittedMeans, OneEmitted
<1>3. CASE pressTime # 0 /\ ~longFired
  <2>1. Emitted(<<"short_rel">>) /\ pressed /\ ~longEmitted
    BY <1>3 DEF ButtonInv, Flags, Told, Releases
  <2>2. QED
    BY <2>1, EmittedMeans, OneEmitted
<1>4. QED
  BY <1>1, <1>2, <1>3

LEMMA HoldEvents ==
  ASSUME ButtonInv, NEW t \in Nat, Holds(t)
  PROVE  /\ \A e : Emits(e) => e = "long" /\ stable /\ ~longEmitted
         /\ pressed' = pressed
         /\ stable => longEmitted' = longFired'
<1>1. CASE stable /\ LongNow(t, pressTime, longFired)
  <2>1. Emitted(<<"long">>) /\ ~longFired /\ longFired' = TRUE
    BY <1>1 DEF Holds, IfLong, LongNow, ButtonInv, Flags
  <2>2. QED
    BY <1>1, <2>1, EmittedMeans, OneEmitted DEF ButtonInv, Flags, Told
<1>2. CASE ~(stable /\ LongNow(t, pressTime, longFired))
  <2>1. Emitted(<< >>) /\ longFired' = longFired
    BY <1>2 DEF Holds, IfLong, ButtonInv, Flags
  <2>2. QED
    BY <2>1, EmittedMeans, NothingEmitted DEF ButtonInv, Flags, Told
<1>3. QED
  BY <1>1, <1>2

LEMMA ButtonInitInv == ButtonInit => ButtonInv
<1> SUFFICES ASSUME ButtonInit PROVE ButtonInv
  OBVIOUS
<1>1. Times
  BY ButtonAssumption DEF ButtonInit, Times
<1>2. Flags /\ Told /\ Spaced
  BY DEF ButtonInit, Flags, Told, Spaced
<1>3. QED
  BY <1>1, <1>2 DEF ButtonInv

LEMMA PollInv ==
  ASSUME ButtonInv, NEW t \in Nat, Poll(t) PROVE ButtonInv'
<1>1. now < t /\ now' = t
  BY DEF Poll, Later
<1>2. pin' = pin
  BY DEF Poll
<1>3. Times'
  <2>1. pressTime' \in {pressTime, 0, t} /\ lastPress' \in {t, lastPress}
    BY DEF Poll, Waits, Bounces, Presses, Releases, Holds
  <2>2. debounceUntil' \in {debounceUntil, t + Debounce}
    BY DEF Poll, Waits, Bounces, Presses, Releases, Holds
  <2>3. QED
    BY <1>1, <2>1, <2>2, ButtonAssumption DEF ButtonInv, Times
<1>4. CASE Waits(t) \/ Bounces(t)
  <2>1. pressed' = pressed /\ longEmitted' = longEmitted
    BY <1>4, EmittedMeans, NothingEmitted DEF Waits, Bounces
  <2>2. UNCHANGED <<stable, pressTime, lastPress, longFired>> /\ rawState' \in BOOLEAN
    BY <1>4 DEF Waits, Bounces, ButtonInv, Flags
  <2>3. Flags' /\ Told'
    BY <1>2, <2>1, <2>2 DEF ButtonInv, Flags, Told
  <2>4. ASSUME Waits(t) PROVE Spaced'
    BY <2>2, <2>4 DEF Waits, ButtonInv, Spaced
  <2>5. ASSUME Bounces(t) PROVE Spaced'
    <3>1. debounceUntil' = t + Debounce
      BY <2>5 DEF Bounces
    <3>2. debounceUntil' >= lastPress + Debounce
      BY <1>1, <3>1, ButtonAssumption DEF ButtonInv, Times
    <3>3. QED
      BY <2>2, <3>2 DEF Spaced
  <2>6. QED
    BY <1>3, <1>4, <2>3, <2>4, <2>5 DEF ButtonInv
<1>5. CASE Presses(t)
  <2>1. rawState' = TRUE
    BY <1>5 DEF Presses, Stable, ButtonInv, Flags
  <2>2. t # 0
    BY <1>1 DEF ButtonInv, Times
  <2>3. Flags' /\ Told'
    BY <1>2, <1>5, <2>1, <2>2, PressEvents DEF ButtonInv, Presses, Flags, Told
  <2>4. QED
    BY <1>3, <2>1, <2>3 DEF ButtonInv, Spaced
<1>6. CASE Releases(t)
  <2>1. longEmitted' \in BOOLEAN
    BY <1>6 DEF ButtonInv, Releases, Flags, Emitted
  <2>2. Flags' /\ Told'
    BY <1>2, <1>6, <2>1, ReleaseEvents DEF ButtonInv, Releases, Flags, Told
  <2>3. QED
    BY <1>3, <1>6, <2>2 DEF ButtonInv, Releases, Spaced
<1>7. CASE Holds(t)
  <2>1. longEmitted' \in BOOLEAN /\ longFired' \in BOOLEAN
    BY <1>7 DEF ButtonInv, Holds, Flags, Emitted
  <2>2. Flags' /\ Told'
    BY <1>2, <1>7, <2>1, HoldEvents DEF ButtonInv, Holds, Flags, Told
  <2>3. QED
    BY <1>3, <1>7, <2>2 DEF ButtonInv, Holds, Spaced
<1>8. QED
  BY <1>4, <1>5, <1>6, <1>7 DEF Poll

LEMMA ButtonNextInv == ButtonInv /\ [ButtonNext]_buttonVars => ButtonInv'
<1> SUFFICES ASSUME ButtonInv, [ButtonNext]_buttonVars PROVE ButtonInv'
  OBVIOUS
<1>1. CASE Flip \/ UNCHANGED buttonVars
  <2>1. /\ UNCHANGED <<now, rawState, stable, debounceUntil, pressTime, lastPress, longFired,
                       pressed, longEmitted>>
        /\ pin' \in BOOLEAN
    BY <1>1 DEF Flip, buttonVars, ButtonInv, Flags
  <2>2. QED
    BY <2>1 DEF ButtonInv, Times, Flags, Told, Spaced
<1>2. CASE \E t \in 1 .. MaxTime : Poll(t)
  BY <1>2, PollInv, ButtonAssumption
<1>3. QED
  BY <1>1, <1>2 DEF ButtonNext

LEMMA ButtonInvariant == ButtonSpec => []ButtonInv
<1>1. QED
  BY ButtonInitInv, ButtonNextInv, PTL DEF ButtonSpec

(* Presses and releases are emitted in turn, a debounce apart at least, a  *)
(* long press once per press, and each release tells which press it ends.  *)
THEOREM PressesInTurn == ButtonSpec => InTurn
<1>1. ASSUME ButtonInv, [ButtonNext]_buttonVars
      PROVE  [ /\ Emits("short") => ~pressed
               /\ Emits("short_rel") => pressed /\ ~longEmitted
               /\ Emits("long_rel") => pressed /\ longEmitted
               /\ Emits("long") => ~longEmitted
               /\ Emits("short_rel") \/ Emits("long_rel") => now' - lastPress >= Debounce ]_<<now>>
  <2> SUFFICES ASSUME now' # now
               PROVE  /\ Emits("short") => ~pressed
                      /\ Emits("short_rel") => pressed /\ ~longEmitted
                      /\ Emits("long_rel") => pressed /\ longEmitted
                      /\ Emits("long") => ~longEmitted
                      /\ Emits("short_rel") \/ Emits("long_rel")
                            => now' - lastPress >= Debounce
    OBVIOUS
  <2>1. PICK t \in Nat : Poll(t)
    BY <1>1, ButtonAssumption DEF ButtonNext, Flip, buttonVars
  <2>2. CASE Waits(t) \/ Bounces(t)
    <3>1. \A e : ~Emits(e)
      BY <2>2, EmittedMeans, NothingEmitted DEF Waits, Bounces
    <3>2. QED
      BY <3>1
  <2>3. CASE Presses(t)
    <3>1. \A e : Emits(e) => e \in {"short", "double"}
      BY <2>3, PressEvents
    <3>2. ~pressed
      BY <1>1, <2>3 DEF ButtonInv, Told, Presses
    <3>3. QED
      BY <3>1, <3>2
  <2>4. CASE Releases(t)
    <3>1. \A e : Emits(e) => pressed /\ e = IF longEmitted THEN "long_rel" ELSE "short_rel"
      BY <1>1, <2>4, ReleaseEvents
    <3>2. stable /\ ~rawState /\ ~(t < debounceUntil)
      BY <1>1, <2>4 DEF Releases, Stable, Debouncing, ButtonInv, Flags
    <3>3. debounceUntil >= lastPress + Debounce
      BY <1>1, <3>2 DEF ButtonInv, Spaced
    <3>4. now' = t
      BY <2>1 DEF Poll
    <3>5. now' - lastPress >= Debounce
      BY <1>1, <3>2, <3>3, <3>4, ButtonAssumption DEF ButtonInv, Times
    <3>6. QED
      BY <3>1, <3>5
  <2>5. CASE Holds(t)
    <3>1. \A e : Emits(e) => e = "long" /\ stable /\ ~longEmitted
      BY <1>1, <2>5, HoldEvents
    <3>2. QED
      BY <3>1
  <2>6. QED
    BY <2>1, <2>2, <2>3, <2>4, <2>5 DEF Poll
<1>2. QED
  BY <1>1, ButtonInvariant, PTL DEF ButtonSpec, InTurn

-----------------------------------------------------------------------------
(***************************************************************************)
(* The sensor's history. Each array is a window of the readings that moves *)
(* in three steps; the copy starts at the oldest slot of a full ring and   *)
(* goes round once.                                                        *)
(***************************************************************************)

(* What % BufferSize does to an index below twice the size.                 *)
Wrap(x) == IF x < BufferSize THEN x ELSE x - BufferSize

(* Seen from the index h, an array holds the numbers of the last readings   *)
(* up to the n-th.                                                          *)
RingHolds(field, h, n) ==
    \A i \in 0 .. BufferSize - 1 :
        n - BufferSize + 1 + i >= 1 => field[Wrap(h + i)] = n - BufferSize + 1 + i

Moved == Wrap(head + 1)

(* Each array holds the last readings; the humidity's is one behind between *)
(* the two writes, and head is one behind until it is moved.                *)
RingIsLatest ==
    /\ RingHolds(temperature, IF sampler \in {"humidity", "head"} THEN Moved ELSE head, taken)
    /\ RingHolds(humidity, IF sampler = "head" THEN Moved ELSE head,
                 IF sampler = "humidity" THEN taken - 1 ELSE taken)

Finished == IF sampler = "sleep" THEN taken ELSE taken - 1

(* The count is the number of readings that are complete, up to the size.   *)
CountIsReadings ==
    /\ sampler # "sleep" => taken >= 1
    /\ count = IF Finished < BufferSize THEN Finished ELSE BufferSize

Pairs == (0 .. MaxReadings) \X (0 .. MaxReadings)

(* While no sample is taken meanwhile, what the web server has copied is    *)
(* the beginning of the last BufferSize readings, in order.                 *)
CopyIsLatest ==
    /\ out \in Seq(Pairs) /\ Len(out) = IF server = "humidity" THEN got + 1 ELSE got
    /\ server = "humidity" => got < toRead
    /\ undisturbed /\ server # "idle" => sampler = "sleep" /\ toRead = count
    /\ undisturbed /\ server # "idle" /\ toRead = BufferSize =>
          /\ \A i \in 1 .. got :
                out[i] = <<taken - BufferSize + i, taken - BufferSize + i>>
          /\ server = "humidity" => out[got + 1][1] = taken - BufferSize + got + 1

DhtInv == DhtTypeOK /\ RingIsLatest /\ CountIsReadings /\ CopyIsLatest

-----------------------------------------------------------------------------
(* The remainder by the size is the wrapped index.                          *)
LEMMA WrapIsMod ==
    ASSUME NEW x \in 0 .. 2 * BufferSize - 1
    PROVE  x % BufferSize = Wrap(x) /\ Wrap(x) \in Slots
<1>1. BufferSize \in Nat \ {0}
  BY DhtAssumption
<1>2. CASE x < BufferSize
  BY <1>1, <1>2 DEF Wrap, Slots
<1>3. CASE x >= BufferSize
  <2>1. x % BufferSize = x - BufferSize
    BY <1>1, <1>3
  <2>2. QED
    BY <1>1, <1>3, <2>1 DEF Wrap, Slots
<1>4. QED
  BY <1>1, <1>2, <1>3

(* Writing the next reading at the head and moving it keeps the array the   *)
(* last readings.                                                           *)
LEMMA RingAdvances ==
    ASSUME NEW field \in [Slots -> Nat], NEW h \in Slots, NEW n \in Nat,
           RingHolds(field, h, n),
           NEW new, new = [field EXCEPT ![h] = n + 1]
    PROVE  RingHolds(new, Wrap(h + 1), n + 1)
<1>0. BufferSize \in Nat \ {0} /\ h \in 0 .. BufferSize - 1
  BY DhtAssumption DEF Slots
<1> SUFFICES ASSUME NEW i \in 0 .. BufferSize - 1,
                    n + 1 - BufferSize + 1 + i >= 1
             PROVE  new[Wrap(Wrap(h + 1) + i)] = n + 1 - BufferSize + 1 + i
  BY <1>0 DEF RingHolds
<1>1. CASE i = BufferSize - 1
  <2>1. Wrap(Wrap(h + 1) + i) = h
    BY <1>0, <1>1 DEF Wrap
  <2>2. new[h] = n + 1
    OBVIOUS
  <2>3. QED
    BY <1>0, <1>1, <2>1, <2>2
<1>2. CASE i # BufferSize - 1
  <2>1. i + 1 \in 0 .. BufferSize - 1
    BY <1>0, <1>2
  <2>2. field[Wrap(h + (i + 1))] = n - BufferSize + 1 + (i + 1)
    BY <1>0, <2>1 DEF RingHolds
  <2>3. Wrap(Wrap(h + 1) + i) = Wrap(h + (i + 1))
    BY <1>0, <2>1 DEF Wrap
  <2>4. Wrap(h + (i + 1)) # h
    BY <1>0, <2>1 DEF Wrap
  <2>5. Wrap(h + (i + 1)) \in Slots
    BY <1>0, <2>1 DEF Wrap, Slots
  <2>6. new[Wrap(h + (i + 1))] = field[Wrap(h + (i + 1))]
    BY <2>4, <2>5
  <2>7. QED
    BY <1>0, <2>2, <2>3, <2>6
<1>3. QED
  BY <1>1, <1>2

(* In a full ring the copy starts at the oldest reading.                    *)
LEMMA IndexOfFull ==
    ASSUME DhtTypeOK, toRead = BufferSize, count = toRead, got < toRead
    PROVE  Index(head, count, toRead, got) = Wrap(head + got)
<1>1. BufferSize \in Nat \ {0} /\ head \in 0 .. BufferSize - 1 /\ got \in 0 .. BufferSize - 1
  BY DhtAssumption DEF DhtTypeOK, Slots
<1>2. head + count - toRead + got = head + got /\ head + got \in 0 .. 2 * BufferSize - 1
  BY <1>1
<1>3. QED
  BY <1>2, WrapIsMod DEF Index

LEMMA IndexIsSlot ==
    ASSUME DhtTypeOK
    PROVE  Index(head, count, toRead, got) \in Slots
BY DhtAssumption DEF DhtTypeOK, Slots, Index

(* The i-th slot copied from a full ring holds the i-th of the last         *)
(* readings.                                                                *)
LEMMA RingIsCopied ==
    ASSUME DhtInv, undisturbed, server # "idle", toRead = BufferSize, got < toRead
    PROVE  /\ temperature[Index(head, count, toRead, got)] = taken - BufferSize + got + 1
           /\ humidity[Index(head, count, toRead, got)] = taken - BufferSize + got + 1
<1>1. sampler = "sleep" /\ count = toRead
  BY DEF DhtInv, CopyIsLatest
<1>2. Index(head, count, toRead, got) = Wrap(head + got)
  BY <1>1, IndexOfFull DEF DhtInv
<1>3. /\ BufferSize \in Nat \ {0} /\ got \in 0 .. BufferSize - 1 /\ taken \in Nat
      /\ taken >= BufferSize
  BY <1>1, DhtAssumption DEF DhtInv, DhtTypeOK, CountIsReadings, Finished
<1>4. taken - BufferSize + 1 + got >= 1
  BY <1>3
<1>5. RingHolds(temperature, head, taken) /\ RingHolds(humidity, head, taken)
  BY <1>1 DEF DhtInv, RingIsLatest
<1>6. QED
  BY <1>2, <1>3, <1>4, <1>5 DEF RingHolds

-----------------------------------------------------------------------------
LEMMA DhtStart == DhtInit => DhtInv
<1> SUFFICES ASSUME DhtInit
             PROVE  DhtInv
  OBVIOUS
<1>1. BufferSize \in Nat \ {0} /\ MaxReadings \in Nat
  BY DhtAssumption
<1>2. DhtTypeOK
  BY <1>1 DEF DhtInit, DhtTypeOK, Slots
<1>3. RingIsLatest
  BY <1>1 DEF DhtInit, RingIsLatest, RingHolds
<1>4. CountIsReadings
  BY <1>1 DEF DhtInit, CountIsReadings, Finished
<1>5. CopyIsLatest
  BY <1>1 DEF DhtInit, CopyIsLatest
<1>6. QED
  BY <1>2, <1>3, <1>4, <1>5 DEF DhtInv

LEMMA SamplingStep ==
    ASSUME DhtInv, Sample
    PROVE  DhtInv'
<1> USE DEF DhtInv
<1>0. /\ BufferSize \in Nat \ {0} /\ MaxReadings \in Nat /\ head \in Slots
      /\ taken \in 0 .. MaxReadings /\ count \in 0 .. BufferSize
  BY DhtAssumption DEF DhtTypeOK
<1>1. /\ UNCHANGED reader /\ undisturbed' = FALSE
  BY DEF Sample, StoreTemperature, StoreHumidity, AdvanceHead, CountReading
<1>2. CopyIsLatest'
  BY <1>1 DEF CopyIsLatest, reader
<1>3. head + 1 \in 0 .. 2 * BufferSize - 1
  BY <1>0 DEF Slots
<1>4. (head + 1) % BufferSize = Moved /\ Moved \in Slots
  BY <1>3, WrapIsMod DEF Moved
<1>5. DhtTypeOK'
  <2>1. CASE StoreTemperature
    BY <1>0, <1>1, <2>1 DEF StoreTemperature, DhtTypeOK, reader
  <2>2. CASE StoreHumidity
    BY <1>0, <1>1, <2>2 DEF StoreHumidity, DhtTypeOK, reader
  <2>3. CASE AdvanceHead
    BY <1>0, <1>1, <1>4, <2>3 DEF AdvanceHead, DhtTypeOK, reader
  <2>4. CASE CountReading
    BY <1>0, <1>1, <2>4 DEF CountReading, DhtTypeOK, reader
  <2>5. QED
    BY <2>1, <2>2, <2>3, <2>4 DEF Sample
<1>6. CountIsReadings'
  BY <1>0 DEF Sample, StoreTemperature, StoreHumidity, AdvanceHead, CountReading,
              CountIsReadings, Finished
<1>7. temperature \in [Slots -> Nat] /\ humidity \in [Slots -> Nat]
  BY <1>0 DEF DhtTypeOK
<1>8. RingIsLatest'
  <2>1. CASE StoreTemperature
    <3>1. RingHolds(temperature, head, taken) /\ RingHolds(humidity, head, taken)
      BY <2>1 DEF StoreTemperature, RingIsLatest
    <3>2. RingHolds(temperature', Moved, taken + 1)
      <4>1. taken \in Nat /\ temperature' = [temperature EXCEPT ![head] = taken + 1]
        BY <1>0, <2>1 DEF StoreTemperature
      <4>2. QED
        BY <1>0, <1>7, <3>1, <4>1, RingAdvances DEF Moved
    <3>3. /\ sampler' = "humidity" /\ taken' = taken + 1 /\ Moved' = Moved
          /\ head' = head /\ humidity' = humidity /\ taken' - 1 = taken
      BY <1>0, <2>1 DEF StoreTemperature, Moved
    <3>4. QED
      BY <3>1, <3>2, <3>3 DEF RingIsLatest
  <2>2. CASE StoreHumidity
    <3>1. RingHolds(temperature, Moved, taken) /\ RingHolds(humidity, head, taken - 1)
      BY <2>2 DEF StoreHumidity, RingIsLatest
    <3>2. taken - 1 \in Nat /\ (taken - 1) + 1 = taken
      BY <1>0, <2>2 DEF StoreHumidity, CountIsReadings
    <3>3. RingHolds(humidity', Moved, taken)
      BY <1>0, <1>7, <2>2, <3>1, <3>2, RingAdvances DEF StoreHumidity, Moved
    <3>4. /\ sampler' = "head" /\ taken' = taken /\ Moved' = Moved
          /\ temperature' = temperature
      BY <2>2 DEF StoreHumidity, Moved
    <3>5. QED
      BY <3>1, <3>3, <3>4 DEF RingIsLatest
  <2>3. CASE AdvanceHead
    BY <1>4, <2>3 DEF AdvanceHead, RingIsLatest
  <2>4. CASE CountReading
    BY <2>4 DEF CountReading, RingIsLatest
  <2>5. QED
    BY <2>1, <2>2, <2>3, <2>4 DEF Sample
<1>9. QED
  BY <1>2, <1>5, <1>6, <1>8

LEMMA CopyingStep ==
    ASSUME DhtInv, GetHistory
    PROVE  DhtInv'
<1> USE DEF DhtInv
<1>0. /\ BufferSize \in Nat \ {0} /\ MaxReadings \in Nat
      /\ count \in 0 .. BufferSize /\ toRead \in 0 .. BufferSize /\ got \in 0 .. toRead
      /\ out \in Seq(Pairs)
  BY DhtAssumption DEF DhtTypeOK, CopyIsLatest
<1>1. UNCHANGED <<ring, sampler, taken>>
  BY DEF GetHistory, BeginCopy, CopyTemperature, CopyHumidity, EndCopy
<1>2. RingIsLatest' /\ CountIsReadings'
  BY <1>1 DEF RingIsLatest, CountIsReadings, Finished, Moved, ring
<1> DEFINE slot == Index(head, count, toRead, got)
<1>3. temperature[slot] \in 0 .. MaxReadings /\ humidity[slot] \in 0 .. MaxReadings
  BY IndexIsSlot DEF DhtTypeOK
<1>4. CASE BeginCopy
  <2>1. DhtTypeOK'
    BY <1>0, <1>1, <1>4 DEF BeginCopy, DhtTypeOK, ring
  <2>2. CopyIsLatest'
    <3>1. /\ server' = "temperature" /\ toRead' = count /\ count' = count /\ got' = 0
          /\ undisturbed' => sampler' = "sleep"
      BY <1>1, <1>4 DEF BeginCopy, ring
    <3>2. out' \in Seq(Pairs) /\ Len(out') = 0
      BY <1>4 DEF BeginCopy
    <3>3. QED
      BY <3>1, <3>2 DEF CopyIsLatest
  <2>3. QED
    BY <1>2, <2>1, <2>2
<1>5. CASE CopyTemperature
  <2> DEFINE entry == <<temperature[slot], 0>>
  <2>1. /\ server = "temperature" /\ got < toRead /\ server' = "humidity"
        /\ out' = Append(out, entry) /\ UNCHANGED <<toRead, got, undisturbed>>
        /\ Len(out) = got
    BY <1>5 DEF CopyTemperature, CopyIsLatest
  <2>2. entry \in Pairs
    BY <1>0, <1>3 DEF Pairs
  <2>3. /\ out' \in Seq(Pairs) /\ Len(out') = got + 1 /\ out'[got + 1] = entry
        /\ \A i \in 1 .. got : out'[i] = out[i]
    BY <1>0, <2>1, <2>2
  <2>4. DhtTypeOK'
    BY <1>0, <1>1, <2>1, <2>3 DEF DhtTypeOK, ring
  <2>5. undisturbed /\ toRead = BufferSize => entry[1] = taken - BufferSize + got + 1
    BY <2>1, RingIsCopied
  <2>6. CopyIsLatest'
    BY <1>0, <1>1, <2>1, <2>3, <2>5 DEF CopyIsLatest, ring
  <2>7. QED
    BY <1>2, <2>4, <2>6
<1>6. CASE CopyHumidity
  <2>1. /\ server = "humidity" /\ got < toRead /\ server' = "temperature"
        /\ out' = [out EXCEPT ![got + 1][2] = humidity[slot]]
        /\ got' = got + 1 /\ UNCHANGED <<toRead, undisturbed>>
        /\ Len(out) = got + 1
    BY <1>6 DEF CopyHumidity, CopyIsLatest
  <2>2. out[got + 1] \in Pairs
    BY <1>0, <2>1
  <2> DEFINE entry == <<out[got + 1][1], humidity[slot]>>
  <2>3. entry = [out[got + 1] EXCEPT ![2] = humidity[slot]] /\ entry \in Pairs
    BY <1>3, <2>2 DEF Pairs
  <2>4. out' = [out EXCEPT ![got + 1] = entry]
    BY <2>1, <2>3
  <2>5. /\ out' \in Seq(Pairs) /\ Len(out') = got + 1 /\ out'[got + 1] = entry
        /\ \A i \in 1 .. got : out'[i] = out[i]
    BY <1>0, <2>1, <2>3, <2>4
  <2>6. DhtTypeOK'
    BY <1>0, <1>1, <2>1, <2>5 DEF DhtTypeOK, ring
  <2>7. undisturbed /\ toRead = BufferSize =>
          entry = <<taken - BufferSize + (got + 1), taken - BufferSize + (got + 1)>>
    <3>1. undisturbed /\ toRead = BufferSize =>
            /\ humidity[slot] = taken - BufferSize + got + 1
            /\ out[got + 1][1] = taken - BufferSize + got + 1
      BY <2>1, RingIsCopied DEF CopyIsLatest
    <3>2. taken - BufferSize + got + 1 = taken - BufferSize + (got + 1)
      BY <1>0 DEF DhtTypeOK
    <3>3. QED
      BY <3>1, <3>2
  <2>8. CopyIsLatest'
    BY <1>0, <1>1, <2>1, <2>5, <2>7 DEF CopyIsLatest, ring
  <2>9. QED
    BY <1>2, <2>6, <2>8
<1>7. CASE EndCopy
  <2>1. DhtTypeOK'
    BY <1>1, <1>7 DEF EndCopy, DhtTypeOK, ring
  <2>2. CopyIsLatest'
    BY <1>1, <1>7 DEF EndCopy, CopyIsLatest, ring
  <2>3. QED
    BY <1>2, <2>1, <2>2
<1>8. QED
  BY <1>4, <1>5, <1>6, <1>7 DEF GetHistory

LEMMA DhtStep ==
    ASSUME DhtInv, [Sample \/ GetHistory]_dhtVars
    PROVE  DhtInv'
<1>1. CASE UNCHANGED dhtVars
  BY <1>1 DEF dhtVars, ring, reader, DhtInv, DhtTypeOK, RingIsLatest, RingHolds, Moved, CountIsReadings,
              Finished, CopyIsLatest
<1>2. QED
  BY <1>1, SamplingStep, CopyingStep

(* The sampling task and the web server keep the invariant, for any size of *)
(* the ring and any number of readings.                                     *)
THEOREM DhtInvariant == DhtSpec => []DhtInv
<1>1. DhtInit => DhtInv
  BY DhtStart
<1>2. DhtInv /\ [Sample \/ GetHistory]_dhtVars => DhtInv'
  BY DhtStep
<1>3. QED
  BY <1>1, <1>2, PTL DEF DhtSpec

(* A history that was copied undisturbed from a full ring is the last       *)
(* readings, in order, each temperature with its own humidity               *)
(* (dht11_get_history).                                                     *)
THEOREM FullHistoryIsLatest == DhtSpec => []HistoryWhenFull
<1>1. DhtInv => HistoryWhenFull
  <2> SUFFICES ASSUME DhtInv, Copied, undisturbed, toRead = BufferSize
               PROVE  out = Latest(BufferSize)
    BY DEF HistoryWhenFull
  <2>1. /\ out \in Seq(Pairs) /\ Len(out) = BufferSize /\ BufferSize \in Nat
        /\ \A i \in 1 .. BufferSize :
              out[i] = <<taken - BufferSize + i, taken - BufferSize + i>>
    BY DhtAssumption DEF DhtInv, CopyIsLatest, Copied
  <2>2. out = [i \in 1 .. BufferSize |-> out[i]]
    BY <2>1
  <2>3. QED
    BY <2>1, <2>2 DEF Latest
<1>2. QED
  BY <1>1, DhtInvariant, PTL

-----------------------------------------------------------------------------
(***************************************************************************)
(* The WebSocket clients. A broadcast goes through the registry while      *)
(* pages leave and fail: a page is either ahead of the place it has come   *)
(* to or has been sent the last reading.                                   *)
(***************************************************************************)

Indices(c) == 1 .. Len(c)
Distinct(c) == \A i, j \in Indices(c) : c[i] = c[j] => i = j
Registers(c, f) == \E i \in Indices(c) : c[i] = f

Readings == 0 .. MaxPublished
Frames == {NoFrame} \cup [temp : Readings, hum : Readings, led : BOOLEAN]

(* The types, and what a frame is.                                          *)
WsTypes ==
    /\ WsTypeOK
    /\ frame \in Frames /\ page \in [Fds -> Frames] /\ ledState \in BOOLEAN

(* A broadcast that is queued is one of a humidity that came; the humidity  *)
(* comes after its temperature.                                             *)
WorksFollowReadings ==
    /\ works <= lastHum
    /\ lastTemp = lastHum \/ lastTemp = lastHum + 1

(* A page that shook hands and was not dropped.                             *)
Served(f) == session[f] = "ws" /\ f \notin dropped

(* A served page is registered, and nobody twice.                           *)
NobodyLost == Distinct(clients) /\ \A f \in Fds : Served(f) => Registers(clients, f)

Fresh(p) == p.temp = lastTemp /\ p.hum = lastHum
Settled == works = 0 /\ lastTemp = lastHum

(* A served page that no failure has left behind.                           *)
Followed(f) == Served(f) /\ f \notin behind

(* When nothing is queued and no reading is half published, a served page   *)
(* that was not left behind shows the last reading, or a broadcast of it    *)
(* has yet to reach it. A broadcast under way has another one only when all *)
(* have been left behind since.                                             *)
PagesAreFresh ==
    Settled =>
        /\ ~Free /\ ~Fresh(frame) => \A f \in Fds : ~Followed(f)
        /\ \A f \in Fds : Followed(f) =>
              Fresh(page[f]) \/ (~Free /\ \E i \in Indices(clients) : i >= place /\ clients[i] = f)

WsInv == WsTypes /\ WorksFollowReadings /\ NobodyLost /\ PagesAreFresh

-----------------------------------------------------------------------------
(* A snapshot is a frame, and never the missing one.                        *)
LEMMA SnapshotIsFrame ==
    ASSUME WsTypes
    PROVE  Snapshot \in Frames /\ Snapshot # NoFrame
<1>1. Snapshot \in Frames
  BY DEF WsTypes, WsTypeOK, Snapshot, Frames, Readings
<1>2. "none" \in DOMAIN NoFrame /\ "none" \notin DOMAIN Snapshot
  BY DEF NoFrame, Snapshot
<1>3. QED
  BY <1>1, <1>2

(* Removing a client that is registered once moves those after it up and    *)
(* nothing else.                                                            *)
LEMMA WithoutOne ==
    ASSUME NEW c \in Seq(Fds), Distinct(c), NEW p \in Indices(c)
    PROVE  /\ Without(c, c[p]) \in Seq(Fds)
           /\ Len(Without(c, c[p])) = Len(c) - 1
           /\ \A k \in 1 .. Len(c) - 1 :
                 Without(c, c[p])[k] = IF k < p THEN c[k] ELSE c[k + 1]
<1>1. p \in 1..Len(c) /\ c[p] = c[p] /\ \A j \in 1..(p - 1) : c[j] # c[p]
  BY DEF Distinct, Indices
<1>2. FirstOf(c, c[p]) \in 1..Len(c) /\ c[FirstOf(c, c[p])] = c[p]
  BY <1>1 DEF FirstOf
<1>3. FirstOf(c, c[p]) = p
  BY <1>1, <1>2 DEF Distinct, Indices
<1>4. Without(c, c[p]) = SubSeq(c, 1, p - 1) \o SubSeq(c, p + 1, Len(c))
  BY <1>1, <1>3 DEF Without
<1>5. /\ SubSeq(c, 1, p - 1) \in Seq(Fds) /\ Len(SubSeq(c, 1, p - 1)) = p - 1
      /\ \A k \in 1 .. p - 1 : SubSeq(c, 1, p - 1)[k] = c[k]
  BY <1>1
<1>6. /\ SubSeq(c, p + 1, Len(c)) \in Seq(Fds) /\ Len(SubSeq(c, p + 1, Len(c))) = Len(c) - p
      /\ \A k \in 1 .. Len(c) - p : SubSeq(c, p + 1, Len(c))[k] = c[p + k]
  BY <1>1
<1> DEFINE a == SubSeq(c, 1, p - 1)
<1> DEFINE b == SubSeq(c, p + 1, Len(c))
<1>a. a \in Seq(Fds) /\ b \in Seq(Fds) /\ Len(a) = p - 1 /\ Len(b) = Len(c) - p
  BY <1>5, <1>6
<1> HIDE DEF a, b
<1>7. /\ a \o b \in Seq(Fds) /\ Len(a \o b) = (p - 1) + (Len(c) - p)
      /\ \A k \in 1 .. Len(c) - 1 : (a \o b)[k] = IF k <= p - 1 THEN a[k] ELSE b[k - (p - 1)]
  <2>1. /\ a \o b \in Seq(Fds) /\ Len(a \o b) = Len(a) + Len(b)
        /\ \A k \in 1 .. Len(a) + Len(b) :
              (a \o b)[k] = IF k <= Len(a) THEN a[k] ELSE b[k - Len(a)]
    BY <1>a, ConcatProperties
  <2>2. (p - 1) + (Len(c) - p) = Len(c) - 1
    BY <1>1
  <2>3. QED
    BY <1>a, <2>1, <2>2
<1>8. \A k \in 1 .. Len(c) - 1 : (a \o b)[k] = IF k < p THEN c[k] ELSE c[k + 1]
  <2> SUFFICES ASSUME NEW k \in 1 .. Len(c) - 1
               PROVE  (a \o b)[k] = IF k < p THEN c[k] ELSE c[k + 1]
    OBVIOUS
  <2>1. CASE k < p
    BY <1>1, <1>5, <1>7, <2>1 DEF a
  <2>2. CASE k >= p
    <3>1. k - (p - 1) \in 1 .. Len(c) - p /\ p + (k - (p - 1)) = k + 1
      BY <1>1, <2>2
    <3>2. (a \o b)[k] = b[k - (p - 1)]
      BY <1>1, <1>7, <2>2
    <3>3. b[k - (p - 1)] = c[p + (k - (p - 1))]
      BY <1>6, <3>1 DEF b
    <3>4. ~(k < p) /\ (a \o b)[k] = c[k + 1]
      BY <1>1, <2>2, <3>1, <3>2, <3>3
    <3>5. QED
      BY <3>4
  <2>3. k < p \/ k >= p
    BY <1>1
  <2>4. QED
    BY <2>1, <2>2, <2>3
<1>9. Without(c, c[p]) = a \o b /\ (p - 1) + (Len(c) - p) = Len(c) - 1
  BY <1>1, <1>4 DEF a, b
<1>10. QED
  BY <1>7, <1>8, <1>9

(* Whoever else was registered still is, and nobody twice.                  *)
LEMMA WithoutKeepsOthers ==
    ASSUME NEW c \in Seq(Fds), Distinct(c), NEW f \in Fds
    PROVE  /\ Without(c, f) \in Seq(Fds) /\ Distinct(Without(c, f))
           /\ Len(Without(c, f)) <= Len(c)
           /\ \A g \in Fds : g # f /\ Registers(c, g) => Registers(Without(c, f), g)
<1>1. CASE \A i \in 1..Len(c) : c[i] # f
  BY <1>1 DEF Without
<1>2. ASSUME NEW p \in Indices(c), c[p] = f
      PROVE  /\ Without(c, f) \in Seq(Fds) /\ Distinct(Without(c, f))
             /\ Len(Without(c, f)) <= Len(c)
             /\ \A g \in Fds : g # f /\ Registers(c, g) => Registers(Without(c, f), g)
  <2> DEFINE w == Without(c, f)
  <2>1. /\ w \in Seq(Fds) /\ Len(w) = Len(c) - 1 /\ Len(c) \in Nat
        /\ \A k \in 1 .. Len(c) - 1 : w[k] = IF k < p THEN c[k] ELSE c[k + 1]
    BY <1>2, WithoutOne
  <2> HIDE DEF w
  <2>2. Distinct(w)
    <3> DEFINE from(k) == IF k < p THEN k ELSE k + 1
    <3>1. ASSUME NEW i \in 1 .. Len(c) - 1, NEW j \in 1 .. Len(c) - 1, w[i] = w[j]
          PROVE  i = j
      <4>1. from(i) \in Indices(c) /\ w[i] = c[from(i)]
        BY <2>1 DEF Indices
      <4>2. from(j) \in Indices(c) /\ w[j] = c[from(j)]
        BY <2>1 DEF Indices
      <4>3. from(i) = from(j)
        BY <3>1, <4>1, <4>2 DEF Distinct
      <4>4. QED
        BY <2>1, <4>3 DEF Indices
    <3>2. QED
      BY <2>1, <3>1 DEF Distinct, Indices
  <2>3. ASSUME NEW g \in Fds, g # f, Registers(c, g)
        PROVE  Registers(w, g)
    <3>1. PICK i \in Indices(c) : c[i] = g
      BY <2>3 DEF Registers
    <3>2. CASE i < p
      BY <2>1, <3>1, <3>2 DEF Registers, Indices
    <3>3. CASE i > p
      <4>1. i - 1 \in 1 .. Len(c) - 1 /\ w[i - 1] = c[(i - 1) + 1] /\ (i - 1) + 1 = i
        BY <2>1, <3>1, <3>3 DEF Indices
      <4>2. QED
        BY <2>1, <3>1, <4>1 DEF Registers, Indices
    <3>4. i # p
      BY <1>2, <2>3, <3>1
    <3>5. QED
      BY <3>2, <3>3, <3>4 DEF Indices
  <2>4. QED
    BY <2>1, <2>2, <2>3 DEF w
<1>3. QED
  BY <1>1, <1>2 DEF Indices

(* A client that is added to a registry with room is registered, and nobody *)
(* twice.                                                                   *)
LEMMA AddedIsRegistered ==
    ASSUME WsTypes, Distinct(clients), NEW f \in Fds
    PROVE  /\ Added(f) \in Seq(Fds) /\ Distinct(Added(f)) /\ Len(Added(f)) <= ClientsMax
           /\ \A g \in Fds : Registers(clients, g) => Registers(Added(f), g)
           /\ ~Refused(f) => Registers(Added(f), f)
<1>1. clients \in Seq(Fds) /\ Len(clients) <= ClientsMax /\ ClientsMax \in Nat
  BY WsAssumption DEF WsTypes, WsTypeOK
<1>2. f \in Registered <=> Registers(clients, f)
  BY DEF Registered, Registers, Indices
<1>3. CASE f \in Registered \/ Len(clients) >= ClientsMax
  BY <1>1, <1>2, <1>3 DEF Added, Refused
<1>4. CASE ~(f \in Registered \/ Len(clients) >= ClientsMax)
  <2> DEFINE a == Append(clients, f)
  <2>1. /\ Added(f) = a /\ a \in Seq(Fds) /\ Len(a) = Len(clients) + 1 /\ a[Len(clients) + 1] = f
        /\ \A i \in Indices(clients) : a[i] = clients[i]
    BY <1>1, <1>4 DEF Added, Indices
  <2> HIDE DEF a
  <2>2. Distinct(a)
    BY <1>1, <1>2, <1>4, <2>1 DEF Distinct, Registers, Indices
  <2>3. \A g \in Fds : Registers(clients, g) => Registers(a, g)
    BY <1>1, <2>1 DEF Registers, Indices
  <2>4. Registers(a, f)
    BY <1>1, <2>1 DEF Registers, Indices
  <2>5. QED
    BY <1>1, <1>4, <2>1, <2>2, <2>3, <2>4
<1>5. QED
  BY <1>3, <1>4

-----------------------------------------------------------------------------
LEMMA WsStart == WsInit => WsInv
<1> SUFFICES ASSUME WsInit
             PROVE  WsInv
  OBVIOUS
<1>1. clients \in Seq(Fds) /\ Len(clients) = 0
  BY DEF WsInit
<1>2. WsTypes
  <2>1. /\ session \in [Fds -> {"free", "http", "ws", "closing"}]
        /\ frame \in Frames /\ page \in [Fds -> Frames] /\ ledState \in BOOLEAN
    BY DEF WsInit, Frames
  <2>2. QED
    BY <1>1, <2>1, WsAssumption DEF WsInit, WsTypes, WsTypeOK
<1>3. NobodyLost /\ WorksFollowReadings
  BY <1>1 DEF WsInit, NobodyLost, Distinct, Served, Indices, WorksFollowReadings
<1>4. PagesAreFresh
  BY DEF WsInit, PagesAreFresh, Followed, Served, Free
<1>5. QED
  BY <1>2, <1>3, <1>4 DEF WsInv

LEMMA SessionSteps ==
    ASSUME WsInv, NEW f \in Fds, ConnectPage(f) \/ SessionEnds(f)
    PROVE  WsInv'
<1> USE DEF WsInv
<1>1. /\ UNCHANGED <<clients, lastTemp, lastHum, works, frame, place, ledState, sendFailures>>
      /\ session' \in [Fds -> {"free", "http", "ws", "closing"}] /\ page' \in [Fds -> Frames]
      /\ dropped' \subseteq Fds /\ behind' \subseteq Fds
  BY DEF ConnectPage, SessionEnds, WsTypes, WsTypeOK, Frames
<1>2. \A g \in Fds : /\ Served(g)' => Served(g) /\ page'[g] = page[g]
                     /\ Followed(g)' => Followed(g)
  BY DEF ConnectPage, SessionEnds, WsTypes, WsTypeOK, Served, Followed
<1>3. WsTypes' /\ WorksFollowReadings'
  BY <1>1 DEF WsTypes, WsTypeOK, WorksFollowReadings, Frames
<1>4. NobodyLost' /\ PagesAreFresh'
  <2>1. \A g \in Fds : Followed(g)' => page'[g] = page[g]
    BY <1>2 DEF Followed
  <2>2. QED
    BY <1>1, <1>2, <2>1 DEF NobodyLost, PagesAreFresh, Settled, Free, Fresh
<1>5. QED
  BY <1>3, <1>4

LEMMA HandshakeStep ==
    ASSUME WsInv, NEW f \in Fds, Handshake(f) \/ HandshakeNoMemory(f)
    PROVE  WsInv'
<1> USE DEF WsInv
<1>1. /\ UNCHANGED <<lastTemp, lastHum, works, frame, place, ledState, dropped>>
      /\ clients' = Added(f) /\ Free
      /\ session' = [session EXCEPT ![f] = IF Refused(f) THEN "closing" ELSE "ws"]
      /\ \/ /\ page' = [page EXCEPT ![f] = Snapshot] /\ behind' = behind \ {f}
            /\ sendFailures' = sendFailures
         \/ /\ page' = page /\ behind' = behind \cup {f}
            /\ sendFailures < MaxSendFailures /\ sendFailures' = sendFailures + 1
  BY DEF Handshake, HandshakeNoMemory
<1>2. WsTypes' /\ WorksFollowReadings'
  <2>1. page' \in [Fds -> Frames] /\ behind' \subseteq Fds /\ sendFailures' \in 0..MaxSendFailures
    BY <1>1, SnapshotIsFrame, WsAssumption DEF WsTypes, WsTypeOK
  <2>2. QED
    BY <1>1, <2>1, AddedIsRegistered DEF NobodyLost, WsTypes, WsTypeOK, WorksFollowReadings, Frames
<1>3. \A g \in Fds : Served(g)' => IF g = f THEN ~Refused(f) ELSE Served(g)
  BY <1>1 DEF Served, WsTypes, WsTypeOK
<1>4. NobodyLost'
  BY <1>1, <1>3, AddedIsRegistered DEF NobodyLost
<1>5. PagesAreFresh'
  <2>1. Fresh(Snapshot)
    BY DEF Fresh, Snapshot
  <2>2. \A g \in Fds : Followed(g)' => IF g = f THEN page'[g] = Snapshot ELSE Followed(g) /\ page'[g] = page[g]
    BY <1>1, <1>3 DEF Followed, WsTypes
  <2>3. \A g \in Fds : Followed(g)' => Fresh(page'[g]) \/ (Followed(g) /\ page'[g] = page[g])
    BY <2>1, <2>2
  <2>4. QED
    BY <1>1, <2>3 DEF PagesAreFresh, Settled, Free, Fresh
<1>6. QED
  BY <1>2, <1>4, <1>5

LEMMA UnsentStep ==
    ASSUME WsInv, NEW f \in Fds, HandshakeUnsent(f)
    PROVE  WsInv'
<1> USE DEF WsInv
<1>1. /\ UNCHANGED <<lastTemp, lastHum, works, frame, place, ledState, page, behind>>
      /\ clients' = Without(Added(f), f) /\ Free
      /\ session' = [session EXCEPT ![f] = IF Refused(f) THEN "closing" ELSE "ws"]
      /\ dropped' = dropped \cup {f}
      /\ sendFailures < MaxSendFailures /\ sendFailures' = sendFailures + 1
  BY DEF HandshakeUnsent
<1>2. /\ Added(f) \in Seq(Fds) /\ Distinct(Added(f)) /\ Len(Added(f)) <= ClientsMax
      /\ \A g \in Fds : Registers(clients, g) => Registers(Added(f), g)
  BY AddedIsRegistered DEF NobodyLost
<1>3. /\ clients' \in Seq(Fds) /\ Distinct(clients') /\ Len(clients') <= Len(Added(f))
      /\ \A g \in Fds : g # f /\ Registers(Added(f), g) => Registers(clients', g)
  BY <1>1, <1>2, WithoutKeepsOthers
<1>4. WsTypes' /\ WorksFollowReadings'
  BY <1>1, <1>2, <1>3, WsAssumption DEF WsTypes, WsTypeOK, WorksFollowReadings, Frames
<1>5. \A g \in Fds : Served(g)' => g # f /\ Served(g)
  BY <1>1 DEF Served, WsTypes, WsTypeOK
<1>6. \A g \in Fds : Followed(g)' => Followed(g)
  BY <1>1, <1>5 DEF Followed
<1>7. NobodyLost' /\ PagesAreFresh'
  BY <1>1, <1>2, <1>3, <1>5, <1>6 DEF NobodyLost, PagesAreFresh, Settled, Free, Fresh
<1>8. QED
  BY <1>4, <1>7

LEMMA ReadingSteps ==
    ASSUME WsInv, PostLed \/ PublishTemp \/ PublishHum \/ ApStops
    PROVE  WsInv'
<1> USE DEF WsInv
<1>1. UNCHANGED <<session, clients, frame, place, page, dropped, behind, sendFailures>>
  BY DEF PostLed, PublishTemp, PublishHum, ApStops, PassedName, ExpectedName
<1>2. WsTypes' /\ WorksFollowReadings'
  <2>1. CASE PostLed \/ ApStops
    BY <1>1, <2>1 DEF PostLed, ApStops, WsTypes, WsTypeOK, WorksFollowReadings, Frames
  <2>2. CASE PublishTemp
    BY <1>1, <2>2, WsAssumption DEF PublishTemp, WsTypes, WsTypeOK, WorksFollowReadings, Frames
  <2>3. CASE PublishHum
    BY <1>1, <2>3, WsAssumption DEF PublishHum, WsTypes, WsTypeOK, WorksFollowReadings, Frames
  <2>4. QED
    BY <2>1, <2>2, <2>3
<1>3. Settled' => Settled /\ UNCHANGED <<lastTemp, lastHum>>
  BY DEF PostLed, PublishTemp, PublishHum, ApStops, Settled, WsTypes, WsTypeOK
<1>4. NobodyLost' /\ PagesAreFresh'
  BY <1>1, <1>3 DEF NobodyLost, PagesAreFresh, Followed, Served, Free, Fresh
<1>5. QED
  BY <1>2, <1>4

(* A broadcast that is not queued, or has no memory, leaves all behind.     *)
LEMMA BehindSteps ==
    ASSUME WsInv, PublishUnqueued \/ BroadcastNoMemory
    PROVE  WsInv'
<1> USE DEF WsInv
<1>1. /\ UNCHANGED <<session, clients, lastTemp, frame, place, ledState, page, dropped>>
      /\ behind' = behind \cup Registered
      /\ sendFailures < MaxSendFailures /\ sendFailures' = sendFailures + 1
  BY DEF PublishUnqueued, BroadcastNoMemory
<1>2. clients \in Seq(Fds) /\ Registered \subseteq Fds
  BY DEF WsTypes, WsTypeOK, Registered
<1>3. behind' \subseteq Fds /\ sendFailures' \in 0..MaxSendFailures
  BY <1>1, <1>2, WsAssumption DEF WsTypes, WsTypeOK
<1>4. WsTypes' /\ WorksFollowReadings'
  <2>1. CASE PublishUnqueued
    BY <1>1, <1>3, <2>1 DEF PublishUnqueued, WsTypes, WsTypeOK, WorksFollowReadings,
          Frames
  <2>2. CASE BroadcastNoMemory
    BY <1>1, <1>3, <2>2, WsAssumption DEF BroadcastNoMemory, WsTypes, WsTypeOK, WorksFollowReadings, Frames
  <2>3. QED
    BY <2>1, <2>2
<1>5. NobodyLost'
  BY <1>1 DEF NobodyLost, Served
<1>6. \A g \in Fds : ~Followed(g)'
  <2>1. \A g \in Fds : Served(g)' => Registers(clients, g)
    BY <1>1 DEF NobodyLost, Served
  <2>2. \A g \in Fds : Registers(clients, g) => g \in Registered
    BY DEF Registers, Registered, Indices
  <2>3. QED
    BY <1>1, <2>1, <2>2 DEF Followed
<1>7. PagesAreFresh'
  BY <1>6 DEF PagesAreFresh
<1>8. QED
  BY <1>4, <1>5, <1>7

LEMMA BroadcastBegins ==
    ASSUME WsInv, BeginBroadcast
    PROVE  WsInv'
<1> USE DEF WsInv
<1>1. /\ UNCHANGED <<session, clients, lastTemp, lastHum, ledState, page, dropped, sendFailures>>
      /\ works > 0 /\ works' = works - 1 /\ frame' = Snapshot /\ place' = 1
      /\ behind' = {}
  BY DEF BeginBroadcast
<1>2. frame' \in Frames /\ ~Free' /\ Fresh(frame)'
  BY <1>1, SnapshotIsFrame DEF Free, Fresh, Snapshot
<1>3. WsTypes' /\ WorksFollowReadings'
  BY <1>1, <1>2, WsAssumption DEF WsTypes, WsTypeOK, WorksFollowReadings, Frames
<1>4. NobodyLost'
  BY <1>1 DEF NobodyLost, Served
<1>5. PagesAreFresh'
  BY <1>1, <1>2 DEF PagesAreFresh, NobodyLost, Followed, Served, Registers, Indices
<1>6. QED
  BY <1>3, <1>4, <1>5

LEMMA SendStep ==
    ASSUME WsInv, SendTo
    PROVE  WsInv'
<1> USE DEF WsInv
<1>1. /\ UNCHANGED <<session, clients, lastTemp, lastHum, works, frame, ledState, dropped,
                      behind, sendFailures>>
      /\ ~Free /\ place <= Len(clients) /\ place' = place + 1
      /\ page' = [page EXCEPT ![clients[place]] = frame]
  BY DEF SendTo, Broadcasting
<1>2. /\ place \in Indices(clients) /\ clients[place] \in Fds /\ Len(clients) <= ClientsMax
      /\ place' \in 1..(ClientsMax + 1)
  BY <1>1, WsAssumption DEF WsTypes, WsTypeOK, Indices
<1>3. page' \in [Fds -> Frames] /\ \A g \in Fds : page'[g] = IF g = clients[place] THEN frame ELSE page[g]
  BY <1>1, <1>2 DEF WsTypes
<1>4. WsTypes' /\ WorksFollowReadings' /\ NobodyLost'
  BY <1>1, <1>2, <1>3 DEF WsTypes, WsTypeOK, WorksFollowReadings, NobodyLost, Served, Frames
<1>5. PagesAreFresh'
  <2> SUFFICES ASSUME Settled, NEW g \in Fds, Followed(g), ~Fresh(page'[g])
               PROVE  \E i \in Indices(clients) : i >= place + 1 /\ clients[i] = g
    BY <1>1 DEF PagesAreFresh, Settled, Followed, Served, Free, Fresh
  <2>1. g # clients[place] /\ page'[g] = page[g]
    BY <1>1, <1>3 DEF PagesAreFresh
  <2>2. PICK i \in Indices(clients) : i >= place /\ clients[i] = g
    BY <2>1 DEF PagesAreFresh
  <2>3. i # place
    BY <2>1, <2>2
  <2>4. QED
    BY <1>2, <2>2, <2>3 DEF Indices
<1>6. QED
  BY <1>4, <1>5

(* A client that cannot be sent to leaves the registry: the one that moves  *)
(* to its place is sent to next.                                            *)
LEMMA ForgetStep ==
    ASSUME WsInv, SendFails \/ ForgetClient
    PROVE  WsInv'
<1> USE DEF WsInv
<1>1. /\ UNCHANGED <<session, lastTemp, lastHum, works, frame, place, ledState, page, behind>>
      /\ ~Free /\ place <= Len(clients)
      /\ clients' = Without(clients, clients[place])
      /\ dropped' = dropped \/ dropped' = dropped \cup {clients[place]}
      /\ sendFailures' = sendFailures
           \/ (sendFailures < MaxSendFailures /\ sendFailures' = sendFailures + 1)
  BY DEF SendFails, ForgetClient, Broadcasting
<1>2. /\ place \in Indices(clients) /\ clients[place] \in Fds /\ Len(clients) <= ClientsMax
      /\ clients \in Seq(Fds) /\ Distinct(clients)
  BY <1>1, WsAssumption DEF WsTypes, WsTypeOK, Indices, NobodyLost
<1>3. /\ clients' \in Seq(Fds) /\ Distinct(clients') /\ Len(clients') <= Len(clients)
      /\ \A g \in Fds : g # clients[place] /\ Registers(clients, g) => Registers(clients', g)
  BY <1>1, <1>2, WithoutKeepsOthers
<1>4. WsTypes' /\ WorksFollowReadings'
  BY <1>1, <1>2, <1>3, WsAssumption DEF WsTypes, WsTypeOK, WorksFollowReadings, Frames
<1>5. \A g \in Fds : Served(g)' => g # clients[place] /\ Served(g)
  BY <1>1, <1>2 DEF SendFails, ForgetClient, Served
<1>6. NobodyLost'
  BY <1>3, <1>5 DEF NobodyLost
<1>7. PagesAreFresh'
  <2>a. \A g \in Fds : Followed(g)' => Followed(g) /\ Served(g)'
    BY <1>1, <1>5 DEF Followed
  <2> SUFFICES ASSUME Settled, NEW g \in Fds, Followed(g), Served(g)', ~Fresh(page[g])
               PROVE  \E i \in Indices(clients') : i >= place /\ clients'[i] = g
    BY <1>1, <2>a DEF PagesAreFresh, Settled, Free, Fresh
  <2>1. PICK i \in Indices(clients) : i >= place /\ clients[i] = g
    BY DEF PagesAreFresh
  <2>2. i > place
    BY <1>2, <1>5, <2>1 DEF Indices
  <2>3. /\ Len(clients') = Len(clients) - 1
        /\ \A k \in 1 .. Len(clients) - 1 :
              clients'[k] = IF k < place THEN clients[k] ELSE clients[k + 1]
    BY <1>1, <1>2, WithoutOne
  <2>4. i - 1 \in Indices(clients') /\ i - 1 >= place /\ clients'[i - 1] = clients[(i - 1) + 1]
    BY <1>2, <2>2, <2>3 DEF Indices
  <2>5. (i - 1) + 1 = i
    BY DEF Indices
  <2>6. QED
    BY <2>1, <2>4, <2>5
<1>8. QED
  BY <1>4, <1>6, <1>7

LEMMA BroadcastEnds ==
    ASSUME WsInv, EndBroadcast
    PROVE  WsInv'
<1> USE DEF WsInv
<1>1. /\ UNCHANGED <<session, clients, lastTemp, lastHum, works, place, ledState, page, dropped,
                      behind, sendFailures>>
      /\ place > Len(clients) /\ frame' = NoFrame
  BY DEF EndBroadcast
<1>2. WsTypes' /\ WorksFollowReadings' /\ NobodyLost'
  BY <1>1 DEF WsTypes, WsTypeOK, WorksFollowReadings, NobodyLost, Served, Frames
<1>3. \A i \in Indices(clients) : ~(i >= place)
  BY <1>1 DEF Indices, WsTypes, WsTypeOK
<1>4. PagesAreFresh'
  BY <1>1, <1>3 DEF PagesAreFresh, Settled, Followed, Served, Free, Fresh
<1>5. QED
  BY <1>2, <1>4

LEMMA WsStep ==
    ASSUME WsInv, [WsNext]_wsVars
    PROVE  WsInv'
<1>1. CASE UNCHANGED wsVars
  BY <1>1 DEF wsVars, WsInv, WsTypes, WsTypeOK, WorksFollowReadings, NobodyLost, Served, PagesAreFresh,
              Followed, Settled, Free, Fresh, Frames
<1>2. CASE WsNext
  BY <1>2, SessionSteps, HandshakeStep, UnsentStep, ReadingSteps, BehindSteps, BroadcastBegins, SendStep,
     ForgetStep, BroadcastEnds DEF WsNext
<1>3. QED
  BY <1>1, <1>2

(* Sessions, readings and broadcasts keep the invariant, for any clients,   *)
(* any capacity of the registry and any number of failures.                 *)
THEOREM WsInvariant == WsSpec => []WsInv
<1>1. WsInit => WsInv
  BY WsStart
<1>2. WsInv /\ [WsNext]_wsVars => WsInv'
  BY WsStep
<1>3. QED
  BY <1>1, <1>2, PTL DEF WsSpec

(* A page that shook hands and was not dropped is registered once, and when *)
(* all is quiet it shows the last reading (ws_broadcast_work,               *)
(* ws_remove_client_fd), unless that reading's broadcast was not queued or  *)
(* had no memory, or the page's first snapshot had none.                    *)
THEOREM PagesAreServed == WsSpec => []NobodyForgotten
<1>1. WsInv => NobodyForgotten
  <2> SUFFICES ASSUME WsInv, NEW f \in Fds, Served(f)
               PROVE  /\ \E i \in 1..Len(clients) :
                           clients[i] = f /\ \A j \in 1..Len(clients) : clients[j] = f => j = i
                      /\ Quiet /\ f \notin behind =>
                            page[f].temp = lastTemp /\ page[f].hum = lastHum
    BY DEF NobodyForgotten, Served
  <2>1. \E i \in 1..Len(clients) :
          clients[i] = f /\ \A j \in 1..Len(clients) : clients[j] = f => j = i
    BY DEF WsInv, NobodyLost, Registers, Distinct, Indices
  <2>2. Quiet /\ f \notin behind => Fresh(page[f])
    BY DEF WsInv, PagesAreFresh, Followed, Quiet, Settled
  <2>3. QED
    BY <2>1, <2>2 DEF Fresh
<1>2. QED
  BY <1>1, WsInvariant, PTL

-----------------------------------------------------------------------------
(***************************************************************************)
(* The patterns of the event bus. The code searches from the front, the    *)
(* meaning of a pattern is a cut of the name into pieces; that they agree  *)
(* is shown from the end of the pattern to its front, character by         *)
(* character, for every place of the name at once.                         *)
(***************************************************************************)

(* The decision of the code at the p-th character of the pattern and the    *)
(* t-th of the name, from those it makes one character further on.          *)
Decides(pat, tgt, f, p, t) ==
    IF p > Len(pat) \/ t > Len(tgt)
    THEN /\ t > Len(tgt)
         /\ \A q \in p..Len(pat) : pat[q] = "*"
    ELSE CASE pat[p] = "?" -> f[p + 1][t + 1]
           [] pat[p] = "*" ->
                 \/ p = Len(pat)
                 \/ \E u \in t..Len(tgt) : f[p + 1][u]
           [] OTHER -> pat[p] = tgt[t] /\ f[p + 1][t + 1]

(* ... for every character of the name.                                     *)
Row(pat, tgt, f, p) == [t \in 1..(Len(tgt) + 1) |-> Decides(pat, tgt, f, p, t)]

(* f holds the decisions for every place.                                   *)
DecidesAll(pat, tgt, f) == f = [p \in 1..(Len(pat) + 1) |-> Row(pat, tgt, f, p)]

(* The search of the code ends: there is such an f.                         *)
LEMMA DecisionsExist ==
    ASSUME NEW pat, NEW tgt, Len(pat) \in Nat
    PROVE  \E f : DecidesAll(pat, tgt, f)
<1> DEFINE n == Len(pat)
           Places == 1..(n + 1)
           Good(f, k) == /\ DOMAIN f = Places /\ f = [p \in Places |-> f[p]]
                         /\ \A p \in Places : p >= n + 1 - k => f[p] = Row(pat, tgt, f, p)
           S == {k \in Nat : k <= n => \E f : Good(f, k)}
<1>1. 0 \in S
  <2> DEFINE f == [p \in Places |-> Row(pat, tgt, <<>>, n + 1)]
  <2>1. Row(pat, tgt, f, n + 1) = Row(pat, tgt, <<>>, n + 1)
    <3>1. n + 1 > Len(pat)
      OBVIOUS
    <3> HIDE DEF f, n
    <3>2. QED
      BY <3>1 DEF Row, Decides
  <2>2. \A p \in Places : p >= n + 1 - 0 => p = n + 1
    OBVIOUS
  <2>3. Good(f, 0)
    BY <2>1, <2>2
  <2>4. QED
    BY <2>3
<1>2. ASSUME NEW k \in Nat, k \in S
      PROVE  k + 1 \in S
  <2> SUFFICES ASSUME k + 1 <= n
               PROVE  \E f : Good(f, k + 1)
    OBVIOUS
  <2>1. PICK f : Good(f, k)
    BY <1>2
  <2> DEFINE r == n - k
             row == Row(pat, tgt, f, r)
             g == [p \in Places |-> IF p = r THEN row ELSE f[p]]
  <2>2. r \in Places /\ r = n + 1 - (k + 1) /\ r + 1 = n + 1 - k
    OBVIOUS
  <2>3. ASSUME NEW p \in Places, p >= r
        PROVE  Row(pat, tgt, g, p) = Row(pat, tgt, f, p)
    <3>1. CASE p = n + 1
      <4>1. p > Len(pat)
        BY <3>1
      <4>2. QED
        BY <4>1 DEF Row, Decides
    <3>2. CASE p # n + 1
      <4>1. p + 1 \in Places /\ p + 1 # r
        BY <2>2, <2>3, <3>2
      <4>2. g[p + 1] = f[p + 1]
        BY <4>1
      <4> HIDE DEF g
      <4>3. QED
        BY <4>2 DEF Row, Decides
    <3>3. QED
      BY <3>1, <3>2
  <2>4. ASSUME NEW p \in Places, p >= r
        PROVE  g[p] = Row(pat, tgt, g, p)
    <3>1. CASE p = r
      BY <2>2, <2>3, <3>1
    <3>2. CASE p # r
      <4>1. g[p] = f[p] /\ p >= n + 1 - k
        BY <2>2, <2>4, <3>2
      <4>2. f[p] = Row(pat, tgt, f, p)
        BY <2>1, <4>1
      <4>3. QED
        BY <2>3, <2>4, <4>1, <4>2
    <3>3. QED
      BY <3>1, <3>2
  <2>5. DOMAIN g = Places /\ g = [p \in Places |-> g[p]]
    <3> HIDE DEF row
    <3>1. QED
      OBVIOUS
  <2>6. Good(g, k + 1)
    <3> HIDE DEF g
    <3>1. QED
      BY <2>2, <2>4, <2>5
  <2>7. QED
    BY <2>6
<1>3. n \in S
  <2> HIDE DEF S
  <2>1. QED
    BY <1>1, <1>2, Induct
<1>4. PICK f : Good(f, n)
  BY <1>3
<1>5. \A p \in Places : f[p] = Row(pat, tgt, f, p)
  <2>1. \A p \in Places : p >= n + 1 - n
    OBVIOUS
  <2>2. QED
    BY <1>4, <2>1
<1>6. f = [p \in Places |-> Row(pat, tgt, f, p)]
  BY <1>4, <1>5
<1>7. QED
  BY <1>6 DEF DecidesAll

(* What the code returns is its decision at the first characters.           *)
LEMMA MatchesAreDecisions ==
    ASSUME NEW pat, NEW tgt, Len(pat) \in Nat, Len(tgt) \in Nat
    PROVE  \E f : /\ MatchesFrom(pat, tgt) = f[1][1]
                  /\ \A p \in 1..(Len(pat) + 1), t \in 1..(Len(tgt) + 1) :
                        f[p][t] = Decides(pat, tgt, f, p, t)
<1>1. PICK f : f = CHOOSE g : DecidesAll(pat, tgt, g)
  OBVIOUS
<1>2. MatchesFrom(pat, tgt) = f[1][1]
  BY <1>1 DEF MatchesFrom, DecidesAll, Row, Decides
<1>3. DecidesAll(pat, tgt, f)
  BY <1>1, DecisionsExist
<1>4. \A p \in 1..(Len(pat) + 1) : f[p] = Row(pat, tgt, f, p)
  BY <1>3 DEF DecidesAll
<1>5. \A p \in 1..(Len(pat) + 1), t \in 1..(Len(tgt) + 1) : f[p][t] = Decides(pat, tgt, f, p, t)
  BY <1>4 DEF Row
<1>6. QED
  BY <1>2, <1>5

-----------------------------------------------------------------------------
(* What the pattern from its p-th character stands for is the name from its *)
(* t-th.                                                                    *)
Covers(pat, tgt, p, t, cut) ==
    /\ cut[p - 1] = t - 1 /\ cut[Len(pat)] = Len(tgt)
    /\ \A i \in p..Len(pat) :
          cut[i - 1] <= cut[i] /\ StandsFor(pat[i], SubSeq(tgt, cut[i - 1] + 1, cut[i]))

Rest(pat, tgt, p, t) == \E cut \in [(p - 1)..Len(pat) -> 0..Len(tgt)] : Covers(pat, tgt, p, t, cut)

(* The whole pattern stands for the whole name.                             *)
LEMMA ReferenceIsRest ==
    ASSUME NEW pat, NEW tgt, Len(pat) \in Nat, Len(tgt) \in Nat
    PROVE  Reference(pat, tgt) <=> Rest(pat, tgt, 1, 1)
<1>1. \A cut \in [0..Len(pat) -> 0..Len(tgt)] :
         Covers(pat, tgt, 1, 1, cut) <=>
            /\ cut \in Cuts(Len(pat), Len(tgt))
            /\ \A i \in 1..Len(pat) : StandsFor(pat[i], SubSeq(tgt, cut[i - 1] + 1, cut[i]))
  BY DEF Covers, Cuts
<1>2. (1 - 1)..Len(pat) = 0..Len(pat)
  OBVIOUS
<1>3. \A cut \in Cuts(Len(pat), Len(tgt)) : cut \in [0..Len(pat) -> 0..Len(tgt)]
  BY DEF Cuts
<1>4. QED
  BY <1>1, <1>2, <1>3 DEF Reference, Rest

(* After the last character of the pattern nothing is left.                 *)
LEMMA NothingIsLeft ==
    ASSUME NEW pat, NEW tgt, Len(pat) \in Nat, Len(tgt) \in Nat, NEW t \in 1..(Len(tgt) + 1)
    PROVE  Rest(pat, tgt, Len(pat) + 1, t) <=> t = Len(tgt) + 1
<1> DEFINE n == Len(pat)
           m == Len(tgt)
<1>1. (n + 1) - 1 = n /\ (n + 1)..n = {}
  OBVIOUS
<1>2. ASSUME Rest(pat, tgt, n + 1, t)
      PROVE  t = m + 1
  <2>1. PICK cut : Covers(pat, tgt, n + 1, t, cut)
    BY <1>2 DEF Rest
  <2>2. cut[n] = t - 1 /\ cut[n] = m
    BY <1>1, <2>1 DEF Covers
  <2>3. QED
    BY <2>2
<1>3. ASSUME t = m + 1
      PROVE  Rest(pat, tgt, n + 1, t)
  <2> DEFINE cut == [i \in n..n |-> m]
  <2>1. cut \in [n..n -> 0..m] /\ cut[n] = m /\ t - 1 = m
    BY <1>3
  <2> HIDE DEF cut
  <2>2. Covers(pat, tgt, n + 1, t, cut)
    BY <1>1, <2>1 DEF Covers
  <2>3. QED
    BY <1>1, <2>1, <2>2 DEF Rest
<1>4. QED
  BY <1>2, <1>3

(* One character of the pattern stands for a piece, the others for the rest.*)
LEMMA RestUnfolds ==
    ASSUME NEW pat, NEW tgt, Len(pat) \in Nat, Len(tgt) \in Nat,
           NEW p \in 1..Len(pat), NEW t \in 1..(Len(tgt) + 1)
    PROVE  Rest(pat, tgt, p, t) <=>
              \E u \in t..(Len(tgt) + 1) :
                 StandsFor(pat[p], SubSeq(tgt, t, u - 1)) /\ Rest(pat, tgt, p + 1, u)
<1> DEFINE n == Len(pat)
           m == Len(tgt)
<1>0. (p + 1) - 1 = p /\ (t - 1) + 1 = t
  OBVIOUS
<1>1. ASSUME Rest(pat, tgt, p, t)
      PROVE  \E u \in t..(m + 1) : StandsFor(pat[p], SubSeq(tgt, t, u - 1)) /\ Rest(pat, tgt, p + 1, u)
  <2>1. PICK cut \in [(p - 1)..n -> 0..m] : Covers(pat, tgt, p, t, cut)
    BY <1>1 DEF Rest
  <2> DEFINE u == cut[p] + 1
             rest == [i \in p..n |-> cut[i]]
  <2>2. /\ p \in p..n /\ cut[p - 1] = t - 1 /\ cut[n] = m
        /\ cut[p - 1] <= cut[p] /\ StandsFor(pat[p], SubSeq(tgt, cut[p - 1] + 1, cut[p]))
    BY <2>1 DEF Covers
  <2>3. cut[p] \in 0..m
    BY <2>1, <2>2
  <2>4. u \in t..(m + 1) /\ u - 1 = cut[p]
    BY <2>2, <2>3
  <2>5. rest \in [p..n -> 0..m]
    BY <2>1
  <2>6. \A i \in (p + 1)..n : i \in p..n /\ i - 1 \in p..n /\ rest[i] = cut[i] /\ rest[i - 1] = cut[i - 1]
    OBVIOUS
  <2>7. \A i \in (p + 1)..n : cut[i - 1] <= cut[i] /\ StandsFor(pat[i], SubSeq(tgt, cut[i - 1] + 1, cut[i]))
    <3>1. \A i \in (p + 1)..n : i \in p..n
      OBVIOUS
    <3>2. QED
      BY <2>1, <3>1 DEF Covers
  <2>8. rest[p] = cut[p] /\ rest[n] = cut[n]
    BY <2>2
  <2> HIDE DEF rest
  <2>9. Covers(pat, tgt, p + 1, u, rest)
    <3>1. rest[(p + 1) - 1] = u - 1 /\ rest[n] = m
      BY <1>0, <2>2, <2>4, <2>8
    <3>2. ASSUME NEW i \in (p + 1)..n
          PROVE  rest[i - 1] <= rest[i] /\ StandsFor(pat[i], SubSeq(tgt, rest[i - 1] + 1, rest[i]))
      BY <2>6, <2>7
    <3>3. QED
      BY <3>1, <3>2 DEF Covers
  <2>10. Rest(pat, tgt, p + 1, u)
    BY <1>0, <2>5, <2>9 DEF Rest
  <2>11. StandsFor(pat[p], SubSeq(tgt, t, u - 1))
    BY <1>0, <2>2, <2>4
  <2> HIDE DEF u
  <2>12. QED
    BY <2>4, <2>10, <2>11
<1>2. ASSUME NEW u \in t..(m + 1), StandsFor(pat[p], SubSeq(tgt, t, u - 1)), Rest(pat, tgt, p + 1, u)
      PROVE  Rest(pat, tgt, p, t)
  <2>1. PICK rest \in [p..n -> 0..m] : Covers(pat, tgt, p + 1, u, rest)
    BY <1>0, <1>2 DEF Rest
  <2> DEFINE cut == [i \in (p - 1)..n |-> IF i = p - 1 THEN t - 1 ELSE rest[i]]
  <2>2. rest[p] = u - 1 /\ rest[n] = m
    BY <1>0, <2>1 DEF Covers
  <2>3. /\ \A i \in p..n : i \in (p - 1)..n /\ i # p - 1
        /\ p - 1 \in (p - 1)..n /\ t - 1 \in 0..m
        /\ \A i \in (p - 1)..n : i # p - 1 => i \in p..n
    OBVIOUS
  <2>4. cut \in [(p - 1)..n -> 0..m]
    BY <2>1, <2>3
  <2>5. cut[p - 1] = t - 1 /\ \A i \in p..n : cut[i] = rest[i]
    BY <2>3
  <2> HIDE DEF cut
  <2>6. cut[n] = m /\ cut[p] = u - 1
    BY <2>2, <2>5
  <2>7. ASSUME NEW i \in p..n
        PROVE  cut[i - 1] <= cut[i] /\ StandsFor(pat[i], SubSeq(tgt, cut[i - 1] + 1, cut[i]))
    <3>1. CASE i = p
      <4>1. t - 1 <= u - 1
        OBVIOUS
      <4>2. QED
        BY <1>0, <1>2, <2>5, <2>6, <3>1, <4>1
    <3>2. CASE i # p
      <4>1. i \in (p + 1)..n /\ i - 1 \in p..n
        BY <3>2
      <4>2. rest[i - 1] <= rest[i] /\ StandsFor(pat[i], SubSeq(tgt, rest[i - 1] + 1, rest[i]))
        BY <2>1, <4>1 DEF Covers
      <4>3. QED
        BY <2>5, <4>1, <4>2
    <3>3. QED
      BY <3>1, <3>2
  <2>8. Covers(pat, tgt, p, t, cut)
    BY <2>5, <2>6, <2>7 DEF Covers
  <2>9. QED
    BY <2>4, <2>8 DEF Rest
<1>3. QED
  BY <1>1, <1>2

(* Only one character is as long as one, ...                                *)
LEMMA PieceOfOne ==
    ASSUME NEW T, NEW tgt \in Seq(T), NEW t \in 1..(Len(tgt) + 1), NEW u \in t..(Len(tgt) + 1)
    PROVE  /\ SubSeq(tgt, t, u - 1) \in Seq(T)
           /\ Len(SubSeq(tgt, t, u - 1)) = 1 <=> u = t + 1
           /\ u = t + 1 => SubSeq(tgt, t, u - 1)[1] = tgt[t]
<1>1. /\ t \in Int /\ u - 1 \in Int /\ \A i \in t..(u - 1) : tgt[i] \in T
  <2>1. \A i \in t..(u - 1) : i \in 1..Len(tgt)
    OBVIOUS
  <2>2. QED
    BY <2>1
<1>2. PICK piece : piece = SubSeq(tgt, t, u - 1)
  OBVIOUS
<1>3. /\ piece \in Seq(T)
      /\ Len(piece) = IF t <= u - 1 THEN (u - 1) - t + 1 ELSE 0
      /\ \A i \in 1..((u - 1) - t + 1) : piece[i] = tgt[t + i - 1]
  BY <1>1, <1>2, SubSeqProperties
<1>4. Len(piece) = 1 <=> u = t + 1
  BY <1>3
<1>5. ASSUME u = t + 1
      PROVE  Len(piece) = 1 /\ piece[1] = tgt[t]
  <2>1. 1 \in 1..((u - 1) - t + 1) /\ t + 1 - 1 = t
    BY <1>5
  <2>2. QED
    BY <1>3, <1>4, <1>5, <2>1
<1>6. QED
  BY <1>2, <1>3, <1>4, <1>5

(* ... and is the one that is there.                                        *)
LEMMA PieceIsCharacter ==
    ASSUME NEW T, NEW tgt \in Seq(T), NEW t \in 1..(Len(tgt) + 1), NEW u \in t..(Len(tgt) + 1),
           NEW c, NEW one, one = <<c>>
    PROVE  SubSeq(tgt, t, u - 1) = one <=> u = t + 1 /\ tgt[t] = c
<1>1. PICK piece : piece = SubSeq(tgt, t, u - 1)
  OBVIOUS
<1>2. piece \in Seq(T) /\ (Len(piece) = 1 <=> u = t + 1) /\ (u = t + 1 => piece[1] = tgt[t])
  BY <1>1, PieceOfOne
<1>3. ASSUME piece = <<c>>
      PROVE  u = t + 1 /\ tgt[t] = c
  <2>1. Len(piece) = 1 /\ piece[1] = c
    BY <1>3
  <2>2. QED
    BY <1>2, <2>1
<1>4. ASSUME u = t + 1, tgt[t] = c
      PROVE  piece = <<c>>
  <2>1. Len(piece) = 1 /\ piece[1] = c /\ c \in T
    BY <1>2, <1>4
  <2>2. <<c>> \in Seq(T) /\ Len(<<c>>) = 1 /\ <<c>>[1] = c
    BY <2>1
  <2>3. \A i \in 1..Len(piece) : piece[i] = <<c>>[i]
    BY <2>1, <2>2
  <2>4. QED
    BY <1>2, <2>1, <2>2, <2>3, SeqEqual
<1>5. QED
  BY <1>1, <1>3, <1>4

(* A star takes any piece, every other character one that is its like.      *)
LEMMA RestByCharacter ==
    ASSUME NEW T, NEW pat, NEW tgt \in Seq(T), Len(pat) \in Nat,
           NEW p \in 1..Len(pat), NEW t \in 1..(Len(tgt) + 1)
    PROVE  /\ pat[p] = "*" =>
                 (Rest(pat, tgt, p, t) <=> \E u \in t..(Len(tgt) + 1) : Rest(pat, tgt, p + 1, u))
           /\ pat[p] # "*" =>
                 (Rest(pat, tgt, p, t) <=> /\ t <= Len(tgt)
                                           /\ pat[p] = "?" \/ pat[p] = tgt[t]
                                           /\ Rest(pat, tgt, p + 1, t + 1))
<1>1. Len(tgt) \in Nat
  OBVIOUS
<1>2. Rest(pat, tgt, p, t) <=>
         \E u \in t..(Len(tgt) + 1) : StandsFor(pat[p], SubSeq(tgt, t, u - 1)) /\ Rest(pat, tgt, p + 1, u)
  BY <1>1, RestUnfolds
<1>3. CASE pat[p] = "*"
  <2>1. \A u : StandsFor(pat[p], SubSeq(tgt, t, u - 1))
    BY <1>3 DEF StandsFor
  <2>2. QED
    BY <1>2, <1>3, <2>1
<1>4. CASE pat[p] # "*"
  <2>1. ASSUME NEW u \in t..(Len(tgt) + 1)
        PROVE  StandsFor(pat[p], SubSeq(tgt, t, u - 1)) <=> u = t + 1 /\ (pat[p] = "?" \/ pat[p] = tgt[t])
    <3>1. Len(SubSeq(tgt, t, u - 1)) = 1 <=> u = t + 1
      BY PieceOfOne
    <3>2. PICK c : c = pat[p]
      OBVIOUS
    <3>3. PICK one : one = <<c>>
      OBVIOUS
    <3>4. SubSeq(tgt, t, u - 1) = one <=> u = t + 1 /\ tgt[t] = c
      BY <3>3, PieceIsCharacter
    <3>5. QED
      BY <1>4, <3>1, <3>2, <3>3, <3>4 DEF StandsFor
  <2>2. t + 1 \in t..(Len(tgt) + 1) <=> t <= Len(tgt)
    BY <1>1
  <2>3. QED
    BY <1>2, <1>4, <2>1, <2>2
<1>5. QED
  BY <1>3, <1>4

(* At the end of the name only stars may be left.                           *)
LEMMA OnlyStarsAreLeft ==
    ASSUME NEW T, NEW pat, NEW tgt \in Seq(T), Len(pat) \in Nat
    PROVE  \A p \in 1..(Len(pat) + 1) :
              Rest(pat, tgt, p, Len(tgt) + 1) <=> \A q \in p..Len(pat) : pat[q] = "*"
<1> DEFINE n == Len(pat)
           e == Len(tgt) + 1
           Stars(p) == \A q \in p..n : pat[q] = "*"
           S == {k \in Nat : k <= n => (Rest(pat, tgt, n + 1 - k, e) <=> Stars(n + 1 - k))}
<1>1. Len(tgt) \in Nat /\ e \in 1..(Len(tgt) + 1)
  OBVIOUS
<1>2. 0 \in S
  <2>1. Rest(pat, tgt, n + 1, e)
    BY <1>1, NothingIsLeft
  <2>2. Stars(n + 1) /\ n + 1 - 0 = n + 1
    OBVIOUS
  <2>3. QED
    BY <2>1, <2>2
<1>3. ASSUME NEW k \in Nat, k \in S
      PROVE  k + 1 \in S
  <2> DEFINE p == n - k
  <2> SUFFICES ASSUME k + 1 <= n
               PROVE  Rest(pat, tgt, p, e) <=> Stars(p)
    <3>1. n + 1 - (k + 1) = n - k
      OBVIOUS
    <3>2. QED
      BY <3>1
  <2>1. p \in 1..n /\ n + 1 - k = p + 1
    OBVIOUS
  <2>2. Rest(pat, tgt, p + 1, e) <=> Stars(p + 1)
    BY <1>3, <2>1
  <2>3. Stars(p) <=> pat[p] = "*" /\ Stars(p + 1)
    BY <2>1
  <2>4. ~(e <= Len(tgt)) /\ \A u \in e..(Len(tgt) + 1) : u = e
    BY <1>1
  <2>5. e \in e..(Len(tgt) + 1)
    BY <1>1
  <2> HIDE DEF p, Stars
  <2>6. CASE pat[p] = "*"
    <3>1. Rest(pat, tgt, p, e) <=> \E u \in e..(Len(tgt) + 1) : Rest(pat, tgt, p + 1, u)
      BY <1>1, <2>1, <2>6, RestByCharacter
    <3>2. Rest(pat, tgt, p, e) <=> Rest(pat, tgt, p + 1, e)
      BY <2>4, <2>5, <3>1
    <3>3. QED
      BY <2>2, <2>3, <2>6, <3>2
  <2>7. CASE pat[p] # "*"
    <3>1. ~Rest(pat, tgt, p, e)
      BY <1>1, <2>1, <2>4, <2>7, RestByCharacter
    <3>2. QED
      BY <2>3, <2>7, <3>1
  <2>8. QED
    BY <2>6, <2>7
<1>4. ASSUME NEW p \in 1..(n + 1)
      PROVE  Rest(pat, tgt, p, e) <=> Stars(p)
  <2>1. \A k \in Nat : k \in S
    <3> HIDE DEF S
    <3>1. QED
      BY <1>2, <1>3, Induct
  <2>2. n + 1 - p \in Nat /\ n + 1 - p <= n /\ n + 1 - (n + 1 - p) = p
    OBVIOUS
  <2>3. n + 1 - p \in S
    BY <2>1, <2>2
  <2>4. QED
    BY <2>2, <2>3
<1>5. QED
  BY <1>4

(* Place by place the code decides what the pattern means.                  *)
LEMMA DecisionsAreRight ==
    ASSUME NEW T, NEW pat, NEW tgt \in Seq(T), Len(pat) \in Nat, NEW f,
           \A p \in 1..(Len(pat) + 1), t \in 1..(Len(tgt) + 1) : f[p][t] = Decides(pat, tgt, f, p, t)
    PROVE  \A p \in 1..(Len(pat) + 1), t \in 1..(Len(tgt) + 1) : f[p][t] <=> Rest(pat, tgt, p, t)
<1> DEFINE n == Len(pat)
           m == Len(tgt)
           Right(p) == \A t \in 1..(m + 1) : f[p][t] <=> Rest(pat, tgt, p, t)
           S == {k \in Nat : k <= n => Right(n + 1 - k)}
<1>1. m \in Nat
  OBVIOUS
<1>2. ASSUME NEW p \in 1..(n + 1)
      PROVE  f[p][m + 1] <=> Rest(pat, tgt, p, m + 1)
  <2>1. m + 1 > m /\ m + 1 \in 1..(m + 1)
    BY <1>1
  <2>2. f[p][m + 1] = (m + 1 > m /\ \A q \in p..n : pat[q] = "*")
    BY <2>1 DEF Decides
  <2>3. QED
    BY <2>1, <2>2, OnlyStarsAreLeft
<1>3. 0 \in S
  <2>1. n + 1 \in 1..(n + 1) /\ n + 1 > n /\ n + 1 - 0 = n + 1 /\ (n + 1)..n = {}
    OBVIOUS
  <2>2. ASSUME NEW t \in 1..(m + 1)
        PROVE  f[n + 1][t] <=> Rest(pat, tgt, n + 1, t)
    <3>1. f[n + 1][t] = (t > m /\ \A q \in (n + 1)..n : pat[q] = "*")
      BY <2>1 DEF Decides
    <3>2. Rest(pat, tgt, n + 1, t) <=> t = m + 1
      BY <1>1, NothingIsLeft
    <3>3. t > m <=> t = m + 1
      BY <1>1
    <3>4. QED
      BY <2>1, <3>1, <3>2, <3>3
  <2>3. QED
    BY <2>1, <2>2
<1>4. ASSUME NEW k \in Nat, k \in S
      PROVE  k + 1 \in S
  <2> DEFINE p == n - k
  <2> SUFFICES ASSUME k + 1 <= n, NEW t \in 1..(m + 1)
               PROVE  f[p][t] <=> Rest(pat, tgt, p, t)
    <3>1. n + 1 - (k + 1) = n - k
      OBVIOUS
    <3>2. QED
      BY <3>1
  <2>1. p \in 1..n /\ p \in 1..(n + 1) /\ n + 1 - k = p + 1 /\ p + 1 \in 1..(n + 1) /\ ~(p > n)
    OBVIOUS
  <2>2. Right(p + 1)
    BY <1>4, <2>1
  <2> HIDE DEF p
  <2>3. CASE t = m + 1
    BY <1>2, <2>1, <2>3
  <2>4. CASE t # m + 1
    <3>1. t <= m /\ ~(t > m) /\ t + 1 \in 1..(m + 1) /\ m + 1 \in 1..(m + 1)
      BY <1>1, <2>4
    <3>2. CASE pat[p] = "*"
      <4>1. f[p][t] = (p = n \/ \E u \in t..m : f[p + 1][u])
        BY <2>1, <3>1, <3>2 DEF Decides
      <4>2. Rest(pat, tgt, p, t) <=> \E u \in t..(m + 1) : Rest(pat, tgt, p + 1, u)
        BY <2>1, <3>2, RestByCharacter
      <4>3. \A u \in t..m : u \in t..(m + 1) /\ u \in 1..(m + 1)
        OBVIOUS
      <4>4. (\E u \in t..m : f[p + 1][u]) <=> (\E u \in t..m : Rest(pat, tgt, p + 1, u))
        BY <2>2, <4>3
      <4>5. p = n => Rest(pat, tgt, p + 1, m + 1)
        BY <1>1, <3>1, NothingIsLeft
      <4>6. ASSUME Rest(pat, tgt, p + 1, m + 1), p # n
            PROVE  Rest(pat, tgt, p + 1, m)
        <5>1. p + 1 \in 1..n /\ (p + 1) + 1 \in 1..(n + 1) /\ m \in 1..(m + 1)
          BY <2>1, <3>1, <4>6
        <5>2. \A q \in (p + 1)..n : pat[q] = "*"
          BY <2>1, <4>6, OnlyStarsAreLeft
        <5>3. pat[p + 1] = "*" /\ \A q \in ((p + 1) + 1)..n : pat[q] = "*"
          BY <5>1, <5>2
        <5>4. Rest(pat, tgt, (p + 1) + 1, m + 1)
          BY <5>1, <5>3, OnlyStarsAreLeft
        <5>5. m + 1 \in m..(m + 1)
          BY <1>1
        <5>6. QED
          BY <5>1, <5>3, <5>4, <5>5, RestByCharacter
      <4>7. m \in t..m /\ m + 1 \in t..(m + 1) /\ \A u \in t..(m + 1) : u = m + 1 \/ u \in t..m
        BY <3>1
      <4>8. QED
        BY <4>1, <4>2, <4>3, <4>4, <4>5, <4>6, <4>7
    <3>3. CASE pat[p] # "*"
      <4>1. f[p][t] = IF pat[p] = "?" THEN f[p + 1][t + 1] ELSE pat[p] = tgt[t] /\ f[p + 1][t + 1]
        BY <2>1, <3>1, <3>3 DEF Decides
      <4>2. f[p + 1][t + 1] <=> Rest(pat, tgt, p + 1, t + 1)
        BY <2>2, <3>1
      <4>3. Rest(pat, tgt, p, t) <=> (pat[p] = "?" \/ pat[p] = tgt[t]) /\ Rest(pat, tgt, p + 1, t + 1)
        BY <2>1, <3>1, <3>3, RestByCharacter
      <4>4. QED
        BY <4>1, <4>2, <4>3
    <3>4. QED
      BY <3>2, <3>3
  <2>5. QED
    BY <2>3, <2>4
<1>5. ASSUME NEW p \in 1..(n + 1)
      PROVE  Right(p)
  <2>1. \A k \in Nat : k \in S
    <3> HIDE DEF S
    <3>1. QED
      BY <1>3, <1>4, Induct
  <2>2. n + 1 - p \in Nat /\ n + 1 - p <= n /\ n + 1 - (n + 1 - p) = p
    OBVIOUS
  <2>3. n + 1 - p \in S
    BY <2>1, <2>2
  <2> HIDE DEF Right
  <2>4. QED
    BY <2>2, <2>3
<1>6. QED
  BY <1>5

(* The search of the code gives every pattern its meaning, whatever the     *)
(* pattern and the name: a star need not be tried at the end of the name.   *)
LEMMA MatchesAreMeant ==
    ASSUME NEW T, NEW pat, NEW tgt \in Seq(T), Len(pat) \in Nat
    PROVE  MatchesFrom(pat, tgt) <=> Reference(pat, tgt)
<1>1. Len(tgt) \in Nat /\ 1 \in 1..(Len(pat) + 1) /\ 1 \in 1..(Len(tgt) + 1)
  OBVIOUS
<1>2. PICK f : /\ MatchesFrom(pat, tgt) = f[1][1]
               /\ \A p \in 1..(Len(pat) + 1), t \in 1..(Len(tgt) + 1) : f[p][t] = Decides(pat, tgt, f, p, t)
  BY <1>1, MatchesAreDecisions
<1>3. f[1][1] <=> Rest(pat, tgt, 1, 1)
  BY <1>1, <1>2, DecisionsAreRight
<1>4. QED
  BY <1>1, <1>2, <1>3, ReferenceIsRest

-----------------------------------------------------------------------------
(* Splitting a name where it was put together.                              *)

(* j is s, c and r in a row, and the first c in it is the one between them. *)
Joint(s, c, r, j) ==
    /\ Len(j) = Len(s) + 1 + Len(r)
    /\ \A i \in 1..Len(s) : j[i] = s[i]
    /\ j[Len(s) + 1] = c
    /\ \A i \in 1..Len(r) : j[Len(s) + 1 + i] = r[i]
    /\ PositionsOf(c, j) # {} /\ First(PositionsOf(c, j)) = Len(s) + 1

(* So it is if s has no c.                                                  *)
LEMMA FirstIsTheJoint ==
    ASSUME NEW T, NEW s \in Seq(T), NEW r \in Seq(T), NEW c \in T, PositionsOf(c, s) = {},
           NEW one, one = <<c>>, NEW joined, joined = s \o one \o r
    PROVE  Joint(s, c, r, joined)
<1> DEFINE sc == s \o <<c>>
<1>1. <<c>> \in Seq(T) /\ Len(<<c>>) = 1 /\ <<c>>[1] = c /\ Len(s) \in Nat /\ Len(r) \in Nat
  OBVIOUS
<1>2. /\ sc \in Seq(T) /\ Len(sc) = Len(s) + 1
      /\ \A i \in 1..(Len(s) + 1) : sc[i] = IF i <= Len(s) THEN s[i] ELSE <<c>>[i - Len(s)]
  BY <1>1, ConcatProperties
<1>3. (\A i \in 1..Len(s) : sc[i] = s[i]) /\ sc[Len(s) + 1] = c
  <2>1. \A i \in 1..Len(s) : i \in 1..(Len(s) + 1) /\ i <= Len(s)
    BY <1>1
  <2>2. /\ Len(s) + 1 \in 1..(Len(s) + 1) /\ ~(Len(s) + 1 <= Len(s))
        /\ (Len(s) + 1) - Len(s) = 1
    BY <1>1
  <2> HIDE DEF sc
  <2>3. QED
    BY <1>1, <1>2, <2>1, <2>2
<1> HIDE DEF sc
<1>4. /\ joined \in Seq(T) /\ Len(joined) = Len(s) + 1 + Len(r)
      /\ \A i \in 1..(Len(s) + 1 + Len(r)) :
            joined[i] = IF i <= Len(s) + 1 THEN sc[i] ELSE r[i - (Len(s) + 1)]
  <2>1. /\ joined \in Seq(T) /\ Len(joined) = Len(sc) + Len(r)
        /\ \A i \in 1..(Len(sc) + Len(r)) :
              joined[i] = IF i <= Len(sc) THEN sc[i] ELSE r[i - Len(sc)]
    <3>1. joined = sc \o r
      BY DEF sc
    <3>2. PICK l, k : l = Len(sc) /\ k = Len(r)
      OBVIOUS
    <3>3. /\ sc \o r \in Seq(T) /\ Len(sc \o r) = l + k
          /\ \A i \in 1..(l + k) : (sc \o r)[i] = IF i <= l THEN sc[i] ELSE r[i - l]
      BY <1>2, <3>2, ConcatProperties
    <3>4. QED
      BY <3>1, <3>2, <3>3
  <2>2. QED
    BY <1>2, <2>1
<1>5. /\ \A i \in 1..Len(s) : joined[i] = s[i]
      /\ joined[Len(s) + 1] = c
      /\ \A i \in 1..Len(r) : joined[Len(s) + 1 + i] = r[i]
  <2>1. \A i \in 1..Len(s) : i \in 1..(Len(s) + 1 + Len(r)) /\ i <= Len(s) + 1
    BY <1>1
  <2>2. Len(s) + 1 \in 1..(Len(s) + 1 + Len(r)) /\ Len(s) + 1 <= Len(s) + 1
    BY <1>1
  <2>3. ASSUME NEW i \in 1..Len(r)
        PROVE  joined[Len(s) + 1 + i] = r[i]
    <3>1. /\ Len(s) + 1 + i \in 1..(Len(s) + 1 + Len(r)) /\ ~(Len(s) + 1 + i <= Len(s) + 1)
          /\ (Len(s) + 1 + i) - (Len(s) + 1) = i
      BY <1>1
    <3>2. QED
      BY <1>4, <3>1
  <2>4. QED
    BY <1>3, <1>4, <2>1, <2>2, <2>3
<1>6. Len(s) + 1 \in PositionsOf(c, joined)
  BY <1>1, <1>4, <1>5 DEF PositionsOf
<1>7. ASSUME NEW i \in PositionsOf(c, joined)
      PROVE  Len(s) + 1 <= i
  <2>1. i \in 1..(Len(s) + 1 + Len(r)) /\ joined[i] = c
    BY <1>4 DEF PositionsOf
  <2>2. ASSUME i <= Len(s)
        PROVE  FALSE
    <3>1. i \in 1..Len(s)
      BY <1>1, <2>1, <2>2
    <3>2. i \in PositionsOf(c, s)
      BY <1>5, <2>1, <3>1 DEF PositionsOf
    <3>3. QED
      BY <3>2
  <2>3. QED
    BY <1>1, <2>1, <2>2
<1>8. First(PositionsOf(c, joined)) = Len(s) + 1
  <2>1. \A i \in PositionsOf(c, joined) : i \in Nat
    BY <1>1, <1>4 DEF PositionsOf
  <2>2. ASSUME NEW i \in PositionsOf(c, joined), \A j \in PositionsOf(c, joined) : i <= j
        PROVE  i = Len(s) + 1
    BY <1>1, <1>6, <1>7, <2>1, <2>2
  <2>3. QED
    BY <1>6, <1>7, <2>2 DEF First
<1>9. QED
  BY <1>4, <1>5, <1>6, <1>8 DEF Joint

(* Cut at the joint, the parts are those it was made of.                    *)
LEMMA PartsAreBack ==
    ASSUME NEW T, NEW s \in Seq(T), NEW r \in Seq(T), NEW j \in Seq(T),
           Len(j) = Len(s) + 1 + Len(r),
           \A i \in 1..Len(s) : j[i] = s[i],
           \A i \in 1..Len(r) : j[Len(s) + 1 + i] = r[i]
    PROVE  SubSeq(j, 1, Len(s) + 1 - 1) = s /\ SubSeq(j, Len(s) + 1 + 1, Len(j)) = r
<1>1. Len(s) \in Nat /\ Len(r) \in Nat /\ \A i \in 1..Len(j) : j[i] \in T
  OBVIOUS
<1>2. PICK front, back :
         front = SubSeq(j, 1, Len(s) + 1 - 1) /\ back = SubSeq(j, Len(s) + 1 + 1, Len(j))
  OBVIOUS
<1>3. front = s
  <2>1. /\ Len(s) + 1 - 1 = Len(s) /\ Len(s) - 1 + 1 = Len(s) /\ 1 \in Int /\ Len(s) \in Int
        /\ \A i \in 1..Len(s) : j[i] \in T /\ 1 + i - 1 = i
    <3>1. \A i \in 1..Len(s) : i \in 1..Len(j)
      BY <1>1
    <3>2. QED
      BY <1>1, <3>1
  <2>2. /\ front \in Seq(T) /\ Len(front) = IF 1 <= Len(s) THEN Len(s) - 1 + 1 ELSE 0
        /\ \A i \in 1..(Len(s) - 1 + 1) : front[i] = j[1 + i - 1]
    BY <1>2, <2>1, SubSeqProperties
  <2>3. Len(front) = Len(s) /\ \A i \in 1..Len(s) : front[i] = s[i]
    BY <1>1, <2>1, <2>2
  <2>4. QED
    BY <2>2, <2>3, SeqEqual
<1>4. back = r
  <2>1. /\ Len(s) + 1 + 1 \in Int /\ Len(j) \in Int
        /\ Len(j) - (Len(s) + 1 + 1) + 1 = Len(r)
        /\ Len(s) + 1 + 1 <= Len(j) <=> Len(r) # 0
        /\ \A i \in (Len(s) + 1 + 1)..Len(j) : j[i] \in T
    <3>1. \A i \in (Len(s) + 1 + 1)..Len(j) : i \in 1..Len(j)
      BY <1>1
    <3>2. QED
      BY <1>1, <3>1
  <2>2. /\ back \in Seq(T)
        /\ Len(back) = IF Len(s) + 1 + 1 <= Len(j) THEN Len(j) - (Len(s) + 1 + 1) + 1 ELSE 0
        /\ \A i \in 1..(Len(j) - (Len(s) + 1 + 1) + 1) : back[i] = j[Len(s) + 1 + 1 + i - 1]
    BY <1>2, <2>1, SubSeqProperties
  <2>3. Len(back) = Len(r)
    BY <2>1, <2>2
  <2>4. ASSUME NEW i \in 1..Len(r)
        PROVE  back[i] = r[i]
    <3>1. Len(s) + 1 + 1 + i - 1 = Len(s) + 1 + i
      BY <1>1
    <3>2. QED
      BY <2>1, <2>2, <3>1
  <2>5. QED
    BY <2>2, <2>3, <2>4, SeqEqual
<1>5. QED
  BY <1>2, <1>3, <1>4

(* What is cut keeps its beginning.                                         *)
LEMMA CutIsBeginning ==
    ASSUME NEW T, NEW s \in Seq(T), NEW n \in Nat
    PROVE  /\ Cut(s, n) \in Seq(T) /\ Len(Cut(s, n)) = IF Len(s) <= n THEN Len(s) ELSE n
           /\ \A i \in 1..Len(Cut(s, n)) : i \in 1..Len(s) /\ Cut(s, n)[i] = s[i]
<1>1. Len(s) \in Nat /\ \A i \in 1..Len(s) : s[i] \in T
  OBVIOUS
<1>2. CASE Len(s) <= n
  BY <1>1, <1>2 DEF Cut
<1>3. CASE ~(Len(s) <= n)
  <2>1. PICK front : front = SubSeq(s, 1, n)
    OBVIOUS
  <2>2. Cut(s, n) = front
    BY <1>3, <2>1 DEF Cut
  <2>3. /\ 1 \in Int /\ n \in Int /\ n - 1 + 1 = n
        /\ \A i \in 1..n : i \in 1..Len(s) /\ s[i] \in T /\ 1 + i - 1 = i
    BY <1>1, <1>3
  <2>4. /\ front \in Seq(T) /\ Len(front) = IF 1 <= n THEN n - 1 + 1 ELSE 0
        /\ \A i \in 1..(n - 1 + 1) : front[i] = s[1 + i - 1]
    BY <2>1, <2>3, SubSeqProperties
  <2>5. Len(front) = n /\ \A i \in 1..n : front[i] = s[i]
    BY <2>3, <2>4
  <2>6. QED
    BY <1>3, <2>2, <2>3, <2>4, <2>5
<1>4. QED
  BY <1>2, <1>3

(* A name with room for its module is cut at the end only.                  *)
LEMMA CutBehindTheJoint ==
    ASSUME NEW T, NEW s \in Seq(T), NEW r \in Seq(T), NEW c \in T, PositionsOf(c, s) = {},
           Len(s) < PatternMax - 1,
           NEW rest, rest = Cut(r, PatternMax - 2 - Len(s)), NEW k, k = s \o <<c>> \o rest
    PROVE  Kept(s \o <<c>> \o r) = k
<1>1. PICK one, j : one = <<c>> /\ j = s \o one \o r
  OBVIOUS
<1>2. /\ Len(s) \in Nat /\ Len(r) \in Nat /\ PatternMax - 2 - Len(s) \in Nat /\ PatternMax - 1 \in Nat
      /\ PatternMax \in Nat
  BY PatternAssumption
<1>3. /\ rest \in Seq(T)
      /\ Len(rest) = IF Len(r) <= PatternMax - 2 - Len(s) THEN Len(r) ELSE PatternMax - 2 - Len(s)
      /\ \A i \in 1..Len(rest) : i \in 1..Len(r) /\ rest[i] = r[i]
  <2>1. PICK n \in Nat : n = PatternMax - 2 - Len(s)
    BY <1>2
  <2>2. QED
    BY <2>1, CutIsBeginning
<1>4. Joint(s, c, r, j) /\ Joint(s, c, rest, k)
  BY <1>1, <1>3, FirstIsTheJoint
<1>5. one \in Seq(T) /\ s \o one \in Seq(T)
  BY <1>1, ConcatProperties
<1>6. j \in Seq(T) /\ k \in Seq(T)
  BY <1>1, <1>3, <1>5, ConcatProperties
<1>7. PICK kept : kept = Kept(j)
  OBVIOUS
<1>8. /\ kept \in Seq(T)
      /\ Len(kept) = IF Len(j) <= PatternMax - 1 THEN Len(j) ELSE PatternMax - 1
      /\ \A i \in 1..Len(kept) : i \in 1..Len(j) /\ kept[i] = j[i]
  <2>1. PICK n \in Nat : n = PatternMax - 1
    BY <1>2
  <2>2. kept = Cut(j, n)
    BY <1>7, <2>1 DEF Kept
  <2>3. QED
    BY <1>6, <2>1, <2>2, CutIsBeginning
<1>9. Len(kept) = Len(k) /\ Len(kept) = Len(s) + 1 + Len(rest) /\ Len(rest) \in Nat
  <2>1. Len(j) = Len(s) + 1 + Len(r) /\ Len(k) = Len(s) + 1 + Len(rest)
    BY <1>4 DEF Joint
  <2>2. PICK l, m, n, o : l = Len(s) /\ m = Len(r) /\ n = PatternMax /\ o = Len(rest)
    OBVIOUS
  <2>3. o = IF m <= n - 2 - l THEN m ELSE n - 2 - l
    BY <1>3, <2>2
  <2>4. Len(kept) = IF l + 1 + m <= n - 1 THEN l + 1 + m ELSE n - 1
    BY <1>8, <2>1, <2>2
  <2>5. l \in Nat /\ m \in Nat /\ n \in Nat /\ n - 2 - l \in Nat
    BY <1>2, <2>2
  <2>6. Len(kept) = l + 1 + o /\ o \in Nat
    BY <2>3, <2>4, <2>5
  <2>7. QED
    BY <2>1, <2>2, <2>6
<1>10. ASSUME NEW i \in 1..Len(kept)
       PROVE  kept[i] = k[i]
  <2>1. kept[i] = j[i] /\ Len(k) = Len(s) + 1 + Len(rest)
    BY <1>4, <1>8 DEF Joint
  <2>2. CASE i <= Len(s)
    <3>1. i \in 1..Len(s)
      BY <1>2, <2>2
    <3>2. QED
      BY <1>4, <2>1, <3>1 DEF Joint
  <2>3. CASE i = Len(s) + 1
    BY <1>4, <2>1, <2>3 DEF Joint
  <2>4. CASE i > Len(s) + 1
    <3>1. PICK h : h = i - (Len(s) + 1)
      OBVIOUS
    <3>2. h \in 1..Len(rest) /\ Len(s) + 1 + h = i
      BY <1>2, <1>3, <1>9, <2>1, <2>4, <3>1
    <3>3. h \in 1..Len(r) /\ rest[h] = r[h]
      BY <1>3, <3>2
    <3>4. j[Len(s) + 1 + h] = r[h] /\ k[Len(s) + 1 + h] = rest[h]
      BY <1>4, <3>2, <3>3 DEF Joint
    <3>5. QED
      BY <2>1, <3>2, <3>3, <3>4
  <2>5. i \in Nat
    BY <1>9
  <2>6. i <= Len(s) \/ i = Len(s) + 1 \/ i > Len(s) + 1
    BY <1>2, <2>5
  <2>7. QED
    BY <2>2, <2>3, <2>4, <2>6
<1>11. kept = k
  BY <1>6, <1>8, <1>9, <1>10, SeqEqual
<1>12. QED
  BY <1>1, <1>7, <1>11

(* Of a name without room for its module's no separator is left.            *)
LEMMA NoJointIsLeft ==
    ASSUME NEW T, NEW s \in Seq(T), NEW r \in Seq(T), NEW c \in T,
           PositionsOf(c, s) = {}, ~(Len(s) < PatternMax - 1)
    PROVE  \A i \in 1..Len(Kept(s \o <<c>> \o r)) :
              \E h \in 1..Len(s) : Kept(s \o <<c>> \o r)[i] = s[h]
<1>1. PICK one, j : one = <<c>> /\ j = s \o one \o r
  OBVIOUS
<1>2. Len(s) \in Nat /\ Len(r) \in Nat /\ PatternMax - 1 \in Nat /\ PatternMax \in Nat
  BY PatternAssumption
<1>3. Joint(s, c, r, j)
  BY <1>1, FirstIsTheJoint
<1>4. one \in Seq(T) /\ s \o one \in Seq(T)
  BY <1>1, ConcatProperties
<1>5. j \in Seq(T)
  BY <1>1, <1>4, ConcatProperties
<1>6. PICK kept, n : kept = Kept(j) /\ n = PatternMax - 1 /\ n \in Nat
  BY <1>2
<1>7. /\ n \in Nat /\ Len(kept) = IF Len(j) <= n THEN Len(j) ELSE n
      /\ \A i \in 1..Len(kept) : i \in 1..Len(j) /\ kept[i] = j[i]
  <2>1. kept = Cut(j, n)
    BY <1>6 DEF Kept
  <2>2. QED
    BY <1>5, <1>6, <2>1, CutIsBeginning
<1>8. ASSUME NEW i \in 1..Len(kept)
      PROVE  \E h \in 1..Len(s) : kept[i] = s[h]
  <2>1. Len(j) = Len(s) + 1 + Len(r)
    BY <1>3 DEF Joint
  <2>2. n <= Len(s)
    BY <1>2, <1>6
  <2>3. Len(kept) <= Len(s) /\ Len(kept) \in Nat
    BY <1>2, <1>7, <2>1, <2>2
  <2>4. i \in 1..Len(s)
    BY <1>2, <2>3
  <2>5. kept[i] = j[i] /\ j[i] = s[i]
    BY <1>3, <1>7, <2>4 DEF Joint
  <2>6. QED
    BY <2>4, <2>5
<1>9. QED
  BY <1>1, <1>6, <1>8

(* The two ways to put a name together.                                     *)
LEMMA JointIsFound ==
    ASSUME NEW T, NEW s \in Seq(T), NEW r \in Seq(T), NEW c \in T, c \in {".", ":"},
           PositionsOf(".", s) = {}, PositionsOf(":", s) = {},
           c = ":" => PositionsOf(".", r) = {},
           NEW j, j = s \o <<c>> \o r
    PROVE  Split(j) = IF Len(s) >= NameMax THEN TooLong ELSE Parts(s, c, Kept(r))
<1>1. PositionsOf(c, s) = {}
  OBVIOUS
<1>2. /\ j \in Seq(T) /\ Len(j) = Len(s) + 1 + Len(r)
      /\ \A i \in 1..Len(s) : j[i] = s[i]
      /\ j[Len(s) + 1] = c
      /\ \A i \in 1..Len(r) : j[Len(s) + 1 + i] = r[i]
      /\ PositionsOf(c, j) # {} /\ First(PositionsOf(c, j)) = Len(s) + 1
  <2>1. PICK one : one = <<c>>
    OBVIOUS
  <2>2. j = s \o one \o r
    BY <2>1
  <2>3. Joint(s, c, r, j)
    BY <1>1, <2>1, <2>2, FirstIsTheJoint
  <2>4. one \in Seq(T)
    BY <2>1
  <2>5. s \o one \in Seq(T)
    BY <2>4, ConcatProperties
  <2>6. j \in Seq(T)
    BY <2>2, <2>5, ConcatProperties
  <2>7. QED
    BY <2>3, <2>6 DEF Joint
<1>3. SubSeq(j, 1, Len(s) + 1 - 1) = s /\ SubSeq(j, Len(s) + 1 + 1, Len(j)) = r
  BY <1>2, PartsAreBack
<1>4. c = ":" => PositionsOf(".", j) = {}
  <2> SUFFICES ASSUME c = ":", NEW i \in 1..Len(j)
               PROVE  j[i] # "."
    BY DEF PositionsOf
  <2>1. Len(s) \in Nat /\ Len(r) \in Nat
    OBVIOUS
  <2>2. CASE i <= Len(s)
    <3>1. i \in 1..Len(s)
      BY <1>2, <2>1, <2>2
    <3>2. s[i] # "." /\ j[i] = s[i]
      BY <1>2, <3>1 DEF PositionsOf
    <3>3. QED
      BY <3>2
  <2>3. CASE i = Len(s) + 1
    BY <1>2, <2>3
  <2>4. CASE i > Len(s) + 1
    <3>1. i - (Len(s) + 1) \in 1..Len(r) /\ Len(s) + 1 + (i - (Len(s) + 1)) = i
      BY <1>2, <2>1, <2>4
    <3>2. PICK h \in 1..Len(r) : Len(s) + 1 + h = i
      BY <3>1
    <3>3. r[h] # "."
      BY DEF PositionsOf
    <3>4. QED
      BY <1>2, <3>2, <3>3
  <2>5. QED
    BY <1>2, <2>1, <2>2, <2>3, <2>4
<1>5. Split(j) = SplitAt(Len(s) + 1, c, j)
  <2>1. CASE c = "."
    BY <1>2, <2>1 DEF Split
  <2>2. CASE c = ":"
    BY <1>2, <1>4, <2>2 DEF Split
  <2>3. QED
    BY <2>1, <2>2
<1>6. Len(s) \in Nat /\ (Len(s) + 1) - 1 = Len(s)
  OBVIOUS
<1>7. SplitAt(Len(s) + 1, c, j) = IF Len(s) >= NameMax THEN TooLong ELSE Parts(s, c, Kept(r))
  <2>1. PICK i : i = Len(s) + 1
    OBVIOUS
  <2>2. SubSeq(j, 1, i - 1) = s /\ SubSeq(j, i + 1, Len(j)) = r /\ i - 1 = Len(s)
    BY <1>3, <1>6, <2>1
  <2>3. SplitAt(i, c, j) = IF Len(s) >= NameMax THEN TooLong ELSE Parts(s, c, Kept(r))
    BY <2>2 DEF SplitAt
  <2>4. QED
    BY <2>1, <2>3
<1>8. QED
  BY <1>5, <1>7

LEMMA SplitIsBack ==
    ASSUME NEW T, NEW s \in Seq(T), NEW r \in Seq(T), NEW c \in T, c \in {".", ":"},
           PositionsOf(".", s) = {}, PositionsOf(":", s) = {},
           c = ":" => PositionsOf(".", r) = {}
    PROVE  IF Len(s) < NameMax /\ Len(s) < PatternMax - 1
           THEN Split(Posted(s, c, r)) = Parts(s, c, Cut(r, PatternMax - 2 - Len(s)))
           ELSE Split(Posted(s, c, r)).ok => Split(Posted(s, c, r)).sep = "none"
<1>1. PositionsOf(c, s) = {}
  OBVIOUS
<1>2. Len(s) \in Nat /\ Len(r) \in Nat /\ NameMax \in Nat /\ PatternMax \in Nat
  BY PatternAssumption
<1>3. CASE Len(s) < PatternMax - 1
  <2>1. PICK n : n = PatternMax - 2 - Len(s) /\ n \in Nat
    BY <1>2, <1>3
  <2>2. PICK rest : rest = Cut(r, n)
    OBVIOUS
  <2>3. PICK k : k = s \o <<c>> \o rest
    OBVIOUS
  <2>4. Posted(s, c, r) = k
    BY <1>1, <1>3, <2>1, <2>2, <2>3, CutBehindTheJoint DEF Posted
  <2>5. /\ rest \in Seq(T) /\ Len(rest) <= n
        /\ \A i \in 1..Len(rest) : i \in 1..Len(r) /\ rest[i] = r[i]
    <3>1. /\ rest \in Seq(T) /\ Len(rest) = IF Len(r) <= n THEN Len(r) ELSE n
          /\ \A i \in 1..Len(rest) : i \in 1..Len(r) /\ rest[i] = r[i]
      BY <2>1, <2>2, CutIsBeginning
    <3>2. Len(rest) <= n
      BY <1>2, <2>1, <3>1
    <3>3. QED
      BY <3>1, <3>2
  <2>6. c = ":" => PositionsOf(".", rest) = {}
    BY <2>5 DEF PositionsOf
  <2>7. Kept(rest) = rest
    BY <1>2, <2>1, <2>5 DEF Kept, Cut
  <2>8. Split(k) = IF Len(s) >= NameMax THEN TooLong ELSE Parts(s, c, rest)
    <3>1. rest \in Seq(T)
      BY <2>5
    <3>2. Split(k) = IF Len(s) >= NameMax THEN TooLong ELSE Parts(s, c, Kept(rest))
      BY <2>3, <2>6, <3>1, JointIsFound
    <3>3. QED
      BY <2>7, <3>2
  <2>9. CASE Len(s) < NameMax
    <3>1. ~(Len(s) >= NameMax)
      BY <1>2, <2>9
    <3>2. QED
      BY <1>3, <2>1, <2>2, <2>4, <2>8, <2>9, <3>1
  <2>10. CASE ~(Len(s) < NameMax)
    <3>1. Len(s) >= NameMax
      BY <1>2, <2>10
    <3>2. Split(k) = TooLong
      BY <2>8, <3>1
    <3>3. QED
      BY <2>4, <2>10, <3>2 DEF TooLong
  <2>11. QED
    BY <2>9, <2>10
<1>4. CASE ~(Len(s) < PatternMax - 1)
  <2>1. PICK k : k = Posted(s, c, r)
    OBVIOUS
  <2>2. \A i \in 1..Len(k) : \E h \in 1..Len(s) : k[i] = s[h]
    <3>1. k = Kept(s \o <<c>> \o r)
      BY <2>1 DEF Posted
    <3>2. \A i \in 1..Len(Kept(s \o <<c>> \o r)) :
             \E h \in 1..Len(s) : Kept(s \o <<c>> \o r)[i] = s[h]
      BY <1>1, <1>4, NoJointIsLeft
    <3>3. QED
      BY <3>1, <3>2, Zenon
  <2>3. PositionsOf(".", k) = {} /\ PositionsOf(":", k) = {}
    BY <2>2 DEF PositionsOf
  <2>4. Split(k) = Parts(Cut(k, NameMax - 1), "none", <<>>)
    BY <2>3 DEF Split
  <2>5. QED
    BY <1>4, <2>1, <2>4 DEF Parts
<1>5. QED
  BY <1>3, <1>4

-----------------------------------------------------------------------------
(* Pattern and name are made of characters, ...                             *)
Characters == Letters \cup {"*", "?", ".", ":"}

(* ... for they are grown of them.                                          *)
LEMMA PatternsAreText == PatternSpec => [](pattern \in Seq(Characters) /\ target \in Seq(Characters))
<1> DEFINE Text == pattern \in Seq(Characters) /\ target \in Seq(Characters)
<1>1. PatternInit => Text
  <2>1. <<>> \in Seq(Characters)
    OBVIOUS
  <2>2. QED
    BY <2>1 DEF PatternInit
<1>2. Text /\ [PatternNext]_patternVars => Text'
  <2> SUFFICES ASSUME Text, [PatternNext]_patternVars
               PROVE  Text'
    OBVIOUS
  <2>1. ASSUME NEW c \in Letters \cup {"*", "?"}, GrowPattern(c)
        PROVE  Text'
    <3>1. c \in Characters
      BY DEF Characters
    <3>2. QED
      BY <2>1, <3>1, AppendProperties DEF GrowPattern
  <2>2. ASSUME NEW c \in Letters, GrowTarget(c)
        PROVE  Text'
    <3>1. c \in Characters
      BY DEF Characters
    <3>2. QED
      BY <2>2, <3>1, AppendProperties DEF GrowTarget
  <2>3. QED
    BY <2>1, <2>2 DEF PatternNext, patternVars
<1>3. QED
  BY <1>1, <1>2, PTL DEF PatternSpec

(* The event bus matches and splits names as they are meant, for every      *)
(* pattern and every name over any characters, and any room for them        *)
(* (esp_bus_match_pattern, esp_bus_parse_pattern).                          *)
THEOREM NamesAreTakenAsMeant == PatternSpec => []MatchesAsMeant
<1>1. pattern \in Seq(Characters) /\ target \in Seq(Characters) => MatchesAsMeant
  <2> SUFFICES ASSUME pattern \in Seq(Characters), target \in Seq(Characters)
               PROVE  MatchesAsMeant
    OBVIOUS
  <2>1. MatchesFrom(Kept(pattern), Kept(target)) <=> Reference(Kept(pattern), Kept(target))
    <3>1. PICK pat, tgt, n : pat = Kept(pattern) /\ tgt = Kept(target) /\ n = PatternMax - 1 /\ n \in Nat
      BY PatternAssumption
    <3>2. pat \in Seq(Characters) /\ tgt \in Seq(Characters)
      BY <3>1, CutIsBeginning DEF Kept
    <3>3. Len(pat) \in Nat
      BY <3>2
    <3>4. MatchesFrom(pat, tgt) <=> Reference(pat, tgt)
      BY <3>2, <3>3, MatchesAreMeant
    <3>5. QED
      BY <3>1, <3>4
  <2>2. SplitsAsJoined
    <3> SUFFICES ASSUME PositionsOf(".", pattern) \cup PositionsOf(":", pattern) = {},
                        NEW c \in {".", ":"}, c = ":" => PositionsOf(".", target) = {}
                 PROVE  IF Len(pattern) < NameMax /\ Len(pattern) < PatternMax - 1
                        THEN Split(Posted(pattern, c, target)) =
                                Parts(pattern, c, Cut(target, PatternMax - 2 - Len(pattern)))
                        ELSE Split(Posted(pattern, c, target)).ok =>
                                Split(Posted(pattern, c, target)).sep = "none"
      BY DEF SplitsAsJoined
    <3>1. PositionsOf(".", pattern) = {} /\ PositionsOf(":", pattern) = {}
      OBVIOUS
    <3>2. c \in Characters
      BY DEF Characters
    <3> HIDE DEF Characters
    <3>3. QED
      BY <3>1, <3>2, SplitIsBack
  <2>3. QED
    BY <2>1, <2>2 DEF MatchesAsMeant
<1>2. QED
  BY <1>1, PatternsAreText, PTL
=============================================================================
