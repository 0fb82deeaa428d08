------------------------------ MODULE EventBus ------------------------------
(***************************************************************************)
(* The event bus of the web server and of the Wi-Fi manager (esp_bus).     *)
(*                                                                         *)
(* Modules, subscriptions, routes and services are nodes of four lists     *)
(* under one mutex.  The bus task takes messages from a queue, retains the *)
(* nodes a message is for, leaves the mutex and calls them one after the   *)
(* other; every other task may register and remove nodes meanwhile.  A     *)
(* node in use is not freed but marked, and freed when it is released.     *)
(*                                                                         *)
(* A list keeps its newest node first, so that ids give its order.  All    *)
(* modules have the same name and all patterns match the one event there   *)
(* is: what esp_bus_match_pattern decides is in module BusPattern.         *)
(***************************************************************************)
EXTENDS Naturals, Sequences, FiniteSets, FiniteSetsExt

CONSTANTS Clients,       \* the tasks other than the bus task
          MaxNodes,      \* bound: nodes ever allocated
          QueueSize,     \* BUS_QUEUE_SIZE
          MaxPosts,      \* bound: events and requests posted
          MaxShortages   \* bound: times memory runs out while nodes are collected

ASSUME BusAssumption ==
    /\ MaxNodes \in Nat
    /\ QueueSize \in Nat \ {0}
    /\ MaxPosts \in Nat
    /\ MaxShortages \in Nat
    /\ IsFiniteSet(Clients)
    /\ Clients \cap {"todo", "held"} = {}

Ids == 1..MaxNodes
None == 0

Kinds == {"module", "sub", "route", "once", "repeat"}
Services == {"once", "repeat"}

VARIABLES
    kind,       \* which list a node is of
    state,      \* "unborn", "live", "deleted" (pending_delete) or "freed"
    refs,       \* refcnt
    when,       \* next_run_us of a service: "later", "due" or "never" (0)
    queue,      \* g_bus.queue
    at,         \* what the bus task does
    todo,       \* the nodes it has retained for a message or a round of services
    running,    \* the handler of the next of them has been called
    held,       \* the module whose on_req it is calling
    cursor,     \* where esp_bus_calc_next_wait is in the list of services
    request,    \* the request it is processing
    client,     \* what each client does
    runs,       \* history: how often a one-shot was called, up to 2
    posts, shortages

nodeVars == <<kind, state, refs, when>>
taskVars == <<at, todo, running, held, cursor, request>>
vars == <<nodeVars, queue, taskVars, client, runs, posts, shortages>>

Idle == [at |-> "idle", node |-> None, nr |-> 0]
NoRequest == [from |-> "nobody", nr |-> 0]
Event == [type |-> "evt"]
Trigger == [type |-> "trigger"]
Request(c, nr) == [type |-> "req", from |-> c, nr |-> nr]

Listed(n) == state[n] \in {"live", "deleted"}

(***************************************************************************)
(* Who retains a node: the bus task's work list, the bus task as the       *)
(* module it asks, and clients that look at it.                            *)
(***************************************************************************)
Holders(n) ==
    (IF n \in todo THEN {"todo"} ELSE {})
      \cup (IF held = n THEN {"held"} ELSE {})
      \cup {c \in Clients : client[c].at = "looking" /\ client[c].node = n}

EventBusInit ==
    /\ kind = [n \in Ids |-> "sub"]
    /\ state = [n \in Ids |-> "unborn"]
    /\ refs = [n \in Ids |-> 0]
    /\ when = [n \in Ids |-> "never"]
    /\ queue = <<>>
    /\ at = "scan"
    /\ todo = {}
    /\ running = FALSE
    /\ held = None
    /\ cursor = None
    /\ request = NoRequest
    /\ client = [c \in Clients |-> Idle]
    /\ runs = [n \in Ids |-> 0]
    /\ posts = 0
    /\ shortages = 0

-----------------------------------------------------------------------------
(* Registering and removing, by any task and also from within handlers.     *)

Full == Len(queue) >= QueueSize
Enqueued(m) == IF Full THEN queue ELSE Append(queue, m)

ModuleNamed == {n \in Ids : kind[n] = "module" /\ state[n] = "live"}

(* A new node, at the head of its list; ids are given out in order.         *)
NextId == CHOOSE n \in 0..MaxNodes : \A m \in Ids : (state[m] # "unborn") <=> (m <= n)

Add(k) ==
    /\ NextId < MaxNodes
    /\ kind' = [kind EXCEPT ![NextId + 1] = k]
    /\ state' = [state EXCEPT ![NextId + 1] = "live"]
    /\ when' = [when EXCEPT ![NextId + 1] = IF k \in Services THEN "later" ELSE @]
    /\ queue' = IF k \in Services THEN Enqueued(Trigger) ELSE queue
    /\ UNCHANGED <<refs, taskVars, client, runs, posts, shortages>>

(* esp_bus_reg: the name must be free, but one of a marked module is.       *)
Register == ModuleNamed = {} /\ Add("module")

Subscribe == Add("sub")                  \* esp_bus_sub
Connect == Add("route")                  \* esp_bus_on, esp_bus_on_fn
Schedule(k) == k \in Services /\ Add(k)  \* add_service, which also triggers the task

(* Variant with a plausible bug. *)
Removed_AtOnce(n) == "freed"

(***************************************************************************)
(* Nodes leave: each is freed, or marked while it is in use.  A marked     *)
(* service runs no more.                                                   *)
(***************************************************************************)
Removed(n) == IF refs[n] = 0 THEN "freed" ELSE "deleted"

RemoveAll(S) ==
    /\ S # {}
    /\ \A n \in S : state[n] = "live"
    /\ state' = [n \in Ids |-> IF n \in S THEN Removed(n) ELSE state[n]]
    /\ when' = [n \in Ids |-> IF n \in S THEN "never" ELSE when[n]]
    /\ UNCHANGED <<kind, refs, queue, taskVars, client, runs, posts, shortages>>

Unregister(n) == kind[n] = "module" /\ RemoveAll({n})  \* esp_bus_unreg
Unsubscribe(n) == kind[n] = "sub" /\ RemoveAll({n})    \* esp_bus_unsub
Cancel(n) == kind[n] \in Services /\ RemoveAll({n})    \* remove_service

(* esp_bus_off: all routes that were connected the same way.                *)
Disconnect(S) == (\A n \in S : kind[n] = "route") /\ RemoveAll(S)

(***************************************************************************)
(* What releasing a node comes to: one reference less, and the end of the  *)
(* node if it was the last of one that is marked, or a one-shot that ran.  *)
(***************************************************************************)
LastUse(n) ==
    /\ refs[n] <= 1
    /\ state[n] = "deleted" \/ (kind[n] = "once" /\ when[n] = "never")

Release(n) ==
    /\ refs' = [refs EXCEPT ![n] = IF @ > 0 THEN @ - 1 ELSE @]
    /\ state' = [state EXCEPT ![n] = IF LastUse(n) THEN "freed" ELSE @]

(***************************************************************************)
(* esp_bus_exists, esp_bus_has_action, esp_bus_has_event: a client retains *)
(* the module, looks and releases it.                                      *)
(***************************************************************************)
LookUp(c) ==
    /\ client[c].at = "idle"
    /\ \E n \in ModuleNamed :
          /\ refs' = [refs EXCEPT ![n] = @ + 1]
          /\ client' = [client EXCEPT ![c].at = "looking", ![c].node = n]
    /\ UNCHANGED <<kind, state, when, queue, taskVars, runs, posts, shortages>>

LookedUp(c) ==
    /\ client[c].at = "looking"
    /\ Release(client[c].node)
    /\ client' = [client EXCEPT ![c].at = "idle", ![c].node = None]
    /\ UNCHANGED <<kind, when, queue, taskVars, runs, posts, shortages>>

-----------------------------------------------------------------------------
(* Posting messages.                                                        *)

(* esp_bus_emit: never waits; with a full queue the event is lost.          *)
Emit ==
    /\ posts < MaxPosts
    /\ queue' = Enqueued(Event)
    /\ posts' = posts + 1
    /\ UNCHANGED <<nodeVars, taskVars, client, runs, shortages>>

(***************************************************************************)
(* esp_bus_req from a task other than the bus task: the message carries    *)
(* the address of the caller's semaphore and result.  A full queue for the *)
(* whole time-out leaves everything as it was.                             *)
(***************************************************************************)
PostRequest(c) ==
    /\ client[c].at = "idle"
    /\ posts < MaxPosts
    /\ ~Full
    /\ posts' = posts + 1
    /\ client' = [client EXCEPT ![c].at = "waiting", ![c].nr = posts + 1]
    /\ queue' = Append(queue, Request(c, posts + 1))
    /\ UNCHANGED <<nodeVars, taskVars, runs, shortages>>

(* esp_bus_req without a time-out: nobody waits for the answer.             *)
PostOrder ==
    /\ posts < MaxPosts
    /\ queue' = Enqueued(Request(NoRequest.from, NoRequest.nr))
    /\ posts' = posts + 1
    /\ UNCHANGED <<nodeVars, taskVars, client, runs, shortages>>

(* The time-out of esp_bus_req: the semaphore is deleted, the message stays. *)
RequestTimesOut(c) ==
    /\ client[c].at = "waiting"
    /\ client' = [client EXCEPT ![c] = Idle]
    /\ UNCHANGED <<nodeVars, queue, taskVars, runs, posts, shortages>>

RequestReturns(c) ==
    /\ client[c].at = "answered"
    /\ client' = [client EXCEPT ![c] = Idle]
    /\ UNCHANGED <<nodeVars, queue, taskVars, runs, posts, shortages>>

-----------------------------------------------------------------------------
(* The bus task.                                                            *)

ServicesBelow(n) == {s \in Ids : s < n /\ kind[s] \in Services /\ Listed(s)}
NextService(n) == IF ServicesBelow(n) = {} THEN None ELSE Max(ServicesBelow(n))

(***************************************************************************)
(* esp_bus_calc_next_wait walks the list of services without the mutex:    *)
(* ScanNext reads the node under the cursor and goes to the next one.      *)
(***************************************************************************)
BeginScan ==
    /\ at = "scan"
    /\ cursor = None
    /\ cursor' = NextService(MaxNodes + 1)
    /\ at' = IF cursor' = None THEN "receive" ELSE "scan"
    /\ UNCHANGED <<nodeVars, queue, todo, running, held, request, client, runs,
                   posts, shortages>>

ScanNext ==
    /\ at = "scan"
    /\ cursor # None
    /\ cursor' = NextService(cursor)
    /\ at' = IF cursor' = None THEN "receive" ELSE "scan"
    /\ UNCHANGED <<nodeVars, queue, todo, running, held, request, client, runs,
                   posts, shortages>>

(* xQueueReceive, with a time-out first and without one while draining.     *)
Receive ==
    /\ at \in {"receive", "drain"}
    /\ queue # <<>>
    /\ queue' = Tail(queue)
    /\ LET m == Head(queue)
       IN  /\ at' = CASE m.type = "evt" -> "collect"
                      [] m.type = "req" -> "request"
                      [] OTHER -> "drain"
           /\ request' = IF m.type = "req" THEN [from |-> m.from, nr |-> m.nr] ELSE request
    /\ UNCHANGED <<nodeVars, todo, running, held, cursor, client, runs, posts, shortages>>

(* Nothing to receive: services run, unless they already did in this tick.  *)
QueueEmpty ==
    /\ at \in {"receive", "drain"}
    /\ queue = <<>>
    /\ at' \in {"tick", "scan"}
    /\ UNCHANGED <<nodeVars, queue, todo, running, held, cursor, request, client, runs,
                   posts, shortages>>

Matching == {n \in Ids : kind[n] \in {"sub", "route"} /\ state[n] = "live"}
Due == {n \in Ids : kind[n] \in Services /\ state[n] = "live" /\ when[n] = "due"}

Retained(S) == [n \in Ids |-> IF n \in S THEN refs[n] + 1 ELSE refs[n]]

(* esp_bus_dispatch_event up to the end of its mutex section.               *)
CollectEvent ==
    /\ at = "collect"
    /\ todo' = Matching
    /\ refs' = Retained(Matching)
    /\ at' = "events"
    /\ UNCHANGED <<kind, state, when, queue, running, held, cursor, request, client, runs,
                   posts, shortages>>

(***************************************************************************)
(* The same when realloc fails: what was retained so far stays so.  Of     *)
(* routes some can only be retained when all subscriptions are.            *)
(***************************************************************************)
ShortOfMemory ==
    /\ at = "collect"
    /\ shortages < MaxShortages
    /\ shortages' = shortages + 1
    /\ \E n \in Matching :
          refs' = Retained({m \in Matching : kind[m] = "sub" /\ (kind[n] = "sub" => m > n)}
                             \cup {m \in Matching : kind[m] = "route" /\ kind[n] = "route" /\ m > n})
    /\ at' = "drain"
    /\ UNCHANGED <<kind, state, when, queue, todo, running, held, cursor, request, client, runs,
                   posts>>

(* Variant with a plausible bug. *)
CollectServices_KeepsTime ==
    /\ at = "tick"
    /\ todo' = Due
    /\ refs' = Retained(Due)
    /\ at' = "services"
    /\ UNCHANGED <<kind, state, when, queue, running, held, cursor, request, client, runs,
                   posts, shortages>>

(***************************************************************************)
(* esp_bus_run_services up to the end of its mutex section: due services   *)
(* are retained and set anew, what is marked and unused is freed.          *)
(***************************************************************************)
Collected(S) ==
    /\ refs' = Retained(S)
    /\ when' = [n \in Ids |-> IF n \notin S THEN when[n]
                               ELSE IF kind[n] = "repeat" THEN "later" ELSE "never"]
    /\ state' = [n \in Ids |->
                   IF /\ kind[n] \in Services /\ Listed(n) /\ n \notin S /\ refs[n] = 0
                      /\ state[n] = "deleted" \/ (kind[n] = "once" /\ when[n] = "never")
                   THEN "freed" ELSE state[n]]

CollectServices ==
    /\ at = "tick"
    /\ Collected(Due)
    /\ todo' = Due
    /\ at' = "services"
    /\ UNCHANGED <<kind, queue, running, held, cursor, request, client, runs, posts,
                   shortages>>

(***************************************************************************)
(* The same when realloc fails: those collected so far stay retained, and  *)
(* none of them is called.                                                 *)
(***************************************************************************)
NoMemoryForServices ==
    /\ at = "tick"
    /\ shortages < MaxShortages
    /\ shortages' = shortages + 1
    /\ \E n \in Due : Collected({m \in Due : m > n})
    /\ at' = "scan"
    /\ UNCHANGED <<kind, queue, todo, running, held, cursor, request, client, runs, posts>>

(* Subscribers come before routes, and newer nodes before older ones.       *)
Current ==
    LET subs == {n \in todo : kind[n] = "sub"}
    IN  Max(IF subs # {} THEN subs ELSE todo)

CallNext ==
    /\ at \in {"events", "services"}
    /\ todo # {}
    /\ ~running
    /\ running' = TRUE
    /\ runs' = IF kind[Current] = "once" /\ runs[Current] < 2
               THEN [runs EXCEPT ![Current] = @ + 1] ELSE runs
    /\ UNCHANGED <<nodeVars, queue, at, todo, held, cursor, request, client, posts,
                   shortages>>

(***************************************************************************)
(* esp_bus_process_request: from a route, from a handler that calls        *)
(* esp_bus_req in the bus task, or for a message.  Without a module the    *)
(* request succeeds and nothing is called.                                 *)
(***************************************************************************)
CallModule ==
    /\ \/ at \in {"events", "services"} /\ running
       \/ at = "request"
    /\ held = None
    /\ \E n \in ModuleNamed :
          /\ held' = n
          /\ refs' = [refs EXCEPT ![n] = @ + 1]
    /\ UNCHANGED <<kind, state, when, queue, at, todo, running, cursor, request, client, runs,
                   posts, shortages>>

ModuleReturns ==
    /\ held # None
    /\ Release(held)
    /\ held' = None
    /\ at' = IF at = "request" THEN "reply" ELSE at
    /\ UNCHANGED <<kind, when, queue, todo, running, cursor, request, client, runs,
                   posts, shortages>>

NoModule ==
    /\ at = "request"
    /\ held = None
    /\ ModuleNamed = {}
    /\ at' = "reply"
    /\ UNCHANGED <<nodeVars, queue, todo, running, held, cursor, request, client, runs,
                   posts, shortages>>

(* release_sub, release_route, release_service after the handler.           *)
HandlerReturns ==
    /\ running
    /\ held = None
    /\ Release(Current)
    /\ todo' = todo \ {Current}
    /\ running' = FALSE
    /\ UNCHANGED <<kind, when, queue, at, held, cursor, request, client, runs, posts,
                   shortages>>

AllCalled ==
    /\ at \in {"events", "services"}
    /\ todo = {}
    /\ at' = IF at = "events" THEN "drain" ELSE "scan"
    /\ UNCHANGED <<nodeVars, queue, todo, running, held, cursor, request, client, runs,
                   posts, shortages>>

(* process_message writes the result and gives the caller's semaphore.      *)
Awaited(r) ==
    r.from \in Clients /\ client[r.from].at = "waiting" /\ client[r.from].nr = r.nr

Reply ==
    /\ at = "reply"
    /\ at' = "drain"
    /\ client' = IF Awaited(request)
                 THEN [client EXCEPT ![request.from].at = "answered"] ELSE client
    /\ request' = NoRequest
    /\ UNCHANGED <<nodeVars, queue, todo, running, held, cursor, runs, posts, shortages>>

(* Time passes for a service.                                               *)
FallsDue(n) ==
    /\ when[n] = "later"
    /\ when' = [when EXCEPT ![n] = "due"]
    /\ UNCHANGED <<kind, state, refs, queue, taskVars, client, runs, posts, shortages>>

-----------------------------------------------------------------------------
BusTask ==
    \/ BeginScan \/ ScanNext \/ Receive \/ QueueEmpty
    \/ CollectEvent \/ ShortOfMemory \/ CollectServices
    \/ NoMemoryForServices
    \/ CallNext \/ CallModule \/ ModuleReturns \/ NoModule \/ HandlerReturns \/ AllCalled
    \/ Reply

Client(c) == LookUp(c) \/ LookedUp(c) \/ PostRequest(c) \/ RequestTimesOut(c) \/ RequestReturns(c)

EventBusNext ==
    \/ BusTask
    \/ Emit \/ PostOrder
    \/ Register \/ Subscribe \/ Connect \/ \E k \in Services : Schedule(k)
    \/ \E n \in Ids : Unregister(n) \/ Unsubscribe(n) \/ Cancel(n) \/ FallsDue(n)
    \/ \E S \in SUBSET Ids : Disconnect(S)
    \/ \E c \in Clients : Client(c)

(***************************************************************************)
(* The bus task runs when it can, handlers return, and so do the clients'  *)
(* look-ups.  A handler that asks a module asks it finitely often, for     *)
(* which CallModule need not happen.                                       *)
(***************************************************************************)
BusScheduling ==
    /\ WF_vars(BeginScan \/ ScanNext \/ Receive \/ QueueEmpty \/ CollectEvent)
    /\ WF_vars(CollectServices \/ CallNext \/ AllCalled \/ Reply)
    /\ WF_vars(ModuleReturns) /\ WF_vars(NoModule) /\ WF_vars(at = "request" /\ CallModule)
    /\ SF_vars(HandlerReturns)
    /\ \A c \in Clients : WF_vars(LookedUp(c)) /\ WF_vars(RequestReturns(c))

EventBusSpec == EventBusInit /\ [][EventBusNext]_vars /\ BusScheduling

-----------------------------------------------------------------------------
(* Properties.                                                              *)

NodeIds == Ids \cup {None}

EventBusTypeOK ==
    /\ kind \in [Ids -> Kinds]
    /\ state \in [Ids -> {"unborn", "live", "deleted", "freed"}]
    /\ refs \in [Ids -> Nat]
    /\ when \in [Ids -> {"later", "due", "never"}]
    /\ Len(queue) <= QueueSize
    /\ at \in {"scan", "receive", "drain", "tick", "collect", "events", "services", "request",
               "reply"}
    /\ todo \subseteq Ids
    /\ running \in BOOLEAN
    /\ held \in NodeIds
    /\ cursor \in NodeIds
    /\ client \in [Clients -> [at : {"idle", "looking", "waiting", "answered"},
                               node : NodeIds, nr : 0..MaxPosts]]
    /\ runs \in [Ids -> 0..2]
    /\ posts \in 0..MaxPosts
    /\ shortages \in 0..MaxShortages

(***************************************************************************)
(* A node somebody retains is still in its list: whatever is removed while *)
(* an event is dispatched, a service runs or a module is asked, no handler *)
(* and no name is read from freed memory.  (CHANGELOG 1.0.2)               *)
(***************************************************************************)
HeldIsListed == \A n \in Ids : Holders(n) # {} => Listed(n)

(***************************************************************************)
(* A one-shot timer is called at most once, even if it is late by several  *)
(* rounds, and unless it is cancelled it does not leave the list uncalled. *)
(* One that was collected when memory ran out is not called, and stays in  *)
(* the list for good.                                                      *)
(***************************************************************************)
OnceRunsOnce ==
    [][\A n \in Ids : kind[n] = "once" =>
          /\ runs'[n] <= 1
          /\ state[n] = "live" /\ state'[n] = "freed" => runs[n] = 1 \/ Cancel(n)]_vars

=============================================================================
