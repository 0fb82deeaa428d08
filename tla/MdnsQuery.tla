----------------------------- MODULE MdnsQuery -----------------------------
(***************************************************************************)
(* How the mDNS library looks for the services of others: searches that    *)
(* end by themselves (mdns_querier.c) and browses that go on until they    *)
(* are deleted (mdns_browser.c).  The queue holds pointers to both, and a  *)
(* pointer may outlive what it points at: a search is told apart by its    *)
(* address, a browse by the number of its allocation.  A browse knows of   *)
(* one service.                                                            *)
(***************************************************************************)
EXTENDS MdnsQueue

CONSTANTS Searches,     \* the addresses a search may be allocated at
          Browsed,      \* the kinds of service that are browsed
          MaxAsked,     \* bound: calls of the library
          MaxAnswers    \* bound: answers that come

VARIABLES search,       \* the searches, and whether s_search_once lists them
          browse,       \* the browse of each kind of service in s_browse
          allocated,    \* how many browses were allocated
          dangling,     \* the task was about to use a browse that was freed
          asked, answers
queryVars == <<search, browse, allocated, dangling, asked, answers>>

Free == [state |-> "free", waits |-> FALSE, listed |-> FALSE, done |-> FALSE, full |-> FALSE]
(* The service that a browse knows of is gone when its time to live is 0.   *)
NoBrowse == [id |-> 0, gone |-> FALSE]

QueryInit ==
    /\ search = [s \in Searches |-> Free]
    /\ browse = [b \in Browsed |-> NoBrowse] /\ allocated = 0
    /\ dangling = FALSE
    /\ asked = 0 /\ answers = 0

SearchAction(what, s) == [type |-> "search", what |-> what, of |-> s]

(* An empty hand is not an action. *)
ASSUME NoneIsNoAction ==
    \A what \in {"add", "send", "end"}, s \in Searches : SearchAction(what, s) # None

OneAsked == asked < MaxAsked /\ asked' = asked + 1
BrowserRests == UNCHANGED <<browse, allocated, dangling>>

-----------------------------------------------------------------------------
(* Searches. *)

(* mdns_query_generic, whose caller waits, and mdns_query_async_new.        *)
NewSearch(s, waits) ==
    /\ search[s].state = "free" /\ HasRoom
    /\ search' = [search EXCEPT ![s] = [Free EXCEPT !.state = "INIT", !.waits = waits]]
    /\ actions' = Queued(actions, SearchAction("add", s))
    /\ OneAsked
    /\ BrowserRests /\ UNCHANGED <<hand, lock, answers>>

(* search_finish *)
Finish(list, s) ==
    IF ~list[s].listed THEN list
    ELSE [list EXCEPT ![s] = [@ EXCEPT !.state = "OFF", !.listed = FALSE, !.done = TRUE]]

(* mdns_priv_query_action; what search_send transmits is not kept.          *)
ExecuteSearch ==
    LET s == hand.of
    IN /\ Runs("search")
       /\ \/ hand.what = "add" /\ search' = [search EXCEPT ![s].listed = TRUE]
          \/ hand.what = "send" /\ UNCHANGED search
          \/ hand.what = "end" /\ search' = Finish(search, s)
       /\ Done /\ BrowserRests /\ UNCHANGED <<asked, answers>>

(* mdns_priv_query_start_stop, for one of the searches: the timeout has     *)
(* passed, or it is time to send the question (again).                      *)
Watched(s) == lock = 0 /\ search[s].listed /\ search[s].state # "OFF"

(* Variant with a plausible bug: off, although the end found no room. *)
TimesOut_Off(s) ==
    /\ Watched(s)
    /\ search' = [search EXCEPT ![s].state = "OFF"]
    /\ actions' = Queued(actions, SearchAction("end", s))
    /\ BrowserRests /\ UNCHANGED <<hand, lock, asked, answers>>

TimesOut(s) ==
    /\ Watched(s)
    /\ search' = [search EXCEPT ![s].state = IF HasRoom THEN "OFF" ELSE "RUNNING"]
    /\ actions' = Queued(actions, SearchAction("end", s))
    /\ BrowserRests /\ UNCHANGED <<hand, lock, asked, answers>>

SendsAgain(s) ==
    /\ Watched(s)
    /\ search' = [search EXCEPT ![s].state = "RUNNING"]
    /\ actions' = Queued(actions, SearchAction("send", s))
    /\ BrowserRests /\ UNCHANGED <<hand, lock, asked, answers>>

(* The caller of mdns_query_generic gets its semaphore and frees the search. *)
WaiterReturns(s) ==
    /\ search[s].waits /\ search[s].done
    /\ search' = [search EXCEPT ![s] = Free]
    /\ BrowserRests /\ UNCHANGED <<queueVars, asked, answers>>

(* mdns_query_async_get_results *)
GetResults(s) ==
    /\ search[s].state # "free" /\ ~search[s].waits /\ search[s].done
    /\ search' = [search EXCEPT ![s].done = FALSE]
    /\ BrowserRests /\ UNCHANGED <<queueVars, asked, answers>>

(* Variant with a plausible bug: a search that goes on may be deleted. *)
AsyncDelete_Running(s) ==
    /\ lock = 0 /\ ~search[s].waits
    /\ search[s].state # "free"
    /\ search' = [search EXCEPT ![s] = Free]
    /\ BrowserRests /\ UNCHANGED <<queueVars, asked, answers>>

(* mdns_query_async_delete: the search may be listed still, and its end     *)
(* queued.                                                                  *)
AsyncDelete(s) ==
    /\ lock = 0 /\ ~search[s].waits
    /\ search[s].state = "OFF"
    /\ search' = [search EXCEPT ![s] = Free]
    /\ BrowserRests /\ UNCHANGED <<queueVars, asked, answers>>

-----------------------------------------------------------------------------
(* Answers.  One that is authoritative, and whole, also ends every search   *)
(* that has as many results as it asked for (mdns_priv_query_done).  A      *)
(* browse is told of one that is news to it, unless the packet turns out to *)
(* be malformed further on.                                                 *)

AnswerComes(of, last, authoritative, news) ==
    /\ HasRoom /\ answers < MaxAnswers /\ answers' = answers + 1
    /\ actions' = Queued(actions, [type |-> "answer", of |-> of, last |-> last,
                                   authoritative |-> authoritative, news |-> news])
    /\ UNCHANGED <<hand, lock, search, browse, allocated, dangling, asked>>

Found(list, s) ==
    IF list[s].listed /\ list[s].state # "OFF" THEN [list EXCEPT ![s].full = TRUE] ELSE list

FinishFull(list) ==
    [s \in Searches |-> IF list[s].full THEN Finish(list, s)[s] ELSE list[s]]

(* A browse that hears the goodbye of a service it does not know of yet     *)
(* adds it all the same, as one that is gone.                               *)
ExecuteAnswer ==
    /\ Runs("answer")
    /\ \/ /\ hand.of \in Searches
          /\ search' = LET found == Found(search, hand.of)
                       IN IF hand.authoritative THEN FinishFull(found) ELSE found
          /\ UNCHANGED <<actions, browse>>
       \/ /\ hand.of \in Browsed
          /\ search' = IF hand.authoritative THEN FinishFull(search) ELSE search
          /\ LET b == hand.of
                 lives == browse[b].id # 0
             IN /\ browse' = [browse EXCEPT ![b].gone = IF lives THEN hand.last ELSE @]
                /\ actions' = IF lives /\ hand.news
                              THEN Queued(actions, [type |-> "sync", of |-> b, id |-> browse[b].id])
                              ELSE actions
    /\ hand' = None
    /\ UNCHANGED <<lock, allocated, dangling, asked, answers>>

-----------------------------------------------------------------------------
(* Browses. *)

(* mdns_browse_new and mdns_browse_delete *)
AskBrowse(what, b) ==
    /\ HasRoom
    /\ actions' = Queued(actions, [type |-> "browse", what |-> what, of |-> b])
    /\ OneAsked
    /\ UNCHANGED <<hand, lock, search, browse, allocated, dangling, answers>>

(* browse_add: a kind that is browsed already is not listed twice;          *)
(* browse_finish frees it.                                                  *)
ExecuteBrowse ==
    LET b == hand.of
    IN /\ Runs("browse")
       /\ \/ /\ hand.what = "add" /\ browse[b].id = 0
             /\ allocated' = allocated + 1
             /\ browse' = [browse EXCEPT ![b].id = allocated + 1]
          \/ /\ hand.what = "add" /\ browse[b].id # 0
             /\ UNCHANGED <<browse, allocated>>
          \/ /\ hand.what = "end"
             /\ browse' = [browse EXCEPT ![b] = NoBrowse] /\ UNCHANGED allocated
       /\ Done /\ UNCHANGED <<search, dangling, asked, answers>>

(* browse_sync: the notifier is called for what is new; a result that is    *)
(* gone by now is freed by mdns_query_results_free, which takes the lock    *)
(* that the task holds, and waits for it for ever.  If the browse was freed *)
(* before, what happens is undefined: here, nothing else does.              *)
ExecuteSync ==
    LET b == hand.of
        alive == browse[b].id = hand.id
    IN /\ Runs("sync")
       /\ dangling' = (dangling \/ ~alive)
       /\ lock' = IF alive /\ browse[b].gone THEN None ELSE 0
       /\ hand' = IF alive /\ browse[b].gone THEN hand ELSE None
       /\ UNCHANGED <<actions, search, browse, allocated, asked, answers>>

-----------------------------------------------------------------------------
QueryExecute == ExecuteSearch \/ ExecuteAnswer \/ ExecuteBrowse \/ ExecuteSync

QueryNext ==
    \/ \E s \in Searches :
          \/ \E waits \in BOOLEAN : NewSearch(s, waits)
          \/ TimesOut(s) \/ SendsAgain(s) \/ WaiterReturns(s) \/ GetResults(s) \/ AsyncDelete(s)
    \/ \E b \in Browsed, what \in {"add", "end"} : AskBrowse(what, b)
    \/ \E authoritative \in BOOLEAN :
          \/ \E s \in Searches : AnswerComes(s, FALSE, authoritative, FALSE)
          \/ \E b \in Browsed, last, news \in BOOLEAN : AnswerComes(b, last, authoritative, news)
    \/ QueryExecute
    \/ Receive /\ UNCHANGED queryVars

(* The task takes and runs what is queued; the timer of a search runs out,  *)
(* and its turn comes when there is room for its end; a caller that was     *)
(* given its semaphore runs on.                                             *)
QueryFairness ==
    /\ WF_<<queueVars, queryVars>>(Receive /\ UNCHANGED queryVars)
    /\ SF_<<queueVars, queryVars>>(QueryExecute)
    /\ \A s \in Searches :
          /\ SF_<<queueVars, queryVars>>(HasRoom /\ TimesOut(s))
          /\ WF_<<queueVars, queryVars>>(WaiterReturns(s))

QuerySpec ==
    /\ QueueInit /\ QueryInit /\ [][QueryNext]_<<queueVars, queryVars>>
    /\ QueryFairness

-----------------------------------------------------------------------------
(* The two faults of the browser: the task waits for itself (a goodbye for   *)
(* what is browsed), or has used a browse that was freed.                  *)
Disturbed == lock = None \/ dangling

(* A caller that waits for a search gets its results, whatever happens to   *)
(* the queue when its time is up and whoever ends it first, the timer or an *)
(* answer; so does one that asks for them later, if it does not delete the  *)
(* search (mdns_querier.c).  Unless one of the faults of the browser comes  *)
(* first: then mdns_query_generic, which waits with portMAX_DELAY, may      *)
(* never return.                                                            *)
SearchesEnd ==
    \A s \in Searches :
        search[s].state \in {"INIT", "RUNNING"}
            ~> search[s].done \/ search[s].state = "free" \/ Disturbed

(* The list of searches holds none that was freed, and the end that is      *)
(* queued for an address is never the end of another search that was        *)
(* allocated there since, as long as no browse was used that was freed      *)
(* (search_finish, mdns_query_async_delete).                                *)
Pending == (IF hand = None THEN {} ELSE {hand}) \cup {actions[i] : i \in DOMAIN actions}
EndsItsOwn ==
    ~dangling => \A s \in Searches : search[s].listed =>
        /\ search[s].state # "free"
        /\ SearchAction("end", s) \in Pending => search[s].state = "OFF"

=============================================================================
