---------------------------- MODULE MdnsResults ----------------------------
(***************************************************************************)
(* What the mDNS library knows of the services of one type that it         *)
(* searches for (mdns_querier.c) and browses (mdns_browser.c), on one      *)
(* interface and protocol.  The results are lists, the newest in front.    *)
(*                                                                         *)
(* The hosts answer truthfully, in any order and with any part of what     *)
(* there is; a service may move to another host and change its text.  The  *)
(* packets may also have records for names that the device has itself: its *)
(* own, which another host claims, and the type of a service of its own.   *)
(* Nobody says goodbye (MdnsQuery has what that does), the times to live   *)
(* are left out, and memory runs out between two records only.             *)
(***************************************************************************)
EXTENDS Naturals, Sequences

CONSTANTS Instances,    \* the services
          Hosts,        \* where they may be
          AddressesOf,  \* the addresses of each host
          Texts,        \* what their TXT records may say
          SoughtService, SoughtHost, \* what a search may name
          Own, OwnHost, \* a service of the device, and its host name
          Alike,        \* the services of the types that the device offers
          Nil,
          Limits,       \* how many results a caller may ask for, 0 for any number
          MaxHeard      \* bound: records that come

ASSUME ResultsAssumption ==
    /\ Nil \notin Instances \cup Alike \cup Hosts \cup Texts
    /\ SoughtService \in Instances /\ SoughtHost \in Hosts
    /\ Own \in Alike /\ OwnHost \in Hosts
    /\ Limits \subseteq Nat /\ MaxHeard \in Nat

VARIABLES kind,         \* search->type
          limit,        \* search->max_results
          found,        \* search->result
          searching,    \* the search still goes on
          seen,         \* browse->result
          syncs,        \* the actions queued for the notifier: lists of results
          told,         \* each result as the notifier saw it last
          untold,       \* the results whose action found the queue full, or
                        \* whose packet was malformed further on
          heard
resultVars == <<kind, limit, found, searching, seen, syncs, told, untold, heard>>

Unknown == [of |-> Nil, host |-> Nil, addrs |-> {}, txt |-> Nil]
Result(i) == [Unknown EXCEPT !.of = i]

ResultsInit ==
    /\ kind \in {"PTR", "SRV", "TXT", "A"} /\ limit \in Limits
    /\ found = <<>> /\ searching = TRUE /\ seen = <<>> /\ syncs = <<>>
    /\ told = [i \in Instances |-> Unknown] /\ untold = {}
    /\ heard = 0

Record(type, i, h, t) == [type |-> type, of |-> i, host |-> h, data |-> t]
Records ==
    {Record("PTR", i, Nil, Nil) : i \in Instances \cup Alike}
    \cup {Record("SRV", i, h, Nil) : i \in Instances \cup {Own}, h \in Hosts}
    \cup {Record("TXT", i, Nil, t) : i \in Instances \cup {Own}, t \in Texts}
    \cup UNION {{Record("A", Nil, h, a) : a \in AddressesOf[h]} : h \in Hosts}

(* The place of the first result that passes, or 0. *)
PlaceOf(list, Test(_)) ==
    LET places == {n \in DOMAIN list : Test(list[n])}
    IN IF places = {} THEN 0 ELSE CHOOSE n \in places : \A m \in places : n <= m
Knows(list, i) == \E n \in DOMAIN list : list[n].of = i

-----------------------------------------------------------------------------
(* The search, for all services of the type or for one of them, for its     *)
(* text or for a host.                                                      *)

(* mdns_priv_query_find_from *)
Finds(list, record) ==
    CASE record.type = "A" ->
           \/ kind = "A" /\ record.host = SoughtHost
           \/ kind \in {"PTR", "SRV"} /\ \E n \in DOMAIN list : list[n].host = record.host
      [] record.type \in {"SRV", "TXT"} ->
           \/ kind = "PTR" /\ record.of \in Instances
           \/ kind = record.type /\ record.of = SoughtService
      [] record.type = "PTR" -> kind = "PTR"

(* No more results than were asked for. *)
Room(list) == limit = 0 \/ Len(list) < limit
Added(list, result) == IF Room(list) THEN <<result>> \o list ELSE list

(* mdns_priv_query_result_add_ptr *)
AddPtr(list, i) == IF Knows(list, i) THEN list ELSE Added(list, Result(i))

(* A SRV record: to the result of the service, whose host and port are only *)
(* assigned once; or, asked for, a result for each host                     *)
(* (mdns_priv_query_result_add_srv).                                        *)
AddSrv(list, i, h) ==
    IF kind = "PTR"
    THEN LET known == AddPtr(list, i)
         IN [n \in DOMAIN known |-> IF known[n].of = i /\ known[n].host = Nil
                                    THEN [known[n] EXCEPT !.host = h] ELSE known[n]]
    ELSE IF \E n \in DOMAIN list : list[n].host = h THEN list
         ELSE Added(list, [Result(SoughtService) EXCEPT !.host = h])

(* A TXT record: the first one stays.  Asked for, it goes to the first      *)
(* result, of no name (mdns_priv_query_result_add_txt).                     *)
AddTxt(list, i, t) ==
    LET known == IF kind = "PTR" THEN AddPtr(list, i) ELSE list
        Mine(n) == IF kind = "PTR" THEN known[n].of = i ELSE n = 1
    IN IF kind # "PTR" /\ list = <<>> THEN Added(list, [Unknown EXCEPT !.txt = t])
       ELSE [n \in DOMAIN known |-> IF Mine(n) /\ known[n].txt = Nil
                                    THEN [known[n] EXCEPT !.txt = t] ELSE known[n]]

(* Variant with a plausible bug: the first result takes any address. *)
AddIp_Any(list, h, a) ==
    IF list # <<>> THEN [list EXCEPT ![1].addrs = @ \cup {a}]
    ELSE Added(list, [Unknown EXCEPT !.host = h, !.addrs = {a}])

(* mdns_priv_query_result_add_ip: the address goes to the first result of   *)
(* the host only.                                                           *)
AddIp(list, h, a) ==
    LET n == PlaceOf(list, LAMBDA r : kind = "A" \/ r.host = h)
    IN IF kind = "TXT" THEN list
       ELSE IF n # 0 THEN [list EXCEPT ![n].addrs = @ \cup {a}]
       ELSE IF kind = "A" THEN Added(list, [Unknown EXCEPT !.host = h, !.addrs = {a}])
       ELSE list

Answered(list, record) ==
    CASE record.type = "PTR" -> AddPtr(list, record.of)
      [] record.type = "SRV" -> AddSrv(list, record.of, record.host)
      [] record.type = "TXT" -> AddTxt(list, record.of, record.data)
      [] record.type = "A"   -> AddIp(list, record.host, record.data)

-----------------------------------------------------------------------------
(* The browse, which runs with a search for all services of the type, and   *)
(* with no other.                                                           *)

(* mdns_priv_browse_find *)
Browses(list, record) ==
    /\ kind = "PTR"
    /\ \/ record.type \in {"SRV", "TXT"} /\ record.of \in Instances
       \/ record.type = "A" /\ \E n \in DOMAIN list : list[n].host = record.host

(* Each operator returns the list and the results that the notifier is to   *)
(* be told of (add_browse_result).                                          *)

Outcome(list, news) == [list |-> list, news |-> news]
Unchanged(list) == Outcome(list, {})

(* copy_address_in_previous_result *)
AddressesAt(list, h) ==
    LET n == PlaceOf(list, LAMBDA r : r.host = h /\ r.addrs # {})
    IN IF n = 0 THEN {} ELSE list[n].addrs

(* mdns_priv_browse_result_add_srv: a new host takes the place of the old   *)
(* one, but only a result without addresses gets those of the host.         *)
BrowseSrv(list, i, h) ==
    LET n == PlaceOf(list, LAMBDA r : r.of = i)
        Moved(r) == [r EXCEPT !.host = h,
                              !.addrs = IF @ = {} THEN AddressesAt(list, h) ELSE @]
    IN IF n = 0 THEN Outcome(<<[Result(i) EXCEPT !.host = h]>> \o list, {i})
       ELSE IF list[n].host = h THEN Unchanged(list)
       ELSE Outcome([list EXCEPT ![n] = Moved(@)], {i})

(* Variant with a plausible bug: a changed text is not told either. *)
BrowseTxt_Untold(list, i, t) ==
    LET n == PlaceOf(list, LAMBDA r : r.of = i)
    IN IF n = 0 THEN Outcome(<<[Result(i) EXCEPT !.txt = t]>> \o list, {i})
       ELSE Unchanged([list EXCEPT ![n].txt = t])

(* mdns_priv_browse_result_add_txt: the first text of a result is not told. *)
BrowseTxt(list, i, t) ==
    LET n == PlaceOf(list, LAMBDA r : r.of = i)
    IN IF n = 0 THEN Outcome(<<[Result(i) EXCEPT !.txt = t]>> \o list, {i})
       ELSE Outcome([list EXCEPT ![n].txt = t],
                    IF list[n].txt \in {Nil, t} THEN {} ELSE {i})

(* mdns_priv_browse_result_add_ip: an address goes to the first result of   *)
(* the host that does not have it.                                          *)
BrowseIp(list, h, a) ==
    LET n == PlaceOf(list, LAMBDA r : r.host = h /\ a \notin r.addrs)
    IN IF n = 0 THEN Unchanged(list)
       ELSE Outcome([list EXCEPT ![n].addrs = @ \cup {a}], {list[n].of})

Browse(list, record, i) ==
    CASE record.type = "PTR" -> Unchanged(list)
      [] record.type = "SRV" -> BrowseSrv(list, i, record.host)
      [] record.type = "TXT" -> BrowseTxt(list, i, record.data)
      [] record.type = "A"   -> BrowseIp(list, record.host, record.data)

-----------------------------------------------------------------------------
(* A packet (mdns_parse_packet), record by record.  Each one looks up the   *)
(* search and the browse it is for, and the name of its service for the     *)
(* browse; but one for a name of the device does not, and goes where the    *)
(* one before it went (search_result, browse_result,                        *)
(* browse_result_instance).                                                 *)

(* is_ours *)
Ours(record) ==
    \/ record.type = "PTR" /\ record.of \in Alike
    \/ record.type \in {"SRV", "TXT"} /\ record.of = Own
    \/ record.type = "A" /\ record.host = OwnHost

LookedUp(state, record) ==
    IF Ours(record) THEN state
    ELSE LET browsed == Browses(state.seen, record)
         IN [state EXCEPT !.search = searching /\ Finds(state.found, record),
                          !.browse = browsed,
                          !.named = IF browsed /\ record.type # "A" THEN record.of ELSE @]

(* While the search has no room for a service the browse does not get to    *)
(* hear of its SRV record.                                                  *)
Skipped(state, record) ==
    /\ record.type = "SRV" /\ state.search /\ kind = "PTR"
    /\ ~Knows(AddPtr(state.found, record.of), record.of)

(* A name of the device after an address, for a browse that was told no     *)
(* name: it is compared with NULL.                                          *)
Faults(state, record) ==
    state.browse /\ state.named = Nil /\ record.type \in {"SRV", "TXT"}

Heard(before, record) ==
    LET state == LookedUp(before, record)
        after == IF state.browse THEN Browse(state.seen, record, state.named)
                                 ELSE Unchanged(state.seen)
    IN IF before.faulted THEN before
       ELSE IF Skipped(state, record) THEN state
       ELSE IF Faults(state, record) THEN [state EXCEPT !.faulted = TRUE]
       ELSE [state EXCEPT !.found = IF state.search THEN Answered(@, record) ELSE @,
                          !.seen = after.list,
                          !.news = @ \cup after.news,
                          !.search = @ /\ record.type # "A"]

Read(records) ==
    LET state[n \in 0..Len(records)] ==
            IF n = 0
            THEN [found |-> found, seen |-> seen, news |-> {}, search |-> FALSE,
                  browse |-> FALSE, named |-> Nil, faulted |-> FALSE]
            ELSE Heard(state[n - 1], records[n])
    IN state[Len(records)]

(* A search that has found enough ends with a packet that is authoritative. *)
(* What is new to the browse is told with one action, for which the queue   *)
(* has room or not.  A packet that is not whole, the next record of which   *)
(* is malformed (or for which there is no memory), ends no search and tells *)
(* nothing; what its records changed stays changed.                         *)
PacketHeard(records, authoritative, whole) ==
    LET after == Read(records)
    IN /\ heard' = heard + Len(records) /\ heard' <= MaxHeard
       /\ ~after.faulted
       /\ found' = after.found /\ seen' = after.seen
       /\ searching' = (searching /\ (authoritative /\ whole => Room(found')))
       /\ \/ /\ after.news # {} /\ whole
             /\ syncs' = Append(syncs, after.news) /\ UNCHANGED untold
          \/ /\ after.news # {}
             /\ untold' = untold \cup after.news /\ UNCHANGED syncs
          \/ /\ after.news = {} /\ UNCHANGED <<syncs, untold>>
       /\ UNCHANGED <<kind, limit, told>>

(* The task reads from NULL: the device starts again, and looks again.      *)
PacketFaults(records) ==
    /\ heard' = heard + Len(records) /\ heard' <= MaxHeard
    /\ Read(records).faulted
    /\ found' = <<>> /\ searching' = TRUE /\ seen' = <<>> /\ syncs' = <<>>
    /\ told' = [i \in Instances |-> Unknown] /\ untold' = {}
    /\ UNCHANGED <<kind, limit>>

(* browse_sync: the notifier gets each result as it is by now. *)
Notify ==
    /\ syncs # <<>>
    /\ told' = [i \in Instances |->
                   IF i \in Head(syncs) THEN seen[PlaceOf(seen, LAMBDA r : r.of = i)]
                   ELSE told[i]]
    /\ untold' = untold \ Head(syncs)
    /\ syncs' = Tail(syncs)
    /\ UNCHANGED <<kind, limit, found, searching, seen, heard>>

Reads(records) ==
    \/ \E authoritative, whole \in BOOLEAN : PacketHeard(records, authoritative, whole)
    \/ PacketFaults(records)

ResultsNext ==
    \/ Notify
    \/ \E first \in Records :
          \/ Reads(<<first>>)
          \/ \E second \in Records \ {first} : Reads(<<first, second>>)

ResultsSpec == ResultsInit /\ [][ResultsNext]_resultVars

-----------------------------------------------------------------------------
(* A search finds each service, or each host of the service it names, once, *)
(* no more than it was asked for, and gives a result no address but those   *)
(* of the host it names, in whatever order the records come, the services   *)
(* move and records for names of the device come between (mdns_parse_packet,*)
(* mdns_priv_query_result_add_ip).                                          *)
SearchIsSound ==
    /\ limit # 0 => Len(found) <= limit
    /\ \A m, n \in DOMAIN found :
          found[m].of = found[n].of /\ (kind # "PTR" => found[m].host = found[n].host) => m = n
    /\ \A n \in DOMAIN found :
          IF found[n].host = Nil THEN found[n].addrs = {}
          ELSE found[n].addrs \subseteq AddressesOf[found[n].host]

(* What was told of a service is what is known of it, or it will be told    *)
(* again, unless the queue had no room for that, or the packet that changed *)
(* it was malformed further on: its host, its addresses, and its text once  *)
(* any was told (add_browse_result, browse_sync, clear_rx_packet).          *)
ToldOfChanges ==
    \A n \in DOMAIN seen :
        LET r == seen[n]
            pending == UNION {syncs[k] : k \in DOMAIN syncs}
        IN r.of \in pending \cup untold
           \/ /\ told[r.of].host = r.host /\ told[r.of].addrs = r.addrs
              /\ told[r.of].txt # Nil => told[r.of].txt = r.txt
=============================================================================
