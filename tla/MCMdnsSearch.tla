---------------------------- MODULE MCMdnsSearch ----------------------------
(***************************************************************************)
(* What the web server looks for with the mDNS library: two searches that  *)
(* share the queue with a browse, and what a search and a browse make of   *)
(* the answers.  The first is about when they end, the second about what   *)
(* they know, so that TLC runs one at a time.                              *)
(***************************************************************************)
EXTENDS MdnsQuery, MdnsResults

VARIABLE part
lookVars == <<part, queueVars, queryVars, resultVars>>

(* One host with two addresses, the others with one. *)
AddressesInUse ==
    [h \in Hosts |-> CASE h = SoughtHost -> {1, 2} [] h = OwnHost -> {4} [] OTHER -> {3}]

LookInit ==
    /\ part \in {"queries", "results"}
    /\ QueueInit /\ QueryInit /\ ResultsInit
    /\ part # "results" => kind = "PTR" /\ limit = 1

LookNext ==
    /\ UNCHANGED part
    /\ \/ part = "queries" /\ QueryNext
       \/ part # "queries" /\ UNCHANGED <<queueVars, queryVars>>
    /\ \/ part = "results" /\ ResultsNext
       \/ part # "results" /\ UNCHANGED resultVars

LookSpec ==
    LookInit /\ [][LookNext]_lookVars /\ QueryFairness
=============================================================================
