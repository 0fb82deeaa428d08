----------------------------- MODULE MCMdnsNames -----------------------------
(***************************************************************************)
(* The responder of the mDNS library on one protocol of the station.  All  *)
(* services are of one type, or each of its own (MCMdnsNames.cfg).         *)
(***************************************************************************)
EXTENDS MdnsResponder

TypeIsItem == [s \in Services |-> s]
=============================================================================
