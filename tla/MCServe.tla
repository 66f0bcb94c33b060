------------------------------ MODULE MCServe ------------------------------
(***************************************************************************)
(* Destinations for TLC: a path and nothing else, the reference that leaves *)
(* most to the URL it is followed from, and one that is followed anywhere.  *)
(***************************************************************************)
EXTENDS Serve

MCPath == {[scheme |-> "", at |-> NoHost]}

MCSite == {[scheme |-> "https", at |-> "site"]}
=============================================================================
