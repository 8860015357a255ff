----------------------------- MODULE MCCatalogue -----------------------------
(* A small catalogue: an old reel, a recent one and one out of the window. *)
EXTENDS Catalogue

MCGenerated ==
  <<[creator |-> "c", topic |-> "s", created |-> -1],
    [creator |-> "d", topic |-> "s", created |-> -3],
    [creator |-> "c", topic |-> "t", created |-> 0]>>
MCNewReels == <<[creator |-> "c", topic |-> "t"]>>
=============================================================================
