----------------------------- MODULE FeedService -----------------------------
(***************************************************************************)
(* What the recommendation pipeline promises its caller: to a request it   *)
(* answers, once, a feed of distinct servable reels, at most FeedSize, none*)
(* of which the user has consumed.  This is what the event-driven runner   *)
(* relies on when it appends responses to a client cache.                  *)
(***************************************************************************)
EXTENDS Integers, Sequences, SequencesExt

CONSTANTS Reels, Servable, FeedSize

VARIABLES asked, seen, answer
vars == <<asked, seen, answer>>

\* The feeds a user with this history may be answered.
Feeds(history) ==
  {f \in Seq(Servable \ history) : Len(f) <= FeedSize /\ IsInjective(f)}

Init == asked = FALSE /\ seen = {} /\ answer = <<>>

Ask == ~asked /\ asked' = TRUE /\ answer' = <<>> /\ UNCHANGED seen

Answer ==
  /\ asked /\ asked' = FALSE
  /\ answer' \in Feeds(seen)
  /\ UNCHANGED seen

\* The user consumes part of the answer.
Consume ==
  /\ ~asked
  /\ \E some \in SUBSET Range(answer) : seen' = seen \cup some
  /\ answer' = <<>>
  /\ UNCHANGED asked

Next == Ask \/ Answer \/ Consume

Spec == Init /\ [][Next]_vars
=============================================================================
