------------------------------ MODULE RunSummary ------------------------------
(***************************************************************************)
(* What summary.json says: its blocks, the welfare fields it declares not  *)
(* yet modelled, the status of the session-health group, and the files the *)
(* notes of its blocks send the reader to.  Numbers and wording are left   *)
(* out.  Operators on the configuration and the configured blocks.         *)
(***************************************************************************)
EXTENDS ConfigGates

(* The keys of every summary.                                              *)
PlainKeys == {"experiment_id", "algorithm", "seed", "counts", "metrics", "oracle",
              "learning", "retrieval", "diversity", "notes", "timing"}

(* The keys that come with a configured block: welfare brings the index of *)
(* the four metric groups, an adaptation delay is nested in event_mode.    *)
BlockKeys(blocks) ==
  (blocks \ {"adaptation_delay"}) \cup {k \in {"metric_groups"} : "welfare" \in blocks}

(* Mutant: trust is taken for measured wherever a long-term block is.      *)
TrustWithLongTerm(c, blocks) == "long_term" \in blocks

(* Trust is measured by the event runner only, under a gate that moves it. *)
TrustModeled(c, blocks) ==
  c.scheduler = "event_queue" /\ LongTermGate(c) /\ "welfare" \in blocks

NotYetModeled(c, blocks) ==
  {f \in {"harmful_fatigue"} : "welfare" \in blocks /\ "session_health" \notin blocks}
    \cup {f \in {"platform_trust"} : "welfare" \in blocks /\ ~TrustModeled(c, blocks)}

(* The session-health group of the index.                                  *)
SessionGroup(blocks) ==
  IF "welfare" \notin blocks THEN "absent"
  ELSE IF "session_health" \in blocks THEN "live" ELSE "limited_pre_p16"

(* The cohort columns the learning curve has after the legacy four.        *)
CurveColumns(blocks) == IF "adaptation" \in blocks THEN 8 ELSE 4

(* The files named by the note of a block, or by the index of groups.      *)
Pointers(block) ==
  CASE block = "always" -> {"learning_curve", "diversity_metrics", "retrieval_metrics",
                            "recommendation_metrics"}
    [] block = "cold_start" -> {"new_user_curve", "new_reel_exposure"}
    [] block = "adaptation" -> {"learning_curve"}
    [] block = "welfare" -> {"welfare_metrics", "welfare_archetype_metrics"}
    [] block = "session_health" -> {"session_health"}
    [] block = "event_mode" -> {"serving_metrics"}
    [] block = "long_term" -> {"longterm_metrics", "hidden_preference_final"}
    [] block = "ecosystem" -> {"ecosystem_metrics"}
    [] OTHER -> {}

Summary(c, blocks) ==
  [keys |-> PlainKeys \cup BlockKeys(blocks),
   delay |-> "adaptation_delay" \in blocks,
   unmodeled |-> NotYetModeled(c, blocks),
   group |-> SessionGroup(blocks),
   columns |-> CurveColumns(blocks),
   pointers |-> UNION {Pointers(b) : b \in blocks \cup {"always"}}]
===============================================================================
