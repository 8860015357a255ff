---------------------------- MODULE MCRunArtifacts ----------------------------
(* Every configuration with no other setting than what its drift needs;    *)
(* and of the other settings, over the defaults, each alone with either    *)
(* value, those of a drift with a weight and without, and all of them.     *)
EXTENDS RunArtifacts

Mix == [p \in {<<"topic_mix", "weight">>} |-> "document"]

Drifting(set) == <<"drift", "events">> \in UNION {Path(p) : p \in DOMAIN set}

SettingDocuments ==
  (UNION {[{p} -> {"document", "void"}] : p \in Tunable \cup Unknown})
    \cup (UNION {[{p} -> {"void"}] : p \in {<<"", "algorithm">>, <<"simulation", "scheduler">>}})
    \cup {[p \in DOMAIN s \cup DOMAIN Mix |-> IF p \in DOMAIN s THEN s[p] ELSE Mix[p]] :
             s \in {t \in UNION {[{p} -> {"document", "void"}] : p \in Tunable} : Drifting(t)}}
    \cup [Tunable -> {"document"}]

EveryDocument ==
  {[gates |-> c, settings |-> IF "drift" \in c.on THEN Mix ELSE <<>>] : c \in Configurations}
    \cup {[gates |-> [Defaults EXCEPT !.on = {g \in {"drift"} : Drifting(s)}], settings |-> s] :
            s \in SettingDocuments}
===============================================================================
