-------------------------- MODULE GovernedDecision --------------------------
(***************************************************************************)
(* What one evaluation promises, without a file in sight: the trust of the *)
(* contracts is settled first and once; requirements are judged only after *)
(* it was settled as verified; the decision follows from the verdicts; and *)
(* an evaluation that does not return a report returns nothing.            *)
(***************************************************************************)
CONSTANT None

VARIABLES phase,     \* "trusting", "judging", "reported" or "raised"
          trust,     \* the contract trust state, None before it is settled
          verdicts,  \* the set of verdicts on the requirements judged so far
          decision   \* the decision reported, None before

vars == <<phase, trust, verdicts, decision>>

Refusals == {"invalid", "missing", "stale", "ambiguous"}
States == {"satisfied", "blocked", "missing", "indeterminate"}

(* When a decision may be reported for the verdicts of the requirements.   *)
Justifies(found, d) ==
  \/ d = "READY" /\ found = {"satisfied"}
  \/ d = "HOLD" /\ found \cap {"blocked", "missing"} # {}
  \/ /\ d = "INDETERMINATE" /\ "indeterminate" \in found
     /\ found \cap {"blocked", "missing"} = {}

Init ==
  /\ phase = "trusting" /\ trust = None /\ verdicts = {} /\ decision = None

Refuse(state) ==
  /\ phase = "trusting"
  /\ phase' = "reported" /\ trust' = state /\ decision' = "INDETERMINATE"
  /\ UNCHANGED verdicts

Verify ==
  /\ phase = "trusting"
  /\ phase' = "judging" /\ trust' = "verified"
  /\ UNCHANGED <<verdicts, decision>>

Judge(verdict) ==
  /\ phase = "judging"
  /\ verdicts' = verdicts \cup {verdict}
  /\ UNCHANGED <<phase, trust, decision>>

Report(d) ==
  /\ phase = "judging" /\ Justifies(verdicts, d)
  /\ phase' = "reported" /\ decision' = d
  /\ UNCHANGED <<trust, verdicts>>

Raise ==
  /\ phase \in {"trusting", "judging"}
  /\ phase' = "raised"
  /\ UNCHANGED <<trust, verdicts, decision>>

Next ==
  \/ \E state \in Refusals : Refuse(state)
  \/ Verify
  \/ \E verdict \in States : Judge(verdict)
  \/ \E d \in {"READY", "HOLD", "INDETERMINATE"} : Report(d)
  \/ Raise

Spec == Init /\ [][Next]_vars
=============================================================================
