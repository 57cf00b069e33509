--------------------------- MODULE OutputContract ---------------------------
(***************************************************************************)
(* The contract of one output (_validate_output_contract), be it an        *)
(* oracle's, an annotator's or an evaluated path's: its disposition, the   *)
(* status of the mechanism and of the authority name one rule, V1 to V8,   *)
(* and the rule says which reasons, which stages and which oracle rules    *)
(* the output may have.                                                    *)
(*                                                                         *)
(* An output is a record with disposition, mechanism, authority, reasons,  *)
(* chains, unevaluated, whether it has contract records (contracts) and    *)
(* evidence records (evidence), and whether it is an oracle's or that of   *)
(* an annotator (oracle): only those have rules, a path's result has {}.   *)
(***************************************************************************)
EXTENDS Integers, Sequences

STAGE_ORDER == <<"authority", "contract", "evidence">>

(* What may be unevaluated: the stages from one of them on.                *)
Unevaluable == {SubSeq(STAGE_ORDER, n, 3) : n \in 1 .. 4}

Resolved == {"PRECEDENCE_RESOLVED", "RECOVERY_EFFECTIVE", "REVOCATION_EFFECTIVE"}

Row(disposition, mechanism, authority, required, related, evidenceRules) ==
  [triplet |-> <<disposition, mechanism, authority>>, required |-> required,
   allowed |-> required \cup related, evidenceRules |-> evidenceRules]

VRules ==
  [V1_READY |-> Row("READY", "CONFORMANT", "VALID",
     {"ALL_REQUIREMENTS_SATISFIED"}, {"AUTHORITY_VALID"} \cup Resolved,
     {"OE8_ALL_SATISFIED"}),
   V2_HOLD |-> Row("HOLD", "CONFORMANT", "VALID",
     {"POLICY_UNSATISFIED", "REQUIRED_EVIDENCE_ABSENT", "TRUST_OR_TIME_UNSATISFIED"},
     {"AUTHORITY_VALID"} \cup Resolved,
     {"OE1_REQUIRED_ABSENT", "OE2_POLICY_FALSE", "OE3_TRUST_OR_TIME_FALSE"}),
   V3_EVIDENCE_UNKNOWN |-> Row("INDETERMINATE", "CONFORMANT", "VALID",
     {"EVIDENCE_CONTRADICTION", "EVIDENCE_UNREADABLE", "INVENTORY_INCOMPLETE",
      "SEMANTICALLY_UNJUDGEABLE"},
     {"AUTHORITY_VALID"} \cup Resolved,
     {"OE4_UNREADABLE", "OE5_UNRESOLVED_CONTRADICTION",
      "OE6_SEMANTICALLY_UNJUDGEABLE", "OE7_INVENTORY_UNKNOWN"}),
   V4_AUTHORITY_CONFLICT |-> Row("AUTHORITY_CONFLICT", "CONFORMANT", "CONFLICT",
     {"VALID_ISSUER_CONFLICT"}, Resolved \ {"PRECEDENCE_RESOLVED"}, {}),
   V5_AUTHORITY_INVALID |-> Row("INDETERMINATE", "CONFORMANT", "INVALID",
     {"AUTHORITY_INVALID"},
     {"DUPLICATE_LINEAGE_HEAD", "IDENTITY_BINDING_MISMATCH", "ROLLBACK_DETECTED",
      "SCOPE_ESCALATION", "TRUST_OR_TIME_UNSATISFIED"}, {}),
   V6_AUTHORITY_UNKNOWN |-> Row("INDETERMINATE", "CONFORMANT", "INDETERMINATE",
     {"AUTHORITY_INDETERMINATE"}, {}, {}),
   V7_MECHANISM_NONCONFORMANT |-> Row("INDETERMINATE", "NONCONFORMANT", "INDETERMINATE",
     {"MECHANISM_NONCONFORMANT"}, {}, {}),
   V8_MECHANISM_UNKNOWN |-> Row("INDETERMINATE", "INDETERMINATE", "INDETERMINATE",
     {"MECHANISM_INDETERMINATE"}, {}, {})]

AUTHORITY_TO_OA_RULE ==
  [VALID |-> "OA1_VALID", CONFLICT |-> "OA2_CONFLICT", INVALID |-> "OA3_INVALID",
   INDETERMINATE |-> "OA4_UNKNOWN"]

RuleOf(output) ==
  CHOOSE v \in DOMAIN VRules :
    VRules[v].triplet = <<output.disposition, output.mechanism, output.authority>>

-----------------------------------------------------------------------------

ReasonsMatch(output) ==
  LET row == VRules[RuleOf(output)]
  IN  output.reasons \cap row.required # {} /\ output.reasons \subseteq row.allowed

StagesMatch_Chainless(output) ==   \* variant: only a conflict has to have chains
  /\ output.authority = "CONFLICT" => output.chains # <<>>
  /\ output.authority = "VALID" =>
       output.unevaluated = <<>> /\ output.contracts /\ output.evidence

(* What is listed as evaluated is what the status of the authority lets    *)
(* through; nothing is asked of a mechanism that is not CONFORMANT.        *)
StagesMatch(output) ==
  /\ output.unevaluated \in Unevaluable
  /\ output.authority \in {"VALID", "CONFLICT"} => output.chains # <<>>
  /\ output.authority = "VALID" =>
       output.unevaluated = <<>> /\ output.contracts /\ output.evidence
  /\ output.authority # "VALID" /\ output.mechanism = "CONFORMANT" =>
       /\ ~ output.contracts /\ ~ output.evidence
       /\ output.unevaluated = <<"contract", "evidence">>

RulesMatch(output) ==
  LET v == RuleOf(output)
      base == {v} \cup (IF output.mechanism = "CONFORMANT"
                        THEN {AUTHORITY_TO_OA_RULE[output.authority]} ELSE {})
      rest == output.rules \ base
  IN  /\ base \subseteq output.rules
      /\ rest \subseteq VRules[v].evidenceRules
      /\ rest = {} => VRules[v].evidenceRules = {}

OutputConforms(output) ==
  /\ StagesMatch(output)
  /\ ReasonsMatch(output)
  /\ output.oracle => RulesMatch(output)
============================================================================
