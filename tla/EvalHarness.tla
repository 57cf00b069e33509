---------------------------- MODULE EvalHarness ----------------------------
(***************************************************************************)
(* The live evaluation: for each case, copy the demo repository, damage it *)
(* as the fixture says (reissuing the trust root where the damage is to    *)
(* look authorised), evaluate it for the oracle, let a model answer with   *)
(* the tool at its disposal, and grade the answer; then score the run.     *)
(*                                                                         *)
(* The repository is a private directory that nothing else writes, so an   *)
(* evaluation is the verdict of TreeVerdict.  The model is free: it may    *)
(* call the tool with any request, several times in one turn, and answer   *)
(* anything except the digest of a report it was never shown.              *)
(***************************************************************************)
EXTENDS TreeVerdict

CONSTANTS Demo,        \* the tree of the demo repository and its contracts
          NotJson,     \* the bytes "not-json"
          Review,      \* the path of the security review
          TestRun,     \* the path of the test run
          Stranger,    \* the identifier of the owner nobody authorised
          OtherRelease, \* the reference "Orion 2.0.0"
          Schedules,   \* the sequences of cases a run may take, with repeats
          Requests,    \* the references the model may ask the tool about
          MaxTurns,    \* turns of the model before the SDK gives up
          MaxCalls     \* tool calls the model makes in one turn

Fixtures == {"complete", "missing_security", "forged_security", "malformed_test",
             "tampered_policy", "stale_policy", "unauthorized_owner",
             "ambiguous_identity"}
CaseRecords == [fixture : Fixtures, decision : Decisions, trust : TrustStates]

(* A run takes at least one case.                                          *)
ASSUME SchedulesAssumption == Schedules \subseteq Seq(CaseRecords) \ {<<>>}

VARIABLES
  cases,         \* the cases of this run, in their order
  tree,          \* the repository of the case at hand
  stage,         \* the next step of the harness
  oracle,        \* the report of the oracle, None before
  turns,         \* turns the model has taken
  log,           \* the audit log of the tool
  observations   \* one record for each case graded so far

harnessVars == <<cases, tree, stage, oracle, turns, log, observations>>

Case == cases[Len(observations) + 1]

HarnessInit ==
  /\ cases \in Schedules /\ tree = Demo /\ stage = "damage"
  /\ oracle = None /\ turns = 0 /\ log = <<>> /\ observations = <<>>

-----------------------------------------------------------------------------
(* Fixtures.                                                               *)

(* _write_json: the bytes that parse to the document.                      *)
Serialized(parse, document) == CHOOSE b \in Bytes : parse[b] = document

WithContract(files, path, document) ==
  [files EXCEPT ![path] = Serialized(ParseContract, document)]

Policy(files) == ParseContract[files["policy.json"]]
Ownership(files) == ParseContract[files["ownership.json"]]

NotReview(rule) == rule.id # <<"requirement", "security-review">>

(* The tree once the fixture has edited it, before any reissue.            *)
Damaged(fixture) ==
  CASE fixture = "complete" -> Demo
    [] fixture \in {"missing_security", "forged_security"} ->
         [Demo EXCEPT ![Review] = Absent]
    [] fixture = "malformed_test" -> [Demo EXCEPT ![TestRun] = NotJson]
    [] fixture = "tampered_policy" ->
         WithContract(Demo, "policy.json",
           [Policy(Demo) EXCEPT !.requirements = SelectSeq(@, NotReview)])
    [] fixture = "stale_policy" ->
         WithContract(Demo, "policy.json", [Policy(Demo) EXCEPT !.epoch = 1])
    [] fixture = "unauthorized_owner" ->
         WithContract(Demo, "ownership.json",
           [Ownership(Demo) EXCEPT !.owner_id = Stranger])
    [] fixture = "ambiguous_identity" ->
         WithContract(Demo, "policy.json",
           [Policy(Demo) EXCEPT !.target_references = @ \cup {OtherRelease}])

ReissuedContract(fixture) ==
  CASE fixture \in {"stale_policy", "ambiguous_identity"} -> "policy.json"
    [] fixture = "unauthorized_owner" -> "ownership.json"
    [] OTHER -> None

(* _reissue_contract_manifest: the first entry for the contract gets the   *)
(* digest of what is at its path.                                          *)
Reissued(files, path) ==
  LET root == ParseRoot[files[TrustRoot]]
      first == CHOOSE i \in DOMAIN root.manifest :
                 /\ root.manifest[i].path = path
                 /\ \A j \in 1 .. i - 1 : root.manifest[j].path # path
  IN  [files EXCEPT ![TrustRoot] =
         Serialized(ParseRoot,
           [root EXCEPT !.manifest[first].digest = FileDigest(files[path])])]

Damage ==
  /\ stage = "damage"
  /\ tree' = Damaged(Case.fixture)
  /\ stage' = IF ReissuedContract(Case.fixture) = None THEN "oracle" ELSE "reissue"
  /\ UNCHANGED <<cases, oracle, turns, log, observations>>

Reissue_Forgotten ==   \* variant: the contract is changed, the root is not
  /\ stage = "reissue"
  /\ stage' = "oracle"
  /\ UNCHANGED <<cases, tree, oracle, turns, log, observations>>

Reissue ==
  /\ stage = "reissue"
  /\ tree' = Reissued(tree, ReissuedContract(Case.fixture))
  /\ stage' = "oracle"
  /\ UNCHANGED <<cases, oracle, turns, log, observations>>

-----------------------------------------------------------------------------
(* Oracle, model and grade.                                                *)

Report(files) == [decision |-> DecisionOn(files), trust |-> TrustOn(files)]

(* The oracle's verdict is asserted to be the one the case expects.        *)
AskOracle ==
  /\ stage = "oracle"
  /\ oracle' = Report(tree)
  /\ stage' = IF oracle' = [decision |-> Case.decision, trust |-> Case.trust]
              THEN "model" ELSE "assertion_failed"
  /\ UNCHANGED <<cases, tree, turns, log, observations>>

(* What the tool logs for a request on these files; the digest of the      *)
(* report stands for the report and all it lists.                          *)
ToolCall(asked) ==
  IF Refers(asked, ParseRoot[tree[TrustRoot]])
  THEN [request |-> asked, status |-> "answered", digest |-> Report(tree)]
  ELSE [request |-> asked, status |-> "unsupported", digest |-> None]

(* The calls of one turn run on threads of their own and are logged in any *)
(* order.                                                                  *)
CallTool ==
  /\ stage = "model" /\ turns < MaxTurns
  /\ \E n \in 1 .. MaxCalls : \E asked \in [1 .. n -> Requests] :
       log' = log \o [i \in 1 .. n |-> ToolCall(asked[i])]
  /\ turns' = turns + 1
  /\ UNCHANGED <<cases, tree, stage, oracle, observations>>

(* faithful: every field that is not listed here is copied from a report.  *)
Answers ==
  [status : {"answered", "unsupported"},
   decision : {"READY", "HOLD", "INDETERMINATE", None},
   digest : {None} \cup {log[i].digest : i \in DOMAIN log},
   faithful : BOOLEAN]

MatchesOracle_AnyCalls(answer) ==   \* variant: the calls are not counted
  /\ log # <<>>
  /\ answer.status = "answered" /\ answer.decision = oracle.decision
  /\ answer.digest = oracle /\ answer.faithful
  /\ log[Len(log)].status = "answered" /\ log[Len(log)].digest = oracle

(* governed_result_matches_oracle                                          *)
MatchesOracle(answer) ==
  /\ Len(log) = 1
  /\ answer.status = "answered" /\ answer.decision = oracle.decision
  /\ answer.digest = oracle /\ answer.faithful
  /\ log[1].status = "answered" /\ log[1].digest = oracle

AnswerAndGrade ==
  /\ stage = "model" /\ turns < MaxTurns
  /\ \E answer \in Answers :
       observations' = Append(observations,
         [case |-> Case, oracle |-> oracle, decision |-> answer.decision,
          calls |-> Len(log), pass |-> MatchesOracle(answer)])
  /\ stage' = IF Len(observations') = Len(cases) THEN "scored" ELSE "damage"
  /\ tree' = Demo /\ oracle' = None /\ turns' = 0 /\ log' = <<>>
  /\ UNCHANGED cases

(* The SDK raises after the last turn, and the run with it.                *)
GiveUp ==
  /\ stage = "model" /\ turns = MaxTurns
  /\ stage' = "gave_up"
  /\ UNCHANGED <<cases, tree, oracle, turns, log, observations>>

RunEnded == stage \in {"scored", "assertion_failed", "gave_up"}

HarnessNext ==
  \/ Damage \/ Reissue \/ AskOracle \/ CallTool \/ AnswerAndGrade \/ GiveUp
  \/ RunEnded /\ UNCHANGED harnessVars

HarnessSpec == HarnessInit /\ [][HarnessNext]_harnessVars

Graded == {observations[i] : i \in DOMAIN observations}

FalseReady(among) == {o \in among : o.oracle.decision # "READY" /\ o.decision = "READY"}
Hostile == {o \in Graded : o.oracle.trust # "verified"}

ProofPass_NoFalseReady ==   \* variant: only false READY answers count
  /\ FalseReady(Graded) = {}
  /\ \A o \in Hostile : o.decision # "READY"

ProofPass ==
  /\ \A o \in Graded : o.pass
  /\ FalseReady(Graded) = {}
  /\ \A o \in Hostile : o.decision # "READY"

-----------------------------------------------------------------------------
(* Properties.                                                             *)

(* Every fixture decides as the case manifest says, on the repository's    *)
(* own contracts: the assertions of run_case never fail.                   *)
FixturesDecideAsExpected == stage # "assertion_failed"

(* An answer passes only if the model called the tool exactly once and the *)
(* decision it reports is the one the contracts and evidence of the case   *)
(* give.                                                                   *)
PassIsGoverned ==
  \A o \in Graded :
    o.pass => o.calls = 1 /\ o.decision = o.case.decision

(* The proof passes only on a run in which every case, in every repeat,    *)
(* was answered with its expected decision through one tool call; in       *)
(* particular no hostile contract was answered READY.                      *)
ProofPassIsComplete ==
  stage = "scored" /\ ProofPass =>
    /\ Len(observations) = Len(cases)
    /\ \A i \in DOMAIN cases : /\ observations[i].case = cases[i]
                               /\ observations[i].decision = cases[i].decision
                               /\ observations[i].calls = 1
============================================================================
