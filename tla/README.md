# Verification of agent-context-proof

This directory holds TLA+ models of the program in this repository, TLC
configurations that check them on small instances, and proofs that TLAPS checks
for every instance. Everything is translated from the source; a line such as
`evaluator.py:470` is a line of `src/contextproof/evaluator.py`.

## 1. The system

The program decides whether a release may go out. Four contracts (identity,
ontology, ownership, policy) are authorised by a trust root, which lists the
SHA-256 digest of each. The policy lists requirements; each names a file and a
check on it. One evaluation verifies the contracts, judges every requirement and
returns READY, HOLD or INDETERMINATE. A language model sees the result only
through a tool; other organisations see it only through an envelope; an
experiment (v0.3) collects many results and a validator accepts or rejects the
pack.

### Inventory

| Component | State it keeps | Operations | Interacts with |
|---|---|---|---|
| Contract trust verification (`_verify_contracts`, evaluator.py:353-647) | issues by severity, expected digests, loaded documents (all local to a call) | find, digest and parse the trust root; digest four contracts; parse them again; compare them with the root | the files of the contract directory, written by others |
| Release identity (`resolve_release_identity`, 299-350) | none | spelling -> canonical identifier | called by trust verification and by the tool |
| Requirement evaluation and decision (`_evaluate_requirement`, `evaluate_context`, 650-972) | evidence records | find, digest, read and judge one file per requirement; decide | the files of the repository, written by builds and checkouts |
| Context graph (`_validate_graph`, 778-791, and 862-944) | nodes and edges | build, check against the ontology | runs last, and can raise |
| Execution context (975-1063) | none | three git commands around a worktree | wraps an evaluation in an envelope |
| Governed agent and its tool (agent.py) | audit log, trust root read a second time | answer a request for a release by its spelling; run a model for at most four turns | evaluator; a language model |
| Federated envelope (federation.py) | none | evaluate, read the policy again, build or refuse; expiry | evaluator; the receiver of the envelope |
| Command line (cli.py, main.py) | none | parse, call, print, exit status | tool, evaluator |
| Live evaluation harness (evals/run_live.py) | temporary repositories, rewritten contracts | rewrite a contract and re-issue the root; run cases; compare with an oracle | agent, evaluator |
| v0.3 validation (scripts/validate_v03_artifact.py) | phases, identities, digests of a pack; the visited, stacked and collected families of a search | screen drafted controls (`validate_artifacts`); validate one report and its authority chain; validate the complete pack of an experiment (`validate_complete_pack`) | files written by the people who seal, freeze, run, commit, unseal and finalize |
| Authority vectors, diagrams (scripts/) | none | generate data | - |

### What is hard

* **Files change under a call.** Every digest and every parse opens the file
  anew (390 and 392 for the root, 476 and 485 for a contract, 672 and 677-751 for
  evidence). Nothing locks them: the program's own harness rewrites a contract
  and then the root (run_live.py:71-80), and evidence is what builds write.
* **Errors in between.** Some reads are inside a `try`, some are not; a file may
  vanish between the test that it is there and its read.
* **Order of precedence.** Invalid before missing before stale before ambiguous;
  held before open; the graph is checked when the decision is already known.
* **A second read by the caller.** The tool reads the trust root again after the
  evaluation, and the envelope reads the policy again.
* **Cycles in the authority bundle.** Delegations may introduce one another; the
  validator's recursive search turns back at records it is already deriving and
  remembers what it found meanwhile (validate_v03_artifact.py:1037-1075).
* **Two sets of rules for one thing.** A claim's chain and the dependencies of
  the same report are checked by different rules (1169-1256 and 1258-1348), and
  only together do they mean that a claim is authorised.
* **The order of an experiment, seen from its files alone.** The validator runs
  at the end and has to tell from digests and times whether the population was
  frozen before the inputs were opened and the outputs committed before the
  oracle was unsealed (1840-2109), although any step may have been done again on
  edited files. Some of its comparisons are strict and some are not.
* **Independence is transitive.** Families are counted by the components of a
  graph (585-609), so one missing edge or merge makes dependent cases look
  independent.

Properties that make each component correct: evidence only after trust, READY only when
earned, one verdict per requirement and each about content the file had (evaluator); an
answer only about the trusted target and an honest audit log (tool); an envelope whose
references are content the sources had, never a state that cannot be transported, and
that dies on time (envelope); a pass only with the governed decision (harness); a report
accepted only with a path of valid introductions for all it relies on, and no right
report refused (provenance); a pack accepted only if what it scores was settled before
the inputs were seen, its results before the labels were, and no case or cluster was
gained or lost on the way (experiment). `PROJECT.json` lists every hazard at its line,
with the properties that cover it.

## 2. Plan

1. *(done)* The evaluator and all it calls: `Documents`, `ReleaseIdentity`,
   `EvidenceChecks`, `ContractTrust`, `ContextGraph`, `ContextEvaluator`; the
   abstract `GovernedDecision`; `ContextEvaluatorProofs`, `EvidenceProofs`.
2. *(done)* Its callers, composed with it: `ReleaseTool`, `FederatedEnvelope`,
   and their proofs.
3. *(done)* `EvalHarness`: fixtures, oracle, grade, proof criterion.
4. *(done)* `AuthorizationPath`, `OutputContract` and `AuthorityProvenance`: what
   a report of the v0.3 experiment decides and says of authority, and their proofs.
5. *(done)* `Relatedness` (545-659, 1359-1427): the clusters are the connected
   components, against a declarative definition.
6. *(done)* `SealedExperiment`: an experiment and its validation
   (`validate_complete_pack`, 1560-2109), composed with 5; `SealedExperimentProofs`.
7. *(done)* What a call decides when nobody interferes, and why: the exactness of
   an evaluation, of the tool and of the envelope on files that hold still, the
   ways out by an exception, the harness (`EvalHarnessProofs`), the completeness of
   the search and its least path, the acceptance of an experiment in order.
8. *(done)* `BlindTrial`, the abstract specification of an experiment, and that the
   experiment implements it; for each of the three loops that must end, a rank that
   every step lowers (`CallAdvances`, `ValidationAdvances`, `ScreeningAdvances`); the
   properties of the search for the searches inside a validation.

What is left is the step from the ranks to liveness and the fixtures of the repository
(section 6).

Runs stay near a million states. Modules meant for proofs use no RECURSIVE
operator.

## 3. The modules

| Module | Models | Notes |
|---|---|---|
| `Documents` | digests, optional keys, identifiers | A digest is the content itself: SHA-256 is taken to be injective. A parsed object is a record whose DOMAIN is the set of keys it has. `a:b` is `<<a, b>>` |
| `ReleaseIdentity` | evaluator.py:299-350 | A reference is its text, the version found in it and the name left over; case folding and the pattern are abstracted |
| `EvidenceChecks` | the five checks of 673-764 | `Json`, `Toml`, `Text` say what the parsers make of bytes, `Malformed` when they raise |
| `ContractTrust` | the checks of 405-629 on parsed documents | pure operators; a named check per issue |
| `TreeVerdict` | the verdict on files that hold still | declarative (`TrustOn`, `VerdictOn`, `DecisionOn`), mentions no order of reads |
| `ContextGraph` | 778-791, 862-944 | nodes, edges, the ontology check with the last node winning when identifiers coincide |
| `ContextEvaluator` | one call of `evaluate_context` | a state machine, one step per file read, composed of the above |
| `GovernedDecision` | what an evaluation promises | abstract specification, refined by `ContextEvaluator` |
| `BlindTrial` | what an accepted experiment promises | abstract specification, refined by `SealedExperiment` |
| `ReleaseTool` | one call of `inspect_release_context` (agent.py:118-204, evaluator.py:975-1063) | extends `ContextEvaluator` with git, the second read of the root, answer and log |
| `FederatedEnvelope` | one call of `evaluate_federated_context_envelope` (federation.py:340-378), expiry (381-389) | extends `ContextEvaluator` with the second read of the policy and the refusals |
| `EvalHarness` | evals/run_live.py, with the model's turns (agent.py:207-246) | files are private to a case, so an evaluation is `TreeVerdict` |
| `AuthorizationPath` | `_canonical_authorization_path` (validate_v03_artifact.py:1026-1082) and its helpers (958-1023) | every call and return of the recursive `derive` is a step, the active calls are `stack` |
| `OutputContract` | `_validate_output_contract` (411-478) and its tables (28-120) | pure operators on one output; `VRules` merges the four tables |
| `AuthorityProvenance` | the validation of one report: `OutputContract` (from 711-731), then `_validate_case_provenance` (1085-1356) | the loops over chains and dependencies, a search per dependency |
| `Relatedness` | `_validate_authorship` (545-582), `_graph_components` (585-609) and the two validations of the graph (612-659, 1359-1427) | the search is a machine of three actions, the rest predicates on a draft |
| `SealedExperiment` | the screening of drafted controls (`validate_artifacts`), the people's steps (external), `validate_complete_pack` (1560-2109) | extends `Relatedness` |
| `MCContextEvaluator`, `MCReleaseTool`, `MCFederatedEnvelope`, `MCEvalHarness`, `MCAuthorizationPath`, `MCAuthorityProvenance`, `MCSealedExperiment` | instances for TLC | section 4 |
| `ContextEvaluatorProofs`, `EvidenceProofs`, `ReleaseToolProofs`, `FederatedEnvelopeProofs`, `AuthorizationPathProofs`, `AuthorityProvenanceProofs`, `SealedExperimentProofs`, `EvalHarnessProofs` | theorems | section 6 |

**The evaluator.** `disk` is what every path holds: content, `Absent`, `Directory`
(something other than a file), `Unreadable` (a file whose bytes cannot be read: access
denied, an I/O error) or `Inaccessible` (a path that cannot even be looked at, so that
`is_file` and `exists` raise, as they do up to Python 3.13). `pc` and `at` say where the
call is: the step, and the contract or requirement it works on. `rootDigest`,
`rootBytes`, `verified`, `documents`, `issues`, `trust`, `digests`, `evidence`,
`decision` are the locals and results of the Python code. `seen` (everything a path has
held during the call), `writes` and the field `content` of a record are history, which
no guard of the call reads (`writes` bounds the environment). Each action is the code
from one file access to the next, with everything it computes on the way:

| Action | Code |
|---|---|
| `FindRoot`, `DigestRoot`, `LoadRoot` | 370-389, 390, 391-467 |
| `FindContract`, `DigestContract`, `LoadContract` | 470-475, 476-479, 481-490 |
| `SettleTrust` | 492-647, and 803-824 when trust is not verified |
| `FindEvidence`, `CheckEvidenceKind`, `DigestEvidence`, `ReadEvidence` | 650-666, 667-670, 671-676, 677-764, with the record of 765-775 |
| `Decide` | 832-972 |
| `Change` | anything else that writes the files; external |

A call ends as `reported` or, where the code lets an exception out, as `raised`. The
exceptions are those of files (a path that cannot be looked at, a file that is gone or
cannot be read) and those of documents whose keys are all there but hold something odd:
an identity contract without a key or with aliases that are no list (607), a relation of
the ontology with an array or object for a field (780-783; `Composite`), expected fields
whose selectors are no strings (697), identifiers that coincide (790). That the
interpreter runs out of stack or memory is not modelled, nor a path of symbolic links
that closes on itself, which `Path.resolve` reports by a RuntimeError before Python 3.13.

**The callers.** The tool's `ObserveCommit`, `ObserveStatus`, `EvaluateContext` and
`Answer` are evaluator.py:992-999, 1001-1017, 1050-1063 (one step of the evaluator each)
and agent.py:125-204. `head` is what the repository has checked out, moved by
`MoveHead`; a git command may fail at any time. `git status` is modelled as equality of
the governed files with the commit, files git ignores being left out. The envelope has
`EvaluateSource` and `Wrap`; its limitations are the caller's with those the code
appends (federation.py:294-304). In both the files may change at any time, between the
evaluation and the second read too.

**The harness.** `Damage` (the fixture's edit), `Reissue` (the trust root gets
the digest of the edited contract), `AskOracle`, `CallTool`, `AnswerAndGrade`,
`GiveUp`. The model is free: it calls the tool with any request, several times
in a turn, and answers anything except the digest of a report it was not shown.

**The provenance.** A bundle is its records by identifier, the order in which they are
met, the decisive ones and their classification. `goal` is the record `derive` was just
called with, `answer` what the last call returned, `memo` the remembered paths.
`Recall`, `Refuse`, `ReachAnchor` are the returns of 1038-1048, `Descend` and
`TryParent` a call and the next turn of the loop of 1051, `ReturnLeast` and
`ReturnNothing` the return of 1072-1075. `phase` and `at` of `AuthorityProvenance` are
the place in the validator; every `raise` is `rejected`. `CheckOutput` is the validation
of the record on its own, before that of the pack resolves the bundle; an oracle's
output has rules (`oracle`), the result of a path has none. A record's digest stands or
falls with its identifier, and contract and evidence files (1350-1356) are left out.

**The experiment.** In the stage `screening` the validator's search runs on one draft:
`PickRoot`, `Visit` and `CloseComponent` are 597-600, 601-606 and 607-608, with
`unseen`, `stack` and `component` for `unseen`, `stack` and `component` of the code
(which takes the least family first; the model takes any, and pushes neighbours in any
order). The stack is a sequence: a family adjacent to several visited ones is on it
several times and skipped when it turns up again (603-604). `Screen` is the verdict of
record mode on the authorship records and the graph, which docs/case-authoring.v0.3.md
asks for before anything is sealed. The complete mode computes the same components from
the same bytes, so it reuses `components`.

In the stage `trial` the actions are what people do, outside of the code: `Publish` (the
public commitment), `Freeze` (the population record), `Open`, `Run`, `Commit`, `Reveal`,
`Finalize`, and the second is counted by `Tick`. A *slip* is an `Edit` of a sealed file,
a step out of its order or done again for no reason, or a second run that goes wrong
(`RunInPart`); redoing every later step after one is not another slip. What a record
says of digests and times is true when it is written: the validator cannot know
otherwise, and whoever writes a false time needs no slip. `opened`, `atOpen`, `unsealed`
and `atUnseal` are history: when the inputs and the oracle were first seen, and what was
frozen or committed at that moment. A run may read a stray copy of the fixtures (a slip
too). The validator compares with the sealed inputs only the files a COMPLETE result
cites: its authority bundle, contracts and evidence (1110-1114, 1350-1356). So a result
says whether it cites what an edit changes (`cites`, by `Citing`), and what it does not
cite is nobody's check; `BlindInputs` claims nothing of it. The properties speak of
them, the validator never does.

`BlindTrial` says what all of this is for without a file, a digest or a time: a plan
that is settled when the inputs are opened, results that are settled when the oracle
is unsealed later, and a certificate of this plan and these results. Its `phase` is
read off `opened` and `unsealed`; its `plan` is what was frozen at the opening and its
`results` what was committed at the unsealing, both from the history; `certified` is
what the accepted pack itself says. So a step of `Validate` is a step of `BlindTrial`
only if what the validator reconstructs from the last version of every record is what
was there at the time.

`Validate` is the one run of `validate_complete_pack`. It reads each file once
into memory, so it is atomic; `PackBound`, `ControlsValid`, `PopulationFrozen`,
`PathsValid`, `OracleRevealed` and `Receipted` are its sections in their order,
and each may fail. A digest is the content it stands for, an archive is one value
with its manifest, and what the schema, the canonical form of an archive or a
count already fixed is left out. A run that failed has a typed failure instead of
a result and must be in both archives all the same.

## 4. The runs

| Run | Instance | What it shows |
|---|---|---|
| `sealed` | every trust root of the instance, or garbage, a directory or nothing in its place, over every mixture of contracts and evidence, and a second product with files that cannot be read or looked at and with oddly typed fields; no changes | `UndisturbedVerdictIsExact`: the machine returns the verdict of the declarative definition |
| `live` | fifteen trees, three of them with oddly typed fields; any two changes between any two reads, replacing, creating or removing any of the seven files or making it unreadable | `TypeOK`, `EvidenceOnlyAfterTrust`, `ReadyIsEarned`, `VerdictsAreSupported`, `RaisesOnlyWhen`; `ImplementsPromise` (refinement of `GovernedDecision`), `CallAdvances`, `CallEnds` |
| `tool` | two commits, worktrees that are one of them or differ from both, requests that name the target or another release, CI environments; one change and one move of HEAD | `PayloadIsEarned`, `ReadyAnswersTheTarget`, `CurrentMeansCommitted`, `UndisturbedAnswerIsExact` |
| `envelope` | roots and contracts that end in every trust state, callers with proper and improper arguments, or with a limitation of their own; two changes | `ReadyEnvelopeIsBacked`, `EnvelopeBindsTheCall`, `UndisturbedEnvelopeIsExact`, `LifetimeIsReal` |
| `harness` | the repository's contracts and evidence, each case of `cases.jsonl` alone and a mixed run of three; at most three turns and two calls | `FixturesDecideAsExpected`, `PassIsGoverned`, `ProofPassIsComplete` |
| `authority` | bundles of seven records (three anchors, two or three introductions out of mutual delegations, rotations and recoveries, a revocation, one or two claims), five findings of an oracle, reports that are right, that omit, repeat, add or misstate, that break their output contract, and chains of every shape | `PathIsAuthorized`, `SearchIsComplete`, `LeastIfAcyclic`, `AcceptedIsAuthorized`, `ClaimsAreAuthorized`, `ReadyIsBacked`, `AcceptsTheRightReports`, `ValidationAdvances`, `ValidationEnds` |
| `sealed_experiment` | four cases in three families and two paths, of whose results one cites what is edited; fourteen drafts of which two are right, one of them with too few clusters, and one has a triangle; one slip, four seconds | `TypeOK`, `SearchFindsComponents`, `BlindInputs`, `BlindOracle`, `NothingIsExcluded`, `ClustersAreIndependent`, `HonestPackIsAccepted`, `ImplementsBlindTrial` (refinement of `BlindTrial`), `ScreeningAdvances`, `ScreeningEnds` |
| `digest_binding`, `incomplete_identity` | as `live` with one change, or none | counterexamples to what the documents say, section 5 |
| `tool_evidence`, `canonical_path`, `conflict` | as `tool`; bundles with three introductions; as `authority` | the same |

**Bounds.** `MaxWrites` = 2 in `live` is the number of changes during a call. Every pair
of reads of one file is separated by at most one relevant change, and the properties
relate at most two files (a root and a contract, or two evidence files), so two changes
reach every combination the properties distinguish. The envelope adds one read of one
file and has two changes as well, of which one may fall after the evaluation; the tool
has one change, before or after the evaluation (`MaxWrites` = 1), and one move of HEAD
(`MaxMoves` = 1). The theorems hold for any number. Two evidence files and policies of
one to five rules reach every pair of verdicts and every kind of check. The contents a
change may put at a path (`LiveContents`, `ToolContents`, `FederationContents`) hold,
for each file, one that verifies, one that does not and none at all, or none that can be
read, where that makes a difference; the full set of documents is covered by `sealed`.
In `harness`, a second call is what the criterion of exactly one call must notice, and
three cases are one more than a count of two could hide. In `authority`, seven records
have two records that introduce one another, a path through a recovery, a path that can
be taken for another one, and a claim that has none. `canonical_path` needs a third
introduction for its counterexample. Deadlock is checked everywhere but in
`sealed_experiment`: what has ended stutters by an action of its own, while an
experiment may be given up at any point.

In `sealed_experiment` every pair of consecutive phases can fall in the same second or
in different ones: three ticks (`MaxTime` = 3) separate freeze, opening, commitment and
unsealing, which are the comparisons that are strict, and leave the receipt in the last.
The triangle is the smallest graph in which the search meets a family twice. One result
that cites the edited fixtures and others that do not are what it takes for an edit to
be noticed and for a stray run to pass. One slip (`MaxSlips` = 1), with every later step
done again for free, gives each way of tampering alone: refreezing after the opening,
recommitting after the unsealing, an edit of each sealed file, one archive replaced
without the other, a case left out (`Troubled`, the one whose runs fail) and a
coordinate lost. One repeat suffices, because coordinates are only compared as sets.
Floors of three cases, families and authors and two clusters are each met exactly by one
draft or population and missed by another. Three families are the smallest chain of two
relations, in which the ends are related only through the middle; each of the twelve
others has one thing wrong.

**Fairness.** `live` assumes `WF_vars(Evaluate)`: the evaluation is one thread of
straight-line Python without locks or waiting, so it always takes its next step.
Nothing is assumed of `Change`, and no action of anyone else disables `Evaluate`
for good, so no strong fairness is needed. `authority` assumes weak fairness of
the validator's next step for the same reason, and `sealed_experiment` of
`Search \/ Screen`, the steps of the validator; nothing is assumed of the people,
so nothing is claimed about an experiment being finished. The other runs state
safety only.

## 5. Where the code and its documents differ

* `DigestBindsEvidence`: `docs/proof-protocol.md:83` says the digests bind the
  bytes read. The verdict comes from a second open (evaluator.py:672, then 678,
  691, 716 or 737). What does hold is `VerdictsAreSupported`: both are about
  contents the file had during the call.
* `UntrustedFailsClosed`: `docs/build-brief.md:23` says the evaluation fails
  closed to INDETERMINATE. An authorised identity contract without
  `canonical_name` or `aliases` raises `KeyError` at evaluator.py:607. What does
  hold is `RaisesOnlyWhen`, which lists every way out by an exception.
* `PayloadCarriesOwnEvidence`: `README.md:186` says the payload carries each
  requirement's evidence. Evidence identifiers drop the prefix of the
  requirement's (evaluator.py:654), and agent.py:157 keeps the last record of
  each, so `gate:bundle` and `requirement:bundle` are both shown with the last.
* `PathIsCanonical`: `docs/proof-protocol.v0.3.md:403` asks for the least path.
  `derive` remembers a path it found while some records were excluded as active
  (1074) and reuses it later (1038). With delegations that introduce one
  another's signers the path is then not the least, and depends on the order of
  the bundle's entries, so the validator refuses a report with the right path.
  What does hold is `PathIsAuthorized`, `SearchIsComplete` and `LeastIfAcyclic`, and
  without cycles `AcceptsTheRightReports`.
* `ConflictHasTwoClaims`: `docs/proof-protocol.v0.3.md:404` asks for one chain per
  conflicting claim. Schema and validator ask for two chains, which may end in
  the same claim, or be the same.

Two more of the same kind as `DigestBindsEvidence` have no run of their own.
`docs/proof-protocol.md:15` says every digest matches before policy runs, but the
documents that run come from a second open (evaluator.py:485), as does the trust
root (392); what does hold is `EvidenceOnlyAfterTrust`: the declared content was at
its path during the call. And the policy digest of an envelope is read after the
evaluation (federation.py:364), so a policy replaced in between is bound to a
decision it did not produce; what does hold is `EnvelopeBindsTheCall`, under any
changes, and `UndisturbedEnvelopeIsExact` on files that hold still.

## 6. The proofs

All theorems hold for every value of the constants: any bytes, parsers, trees,
commits, callers, bundles and reports, and any number of changes. They assume what
the modules name in their ASSUMEs (trees hold bytes or the markers, which are
four and no bytes, the paths of contracts and evidence are disjoint, requirements form a
sequence, a schedule is a sequence of at least one case, the records of a bundle have
identifiers and its order meets them all, a claim has a signer and introduces nobody,
the chains and dependencies of a report form sequences, its three statuses are a row
of the table, an edge joins two families and there are finitely many of them, the two
required paths are among those of an experiment), which TLC evaluates in the runs.

**Evaluator** (`ContextEvaluatorProofs`): `TypeCorrect`, `TrustBeforeEvidence`,
`ReadyNeedsVerifiedContracts`. None is inductive. `Inv` adds what the position in
the code implies: which variables are still `None`, that every contract with a
smaller index has been digested (`verified`) or has left an issue, that every
contract with a smaller index was loaded, that `issues` is blocking exactly when
the call goes on to settle without loading, that digests are held only between
the digest and the content of evidence, and that the number of records is the
number of requirements passed. `Safe` is the part that needs the others in the
same state: once trust is verified every issue set is empty, so every named check
held (`DocumentsWithoutIssues`, `CompleteManifest`), so the documents carry the
keys that `Rule` and `Document` subscript. There is one lemma per action
(`FindRootInv` ... `DecideInv`), and `NextInv`, `NextSafe` put them together.

**What it reports** (`EvidenceProofs`): `VerdictsSupported` from `EvidenceInv`,
which says that every record so far fits its rule (`RecordFits`) and that a digest
held between two reads is of content the source had. `PromiseKept`: the evaluation
implements `GovernedDecision`; each step maps to a step of it or to a stutter
(`PromiseStep`).

**Files that hold still** (`EvidenceProofs`): `UndisturbedExact`. `Exact` says, for
each place in the code, what has been collected so far in terms of the files alone:
after some of the contracts, `issues` holds the flaws of the root and exactly those
of these contracts that are lacking or altered (`DigestsExact`) or cannot be
parsed (`LoadsExact`), and every record so far has the state its file deserves. A step
without a write keeps it (`ExactNext`), so it holds until the first write
(`StillFilesExact`); at the end it says that the trust state and the decision are
those of `TreeVerdict`, which mentions no order of reads. The tool and the envelope
carry it through their second read: `UndisturbedAnswer` and `UndisturbedEnvelope`. For
the envelope both directions are proved: what is built could be sent (`Sendable`), what
is refused could not; that the names are looked at whenever the root loads rests on
`RootWasLoaded`.

**Exceptions** (`EvidenceProofs`): `ExceptionsAreKnown`. `FilesFound` remembers that a
digest is taken where a file was, so a digest that fails means that the file vanished or
cannot be read; `RelationsKnown` that a verified ontology has every relation the graph
uses (`RelationsOfDocuments`). Such a graph is rejected only if a relation cannot be
hashed or two nodes of different kinds share an identifier (`RejectedGraph`): the kind of
an identifier is that of its last node (`KindIsOwn`), so with kinds agreeing every edge
gets the kinds it was built for.

**Callers** (`ReleaseToolProofs`, `FederatedEnvelopeProofs`): a step of the tool
or of the envelope is a step of the evaluation or leaves it alone
(`ToolEvaluates`, `FederationEvaluates`), so all of the above holds inside them, the
refinement included (`ToolKeepsThePromise`, `EnvelopeKeepsThePromise`).
`ToolInv` adds that the commit observed was HEAD as long as HEAD stays
(`HeadObserved`) and that the log has one entry when the answer is there
(`AnsweredOnce`); from it `ToolPromotesNothing`, `ToolAnswersTheTarget`,
`CurrentIsCommitted`. `EnvelopeInv` carries the references of a READY envelope
from `RecordFits`; from it `EnvelopeIsBacked`, `EnvelopeLives`. `DigestHeld`, an
invariant of the evaluation, says that the digest of the root is one the file had
and is held by every call that got past it; with what `Inv` knows of verified
contracts it gives `EnvelopeIsOfItsCall`.

**Search** (`AuthorizationPathProofs`): `PathsAreAuthorized`. A path is put
together from remembered ones, so that no record occurs twice is not local to a
call. `SearchInv` says that every remembered path is authorised and closed (each
of its members is remembered too), while no record of an active call is
remembered; a remembered path therefore never meets the record it is extended
with (`ExtendedPath`).

`SearchFindsAPath`: a call turns back at the active records, so one that found
nothing has ruled out only the paths that avoid them (`Blocked`). `TriedInv` says of
every active call and every parent its loop went past that the parent is blocked by
the records active at that depth, or that its remembered path has been extended to
the record of the call. A record without a result is then blocked by the records
above it (`BlockedRecord`: a path to it goes through a parent, and does not meet the
record twice), and the outermost call has nothing above it. The paths of the
property are enumerated by a recursive function on their length; that they are the
authorised ones is `AllPathsAreAuthorized`.

`PathIsLeastIfAcyclic`: `LeastInv` says that every remembered path is the least to its
record, if no path leads back into itself. Then no path to a record meets a record
further down the stack (`NoDetour`, by induction along the stack), so turning back
loses nothing, and the least path to a record extends the least path to one of its
parents (`BeforeExtended`; the order is total and transitive, `BeforeIsTotal`,
`BeforeIsTransitive`). With cycles `NoDetour` fails, and so does the property
(`PathIsCanonical`, section 5).

**Provenance** (`AuthorityProvenanceProofs`): `AcceptedReports`. `ProvenanceInv`
carries through the loop that the dependencies before `at` have authorised paths
(`Checked`), and that a search under way satisfies `SearchInv` with the dependency
at hand as its target, so the lemmas of the search are reused as they are.
`ChecksInv` carries what the earlier phases found (`OutputConforms`,
`ClassificationCoheres`, `ChainHolds` of each chain) to the end. From both,
`AcceptedClaims`: the record before the claim in its chain is decisive and
introduces the claim's signer, so a dependency has a path to it, and the path
extended by the claim is authorised because a claim introduces nobody
(`PathToClaim`). `AcceptedReady` adds the output contract.

`RightReportsPass`: `RightReport` says what a report has to be without any order of
checks: it conforms, its chains hold, and each required dependency is listed once,
with the least path to it. Where introductions have no cycle, these are the reports
that are accepted, and no other. `RightInv` carries the invariants of the search
(`CompleteInv`, `LeastInv`) through each dependency's search, and that those passed
are distinct and have the least paths (`DistinctUpTo`, `LeastUpTo`). A path that is
refused is not the one found; what is found is least (`NothingIsLess`), there is one
least path (`LeastIsUnique`), and a record with a path is never given up
(`NothingIsMissed`).

`ValidationSearches`: what is proved of a search by itself holds of each search of a
validation. `EmbeddedInv` says that no search was made yet, or that the invariants of
the last one hold; they are established anew at each `CheckDependency`, which starts
with an empty memory, and nothing but the search itself moves its variables.

**Components** (`SealedExperimentProofs`): `GraphInv`. What is on the stack or collected
can be reached from one root, said without paths (`Reached`: every closed set that
has the root has all of it), which makes the argument first-order. When the stack
is empty the collected part is closed as well, and such a part is connected
(`ReachedIsComponent`): a closed piece of it without the root would leave the root
in a closed rest, because adjacency is symmetric (`ComplementClosed`). Cited as
`ComponentsFound`, for the search inside the experiment.

**Experiment** (`SealedExperimentProofs`): `SealedInv`. None of the properties is
inductive, because the validator sees only the last version of every record. Two
parts carry the argument. `InputsInv`: outputs exist only once the inputs are open,
and a population record other than the one in force at the opening has a freeze
time that is not before its opening time, so `FrozenFirst` refuses it. `OracleInv`: a
commitment whose time is before the unsealing is the one that was there then, so
the strict comparison of `OracleRevealed` refuses the others. `AcceptedInv` says that
an accepted pack satisfies `PackValid` still. From these `InputsWereBlind`,
`OracleWasBlind`, `NobodyExcluded`; and with `GraphInv`, `IndependentClusters`: related
families have an edge, so they are in one component (`RelatedTogether`), and
components have nothing in common. They hold for any number of slips and seconds.
`HonestAccepted` is the other direction: `HonestInv` says that without a slip every
record that exists was written after the ones it names and still agrees with them
(`HonestRecords`), and that what reaches the trial passed its screening; on a draft
that meets the protocol and its floors (`EligibleDraft`) none of the sections of
`PackValid` then finds anything.

`PackIsBlindTrial`: the experiment implements `BlindTrial`. `LinksInv` adds that there
is no commitment before the opening and that outputs name the population record they are
of; with `InputsInv` and `OracleInv` it gives `CertifiedInv`: what an accepted pack
certifies is what was settled and unsealed (`AcceptedCertifies`). There is one lemma per
step of `BlindTrial` (`OpenTrial`, `RevealTrial`, `ValidateTrial`), and the others
stutter (`TrialStutters`).

**Harness** (`EvalHarnessProofs`): `PassNeedsTheTool`, `ScoreIsComplete`. `HarnessInv`
says that there is a record for each case graded so far, in the order of the schedule
(`GradedInOrder`), and that one that passed has exactly one call and the decision its
case expects; the second needs that a model is only asked where the oracle agrees with
the manifest.

**Induction.** The induction theorems of the library take an operator as a parameter,
which no installed prover instantiates. `SetInduction` states induction over the
numbers for a set, and follows from the well-founded minimum (`WFMin`); with it
`Recursion` proves that a function defined by its value at the number before exists,
which is what makes `PathsOfLength` usable in a proof (`PathsByLength`).

**Ranks.** That a loop ends has two halves: each step lowers a rank that cannot fall for
ever, and fairness makes steps happen. The first half is proved, for every value of the
constants. `CallProgresses`: a step of an evaluation lowers a pair, what is left of
verifying the contracts and then, once the policy is known, of judging its requirements;
a change of a file moves neither. This says more than `CallEnds`, whose run allows two
changes: a call that went back to look for a vanished file again would still end there,
and would not for ever. `ScreeningProgresses`: a step of the search for components
lowers `SearchLeft`, three for each family not collected yet (to pick a root, to visit,
to close), or leaves it and shortens the stack: that is the step that skips a family met
before, which in a graph with a cycle gets nothing done. `ValidationProgresses`: the
recursive search remembers no failure and may derive the same record many times, so no
count of records falls. What falls is `CallsLeft`, what each of the nested calls has
still to do, compared at the outermost place where it changes: a call returns only after
its caller's loop went past it. The calls nest no deeper than there are records because
no active record is called again (`DepthIsBounded`); with a variant that remembers only
the direct caller `ValidationAdvances` fails. `RanksAreWellFounded` proves that a rank
of this kind cannot fall for ever.

**Only model-checked.** `FixturesDecideAsExpected` is about the fixtures, contracts and
cases of this repository, so there is nothing to generalise. `CallEnds`,
`ValidationEnds` and `ScreeningEnds` are liveness: what is missing for them, beyond the
ranks, is that the fair action is ENABLED until the end, which is out of the prover's
reach.

## 7. What is not modelled

Parsers, hashing and path arithmetic are constants or abstracted (a rule's source
is inside the repository or it is not). Labels, decision paths, wording, the name
of the git ref and the list of dirty paths, and the generation time of a report
are left out; no property is about them. Of the harness, the packet baseline and
the latency and token metrics decide nothing and are left out.

Of the validator: the schemas, strict JSON, the canonical form of archives and the
manifests (807-955, 1430-1499) are conversions between bytes and the records the
model starts from. The approved protocol manifest (1502-1557) is modelled as one
edition of the governing files, without its list of paths. The comparisons of record
mode among records that are only partly there (2130-2283) never certify an
experiment; the complete mode makes the same comparisons on the whole pack, which
is what is modelled. The oracle record of a case (481-542), the intervals and lineage
heads of a bundle (314-343, 662-700), a trace's order (745-753) and the randomized
identifiers are predicates on one record, without steps and without a second actor;
a property of them would repeat them.

The command line, the vectors and the diagrams keep no state and decide nothing.
