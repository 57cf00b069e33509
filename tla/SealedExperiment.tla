-------------------------- MODULE SealedExperiment --------------------------
(***************************************************************************)
(* One sealed experiment and its validation.  The people who run it seal   *)
(* the packs, freeze the population, open the inputs, run every path,      *)
(* commit to its outputs, unseal the oracle and write the final receipt,   *)
(* each in a record that binds the earlier ones by digest.  They are       *)
(* outside the code: they may take any step out of order, again, or after  *)
(* an edit of what is sealed (a slip), but a record says truthfully what   *)
(* was on disk and what time it was.  The code is the two modes of the     *)
(* validator: validate_artifacts screens the drafted controls, and         *)
(* validate_complete_pack accepts or rejects the files at the end.         *)
(*                                                                         *)
(* A digest is the content it stands for.  The archives of the packs are   *)
(* cases, fixtures (of the inputs) and labels (of the oracle); archives    *)
(* and their manifests are one.  A draft also has the leakage review: its  *)
(* reviewer, its custodian and the cases it does not pass.                 *)
(***************************************************************************)
EXTENDS Relatedness, Integers

CONSTANTS
  Cases, FamilyOf,                                 \* FamilyOf[c] \in families
  Paths,                                           \* of the models frozen
  Repeats,
  MinCases, MinFamilies, MinAuthors, MinClusters,  \* 12, 4, 4, 4 in the code
  MaxTime, MaxSlips,                               \* bounds of the model
  Troubled,     \* bound: the cases whose runs fail, the ones that may be left out
  Citing,       \* bound: [path, case] of the results that cite what an edit of
                \* the fixtures changes
  None

ASSUME TrialAssumption ==
  /\ None \notin Int /\ Repeats \in Nat \ {0} /\ MaxTime \in Nat /\ MaxSlips \in Nat
  /\ {"governed", "retrieval_plus_rules"} \subseteq Paths

VARIABLES
  stage,        \* "screening", "trial" or how it ended
  clock, slips,
  work,         \* what is on disk and may be edited, 0 and 1 being editions
  published,    \* the public commitment
  population,   \* the population-freeze record
  opened, atOpen,       \* when the inputs were opened, and the population then
  outputs,      \* the result and the trace archive of each path
  commitments,
  unsealed, atUnseal,   \* when the oracle was, and the commitments then
  reveal, receipt

trialVars ==
  <<work, published, population, opened, atOpen, outputs, commitments, unsealed,
    atUnseal, reveal, receipt>>
vars == <<graphVars, stage, clock, slips, trialVars>>

InputArchive == [cases |-> work.cases, fixtures |-> work.fixtures]
OracleArchive ==
  [cases |-> work.cases, labels |-> work.labels, reviewed |-> work.reviewed]
Coordinates(cases) == cases \X (1 .. Repeats)

Init ==
  /\ GraphInit
  /\ stage = "screening" /\ clock = 0 /\ slips = 0
  /\ work = [protocol |-> 0, rules |-> 0, fixtures |-> 0, labels |-> 0,
             cases |-> Cases, reviewed |-> None]
  /\ published = None /\ population = None /\ opened = None /\ atOpen = None
  /\ outputs = [p \in Paths |-> None] /\ commitments = [p \in Paths |-> None]
  /\ unsealed = None /\ atUnseal = None /\ reveal = None /\ receipt = None

-----------------------------------------------------------------------------
(* The screening of the controls.                                          *)

Search ==
  /\ stage = "screening" /\ EdgesKnown(draft.graph) /\ GraphStep
  /\ UNCHANGED <<stage, clock, slips, trialVars>>

RecordsValid ==
  /\ AuthorshipValid(draft.authorship)
  /\ EdgesKnown(draft.graph) /\ ClustersMatch
  /\ AuthorshipGraphValid(draft)

Screen ==
  /\ stage = "screening" /\ (GraphSearched \/ ~ EdgesKnown(draft.graph))
  /\ stage' = IF RecordsValid THEN "trial" ELSE "discarded"
  /\ UNCHANGED <<graphVars, clock, slips, trialVars>>

-----------------------------------------------------------------------------
(* The steps of the trial.                                                 *)

(* A slip is an edit of what is sealed, or a step out of order; to redo    *)
(* every later step on the edited files is not another one.                *)
During(inOrder) ==
  /\ stage = "trial" /\ UNCHANGED <<graphVars, stage, clock>>
  /\ slips' = (IF inOrder THEN slips ELSE slips + 1) /\ slips' <= MaxSlips

Sealed == [protocol |-> work.protocol, input |-> InputArchive,
           oracle |-> [cases |-> work.cases, labels |-> work.labels,
                       reviewed |-> InputArchive]]

(* The pack is sealed with a leakage review of the inputs as they are.     *)
Publish ==
  /\ During(TRUE) /\ published # Sealed
  /\ work' = [work EXCEPT !.reviewed = InputArchive] /\ published' = Sealed
  /\ UNCHANGED <<population, opened, atOpen, outputs, commitments, unsealed,
                 atUnseal, reveal, receipt>>

Edit ==
  /\ During(FALSE) /\ published # None
  /\ \/ \E file \in {"protocol", "rules", "fixtures", "labels"} :
          work' = [work EXCEPT ![file] = 1 - @]
     \/ work' = [work EXCEPT !.cases = @ \ Troubled]
  /\ UNCHANGED <<published, population, opened, atOpen, outputs, commitments,
                 unsealed, atUnseal, reveal, receipt>>

Freeze(included, opening) ==
  /\ published # None
  /\ During(/\ population = None \/ population.published # published
            /\ included = work.cases
            /\ opened = None => opening > clock)
  /\ population' =
       [protocol |-> work.protocol, published |-> published, input |-> InputArchive,
        oracle |-> OracleArchive, rules |-> work.rules, included |-> included,
        frozenAt |-> clock, opensAt |-> IF opened = None THEN opening ELSE opened]
  /\ UNCHANGED <<work, published, opened, atOpen, outputs, commitments, unsealed,
                 atUnseal, reveal, receipt>>

Open ==
  /\ published # None /\ opened = None
  /\ During(population # None /\ clock >= population.opensAt)
  /\ opened' = clock /\ atOpen' = population
  /\ UNCHANGED <<work, published, population, outputs, commitments, unsealed,
                 atUnseal, reveal, receipt>>

Trace == [at |-> clock, rules |-> work.rules]

(* A result names, with their digests, the files it relied on: the         *)
(* authority bundle, and the contracts and evidence it comes to.  A run    *)
(* that fails leaves a typed failure in its place.                         *)
Archives(p, fixtures) ==
  [traces |-> [population |-> population,
               cells |-> [x \in Coordinates(population.included) |-> Trace]],
   results |-> [population |-> population,
                cells |-> [x \in Coordinates(population.included) |->
                  [trace |-> Trace, saw |-> fixtures, cites |-> <<p, x[1]>> \in Citing,
                   status |-> IF x[1] \in Troubled THEN "ERROR" ELSE "COMPLETE"]]]]

(* To run a path on a stray copy of the fixtures is a slip.                *)
Run(p) ==
  /\ opened # None /\ population # None
  /\ \E fixtures \in {0, 1} :
       /\ During(/\ fixtures = work.fixtures
                 /\ outputs[p] = None \/ outputs[p].results.population # population)
       /\ outputs' = [outputs EXCEPT ![p] = Archives(p, fixtures)]
  /\ UNCHANGED <<work, published, population, opened, atOpen, commitments, unsealed,
                 atUnseal, reveal, receipt>>

(* A second run goes wrong: one of the archives, or one coordinate, is not *)
(* replaced or is lost.                                                    *)
RunInPart(p) ==
  /\ opened # None /\ population # None /\ outputs[p] # None
  /\ During(FALSE)
  /\ LET out == outputs[p]
         again == Archives(p, work.fixtures)
         Without(archive) ==
           [archive EXCEPT !.cells =
              [x \in DOMAIN archive.cells \ Coordinates(Troubled) |-> archive.cells[x]]]
     IN  \E output \in {[traces |-> again.traces, results |-> out.results],
                        [traces |-> out.traces, results |-> again.results],
                        [traces |-> Without(out.traces), results |-> Without(out.results)]} :
           outputs' = [outputs EXCEPT ![p] = output]
  /\ UNCHANGED <<work, published, population, opened, atOpen, commitments, unsealed,
                 atUnseal, reveal, receipt>>

Commit(p) ==
  /\ population # None /\ outputs[p] # None
  /\ During(commitments[p] = None \/ commitments[p].population # population)
  /\ commitments' = [commitments EXCEPT ![p] =
       [population |-> population, traces |-> outputs[p].traces,
        results |-> outputs[p].results, at |-> clock]]
  /\ UNCHANGED <<work, published, population, opened, atOpen, outputs, unsealed,
                 atUnseal, reveal, receipt>>

Reveal ==
  /\ population # None
  /\ During(/\ reveal = None \/ reveal.commitments # commitments
            /\ \A p \in Paths : commitments[p] # None /\ commitments[p].at < clock)
  /\ IF unsealed = None THEN unsealed' = clock /\ atUnseal' = commitments
                        ELSE UNCHANGED <<unsealed, atUnseal>>
  /\ reveal' = [population |-> population, commitments |-> commitments, at |-> unsealed']
  /\ UNCHANGED <<work, published, population, opened, atOpen, outputs, commitments,
                 receipt>>

Finalize ==
  /\ reveal # None
  /\ During(receipt = None \/ receipt.reveal # reveal)
  /\ receipt' = [population |-> population, commitments |-> commitments,
                 reveal |-> reveal, at |-> clock]
  /\ UNCHANGED <<work, published, population, opened, atOpen, outputs, commitments,
                 unsealed, atUnseal, reveal>>

Tick ==
  /\ stage = "trial" /\ clock < MaxTime /\ clock' = clock + 1
  /\ UNCHANGED <<graphVars, stage, slips, trialVars>>

-----------------------------------------------------------------------------
(* validate_complete_pack.                                                 *)

Approved == 0   \* the edition of the governing files the owners approved

PackBound ==
  /\ work.protocol = Approved /\ published.protocol = Approved
  /\ published.input = InputArchive /\ published.oracle = OracleArchive

Families == {FamilyOf[c] : c \in work.cases}
AllAuthors == UNION {Authors(draft.authorship[f]) : f \in DOMAIN draft.authorship}

LeakageReviewed ==
  /\ draft.reviewer # draft.custodian
  /\ {draft.reviewer, draft.custodian} \cap AllAuthors = {}
  /\ work.reviewed = InputArchive /\ draft.leaking \cap work.cases = {}

ControlsValid ==
  /\ RecordsValid
  /\ DOMAIN draft.authorship = Families
  /\ \A f \in Families : \A c \in draft.authorship[f].coordination : c.family \in Families
  /\ LeakageReviewed

AboveFloors ==
  /\ Cardinality(work.cases) >= MinCases
  /\ Cardinality(Families) >= MinFamilies
  /\ Cardinality({draft.authorship[f].primary : f \in Families}) >= MinAuthors
  /\ Cardinality(components) >= MinClusters

IncludesAll_NoOthers ==   \* variant: some may be left out
  population.included \subseteq work.cases

IncludesAll == population.included = work.cases

FrozenFirst_OrAtOnce == population.frozenAt <= population.opensAt   \* variant

FrozenFirst == population.frozenAt < population.opensAt

PopulationFrozen ==
  /\ population.published = published
  /\ population.input = InputArchive /\ population.oracle = OracleArchive
  /\ population.protocol = published.protocol
  /\ IncludesAll /\ FrozenFirst
  /\ AboveFloors
  /\ \A f \in Families : ~ draft.authorship[f].implementer

(* Of the files a COMPLETE result cites, and of no other, the digests are  *)
(* compared with the inputs.                                               *)
ProvenanceValid_Uncompared(result) == TRUE   \* variant: they are not

ProvenanceValid(result) ==
  result.status = "COMPLETE" /\ result.cites => result.saw = work.fixtures

RunValid_Later(result, trace) ==   \* variant: an event at the opening is refused
  /\ result.trace = trace
  /\ trace.rules = population.rules /\ trace.at > population.opensAt
  /\ ProvenanceValid(result)

(* A result that is not COMPLETE needs a trace, but no provenance.         *)
RunValid(result, trace) ==
  /\ result.trace = trace
  /\ trace.rules = population.rules /\ trace.at >= population.opensAt
  /\ ProvenanceValid(result)

PathValid(output) ==
  LET covers(archive) == /\ archive.population = population
                         /\ DOMAIN archive.cells = Coordinates(population.included)
  IN  /\ covers(output.traces) /\ covers(output.results)
      /\ \A x \in DOMAIN output.traces.cells :
           RunValid(output.results.cells[x], output.traces.cells[x])

CommitmentValid(commitment, output) ==
  /\ commitment.population = population
  /\ commitment.traces = output.traces /\ commitment.results = output.results
  /\ commitment.at >= population.opensAt
  /\ \A x \in DOMAIN output.traces.cells : output.traces.cells[x].at <= commitment.at

PathsValid ==
  \A p \in Paths :
    /\ outputs[p] # None /\ PathValid(outputs[p])
    /\ commitments[p] # None /\ CommitmentValid(commitments[p], outputs[p])

OracleRevealed_OrAtOnce ==   \* variant: a commitment may be as late as the reveal
  /\ reveal.population = population /\ reveal.commitments = commitments
  /\ \A p \in Paths : commitments[p].at <= reveal.at

OracleRevealed ==
  /\ reveal.population = population /\ reveal.commitments = commitments
  /\ \A p \in Paths : commitments[p].at < reveal.at

Receipted ==
  /\ receipt.population = population /\ receipt.commitments = commitments
  /\ receipt.reveal = reveal /\ receipt.at >= reveal.at

PackValid ==
  /\ PackBound /\ ControlsValid /\ PopulationFrozen
  /\ PathsValid /\ OracleRevealed /\ Receipted

Validate ==
  /\ stage = "trial" /\ receipt # None
  /\ stage' = IF PackValid THEN "accepted" ELSE "rejected"
  /\ UNCHANGED <<graphVars, clock, slips, trialVars>>

Next ==
  \/ Search \/ Screen \/ Publish \/ Edit \/ Open \/ Reveal \/ Finalize \/ Tick \/ Validate
  \/ \E included \in {work.cases, work.cases \ Troubled},
        opening \in clock .. MaxTime : Freeze(included, opening)
  \/ \E p \in Paths : Run(p) \/ RunInPart(p) \/ Commit(p)

Spec == Init /\ [][Next]_vars
FairSpec == Spec /\ WF_vars(Search \/ Screen)

-----------------------------------------------------------------------------
(* Properties.                                                             *)

TypeOK ==
  /\ stage \in {"screening", "discarded", "trial", "accepted", "rejected"}
  /\ clock \in 0 .. MaxTime /\ slips \in 0 .. MaxSlips
  /\ work.cases \subseteq Cases
  /\ opened \in (0 .. clock) \cup {None} /\ unsealed \in (0 .. clock) \cup {None}
  /\ unseen \subseteq draft.graph.families /\ Range(stack) \cup component \subseteq unseen
  /\ stage \notin {"screening", "discarded"} => GraphSearched

(* What is scored in an accepted pack was settled before anyone could see  *)
(* the inputs: the cases, the labels, the protocol and the rules are those *)
(* of the population record in force when the inputs were opened, every    *)
(* run was observed by those rules, and what a complete result cites of    *)
(* the fixtures is what those inputs hold.  (A result may have come from   *)
(* other fixtures as far as it does not cite them.)                        *)
BlindInputs ==
  stage = "accepted" =>
    /\ opened # None /\ atOpen = population
    /\ atOpen.input = InputArchive /\ atOpen.oracle = OracleArchive
    /\ atOpen.protocol = work.protocol
    /\ \A p \in Paths : \A x \in DOMAIN outputs[p].results.cells :
         LET result == outputs[p].results.cells[x]
         IN  /\ result.trace.rules = atOpen.rules
             /\ result.status = "COMPLETE" /\ result.cites
                  => result.saw = atOpen.input.fixtures

(* The results of an accepted pack are those committed when the oracle was *)
(* unsealed, and nothing in their traces happened later.                   *)
BlindOracle ==
  stage = "accepted" =>
    /\ unsealed # None
    /\ \A p \in Paths :
         /\ outputs[p].results = atUnseal[p].results
         /\ outputs[p].traces = atUnseal[p].traces
         /\ \A x \in DOMAIN outputs[p].traces.cells :
              outputs[p].traces.cells[x].at < unsealed

(* An accepted pack scores every case that was committed before the inputs *)
(* were opened, however its runs turned out: each path has a run of it for *)
(* every repeat.                                                           *)
NothingIsExcluded ==
  stage = "accepted" =>
    \A p \in Paths :
      DOMAIN outputs[p].results.cells = atOpen.published.input.cases \X (1 .. Repeats)

(* The clusters an accepted pack counts as independent are: no author, no  *)
(* determining source and no discussion of the outcomes joins two of them, *)
(* and there are as many as the floor asks for.                            *)
ClustersAreIndependent ==
  stage = "accepted" =>
    /\ Cardinality(draft.graph.clusters) >= MinClusters
    /\ UNION draft.graph.clusters = {FamilyOf[c] : c \in atOpen.included}
    /\ \A a, b \in draft.graph.clusters : a # b =>
         \A f \in a, g \in b : ~ Related(draft.authorship, f, g)

(* An experiment run without a slip, on a draft that satisfies the         *)
(* protocol and its floors, is accepted, failed runs and events at the     *)
(* very time of the opening or of the commitment included.                 *)
EligibleDraft ==
  /\ \A f \in DOMAIN draft.authorship : ~ draft.authorship[f].implementer
  /\ {draft.reviewer, draft.custodian} \cap AllAuthors = {}
  /\ draft.reviewer # draft.custodian /\ draft.leaking = {}
  /\ \A f \in DOMAIN draft.authorship : \A c \in draft.authorship[f].coordination :
       c.family \in DOMAIN draft.authorship
  /\ DOMAIN draft.authorship = {FamilyOf[c] : c \in Cases}
  /\ Cardinality(Cases) >= MinCases
  /\ Cardinality(DOMAIN draft.authorship) >= MinFamilies
  /\ Cardinality({draft.authorship[f].primary : f \in DOMAIN draft.authorship}) >= MinAuthors
  /\ Cardinality(draft.graph.clusters) >= MinClusters

HonestPackIsAccepted == stage = "rejected" => slips > 0 \/ ~ EligibleDraft

(* Every step of the search for the components leaves less to search: a    *)
(* family is collected at most once, the components are closed one at a    *)
(* time, and in between the search only takes off its stack what it has    *)
(* collected already, which lowers nothing but the stack.                  *)
SearchLeft ==
  3 * Cardinality(unseen \ component)
    + (CASE component # {} -> 2 [] component = {} /\ stack = <<>> -> 1 [] OTHER -> 0)

SearchAdvances ==
  \/ SearchLeft' < SearchLeft
  \/ SearchLeft' = SearchLeft /\ Len(stack') < Len(stack)

ScreeningAdvances == [][stage = "screening" => stage' # "screening" \/ SearchAdvances]_vars

(* The search for the components ends, and the screening with it.          *)
ScreeningEnds == <>(stage # "screening")

-----------------------------------------------------------------------------
(* What the trial amounts to: a plan at the opening, results at the        *)
(* unsealing, and both in the pack that is accepted.                       *)

Phase ==
  CASE opened = None /\ unsealed = None -> "closed"
    [] opened # None /\ unsealed = None -> "open"
    [] opened # None /\ unsealed # None /\ opened < unsealed -> "unsealed"
    [] OTHER -> "spoiled"

Plan(input, oracle, protocol, cases) ==
  [input |-> input, oracle |-> oracle, protocol |-> protocol, cases |-> cases]
Scored(archives) ==   \* of the outputs, or of the commitments to them
  [p \in Paths |-> IF archives[p] = None THEN None
                  ELSE [traces |-> archives[p].traces, results |-> archives[p].results]]

Settled ==
  IF atOpen = None THEN None
  ELSE Plan(atOpen.input, atOpen.oracle, atOpen.protocol, atOpen.included)
Unsealed == IF unsealed = None THEN None ELSE Scored(atUnseal)
Certified ==
  IF stage # "accepted" THEN None
  ELSE [plan |-> Plan(InputArchive, OracleArchive, work.protocol, work.cases),
        results |-> Scored(outputs)]

Trial == INSTANCE BlindTrial WITH
  phase <- Phase, plan <- Settled, results <- Unsealed, certified <- Certified

(* The validator accepts a pack only if the trial, however many slips and  *)
(* repetitions it had, was one in which the plan settled at the opening of *)
(* the inputs led, by an unsealing later than that, to these very results. *)
ImplementsBlindTrial == Trial!Spec
============================================================================
