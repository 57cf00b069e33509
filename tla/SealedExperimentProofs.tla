----------------------- MODULE SealedExperimentProofs -----------------------
(***************************************************************************)
(* What an accepted pack means, for any number of slips, any drafts, any   *)
(* cases and any floors, and that a pack made without a slip is accepted.  *)
(* The experiment implements the abstract BlindTrial, and every step of    *)
(* its screening lowers a rank.                                            *)
(***************************************************************************)
EXTENDS SealedExperiment, SequenceTheorems, FiniteSetTheorems, TLAPS

-----------------------------------------------------------------------------
(* The search of _graph_components finds the connected components,         *)
(* whatever the graph and whatever the order of its visits.                *)

Nodes == draft.graph.families
Near(f) == Adjacent(draft.graph, f)
Found == Range(stack) \cup component   \* visited, or to be

(* What is collected is what can be reached from one root.                 *)
Reached(root, part) ==
  /\ root \in part
  /\ \A s \in SUBSET Nodes : root \in s /\ Closed(draft.graph, s) => part \subseteq s

IsComponent(part) ==
  /\ part # {} /\ Closed(draft.graph, part)
  /\ \A q \in SUBSET part : q # {} /\ Closed(draft.graph, q) => q = part

GraphInv ==
  /\ unseen \subseteq Nodes /\ IsFiniteSet(unseen)
  /\ stack \in Seq(unseen) /\ component \subseteq unseen
  /\ UNION components = Nodes \ unseen
  /\ \A part \in components : IsComponent(part)
  /\ \A f \in component : Near(f) \subseteq Found
  /\ Found # {} => \E root \in Nodes : Reached(root, Found)

-----------------------------------------------------------------------------

(* An edge joins its ends both ways.                                       *)
LEMMA AdjacentBack ==
  ASSUME NEW f \in Nodes, NEW g \in Near(f) PROVE g \in Nodes /\ f \in Near(g)
BY DEF Near, Adjacent, Nodes

(* The families outside of a closed set are closed as well.                *)
LEMMA ComplementClosed ==
  ASSUME NEW q \in SUBSET Nodes, Closed(draft.graph, q)
  PROVE  Closed(draft.graph, Nodes \ q)
<1> SUFFICES ASSUME NEW f \in Nodes \ q, NEW g \in Near(f) PROVE g \in Nodes \ q
  BY DEF Closed, Near
<1> QED
  BY AdjacentBack DEF Closed, Near

(* What is reached from one root and closed is a component: a closed part  *)
(* of it that has the root has all of it, and one that has not leaves it   *)
(* to a closed rest.                                                       *)
LEMMA ReachedIsComponent ==
  ASSUME NEW part \in SUBSET Nodes, NEW root, Reached(root, part),
         Closed(draft.graph, part)
  PROVE  IsComponent(part)
<1>1. part # {}
  BY DEF Reached
<1>2. ASSUME NEW q \in SUBSET part, q # {}, Closed(draft.graph, q) PROVE q = part
  <2>1. CASE root \in q
    BY <1>2, <2>1 DEF Reached
  <2>2. CASE root \notin q
    <3>1. Closed(draft.graph, Nodes \ q)
      BY <1>2, ComplementClosed
    <3>2. root \in Nodes \ q
      BY <2>2 DEF Reached
    <3>3. part \subseteq Nodes \ q
      BY <3>1, <3>2 DEF Reached
    <3> QED
      BY <1>2, <3>3
  <2> QED
    BY <2>1, <2>2
<1> QED
  BY <1>1, <1>2 DEF IsComponent

(* A family that is in no component yet is next to none that is.           *)
LEMMA NearUnseen ==
  ASSUME GraphInv, NEW node \in unseen PROVE Near(node) \subseteq unseen
<1> SUFFICES ASSUME NEW g \in Near(node), g \notin unseen PROVE FALSE
  OBVIOUS
<1>1. g \in Nodes /\ node \in Near(g)
  BY AdjacentBack DEF GraphInv
<1>2. PICK part \in components : g \in part
  BY <1>1 DEF GraphInv
<1>3. node \in part
  BY <1>1, <1>2 DEF GraphInv, IsComponent, Closed, Near
<1> QED
  BY <1>2, <1>3 DEF GraphInv

-----------------------------------------------------------------------------

(* The top of the stack is one of those to visit, and the rest are below.  *)
LEMMA TopOfStack ==
  ASSUME GraphInv, stack # <<>>
  PROVE  /\ Head(stack) \in unseen /\ Tail(stack) \in Seq(unseen)
         /\ Len(stack) \in Nat /\ Len(Tail(stack)) = Len(stack) - 1
         /\ Range(stack) = {Head(stack)} \cup Range(Tail(stack))
<1> stack \in Seq(unseen)
  BY DEF GraphInv
<1>1. /\ Head(stack) \in unseen /\ Tail(stack) \in Seq(unseen)
      /\ Len(Tail(stack)) = Len(stack) - 1 /\ Len(stack) \in Nat \ {0}
      /\ \A i \in 1 .. Len(Tail(stack)) : Tail(stack)[i] = stack[i + 1]
  BY HeadTailProperties
<1>2. Range(stack) = {stack[i] : i \in 1 .. Len(stack)}
  BY RangeEquality
<1>3. Range(Tail(stack)) = {Tail(stack)[i] : i \in 1 .. Len(Tail(stack))}
  BY <1>1, RangeEquality
<1>4. Head(stack) = stack[1]
  OBVIOUS
<1>5. \A i \in 1 .. Len(stack) : i = 1 \/ i - 1 \in 1 .. Len(Tail(stack))
  BY <1>1
<1>6. Range(stack) \subseteq {Head(stack)} \cup Range(Tail(stack))
  BY <1>1, <1>2, <1>3, <1>4, <1>5
<1>7. {Head(stack)} \cup Range(Tail(stack)) \subseteq Range(stack)
  BY <1>1, <1>2, <1>3, <1>4
<1> QED
  BY <1>1, <1>6, <1>7

(* Whatever their order, the families put on the stack come above its rest. *)
LEMMA PushedOnStack ==
  ASSUME GraphInv, stack # <<>>, NEW families \in SUBSET unseen, Push(families)
  PROVE  /\ stack' \in Seq(unseen)
         /\ Range(stack') = families \cup Range(Tail(stack))
<1> DEFINE places == 1 .. Cardinality(families)
<1>1. PICK pushed \in SetToSeqs(families) : stack' = pushed \o Tail(stack)
  BY DEF Push
<1>2. IsFiniteSet(families) /\ Cardinality(families) \in Nat
  BY FS_Subset, FS_CardinalityType DEF GraphInv
<1>3. pushed \in Injection(places, families) /\ pushed \in [places -> families]
  BY <1>1 DEF SetToSeqs, Injection, IsInjective
<1>4. Cardinality(places) = Cardinality(families)
  BY <1>2, FS_Interval
<1>5. pushed \in Surjection(places, families)
  BY <1>2, <1>3, <1>4, FS_Injection
<1>6. Range(pushed) = families
  <2> HIDE DEF places
  <2> QED
    BY <1>3, <1>5 DEF Range, Surjection
<1>7. pushed \in Seq(unseen)
  BY <1>2, <1>3
<1>8. Tail(stack) \in Seq(unseen)
  BY TopOfStack
<1>9. Range(pushed \o Tail(stack)) = Range(pushed) \cup Range(Tail(stack))
  BY <1>7, <1>8, RangeConcatenation
<1>10. pushed \o Tail(stack) \in Seq(unseen)
  BY <1>7, <1>8, ConcatProperties
<1> QED
  BY <1>1, <1>6, <1>9, <1>10

LEMMA GraphInitInv == GraphInit => GraphInv
BY DraftsAssumption DEF GraphInit, GraphInv, Found, Nodes, Range

LEMMA PickRootInv ==
  ASSUME GraphInv, PickRoot PROVE GraphInv'
<1> USE DEF PickRoot
<1>1. PICK root \in unseen : stack' = <<root>>
  OBVIOUS
<1>2. draft' = draft /\ unseen' = unseen /\ component' = component /\ component = {}
      /\ components' = components
  OBVIOUS
<1>3. stack' \in Seq(unseen) /\ Range(stack') = {root}
  BY <1>1 DEF Range
<1>4. Reached(root, {root})
  BY DEF Reached
<1>5. Reached(root, Found)'
  BY <1>2, <1>3, <1>4 DEF Found, Reached, Nodes, Closed
<1>6. (\A part \in components : IsComponent(part))'
  BY <1>2 DEF GraphInv, IsComponent, Closed
<1> QED
  BY <1>2, <1>3, <1>5, <1>6 DEF GraphInv, Nodes, Near

(* To skip a family visited before loses none.                             *)
LEMMA SkipInv ==
  ASSUME GraphInv, stack # <<>>, Head(stack) \in component, stack' = Tail(stack),
         UNCHANGED <<draft, unseen, component, components>>
  PROVE  GraphInv'
<1>1. Found' = Found /\ stack' \in Seq(unseen)
  BY TopOfStack DEF Found
<1> QED
  BY <1>1 DEF GraphInv, Nodes, Near, Reached, IsComponent, Closed

LEMMA CollectInv ==
  ASSUME GraphInv, stack # <<>>, component' = component \cup {Head(stack)},
         Push(Near(Head(stack)) \ component'), UNCHANGED <<draft, unseen, components>>
  PROVE  GraphInv'
<1> DEFINE node == Head(stack)
<1>1. node \in unseen /\ Range(stack) = {node} \cup Range(Tail(stack))
  BY TopOfStack
<1>2. Near(node) \subseteq unseen
  BY <1>1, NearUnseen
<1>3. /\ stack' \in Seq(unseen)
      /\ Range(stack') = (Near(node) \ component') \cup Range(Tail(stack))
  BY <1>2, PushedOnStack
<1> HIDE DEF node
<1>4. component' = component \cup {node}
  BY DEF node
<1>5. Found' = Found \cup Near(node)
  BY <1>1, <1>3, <1>4 DEF Found
<1>6. \A f \in component' : Near(f) \subseteq Found'
  BY <1>4, <1>5 DEF GraphInv
<1>7. PICK root \in Nodes : Reached(root, Found)
  BY <1>1 DEF GraphInv, Found
<1>8. Reached(root, Found \cup Near(node))
  BY <1>1, <1>7 DEF Reached, Closed, Near, Found
<1>9. Reached(root, Found)'
  BY <1>5, <1>8 DEF Reached, Nodes, Closed
<1>10. (\A part \in components : IsComponent(part))'
  BY DEF GraphInv, IsComponent, Closed
<1> QED
  BY <1>1, <1>3, <1>4, <1>6, <1>9, <1>10 DEF GraphInv, Nodes, Near

LEMMA VisitInv ==
  ASSUME GraphInv, Visit PROVE GraphInv'
<1>1. CASE Head(stack) \in component /\ stack' = Tail(stack) /\ UNCHANGED component
  BY <1>1, SkipInv DEF Visit
<1>2. CASE component' = component \cup {Head(stack)}
           /\ Push(Adjacent(draft.graph, Head(stack)) \ component')
  BY <1>2, CollectInv DEF Visit, Near
<1> QED
  BY <1>1, <1>2 DEF Visit

LEMMA CloseComponentInv ==
  ASSUME GraphInv, CloseComponent PROVE GraphInv'
<1> USE DEF CloseComponent
<1>1. /\ draft' = draft /\ stack' = <<>> /\ component' = {}
      /\ unseen' = unseen \ component /\ components' = components \cup {component}
      /\ component # {} /\ Range(<<>>) = {}
  BY DEF Range
<1>2. Found = component /\ Found' = {}
  BY <1>1 DEF Found
<1>3. component \in SUBSET Nodes
  BY DEF GraphInv
<1>4. PICK root \in Nodes : Reached(root, component)
  BY <1>1, <1>2 DEF GraphInv
<1>5. Closed(draft.graph, component)
  BY <1>2 DEF GraphInv, Closed, Near
<1>6. IsComponent(component)
  BY <1>3, <1>4, <1>5, ReachedIsComponent
<1>7. (\A part \in components : IsComponent(part))'
  BY <1>1, <1>6 DEF GraphInv, IsComponent, Closed
<1>8. (UNION components = Nodes \ unseen)'
  BY <1>1, <1>3 DEF GraphInv, Nodes
<1>9. IsFiniteSet(unseen') /\ stack' \in Seq(unseen')
  BY <1>1, FS_Subset DEF GraphInv
<1> QED
  BY <1>1, <1>2, <1>7, <1>8, <1>9 DEF GraphInv, Nodes

LEMMA GraphStepInv ==
  ASSUME GraphInv, GraphStep \/ UNCHANGED graphVars PROVE GraphInv'
<1>1. CASE UNCHANGED graphVars
  BY <1>1 DEF GraphInv, graphVars, Found, Nodes, Near, Reached, IsComponent, Closed
<1> QED
  BY <1>1, PickRootInv, VisitInv, CloseComponentInv DEF GraphStep

LEMMA GraphInvFinds == GraphInv => SearchFindsComponents
<1> SUFFICES ASSUME GraphInv, GraphSearched PROVE AreComponents(draft.graph, components)
  BY DEF SearchFindsComponents
<1> QED
  BY DEF GraphInv, GraphSearched, AreComponents, IsComponent, Nodes

(* Two components are one or have nothing in common.                       *)
LEMMA ComponentsApart ==
  ASSUME NEW graph, NEW parts, AreComponents(graph, parts),
         NEW a \in parts, NEW b \in parts, NEW f \in a, f \in b
  PROVE  a = b
<1>1. Closed(graph, a \cap b)
  BY DEF AreComponents, Closed
<1>2. a \cap b # {} /\ a \cap b \in SUBSET a /\ a \cap b \in SUBSET b
  OBVIOUS
<1>3. a \cap b = a
  BY <1>1, <1>2 DEF AreComponents
<1>4. a \cap b = b
  BY <1>1, <1>2 DEF AreComponents
<1> QED
  BY <1>3, <1>4

-----------------------------------------------------------------------------
(* The records of the experiment.                                          *)

(* Whatever the archives and the commitments hold, they hold times.        *)
TimesInv ==
  /\ clock \in 0 .. MaxTime /\ slips \in 0 .. MaxSlips
  /\ opened \in (0 .. clock) \cup {None} /\ unsealed \in (0 .. clock) \cup {None}
  /\ DOMAIN outputs = Paths /\ DOMAIN commitments = Paths
  /\ \A p \in Paths :
       /\ outputs[p] # None =>
            \A x \in DOMAIN outputs[p].traces.cells : outputs[p].traces.cells[x].at \in Int
       /\ commitments[p] # None => commitments[p].at \in Int
  /\ DOMAIN work = {"protocol", "rules", "fixtures", "labels", "cases", "reviewed"}
  /\ work.cases \subseteq Cases

(* There are no outputs before the inputs are opened, and a population     *)
(* record of after that says so.                                           *)
InputsInv ==
  /\ \A p \in Paths : outputs[p] # None => opened # None
  /\ opened # None /\ population # atOpen => ~ FrozenFirst

(* A commitment of before the unsealing was there at the unsealing.        *)
OracleInv ==
  /\ reveal # None \/ receipt # None => unsealed # None
  /\ unsealed # None =>
       /\ reveal.at = unsealed
       /\ \A p \in Paths : commitments[p] # None /\ commitments[p].at < unsealed =>
            commitments[p] = atUnseal[p]

ScreeningInv ==
  /\ GraphInv
  /\ stage \in {"screening", "discarded", "trial", "accepted", "rejected"}
  /\ stage \notin {"screening", "discarded"} => GraphSearched

AcceptedInv == stage = "accepted" => PackValid /\ receipt # None

SealedInv == TimesInv /\ InputsInv /\ OracleInv /\ ScreeningInv /\ AcceptedInv

-----------------------------------------------------------------------------

(* A step of the people leaves the screening, the clock and the verdict    *)
(* alone.                                                                  *)
LEMMA DuringKeeps ==
  ASSUME SealedInv, NEW inOrder, During(inOrder)
  PROVE  /\ clock' = clock /\ slips' \in 0 .. MaxSlips /\ clock \in 0 .. MaxTime
         /\ ScreeningInv' /\ AcceptedInv'
<1>1. UNCHANGED graphVars /\ stage = "trial" /\ stage' = stage /\ clock' = clock
  BY DEF During
<1>2. GraphInv'
  BY <1>1, GraphStepInv DEF SealedInv, ScreeningInv
<1>3. GraphSearched' = GraphSearched
  BY <1>1 DEF GraphSearched, graphVars
<1>4. slips' \in 0 .. MaxSlips
  BY TrialAssumption DEF During, SealedInv, TimesInv
<1> QED
  BY <1>1, <1>2, <1>3, <1>4 DEF SealedInv, ScreeningInv, AcceptedInv, TimesInv

LEMMA PublishInv == ASSUME SealedInv, Publish PROVE SealedInv'
<1> USE DEF Publish
<1>1. clock' = clock /\ slips' \in 0 .. MaxSlips /\ ScreeningInv' /\ AcceptedInv'
  BY DuringKeeps
<1>2. TimesInv'
  BY <1>1 DEF SealedInv, TimesInv
<1>3. InputsInv' /\ OracleInv'
  BY DEF SealedInv, InputsInv, FrozenFirst, OracleInv
<1> QED
  BY <1>1, <1>2, <1>3 DEF SealedInv

LEMMA EditInv == ASSUME SealedInv, Edit PROVE SealedInv'
<1> USE DEF Edit
<1>1. clock' = clock /\ slips' \in 0 .. MaxSlips /\ ScreeningInv' /\ AcceptedInv'
  BY DuringKeeps
<1>2. DOMAIN work' = DOMAIN work /\ work'.cases \subseteq Cases
  BY DEF SealedInv, TimesInv
<1>3. TimesInv'
  BY <1>1, <1>2 DEF SealedInv, TimesInv
<1>4. InputsInv' /\ OracleInv'
  BY DEF SealedInv, InputsInv, FrozenFirst, OracleInv
<1> QED
  BY <1>1, <1>3, <1>4 DEF SealedInv

(* A population frozen after the opening does not claim to be older.       *)
LEMMA FreezeInv ==
  ASSUME SealedInv, NEW included, NEW opening, Freeze(included, opening)
  PROVE  SealedInv'
<1> USE DEF Freeze
<1>1. /\ clock' = clock /\ slips' \in 0 .. MaxSlips /\ clock \in 0 .. MaxTime
      /\ ScreeningInv' /\ AcceptedInv'
  BY DuringKeeps
<1>2. TimesInv'
  BY <1>1 DEF SealedInv, TimesInv
<1>3. OracleInv'
  BY DEF SealedInv, OracleInv
<1>4. opened # None => population'.frozenAt = clock /\ population'.opensAt = opened
  OBVIOUS
<1>5. opened # None => ~ clock < opened
  BY <1>1 DEF SealedInv, TimesInv
<1>6. InputsInv'
  BY <1>4, <1>5 DEF SealedInv, InputsInv, FrozenFirst
<1> QED
  BY <1>1, <1>2, <1>3, <1>6 DEF SealedInv

LEMMA OpenInv == ASSUME SealedInv, Open PROVE SealedInv'
<1> USE DEF Open
<1>1. /\ clock' = clock /\ slips' \in 0 .. MaxSlips /\ clock \in 0 .. MaxTime
      /\ ScreeningInv' /\ AcceptedInv'
  BY DuringKeeps
<1>2. TimesInv'
  BY <1>1, TrialAssumption DEF SealedInv, TimesInv
<1>3. InputsInv' /\ OracleInv'
  BY DEF SealedInv, InputsInv, FrozenFirst, OracleInv
<1> QED
  BY <1>1, <1>2, <1>3 DEF SealedInv

LEMMA ArchivesTimes ==
  ASSUME SealedInv, NEW p, NEW fixtures
  PROVE  \A x \in DOMAIN Archives(p, fixtures).traces.cells :
           Archives(p, fixtures).traces.cells[x].at \in Int
<1>1. clock \in Int
  BY TrialAssumption DEF SealedInv, TimesInv
<1> QED
  BY <1>1 DEF Archives, Trace

LEMMA RunInv == ASSUME SealedInv, NEW p \in Paths, Run(p) PROVE SealedInv'
<1> USE DEF Run
<1>1. clock' = clock /\ slips' \in 0 .. MaxSlips /\ ScreeningInv' /\ AcceptedInv'
  BY DuringKeeps
<1>2. PICK fixtures \in {0, 1} : outputs' = [outputs EXCEPT ![p] = Archives(p, fixtures)]
  OBVIOUS
<1>3. DOMAIN outputs = Paths
  BY DEF SealedInv, TimesInv
<1>4. TimesInv'
  BY <1>1, <1>2, <1>3, ArchivesTimes DEF SealedInv, TimesInv
<1>5. InputsInv' /\ OracleInv'
  BY DEF SealedInv, InputsInv, FrozenFirst, OracleInv
<1> QED
  BY <1>1, <1>4, <1>5 DEF SealedInv

LEMMA RunInPartInv == ASSUME SealedInv, NEW p \in Paths, RunInPart(p) PROVE SealedInv'
<1>1. clock' = clock /\ slips' \in 0 .. MaxSlips /\ ScreeningInv' /\ AcceptedInv'
  BY DuringKeeps DEF RunInPart
<1>2. PICK output :
        /\ outputs' = [outputs EXCEPT ![p] = output]
        /\ \A x \in DOMAIN output.traces.cells : output.traces.cells[x].at \in Int
  <2> DEFINE out == outputs[p]
             again == Archives(p, work.fixtures)
             Without(archive) ==
               [archive EXCEPT !.cells =
                 [x \in DOMAIN archive.cells \ Coordinates(Troubled) |-> archive.cells[x]]]
             Timed(traces) == \A x \in DOMAIN traces.cells : traces.cells[x].at \in Int
  <2>1. PICK output \in {[traces |-> again.traces, results |-> out.results],
                        [traces |-> out.traces, results |-> again.results],
                        [traces |-> Without(out.traces), results |-> Without(out.results)]} :
          outputs' = [outputs EXCEPT ![p] = output]
    BY DEF RunInPart
  <2>2. Timed(again.traces)
    BY ArchivesTimes
  <2>3. Timed(out.traces)
    BY DEF SealedInv, TimesInv, RunInPart
  <2>4. Timed(Without(out.traces))
    BY <2>3
  <2>5. output.traces \in {again.traces, out.traces, Without(out.traces)}
    <3> HIDE DEF Without, out, again
    <3> QED
      OBVIOUS
  <2>6. Timed(output.traces)
    <3> HIDE DEF Without, out, again, Timed
    <3> QED
      BY <2>2, <2>3, <2>4, <2>5
  <2> QED
    BY <2>1, <2>6
<1> USE DEF RunInPart
<1>3. TimesInv'
  BY <1>1, <1>2 DEF SealedInv, TimesInv
<1>4. InputsInv' /\ OracleInv'
  BY <1>2 DEF SealedInv, InputsInv, FrozenFirst, OracleInv, TimesInv
<1> QED
  BY <1>1, <1>3, <1>4 DEF SealedInv

(* A commitment made after the unsealing says so.                          *)
LEMMA CommitInv == ASSUME SealedInv, NEW p \in Paths, Commit(p) PROVE SealedInv'
<1> USE DEF Commit
<1>1. /\ clock' = clock /\ slips' \in 0 .. MaxSlips /\ clock \in 0 .. MaxTime
      /\ ScreeningInv' /\ AcceptedInv'
  BY DuringKeeps
<1>2. /\ DOMAIN commitments' = Paths /\ commitments'[p].at = clock
      /\ \A q \in Paths \ {p} : commitments'[q] = commitments[q]
  BY DEF SealedInv, TimesInv
<1>3. TimesInv'
  BY <1>1, <1>2 DEF SealedInv, TimesInv
<1>4. InputsInv'
  BY DEF SealedInv, InputsInv, FrozenFirst
<1>5. unsealed # None => ~ clock < unsealed
  BY <1>1 DEF SealedInv, TimesInv
<1>6. OracleInv'
  BY <1>2, <1>5 DEF SealedInv, OracleInv
<1> QED
  BY <1>1, <1>3, <1>4, <1>6 DEF SealedInv

LEMMA RevealInv == ASSUME SealedInv, Reveal PROVE SealedInv'
<1> USE DEF Reveal
<1>1. /\ clock' = clock /\ slips' \in 0 .. MaxSlips /\ clock \in 0 .. MaxTime
      /\ ScreeningInv' /\ AcceptedInv'
  BY DuringKeeps
<1>2. reveal'.at = unsealed'
  OBVIOUS
<1>3. unsealed' # None
  BY <1>1, TrialAssumption
<1>4. TimesInv'
  BY <1>1 DEF SealedInv, TimesInv
<1>5. InputsInv'
  BY DEF SealedInv, InputsInv, FrozenFirst
<1>6. OracleInv'
  BY <1>2, <1>3 DEF SealedInv, OracleInv
<1> QED
  BY <1>1, <1>4, <1>5, <1>6 DEF SealedInv

LEMMA FinalizeInv ==
  ASSUME SealedInv, Finalize PROVE SealedInv'
<1> USE DEF Finalize
<1>1. clock' = clock /\ slips' \in 0 .. MaxSlips /\ ScreeningInv' /\ AcceptedInv'
  BY DuringKeeps
<1>2. TimesInv' /\ InputsInv' /\ OracleInv'
  BY <1>1 DEF SealedInv, TimesInv, InputsInv, FrozenFirst, OracleInv
<1> QED
  BY <1>1, <1>2 DEF SealedInv

LEMMA TickInv == ASSUME SealedInv, Tick PROVE SealedInv'
<1> USE DEF Tick
<1>1. GraphInv' /\ GraphSearched' = GraphSearched
  BY GraphStepInv DEF SealedInv, ScreeningInv, GraphSearched, graphVars
<1>2. clock' = clock + 1 /\ clock' \in 0 .. MaxTime /\ 0 .. clock \subseteq 0 .. clock'
  BY TrialAssumption DEF SealedInv, TimesInv
<1>3. TimesInv'
  BY <1>2 DEF SealedInv, TimesInv, trialVars
<1>4. InputsInv' /\ OracleInv' /\ ScreeningInv' /\ AcceptedInv'
  BY <1>1 DEF SealedInv, InputsInv, FrozenFirst, OracleInv, ScreeningInv,
              AcceptedInv, trialVars
<1> QED
  BY <1>3, <1>4 DEF SealedInv

-----------------------------------------------------------------------------

LEMMA SearchInv == ASSUME SealedInv, Search PROVE SealedInv'
<1> USE DEF Search
<1>1. GraphInv'
  BY GraphStepInv DEF SealedInv, ScreeningInv
<1>2. TimesInv' /\ InputsInv' /\ OracleInv' /\ ScreeningInv' /\ AcceptedInv'
  BY <1>1 DEF SealedInv, TimesInv, InputsInv, FrozenFirst, OracleInv,
              ScreeningInv, AcceptedInv, trialVars
<1> QED
  BY <1>2 DEF SealedInv

LEMMA ScreenInv == ASSUME SealedInv, Screen PROVE SealedInv'
<1> USE DEF Screen
<1>1. GraphInv' /\ GraphSearched' = GraphSearched
  BY GraphStepInv DEF SealedInv, ScreeningInv, GraphSearched, graphVars
<1>2. stage' = "trial" => GraphSearched
  BY DEF RecordsValid
<1>3. TimesInv' /\ InputsInv' /\ OracleInv' /\ ScreeningInv' /\ AcceptedInv'
  BY <1>1, <1>2 DEF SealedInv, TimesInv, InputsInv, FrozenFirst, OracleInv,
                    ScreeningInv, AcceptedInv, trialVars
<1> QED
  BY <1>3 DEF SealedInv

(* The checks read nothing that the verdict or a step that does nothing    *)
(* changes.                                                                *)
LEMMA PackKept ==
  ASSUME UNCHANGED <<graphVars, trialVars>> PROVE PackValid' = PackValid
BY DEF graphVars, trialVars, PackValid, PackBound, ControlsValid, RecordsValid,
       LeakageReviewed, PopulationFrozen, PathsValid, OracleRevealed, Receipted,
       InputArchive, OracleArchive,
       Families, AllAuthors, AboveFloors, IncludesAll, FrozenFirst, PathValid, RunValid,
       ProvenanceValid, CommitmentValid, ClustersMatch, AuthorshipGraphValid

LEMMA ValidateInv == ASSUME SealedInv, Validate PROVE SealedInv'
<1> USE DEF Validate
<1>1. GraphInv' /\ GraphSearched' = GraphSearched
  BY GraphStepInv DEF SealedInv, ScreeningInv, GraphSearched, graphVars
<1>2. PackValid' = PackValid
  BY PackKept
<1>3. TimesInv' /\ InputsInv' /\ OracleInv' /\ ScreeningInv'
  BY <1>1 DEF SealedInv, TimesInv, InputsInv, FrozenFirst, OracleInv,
              ScreeningInv, trialVars
<1>4. AcceptedInv'
  BY <1>2 DEF AcceptedInv, trialVars
<1> QED
  BY <1>3, <1>4 DEF SealedInv

LEMMA StutterInv == ASSUME SealedInv, UNCHANGED vars PROVE SealedInv'
<1> USE DEF vars
<1>1. GraphInv' /\ GraphSearched' = GraphSearched
  BY GraphStepInv DEF SealedInv, ScreeningInv, GraphSearched, graphVars
<1>2. PackValid' = PackValid
  BY PackKept
<1>3. TimesInv' /\ InputsInv' /\ OracleInv' /\ ScreeningInv'
  BY <1>1 DEF SealedInv, TimesInv, InputsInv, FrozenFirst, OracleInv,
              ScreeningInv, trialVars
<1>4. AcceptedInv'
  BY <1>2 DEF SealedInv, AcceptedInv, trialVars
<1> QED
  BY <1>3, <1>4 DEF SealedInv

LEMMA InitInv == Init => SealedInv
<1> SUFFICES ASSUME Init PROVE SealedInv
  OBVIOUS
<1> USE DEF Init
<1>1. TimesInv
  BY TrialAssumption DEF TimesInv
<1>2. InputsInv /\ OracleInv /\ ScreeningInv /\ AcceptedInv
  BY GraphInitInv DEF InputsInv, FrozenFirst, OracleInv, ScreeningInv, AcceptedInv
<1> QED
  BY <1>1, <1>2 DEF SealedInv

LEMMA NextInv == SealedInv /\ [Next]_vars => SealedInv'
<1> SUFFICES ASSUME SealedInv, [Next]_vars PROVE SealedInv'
  OBVIOUS
<1>1. CASE Search \/ Screen \/ Validate \/ UNCHANGED vars
  BY <1>1, SearchInv, ScreenInv, ValidateInv, StutterInv
<1>2. CASE Publish \/ Edit \/ Open \/ Reveal \/ Finalize \/ Tick
  BY <1>2, PublishInv, EditInv, OpenInv, RevealInv, FinalizeInv, TickInv
<1>3. CASE \E included \in {work.cases, work.cases \ Troubled}, opening \in clock .. MaxTime :
             Freeze(included, opening)
  BY <1>3, FreezeInv
<1>4. CASE \E p \in Paths : Run(p) \/ RunInPart(p) \/ Commit(p)
  BY <1>4, RunInv, RunInPartInv, CommitInv
<1> QED
  BY <1>1, <1>2, <1>3, <1>4 DEF Next

LEMMA SealedInvariant == Spec => []SealedInv
<1>1. SealedInv /\ [Next]_vars => SealedInv'
  BY NextInv
<1> QED
  BY InitInv, <1>1, PTL DEF Spec

-----------------------------------------------------------------------------

(* What every property of an accepted pack starts from: the inputs had     *)
(* been opened, on the population record the pack has.                     *)
LEMMA AcceptedOpened ==
  ASSUME SealedInv, stage = "accepted"
  PROVE  PackValid /\ opened # None /\ unsealed # None /\ atOpen = population
<1>1. PackValid /\ receipt # None
  BY DEF SealedInv, AcceptedInv
<1>2. outputs["governed"] # None
  BY <1>1, TrialAssumption DEF PackValid, PathsValid
<1>3. opened # None /\ unsealed # None
  BY <1>1, <1>2, TrialAssumption DEF SealedInv, InputsInv, FrozenFirst, OracleInv
<1>4. FrozenFirst
  BY <1>1 DEF PackValid, PopulationFrozen
<1> QED
  BY <1>1, <1>3, <1>4 DEF SealedInv, InputsInv, FrozenFirst

LEMMA InputsBlind == SealedInv => BlindInputs
<1> SUFFICES ASSUME SealedInv, stage = "accepted" PROVE BlindInputs
  BY DEF BlindInputs
<1>1. PackValid /\ opened # None /\ atOpen = population
  BY AcceptedOpened
<1>2. /\ population.input = InputArchive /\ population.oracle = OracleArchive
      /\ population.protocol = work.protocol
  BY <1>1 DEF PackValid, PopulationFrozen, PackBound
<1>3. ASSUME NEW p \in Paths, NEW x \in DOMAIN outputs[p].results.cells
      PROVE  /\ outputs[p].results.cells[x].trace.rules = population.rules
             /\ outputs[p].results.cells[x].status = "COMPLETE"
                  /\ outputs[p].results.cells[x].cites
                  => outputs[p].results.cells[x].saw = population.input.fixtures
  <2>1. RunValid(outputs[p].results.cells[x], outputs[p].traces.cells[x])
    BY <1>1 DEF PackValid, PathsValid, PathValid
  <2>2. population.input.fixtures = work.fixtures
    BY <1>2 DEF InputArchive
  <2> QED
    BY <2>1, <2>2 DEF RunValid, ProvenanceValid
<1> QED
  BY <1>1, <1>2, <1>3 DEF BlindInputs

LEMMA OracleBlind == SealedInv => BlindOracle
<1> SUFFICES ASSUME SealedInv, stage = "accepted" PROVE BlindOracle
  BY DEF BlindOracle
<1>1. PackValid /\ unsealed # None
  BY AcceptedOpened
<1>2. unsealed \in Int
  BY <1>1, TrialAssumption DEF SealedInv, TimesInv
<1>3. ASSUME NEW p \in Paths
      PROVE  /\ outputs[p].results = atUnseal[p].results
             /\ outputs[p].traces = atUnseal[p].traces
             /\ \A x \in DOMAIN outputs[p].traces.cells :
                  outputs[p].traces.cells[x].at < unsealed
  <2>1. outputs[p] # None /\ commitments[p] # None /\ CommitmentValid(commitments[p], outputs[p])
    BY <1>1 DEF PackValid, PathsValid
  <2>2. commitments[p].at < unsealed
    BY <1>1 DEF PackValid, OracleRevealed, SealedInv, OracleInv
  <2>3. commitments[p] = atUnseal[p]
    BY <1>1, <2>1, <2>2 DEF SealedInv, OracleInv
  <2>4. ASSUME NEW x \in DOMAIN outputs[p].traces.cells
        PROVE  outputs[p].traces.cells[x].at < unsealed
    <3>1. outputs[p].traces.cells[x].at \in Int /\ commitments[p].at \in Int
      BY <2>1 DEF SealedInv, TimesInv
    <3>2. outputs[p].traces.cells[x].at <= commitments[p].at
      BY <2>1 DEF CommitmentValid
    <3> QED
      BY <1>2, <2>2, <3>1, <3>2
  <2> QED
    BY <2>1, <2>3, <2>4 DEF CommitmentValid
<1> QED
  BY <1>1, <1>3 DEF BlindOracle

LEMMA AllIncluded == SealedInv => NothingIsExcluded
<1> SUFFICES ASSUME SealedInv, stage = "accepted", NEW p \in Paths
             PROVE  DOMAIN outputs[p].results.cells =
                      atOpen.published.input.cases \X (1 .. Repeats)
  BY DEF NothingIsExcluded
<1>1. PackValid /\ atOpen = population
  BY AcceptedOpened
<1>2. population.published.input = InputArchive /\ population.included = work.cases
  BY <1>1 DEF PackValid, PopulationFrozen, PackBound, IncludesAll
<1>3. DOMAIN outputs[p].results.cells = Coordinates(population.included)
  BY <1>1 DEF PackValid, PathsValid, PathValid
<1> QED
  BY <1>1, <1>2, <1>3 DEF Coordinates, InputArchive

(* Families that are related have an edge, so they are in one component.   *)
LEMMA RelatedTogether ==
  ASSUME NEW d, AuthorshipGraphValid(d), NEW parts, AreComponents(d.graph, parts),
         NEW a \in parts, NEW b \in parts, NEW f \in a, NEW g \in b,
         Related(d.authorship, f, g)
  PROVE  a = b
<1>1. f \in d.graph.families /\ g \in d.graph.families
  BY DEF AreComponents
<1>2. CASE f = g
  BY <1>2, ComponentsApart
<1>3. CASE f # g
  <2>1. g \in {x \in DOMAIN d.authorship \ {f} : Related(d.authorship, f, x)}
    BY <1>1, <1>3 DEF AuthorshipGraphValid
  <2>2. [pair |-> {f, g}, shared |-> Shared(d.authorship, f, g)] \in ExpectedEdges(d.authorship)
    <3> DEFINE Of(h) == {[pair |-> {h, x}, shared |-> Shared(d.authorship, h, x)] :
                          x \in {x \in DOMAIN d.authorship \ {h} : Related(d.authorship, h, x)}}
    <3>1. [pair |-> {f, g}, shared |-> Shared(d.authorship, f, g)] \in Of(f)
      BY <2>1
    <3>2. f \in DOMAIN d.authorship
      BY <1>1 DEF AuthorshipGraphValid
    <3>3. UNION {Of(h) : h \in DOMAIN d.authorship} = ExpectedEdges(d.authorship)
      BY DEF ExpectedEdges
    <3> HIDE DEF Of
    <3> QED
      BY <3>1, <3>2, <3>3
  <2>3. \E e \in d.graph.edges : e.pair = {f, g}
    BY <2>2 DEF AuthorshipGraphValid
  <2>4. g \in Adjacent(d.graph, f)
    BY <1>1, <2>3 DEF Adjacent
  <2>5. g \in a
    BY <2>4 DEF AreComponents, Closed
  <2> QED
    BY <2>5, ComponentsApart
<1> QED
  BY <1>2, <1>3

LEMMA ClustersApart == SealedInv => ClustersAreIndependent
<1> SUFFICES ASSUME SealedInv, stage = "accepted" PROVE ClustersAreIndependent
  BY DEF ClustersAreIndependent
<1>1. PackValid /\ atOpen = population
  BY AcceptedOpened
<1>2. /\ draft.graph.clusters = components /\ AuthorshipGraphValid(draft)
      /\ DOMAIN draft.authorship = Families
  BY <1>1 DEF PackValid, ControlsValid, RecordsValid, ClustersMatch
<1>3. AreComponents(draft.graph, components)
  BY GraphInvFinds DEF SealedInv, ScreeningInv, SearchFindsComponents
<1>4. Cardinality(components) >= MinClusters
  BY <1>1 DEF PackValid, PopulationFrozen, AboveFloors
<1>5. UNION components = {FamilyOf[c] : c \in population.included}
  BY <1>1, <1>2, <1>3 DEF AreComponents, AuthorshipGraphValid, Families, PackValid,
                          PopulationFrozen, IncludesAll
<1>6. ASSUME NEW a \in components, NEW b \in components, a # b, NEW f \in a, NEW g \in b
      PROVE  ~ Related(draft.authorship, f, g)
  BY <1>2, <1>3, <1>6, RelatedTogether
<1> QED
  BY <1>1, <1>2, <1>4, <1>5, <1>6 DEF ClustersAreIndependent

-----------------------------------------------------------------------------
(* The same experiment without a slip.                                     *)

(* What the records of an experiment without a slip say: each binds those  *)
(* before it as they still are, at times in the order of the protocol.     *)
HonestPopulation ==
  population # None =>
    /\ published # None
    /\ population.published = published /\ population.protocol = published.protocol
    /\ population.input = InputArchive /\ population.oracle = OracleArchive
    /\ population.rules = work.rules
    /\ IncludesAll /\ FrozenFirst /\ population.opensAt \in Int

HonestOpening == opened # None => population # None /\ population.opensAt <= opened

HonestOutputs ==
  \A p \in Paths : outputs[p] # None =>
    /\ PathValid(outputs[p])
    /\ \A x \in DOMAIN outputs[p].traces.cells : outputs[p].traces.cells[x].at <= clock

HonestCommitments ==
  \A p \in Paths : commitments[p] # None =>
    /\ outputs[p] # None /\ CommitmentValid(commitments[p], outputs[p])
    /\ commitments[p].at <= clock

HonestReveal ==
  /\ unsealed # None =>
       \A p \in Paths : commitments[p] # None /\ commitments[p].at < unsealed
  /\ reveal # None => unsealed # None /\ OracleRevealed

HonestReceipt == receipt # None => reveal # None /\ Receipted

HonestRecords ==
  /\ work.protocol = Approved /\ work.cases = Cases
  /\ published # None => published = Sealed /\ work.reviewed = InputArchive
  /\ HonestPopulation /\ HonestOpening /\ HonestOutputs /\ HonestCommitments
  /\ HonestReveal /\ HonestReceipt

HonestInv ==
  /\ stage \in {"trial", "rejected"} => RecordsValid
  /\ slips = 0 => HonestRecords
  /\ stage = "rejected" => receipt # None /\ ~ PackValid

(* A step that is not a slip is in order.                                  *)
LEMMA InOrder ==
  ASSUME SealedInv, HonestInv, NEW inOrder \in BOOLEAN, During(inOrder), slips' = 0
  PROVE  /\ inOrder /\ HonestRecords /\ stage = "trial" /\ stage' = stage
         /\ clock' = clock /\ clock \in Int /\ clock \in 0 .. MaxTime
<1>1. slips \in Nat /\ clock \in Int /\ clock \in 0 .. MaxTime
  BY TrialAssumption DEF SealedInv, TimesInv
<1>2. inOrder /\ slips = 0
  BY <1>1 DEF During
<1> QED
  BY <1>1, <1>2 DEF HonestInv, During

(* The pack is published once.                                             *)
LEMMA PublishHonest ==
  ASSUME SealedInv, HonestInv, Publish, slips' = 0 PROVE HonestRecords'
<1>1. HonestRecords /\ clock' = clock
  BY InOrder DEF Publish
<1>2. published = None
  BY <1>1 DEF HonestRecords, Publish
<1>3. population = None
  BY <1>1, <1>2 DEF HonestRecords, HonestPopulation
<1>4. opened = None /\ \A p \in Paths : outputs[p] = None /\ commitments[p] = None
  BY <1>1, <1>3 DEF HonestRecords, HonestOpening, HonestCommitments, SealedInv, InputsInv
<1>5. unsealed = None /\ reveal = None /\ receipt = None
  BY <1>1, <1>4, TrialAssumption DEF HonestRecords, HonestReveal, HonestReceipt
<1>6. /\ work'.protocol = work.protocol /\ work'.cases = work.cases
      /\ published' = Sealed' /\ work'.reviewed = InputArchive'
  BY DEF Publish, Sealed, InputArchive, SealedInv, TimesInv
<1>7. /\ HonestPopulation' /\ HonestOpening' /\ HonestOutputs' /\ HonestCommitments'
      /\ HonestReveal' /\ HonestReceipt'
  BY <1>3, <1>4, <1>5 DEF Publish, HonestPopulation, HonestOpening, HonestOutputs,
     HonestCommitments, HonestReveal, HonestReceipt
<1> QED
  BY <1>1, <1>6, <1>7 DEF HonestRecords, Approved

(* The population is frozen once, before the opening.                      *)
LEMMA FreezeHonest ==
  ASSUME SealedInv, HonestInv, NEW included, NEW opening \in Int,
         Freeze(included, opening), slips' = 0
  PROVE  HonestRecords'
<1> DEFINE ordered == /\ population = None \/ population.published # published
                      /\ included = work.cases
                      /\ opened = None => opening > clock
<1>1. ordered \in BOOLEAN /\ During(ordered)
  BY DEF Freeze
<1>2. ordered /\ HonestRecords /\ clock' = clock /\ clock \in Int
  <2> HIDE DEF ordered
  <2> QED
    BY <1>1, InOrder
<1>3. published # None /\ published = Sealed /\ work.reviewed = InputArchive
  BY <1>2 DEF Freeze, HonestRecords
<1>4. population = None
  BY <1>2 DEF HonestRecords, HonestPopulation
<1>5. opened = None /\ \A p \in Paths : outputs[p] = None /\ commitments[p] = None
  BY <1>2, <1>4 DEF HonestRecords, HonestOpening, HonestCommitments, SealedInv, InputsInv
<1>6. unsealed = None /\ reveal = None /\ receipt = None
  BY <1>2, <1>5, TrialAssumption DEF HonestRecords, HonestReveal, HonestReceipt
<1>7. HonestPopulation'
  BY <1>2, <1>3, <1>5 DEF Freeze, HonestPopulation, Sealed, InputArchive, OracleArchive,
     IncludesAll, FrozenFirst
<1>8. /\ HonestOpening' /\ HonestOutputs' /\ HonestCommitments'
      /\ HonestReveal' /\ HonestReceipt'
  BY <1>5, <1>6 DEF Freeze, HonestOpening, HonestOutputs, HonestCommitments, HonestReveal,
     HonestReceipt
<1> QED
  BY <1>2, <1>7, <1>8 DEF Freeze, HonestRecords, Sealed, InputArchive

(* The records of the population and before do not change any more.        *)
LEMMA PopulationStays ==
  ASSUME HonestRecords, UNCHANGED <<work, published, population>>
  PROVE  /\ work'.protocol = Approved /\ work'.cases = Cases
         /\ published' # None => published' = Sealed' /\ work'.reviewed = InputArchive'
         /\ HonestPopulation'
BY DEF HonestRecords, Sealed, InputArchive, HonestPopulation, OracleArchive, IncludesAll,
       FrozenFirst

LEMMA OutputsStay ==
  ASSUME SealedInv, HonestRecords, UNCHANGED <<work, population, outputs>>,
         clock' \in Int, clock' >= clock
  PROVE  HonestOutputs'
<1>1. clock \in Int
  BY TrialAssumption DEF SealedInv, TimesInv
<1> QED
  BY <1>1 DEF HonestRecords, HonestOutputs, PathValid, RunValid, ProvenanceValid, SealedInv,
              TimesInv

LEMMA CommitmentsStay ==
  ASSUME SealedInv, HonestRecords, UNCHANGED <<population, outputs, commitments>>,
         clock' \in Int, clock' >= clock
  PROVE  HonestCommitments'
<1>1. clock \in Int
  BY TrialAssumption DEF SealedInv, TimesInv
<1> QED
  BY <1>1 DEF HonestRecords, HonestCommitments, CommitmentValid, SealedInv, TimesInv

LEMMA OpenHonest ==
  ASSUME SealedInv, HonestInv, Open, slips' = 0 PROVE HonestRecords'
<1> DEFINE ordered == population # None /\ clock >= population.opensAt
<1>1. ordered \in BOOLEAN /\ During(ordered)
  BY DEF Open
<1>2. ordered /\ HonestRecords /\ clock' = clock /\ clock \in Int
  <2> HIDE DEF ordered
  <2> QED
    BY <1>1, InOrder
<1>3. population.opensAt \in Int
  BY <1>2 DEF HonestRecords, HonestPopulation
<1>4. HonestOpening'
  BY <1>2, <1>3 DEF Open, HonestOpening
<1>5. HonestOutputs' /\ HonestCommitments'
  BY <1>2, OutputsStay, CommitmentsStay DEF Open
<1>6. HonestReveal' /\ HonestReceipt'
  BY <1>2 DEF HonestRecords, HonestReveal, HonestReceipt, OracleRevealed, Receipted, Open
<1> QED
  BY <1>2, <1>4, <1>5, <1>6, PopulationStays DEF Open, HonestRecords

(* A run in order is the first of its path.                                *)
LEMMA RunHonest ==
  ASSUME SealedInv, HonestInv, NEW p \in Paths, Run(p), slips' = 0 PROVE HonestRecords'
<1> DEFINE ordered(fixtures) ==
             /\ fixtures = work.fixtures
             /\ outputs[p] = None \/ outputs[p].results.population # population
           archives == Archives(p, work.fixtures)
<1>1. PICK fixtures \in {0, 1} :
        /\ ordered(fixtures) \in BOOLEAN /\ During(ordered(fixtures))
        /\ outputs' = [outputs EXCEPT ![p] = Archives(p, fixtures)]
  BY DEF Run
<1>2. ordered(fixtures) /\ HonestRecords /\ clock' = clock /\ clock \in 0 .. MaxTime
  <2> HIDE DEF ordered
  <2> QED
    BY <1>1, InOrder
<1>3. outputs[p] = None
  BY <1>2 DEF HonestRecords, HonestOutputs, PathValid
<1>4. commitments[p] = None
  BY <1>2, <1>3 DEF HonestRecords, HonestCommitments
<1>5. unsealed = None /\ reveal = None /\ receipt = None
  BY <1>2, <1>4 DEF HonestRecords, HonestReveal, HonestReceipt
<1>6. /\ clock \in Int /\ population.opensAt \in Int /\ clock >= population.opensAt
      /\ population.rules = work.rules
  BY <1>2, TrialAssumption DEF HonestRecords, HonestPopulation, HonestOpening, Run, SealedInv,
     TimesInv
<1>7. PathValid(archives)
  <2>1. DOMAIN archives.traces.cells = Coordinates(population.included)
    BY DEF Archives
  <2>2. ASSUME NEW x \in Coordinates(population.included)
        PROVE  RunValid(archives.results.cells[x], archives.traces.cells[x])
    BY <1>6 DEF Archives, RunValid, ProvenanceValid, Trace
  <2> QED
    BY <2>1, <2>2 DEF PathValid, Archives
<1>8. \A x \in DOMAIN archives.traces.cells : archives.traces.cells[x].at <= clock
  BY <1>6 DEF Archives, Trace
<1>9. /\ outputs' = [outputs EXCEPT ![p] = archives] /\ DOMAIN outputs = Paths
      /\ UNCHANGED <<work, published, population, opened, commitments, unsealed, reveal, receipt>>
  BY <1>1, <1>2 DEF Run, SealedInv, TimesInv
<1> HIDE DEF archives, ordered
<1>10. HonestOutputs'
  <2> SUFFICES ASSUME NEW q \in Paths, outputs'[q] # None
               PROVE  /\ PathValid(outputs[q])'
                      /\ \A x \in DOMAIN outputs'[q].traces.cells :
                           outputs'[q].traces.cells[x].at <= clock'
    BY DEF HonestOutputs
  <2>1. CASE q = p
    <3>1. outputs'[q] = archives
      BY <1>9, <2>1
    <3> QED
      BY <1>2, <1>7, <1>8, <1>9, <3>1 DEF PathValid, RunValid,
         ProvenanceValid
  <2>2. CASE q # p
    <3>1. outputs'[q] = outputs[q]
      BY <1>9, <2>2
    <3>2. PathValid(outputs[q]) /\ \A x \in DOMAIN outputs[q].traces.cells :
                                     outputs[q].traces.cells[x].at <= clock
      BY <1>2, <3>1 DEF HonestRecords, HonestOutputs
    <3> QED
      BY <1>2, <1>9, <3>1, <3>2 DEF PathValid, RunValid,
         ProvenanceValid
  <2> QED
    BY <2>1, <2>2
<1>11. HonestCommitments'
  BY <1>2, <1>4, <1>9 DEF HonestRecords, HonestCommitments, CommitmentValid
<1>12. HonestReveal' /\ HonestReceipt' /\ HonestOpening'
  BY <1>2, <1>5, <1>9 DEF HonestRecords, HonestReveal, HonestReceipt, HonestOpening
<1> QED
  BY <1>2, <1>9, <1>10, <1>11, <1>12, PopulationStays DEF HonestRecords

LEMMA CommitHonest ==
  ASSUME SealedInv, HonestInv, NEW p \in Paths, Commit(p), slips' = 0 PROVE HonestRecords'
<1> DEFINE ordered == commitments[p] = None \/ commitments[p].population # population
<1>1. ordered \in BOOLEAN /\ During(ordered)
  BY DEF Commit
<1>2. ordered /\ HonestRecords /\ clock' = clock /\ clock \in 0 .. MaxTime
  <2> HIDE DEF ordered
  <2> QED
    BY <1>1, InOrder
<1>3. commitments[p] = None
  BY <1>2 DEF HonestRecords, HonestCommitments, CommitmentValid
<1>4. unsealed = None /\ reveal = None /\ receipt = None
  BY <1>2, <1>3 DEF HonestRecords, HonestReveal, HonestReceipt
<1>5. /\ clock \in Int /\ clock >= population.opensAt
      /\ \A x \in DOMAIN outputs[p].traces.cells : outputs[p].traces.cells[x].at <= clock
  BY <1>2, TrialAssumption DEF HonestRecords, HonestPopulation, HonestOpening, HonestOutputs,
     Commit, SealedInv, TimesInv, InputsInv
<1>6. /\ DOMAIN commitments' = Paths
      /\ commitments'[p] = [population |-> population, traces |-> outputs[p].traces,
                            results |-> outputs[p].results, at |-> clock]
      /\ \A q \in Paths \ {p} : commitments'[q] = commitments[q]
      /\ outputs[p] # None
      /\ UNCHANGED <<work, published, population, opened, outputs, unsealed, reveal, receipt>>
  BY DEF Commit, SealedInv, TimesInv
<1>7. HonestCommitments'
  BY <1>2, <1>5, <1>6 DEF HonestRecords, HonestCommitments, CommitmentValid
<1>8. HonestOutputs'
  <2>1. clock' \in Int /\ clock' >= clock
    BY <1>2, <1>5
  <2> QED
    BY <1>2, <1>6, <2>1, OutputsStay
<1>9. HonestReveal' /\ HonestReceipt' /\ HonestOpening'
  BY <1>2, <1>4, <1>6 DEF HonestRecords, HonestReveal, HonestReceipt, HonestOpening
<1> QED
  BY <1>2, <1>6, <1>7, <1>8, <1>9, PopulationStays DEF HonestRecords

(* The oracle is unsealed once, after every commitment.                    *)
LEMMA RevealHonest ==
  ASSUME SealedInv, HonestInv, Reveal, slips' = 0 PROVE HonestRecords'
<1> DEFINE ordered == /\ reveal = None \/ reveal.commitments # commitments
                      /\ \A p \in Paths : commitments[p] # None /\ commitments[p].at < clock
<1>1. ordered \in BOOLEAN /\ During(ordered)
  BY DEF Reveal
<1>2. ordered /\ HonestRecords /\ clock' = clock /\ clock \in 0 .. MaxTime
  <2> HIDE DEF ordered
  <2> QED
    BY <1>1, InOrder
<1>3. reveal = None
  BY <1>2 DEF HonestRecords, HonestReveal, OracleRevealed
<1>4. receipt = None
  BY <1>2, <1>3 DEF HonestRecords, HonestReceipt
<1>5. clock \in Int /\ clock # None
  BY <1>2, TrialAssumption
<1>6. /\ unsealed' # None
      /\ \A p \in Paths : commitments[p] # None /\ commitments[p].at < unsealed'
  BY <1>2, <1>5 DEF Reveal, HonestRecords, HonestReveal
<1>7. HonestReveal'
  BY <1>6 DEF Reveal, HonestReveal, OracleRevealed
<1>8. clock' \in Int /\ clock' >= clock
  BY <1>2, <1>5
<1>9. HonestOutputs' /\ HonestCommitments'
  BY <1>2, <1>8, OutputsStay, CommitmentsStay DEF Reveal
<1>10. HonestReceipt' /\ HonestOpening'
  BY <1>2, <1>4 DEF HonestRecords, HonestReceipt, HonestOpening, Reveal
<1> QED
  BY <1>2, <1>7, <1>9, <1>10, PopulationStays DEF Reveal, HonestRecords

LEMMA FinalizeHonest ==
  ASSUME SealedInv, HonestInv, Finalize, slips' = 0 PROVE HonestRecords'
<1> DEFINE ordered == receipt = None \/ receipt.reveal # reveal
<1>1. ordered \in BOOLEAN /\ During(ordered)
  BY DEF Finalize
<1>2. ordered /\ HonestRecords /\ clock' = clock /\ clock \in 0 .. MaxTime
  <2> HIDE DEF ordered
  <2> QED
    BY <1>1, InOrder
<1>3. unsealed # None /\ reveal.at = unsealed /\ unsealed \in 0 .. clock /\ clock \in Int
  BY <1>2, TrialAssumption DEF Finalize, SealedInv, OracleInv, TimesInv
<1>4. HonestReceipt'
  BY <1>2, <1>3 DEF Finalize, HonestReceipt, Receipted
<1>5. clock' \in Int /\ clock' >= clock
  BY <1>2, <1>3
<1>6. HonestOutputs' /\ HonestCommitments'
  BY <1>2, <1>5, OutputsStay, CommitmentsStay DEF Finalize
<1>7. HonestReveal' /\ HonestOpening'
  BY <1>2 DEF HonestRecords, HonestReveal, OracleRevealed, HonestOpening, Finalize
<1> QED
  BY <1>2, <1>4, <1>6, <1>7, PopulationStays DEF Finalize, HonestRecords

(* The records stay what they are while time goes on, and while nothing    *)
(* does.                                                                   *)
LEMMA RecordsStay ==
  ASSUME SealedInv, HonestRecords, UNCHANGED trialVars, clock' \in Int, clock' >= clock
  PROVE  HonestRecords'
<1>1. HonestOutputs' /\ HonestCommitments'
  BY OutputsStay, CommitmentsStay DEF trialVars
<1>2. HonestReveal' /\ HonestOpening' /\ HonestReceipt'
  BY DEF HonestRecords, HonestReveal, OracleRevealed, HonestOpening, HonestReceipt, Receipted,
         trialVars
<1> QED
  BY <1>1, <1>2, PopulationStays DEF HonestRecords, trialVars

LEMMA RecordsValidStays == ASSUME UNCHANGED graphVars PROVE RecordsValid' = RecordsValid
BY DEF graphVars, RecordsValid, AuthorshipValid, EdgesKnown, ClustersMatch,
       AuthorshipGraphValid

LEMMA HonestNext == SealedInv /\ HonestInv /\ [Next]_vars => HonestInv'
<1> SUFFICES ASSUME SealedInv, HonestInv, [Next]_vars PROVE HonestInv'
  OBVIOUS
<1>1. clock \in Int /\ slips \in Nat
  BY TrialAssumption DEF SealedInv, TimesInv
<1>2. CASE Search \/ Screen \/ Validate \/ UNCHANGED vars
  <2>1. slips' = slips /\ clock' = clock /\ UNCHANGED trialVars
    BY <1>2 DEF Search, Screen, Validate, vars
  <2>2. (slips = 0 => HonestRecords)'
    BY <1>1, <2>1, RecordsStay DEF HonestInv
  <2>3. (stage \in {"trial", "rejected"} => RecordsValid)'
    <3>1. CASE Search \/ Screen
      BY <3>1, RecordsValidStays DEF Search, Screen
    <3>2. CASE Validate \/ UNCHANGED vars
      BY <3>2, RecordsValidStays DEF Validate, vars, HonestInv
    <3> QED
      BY <1>2, <3>1, <3>2
  <2>4. (stage = "rejected" => receipt # None /\ ~ PackValid)'
    <3>1. CASE Search \/ Screen
      BY <3>1 DEF Search, Screen
    <3>2. CASE Validate \/ UNCHANGED vars
      <4>1. PackValid' = PackValid
        BY <3>2, PackKept DEF Validate, vars
      <4> QED
        BY <2>1, <3>2, <4>1 DEF Validate, vars, HonestInv, trialVars
    <3> QED
      BY <1>2, <3>1, <3>2
  <2> QED
    BY <2>2, <2>3, <2>4 DEF HonestInv
<1>3. CASE Tick
  <2>1. (slips = 0 => HonestRecords)'
    <3>1. clock' \in Int /\ clock' >= clock
      BY <1>1, <1>3 DEF Tick
    <3> QED
      BY <1>3, <3>1, RecordsStay DEF Tick, HonestInv
  <2>2. (stage \in {"trial", "rejected"} => RecordsValid)'
    BY <1>3, RecordsValidStays DEF Tick, HonestInv
  <2>3. stage' = "trial"
    BY <1>3 DEF Tick
  <2> QED
    BY <2>1, <2>2, <2>3 DEF HonestInv
<1>4. ASSUME stage = "trial", stage' = stage, UNCHANGED graphVars, slips' = 0 => HonestRecords'
      PROVE  HonestInv'
  BY <1>4, RecordsValidStays DEF HonestInv
<1>5. ASSUME NEW inOrder, During(inOrder)
      PROVE  stage = "trial" /\ stage' = stage /\ UNCHANGED graphVars
  BY <1>5 DEF During
<1>6. ASSUME During(FALSE) PROVE slips' # 0
  BY <1>1, <1>6 DEF During
<1>7. CASE Publish \/ Edit \/ Open \/ Reveal \/ Finalize
  <2>1. stage = "trial" /\ stage' = stage /\ UNCHANGED graphVars
    BY <1>5, <1>7 DEF Publish, Edit, Open, Reveal, Finalize
  <2>2. slips' = 0 => HonestRecords'
    BY <1>6, <1>7, PublishHonest, OpenHonest, RevealHonest, FinalizeHonest DEF Edit
  <2> QED
    BY <1>4, <2>1, <2>2
<1>8. CASE \E included \in {work.cases, work.cases \ Troubled}, opening \in clock .. MaxTime :
             Freeze(included, opening)
  <2>1. PICK included \in {work.cases, work.cases \ Troubled}, opening \in clock .. MaxTime :
          Freeze(included, opening)
    BY <1>8
  <2>2. opening \in Int
    BY <1>1, TrialAssumption
  <2>3. stage = "trial" /\ stage' = stage /\ UNCHANGED graphVars
    BY <1>5, <2>1 DEF Freeze
  <2> QED
    BY <1>4, <2>1, <2>2, <2>3, FreezeHonest
<1>9. CASE \E p \in Paths : Run(p) \/ RunInPart(p) \/ Commit(p)
  <2>1. PICK p \in Paths : Run(p) \/ RunInPart(p) \/ Commit(p)
    BY <1>9
  <2>2. stage = "trial" /\ stage' = stage /\ UNCHANGED graphVars
    BY <1>5, <2>1 DEF Run, RunInPart, Commit
  <2>3. slips' = 0 => HonestRecords'
    BY <1>6, <2>1, RunHonest, CommitHonest DEF RunInPart
  <2> QED
    BY <1>4, <2>2, <2>3
<1> QED
  BY <1>2, <1>3, <1>7, <1>8, <1>9 DEF Next

LEMMA HonestInit == Init => HonestInv
<1> SUFFICES ASSUME Init PROVE HonestInv
  OBVIOUS
<1> USE DEF Init
<1>1. \A p \in Paths : outputs[p] = None /\ commitments[p] = None
  OBVIOUS
<1>2. HonestRecords
  BY <1>1 DEF HonestRecords, Approved, HonestPopulation, HonestOpening, HonestOutputs,
     HonestCommitments, HonestReveal, HonestReceipt
<1> QED
  BY <1>2 DEF HonestInv

(* The checks of the complete pack pass on such records, if the draft is   *)
(* what the protocol asks for.                                             *)
LEMMA HonestIsValid ==
  ASSUME SealedInv, HonestRecords, RecordsValid, EligibleDraft, receipt # None
  PROVE  PackValid
<1>1. reveal # None /\ Receipted /\ unsealed # None /\ OracleRevealed
  BY DEF HonestRecords, HonestReceipt, HonestReveal
<1>2. \A p \in Paths : commitments[p] # None
  BY <1>1 DEF HonestRecords, HonestReveal
<1>3. PathsValid
  BY <1>2 DEF PathsValid, HonestRecords, HonestCommitments, HonestOutputs
<1>4. population # None
  <2>1. outputs["governed"] # None
    BY <1>2, TrialAssumption DEF HonestRecords, HonestCommitments
  <2> QED
    BY <2>1, TrialAssumption DEF SealedInv, InputsInv, HonestRecords, HonestOpening
<1>5. /\ published = Sealed /\ work.reviewed = InputArchive /\ work.cases = Cases
      /\ work.protocol = Approved
  BY <1>4 DEF HonestRecords, HonestPopulation
<1>6. PackBound
  BY <1>5 DEF PackBound, Sealed, InputArchive, OracleArchive
<1>7. DOMAIN draft.authorship = Families
  BY <1>5 DEF EligibleDraft, Families
<1>8. ControlsValid
  BY <1>5, <1>7 DEF ControlsValid, EligibleDraft, LeakageReviewed
<1>9. AboveFloors
  <2>1. draft.graph.clusters = components
    BY DEF RecordsValid, ClustersMatch
  <2> QED
    BY <1>5, <1>7, <2>1 DEF AboveFloors, EligibleDraft
<1>10. PopulationFrozen
  BY <1>4, <1>7, <1>9 DEF PopulationFrozen, HonestRecords, HonestPopulation, EligibleDraft
<1> QED
  BY <1>1, <1>3, <1>6, <1>8, <1>10 DEF PackValid

LEMMA HonestInvariant == Spec => []HonestInv
<1>1. SealedInv /\ HonestInv /\ [Next]_vars => HonestInv'
  BY HonestNext
<1> QED
  BY SealedInvariant, HonestInit, <1>1, PTL DEF Spec

-----------------------------------------------------------------------------
(* The theorems.                                                           *)

(* The records of an experiment are of the types the validator expects.    *)
THEOREM ExperimentTypes == Spec => []TypeOK
<1>1. SealedInv => TypeOK
  BY RangeOfSeq DEF SealedInv, TimesInv, ScreeningInv, GraphInv, Nodes, TypeOK
<1> QED
  BY SealedInvariant, <1>1, PTL

(* The search of the validator finds the connected components of every     *)
(* graph, in whatever order it visits the families.                        *)
THEOREM ComponentsFound == Spec => []SearchFindsComponents
<1>1. SealedInv => SearchFindsComponents
  BY GraphInvFinds DEF SealedInv, ScreeningInv
<1> QED
  BY SealedInvariant, <1>1, PTL

(* An accepted pack was settled before its inputs were opened, for any     *)
(* number of edits and of steps out of order.                              *)
THEOREM InputsWereBlind == Spec => []BlindInputs
BY SealedInvariant, InputsBlind, PTL

(* The results of an accepted pack were committed before its oracle was    *)
(* unsealed.                                                               *)
THEOREM OracleWasBlind == Spec => []BlindOracle
BY SealedInvariant, OracleBlind, PTL

(* An accepted pack scores every case of the public commitment.            *)
THEOREM NobodyExcluded == Spec => []NothingIsExcluded
BY SealedInvariant, AllIncluded, PTL

(* The clusters an accepted pack is counted by are independent.            *)
THEOREM IndependentClusters == Spec => []ClustersAreIndependent
BY SealedInvariant, ClustersApart, PTL

(* An experiment without a slip, on a draft that satisfies the protocol,   *)
(* is accepted, whatever the number of its cases, paths and repeats and    *)
(* whichever of its runs fail.                                             *)
THEOREM HonestAccepted == Spec => []HonestPackIsAccepted
<1>1. SealedInv /\ HonestInv => HonestPackIsAccepted
  <2>1. ASSUME SealedInv, HonestInv, stage = "rejected", ~ slips > 0, EligibleDraft PROVE FALSE
    <3>1. slips = 0
      BY <2>1, TrialAssumption DEF SealedInv, TimesInv
    <3> QED
      BY <2>1, <3>1, HonestIsValid DEF HonestInv
  <2> QED
    BY <2>1 DEF HonestPackIsAccepted
<1> QED
  BY SealedInvariant, HonestInvariant, <1>1, PTL

-----------------------------------------------------------------------------
(* The refinement of BlindTrial.                                           *)

(* There is no commitment before the inputs are opened, it says when it    *)
(* was made, and outputs name the population record they are of.           *)
LinksInv ==
  /\ \A p \in Paths : commitments[p] # None => opened # None /\ commitments[p].at >= opened
  /\ \A p \in Paths : outputs[p] # None =>
       /\ DOMAIN outputs[p].traces = {"population", "cells"}
       /\ outputs[p].traces.population # None

LEMMA RunInPartLinks ==
  ASSUME SealedInv, LinksInv, NEW p \in Paths, RunInPart(p) PROVE LinksInv'
<1> DEFINE out == outputs[p]
           again == Archives(p, work.fixtures)
           Without(archive) ==
             [archive EXCEPT !.cells =
               [x \in DOMAIN archive.cells \ Coordinates(Troubled) |-> archive.cells[x]]]
           Linked(traces) == /\ DOMAIN traces = {"population", "cells"}
                             /\ traces.population # None
<1>1. PICK output \in {[traces |-> again.traces, results |-> out.results],
                      [traces |-> out.traces, results |-> again.results],
                      [traces |-> Without(out.traces), results |-> Without(out.results)]} :
        outputs' = [outputs EXCEPT ![p] = output]
  BY DEF RunInPart
<1>2. Linked(again.traces) /\ Linked(out.traces)
  BY DEF Archives, RunInPart, LinksInv
<1>3. Linked(Without(out.traces))
  BY <1>2
<1>4. output.traces \in {again.traces, out.traces, Without(out.traces)}
  <2> HIDE DEF Without, out, again
  <2> QED
    OBVIOUS
<1>5. Linked(output.traces)
  <2> HIDE DEF Without, out, again, Linked
  <2> QED
    BY <1>2, <1>3, <1>4
<1>6. UNCHANGED <<opened, commitments>>
  BY DEF RunInPart
<1> QED
  BY <1>1, <1>5, <1>6 DEF LinksInv, SealedInv, TimesInv

LEMMA LinksNext == SealedInv /\ LinksInv /\ [Next]_vars => LinksInv'
<1> SUFFICES ASSUME SealedInv, LinksInv, [Next]_vars PROVE LinksInv'
  OBVIOUS
<1>1. CASE UNCHANGED <<opened, commitments, outputs>>
  BY <1>1 DEF LinksInv
<1>2. CASE Open
  <2>1. \A p \in Paths : commitments[p] = None
    BY <1>2 DEF Open, LinksInv
  <2> QED
    BY <1>2, <2>1 DEF Open, LinksInv
<1>3. CASE \E p \in Paths : Commit(p)
  <2>1. PICK p \in Paths : Commit(p)
    BY <1>3
  <2>2. /\ commitments'[p].at = clock /\ opened # None
        /\ \A q \in Paths \ {p} : commitments'[q] = commitments[q]
    BY <2>1 DEF Commit, SealedInv, TimesInv, InputsInv
  <2>3. clock >= opened
    BY <2>2, TrialAssumption DEF SealedInv, TimesInv
  <2> QED
    BY <2>1, <2>2, <2>3 DEF Commit, LinksInv
<1>4. CASE \E p \in Paths : Run(p)
  BY <1>4 DEF Run, Archives, LinksInv, SealedInv, TimesInv
<1>5. CASE \E p \in Paths : RunInPart(p)
  BY <1>5, RunInPartLinks
<1>6. CASE \E included \in {work.cases, work.cases \ Troubled}, opening \in clock .. MaxTime :
             Freeze(included, opening)
  BY <1>1, <1>6 DEF Freeze
<1>7. CASE UNCHANGED vars \/ Search \/ Screen \/ Publish \/ Edit \/ Reveal \/ Finalize
           \/ Tick \/ Validate
  BY <1>1, <1>7 DEF vars, trialVars, Search, Screen, Publish, Edit, Reveal, Finalize, Tick,
     Validate
<1> QED
  BY <1>2, <1>3, <1>4, <1>5, <1>6, <1>7 DEF Next

(* What is certified is what was settled and unsealed.                     *)
CertifiedInv ==
  stage = "accepted" =>
    Phase = "unsealed" /\ Certified = [plan |-> Settled, results |-> Unsealed]

LEMMA AcceptedCertifies == SealedInv /\ LinksInv => CertifiedInv
<1> SUFFICES ASSUME SealedInv, LinksInv, stage = "accepted" PROVE CertifiedInv
  BY DEF CertifiedInv
<1>1. PackValid /\ opened # None /\ unsealed # None /\ atOpen = population
  BY AcceptedOpened
<1>2. outputs["governed"] # None /\ PathValid(outputs["governed"])
  BY <1>1, TrialAssumption DEF PackValid, PathsValid
<1>3. atOpen # None
  BY <1>1, <1>2, TrialAssumption DEF PathValid, LinksInv
<1>4. /\ atOpen.input = InputArchive /\ atOpen.oracle = OracleArchive
      /\ atOpen.protocol = work.protocol /\ atOpen.included = work.cases
  BY <1>1 DEF PackValid, PopulationFrozen, PackBound, IncludesAll
<1>5. Settled = Plan(InputArchive, OracleArchive, work.protocol, work.cases)
  BY <1>3, <1>4 DEF Settled
<1>6. ASSUME NEW p \in Paths
      PROVE  /\ outputs[p] # None /\ atUnseal[p] # None
             /\ outputs[p].traces = atUnseal[p].traces
             /\ outputs[p].results = atUnseal[p].results
             /\ commitments[p] # None /\ commitments[p].at < unsealed
  <2>1. outputs[p] # None /\ commitments[p] # None /\ CommitmentValid(commitments[p], outputs[p])
    BY <1>1 DEF PackValid, PathsValid
  <2>2. commitments[p].at < unsealed
    BY <1>1 DEF PackValid, OracleRevealed, SealedInv, OracleInv
  <2>3. commitments[p] = atUnseal[p]
    BY <1>1, <2>1, <2>2 DEF SealedInv, OracleInv
  <2> QED
    BY <2>1, <2>2, <2>3 DEF CommitmentValid
<1>7. Scored(outputs) = Scored(atUnseal)
  BY <1>6 DEF Scored
<1>8. opened < unsealed
  <2>1. "governed" \in Paths
    BY TrialAssumption
  <2>2. commitments["governed"].at \in Int /\ commitments["governed"].at >= opened
    BY <1>6, <2>1 DEF LinksInv, SealedInv, TimesInv
  <2>3. opened \in Int /\ unsealed \in Int
    BY <1>1, TrialAssumption DEF SealedInv, TimesInv
  <2> QED
    BY <1>6, <2>1, <2>2, <2>3
<1> QED
  BY <1>1, <1>5, <1>7, <1>8 DEF CertifiedInv, Phase, Certified, Unsealed

(* A step that opens, unseals and certifies nothing is none of the trial.  *)
LEMMA TrialStutters ==
  ASSUME UNCHANGED <<opened, atOpen, unsealed, atUnseal>>,
         stage # "accepted", stage' # "accepted"
  PROVE  UNCHANGED Trial!vars
BY DEF Trial!vars, Phase, Settled, Unsealed, Scored, Certified

LEMMA OpenTrial ==
  ASSUME SealedInv, Open PROVE Trial!Open \/ Trial!Spoil
<1>1. /\ opened = None /\ opened' = clock /\ clock # None
      /\ stage = "trial" /\ stage' = "trial" /\ UNCHANGED <<unsealed, atUnseal>>
  BY TrialAssumption DEF Open, During, SealedInv, TimesInv
<1>2. UNCHANGED <<Unsealed, Certified>>
  BY <1>1 DEF Unsealed, Scored, Certified
<1>3. CASE unsealed = None
  BY <1>1, <1>2, <1>3 DEF Phase, Trial!Open
<1>4. CASE unsealed # None
  <2>1. ~ clock < unsealed
    BY <1>4, TrialAssumption DEF SealedInv, TimesInv
  <2> QED
    BY <1>1, <1>2, <1>4, <2>1 DEF Phase, Trial!Spoil
<1> QED
  BY <1>3, <1>4

LEMMA RevealTrial ==
  ASSUME SealedInv, Reveal PROVE [Trial!Next]_(Trial!vars)
<1>1. stage = "trial" /\ stage' = "trial" /\ UNCHANGED <<opened, atOpen>>
  BY DEF Reveal, During
<1>2. UNCHANGED <<Settled, Certified>>
  BY <1>1 DEF Settled, Certified
<1>3. CASE unsealed # None
  <2>1. UNCHANGED <<unsealed, atUnseal>>
    BY <1>3 DEF Reveal
  <2> QED
    BY <1>1, <2>1, TrialStutters
<1>4. CASE unsealed = None
  <2>1. unsealed' = clock /\ clock # None
    BY <1>4, TrialAssumption DEF Reveal, SealedInv, TimesInv
  <2>2. CASE opened # None /\ opened < clock
    <3>1. Trial!Unseal
      BY <1>1, <1>2, <1>4, <2>1, <2>2 DEF Phase, Trial!Unseal
    <3> QED
      BY <3>1 DEF Trial!Next
  <2>3. CASE ~ (opened # None /\ opened < clock)
    <3>1. Trial!Spoil
      BY <1>1, <1>2, <1>4, <2>1, <2>3 DEF Phase, Trial!Spoil
    <3> QED
      BY <3>1 DEF Trial!Next
  <2> QED
    BY <2>2, <2>3
<1> QED
  BY <1>3, <1>4

LEMMA ValidateTrial ==
  ASSUME CertifiedInv', Validate PROVE [Trial!Next]_(Trial!vars)
<1>1. UNCHANGED <<opened, atOpen, unsealed, atUnseal>> /\ stage = "trial"
  BY DEF Validate, trialVars
<1>2. CASE stage' # "accepted"
  BY <1>1, <1>2, TrialStutters
<1>3. CASE stage' = "accepted"
  <2>1. Phase' = "unsealed" /\ Certified' = [plan |-> Settled', results |-> Unsealed']
    BY <1>3 DEF CertifiedInv
  <2>2. UNCHANGED <<Phase, Settled, Unsealed>> /\ Certified = None
    BY <1>1 DEF Phase, Settled, Unsealed, Scored, Certified
  <2>3. Trial!Certify
    BY <2>1, <2>2 DEF Trial!Certify
  <2> QED
    BY <2>3 DEF Trial!Next
<1> QED
  BY <1>2, <1>3

LEMMA TrialStep == SealedInv /\ CertifiedInv' /\ [Next]_vars => [Trial!Next]_(Trial!vars)
<1> SUFFICES ASSUME SealedInv, CertifiedInv', [Next]_vars
             PROVE  [Trial!Next]_(Trial!vars)
  OBVIOUS
<1>1. CASE Open
  BY <1>1, OpenTrial DEF Trial!Next
<1>2. CASE Reveal
  BY <1>2, RevealTrial
<1>3. CASE Validate
  BY <1>3, ValidateTrial
<1>4. CASE UNCHANGED vars
  BY <1>4 DEF vars, trialVars, Trial!vars, Phase, Settled, Unsealed, Scored, Certified,
     InputArchive, OracleArchive
<1>5. CASE Search \/ Screen \/ Tick
  BY <1>5, TrialStutters DEF Search, Screen, Tick, trialVars
<1>6. CASE Publish \/ Edit \/ Finalize
  BY <1>6, TrialStutters DEF Publish, Edit, Finalize, During
<1>7. CASE \E included \in {work.cases, work.cases \ Troubled}, opening \in clock .. MaxTime :
             Freeze(included, opening)
  BY <1>7, TrialStutters DEF Freeze, During
<1>8. CASE \E p \in Paths : Run(p) \/ RunInPart(p) \/ Commit(p)
  BY <1>8, TrialStutters DEF Run, RunInPart, Commit, During
<1> QED
  BY <1>1, <1>2, <1>3, <1>4, <1>5, <1>6, <1>7, <1>8 DEF Next

(* An experiment and its validation implement the blind trial: whatever    *)
(* the slips, a pack is accepted only with the plan of the opening and the *)
(* results of an unsealing after it.                                       *)
THEOREM PackIsBlindTrial == Spec => ImplementsBlindTrial
<1>1. Init => LinksInv
  BY DEF Init, LinksInv
<1>2. Init => Trial!Init
  BY DEF Init, Trial!Init, Phase, Settled, Unsealed, Certified
<1>3. SealedInv /\ LinksInv /\ [Next]_vars => LinksInv'
  BY LinksNext
<1>4. SealedInv /\ CertifiedInv' /\ [Next]_vars => [Trial!Next]_(Trial!vars)
  BY TrialStep
<1> QED
  BY SealedInvariant, AcceptedCertifies, <1>1, <1>2, <1>3, <1>4, PTL
  DEF Spec, ImplementsBlindTrial, Trial!Spec

-----------------------------------------------------------------------------
(* The search gets nearer to its end at every step.                        *)

LEMMA RanksAreNat == GraphInv => SearchLeft \in Nat /\ Len(stack) \in Nat
<1> SUFFICES ASSUME GraphInv PROVE SearchLeft \in Nat /\ Len(stack) \in Nat
  OBVIOUS
<1>1. Cardinality(unseen \ component) \in Nat
  BY FS_Subset, FS_CardinalityType DEF GraphInv
<1>2. Len(stack) \in Nat
  BY DEF GraphInv
<1> QED
  BY <1>1, <1>2 DEF SearchLeft

(* A family that is collected was not before, so it lowers what is left; a *)
(* family that is skipped was, so only the stack gets shorter.             *)
LEMMA VisitAdvances ==
  ASSUME GraphInv, Visit PROVE SearchAdvances
<1> DEFINE node == Head(stack)
           left == Cardinality(unseen \ component)
<1>1. left \in Nat
  BY FS_Subset, FS_CardinalityType DEF GraphInv
<1>2. /\ node \in unseen /\ stack # <<>>
      /\ Len(stack) \in Nat /\ Len(Tail(stack)) = Len(stack) - 1
  BY TopOfStack DEF Visit
<1>3. unseen' = unseen
  BY DEF Visit
<1>4. CASE node \in component /\ stack' = Tail(stack) /\ component' = component
  <2>1. left' = left /\ component # {}
    BY <1>3, <1>4
  <2> HIDE DEF left
  <2>2. SearchLeft' = 3 * left' + 2 /\ SearchLeft = 3 * left + 2
    BY <1>4, <2>1 DEF SearchLeft, left
  <2> QED
    BY <1>1, <1>2, <1>4, <2>1, <2>2 DEF SearchAdvances
<1>5. CASE node \notin component /\ component' = component \cup {node}
  <2>1. (unseen \ component)' = (unseen \ component) \ {node}
    BY <1>3, <1>5
  <2>2. IsFiniteSet(unseen \ component) /\ node \in unseen \ component
    BY <1>2, <1>5, FS_Subset DEF GraphInv
  <2>3. left' = left - 1
    BY <2>1, <2>2, FS_RemoveElement
  <2> HIDE DEF left
  <2>4. SearchLeft' = 3 * left' + 2
    BY <1>5, <2>3, <1>1 DEF SearchLeft, left
  <2>5. SearchLeft >= 3 * left
    BY <1>1 DEF SearchLeft, left
  <2> QED
    BY <1>1, <2>3, <2>4, <2>5, RanksAreNat DEF SearchAdvances
<1> QED
  BY <1>4, <1>5 DEF Visit

LEMMA GraphStepAdvances ==
  ASSUME GraphInv, GraphStep PROVE SearchAdvances
<1> DEFINE left == Cardinality(unseen \ component)
<1>1. left \in Nat
  BY FS_Subset, FS_CardinalityType DEF GraphInv
<1>2. CASE PickRoot
  <2>1. left' = left /\ stack = <<>> /\ component = {} /\ component' = {} /\ stack' # <<>>
    BY <1>2 DEF PickRoot
  <2> HIDE DEF left
  <2>2. SearchLeft = 3 * left + 1 /\ SearchLeft' = 3 * left'
    BY <2>1, <1>1 DEF SearchLeft, left
  <2> QED
    BY <1>1, <2>1, <2>2 DEF SearchAdvances
<1>3. CASE CloseComponent
  <2>1. /\ (unseen \ component)' = unseen \ component
        /\ component # {} /\ component' = {} /\ stack' = <<>>
    BY <1>3 DEF CloseComponent
  <2>2. left' = left
    BY <2>1
  <2> HIDE DEF left
  <2>3. SearchLeft = 3 * left + 2 /\ SearchLeft' = 3 * left' + 1
    BY <2>1, <2>2, <1>1 DEF SearchLeft, left
  <2> QED
    BY <1>1, <2>2, <2>3 DEF SearchAdvances
<1> QED
  BY <1>2, <1>3, VisitAdvances DEF GraphStep

(* The search of the validator makes progress at every step on every       *)
(* finite graph, cyclic ones included, where a family is pushed several    *)
(* times: its rank is a pair of natural numbers, what is left to collect   *)
(* and the length of the stack, and all the fairness has to bring about is *)
(* that steps are taken.                                                   *)
THEOREM ScreeningProgresses ==
  Spec => ScreeningAdvances /\ [](SearchLeft \in Nat /\ Len(stack) \in Nat)
<1>1. SealedInv => SearchLeft \in Nat /\ Len(stack) \in Nat
  BY RanksAreNat DEF SealedInv, ScreeningInv
<1>2. SealedInv /\ [Next]_vars
        => [stage = "screening" => stage' # "screening" \/ SearchAdvances]_vars
  <2> SUFFICES ASSUME SealedInv, Next, stage = "screening", stage' = "screening"
               PROVE  SearchAdvances
    OBVIOUS
  <2>1. GraphStep
    BY DEF Next, Search, Screen, Publish, Edit, Open, Reveal, Finalize, Tick, Validate,
           Freeze, Run, RunInPart, Commit, During
  <2> QED
    BY <2>1, GraphStepAdvances DEF SealedInv, ScreeningInv
<1> QED
  BY SealedInvariant, <1>1, <1>2, PTL DEF Spec, ScreeningAdvances
=============================================================================
