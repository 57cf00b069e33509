---------------------------- MODULE Relatedness ----------------------------
(***************************************************************************)
(* How independent the families of a candidate pack are: the authorship    *)
(* records say who wrote what from which sources and who coordinated with  *)
(* whom (_validate_authorship), the relatedness graph has an edge for each *)
(* pair this relates (_validate_authorship_graph) and clusters, which must *)
(* be what _graph_components finds (_validate_relatedness_graph).  That    *)
(* search is modelled step by step, the rest as predicates.                *)
(*                                                                         *)
(* A draft is [authorship, graph].  The authorship maps a family to its    *)
(* primary author, coauthors, sources (of which each is [digest,           *)
(* determining]), coordination ([family, discussed]) and implementers.     *)
(* The graph has families, edges ([pair, shared]) and clusters.  Lists     *)
(* the validator wants sorted and free of duplicates are sets; a cluster   *)
(* has no identifier, the code takes its first family.                     *)
(***************************************************************************)
EXTENDS SequencesExt

CONSTANT Drafts

ASSUME DraftsAssumption ==
  \A d \in Drafts :
    /\ \A e \in d.graph.edges : Cardinality(e.pair) = 2
    /\ IsFiniteSet(d.graph.families)

VARIABLES
  draft,
  unseen,      \* families in no component yet
  stack,       \* families to visit, its top first; some of them twice
  component,   \* the component being collected
  components   \* those collected

graphVars == <<draft, unseen, stack, component, components>>

-----------------------------------------------------------------------------

Authors(record) == {record.primary} \cup record.coauthors

AuthorshipValid(authorship) ==
  /\ \A f \in DOMAIN authorship :
       /\ authorship[f].primary \notin authorship[f].coauthors
       /\ \A c \in authorship[f].coordination : c.family # f
  /\ \A f, g \in DOMAIN authorship :
       authorship[f].primary = authorship[g].primary => f = g

DeterminingSources(record) == {s.digest : s \in {x \in record.sources : x.determining}}

Discussed(record, family) ==
  \E c \in record.coordination : c.family = family /\ c.discussed

(* What relates two families, and the evidence an edge has to name; the    *)
(* types of the edge say which of the three there are.                     *)
Shared(authorship, f, g) ==
  [authors |-> Authors(authorship[f]) \cap Authors(authorship[g]),
   sources |-> DeterminingSources(authorship[f]) \cap DeterminingSources(authorship[g]),
   coordinated |-> Discussed(authorship[f], g) \/ Discussed(authorship[g], f)]

Related(authorship, f, g) ==
  LET shared == Shared(authorship, f, g)
  IN  shared.authors # {} \/ shared.sources # {} \/ shared.coordinated

ExpectedEdges(authorship) ==
  UNION {{[pair |-> {f, g}, shared |-> Shared(authorship, f, g)] :
            g \in {x \in DOMAIN authorship \ {f} : Related(authorship, f, x)}} :
         f \in DOMAIN authorship}

AuthorshipGraphValid_NoExtras(d) ==   \* variant: an edge may be missing
  /\ DOMAIN d.authorship = d.graph.families
  /\ d.graph.edges \subseteq ExpectedEdges(d.authorship)

AuthorshipGraphValid(d) ==
  /\ DOMAIN d.authorship = d.graph.families
  /\ d.graph.edges = ExpectedEdges(d.authorship)

-----------------------------------------------------------------------------

EdgesKnown(graph) == \A e \in graph.edges : e.pair \subseteq graph.families

Adjacent(graph, node) ==
  {other \in graph.families : \E e \in graph.edges : e.pair = {node, other}}

GraphInit ==
  /\ draft \in Drafts
  /\ unseen = draft.graph.families
  /\ stack = <<>> /\ component = {} /\ components = {}

(* The code takes the least family.                                        *)
PickRoot ==
  /\ stack = <<>> /\ component = {}
  /\ \E root \in unseen : stack' = <<root>>
  /\ UNCHANGED <<draft, unseen, component, components>>

(* What is put on the stack, in the order a set happens to be listed in.   *)
Push(families) == \E pushed \in SetToSeqs(families) : stack' = pushed \o Tail(stack)

Visit_Again ==   \* variant: it is forgotten which families were visited
  /\ stack # <<>>
  /\ component' = component \cup {Head(stack)}
  /\ Push(Adjacent(draft.graph, Head(stack)))
  /\ UNCHANGED <<draft, unseen, components>>

Visit_Peek ==   \* variant: a family visited before is skipped and not taken off
  /\ stack # <<>>
  /\ \/ Head(stack) \in component /\ UNCHANGED <<stack, component>>
     \/ /\ Head(stack) \notin component
        /\ component' = component \cup {Head(stack)}
        /\ Push(Adjacent(draft.graph, Head(stack)) \ component')
  /\ UNCHANGED <<draft, unseen, components>>

Visit_Direct ==   \* variant: only what the root is adjacent to is added
  /\ stack # <<>>
  /\ component' = component \cup {Head(stack)}
  /\ Push(IF component = {} THEN Adjacent(draft.graph, Head(stack)) \ component' ELSE {})
  /\ UNCHANGED <<draft, unseen, components>>

(* A family adjacent to several visited ones is on the stack several       *)
(* times; it is visited the first time it is taken off, then skipped.      *)
Visit ==
  /\ stack # <<>>
  /\ \/ /\ Head(stack) \in component
        /\ stack' = Tail(stack) /\ UNCHANGED component
     \/ /\ Head(stack) \notin component
        /\ component' = component \cup {Head(stack)}
        /\ Push(Adjacent(draft.graph, Head(stack)) \ component')
  /\ UNCHANGED <<draft, unseen, components>>

CloseComponent_Eager ==   \* variant: what is still on the stack is forgotten
  /\ component # {}
  /\ unseen' = unseen \ component
  /\ components' = components \cup {component}
  /\ component' = {} /\ stack' = <<>>
  /\ UNCHANGED draft

CloseComponent ==
  /\ stack = <<>> /\ component # {}
  /\ unseen' = unseen \ component
  /\ components' = components \cup {component}
  /\ component' = {}
  /\ UNCHANGED <<draft, stack>>

GraphStep == PickRoot \/ Visit \/ CloseComponent

GraphSearched == unseen = {} /\ component = {}

ClustersMatch == draft.graph.clusters = components

-----------------------------------------------------------------------------
(* What a connected component is, without a search: the parts cover the    *)
(* families, no edge leaves a part, and no part falls apart into two that  *)
(* no edge joins.                                                          *)
Closed(graph, part) == \A f \in part : Adjacent(graph, f) \subseteq part

AreComponents(graph, parts) ==
  /\ UNION parts = graph.families
  /\ \A p \in parts :
       /\ p # {} /\ Closed(graph, p)
       /\ \A q \in SUBSET p : q # {} /\ Closed(graph, q) => q = p

(* Whatever order the search visits the families in, what it ends with are *)
(* the connected components of the graph.                                  *)
SearchFindsComponents ==
  GraphSearched => AreComponents(draft.graph, components)
============================================================================
