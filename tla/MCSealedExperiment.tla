------------------------- MODULE MCSealedExperiment -------------------------
(***************************************************************************)
(* Four cases in three families.  Two drafts are right, one of which has   *)
(* too few clusters for the floor; of the others each has one thing wrong, *)
(* an edge too few or too many, the clusters, an author or the families.   *)
(* One graph is a triangle, where the search meets a family twice.         *)
(***************************************************************************)
EXTENDS SealedExperiment, TLC

CONSTANTS f1, f2, f3, c1, c2, c3, c4

MCCases == {c1, c2, c3, c4}
MCFamilyOf == (c1 :> f1) @@ (c2 :> f1) @@ (c3 :> f2) @@ (c4 :> f3)
MCPaths == {"governed", "retrieval_plus_rules"}

(* One result of one path cites what an edit of the fixtures changes.      *)
MCCiting == {<<"governed", c2>>}

Families3 == {f1, f2, f3}
Primary == (f1 :> "ann") @@ (f2 :> "bob") @@ (f3 :> "cyd")
Alone(f) == [primary |-> Primary[f], coauthors |-> {}, sources |-> {},
             coordination |-> {}, implementer |-> FALSE]
Source(determining) == [digest |-> "s", determining |-> determining]

(* f1 and f2 share an author, or a source (that both call determining, or  *)
(* not), or talked of the outcomes (or not); f2 and f3 share an author.    *)
Independent == [f \in Families3 |-> Alone(f)]
SharedAuthor(authorship) ==
  [authorship EXCEPT ![f2].coauthors = {"eve"}, ![f3].coauthors = {"eve"}]
Sources(authorship, determining) ==
  [authorship EXCEPT ![f1].sources = {Source(determining)},
                     ![f2].sources = {Source(determining)}]
Coordination(authorship, discussed) ==
  [authorship EXCEPT ![f2].coordination = {[family |-> f1, discussed |-> discussed]}]

Parts(edges) ==   \* of three families: one edge makes a pair, two join all
  IF edges = {} THEN {{f} : f \in Families3}
  ELSE IF Cardinality(edges) = 1
       THEN LET pair == CHOOSE p \in {e.pair : e \in edges} : TRUE
            IN  {pair, Families3 \ pair}
       ELSE {Families3}

Draft(authorship, edges, clusters) ==
  [authorship |-> authorship, leaking |-> {}, reviewer |-> "rex", custodian |-> "kim",
   graph |-> [families |-> Families3, edges |-> edges, clusters |-> clusters]]
Right(authorship) ==
  Draft(authorship, ExpectedEdges(authorship), Parts(ExpectedEdges(authorship)))

Pair == Sources(Independent, TRUE)
Chain == SharedAuthor(Pair)
Triangle == [SharedAuthor(Independent) EXCEPT ![f1].coauthors = {"eve"}]

(* A draft with the edges and the clusters of another authorship.          *)
Wrong(authorship, edges, clusters) ==
  Draft(authorship, ExpectedEdges(edges), Parts(ExpectedEdges(clusters)))

MCDrafts ==
  {Right(Pair), Right(Chain),
   Wrong(Chain, Pair, Pair), Wrong(Pair, Chain, Chain), Wrong(Pair, Pair, Independent),
   Wrong(Chain, Chain, Pair), Wrong(Independent, Chain, Chain),
   Wrong(Sources(Independent, FALSE), Pair, Pair),
   Wrong(Coordination(Independent, TRUE), Independent, Independent),
   Wrong(Coordination(Independent, FALSE), Coordination(Independent, TRUE), Pair),
   Right([Chain EXCEPT ![f1].coauthors = {"ann"}]),
   Right([Chain EXCEPT ![f3].primary = "bob"]),
   Wrong(Triangle, Triangle, Independent),
   [Right(Pair) EXCEPT !.graph.families = {f2, f3}]}
============================================================================
