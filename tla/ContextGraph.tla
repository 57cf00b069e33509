---------------------------- MODULE ContextGraph ----------------------------
(***************************************************************************)
(* The typed graph a verified evaluation returns and the ontology check    *)
(* that ends it.  The check looks the kind of a node up by its identifier, *)
(* so what it says depends on which identifiers coincide.                  *)
(*                                                                         *)
(* An item is one requirement of the report: its identifier, the           *)
(* identifier of its evidence, and its state.                              *)
(***************************************************************************)
EXTENDS Documents

Node(id, kind) == [id |-> id, kind |-> kind]

AuthorityNodes(root, policy, owner) ==
  <<Node(root.authority, "authority"), Node(owner, "owner"),
    Node(<<"policy", policy>>, "policy"), Node(root.target, "release"),
    Node(root.id, "trust-root")>>

(* The nodes in the order they are appended, two for each item.            *)
Nodes(root, policy, owner, items) ==
  AuthorityNodes(root, policy, owner)
    \o [n \in 1 .. 2 * Len(items) |->
          LET item == items[(n + 1) \div 2]
          IN  IF n % 2 = 1 THEN Node(item.requirement, "requirement")
                           ELSE Node(item.id, "evidence")]

(* Sorting by identifier is stable and a dictionary keeps the last value:  *)
(* the kind of an identifier is that of the last node appended for it.  (An *)
(* evidence identifier can be that of a requirement, whose own evidence    *)
(* node then follows it: the order of the items does not matter.)          *)
KindOf(nodes, id) ==
  LET at == {n \in DOMAIN nodes : nodes[n].id = id}
  IN  nodes[CHOOSE n \in at : \A m \in at : m <= n].kind

EvidenceRelation(item) ==
  IF item.state = "satisfied" THEN "EVIDENCED_BY" ELSE "BLOCKED_BY"

Edges(root, policy, owner, items) ==
  {<<root.authority, "ATTESTS", root.id>>,
   <<root.id, "AUTHORIZES_OWNER", owner>>,
   <<root.id, "AUTHORIZES_POLICY", <<"policy", policy>> >>,
   <<<<"policy", policy>>, "GOVERNS", root.target>>,
   <<root.target, "OWNED_BY", owner>>}
  \cup UNION {{<<root.target, "RELEASE_REQUIRES", items[n].requirement>>,
               <<items[n].requirement, EvidenceRelation(items[n]), items[n].id>>} :
                 n \in DOMAIN items}

(* _validate_graph puts the relations into a set, and an array or object   *)
(* among their fields cannot be hashed.                                    *)
Hashable(relations) == \A r \in relations : \A i \in DOMAIN r : r[i] # Composite

(* FALSE is its ValueError or TypeError, which nothing catches.            *)
GraphAccepted(root, policy, owner, items, relations) ==
  LET nodes == Nodes(root, policy, owner, items)
  IN  /\ Hashable(relations)
      /\ \A e \in Edges(root, policy, owner, items) :
           <<KindOf(nodes, e[1]), e[2], KindOf(nodes, e[3])>> \in relations
=============================================================================
