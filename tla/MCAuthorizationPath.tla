------------------------ MODULE MCAuthorizationPath ------------------------
(***************************************************************************)
(* Bundles with two trust anchors and a recovery anchor (1 to 3), three    *)
(* entries that introduce identities (4 to 6) and one that only uses one   *)
(* (7).  K1 and K2 are identities of a lineage at two epochs, R that of    *)
(* the recovery anchor.                                                    *)
(***************************************************************************)
EXTENDS AuthorizationPath, TLC

CONSTANTS K1, K2, R

MCIds == 1 .. 7

Anchor(kind, identity) == [kind |-> kind, introduces |-> identity]

Entry(kind, signer, identity) ==
  [kind |-> kind, signer |-> signer, introduces |-> identity]

Rotation(previous) ==
  [kind |-> "rotation", signer |-> K1, introduces |-> K2, predecessor |-> previous]

Introductions(id) ==
  {Entry("delegation", K1, K2), Entry("delegation", K2, K1),
   Entry("recovery", R, K1), Entry("recovery", R, K2)}
    \cup {Rotation(previous) : previous \in {1, 4, 5, 6} \ {id}}

RecordsWith(entries) ==
  (1 :> Anchor("trust_anchor", K1)) @@ (2 :> Anchor("trust_anchor", K2))
  @@ (3 :> Anchor("recovery_anchor", R))
  @@ [id \in 4 .. 6 |-> entries[id - 3]]
  @@ (7 :> Entry("revocation", K2, None))

(* The entries are met in the order of their identifiers or against it; of *)
(* the records at most two count for nothing: one that is not decisive and *)
(* one that is not VALID.                                                  *)
MCBundles ==
  {[records |-> RecordsWith(entries), order |-> <<1, 2, 3>> \o order,
    decisive |-> MCIds \ {ignored}, classification |->
       [id \in MCIds |-> IF id = unresolved THEN "UNRESOLVED" ELSE "VALID"]] :
     entries \in Introductions(4) \X Introductions(5) \X Introductions(6),
     order \in {<<4, 5, 6, 7>>, <<7, 6, 5, 4>>},
     ignored \in {0, 1, 2, 4}, unresolved \in {0, 2, 5}}
============================================================================
