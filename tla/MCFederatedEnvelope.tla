------------------------ MODULE MCFederatedEnvelope ------------------------
(***************************************************************************)
(* Instances of FederatedEnvelope: callers with a proper, an empty and a   *)
(* negative lifetime, with arguments that are not well formed, or with a   *)
(* limitation of their own.                                                *)
(***************************************************************************)
EXTENDS MCContextEvaluator, FederatedEnvelope

MCCalls ==
  {[created |-> 1, expires |-> e, wellFormed |-> w, limitations |-> {}] :
     e \in 0 .. 2, w \in BOOLEAN}
  \cup {[created |-> 1, expires |-> 2, wellFormed |-> TRUE,
         limitations |-> {"pilot only"}]}

(* Roots and contracts that end in every trust state, over all evidence.   *)
FederationTrees ==
  TreesOver([root      |-> {"root", "root_next", "root_epoch", "root_ambiguous",
                           "root_nameless", "root_omits", "garbage",
                           Absent, Unreadable},
             identity  |-> {"identity", Absent},
             ontology  |-> {"ontology"},
             ownership |-> {"ownership"},
             policy    |-> {"policy", "policy_ambiguous", "garbage", Absent,
                           Unreadable},
             bundle    |-> {"bundle", Absent},
             review    |-> {"approved", "garbage"}])

FederationContents ==
  ("trust-root.json" :> {"root_next", Absent})
  @@ ("identity.json" :> {}) @@ ("ontology.json" :> {})
  @@ ("ownership.json" :> {"ownership_stranger"})
  @@ ("policy.json" :> {"policy", "policy_next", Absent, Unreadable})
  @@ ("dist/bundle" :> {"bundle", "garbage", Absent})
  @@ ("evidence/review" :> {"approved", "waiting", Absent})
============================================================================
