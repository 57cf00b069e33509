---------------------- MODULE FederatedEnvelopeProofs ----------------------
(***************************************************************************)
(* Proofs about FederatedEnvelope, for every set of files, every caller    *)
(* and every number of changes to the files during the call.               *)
(***************************************************************************)
EXTENDS FederatedEnvelope, EvidenceProofs

(* The envelope runs the evaluation and nothing but it.                    *)
LEMMA FederationStepEvaluates == [FederationNext]_federationVars => [Next]_vars
<1> SUFFICES ASSUME [FederationNext]_federationVars PROVE [Next]_vars
  OBVIOUS
<1>1. CASE EvaluateSource
  BY <1>1 DEF EvaluateSource, Next
<1>2. CASE Wrap
  BY <1>2 DEF Wrap
<1>3. CASE \E file \in Files : \E content \in Contents[file] :
             ChangeUnderCall(file, content)
  BY <1>3 DEF ChangeUnderCall, Next
<1>4. CASE UNCHANGED federationVars
  BY <1>4 DEF federationVars
<1> QED BY <1>1, <1>2, <1>3, <1>4 DEF FederationNext

LEMMA FederationEvaluates == FederationSpec => Spec
<1>1. FederationInit => Init
  BY DEF FederationInit
<1> QED BY <1>1, FederationStepEvaluates, PTL DEF FederationSpec, Spec

(* The evaluation inside an envelope keeps what GovernedDecision promises, *)
(* and ends on its own: what the envelope does after it repeats no step.   *)
COROLLARY EnvelopeKeepsThePromise == FederationSpec => ImplementsPromise /\ CallAdvances
BY FederationEvaluates, PromiseKept, CallProgresses, PTL

-----------------------------------------------------------------------------
(* A call that returned a report decided.                                  *)
Reported == pc = "reported" => decision \in Decisions

LEMMA ReportedStep == Inv /\ Reported /\ [Next]_vars => Reported'
<1> SUFFICES ASSUME Inv, Reported, [Next]_vars PROVE Reported'
  OBVIOUS
<1>1. CASE FindRoot \/ DigestRoot \/ LoadRoot \/ FindContract
           \/ DigestContract \/ LoadContract \/ SettleTrust
  BY <1>1, TrustingSteps DEF Reported, Trusting, Decisions
<1>2. CASE FindEvidence \/ CheckEvidenceKind \/ DigestEvidence \/ ReadEvidence
  BY <1>2, JudgingSteps DEF Raise, Reported, Judging
<1>3. CASE Decide
  BY <1>3, DecisionType DEF Decide, Raise, Reported
<1>4. CASE UNCHANGED callVars
  BY <1>4 DEF callVars, Reported
<1> QED BY <1>1, <1>2, <1>3, <1>4 DEF Next, Evaluate, Change, Return, vars

(* The envelope that was built, and the report it was built from.          *)
EnvelopeInv ==
  /\ Reported
  /\ outcome = "built" => /\ pc = "reported"
                          /\ envelope.created \in Int /\ envelope.expires \in Int
                          /\ envelope.created < envelope.expires
  /\ outcome = "built" /\ envelope.decision = "READY" =>
       \A i \in DOMAIN Rules : Rules[i].source \in Files
  /\ call \in Calls
  /\ ReadyEnvelopeIsBacked

(* The references of a READY report cover every requirement.               *)
LEMMA ReadyReferences ==
  ASSUME Inv, EvidenceInv, decision = "READY", NEW i \in DOMAIN Rules
  PROVE  /\ Rules[i].source \in Files
         /\ \E ref \in EvidenceReferences :
              /\ ref.id = <<"evidence", Suffix(Rules[i].id)>>
              /\ ref.sha256 \in seen[Rules[i].source]
<1>1. ReadyIsEarned /\ trust = "verified"
  BY InvReady DEF ReadyIsEarned
<1>2. Loaded("policy.json")
      /\ Sound(Root, Document("identity.json"), Document("policy.json"))
  BY <1>1 DEF Inv, TrustEarned, Contracts
<1>3. DOMAIN Rules = 1 .. Len(Rules)
  BY <1>2, RulesType
<1>4. DOMAIN evidence = 1 .. Len(evidence)
  BY DEF Inv, TypeOK
<1>5. i \in DOMAIN evidence /\ evidence[i].state = "satisfied"
  BY <1>1, <1>3, <1>4 DEF ReadyIsEarned
<1>6. RecordFits(evidence[i], Rules[i])
  BY <1>5 DEF EvidenceInv
<1>7. PICK d \in evidence[i].digests : d \in seen[Rules[i].source]
  BY <1>5, <1>6 DEF RecordFits, Supported
<1>8. [id |-> evidence[i].id, sha256 |-> d] \in SourceReferences
  BY <1>5, <1>7 DEF SourceReferences
<1>9. EvidenceReferences = SourceReferences
  BY <1>8 DEF EvidenceReferences
<1> QED BY <1>5, <1>6, <1>7, <1>8, <1>9 DEF RecordFits, Files

LEMMA WrapInv ==
  ASSUME Inv, EvidenceInv, EnvelopeInv, Wrap
  PROVE  EnvelopeInv'
<1>1. /\ pc = "reported" /\ pc' = "reported" /\ decision \in Decisions
      /\ UNCHANGED <<vars, call>>
  BY DEF Wrap, vars, callVars, EnvelopeInv, Reported
<1>2. UNCHANGED <<trust, decision, seen, documents>> /\ Rules' = Rules
  BY <1>1 DEF vars, callVars, Rules, Document
<1>3. CASE outcome' = "refused"
  BY <1>1, <1>2, <1>3 DEF EnvelopeInv, ReadyEnvelopeIsBacked, Reported
<1>4. CASE /\ Representable /\ outcome' = "built"
           /\ envelope' = EnvelopeWith(FileDigest(disk["policy.json"]))
  <2>1. /\ envelope'.decision = decision /\ envelope'.trust = trust
        /\ envelope'.evidence = EvidenceReferences
        /\ envelope'.limitations = Limitations
        /\ envelope'.created = call.created /\ envelope'.expires = call.expires
    BY <1>4 DEF EnvelopeWith
  <2>2. /\ call.created \in Int /\ call.expires \in Int
        /\ call.created < call.expires
    BY <1>4, CallsAssumption DEF EnvelopeInv, Representable
  <2>3. call'.limitations \cup {"no downstream authority"} \subseteq envelope'.limitations
    BY <1>1, <2>1 DEF Limitations
  <2>4. ReadyEnvelopeIsBacked'
    <3>1. CASE decision = "READY"
      <4>1. trust = "verified" /\ Rules # <<>>
        BY <3>1, InvReady DEF ReadyIsEarned
      <4>3. \A i \in DOMAIN Rules :
              \E ref \in EvidenceReferences :
                /\ ref.id = <<"evidence", Suffix(Rules[i].id)>>
                /\ ref.sha256 \in seen[Rules[i].source]
        BY <3>1, ReadyReferences
      <4>4. \A i \in DOMAIN Rules' :
              \E ref \in envelope'.evidence :
                /\ ref.id = <<"evidence", Suffix(Rules'[i].id)>>
                /\ ref.sha256 \in seen'[Rules'[i].source]
        BY <1>2, <2>1, <4>3
      <4>5. /\ trust' = "verified" /\ envelope'.trust = "verified"
            /\ Rules' # <<>>
        BY <1>2, <2>1, <4>1
      <4>6. envelope'.decision = "READY"
        BY <2>1, <3>1
      <4> QED BY <2>3, <4>4, <4>5, <4>6 DEF ReadyEnvelopeIsBacked
    <3>2. CASE decision # "READY"
      <4>1. "unresolved requirements" \in Limitations
              \/ "no downstream reliance" \in Limitations
        BY <1>1, <3>2 DEF Decisions, Limitations
      <4>2. envelope'.decision # "READY"
        BY <2>1, <3>2
      <4> QED BY <2>1, <2>3, <4>1, <4>2 DEF ReadyEnvelopeIsBacked
    <3> QED BY <3>1, <3>2
  <2>5. decision = "READY" => \A i \in DOMAIN Rules : Rules[i].source \in Files
    BY ReadyReferences
  <2> QED BY <1>1, <1>2, <2>1, <2>2, <2>4, <2>5 DEF EnvelopeInv, Reported
<1> QED BY <1>3, <1>4 DEF Wrap

(* Nothing that happens afterwards changes an envelope or its backing.     *)
LEMMA EnvelopeStands ==
  ASSUME EnvelopeInv, UNCHANGED <<callVars, call, outcome, envelope>>,
         \A f \in Files : seen[f] \subseteq seen'[f]
  PROVE  EnvelopeInv'
<1>1. UNCHANGED <<pc, trust, decision, documents>> /\ Rules' = Rules
  BY DEF callVars, Rules, Document
<1>2. ReadyEnvelopeIsBacked'
  <2>1. CASE outcome = "built" /\ envelope.decision = "READY"
    <3>1. /\ trust' = "verified" /\ envelope'.trust = "verified"
          /\ call'.limitations \cup {"no downstream authority"}
               \subseteq envelope'.limitations
          /\ Rules' # <<>>
      BY <1>1, <2>1 DEF EnvelopeInv, ReadyEnvelopeIsBacked
    <3>2. ASSUME NEW i \in DOMAIN Rules'
          PROVE  \E ref \in envelope'.evidence :
                   /\ ref.id = <<"evidence", Suffix(Rules'[i].id)>>
                   /\ ref.sha256 \in seen'[Rules'[i].source]
      <4>1. PICK ref \in envelope.evidence :
                   /\ ref.id = <<"evidence", Suffix(Rules[i].id)>>
                   /\ ref.sha256 \in seen[Rules[i].source]
        BY <1>1, <2>1 DEF EnvelopeInv, ReadyEnvelopeIsBacked
      <4>2. Rules[i].source \in Files
        BY <1>1, <2>1 DEF EnvelopeInv
      <4> QED BY <1>1, <4>1, <4>2
    <3> QED BY <2>1, <3>1, <3>2 DEF ReadyEnvelopeIsBacked
  <2>2. CASE ~ (outcome = "built" /\ envelope.decision = "READY")
    BY <2>2 DEF EnvelopeInv, ReadyEnvelopeIsBacked
  <2> QED BY <2>1, <2>2
<1> QED BY <1>1, <1>2 DEF EnvelopeInv, Reported

LEMMA EnvelopeInvStep ==
  Inv /\ EvidenceInv /\ EnvelopeInv /\ [FederationNext]_federationVars
    => EnvelopeInv'
<1> SUFFICES ASSUME Inv, EvidenceInv, EnvelopeInv, [FederationNext]_federationVars
             PROVE  EnvelopeInv'
  OBVIOUS
<1>1. CASE EvaluateSource
  <2>1. Reported'
    <3>1. Next
      BY <1>1 DEF EvaluateSource, Next
    <3> QED BY <3>1, ReportedStep DEF EnvelopeInv
  <2>2. outcome # "built"
    <3>1. pc # "reported"
      <4>1. pc \in Trusting \cup Judging
        BY <1>1, TrustingSteps, JudgingSteps
        DEF EvaluateSource, Evaluate, Decide, Judging
      <4> QED BY <4>1 DEF Trusting, Judging
    <3> QED BY <3>1 DEF EnvelopeInv
  <2> QED BY <1>1, <2>1, <2>2 DEF EvaluateSource, EnvelopeInv, ReadyEnvelopeIsBacked
<1>2. CASE Wrap
  BY <1>2, WrapInv
<1>3. CASE \E file \in Files : \E content \in Contents[file] :
             ChangeUnderCall(file, content)
  <2> PICK file \in Files : \E content \in Contents[file] :
             ChangeUnderCall(file, content)
    BY <1>3
  <2> PICK content \in Contents[file] : ChangeUnderCall(file, content)
    OBVIOUS
  <2>1. /\ UNCHANGED <<callVars, call, outcome, envelope>>
        /\ \A f \in Files : seen[f] \subseteq seen'[f]
    BY DEF ChangeUnderCall, Change, Inv, TypeOK
  <2> QED BY <2>1, EnvelopeStands
<1>4. CASE UNCHANGED federationVars
  BY <1>4, EnvelopeStands DEF federationVars, vars
<1> QED BY <1>1, <1>2, <1>3, <1>4 DEF FederationNext

THEOREM EnvelopeInvariant == FederationSpec => []EnvelopeInv
<1>1. FederationInit => EnvelopeInv
  BY DEF FederationInit, Init, EnvelopeInv, Reported, ReadyEnvelopeIsBacked
<1>2. (Inv /\ Safe) /\ EvidenceInv /\ EnvelopeInv
        /\ [FederationNext]_federationVars => EnvelopeInv'
  BY EnvelopeInvStep
<1> QED BY <1>1, <1>2, FederationEvaluates, Inductive, RecordsFit, PTL
        DEF FederationSpec

(* A READY envelope carries, for each requirement of the verified policy,  *)
(* the digest of a content its source had during the call.                 *)
THEOREM EnvelopeIsBacked == FederationSpec => []ReadyEnvelopeIsBacked
<1>1. EnvelopeInv => ReadyEnvelopeIsBacked
  BY DEF EnvelopeInv
<1> QED BY <1>1, EnvelopeInvariant, PTL

(* No envelope is expired when it is created, and each one expires at the  *)
(* second it declares (is_envelope_expired).                               *)
THEOREM EnvelopeLives == FederationSpec => []LifetimeIsReal
<1>1. EnvelopeInv => LifetimeIsReal
  BY DEF EnvelopeInv, LifetimeIsReal, Expired
<1> QED BY <1>1, EnvelopeInvariant, PTL

-----------------------------------------------------------------------------
(* What an envelope binds.  The digest of the trust root was taken before  *)
(* anything else was read, and is held from then on.                       *)
DigestTaken == {"root_load", "contract_file", "contract_digest",
                "contract_load", "settle"} \cup Judging

DigestHeld ==
  /\ rootDigest \in seen[TrustRoot] \cup {None}
  /\ pc \in DigestTaken \/ trust = "verified" => rootDigest \in Bytes

LEMMA DigestHeldStep == Inv /\ DigestHeld /\ [Next]_vars => DigestHeld'
<1> SUFFICES ASSUME Inv, DigestHeld, [Next]_vars PROVE DigestHeld'
  OBVIOUS
<1> USE DEF DigestHeld
<1>1. CASE Evaluate
  <2>1. UNCHANGED <<disk, seen>>
    BY <1>1 DEF Evaluate
  <2>2. CASE FindRoot
    BY <2>1, <2>2, NoneAssumption
    DEF FindRoot, Refuse, Raise, Inv, Order, Trusting, DigestTaken, Judging
  <2>3. CASE DigestRoot
    <3>1. disk[TrustRoot] \in seen[TrustRoot]
      BY DEF Inv, Contained, Files
    <3>2. trust # "verified"
      BY <2>3, NoneAssumption
      DEF DigestRoot, Inv, Order, Trusting, TrustStates
    <3> QED
      BY <2>1, <2>3, <3>1, <3>2
      DEF DigestRoot, FileDigest, Readable, Raise, DigestTaken, Judging
  <2>4. CASE LoadRoot
    BY <2>1, <2>4 DEF LoadRoot, Refuse, DigestTaken
  <2>5. CASE FindContract
    BY <2>1, <2>5 DEF FindContract, NextContract, Raise, DigestTaken
  <2>6. CASE DigestContract
    BY <2>1, <2>6 DEF DigestContract, NextContract, Raise, DigestTaken
  <2>7. CASE LoadContract
    BY <2>1, <2>7 DEF LoadContract, DigestTaken
  <2>8. CASE SettleTrust
    BY <2>1, <2>8 DEF SettleTrust, Refuse, Raise, DigestTaken
  <2>9. CASE FindEvidence \/ CheckEvidenceKind \/ DigestEvidence \/ ReadEvidence
    <3>1. pc \in Judging
      BY <2>9, JudgingSteps
    <3>2. rootDigest' = rootDigest
      BY <2>9 DEF FindEvidence, CheckEvidenceKind, DigestEvidence, ReadEvidence, Raise
    <3> QED BY <2>1, <3>1, <3>2 DEF DigestTaken
  <2>10. CASE Decide
    BY <2>1, <2>10 DEF Decide, Raise, DigestTaken, Judging
  <2> QED
    BY <1>1, <2>2, <2>3, <2>4, <2>5, <2>6, <2>7, <2>8, <2>9, <2>10 DEF Evaluate
<1>2. CASE UNCHANGED callVars /\ seen[TrustRoot] \subseteq seen'[TrustRoot]
  BY <1>2 DEF callVars
<1>3. CASE \E file \in Files : \E content \in Contents[file] : Change(file, content)
  <2>1. UNCHANGED callVars
    BY <1>3 DEF Change
  <2>2. seen[TrustRoot] \subseteq seen'[TrustRoot]
    BY <1>3 DEF Change, Inv, TypeOK, Files
  <2> QED BY <1>2, <2>1, <2>2
<1>4. CASE UNCHANGED vars
  BY <1>2, <1>4 DEF vars
<1> QED BY <1>1, <1>3, <1>4 DEF Next, Return

THEOREM DigestIsHeld == Spec => []DigestHeld
<1>1. Init => DigestHeld
  BY NoneAssumption DEF Init, DigestHeld, DigestTaken, Judging, TrustStates
<1>2. (Inv /\ Safe) /\ DigestHeld /\ [Next]_vars => DigestHeld'
  BY DigestHeldStep
<1> QED BY <1>1, <1>2, Inductive, PTL DEF Spec

LEMMA WrapBinds ==
  ASSUME Inv, DigestHeld, EnvelopeBindsTheCall, Wrap
  PROVE  EnvelopeBindsTheCall'
<1>1. UNCHANGED <<trust, seen, rootBytes, rootDigest>> /\ Root' = Root
  BY DEF Wrap, vars, callVars, Root
<1>2. CASE outcome' = "refused"
  BY <1>2 DEF EnvelopeBindsTheCall
<1>3. CASE /\ Readable("policy.json") /\ outcome' = "built"
           /\ envelope' = EnvelopeWith(FileDigest(disk["policy.json"]))
  <2>1. /\ envelope'.policy.sha256 = disk["policy.json"]
        /\ envelope'.authority = rootDigest /\ envelope'.trust = trust
    BY <1>3 DEF EnvelopeWith, FileDigest
  <2>2. "policy.json" \in Files /\ "policy.json" \in Contracts
    BY DEF Files, Contracts
  <2>3. envelope'.policy.sha256 \in seen["policy.json"] \cap Bytes
    BY <1>3, <2>1, <2>2 DEF Readable, Inv, Contained
  <2>4. envelope'.authority \in seen[TrustRoot] \cup {None}
    BY <2>1 DEF DigestHeld
  <2>5. ASSUME trust = "verified"
        PROVE  /\ envelope'.authority # None
               /\ ExpectedDigest(Root.manifest, "policy.json") \in seen["policy.json"]
    BY <2>1, <2>2, <2>5, NotAFileAssumption
    DEF DigestHeld, Inv, TrustEarned, ContractsKnown
  <2> QED BY <1>1, <2>1, <2>3, <2>4, <2>5 DEF EnvelopeBindsTheCall
<1> QED BY <1>2, <1>3 DEF Wrap

(* Both digests of an envelope are of content the call could have read,    *)
(* and so is the policy that a verified trust root declares.               *)
THEOREM EnvelopeIsOfItsCall == FederationSpec => []EnvelopeBindsTheCall
<1>1. FederationInit => EnvelopeBindsTheCall
  BY DEF FederationInit, EnvelopeBindsTheCall
<1>2. ASSUME Inv, EnvelopeInv, DigestHeld, EnvelopeBindsTheCall,
             [FederationNext]_federationVars
      PROVE  EnvelopeBindsTheCall'
  <2>1. CASE EvaluateSource
    <3>1. pc # "reported"
      <4>1. pc \in Trusting \cup Judging
        BY <1>2, <2>1, TrustingSteps, JudgingSteps
        DEF EvaluateSource, Evaluate, Decide, Judging
      <4> QED BY <4>1 DEF Trusting, Judging
    <3>2. outcome' = outcome /\ outcome # "built"
      BY <1>2, <2>1, <3>1 DEF EvaluateSource, EnvelopeInv
    <3> QED BY <3>2 DEF EnvelopeBindsTheCall
  <2>2. CASE Wrap
    BY <1>2, <2>2, WrapBinds
  <2>3. CASE UNCHANGED <<callVars, call, outcome, envelope>>
             /\ \A f \in Files : seen[f] \subseteq seen'[f]
    <3>1. outcome' = outcome /\ envelope' = envelope /\ Root' = Root
      BY <2>3 DEF callVars, Root
    <3>2. "policy.json" \in Files /\ TrustRoot \in Files
      BY DEF Files, Contracts
    <3> QED BY <1>2, <2>3, <3>1, <3>2 DEF EnvelopeBindsTheCall
  <2>4. CASE \E file \in Files : \E content \in Contents[file] :
               ChangeUnderCall(file, content)
    <3>1. /\ UNCHANGED <<callVars, call, outcome, envelope>>
          /\ \A f \in Files : seen[f] \subseteq seen'[f]
      BY <1>2, <2>4 DEF ChangeUnderCall, Change, Inv, TypeOK
    <3> QED BY <2>3, <3>1
  <2>5. CASE UNCHANGED federationVars
    BY <2>3, <2>5 DEF federationVars, vars
  <2> QED BY <1>2, <2>1, <2>2, <2>4, <2>5 DEF FederationNext
<1>3. (Inv /\ Safe) /\ EnvelopeInv /\ DigestHeld /\ EnvelopeBindsTheCall
        /\ [FederationNext]_federationVars => EnvelopeBindsTheCall'
  BY <1>2
<1> QED BY <1>1, <1>3, FederationEvaluates, Inductive, DigestIsHeld,
           EnvelopeInvariant, PTL DEF FederationSpec

-----------------------------------------------------------------------------
(* On files that hold still the report is the verdict on their tree, so    *)
(* what Wrap does with it depends on that tree and the caller alone.       *)

(* A call that ended on a trust root it could load has loaded it.          *)
RootWasLoaded ==
  writes = 0 /\ pc = "reported" /\ Loadable(disk[TrustRoot]) => rootBytes # None

LEMMA RootWasLoadedStep == Inv /\ RootWasLoaded /\ [Next]_vars => RootWasLoaded'
<1> SUFFICES ASSUME Inv, RootWasLoaded, [Next]_vars PROVE RootWasLoaded'
  OBVIOUS
<1> USE DEF RootWasLoaded
<1>1. CASE FindRoot /\ UNCHANGED disk
  BY <1>1 DEF FindRoot, Raise, IsFile, Loadable
<1>2. CASE DigestRoot
  BY <1>2 DEF DigestRoot, Raise
<1>3. CASE LoadRoot /\ UNCHANGED disk
  BY <1>3 DEF LoadRoot, Readable, Loadable
<1>4. CASE FindContract \/ DigestContract \/ LoadContract \/ SettleTrust
           \/ FindEvidence \/ CheckEvidenceKind \/ DigestEvidence
           \/ ReadEvidence \/ Decide
  <2>1. pc \in {"contract_file", "contract_digest", "contract_load", "settle"}
                \cup Judging
    BY <1>4 DEF FindContract, DigestContract, LoadContract, SettleTrust, FindEvidence,
                CheckEvidenceKind, DigestEvidence, ReadEvidence, Decide, Judging
  <2>2. rootBytes # None
    BY <2>1, NotAFileAssumption DEF Inv, RootKnown
  <2>3. rootBytes' = rootBytes
    BY <1>4 DEF FindContract, DigestContract, LoadContract, SettleTrust, FindEvidence,
                CheckEvidenceKind, DigestEvidence, ReadEvidence, Decide, Raise
  <2> QED BY <2>2, <2>3
<1>5. CASE UNCHANGED vars
  BY <1>5 DEF vars, callVars
<1>6. CASE \E file \in Files : \E content \in Contents[file] : Change(file, content)
  BY <1>6, MaxWritesAssumption DEF Change, Inv, TypeOK
<1> QED BY <1>1, <1>2, <1>3, <1>4, <1>5, <1>6 DEF Next, Evaluate, Return

THEOREM LoadableRootsAreLoaded == Spec => []RootWasLoaded
<1>1. Init => RootWasLoaded
  BY DEF Init, RootWasLoaded
<1>2. (Inv /\ Safe) /\ RootWasLoaded /\ [Next]_vars => RootWasLoaded'
  BY RootWasLoadedStep
<1> QED BY <1>1, <1>2, Inductive, PTL DEF Spec

LEMMA WrapExact ==
  ASSUME Inv, EnvelopeInv, Exact, RootWasLoaded, writes = 0, Wrap
  PROVE  UndisturbedEnvelopeIsExact'
<1>1. /\ pc = "reported" /\ UNCHANGED <<disk, writes, call>>
      /\ trust = TrustOn(disk) /\ decision = DecisionOn(disk) /\ trust # None
  BY DEF Wrap, vars, Exact, TrustExact, JudgementExact
<1>2. trust # "missing" => disk[TrustRoot] \in Bytes /\ rootDigest = disk[TrustRoot]
  <2>1. disk[TrustRoot] \in Bytes \/ trust \in {"missing", "raises"}
    BY <1>1 DEF TrustOn
  <2>2. trust # "raises"
    BY <1>1 DEF Inv, TypeOK, TrustStates
  <2> QED BY <1>1, <2>1, <2>2 DEF Exact, RootExact
<1>3. Named <=> (Loadable(disk[TrustRoot]) => NamesGiven(ParseRoot[disk[TrustRoot]]))
  <2>1. rootBytes # None => Loadable(disk[TrustRoot]) /\ Root = ParseRoot[disk[TrustRoot]]
    BY DEF Exact, RootExact, Root
  <2>2. Loadable(disk[TrustRoot]) => rootBytes # None
    BY <1>1 DEF RootWasLoaded
  <2> QED BY <2>1, <2>2 DEF Named
<1>4. Sendable(disk) <=> Readable("policy.json") /\ Representable
  <2>1. trust \in TransportableTrustStates <=> TrustOn(disk) \notin {"missing", "raises"}
    BY <1>1 DEF Inv, TypeOK, TrustStates, TransportableTrustStates
  <2> QED BY <1>3, <2>1 DEF Sendable, Readable, Representable
<1>5. Sendable(disk)' <=> Sendable(disk)
  BY <1>1 DEF Sendable
<1>6. CASE /\ Readable("policy.json") /\ Representable /\ outcome' = "built"
           /\ envelope' = EnvelopeWith(FileDigest(disk["policy.json"]))
  <2>1. /\ envelope'.trust = trust /\ envelope'.decision = decision
        /\ envelope'.policy.sha256 = disk["policy.json"]
        /\ envelope'.authority = rootDigest
        /\ envelope'.created = call.created /\ envelope'.expires = call.expires
    BY <1>6 DEF EnvelopeWith, FileDigest
  <2>2. trust # "missing"
    BY <1>6 DEF Representable, TransportableTrustStates
  <2> QED BY <1>1, <1>2, <1>4, <1>5, <1>6, <2>1, <2>2 DEF UndisturbedEnvelopeIsExact
<1>7. CASE ~ (Readable("policy.json") /\ Representable) /\ outcome' = "refused"
  BY <1>4, <1>5, <1>7 DEF UndisturbedEnvelopeIsExact
<1> QED BY <1>6, <1>7 DEF Wrap

(* An envelope is wrapped from the report of a call that has ended.        *)
WrappedAfterReport == outcome # "pending" => pc = "reported"

LEMMA UndisturbedEnvelopeStep ==
  ASSUME Inv, EnvelopeInv, writes = 0 => Exact, RootWasLoaded,
         WrappedAfterReport, UndisturbedEnvelopeIsExact,
         [FederationNext]_federationVars
  PROVE  WrappedAfterReport' /\ UndisturbedEnvelopeIsExact'
<1>1. CASE EvaluateSource
  <2>1. pc \in Trusting \cup Judging
    BY <1>1, TrustingSteps, JudgingSteps
    DEF EvaluateSource, Evaluate, Decide, Judging
  <2>2. outcome = "pending" /\ outcome' = outcome
    BY <1>1, <2>1 DEF EvaluateSource, WrappedAfterReport, Trusting, Judging
  <2> QED BY <2>2 DEF WrappedAfterReport, UndisturbedEnvelopeIsExact
<1>2. CASE Wrap
  <2>1. pc' = "reported" /\ writes' = writes
    BY <1>2 DEF Wrap, vars, callVars
  <2>2. CASE writes = 0
    BY <1>2, <2>1, <2>2, WrapExact DEF WrappedAfterReport
  <2>3. CASE writes # 0
    BY <2>1, <2>3 DEF WrappedAfterReport, UndisturbedEnvelopeIsExact
  <2> QED BY <2>2, <2>3
<1>3. CASE \E file \in Files : \E content \in Contents[file] :
             ChangeUnderCall(file, content)
  <2>1. writes' = writes + 1 /\ UNCHANGED <<outcome, pc>>
    BY <1>3 DEF ChangeUnderCall, Change, callVars
  <2>2. writes \in Nat
    BY MaxWritesAssumption DEF Inv, TypeOK
  <2> QED BY <2>1, <2>2 DEF WrappedAfterReport, UndisturbedEnvelopeIsExact
<1>4. CASE UNCHANGED federationVars
  BY <1>4 DEF federationVars, vars, callVars, WrappedAfterReport,
              UndisturbedEnvelopeIsExact, Sendable
<1> QED BY <1>1, <1>2, <1>3, <1>4 DEF FederationNext

(* If no file changes during the call, an envelope is built exactly if the *)
(* files and the arguments allow it to be sent, and carries the decision   *)
(* on the files it binds.                                                  *)
THEOREM UndisturbedEnvelope == FederationSpec => []UndisturbedEnvelopeIsExact
<1>1. FederationInit => WrappedAfterReport /\ UndisturbedEnvelopeIsExact
  BY DEF FederationInit, WrappedAfterReport, UndisturbedEnvelopeIsExact
<1>2. (Inv /\ Safe) /\ EnvelopeInv /\ (writes = 0 => Exact) /\ RootWasLoaded
        /\ (WrappedAfterReport /\ UndisturbedEnvelopeIsExact)
        /\ [FederationNext]_federationVars
          => (WrappedAfterReport /\ UndisturbedEnvelopeIsExact)'
  BY UndisturbedEnvelopeStep
<1> QED BY <1>1, <1>2, FederationEvaluates, Inductive, StillFilesExact,
           LoadableRootsAreLoaded, EnvelopeInvariant, PTL DEF FederationSpec
============================================================================
