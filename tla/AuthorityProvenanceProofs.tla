--------------------- MODULE AuthorityProvenanceProofs ---------------------
(***************************************************************************)
(* Whatever the bundles and the reports, an accepted report is authorized, *)
(* and where introductions have no cycle it is the right reports that are  *)
(* accepted.  The invariants carry, through the loop over the              *)
(* dependencies, what was found of those before `at`; a search under way   *)
(* keeps the invariants of the search, and its target is the dependency at *)
(* hand.  Every step of it all lowers a rank, however often the search     *)
(* derives a record.                                                       *)
(***************************************************************************)
EXTENDS AuthorityProvenance, AuthorizationPathProofs

Checked(n) ==
  \A i \in DOMAIN report.dependencies :
    i < n => Authorized(report.dependencies[i].path, report.dependencies[i].id)

ReportTypeOK == bundle \in Bundles /\ report \in Reports[bundle] /\ at \in Nat \ {0}

ProvenanceInv ==
  /\ ReportTypeOK
  /\ phase \in {"dependencies", "search"} => Checked(at)
  /\ phase = "search" =>
       SearchInv /\ at \in DOMAIN report.dependencies /\ target = Dependency.id
  /\ AcceptedIsAuthorized

-----------------------------------------------------------------------------

(* What is said of a report depends on it and the bundle alone.            *)
LEMMA SameReport ==
  ASSUME bundle' = bundle, report' = report
  PROVE  /\ \A n : Checked(n)' = Checked(n)
         /\ Required' = Required
         /\ \A i : Pair(i)' = Pair(i)
         /\ phase' = phase => (AcceptedIsAuthorized' = AcceptedIsAuthorized)
<1>1. \A p, id : Authorized(p, id)' = Authorized(p, id)
  BY SameBundle
<1>2. Required' = Required /\ \A i : Pair(i)' = Pair(i)
  BY SameBundle DEF Required, Pair
<1> QED
  BY <1>1, <1>2 DEF Checked, AcceptedIsAuthorized

LEMMA ProvenanceInitInv == ProvenanceInit => ProvenanceInv
  BY DEF ProvenanceInit, ProvenanceInv, ReportTypeOK, AcceptedIsAuthorized

(* A step that goes on with another phase and looks at no dependency.      *)
LEMMA ContinueInv ==
  ASSUME ProvenanceInv, bundle' = bundle, report' = report, at' \in Nat \ {0},
         \/ phase' \in {"classification", "chains", "rejected"}
         \/ phase' = "dependencies" /\ at' = 1
  PROVE  ProvenanceInv'
<1>1. ReportTypeOK'
  BY DEF ProvenanceInv, ReportTypeOK
<1>2. phase' = "dependencies" => Checked(at)'
  <2> SUFFICES ASSUME at' = 1,
                      NEW i \in DOMAIN report.dependencies, i < 1
               PROVE  FALSE
    BY DEF Checked
  <2> QED
    BY ReportsAssumption DEF ProvenanceInv, ReportTypeOK
<1>3. AcceptedIsAuthorized'
  BY DEF AcceptedIsAuthorized
<1> QED
  BY <1>1, <1>2, <1>3 DEF ProvenanceInv

(* A search begins for each dependency that the report may have.           *)
LEMMA SearchBegins ==
  ASSUME ProvenanceInv, CheckDependency
  PROVE  SearchInit' /\ at \in DOMAIN report.dependencies
<1>1. at \in DOMAIN report.dependencies /\ Dependency.id \in Decisive
  <2>1. MayDepend /\ at <= Len(report.dependencies) /\ at \in Nat \ {0}
    BY DEF CheckDependency, ProvenanceInv, ReportTypeOK
  <2>2. Dependency.id \in Decisive
    BY <2>1 DEF MayDepend
  <2> QED
    BY <2>1, <2>2, ReportsAssumption DEF ProvenanceInv, ReportTypeOK
<1> QED
  BY <1>1, BundlesAssumption
  DEF SearchInit, CheckDependency, ProvenanceInv, ReportTypeOK, Decisive

LEMMA CheckDependencyInv == ProvenanceInv /\ CheckDependency => ProvenanceInv'
<1> SUFFICES ASSUME ProvenanceInv, CheckDependency PROVE ProvenanceInv'
  OBVIOUS
<1>1. /\ phase = "dependencies" /\ phase' = "search"
      /\ bundle' = bundle /\ report' = report /\ at' = at
  BY DEF CheckDependency
<1>2. SearchInv'
  <2>1. (SearchInit => SearchInv)'
    BY SearchInitInv, PTL
  <2> QED
    BY <2>1, SearchBegins
<1>3. (target = Dependency.id)'
  BY <1>1 DEF CheckDependency, Dependency
<1>4. Checked(at)'
  BY <1>1, SameReport DEF ProvenanceInv
<1> QED
  BY <1>1, <1>2, <1>3, <1>4, SearchBegins
  DEF ProvenanceInv, ReportTypeOK, AcceptedIsAuthorized

LEMMA SearchStepInv == ProvenanceInv /\ Search => ProvenanceInv'
<1> SUFFICES ASSUME ProvenanceInv, Search PROVE ProvenanceInv'
  OBVIOUS
<1>1. /\ phase = "search" /\ phase' = "search" /\ SearchStep
      /\ report' = report /\ at' = at
  BY DEF Search
<1>2. bundle' = bundle /\ target' = target
  BY <1>1 DEF SearchStep, Recall, Refuse, ReachAnchor, Descend, TryParent,
              TryRecord, ReturnLeast, ReturnNothing
<1>3. SearchInv'
  BY <1>1, RecallInv, RefuseInv, ReachAnchorInv, DescendInv, TryParentInv,
     ReturnLeastInv, ReturnNothingInv
  DEF SearchStep, ProvenanceInv
<1>4. Checked(at)'
  BY <1>1, <1>2, SameReport DEF ProvenanceInv
<1>5. (target = Dependency.id)'
  BY <1>1, <1>2 DEF Dependency, ProvenanceInv
<1> QED
  BY <1>1, <1>2, <1>3, <1>4, <1>5
  DEF ProvenanceInv, ReportTypeOK, AcceptedIsAuthorized

LEMMA ComparePathInv == ProvenanceInv /\ ComparePath => ProvenanceInv'
<1> SUFFICES ASSUME ProvenanceInv, ComparePath PROVE ProvenanceInv'
  OBVIOUS
<1>1. /\ phase = "search" /\ Finished /\ at \in Nat \ {0}
      /\ bundle' = bundle /\ report' = report
      /\ SearchInv /\ target = Dependency.id /\ Checked(at)
  BY DEF ComparePath, ProvenanceInv, ReportTypeOK, searchVars
<1>2. CASE ~ (answer # None /\ Dependency.path = answer)
  <2>1. phase' = "rejected" /\ at' = at
    BY <1>2 DEF ComparePath, Reject, Continue
  <2> QED
    BY <1>1, <2>1, ContinueInv
<1>3. CASE answer # None /\ Dependency.path = answer
  <2>1. phase' = "dependencies" /\ at' = at + 1
    BY <1>3 DEF ComparePath, Continue
  <2>2. Authorized(Dependency.path, Dependency.id)
    BY <1>1, <1>3 DEF SearchInv, CallInv, Finished
  <2>3. Checked(at + 1)
    <3> SUFFICES ASSUME NEW i \in DOMAIN report.dependencies, i < at + 1
                 PROVE  Authorized(report.dependencies[i].path, report.dependencies[i].id)
      BY DEF Checked
    <3>1. CASE i = at
      BY <2>2, <3>1 DEF Dependency
    <3>2. CASE i # at
      <4>1. i < at
        <5>1. i \in Nat
          BY ReportsAssumption DEF ProvenanceInv, ReportTypeOK
        <5> QED
          BY <1>1, <3>2, <5>1
      <4> QED
        BY <1>1, <4>1 DEF Checked
    <3> QED
      BY <3>1, <3>2
  <2>4. Checked(at)'
    BY <1>1, <2>1, <2>3, SameBundle DEF Checked
  <2> QED
    BY <1>1, <2>1, <2>4 DEF ProvenanceInv, ReportTypeOK, AcceptedIsAuthorized
<1> QED
  BY <1>2, <1>3

(* All dependencies were looked at, and they are the required ones.        *)
LEMMA CloseInv == ProvenanceInv /\ Close => ProvenanceInv'
<1> SUFFICES ASSUME ProvenanceInv, Close PROVE ProvenanceInv'
  OBVIOUS
<1>1. /\ phase = "dependencies" /\ at > Len(report.dependencies)
      /\ bundle' = bundle /\ report' = report /\ at' = at
      /\ at \in Nat \ {0} /\ Checked(at) /\ ReportTypeOK
  BY DEF Close, ProvenanceInv, ReportTypeOK, searchVars, Continue, Reject
<1>2. CASE {Pair(i) : i \in DOMAIN report.dependencies} # Required
  <2>1. phase' = "rejected"
    BY <1>2 DEF Close, Reject, Continue
  <2> QED
    BY <1>1, <2>1, ContinueInv
<1>3. CASE {Pair(i) : i \in DOMAIN report.dependencies} = Required
  <2>1. phase' = "accepted"
    BY <1>3 DEF Close, Continue
  <2>2. \A i \in DOMAIN report.dependencies :
          Authorized(report.dependencies[i].path, report.dependencies[i].id)
    <3> SUFFICES ASSUME NEW i \in DOMAIN report.dependencies PROVE i < at
      BY <1>1 DEF Checked
    <3> QED
      BY <1>1, ReportsAssumption DEF ReportTypeOK
  <2>3. \A pair \in Required : \E i \in DOMAIN report.dependencies :
          Pair(i) = pair /\ Authorized(report.dependencies[i].path, pair[2])
    <3> SUFFICES ASSUME NEW i \in DOMAIN report.dependencies
                 PROVE  Authorized(report.dependencies[i].path, Pair(i)[2])
      BY <1>3
    <3> QED
      BY <2>2 DEF Pair
  <2>4. AcceptedIsAuthorized'
    BY <1>1, <2>3, SameReport, SameBundle DEF AcceptedIsAuthorized
  <2> QED
    BY <1>1, <2>1, <2>4 DEF ProvenanceInv, ReportTypeOK
<1> QED
  BY <1>2, <1>3

LEMMA EarlierInv ==
  /\ ProvenanceInv /\ CheckOutput => ProvenanceInv'
  /\ ProvenanceInv /\ CheckClassification => ProvenanceInv'
  /\ ProvenanceInv /\ CheckChain => ProvenanceInv'
  /\ ProvenanceInv /\ ChainsHold => ProvenanceInv'
  /\ ProvenanceInv /\ RefuseDependency => ProvenanceInv'
<1> USE DEF Continue, Reject, searchVars
<1>0. ASSUME ProvenanceInv, CheckOutput PROVE ProvenanceInv'
  BY <1>0, ContinueInv DEF CheckOutput, ProvenanceInv, ReportTypeOK
<1>1. ASSUME ProvenanceInv, CheckClassification PROVE ProvenanceInv'
  BY <1>1, ContinueInv DEF CheckClassification, ProvenanceInv, ReportTypeOK
<1>2. ASSUME ProvenanceInv, CheckChain PROVE ProvenanceInv'
  BY <1>2, ContinueInv DEF CheckChain, ProvenanceInv, ReportTypeOK
<1>3. ASSUME ProvenanceInv, ChainsHold PROVE ProvenanceInv'
  BY <1>3, ContinueInv DEF ChainsHold, ProvenanceInv, ReportTypeOK
<1>4. ASSUME ProvenanceInv, RefuseDependency PROVE ProvenanceInv'
  BY <1>4, ContinueInv DEF RefuseDependency, ProvenanceInv, ReportTypeOK
<1> QED
  BY <1>0, <1>1, <1>2, <1>3, <1>4

LEMMA ProvenanceStutterInv ==
  ProvenanceInv /\ UNCHANGED provenanceVars => ProvenanceInv'
<1> SUFFICES ASSUME ProvenanceInv, UNCHANGED provenanceVars PROVE ProvenanceInv'
  OBVIOUS
<1>1. SearchInv => SearchInv'
  BY SearchStutterInv DEF provenanceVars
<1>2. /\ bundle' = bundle /\ report' = report /\ at' = at /\ phase' = phase
      /\ target' = target
  BY DEF provenanceVars, searchVars
<1> QED
  BY <1>1, <1>2, SameReport DEF ProvenanceInv, ReportTypeOK, Dependency

THEOREM ProvenanceInvariant == ProvenanceSpec => []ProvenanceInv
<1>1. ProvenanceInv /\ [ProvenanceNext]_provenanceVars => ProvenanceInv'
  BY EarlierInv, CheckDependencyInv, SearchStepInv, ComparePathInv, CloseInv,
     ProvenanceStutterInv
  DEF ProvenanceNext
<1> QED
  BY <1>1, ProvenanceInitInv, PTL DEF ProvenanceSpec

(* Every report _validate_case_provenance accepts lists every decisive     *)
(* introduction, precedence edge, recovery, revocation and pinned head,    *)
(* each with a path that authorizes it.                                    *)
THEOREM AcceptedReports == ProvenanceSpec => []AcceptedIsAuthorized
<1>1. ProvenanceInv => AcceptedIsAuthorized
  BY DEF ProvenanceInv
<1> QED
  BY <1>1, ProvenanceInvariant, PTL

-----------------------------------------------------------------------------
(* What the earlier phases found is still so when the report is accepted.  *)

ChainsHoldUpTo(n) ==
  \A i \in DOMAIN report.chains : i < n => ChainHolds(report.chains[i])

ChecksInv ==
  /\ phase \notin {"output", "rejected"} => OutputConforms(report)
  /\ phase \notin {"output", "classification", "rejected"} => ClassificationCoheres
  /\ phase = "chains" => ChainsHoldUpTo(at)
  /\ phase \in {"dependencies", "search", "accepted"} =>
       \A i \in DOMAIN report.chains : ChainHolds(report.chains[i])

LEMMA SameChecks ==
  ASSUME bundle' = bundle, report' = report
  PROVE  /\ OutputConforms(report)' = OutputConforms(report)
         /\ ClassificationCoheres' = ClassificationCoheres
         /\ \A c : ChainHolds(c)' = ChainHolds(c)
         /\ \A n : ChainsHoldUpTo(n)' = ChainsHoldUpTo(n)
<1>1. OutputConforms(report)' = OutputConforms(report)
  BY DEF OutputConforms, StagesMatch, ReasonsMatch, RulesMatch, RuleOf
<1>2. ClassificationCoheres' = ClassificationCoheres
  BY DEF ClassificationCoheres, DecisiveClasses, Decisive, Classification
<1>3. \A c : ChainHolds(c)' = ChainHolds(c)
  BY DEF ChainHolds, IsKind, Continues, Records, Decisive, Classification
<1> QED
  BY <1>1, <1>2, <1>3 DEF ChainsHoldUpTo

LEMMA ChecksInitInv == ProvenanceInit => ChecksInv
  BY DEF ProvenanceInit, ChecksInv

LEMMA ChecksStepInv ==
  ReportTypeOK /\ ChecksInv /\ [ProvenanceNext]_provenanceVars => ChecksInv'
<1> SUFFICES ASSUME ReportTypeOK, ChecksInv, [ProvenanceNext]_provenanceVars
             PROVE  ChecksInv'
  OBVIOUS
<1> USE DEF Continue, Reject
<1>1. bundle' = bundle /\ report' = report
  BY DEF ProvenanceNext, CheckOutput, CheckClassification, CheckChain, ChainsHold,
         CheckDependency, RefuseDependency, Search, ComparePath, Close, SearchStep,
         Recall, Refuse, ReachAnchor, Descend, TryParent, TryRecord, ReturnLeast,
         ReturnNothing, searchVars, provenanceVars
<1>2. CASE CheckOutput
  BY <1>1, <1>2, SameChecks DEF CheckOutput, ChecksInv
<1>3. CASE CheckClassification
  <2>1. ChainsHoldUpTo(1)
    BY ReportsAssumption DEF ReportTypeOK, ChainsHoldUpTo
  <2> QED
    BY <1>1, <1>3, <2>1, SameChecks DEF CheckClassification, ChecksInv
<1>4. CASE CheckChain
  <2>1. CASE phase' = "rejected"
    BY <2>1 DEF ChecksInv
  <2>2. CASE phase' # "rejected"
    <3>1. phase' = "chains" /\ phase = "chains" /\ at' = at + 1
          /\ ChainHolds(report.chains[at]) /\ ChainsHoldUpTo(at)
      BY <1>4, <2>2 DEF CheckChain, ChecksInv
    <3>2. ChainsHoldUpTo(at + 1)
      <4> SUFFICES ASSUME NEW i \in DOMAIN report.chains, i < at + 1
                   PROVE  ChainHolds(report.chains[i])
        BY DEF ChainsHoldUpTo
      <4>1. i \in Nat /\ at \in Nat
        BY ReportsAssumption DEF ReportTypeOK
      <4>2. i = at \/ i < at
        BY <4>1
      <4> QED
        BY <3>1, <4>2 DEF ChainsHoldUpTo
    <3> QED
      BY <1>1, <3>1, <3>2, SameChecks DEF ChecksInv
  <2> QED
    BY <2>1, <2>2
<1>5. CASE ChainsHold
  <2>1. ChainsHoldUpTo(at) /\ at > Len(report.chains)
    BY <1>5 DEF ChainsHold, ChecksInv
  <2>2. \A i \in DOMAIN report.chains : i < at
    BY <2>1, ReportsAssumption DEF ReportTypeOK
  <2> QED
    BY <1>1, <1>5, <2>1, <2>2, SameChecks DEF ChainsHold, ChecksInv, ChainsHoldUpTo
<1>6. CASE CheckDependency \/ RefuseDependency \/ Search \/ ComparePath \/ Close
  BY <1>1, <1>6, SameChecks
  DEF CheckDependency, RefuseDependency, Search, ComparePath, Close, ChecksInv
<1>7. CASE UNCHANGED provenanceVars
  BY <1>1, <1>7, SameChecks DEF provenanceVars, ChecksInv
<1> QED
  BY <1>2, <1>3, <1>4, <1>5, <1>6, <1>7 DEF ProvenanceNext

THEOREM ChecksInvariant == ProvenanceSpec => [](ProvenanceInv /\ ChecksInv)
<1>1. ProvenanceInv => ReportTypeOK
  BY DEF ProvenanceInv
<1> QED
  BY <1>1, ProvenanceInvariant, ChecksInitInv, ChecksStepInv, PTL DEF ProvenanceSpec

(* The record before the claim introduces the claim's signer, and is       *)
(* itself decisive, so a dependency has a path to it; the claim, which     *)
(* introduces nobody, cannot be on that path.                              *)
LEMMA PathToClaim ==
  ASSUME ReportTypeOK, AcceptedIsAuthorized, phase = "accepted",
         NEW chain \in Range(report.chains), ChainHolds(chain),
         chain.records \in Seq(Ids), chain.records # <<>>
  PROVE  \E d \in DOMAIN report.dependencies :
           Authorized(Append(report.dependencies[d].path, chain.claim), chain.claim)
<1> DEFINE ids == chain.records
           end == Len(ids)
           claim == chain.claim
           last == ids[end - 1]
<1>1. end \in Nat /\ end >= 1 /\ DOMAIN ids = 1 .. end /\ \A i \in 1 .. end : ids[i] \in Ids
  OBVIOUS
<1>2. /\ ids[end] = claim /\ IsKind(ids[1], {"trust_anchor"}) /\ IsKind(claim, {"claim"})
      /\ \A i \in 2 .. end - 1 : Continues(ids[i - 1], ids[i])
      /\ Records[claim].signer = Records[last].introduces
      /\ \A i \in 1 .. end : ids[i] \in Decisive /\ Classification[ids[i]] = "VALID"
  BY DEF ChainHolds
<1> HIDE DEF end
<1>3. end >= 2
  <2> SUFFICES ASSUME end = 1 PROVE FALSE
    BY <1>1
  <2> QED
    BY <1>2 DEF IsKind
<1>4. /\ last \in Ids /\ last \in Decisive /\ Classification[last] = "VALID"
      /\ claim \in Ids /\ claim \in Decisive
  <2>1. end - 1 \in 1 .. end /\ end \in 1 .. end
    BY <1>1, <1>3
  <2> QED
    BY <1>1, <1>2, <2>1
<1>5. IsKind(last, {"trust_anchor", "delegation", "rotation", "recovery"})
  <2>1. CASE end = 2
    BY <1>2, <2>1 DEF IsKind
  <2>2. CASE end # 2
    <3>1. end - 1 \in 2 .. end - 1
      BY <1>1, <1>3, <2>2
    <3>2. Continues(ids[end - 1 - 1], last)
      BY <1>2, <3>1
    <3> QED
      BY <3>2 DEF Continues, IsKind
  <2> QED
    BY <2>1, <2>2
<1>6. Introduces(last, claim)
  <2>1. Records[last].kind # "claim" /\ Records[claim].kind = "claim"
        /\ Records[last].kind # "recovery_anchor"
    BY <1>2, <1>5 DEF IsKind
  <2> QED
    BY <1>2, <1>4, <2>1 DEF Introduces, IsAnchor
<1>7. <<"identity_introduction", last>> \in Required
  BY <1>4, <1>5 DEF Required, IsKind, Introductions
<1>8. PICK d \in DOMAIN report.dependencies : Authorized(report.dependencies[d].path, last)
  BY <1>7 DEF AcceptedIsAuthorized
<1> DEFINE path == report.dependencies[d].path
           long == Append(path, claim)
<1>9. /\ path \in Seq(Ids) /\ path # <<>> /\ path[Len(path)] = last /\ IsAnchor(path[1])
      /\ \A i \in 1 .. Len(path) - 1 : Introduces(path[i], path[i + 1])
      /\ \A i, j \in DOMAIN path : path[i] = path[j] => i = j
  BY <1>8 DEF Authorized
<1>10. \A i \in DOMAIN path : path[i] # claim
  <2> SUFFICES ASSUME NEW i \in DOMAIN path, path[i] = claim PROVE FALSE
    OBVIOUS
  <2>1. bundle \in Bundles /\ claim \in DOMAIN bundle.records
        /\ Records[claim].kind = "claim" /\ Records[claim].introduces = None
    BY <1>2, ClaimsAssumption DEF ReportTypeOK, IsKind, Records
  <2>2. i # Len(path)
    BY <1>5, <1>9, <2>1 DEF IsKind
  <2>3. i \in 1 .. Len(path) - 1 /\ i + 1 \in 1 .. Len(path)
    BY <1>9, <2>2
  <2>4. Introduces(claim, path[i + 1])
    BY <1>9, <2>3
  <2>5. path[i + 1] \in Decisive
    <3>1. CASE i + 1 = Len(path)
      BY <1>4, <1>9, <3>1
    <3>2. CASE i + 1 # Len(path)
      <4>1. i + 1 \in 1 .. Len(path) - 1
        BY <2>3, <3>2, <1>9
      <4> QED
        BY <1>9, <4>1 DEF Introduces
    <3> QED
      BY <3>1, <3>2
  <2>6. path[i + 1] \in DOMAIN bundle.records
    BY <2>1, <2>5, BundlesAssumption DEF Decisive
  <2>7. ~ IsAnchor(path[i + 1]) /\ Records[path[i + 1]].signer = None
    BY <2>1, <2>4 DEF Introduces
  <2> QED
    BY <2>1, <2>6, <2>7, ClaimsAssumption DEF IsAnchor, Records
<1>11. Authorized(long, claim)
  <2>1. /\ long \in Seq(Ids) /\ Len(long) = Len(path) + 1 /\ long # <<>>
        /\ long[Len(long)] = claim /\ DOMAIN long = 1 .. Len(path) + 1
        /\ \A i \in 1 .. Len(path) : long[i] = path[i]
    BY <1>4, <1>9
  <2>2. IsAnchor(long[1])
    BY <1>9, <2>1
  <2>3. ASSUME NEW i \in 1 .. Len(long) - 1 PROVE Introduces(long[i], long[i + 1])
    <3>1. CASE i = Len(path)
      BY <1>6, <1>9, <2>1, <3>1
    <3>2. CASE i # Len(path)
      <4>1. i \in 1 .. Len(path) - 1 /\ i \in 1 .. Len(path) /\ i + 1 \in 1 .. Len(path)
        BY <1>9, <2>1, <3>2
      <4> QED
        BY <1>9, <2>1, <4>1
    <3> QED
      BY <3>1, <3>2
  <2>4. ASSUME NEW i \in DOMAIN long, NEW j \in DOMAIN long, long[i] = long[j] PROVE i = j
    <3>1. i \in 1 .. Len(path) \/ i = Len(path) + 1
      BY <1>9, <2>1
    <3>2. j \in 1 .. Len(path) \/ j = Len(path) + 1
      BY <1>9, <2>1
    <3> QED
      BY <1>9, <1>10, <2>1, <2>4, <3>1, <3>2
  <2> QED
    BY <1>4, <2>1, <2>2, <2>3, <2>4 DEF Authorized
<1> QED
  BY <1>11

LEMMA ClaimsFollow == ProvenanceInv /\ ChecksInv => ClaimsAreAuthorized
<1> SUFFICES ASSUME ProvenanceInv, ChecksInv, phase = "accepted",
                    NEW i \in DOMAIN report.chains
             PROVE  \E d \in DOMAIN report.dependencies :
                      Authorized(Append(report.dependencies[d].path, report.chains[i].claim),
                                 report.chains[i].claim)
  BY DEF ClaimsAreAuthorized
<1>1. ReportTypeOK /\ AcceptedIsAuthorized /\ ChainHolds(report.chains[i])
  BY DEF ProvenanceInv, ChecksInv
<1>2. /\ report.chains[i].records \in Seq(Ids) /\ report.chains[i].records # <<>>
      /\ report.chains[i] \in Range(report.chains)
  BY <1>1, ReportsAssumption DEF ReportTypeOK, Range
<1> QED
  BY <1>1, <1>2, PathToClaim

(* The signer of every claim an accepted report relies on is authorized,   *)
(* although no single check of _validate_case_provenance asks for it.      *)
THEOREM AcceptedClaims == ProvenanceSpec => []ClaimsAreAuthorized
  BY ChecksInvariant, ClaimsFollow, PTL

LEMMA ReadyFollows == ProvenanceInv /\ ChecksInv => ReadyIsBacked
<1> SUFFICES ASSUME ProvenanceInv, ChecksInv,
                    phase = "accepted", report.disposition = "READY"
             PROVE  ReadyIsBacked
  BY DEF ReadyIsBacked
<1>1. OutputConforms(report) /\ ClassificationCoheres /\ ClaimsAreAuthorized
  BY ClaimsFollow DEF ChecksInv
<1>2. PICK v \in DOMAIN VRules :
        VRules[v].triplet = <<report.disposition, report.mechanism, report.authority>>
  BY ReportsAssumption DEF ProvenanceInv, ReportTypeOK
<1>3. report.mechanism = "CONFORMANT" /\ report.authority = "VALID"
  BY <1>2 DEF VRules, Row
<1>4. /\ report.chains # <<>> /\ report.unevaluated = <<>>
      /\ report.contracts /\ report.evidence
  BY <1>1, <1>3 DEF OutputConforms, StagesMatch
<1>5. DecisiveClasses \cap {"UNRESOLVED", "NONMATCHING"} = {}
  BY <1>1, <1>3 DEF ClassificationCoheres
<1>6. 1 \in DOMAIN report.chains
  BY <1>4, ReportsAssumption DEF ProvenanceInv, ReportTypeOK
<1> QED
  BY <1>1, <1>4, <1>5, <1>6 DEF ReadyIsBacked, ClaimsAreAuthorized

(* A READY is accepted only with a claim whose signer is authorized, with  *)
(* no decisive record unresolved or not matching, and no stage skipped.    *)
THEOREM AcceptedReady == ProvenanceSpec => []ReadyIsBacked
  BY ChecksInvariant, ReadyFollows, PTL

-----------------------------------------------------------------------------
(* Exactly the right reports are accepted, where introductions have no     *)
(* cycle.  While a dependency is searched for, nothing is missed and what  *)
(* is remembered is least; the dependencies before `at` are distinct and   *)
(* have the least paths.                                                   *)

DistinctUpTo(n) ==
  \A i, j \in DOMAIN report.dependencies : i < n /\ j < n /\ Pair(i) = Pair(j) => i = j

LeastPathAt(i) ==
  /\ report.dependencies[i].path \in PathsTo(report.dependencies[i].id)
  /\ IsLeast(report.dependencies[i].path, report.dependencies[i].id)

LeastUpTo(n) == \A i \in DOMAIN report.dependencies : i < n => LeastPathAt(i)

RightInv ==
  /\ phase = "search" => CompleteInv /\ LeastInv /\ MayDepend
  /\ phase \in {"dependencies", "search"} =>
       DistinctUpTo(at) /\ (Acyclic => LeastUpTo(at))
  /\ AcceptsTheRightReports

(* What makes a report right depends on it and the bundle alone.           *)
LEMMA SamePaths ==
  ASSUME bundle' = bundle
  PROVE  /\ PathsOfLength' = PathsOfLength /\ AllPaths' = AllPaths
         /\ \A id : PathsTo(id)' = PathsTo(id)
         /\ \A p, id : IsLeast(p, id)' = IsLeast(p, id)
         /\ Acyclic' = Acyclic
<1>1. PathsOfLength' = PathsOfLength
  BY DEF PathsOfLength, Decisive, IsAnchor, Introduces, Records, Classification
<1>2. AllPaths' = AllPaths
  BY <1>1 DEF AllPaths, Decisive
<1>3. \A id : PathsTo(id)' = PathsTo(id)
  BY <1>2 DEF PathsTo
<1>4. \A p, id : IsLeast(p, id)' = IsLeast(p, id)
  BY <1>3 DEF IsLeast
<1>5. Acyclic' = Acyclic
  BY <1>2, SameBundle DEF Acyclic
<1> QED
  BY <1>1, <1>2, <1>3, <1>4, <1>5

LEMMA SameRight ==
  ASSUME bundle' = bundle, report' = report
  PROVE  /\ RightReport' = RightReport
         /\ \A n : DistinctUpTo(n)' = DistinctUpTo(n)
         /\ \A i : LeastPathAt(i)' = LeastPathAt(i)
         /\ \A n : LeastUpTo(n)' = LeastUpTo(n)
<1>1. \A i : LeastPathAt(i)' = LeastPathAt(i)
  BY SamePaths DEF LeastPathAt
<1>2. RightReport' = RightReport
  BY SamePaths, SameReport, SameChecks DEF RightReport
<1> QED
  BY <1>1, <1>2, SameReport DEF DistinctUpTo, LeastUpTo

(* A report that is not right stays refused.                               *)
LEMMA RefusedInv ==
  ASSUME RightInv, bundle' = bundle, report' = report, phase' = "rejected",
         Acyclic => ~ RightReport
  PROVE  RightInv'
<1>1. Acyclic' = Acyclic /\ RightReport' = RightReport
  BY SamePaths, SameRight
<1> QED
  BY <1>1 DEF RightInv, AcceptsTheRightReports, Validated

(* A dependency the report may have, not listed before: a required one.    *)
LEMMA MayDependIfRight ==
  ASSUME ReportTypeOK, at \in DOMAIN report.dependencies, RightReport
  PROVE  MayDepend
<1>1. /\ Pair(at) \in Required
      /\ \A i \in DOMAIN report.dependencies : Pair(i) = Pair(at) => i = at
  BY DEF RightReport
<1>2. DOMAIN report.dependencies = 1 .. Len(report.dependencies)
      /\ Len(report.dependencies) \in Nat /\ at \in Nat
  BY ReportsAssumption DEF ReportTypeOK
<1>3. \A i \in 1 .. at - 1 : Pair(i) # Pair(at)
  <2> TAKE i \in 1 .. at - 1
  <2>1. i \in DOMAIN report.dependencies /\ i # at
    BY <1>2
  <2> QED
    BY <1>1, <2>1
<1> PICK type, id : type = Dependency.type /\ id = Dependency.id
  OBVIOUS
<1>4. Pair(at) = <<type, id>>
  BY DEF Pair, Dependency
<1>5. \/ type = "identity_introduction" /\ id \in Decisive /\ Records[id].kind \in Introductions
      \/ type \in SideDependencies /\ type = Records[id].kind /\ id \in Decisive
      \/ type = "lineage_head" /\ id \in Decisive /\ id \in report.heads
  BY <1>1, <1>4 DEF Required
<1> QED
  BY <1>3, <1>5 DEF MayDepend, SideDependencies

LEMMA CheckDependencyRight ==
  ProvenanceInv /\ RightInv /\ CheckDependency => RightInv'
<1> SUFFICES ASSUME ProvenanceInv, RightInv, CheckDependency PROVE RightInv'
  OBVIOUS
<1>1. /\ phase = "dependencies" /\ phase' = "search" /\ MayDepend
      /\ bundle' = bundle /\ report' = report /\ at' = at
  BY DEF CheckDependency
<1>2. CompleteInv' /\ LeastInv'
  <2>1. (SearchInit => CompleteInv /\ LeastInv)'
    BY CompleteInit, LeastInit, PTL
  <2> QED
    BY <2>1, SearchBegins
<1>3. MayDepend'
  BY <1>1, SameReport, SameBundle DEF MayDepend, Dependency
<1>4. DistinctUpTo(at)' /\ (Acyclic' => LeastUpTo(at)')
  BY <1>1, SamePaths, SameRight DEF RightInv
<1> QED
  BY <1>1, <1>2, <1>3, <1>4 DEF RightInv, AcceptsTheRightReports, Validated

LEMMA SearchRight == ProvenanceInv /\ RightInv /\ Search => RightInv'
<1> SUFFICES ASSUME ProvenanceInv, RightInv, Search PROVE RightInv'
  OBVIOUS
<1>1. /\ phase = "search" /\ phase' = "search" /\ SearchStep
      /\ report' = report /\ at' = at
  BY DEF Search
<1>2. bundle' = bundle
  BY <1>1 DEF SearchStep, Recall, Refuse, ReachAnchor, Descend, TryParent,
              TryRecord, ReturnLeast, ReturnNothing
<1>3. CompleteInv' /\ LeastInv'
  BY <1>1, CompleteNext, LeastNext DEF SearchNext, ProvenanceInv, RightInv
<1>4. MayDepend'
  BY <1>1, <1>2, SameReport, SameBundle DEF RightInv, MayDepend, Dependency
<1>5. DistinctUpTo(at)' /\ (Acyclic' => LeastUpTo(at)')
  BY <1>1, <1>2, SamePaths, SameRight DEF RightInv
<1> QED
  BY <1>1, <1>3, <1>4, <1>5 DEF RightInv, AcceptsTheRightReports, Validated

(* There is one least path to a record.                                    *)
LEMMA LeastIsUnique ==
  ASSUME bundle \in Bundles, NEW id, NEW p \in PathsTo(id), NEW q \in PathsTo(id),
         IsLeast(p, id), IsLeast(q, id)
  PROVE  p = q
<1>1. p \in Seq(Ids) /\ q \in Seq(Ids)
  BY AllPathsAreAuthorized DEF Authorized
<1>2. p \in Seq(Nat) /\ q \in Seq(Nat)
  BY <1>1, IdsAssumption, SeqMonotonic
<1>3. ~ Before(p, q) /\ ~ Before(q, p)
  BY DEF IsLeast
<1> QED
  BY <1>2, <1>3, BeforeIsTotal

LEMMA ComparePathRight == ProvenanceInv /\ RightInv /\ ComparePath => RightInv'
<1> SUFFICES ASSUME ProvenanceInv, RightInv, ComparePath PROVE RightInv'
  OBVIOUS
<1>1. /\ phase = "search" /\ Finished /\ at \in Nat \ {0} /\ bundle \in Bundles
      /\ bundle' = bundle /\ report' = report
      /\ SearchInv /\ CompleteInv /\ LeastInv /\ MayDepend
      /\ target = Dependency.id /\ at \in DOMAIN report.dependencies
  BY DEF ComparePath, ProvenanceInv, ReportTypeOK, RightInv, searchVars
<1>2. SearchIsComplete /\ LeastIfAcyclic
  BY <1>1, NothingIsMissed, NothingIsLess
<1>3. answer # None => answer \in PathsTo(target)
  BY <1>1, AllPathsAreAuthorized DEF SearchInv, CallInv, Finished
<1>4. CASE ~ (answer # None /\ Dependency.path = answer)
  <2>1. phase' = "rejected"
    BY <1>4 DEF ComparePath, Reject, Continue
  <2>2. ASSUME Acyclic, RightReport PROVE FALSE
    <3>1. Dependency.path \in PathsTo(target) /\ IsLeast(Dependency.path, target)
      BY <1>1, <2>2 DEF RightReport, Dependency
    <3>2. answer # None
      BY <1>1, <1>2, <3>1 DEF SearchIsComplete
    <3>3. IsLeast(answer, target)
      BY <1>1, <1>2, <2>2, <3>2 DEF LeastIfAcyclic
    <3> QED
      BY <1>1, <1>3, <1>4, <3>1, <3>2, <3>3, LeastIsUnique
  <2> QED
    BY <1>1, <2>1, <2>2, RefusedInv
<1>5. CASE answer # None /\ Dependency.path = answer
  <2>1. phase' = "dependencies" /\ at' = at + 1
    BY <1>5 DEF ComparePath, Continue
  <2>2. DOMAIN report.dependencies = 1 .. Len(report.dependencies)
        /\ Len(report.dependencies) \in Nat
    BY ReportsAssumption DEF ProvenanceInv, ReportTypeOK
  <2>3. DistinctUpTo(at + 1)
    <3> SUFFICES ASSUME NEW i \in DOMAIN report.dependencies,
                        NEW j \in DOMAIN report.dependencies,
                        i < at + 1, j < at + 1, Pair(i) = Pair(j)
                 PROVE  i = j
      BY DEF DistinctUpTo
    <3>1. \A k \in 1 .. at - 1 : Pair(k) # Pair(at)
      BY <1>1 DEF MayDepend
    <3>2. (i = at \/ i \in 1 .. at - 1) /\ (j = at \/ j \in 1 .. at - 1)
      BY <1>1, <2>2
    <3>3. CASE i \in 1 .. at - 1 /\ j \in 1 .. at - 1
      <4>1. i < at /\ j < at
        BY <1>1, <3>3
      <4> QED
        BY <1>1, <4>1 DEF RightInv, DistinctUpTo
    <3> QED
      BY <3>1, <3>2, <3>3
  <2>4. Acyclic => LeastUpTo(at + 1)
    <3> SUFFICES ASSUME Acyclic, NEW i \in DOMAIN report.dependencies, i < at + 1
                 PROVE  LeastPathAt(i)
      BY DEF LeastUpTo
    <3>1. CASE i = at
      BY <1>1, <1>2, <1>3, <1>5, <3>1 DEF LeastPathAt, LeastIfAcyclic, Dependency
    <3>2. CASE i # at
      <4>1. i < at
        BY <1>1, <2>2, <3>2
      <4> QED
        BY <1>1, <4>1 DEF RightInv, LeastUpTo
    <3> QED
      BY <3>1, <3>2
  <2>5. DistinctUpTo(at)' /\ (Acyclic' => LeastUpTo(at)')
    BY <1>1, <2>1, <2>3, <2>4, SamePaths, SameRight
  <2> QED
    BY <2>1, <2>5 DEF RightInv, AcceptsTheRightReports, Validated
<1> QED
  BY <1>4, <1>5

(* All dependencies were looked at.                                        *)
LEMMA CloseRight == ProvenanceInv /\ ChecksInv /\ RightInv /\ Close => RightInv'
<1> SUFFICES ASSUME ProvenanceInv, ChecksInv, RightInv, Close PROVE RightInv'
  OBVIOUS
<1>1. /\ phase = "dependencies" /\ at > Len(report.dependencies)
      /\ bundle' = bundle /\ report' = report /\ at \in Nat \ {0}
  BY DEF Close, ProvenanceInv, ReportTypeOK, searchVars
<1>2. CASE {Pair(i) : i \in DOMAIN report.dependencies} # Required
  <2>1. phase' = "rejected" /\ ~ RightReport
    BY <1>2 DEF Close, Reject, Continue, RightReport
  <2> QED
    BY <1>1, <2>1, RefusedInv
<1>3. CASE {Pair(i) : i \in DOMAIN report.dependencies} = Required
  <2>1. phase' = "accepted"
    BY <1>3 DEF Close, Continue
  <2>2. \A i \in DOMAIN report.dependencies : i < at
    BY <1>1, ReportsAssumption DEF ProvenanceInv, ReportTypeOK
  <2>3. Acyclic => RightReport
    BY <1>1, <1>3, <2>2
    DEF RightReport, ChecksInv, RightInv, DistinctUpTo, LeastUpTo, LeastPathAt
  <2>4. Acyclic' => RightReport'
    BY <1>1, <2>3, SamePaths, SameRight
  <2> QED
    BY <2>1, <2>4 DEF RightInv, AcceptsTheRightReports
<1> QED
  BY <1>2, <1>3

(* What the earlier checks refuse is not right.                            *)
LEMMA EarlierRight ==
  ASSUME ProvenanceInv, RightInv,
         CheckOutput \/ CheckClassification \/ CheckChain \/ ChainsHold \/ RefuseDependency
  PROVE  RightInv'
<1> USE DEF Continue, Reject
<1>1. bundle' = bundle /\ report' = report
  BY DEF CheckOutput, CheckClassification, CheckChain, ChainsHold, RefuseDependency,
         searchVars
<1>2. CASE phase' = "rejected"
  <2>1. CASE CheckOutput \/ CheckClassification
    BY <1>1, <1>2, <2>1, RefusedInv DEF CheckOutput, CheckClassification, RightReport
  <2>2. CASE CheckChain
    <3>1. ~ ChainHolds(report.chains[at]) /\ at \in DOMAIN report.chains
      BY <1>2, <2>2, ReportsAssumption DEF CheckChain, ProvenanceInv, ReportTypeOK
    <3> QED
      BY <1>1, <1>2, <3>1, RefusedInv DEF RightReport
  <2>3. CASE RefuseDependency
    <3>1. ~ MayDepend /\ at \in DOMAIN report.dependencies /\ ReportTypeOK
      BY <2>3, ReportsAssumption DEF RefuseDependency, ProvenanceInv, ReportTypeOK
    <3> QED
      BY <1>1, <1>2, <3>1, RefusedInv, MayDependIfRight
  <2> QED
    BY <1>2, <2>1, <2>2, <2>3 DEF ChainsHold
<1>3. CASE phase' \in {"classification", "chains"}
  BY <1>3 DEF RightInv, AcceptsTheRightReports, Validated
<1>4. CASE ChainsHold
  <2>1. phase' = "dependencies" /\ at' = 1
    BY <1>4 DEF ChainsHold
  <2>2. \A i \in DOMAIN report.dependencies : ~ (i < 1)
    BY ReportsAssumption DEF ProvenanceInv, ReportTypeOK
  <2>3. DistinctUpTo(1) /\ LeastUpTo(1)
    BY <2>2 DEF DistinctUpTo, LeastUpTo
  <2>4. DistinctUpTo(at)' /\ LeastUpTo(at)'
    BY <1>1, <2>1, <2>3, SameRight
  <2> QED
    BY <2>1, <2>4 DEF RightInv, AcceptsTheRightReports, Validated
<1> QED
  BY <1>2, <1>3, <1>4
  DEF CheckOutput, CheckClassification, CheckChain, RefuseDependency

LEMMA RightStutter == ProvenanceInv /\ RightInv /\ UNCHANGED provenanceVars => RightInv'
<1> SUFFICES ASSUME ProvenanceInv, RightInv, UNCHANGED provenanceVars PROVE RightInv'
  OBVIOUS
<1>1. /\ bundle' = bundle /\ report' = report /\ at' = at /\ phase' = phase
      /\ UNCHANGED searchVars
  BY DEF provenanceVars, searchVars
<1>2. phase = "search" => (CompleteInv /\ LeastInv /\ MayDepend)'
  <2>1. phase = "search" => CompleteInv' /\ LeastInv'
    BY <1>1, CompleteNext, LeastNext DEF RightInv, ProvenanceInv
  <2>2. MayDepend' = MayDepend
    BY <1>1, SameReport, SameBundle DEF MayDepend, Dependency
  <2> QED
    BY <2>1, <2>2 DEF RightInv
<1>3. DistinctUpTo(at)' = DistinctUpTo(at) /\ LeastUpTo(at)' = LeastUpTo(at)
  BY <1>1, SameRight
<1>4. Acyclic' = Acyclic /\ RightReport' = RightReport
  BY <1>1, SamePaths, SameRight
<1> QED
  BY <1>1, <1>2, <1>3, <1>4 DEF RightInv, AcceptsTheRightReports, Validated

(* Where introductions have no cycle, _validate_case_provenance accepts    *)
(* exactly the reports that conform, hold their chains and list each       *)
(* required dependency once with the least path to it: no right report is  *)
(* refused because its paths were found in another order.                  *)
THEOREM RightReportsPass == ProvenanceSpec => []AcceptsTheRightReports
<1>1. ProvenanceInit => RightInv
  BY DEF ProvenanceInit, RightInv, AcceptsTheRightReports, Validated
<1>2. ProvenanceInv /\ ChecksInv /\ RightInv /\ [ProvenanceNext]_provenanceVars => RightInv'
  BY CheckDependencyRight, SearchRight, ComparePathRight, CloseRight, EarlierRight,
     RightStutter
  DEF ProvenanceNext
<1>3. RightInv => AcceptsTheRightReports
  BY DEF RightInv
<1> QED
  BY <1>1, <1>2, <1>3, ChecksInvariant, PTL DEF ProvenanceSpec

-----------------------------------------------------------------------------
(* Every step of a validation leaves less to do.                           *)

(* Between two searches no call is active, and the loops stay in bounds.   *)
PendingInv ==
  /\ phase \in {"output", "classification", "chains", "dependencies", "search",
                "accepted", "rejected"}
  /\ phase = "search" => PlacesInv
  /\ phase # "search" => goal = None /\ stack = <<>>
  /\ phase = "chains" => at <= Len(report.chains) + 1
  /\ phase \in {"dependencies", "search"} => at <= Len(report.dependencies) + 1

LEMMA ReportLengths ==
  ASSUME ReportTypeOK
  PROVE  /\ Len(report.chains) \in Nat /\ Len(report.dependencies) \in Nat /\ at \in Nat \ {0}
         /\ DOMAIN report.dependencies = 1 .. Len(report.dependencies)
BY ReportsAssumption DEF ReportTypeOK

(* What is left to check, phase by phase.                                  *)
ChecksByPhase ==
  \A chains \in Nat, dependencies \in Nat :
    chains = Len(report.chains) /\ dependencies = Len(report.dependencies) =>
      /\ phase = "output" => ChecksLeft = chains + 2 * dependencies + 5
      /\ phase = "classification" => ChecksLeft = chains + 2 * dependencies + 4
      /\ phase = "chains" => ChecksLeft = chains + 2 * dependencies + 4 - at
      /\ phase = "dependencies" => ChecksLeft = 2 * (dependencies + 1 - at) + 1
      /\ phase = "search" => ChecksLeft = 2 * (dependencies + 1 - at)
      /\ phase \in {"accepted", "rejected"} => ChecksLeft = 0

LEMMA ChecksAtPhase == ChecksByPhase
<1> SUFFICES ASSUME NEW chains \in Nat, NEW dependencies \in Nat,
                    chains = Len(report.chains), dependencies = Len(report.dependencies)
             PROVE
      /\ phase = "output" => ChecksLeft = chains + 2 * dependencies + 5
      /\ phase = "classification" => ChecksLeft = chains + 2 * dependencies + 4
      /\ phase = "chains" => ChecksLeft = chains + 2 * dependencies + 4 - at
      /\ phase = "dependencies" => ChecksLeft = 2 * (dependencies + 1 - at) + 1
      /\ phase = "search" => ChecksLeft = 2 * (dependencies + 1 - at)
      /\ phase \in {"accepted", "rejected"} => ChecksLeft = 0
  BY DEF ChecksByPhase
<1>1. CASE phase = "output"
  BY <1>1 DEF ChecksLeft
<1>2. CASE phase = "classification"
  BY <1>2 DEF ChecksLeft
<1>3. CASE phase = "chains"
  BY <1>3 DEF ChecksLeft
<1>4. CASE phase = "dependencies"
  BY <1>4 DEF ChecksLeft
<1>5. CASE phase = "search"
  BY <1>5 DEF ChecksLeft
<1>6. CASE phase \in {"accepted", "rejected"}
  BY <1>6 DEF ChecksLeft
<1> QED
  BY <1>1, <1>2, <1>3, <1>4, <1>5, <1>6

LEMMA PendingSearch ==
  ASSUME ProvenanceInv, ProvenanceInv', PendingInv, Search
  PROVE  PendingInv' /\ Lower(CallsLeft', CallsLeft)
<1>1. phase = "search" /\ phase' = "search" /\ SearchStep /\ UNCHANGED <<report, at>>
  BY DEF Search
<1>2. SearchInv /\ SearchInv' /\ PlacesInv
  BY <1>1 DEF ProvenanceInv, PendingInv
<1>3. PlacesInv' /\ Lower(CallsLeft', CallsLeft)
  BY <1>1, <1>2, SearchStepAdvances
<1> QED
  BY <1>1, <1>3 DEF PendingInv

(* The steps in which the search is not under way.                         *)
LEMMA PendingCheck ==
  ASSUME ProvenanceInv, PendingInv,
         \/ CheckOutput \/ CheckClassification \/ CheckChain \/ ChainsHold
         \/ CheckDependency \/ RefuseDependency \/ ComparePath \/ Close
  PROVE  PendingInv' /\ ChecksLeft' < ChecksLeft
<1> USE DEF Continue, Reject
<1>1. /\ Len(report.chains) \in Nat /\ Len(report.dependencies) \in Nat /\ at \in Nat \ {0}
      /\ DOMAIN report.dependencies = 1 .. Len(report.dependencies)
  BY ReportLengths DEF ProvenanceInv
<1>a. ChecksByPhase /\ ChecksByPhase'
  BY ChecksAtPhase, PTL
<1>b. PICK c \in Nat, d \in Nat : c = Len(report.chains) /\ d = Len(report.dependencies)
  BY <1>1
<1>2. CASE CheckOutput \/ CheckClassification
  <2>1. UNCHANGED <<goal, stack, report>>
    BY <1>2 DEF CheckOutput, CheckClassification, searchVars
  <2>2. PendingInv'
    BY <1>1, <1>2, <2>1 DEF CheckOutput, CheckClassification, PendingInv
  <2>3. ChecksLeft' < ChecksLeft
    <3>1. CASE CheckOutput
      <4>1. ChecksLeft = c + 2 * d + 5
        BY <1>a, <1>b, <3>1 DEF CheckOutput, ChecksByPhase
      <4>2. \/ ChecksLeft' = c + 2 * d + 4
            \/ ChecksLeft' = 0
        BY <1>a, <1>b, <2>1, <3>1 DEF CheckOutput, ChecksByPhase
      <4> QED
        BY <1>1, <4>1, <4>2
    <3>2. CASE CheckClassification
      <4>1. ChecksLeft = c + 2 * d + 4
        BY <1>a, <1>b, <3>2 DEF CheckClassification, ChecksByPhase
      <4>2. \/ ChecksLeft' = c + 2 * d + 4 - 1
            \/ ChecksLeft' = 0
        <5>1. (phase' = "chains" /\ at' = 1) \/ phase' = "rejected"
          BY <3>2 DEF CheckClassification
        <5>2. phase' = "chains" => ChecksLeft' = c + 2 * d + 4 - at'
          BY <1>a, <1>b, <2>1 DEF ChecksByPhase
        <5>3. phase' = "rejected" => ChecksLeft' = 0
          BY <1>a, <1>b, <2>1 DEF ChecksByPhase
        <5> QED
          BY <5>1, <5>2, <5>3
      <4> QED
        BY <1>1, <4>1, <4>2
    <3> QED
      BY <1>2, <3>1, <3>2
  <2> QED
    BY <2>2, <2>3
<1>3. CASE CheckChain \/ ChainsHold
  <2>1. UNCHANGED <<goal, stack, report>> /\ phase = "chains"
    BY <1>3 DEF CheckChain, ChainsHold, searchVars
  <2>2. PendingInv'
    BY <1>1, <1>3, <2>1 DEF CheckChain, ChainsHold, PendingInv
  <2>3. ChecksLeft' < ChecksLeft
    <3>1. ChecksLeft = c + 2 * d + 4 - at
      BY <1>a, <1>b, <2>1 DEF ChecksByPhase
    <3>2. CASE CheckChain
      <4>1. \/ ChecksLeft' = c + 2 * d + 4 - (at + 1)
            \/ ChecksLeft' = 0
        <5>1. (phase' = "chains" /\ at' = at + 1) \/ phase' = "rejected"
          BY <2>1, <3>2 DEF CheckChain
        <5>2. phase' = "chains" => ChecksLeft' = c + 2 * d + 4 - at'
          BY <1>a, <1>b, <2>1 DEF ChecksByPhase
        <5>3. phase' = "rejected" => ChecksLeft' = 0
          BY <1>a, <1>b, <2>1 DEF ChecksByPhase
        <5> QED
          BY <5>1, <5>2, <5>3
      <4>2. at <= c
        BY <1>b, <3>2 DEF CheckChain
      <4> QED
        BY <1>1, <3>1, <4>1, <4>2
    <3>3. CASE ChainsHold
      <4>1. ChecksLeft' = 2 * (d + 1 - 1) + 1
        BY <1>a, <1>b, <2>1, <3>3 DEF ChainsHold, ChecksByPhase
      <4>2. at <= c + 1
        BY <1>b, <2>1 DEF PendingInv
      <4> QED
        BY <1>1, <3>1, <4>1, <4>2
    <3> QED
      BY <1>3, <3>2, <3>3
  <2> QED
    BY <2>2, <2>3
<1>4. CASE CheckDependency
  <2>1. UNCHANGED <<report, at>> /\ phase = "dependencies" /\ phase' = "search" /\ stack' = <<>>
    BY <1>4 DEF CheckDependency
  <2>2. PlacesInv'
    BY <2>1 DEF PlacesInv
  <2>3. PendingInv'
    BY <2>1, <2>2 DEF PendingInv
  <2>4. ChecksLeft' < ChecksLeft
    BY <1>1, <1>a, <1>b, <2>1 DEF PendingInv, ChecksByPhase
  <2> QED
    BY <2>3, <2>4
<1>5. CASE RefuseDependency \/ Close
  <2>1. UNCHANGED <<goal, stack, report, at>> /\ phase = "dependencies"
        /\ phase' \in {"accepted", "rejected"}
    BY <1>5 DEF RefuseDependency, Close, searchVars
  <2>2. PendingInv'
    BY <2>1 DEF PendingInv
  <2>3. ChecksLeft' < ChecksLeft
    BY <1>1, <1>a, <1>b, <2>1 DEF PendingInv, ChecksByPhase
  <2> QED
    BY <2>2, <2>3
<1>6. CASE ComparePath
  <2>1. /\ UNCHANGED <<goal, stack, report>> /\ phase = "search"
        /\ goal = None /\ stack = <<>> /\ at \in DOMAIN report.dependencies
        /\ \/ phase' = "rejected" /\ at' = at
           \/ phase' = "dependencies" /\ at' = at + 1
    BY <1>6 DEF ComparePath, Finished, searchVars, ProvenanceInv
  <2>2. PendingInv'
    BY <1>1, <2>1 DEF PendingInv
  <2>3. ChecksLeft' < ChecksLeft
    BY <1>1, <1>a, <1>b, <2>1 DEF PendingInv, ChecksByPhase
  <2> QED
    BY <2>2, <2>3
<1> QED
  BY <1>2, <1>3, <1>4, <1>5, <1>6

LEMMA PendingStep ==
  ProvenanceInv /\ ProvenanceInv' /\ PendingInv /\ [ProvenanceNext]_provenanceVars
    => /\ PendingInv'
       /\ [\/ ChecksLeft' < ChecksLeft
           \/ ChecksLeft' = ChecksLeft /\ Lower(CallsLeft', CallsLeft)]_provenanceVars
<1> SUFFICES ASSUME ProvenanceInv, ProvenanceInv', PendingInv, [ProvenanceNext]_provenanceVars
             PROVE  /\ PendingInv'
                    /\ [\/ ChecksLeft' < ChecksLeft
                        \/ /\ ChecksLeft' = ChecksLeft
                           /\ Lower(CallsLeft', CallsLeft)]_provenanceVars
  OBVIOUS
<1>1. CASE UNCHANGED provenanceVars
  BY <1>1 DEF PendingInv, PlacesInv, provenanceVars, searchVars
<1>2. CASE Search
  <2>1. ChecksLeft' = ChecksLeft
    BY <1>2 DEF Search, ChecksLeft
  <2> QED
    BY <1>2, <2>1, PendingSearch
<1> QED
  BY <1>1, <1>2, PendingCheck DEF ProvenanceNext

LEMMA LeftAreNat ==
  ProvenanceInv /\ PendingInv =>
    ChecksLeft \in Nat /\ CallsLeft \in [1 .. Len(bundle.order) + 1 -> Nat]
<1> SUFFICES ASSUME ProvenanceInv, PendingInv
             PROVE  ChecksLeft \in Nat /\ CallsLeft \in [1 .. Len(bundle.order) + 1 -> Nat]
  OBVIOUS
<1>1. Len(report.chains) \in Nat /\ Len(report.dependencies) \in Nat /\ at \in Nat \ {0}
  BY ReportLengths DEF ProvenanceInv
<1>2. ChecksLeft \in Nat
  <2>1. ChecksByPhase
    BY ChecksAtPhase
  <2>a. PICK c \in Nat, d \in Nat : c = Len(report.chains) /\ d = Len(report.dependencies)
    BY <1>1
  <2>2. CASE phase \in {"output", "classification", "accepted", "rejected"}
    BY <2>1, <2>a, <2>2 DEF ChecksByPhase
  <2>3. CASE phase = "chains"
    <3>1. at <= c + 1
      BY <2>a, <2>3 DEF PendingInv
    <3>2. ChecksLeft = c + 2 * d + 4 - at
      BY <2>1, <2>a, <2>3 DEF ChecksByPhase
    <3> QED
      BY <1>1, <3>1, <3>2
  <2>4. CASE phase \in {"dependencies", "search"}
    <3>1. at <= d + 1
      BY <2>a, <2>4 DEF PendingInv
    <3>2. \/ ChecksLeft = 2 * (d + 1 - at) + 1
          \/ ChecksLeft = 2 * (d + 1 - at)
      BY <2>1, <2>a, <2>4 DEF ChecksByPhase
    <3> QED
      BY <1>1, <3>1, <3>2
  <2> QED
    BY <2>2, <2>3, <2>4 DEF PendingInv
<1>3. CASE phase = "search"
  BY <1>2, <1>3, CallsLeftAreNat DEF ProvenanceInv, PendingInv, SearchInv
<1>4. CASE phase # "search"
  <2>1. Len(stack) = 0 /\ goal = None /\ Len(bundle.order) \in Nat
    BY <1>4, BundlesAssumption DEF PendingInv, ProvenanceInv, ReportTypeOK
  <2>2. CallsLeft = [i \in 1 .. Len(bundle.order) + 1 |-> 0]
    BY <2>1 DEF CallsLeft
  <2> QED
    BY <1>2, <2>2
<1> QED
  BY <1>3, <1>4

(* Every step of _validate_case_provenance and of the searches it makes    *)
(* lowers a rank, for all bundles, cyclic ones included, and all reports.  *)
THEOREM ValidationProgresses ==
  ProvenanceSpec =>
    /\ ValidationAdvances
    /\ [](ChecksLeft \in Nat /\ CallsLeft \in [1 .. Len(bundle.order) + 1 -> Nat])
<1>1. ProvenanceInit => PendingInv
  BY ReportLengths, ProvenanceInitInv DEF ProvenanceInit, PendingInv, ProvenanceInv
<1>2. ProvenanceInv /\ ProvenanceInv' /\ PendingInv /\ [ProvenanceNext]_provenanceVars
        => /\ PendingInv'
           /\ [\/ ChecksLeft' < ChecksLeft
               \/ ChecksLeft' = ChecksLeft /\ Lower(CallsLeft', CallsLeft)]_provenanceVars
  BY PendingStep
<1> QED
  BY <1>1, <1>2, LeftAreNat, ProvenanceInvariant, PTL
  DEF ProvenanceSpec, ValidationAdvances

-----------------------------------------------------------------------------
(* The searches of a validation keep what a search by itself keeps.        *)

(* No search was made yet, or the last one is under way or has ended.      *)
EmbeddedInv ==
  \/ /\ bundle \in Bundles /\ target = None /\ goal = None /\ answer = None
     /\ stack = <<>> /\ phase # "search"
  \/ SearchInv /\ CompleteInv /\ LeastInv

LEMMA EmbeddedNext ==
  ProvenanceInv /\ EmbeddedInv /\ [ProvenanceNext]_provenanceVars => EmbeddedInv'
<1> SUFFICES ASSUME ProvenanceInv, EmbeddedInv, [ProvenanceNext]_provenanceVars
             PROVE  EmbeddedInv'
  OBVIOUS
<1>1. CASE CheckDependency
  <2>1. (SearchInit => SearchInv)' /\ (SearchInit => CompleteInv)' /\ (SearchInit => LeastInv)'
    BY SearchInitInv, CompleteInit, LeastInit, PTL
  <2> QED
    BY <1>1, <2>1, SearchBegins DEF EmbeddedInv
<1>2. ASSUME SearchInv, CompleteInv, LeastInv, [SearchNext]_searchVars
      PROVE  EmbeddedInv'
  <2>1. SearchInv'
    BY <1>2, RecallInv, RefuseInv, ReachAnchorInv, DescendInv, TryParentInv,
       ReturnLeastInv, ReturnNothingInv, SearchStutterInv
    DEF SearchNext, SearchStep
  <2> QED
    BY <1>2, <2>1, CompleteNext, LeastNext DEF EmbeddedInv
<1>3. CASE Search
  <2>1. phase = "search" /\ SearchStep
    BY <1>3 DEF Search
  <2> QED
    BY <1>2, <2>1 DEF SearchNext, EmbeddedInv
<1>4. CASE UNCHANGED searchVars /\ (phase # "search" => phase' # "search")
  BY <1>2, <1>4 DEF EmbeddedInv, searchVars
<1> QED
  BY <1>1, <1>3, <1>4
  DEF ProvenanceNext, CheckOutput, CheckClassification, CheckChain, ChainsHold,
      RefuseDependency, ComparePath, Close, Continue, Reject, provenanceVars

(* Nothing is said of a search before there was one: no path leads to None.*)
LEMMA EmbeddedSearches ==
  EmbeddedInv => PathIsAuthorized /\ SearchIsComplete /\ LeastIfAcyclic
<1>1. SearchInv /\ CompleteInv /\ LeastInv
        => PathIsAuthorized /\ SearchIsComplete /\ LeastIfAcyclic
  BY NothingIsMissed, NothingIsLess
  DEF SearchInv, CallInv, PathIsAuthorized, Finished
<1>2. ASSUME bundle \in Bundles, target = None, answer = None
      PROVE  PathIsAuthorized /\ SearchIsComplete /\ LeastIfAcyclic
  <2>1. Decisive \subseteq Ids
    BY <1>2, BundlesAssumption DEF Decisive
  <2>2. \A path : ~ Authorized(path, None)
    BY <2>1, IdsAssumption DEF Authorized
  <2>3. PathsTo(target) = {}
    BY <1>2, <2>2, AllPathsAreAuthorized
  <2> QED
    BY <1>2, <2>3 DEF PathIsAuthorized, SearchIsComplete, LeastIfAcyclic
<1> QED
  BY <1>1, <1>2 DEF EmbeddedInv

LEMMA EmbeddedInvariant == ProvenanceSpec => []EmbeddedInv
<1>1. ProvenanceInit => EmbeddedInv
  BY DEF ProvenanceInit, EmbeddedInv
<1> QED
  BY <1>1, EmbeddedNext, ProvenanceInvariant, PTL DEF ProvenanceSpec

(* Of every search that _validate_case_provenance makes, one after the     *)
(* other with a memory of its own each, the path authorizes its record, no *)
(* path exists when none is returned, and without cycles it is the least.  *)
THEOREM ValidationSearches ==
  ProvenanceSpec => [](PathIsAuthorized /\ SearchIsComplete /\ LeastIfAcyclic)
  BY EmbeddedSearches, EmbeddedInvariant, PTL
============================================================================
