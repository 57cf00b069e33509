--------------------------- MODULE EvidenceProofs ---------------------------
(***************************************************************************)
(* Proofs about what ContextEvaluator reports: each verdict is about       *)
(* content the source really had, the evaluation implements the abstract   *)
(* GovernedDecision, on files that hold still it returns exactly the       *)
(* verdict on their tree, and an exception leaves it for known reasons.    *)
(***************************************************************************)
EXTENDS ContextEvaluatorProofs, WellFoundedInduction

-----------------------------------------------------------------------------
(* The records.                                                            *)

RecordFits(record, rule) ==
  /\ record.id = <<"evidence", Suffix(rule.id)>>
  /\ record.state = "satisfied" =>
       rule.source \in EvidencePaths /\ record.digests # {}
  /\ rule.source \in EvidencePaths => Supported(record, rule)

(* A digest is held from one read of the source to the next.               *)
EvidenceInv ==
  /\ \A i \in DOMAIN evidence : RecordFits(evidence[i], Rules[i])
  /\ pc = "evidence_content" => digests # {} /\ digests \subseteq seen[Rule.source]

(* What a path has held only grows, and nothing takes a record back.       *)
LEMMA FitsForGood ==
  ASSUME NEW record, NEW rule, RecordFits(record, rule),
         \A f \in Files : seen[f] \subseteq seen'[f]
  PROVE  RecordFits(record, rule)'
<1> SUFFICES ASSUME rule.source \in EvidencePaths
             PROVE  Supported(record, rule)'
  BY DEF RecordFits
<1>1. seen[rule.source] \subseteq seen'[rule.source]
  BY DEF Files
<1> QED BY <1>1 DEF RecordFits, Supported

(* A record that fits its rule keeps the list of records fitting.          *)
LEMMA RecordFitsNext ==
  ASSUME Inv, EvidenceInv, Still, pc \in Judging \ {"decide"},
         NEW state, NEW sources, NEW digested, NEW content,
         Record(state, sources, digested, content), UNCHANGED documents,
         RecordFits([requirement |-> Rule.id, id |-> <<"evidence", Suffix(Rule.id)>>,
                     state |-> state, sources |-> sources, digests |-> digested,
                     content |-> content], Rule)
  PROVE  EvidenceInv'
<1> PICK rec : rec = [requirement |-> Rule.id,
                      id |-> <<"evidence", Suffix(Rule.id)>>,
                      state |-> state, sources |-> sources,
                      digests |-> digested, content |-> content]
  OBVIOUS
<1> PICK rule : rule = Rule
  OBVIOUS
<1>1. /\ at \in 1 .. Len(Rules) /\ Len(evidence) = at - 1 /\ rule = Rules[at]
      /\ Len(Rules) \in Nat
  BY JudgingFacts DEF Rule
<1>2. evidence' = Append(evidence, rec) /\ pc' # "evidence_content"
  BY DEF Record
<1>3. /\ DOMAIN evidence' = 1 .. at /\ DOMAIN evidence = 1 .. at - 1
      /\ \A i \in 1 .. at : evidence'[i] = IF i = at THEN rec ELSE evidence[i]
  <2> DEFINE S == EvidenceRecords \cup {rec}
  <2>1. evidence \in Seq(S) /\ rec \in S
    <3>1. evidence \in Seq(EvidenceRecords)
      BY DEF Inv, TypeOK
    <3>2. \A i \in 1 .. Len(evidence) : evidence[i] \in S
      BY <3>1
    <3> QED BY <3>1, <3>2
  <2> HIDE DEF S
  <2>2. /\ Append(evidence, rec) \in Seq(S)
        /\ Len(Append(evidence, rec)) = Len(evidence) + 1
        /\ \A i \in 1 .. Len(evidence) : Append(evidence, rec)[i] = evidence[i]
        /\ Append(evidence, rec)[Len(evidence) + 1] = rec
    BY <2>1, AppendProperties
  <2>3. Len(evidence) = at - 1 /\ at \in Nat \ {0}
    BY <1>1
  <2> QED BY <1>2, <2>1, <2>2, <2>3
<1>4. Rules' = Rules
  BY DEF Rules, Document
<1>5. \A f \in Files : seen[f] \subseteq seen'[f]
  BY DEF Still
<1>6. RecordFits(rec, rule)'
  BY <1>5, FitsForGood
<1>7. \A i \in 1 .. at - 1 : RecordFits(evidence[i], Rules[i])
  BY <1>3 DEF EvidenceInv
<1>8. ASSUME NEW i \in DOMAIN evidence'
      PROVE  RecordFits(evidence[i], Rules[i])'
  <2>1. CASE i = at
    BY <1>1, <1>3, <1>4, <1>6, <2>1 DEF RecordFits, Supported
  <2>2. CASE i # at
    <3> PICK old, law : old = evidence[i] /\ law = Rules[i]
      OBVIOUS
    <3>1. RecordFits(old, law)'
      BY <1>1, <1>3, <1>5, <1>7, <2>2, FitsForGood
    <3>2. evidence'[i] = old /\ Rules'[i] = law
      BY <1>1, <1>3, <1>4, <2>2
    <3> QED BY <3>1, <3>2 DEF RecordFits, Supported
  <2> QED BY <2>1, <2>2
<1> QED BY <1>2, <1>8 DEF EvidenceInv

(* A step that records nothing.                                            *)
LEMMA EvidenceUnchanged ==
  ASSUME EvidenceInv, UNCHANGED <<documents, evidence>>,
         \A f \in Files : seen[f] \subseteq seen'[f],
         pc' = "evidence_content" => digests' # {} /\ digests' \subseteq seen'[Rule'.source]
  PROVE  EvidenceInv'
<1>1. Rules' = Rules
  BY DEF Rules, Document
<1>2. ASSUME NEW i \in DOMAIN evidence
      PROVE  RecordFits(evidence[i], Rules[i])'
  <2> PICK record, rule : record = evidence[i] /\ rule = Rules[i]
    OBVIOUS
  <2>1. RecordFits(record, rule)'
    BY FitsForGood DEF EvidenceInv
  <2> QED BY <1>1, <2>1 DEF RecordFits, Supported
<1> QED BY <1>2 DEF EvidenceInv

LEMMA EvidenceStep ==
  ASSUME Inv, Safe, EvidenceInv, Still,
         FindEvidence \/ CheckEvidenceKind \/ DigestEvidence \/ ReadEvidence
  PROVE  EvidenceInv'
<1>1. /\ pc \in Judging \ {"decide"} /\ UNCHANGED documents
      /\ pc # "evidence_path" => SafeSource
  BY DEF FindEvidence, CheckEvidenceKind, DigestEvidence, ReadEvidence, Raise,
         Judging, Safe
<1>2. SafeSource => disk[Rule.source] \in seen[Rule.source]
  BY DEF Inv, Contained, SafeSource, Files
<1>3. Rule' = Rule \/ at' # at
  BY <1>1 DEF Rule, Rules, Document
<1>4. \A f \in Files : seen[f] \subseteq seen'[f]
  BY DEF Still
<1>5. CASE ~ SafeSource /\ Record("indeterminate", {}, {}, None)
  <2>1. \A record : record.id = <<"evidence", Suffix(Rule.id)>>
                      /\ record.state = "indeterminate" => RecordFits(record, Rule)
    BY <1>5 DEF RecordFits, SafeSource
  <2> QED BY <1>1, <1>5, <2>1, RecordFitsNext
<1>6. CASE SafeSource /\ disk[Rule.source] = Absent
             /\ Record("missing", {Rule.source}, {}, None)
  <2>1. \A record : record.id = <<"evidence", Suffix(Rule.id)>>
                      /\ record.state = "missing" /\ record.digests = {}
                        => RecordFits(record, Rule)
    BY <1>2, <1>6 DEF RecordFits, SafeSource, Supported
  <2> QED BY <1>1, <1>6, <2>1, RecordFitsNext
<1>7. CASE Examinable(Rule.source) /\ ~ IsFile(Rule.source) /\ SafeSource
             /\ Record("blocked", {Rule.source}, {}, None)
  <2>1. \A record : record.id = <<"evidence", Suffix(Rule.id)>>
                      /\ record.state = "blocked" /\ record.digests = {}
                        => RecordFits(record, Rule)
    <3>1. disk[Rule.source] \in {Absent, Directory}
      BY <1>7
      DEF Examinable, IsFile, Inv, TypeOK, Entries, Denied, SafeSource, Files
    <3> QED BY <1>2, <1>7, <3>1 DEF RecordFits, SafeSource, Supported
  <2> QED BY <1>1, <1>7, <2>1, RecordFitsNext
<1>8. CASE SafeSource /\ Unevaluated({})
  <2>1. \A record : record.id = <<"evidence", Suffix(Rule.id)>>
                      /\ record.state = "indeterminate" /\ record.digests = {}
                        => RecordFits(record, Rule)
    BY <1>8 DEF RecordFits, SafeSource, Supported
  <2> QED BY <1>1, <1>8, <2>1, RecordFitsNext DEF Unevaluated
<1>9. CASE /\ SafeSource /\ Readable(Rule.source) /\ Rule.check = "path_exists"
           /\ Record("satisfied", {Rule.source}, {FileDigest(disk[Rule.source])},
                     disk[Rule.source])
  <2>1. CheckContent(Rule, disk[Rule.source]) = "satisfied"
    BY <1>9 DEF CheckContent
  <2>2. \A record : record.id = <<"evidence", Suffix(Rule.id)>>
                      /\ record.state = "satisfied"
                      /\ record.digests = {FileDigest(disk[Rule.source])}
                        => RecordFits(record, Rule)
    BY <1>2, <1>9, <2>1 DEF RecordFits, SafeSource, Supported, Readable, FileDigest
  <2> QED BY <1>1, <1>9, <2>2, RecordFitsNext
<1>10. CASE SafeSource /\ pc = "evidence_content" /\ Readable(Rule.source) /\ Judged
  <2>1. digests # {} /\ digests \subseteq seen[Rule.source]
    BY <1>10 DEF EvidenceInv
  <2> PICK state : state = CheckContent(Rule, disk[Rule.source])
    OBVIOUS
  <2>2. state \in States
    BY CheckContentType
  <2>3. \A record : record.id = <<"evidence", Suffix(Rule.id)>>
                      /\ record.state = state /\ state # "missing"
                      /\ record.digests = digests
                        => RecordFits(record, Rule)
    BY <1>2, <1>10, <2>1 DEF RecordFits, SafeSource, Supported, Readable
  <2>4. state # "missing"
    BY DEF CheckContent, TomlFieldEquals, JsonFieldsEqual, JsonArrayContains,
           TextContainsAll, Verdict
  <2> QED BY <1>1, <1>10, <2>3, <2>4, RecordFitsNext DEF Judged
<1>11. CASE SafeSource /\ pc = "evidence_content" /\ Unevaluated(digests)
  <2>1. digests # {} /\ digests \subseteq seen[Rule.source]
    BY <1>11 DEF EvidenceInv
  <2>2. \A record : record.id = <<"evidence", Suffix(Rule.id)>>
                      /\ record.state = "indeterminate" /\ record.digests = digests
                        => RecordFits(record, Rule)
    BY <1>11, <2>1 DEF RecordFits, SafeSource, Supported
  <2> QED BY <1>1, <1>11, <2>2, RecordFitsNext DEF Unevaluated
<1>12. CASE ContinueWith("evidence_kind") \/ ContinueWith("evidence_digest")
  BY <1>1, <1>4, <1>12, EvidenceUnchanged DEF ContinueWith
<1>13. CASE /\ SafeSource /\ Readable(Rule.source)
            /\ digests' = {FileDigest(disk[Rule.source])}
            /\ pc' = "evidence_content" /\ UNCHANGED <<at, evidence>>
  <2>1. Rule' = Rule
    BY <1>1, <1>13 DEF Rule, Rules, Document
  <2>2. digests' # {} /\ digests' \subseteq seen'[Rule'.source]
    BY <1>2, <1>13, <2>1 DEF FileDigest, Still
  <2> QED BY <1>1, <1>4, <1>13, <2>2, EvidenceUnchanged
<1>14. CASE FindEvidence
  BY <1>5, <1>6, <1>8, <1>12, <1>14 DEF FindEvidence
<1>15. CASE CheckEvidenceKind
  BY <1>1, <1>7, <1>8, <1>12, <1>15 DEF CheckEvidenceKind
<1>16. CASE DigestEvidence
  BY <1>1, <1>8, <1>9, <1>13, <1>16 DEF DigestEvidence
<1>17. CASE Raise
  BY <1>1, <1>4, <1>17, EvidenceUnchanged DEF Raise
<1>18. CASE ReadEvidence
  BY <1>1, <1>10, <1>11, <1>17, <1>18 DEF ReadEvidence
<1> QED BY <1>14, <1>15, <1>16, <1>18

LEMMA EvidenceNext == Inv /\ Safe /\ EvidenceInv /\ [Next]_vars => EvidenceInv'
<1> SUFFICES ASSUME Inv, Safe, EvidenceInv, [Next]_vars PROVE EvidenceInv'
  OBVIOUS
<1>1. CASE Evaluate
  <2>1. Still
    BY <1>1 DEF Evaluate, Still
  <2>2. CASE FindEvidence \/ CheckEvidenceKind \/ DigestEvidence \/ ReadEvidence
    BY <2>1, <2>2, EvidenceStep
  <2>3. CASE Decide
    <3>1. pc' # "evidence_content" /\ UNCHANGED <<documents, evidence>>
      BY <2>3 DEF Decide, Raise
    <3> QED BY <2>1, <3>1, EvidenceUnchanged DEF Still
  <2>4. CASE FindRoot \/ DigestRoot \/ LoadRoot \/ FindContract \/ DigestContract
             \/ LoadContract \/ SettleTrust
    <3>1. pc \in Trusting
      BY <2>4 DEF FindRoot, DigestRoot, LoadRoot, FindContract, DigestContract,
                  LoadContract, SettleTrust, Trusting
    <3>2. evidence = <<>>
      BY <3>1, NoneAssumption DEF Inv, Order, TrustStates
    <3>3. evidence' = evidence /\ pc' # "evidence_content"
      BY <2>4 DEF FindRoot, DigestRoot, LoadRoot, FindContract, DigestContract,
                  LoadContract, SettleTrust, Refuse, Raise, NextContract
    <3> QED BY <3>2, <3>3 DEF EvidenceInv
  <2> QED BY <1>1, <2>2, <2>3, <2>4 DEF Evaluate
<1>2. CASE \E file \in Files : \E content \in Contents[file] : Change(file, content)
  <2> PICK file \in Files : \E content \in Contents[file] : Change(file, content)
    BY <1>2
  <2> PICK content \in Contents[file] : Change(file, content)
    OBVIOUS
  <2>1. /\ UNCHANGED <<pc, at, digests, documents, evidence>>
        /\ \A f \in Files : seen[f] \subseteq seen'[f]
    BY DEF Change, callVars, Inv, TypeOK
  <2>2. Rule' = Rule
    BY <2>1 DEF Rule, Rules, Document
  <2>3. pc = "evidence_content" => seen[Rule.source] \subseteq seen'[Rule.source]
    BY <2>1 DEF Safe, SafeSource, Files
  <2> QED BY <2>1, <2>2, <2>3, EvidenceUnchanged DEF EvidenceInv
<1>3. CASE UNCHANGED vars
  <2>1. UNCHANGED <<pc, at, digests, documents, evidence, seen>>
    BY <1>3 DEF vars, callVars
  <2>2. Rule' = Rule
    BY <2>1 DEF Rule, Rules, Document
  <2> QED BY <2>1, <2>2, EvidenceUnchanged DEF EvidenceInv
<1> QED BY <1>1, <1>2, <1>3 DEF Next, Return

THEOREM RecordsFit == Spec => []EvidenceInv
<1>1. Init => EvidenceInv
  BY DEF Init, EvidenceInv
<1>2. (Inv /\ Safe) /\ EvidenceInv /\ [Next]_vars => EvidenceInv'
  BY EvidenceNext
<1> QED BY <1>1, <1>2, Inductive, PTL DEF Spec

(* Every verdict and every digest of a report is about content that the    *)
(* source really had while evaluate_context was running, whatever changed. *)
THEOREM VerdictsSupported == Spec => []VerdictsAreSupported
<1>1. EvidenceInv => VerdictsAreSupported
  BY DEF EvidenceInv, RecordFits, VerdictsAreSupported
<1> QED BY <1>1, RecordsFit, PTL

-----------------------------------------------------------------------------
(* The refinement of GovernedDecision.                                     *)

Verdicts == {evidence[i].state : i \in DOMAIN evidence}

(* A step of the verification of contracts.                                *)
LEMMA TrustingPromise ==
  ASSUME Inv, Inv', pc \in Trusting, evidence' = evidence,
         \/ pc' \in Trusting /\ UNCHANGED <<trust, decision>>
         \/ pc' = "evidence_path" /\ trust' = "verified" /\ UNCHANGED decision
         \/ pc' = "raised" /\ UNCHANGED <<trust, decision>>
         \/ /\ pc' = "reported" /\ decision' = "INDETERMINATE"
            /\ trust' \in TrustStates \ {"verified"}
  PROVE  [Promise!Next]_(Promise!vars)
<1>1. /\ trust = None /\ Phase = "trusting" /\ Verdicts' = Verdicts
      /\ pc \notin Ended
  BY DEF Inv, Order, Phase, Trusting, Ended, Verdicts
<1>2. None \notin TrustStates
  BY NoneAssumption
<1>3. CASE pc' \in Trusting /\ UNCHANGED <<trust, decision>>
  <2>1. Phase' = "trusting"
    BY <1>1, <1>3 DEF Phase, Trusting, Ended
  <2> QED BY <1>1, <1>3, <2>1 DEF Promise!vars, Verdicts
<1>4. CASE pc' = "evidence_path" /\ trust' = "verified" /\ UNCHANGED decision
  <2>1. Phase' = "judging"
    BY <1>2, <1>4 DEF Phase, Ended, TrustStates
  <2> QED BY <1>1, <1>4, <2>1 DEF Promise!Next, Promise!Verify, Verdicts
<1>5. CASE pc' = "raised" /\ UNCHANGED <<trust, decision>>
  <2>1. Phase' = "raised"
    BY <1>5 DEF Phase, Ended
  <2> QED BY <1>1, <1>5, <2>1 DEF Promise!Next, Promise!Raise, Verdicts
<1>6. CASE /\ pc' = "reported" /\ decision' = "INDETERMINATE"
           /\ trust' \in TrustStates \ {"verified"}
  <2>1. Phase' = "reported"
    BY <1>6 DEF Phase, Ended
  <2>2. trust' \in Promise!Refusals
    BY <1>6 DEF TrustStates, Promise!Refusals
  <2> QED BY <1>1, <1>6, <2>1, <2>2 DEF Promise!Next, Promise!Refuse, Verdicts
<1> QED BY <1>3, <1>4, <1>5, <1>6

LEMMA TrustingSteps ==
  ASSUME Inv, FindRoot \/ DigestRoot \/ LoadRoot \/ FindContract
              \/ DigestContract \/ LoadContract \/ SettleTrust
  PROVE  /\ pc \in Trusting /\ evidence' = evidence
         /\ \/ pc' \in Trusting /\ UNCHANGED <<trust, decision>>
            \/ pc' = "evidence_path" /\ trust' = "verified" /\ UNCHANGED decision
            \/ pc' = "raised" /\ UNCHANGED <<trust, decision>>
            \/ /\ pc' = "reported" /\ decision' = "INDETERMINATE"
               /\ trust' \in TrustStates \ {"verified"}
<1>1. CASE FindRoot
  BY <1>1 DEF FindRoot, Refuse, Raise, Trusting, TrustStates
<1>2. CASE DigestRoot
  BY <1>2 DEF DigestRoot, Raise, Trusting
<1>3. CASE LoadRoot
  BY <1>3 DEF LoadRoot, Refuse, Trusting, TrustStates
<1>4. CASE FindContract
  BY <1>4 DEF FindContract, NextContract, Raise, Trusting
<1>5. CASE DigestContract
  BY <1>5 DEF DigestContract, NextContract, Raise, Trusting
<1>6. CASE LoadContract
  BY <1>6 DEF LoadContract, Trusting
<1>7. CASE SettleTrust
  <2>1. TrustOf(SettledIssues) \in TrustStates
    BY TrustOfType
  <2> QED BY <1>7, <2>1 DEF SettleTrust, Refuse, Raise, Trusting
<1> QED BY <1>1, <1>2, <1>3, <1>4, <1>5, <1>6, <1>7

(* A step that judges a requirement, or prepares to.                       *)
LEMMA JudgingSteps ==
  ASSUME Inv, FindEvidence \/ CheckEvidenceKind \/ DigestEvidence \/ ReadEvidence
  PROVE  /\ pc \in Judging \ {"decide"} /\ UNCHANGED <<trust, decision>>
         /\ \/ Raise
            \/ pc' \in Judging /\ UNCHANGED evidence
            \/ /\ pc' \in Judging
               /\ \E state \in States : \E sources, digested, content :
                    Record(state, sources, digested, content)
<1>1. CASE FindEvidence
  BY <1>1 DEF FindEvidence, ContinueWith, Unevaluated, Record, Judging, States
<1>2. CASE CheckEvidenceKind
  BY <1>2 DEF CheckEvidenceKind, ContinueWith, Unevaluated, Record, Judging, States
<1>3. CASE DigestEvidence
  BY <1>3 DEF DigestEvidence, Unevaluated, Record, Judging, States
<1>4. CASE ReadEvidence
  <2>1. CheckContent(Rule, disk[Rule.source]) \in States
    BY CheckContentType
  <2>2. CASE Raise
    BY <1>4, <2>2 DEF ReadEvidence, Raise, Judging
  <2>3. CASE ~ Raise
    BY <1>4, <2>1, <2>3
    DEF ReadEvidence, Judged, Unevaluated, Record, Judging, States
  <2> QED BY <2>2, <2>3
<1> QED BY <1>1, <1>2, <1>3, <1>4

LEMMA RecordPromise ==
  ASSUME Inv, pc \in Judging \ {"decide"}, pc' \in Judging,
         UNCHANGED <<trust, decision>>,
         NEW state \in States, NEW sources, NEW digested, NEW content,
         Record(state, sources, digested, content)
  PROVE  Promise!Judge(state)
<1> PICK rec : rec = [requirement |-> Rule.id,
                      id |-> <<"evidence", Suffix(Rule.id)>>,
                      state |-> state, sources |-> sources,
                      digests |-> digested, content |-> content]
  OBVIOUS
<1>1. /\ trust = "verified" /\ trust' = "verified"
      /\ Phase = "judging" /\ Phase' = "judging"
  BY JudgingFacts, NoneAssumption DEF Phase, Judging, Ended, TrustStates
<1>2. evidence' = Append(evidence, rec)
  BY DEF Record
<1>3. evidence \in Seq(EvidenceRecords \cup {rec})
  <2>1. evidence \in Seq(EvidenceRecords)
    BY DEF Inv, TypeOK
  <2>2. \A i \in 1 .. Len(evidence) : evidence[i] \in EvidenceRecords \cup {rec}
    BY <2>1
  <2> QED BY <2>1, <2>2
<1>4. /\ DOMAIN evidence = 1 .. Len(evidence) /\ Len(evidence) \in Nat
      /\ DOMAIN evidence' = 1 .. Len(evidence) + 1
      /\ \A i \in 1 .. Len(evidence) : evidence'[i] = evidence[i]
      /\ evidence'[Len(evidence) + 1] = rec
  <2> DEFINE S == EvidenceRecords \cup {rec}
  <2>1. evidence \in Seq(S) /\ rec \in S
    BY <1>3
  <2> HIDE DEF S
  <2>2. /\ Append(evidence, rec) \in Seq(S)
        /\ Len(Append(evidence, rec)) = Len(evidence) + 1
        /\ \A i \in 1 .. Len(evidence) : Append(evidence, rec)[i] = evidence[i]
        /\ Append(evidence, rec)[Len(evidence) + 1] = rec
    BY <2>1, AppendProperties
  <2> QED BY <1>2, <2>1, <2>2
<1>5. rec.state = state
  OBVIOUS
<1>6. Verdicts' = Verdicts \cup {state}
  BY <1>4, <1>5 DEF Verdicts
<1> QED BY <1>1, <1>6 DEF Promise!Judge, Verdicts

LEMMA DecidePromise ==
  ASSUME Inv, Decide
  PROVE  [Promise!Next]_(Promise!vars)
<1>1. /\ pc = "decide" /\ trust = "verified" /\ Len(evidence) = Len(Rules)
      /\ Len(Rules) \in Nat \ {0} /\ evidence' = evidence /\ trust' = trust
  BY JudgingFacts DEF Decide, Raise, Judging, Inv, TrustEarned
<1>2. Phase = "judging" /\ Verdicts' = Verdicts
  BY <1>1, NoneAssumption DEF Phase, Ended, TrustStates, Verdicts
<1>3. CASE Raise
  <2>1. Phase' = "raised"
    BY <1>3 DEF Raise, Phase, Ended
  <2> QED BY <1>1, <1>2, <1>3, <2>1 DEF Raise, Promise!Next, Promise!Raise, Verdicts
<1>4. CASE pc' = "reported" /\ decision' = DecisionOf(Verdicts)
  <2>1. Phase' = "reported"
    BY <1>4 DEF Phase, Ended
  <2>2. Verdicts \subseteq States /\ Verdicts # {}
    <3>1. evidence \in Seq(EvidenceRecords)
      BY DEF Inv, TypeOK
    <3>2. DOMAIN evidence = 1 .. Len(evidence)
          /\ \A i \in 1 .. Len(evidence) : evidence[i].state \in States
      <4>1. \A i \in 1 .. Len(evidence) : evidence[i] \in EvidenceRecords
        BY <3>1
      <4>2. DOMAIN evidence = 1 .. Len(evidence)
        BY <3>1
      <4> QED BY <4>1, <4>2 DEF EvidenceRecords
    <3>3. 1 \in DOMAIN evidence
      BY <1>1, <3>2
    <3> QED BY <3>2, <3>3 DEF Verdicts
  <2>3. Promise!Justifies(Verdicts, DecisionOf(Verdicts))
    <3>1. CASE Verdicts = {"satisfied"}
      BY <3>1 DEF DecisionOf, Promise!Justifies
    <3>2. CASE Verdicts \cap {"blocked", "missing"} # {}
      BY <3>2 DEF DecisionOf, Promise!Justifies
    <3>3. CASE Verdicts # {"satisfied"} /\ Verdicts \cap {"blocked", "missing"} = {}
      <4>1. "indeterminate" \in Verdicts
        BY <2>2, <3>3 DEF States
      <4>2. DecisionOf(Verdicts) = "INDETERMINATE"
        BY <3>3 DEF DecisionOf
      <4> QED BY <3>3, <4>1, <4>2 DEF Promise!Justifies
    <3> QED BY <3>1, <3>2, <3>3
  <2>4. DecisionOf(Verdicts) \in {"READY", "HOLD", "INDETERMINATE"}
    BY DEF DecisionOf
  <2> QED BY <1>1, <1>2, <1>4, <2>1, <2>3, <2>4
          DEF Promise!Next, Promise!Report, Verdicts
<1> QED BY <1>3, <1>4 DEF Decide, Verdicts

LEMMA PromiseStep == Inv /\ Inv' /\ [Next]_vars => [Promise!Next]_(Promise!vars)
<1> SUFFICES ASSUME Inv, Inv', [Next]_vars PROVE [Promise!Next]_(Promise!vars)
  OBVIOUS
<1>1. CASE FindRoot \/ DigestRoot \/ LoadRoot \/ FindContract
           \/ DigestContract \/ LoadContract \/ SettleTrust
  BY <1>1, TrustingSteps, TrustingPromise
<1>2. CASE FindEvidence \/ CheckEvidenceKind \/ DigestEvidence \/ ReadEvidence
  <2>1. CASE pc' \in Judging /\ UNCHANGED evidence
    <3>1. /\ trust = "verified" /\ trust' = "verified"
          /\ Phase = "judging" /\ Phase' = "judging"
      BY <1>2, <2>1, JudgingSteps, JudgingFacts, NoneAssumption
      DEF Phase, Judging, Ended, TrustStates
    <3> QED BY <1>2, <2>1, <3>1, JudgingSteps DEF Promise!vars
  <2>2. CASE /\ pc' \in Judging
             /\ \E state \in States : \E sources, digested, content :
                  Record(state, sources, digested, content)
    <3> PICK state \in States : \E sources, digested, content :
               Record(state, sources, digested, content)
      BY <2>2
    <3> PICK sources, digested, content : Record(state, sources, digested, content)
      OBVIOUS
    <3>1. Promise!Judge(state)
      BY <1>2, <2>2, JudgingSteps, RecordPromise
    <3> QED BY <3>1 DEF Promise!Next, Promise!States, States
  <2>3. CASE Raise
    <3>1. trust = "verified" /\ Phase = "judging" /\ Phase' = "raised"
      BY <1>2, <2>3, JudgingSteps, JudgingFacts, NoneAssumption
      DEF Raise, Phase, Judging, Ended, TrustStates
    <3> QED BY <2>3, <3>1 DEF Raise, Promise!Next, Promise!Raise
  <2> QED BY <1>2, <2>1, <2>2, <2>3, JudgingSteps
<1>3. CASE Decide
  BY <1>3, DecidePromise
<1>4. CASE UNCHANGED callVars
  BY <1>4 DEF callVars, Promise!vars, Phase
<1> QED BY <1>1, <1>2, <1>3, <1>4 DEF Next, Evaluate, Change, Return, vars

(* The evaluation of evaluate_context, with its file reads and the changes *)
(* that happen between them, is an evaluation that GovernedDecision allows.*)
THEOREM PromiseKept == Spec => ImplementsPromise
<1>1. Init => Promise!Init
  BY DEF Init, Promise!Init, Phase, Ended
<1>2. (Inv /\ Safe) /\ (Inv /\ Safe)' /\ [Next]_vars => [Promise!Next]_(Promise!vars)
  BY PromiseStep
<1> QED BY <1>1, <1>2, Inductive, PTL DEF Spec, ImplementsPromise, Promise!Spec

-----------------------------------------------------------------------------
(* On files that hold still the evaluation is exact.  What the call has    *)
(* found when it stands before contract at is what there is to find among  *)
(* the contracts before it, and the reads of one file agree.               *)

Flaws(root) == HeaderIssues(root) \cup ManifestIssues(root.manifest)
Barred(root, tree) == {c \in Declared(root.manifest) : tree[c] \in Denied}
Lacking(root, tree) == {c \in Declared(root.manifest) : tree[c] \notin Bytes}
Altered(root, tree) ==
  {c \in Declared(root.manifest) :
     tree[c] \in Bytes /\ tree[c] # ExpectedDigest(root.manifest, c)}
Unparsable(tree) == {c \in Contracts : UnparsableOn(tree, c)}

Passed == {ContractPaths[j] : j \in {k \in 1 .. 4 : k < at}}

RootExact ==
  /\ pc = "root_digest" => IsFile(TrustRoot)
  /\ pc \in (Trusting \cup Judging) \ {"root_file", "root_digest"} =>
       disk[TrustRoot] \in Bytes
  /\ pc \in (Trusting \cup Judging) \ {"root_file", "root_digest"} =>
       rootDigest = disk[TrustRoot]
  /\ pc = "reported" /\ disk[TrustRoot] \in Bytes => rootDigest = disk[TrustRoot]
  /\ rootBytes # None => rootBytes = disk[TrustRoot] /\ Loadable(disk[TrustRoot])

(* The outcome of the digests of some of the contracts.                    *)
DigestsExact(some) ==
  /\ Barred(Root, disk) \cap some = {}
  /\ issues.missing = Lacking(Root, disk) \cap some
  /\ issues.invalid = Flaws(Root) \cup (Altered(Root, disk) \cap some)

(* The outcome of loading some of them, once no digest was wrong.          *)
LoadsExact(some) ==
  /\ Barred(Root, disk) = {}
  /\ Flaws(Root) = {} /\ Lacking(Root, disk) = {} /\ Altered(Root, disk) = {}
  /\ issues.missing = {} /\ issues.invalid = Unparsable(disk) \cap some
  /\ \A c \in some \ Unparsable(disk) : documents[c] = disk[c]

TrustExact ==
  /\ pc \in Trusting => issues.stale = {} /\ issues.ambiguous = {}
  /\ pc \in {"root_file", "root_digest", "root_load"} => issues.missing = {}
  /\ pc \in {"contract_file", "contract_digest"} => DigestsExact(Passed)
  /\ pc = "contract_digest" => IsFile(Path)
  /\ pc = "contract_load" => LoadsExact(Passed)
  /\ pc = "settle" => \/ Blocking(issues) /\ DigestsExact(Contracts)
                      \/ LoadsExact(Contracts)
  /\ trust # None => trust = TrustOn(disk)
  /\ trust = "verified" => \A c \in Contracts : documents[c] = disk[c]
  /\ pc = "raised" /\ trust = None => TrustOn(disk) = "raises"

JudgementExact ==
  /\ \A i \in DOMAIN evidence : evidence[i].state = VerdictOn(disk, Rules[i])
  /\ pc = "evidence_kind" => disk[Rule.source] # Absent
  /\ pc = "evidence_digest" => IsFile(Rule.source)
  /\ pc = "evidence_content" => Readable(Rule.source)
  /\ pc = "reported" => trust # None /\ decision = DecisionOn(disk)

Exact == RootExact /\ TrustExact /\ JudgementExact

LEMMA DeclaredAreContracts ==
  ASSUME NEW manifest
  PROVE  Declared(manifest) \subseteq Contracts
BY DEF Declared, Accepted, Acceptable

(* The trust state of a tree, by what there is to find in it.              *)
LEMMA TrustOfTree ==
  ASSUME NEW tree, tree[TrustRoot] \in Bytes,
         NEW root, root = ParseRoot[tree[TrustRoot]], root # Malformed
  PROVE  /\ Barred(root, tree) # {} => TrustOn(tree) = "raises"
         /\ Barred(root, tree) = {} /\ Flaws(root) \cup Altered(root, tree) # {}
              => TrustOn(tree) = "invalid"
         /\ Barred(root, tree) \cup Flaws(root) \cup Altered(root, tree) = {}
            /\ Lacking(root, tree) # {} => TrustOn(tree) = "missing"
         /\ Barred(root, tree) \cup Flaws(root) \cup Altered(root, tree)
              \cup Lacking(root, tree) = {} =>
              /\ Unparsable(tree) # {} => TrustOn(tree) = "invalid"
              /\ Unparsable(tree) = {} =>
                   TrustOn(tree) =
                     IF ReferenceCheckRaises(root, ParseContract[tree["identity.json"]])
                     THEN "raises"
                     ELSE TrustOf(DocumentIssues(root,
                            ParseContract[tree["identity.json"]],
                            ParseContract[tree["ontology.json"]],
                            ParseContract[tree["ownership.json"]],
                            ParseContract[tree["policy.json"]]))
<1> DEFINE doc == [c \in Contracts |-> ParseContract[tree[c]]]
           found == DocumentIssues(root, doc["identity.json"], doc["ontology.json"],
                                   doc["ownership.json"], doc["policy.json"])
           wrong == \/ HeaderIssues(root) \cup ManifestIssues(root.manifest) # {}
                    \/ \E c \in Declared(root.manifest) :
                         /\ tree[c] \in Bytes
                         /\ tree[c] # ExpectedDigest(root.manifest, c)
           barred == \E c \in Declared(root.manifest) : tree[c] \in Denied
           gone == \E c \in Contracts : tree[c] \notin Bytes
           unread == \E c \in Contracts : UnparsableOn(tree, c)
           raises == ReferenceCheckRaises(root, doc["identity.json"])
<1>1. TrustOn(tree) = CASE barred -> "raises"
                        [] ~ barred /\ wrong -> "invalid"
                        [] OTHER ->
                             CASE gone -> "missing"
                               [] OTHER -> IF unread THEN "invalid"
                                           ELSE IF raises THEN "raises"
                                           ELSE TrustOf(found)
  BY NotAFileAssumption DEF TrustOn
<1>2. /\ wrong <=> Flaws(root) \cup Altered(root, tree) # {}
      /\ barred <=> Barred(root, tree) # {}
  BY DEF Flaws, Altered, Barred
<1>3. Flaws(root) = {} => (gone <=> Lacking(root, tree) # {})
  BY CompleteManifest DEF Flaws, Lacking
<1>4. unread <=> Unparsable(tree) # {}
  BY DEF Unparsable
<1>5. /\ doc["identity.json"] = ParseContract[tree["identity.json"]]
      /\ doc["ontology.json"] = ParseContract[tree["ontology.json"]]
      /\ doc["ownership.json"] = ParseContract[tree["ownership.json"]]
      /\ doc["policy.json"] = ParseContract[tree["policy.json"]]
  BY DEF Contracts
<1> HIDE DEF doc, barred, wrong, gone, unread
<1>6. /\ barred => TrustOn(tree) = "raises"
      /\ ~ barred /\ wrong => TrustOn(tree) = "invalid"
      /\ ~ barred /\ ~ wrong /\ gone => TrustOn(tree) = "missing"
      /\ ~ barred /\ ~ wrong /\ ~ gone /\ unread => TrustOn(tree) = "invalid"
      /\ ~ barred /\ ~ wrong /\ ~ gone /\ ~ unread =>
           TrustOn(tree) = IF raises THEN "raises" ELSE TrustOf(found)
  BY <1>1
<1> QED BY <1>2, <1>3, <1>4, <1>5, <1>6

(* One contract more has been passed.                                      *)
LEMMA PassedNext ==
  ASSUME at \in 1 .. 4
  PROVE  /\ at' = at + 1 => Passed' = Passed \cup {Path}
         /\ at = 4 => Passed \cup {Path} = Contracts
         /\ at = 1 => Passed = {}
         /\ Path \in Contracts /\ Passed \subseteq Contracts
<1>1. at' = at + 1 => Passed' = Passed \cup {Path}
  BY DEF Passed, Path
<1>2. at = 4 => Passed \cup {Path} = Contracts
  BY DEF Passed, Path, ContractPaths, Contracts
<1>3. at = 1 => Passed = {}
  BY DEF Passed
<1>4. Path \in Contracts /\ Passed \subseteq Contracts
  BY PathsAreContracts DEF Path, Passed
<1> QED BY <1>1, <1>2, <1>3, <1>4

(* A report that refuses the contracts, and an exception.                  *)
LEMMA RefuseExact ==
  ASSUME Inv, Exact, Still, pc \in Trusting,
         NEW state, NEW found, Refuse(state, found),
         state = TrustOn(disk), state # "verified", state # None,
         disk[TrustRoot] \in Bytes => rootDigest = disk[TrustRoot],
         UNCHANGED <<rootDigest, rootBytes, evidence>>
  PROVE  Exact'
<1>1. /\ pc' = "reported" /\ trust' = state /\ decision' = "INDETERMINATE"
      /\ disk' = disk
  BY DEF Refuse, Still
<1>2. evidence = <<>>
  BY NoneAssumption DEF Inv, Order, TrustStates
<1>3. RootExact'
  BY <1>1 DEF Exact, RootExact, Trusting, Judging
<1>4. TrustExact'
  BY <1>1 DEF TrustExact, Trusting
<1>5. DecisionOn(disk) = "INDETERMINATE"
  BY DEF DecisionOn
<1>6. JudgementExact'
  BY <1>1, <1>2, <1>5 DEF JudgementExact
<1> QED BY <1>3, <1>4, <1>6 DEF Exact

LEMMA RaiseExact ==
  ASSUME Exact, Still, Raise, trust = None => TrustOn(disk) = "raises"
  PROVE  Exact'
<1>1. /\ pc' = "raised" /\ disk' = disk
      /\ UNCHANGED <<rootDigest, rootBytes, documents, trust, evidence>>
  BY DEF Raise, Still
<1>2. Rules' = Rules
  BY <1>1 DEF Rules, Document
<1>3. RootExact' /\ TrustExact'
  BY <1>1 DEF Exact, RootExact, TrustExact, Trusting, Judging
<1>4. JudgementExact'
  BY <1>1, <1>2 DEF Exact, JudgementExact
<1> QED BY <1>3, <1>4 DEF Exact

LEMMA RootStepsExact ==
  ASSUME Inv, Exact, Still, FindRoot \/ DigestRoot \/ LoadRoot
  PROVE  Exact'
<1>1. /\ pc \in Trusting /\ trust = None /\ evidence = <<>> /\ disk' = disk
      /\ issues.stale = {} /\ issues.ambiguous = {} /\ issues.missing = {}
  BY NoneAssumption
  DEF FindRoot, DigestRoot, LoadRoot, Inv, Order, Trusting, Exact, TrustExact,
      Still, TrustStates
<1>2. CASE FindRoot /\ IsFile(TrustRoot)
  <2>1. /\ pc' = "root_digest"
        /\ UNCHANGED <<issues, trust, rootDigest, rootBytes, documents, evidence>>
    BY <1>2, NotAFileAssumption DEF FindRoot, IsFile, Examinable, Refuse, Denied
  <2>2. RootExact'
    BY <1>1, <1>2, <2>1 DEF Exact, RootExact, IsFile, Trusting, Judging
  <2>3. TrustExact'
    BY <1>1, <2>1, NoneAssumption DEF TrustExact, TrustStates
  <2>4. JudgementExact'
    BY <1>1, <2>1 DEF JudgementExact
  <2> QED BY <2>2, <2>3, <2>4 DEF Exact
<1>3. CASE FindRoot /\ Examinable(TrustRoot) /\ ~ IsFile(TrustRoot)
  <2>1. /\ Refuse("missing", [NoIssues EXCEPT !.missing = {TrustRoot}])
        /\ UNCHANGED <<rootDigest, rootBytes, evidence>>
    BY <1>3 DEF FindRoot
  <2>2. disk[TrustRoot] \notin Bytes /\ TrustOn(disk) = "missing"
    BY <1>3 DEF IsFile, Examinable, TrustOn, Denied
  <2>3. "missing" # None
    BY NoneAssumption DEF TrustStates
  <2> QED BY <1>1, <2>1, <2>2, <2>3, RefuseExact
<1>4. CASE DigestRoot /\ Readable(TrustRoot)
  <2>1. /\ pc' = "root_load" /\ disk[TrustRoot] \in Bytes
        /\ rootDigest' = disk[TrustRoot]
        /\ UNCHANGED <<issues, trust, rootBytes, documents, evidence>>
    BY <1>4 DEF DigestRoot, Readable, FileDigest
  <2>2. RootExact'
    BY <1>1, <2>1 DEF Exact, RootExact, Trusting, Judging
  <2>3. TrustExact'
    BY <1>1, <2>1, NoneAssumption DEF TrustExact, TrustStates
  <2>4. JudgementExact'
    BY <1>1, <2>1 DEF JudgementExact
  <2> QED BY <2>2, <2>3, <2>4 DEF Exact
<1>5. LoadRoot => disk[TrustRoot] \in Bytes /\ rootDigest = disk[TrustRoot]
  BY DEF LoadRoot, Exact, RootExact, Trusting
<1>6. CASE LoadRoot /\ ParseRoot[disk[TrustRoot]] = Malformed
  <2>1. /\ Refuse("invalid", [NoIssues EXCEPT !.invalid = {TrustRoot}])
        /\ UNCHANGED <<rootDigest, rootBytes, evidence>>
    BY <1>6 DEF LoadRoot, Readable
  <2>2. TrustOn(disk) = "invalid"
    BY <1>5, <1>6, NotAFileAssumption DEF TrustOn
  <2>3. "invalid" # None
    BY NoneAssumption DEF TrustStates
  <2> QED BY <1>1, <1>5, <1>6, <2>1, <2>2, <2>3, RefuseExact
<1>7. CASE LoadRoot /\ ParseRoot[disk[TrustRoot]] # Malformed
  <2> DEFINE root == ParseRoot[disk[TrustRoot]]
  <2>1. /\ rootBytes' = disk[TrustRoot] /\ pc' = "contract_file" /\ at' = 1
        /\ issues' = [issues EXCEPT !.invalid =
                        HeaderIssues(root) \cup ManifestIssues(root.manifest)]
        /\ UNCHANGED <<rootDigest, documents, trust, evidence>>
    BY <1>5, <1>7 DEF LoadRoot, Readable
  <2>2. Root' = root /\ Passed' = {}
    BY <2>1 DEF Root, Passed
  <2>3. /\ issues'.invalid = Flaws(root) /\ issues'.missing = {}
        /\ issues'.stale = {} /\ issues'.ambiguous = {}
    <3>1. issues \in IssueSets
      BY DEF Inv, TypeOK
    <3> QED BY <1>1, <2>1, <3>1 DEF Flaws, IssueSets
  <2> HIDE DEF root
  <2>4. DigestsExact(Passed)'
    BY <2>2, <2>3 DEF DigestsExact
  <2>5. RootExact'
    BY <1>1, <1>5, <1>7, <2>1 DEF RootExact, Trusting, Judging, Loadable
  <2>6. TrustExact'
    BY <1>1, <2>1, <2>3, <2>4, NoneAssumption DEF TrustExact, TrustStates
  <2>7. JudgementExact'
    BY <1>1, <2>1 DEF JudgementExact
  <2> QED BY <2>5, <2>6, <2>7 DEF Exact
<1>8. CASE \/ FindRoot /\ ~ Examinable(TrustRoot)
           \/ DigestRoot /\ ~ Readable(TrustRoot)
  <2>1. Raise
    BY <1>8 DEF FindRoot, DigestRoot
  <2>2. disk[TrustRoot] \in Denied
    BY <1>8
    DEF DigestRoot, Exact, RootExact, Examinable, IsFile, Readable, Denied
  <2> QED BY <2>1, <2>2, RaiseExact DEF TrustOn
<1> QED BY <1>2, <1>3, <1>4, <1>6, <1>7, <1>8

(* Past a contract whose digest was taken, or that lacks.                  *)
LEMMA NextContractExact ==
  ASSUME Inv, Exact, Still, pc \in {"contract_file", "contract_digest"},
         NextContract(issues'),
         UNCHANGED <<rootDigest, rootBytes, documents, trust, evidence>>,
         issues'.stale = {}, issues'.ambiguous = {},
         Barred(Root, disk) \cap (Passed \cup {Path}) = {},
         issues'.missing = Lacking(Root, disk) \cap (Passed \cup {Path}),
         issues'.invalid = Flaws(Root)
                             \cup (Altered(Root, disk) \cap (Passed \cup {Path}))
  PROVE  Exact'
<1>1. /\ at \in 1 .. 4 /\ trust = None /\ evidence = <<>> /\ disk' = disk
      /\ pc \in Trusting
  BY NoneAssumption DEF Inv, Order, Trusting, TrustStates, Still
<1>2. Root' = Root
  BY DEF Root
<1>3. \/ at < 4 /\ at' = at + 1 /\ pc' = "contract_file"
      \/ at = 4 /\ at' = 1 /\ pc' = "settle" /\ Blocking(issues')
      \/ at = 4 /\ at' = 1 /\ pc' = "contract_load" /\ ~ Blocking(issues')
  BY <1>1, PathsAreContracts DEF NextContract
<1>4. /\ Lacking(Root, disk) \subseteq Contracts
      /\ Altered(Root, disk) \subseteq Contracts
      /\ Barred(Root, disk) \subseteq Contracts
  BY DeclaredAreContracts DEF Lacking, Altered, Barred
<1>5. RootExact'
  BY <1>1, <1>3 DEF Exact, RootExact, Trusting, Judging
<1>6. pc' = "contract_file" => DigestsExact(Passed)'
  BY <1>1, <1>2, <1>3, PassedNext DEF DigestsExact
<1>7. pc' = "settle" => Blocking(issues') /\ DigestsExact(Contracts)'
  BY <1>1, <1>2, <1>3, PassedNext DEF DigestsExact
<1>8. pc' = "contract_load" => LoadsExact(Passed)'
  <2> SUFFICES ASSUME pc' = "contract_load" PROVE LoadsExact(Passed)'
    OBVIOUS
  <2>1. at = 4 /\ at' = 1 /\ issues'.invalid = {} /\ issues'.missing = {}
    BY <1>3 DEF Blocking
  <2>2. /\ Flaws(Root) = {} /\ Lacking(Root, disk) = {} /\ Altered(Root, disk) = {}
        /\ Barred(Root, disk) = {}
    BY <1>1, <1>4, <2>1, PassedNext
  <2>3. Passed' = {}
    BY <2>1 DEF Passed
  <2> QED BY <1>1, <1>2, <2>1, <2>2, <2>3 DEF LoadsExact
<1>9. TrustExact'
  BY <1>1, <1>3, <1>6, <1>7, <1>8, NoneAssumption DEF TrustExact, TrustStates
<1>10. JudgementExact'
  BY <1>1, <1>3 DEF JudgementExact
<1> QED BY <1>5, <1>9, <1>10 DEF Exact

LEMMA ContractStepsExact ==
  ASSUME Inv, Exact, Still, FindContract \/ DigestContract
  PROVE  Exact'
<1> PICK path : path = Path
  OBVIOUS
<1>1. /\ pc \in {"contract_file", "contract_digest"} /\ at \in 1 .. 4
      /\ trust = None /\ evidence = <<>> /\ disk' = disk
      /\ issues.stale = {} /\ issues.ambiguous = {} /\ issues \in IssueSets
      /\ DigestsExact(Passed) /\ path \in Contracts
  BY NoneAssumption, PassedNext
  DEF FindContract, DigestContract, Inv, TypeOK, Order, Trusting, Exact, TrustExact,
      Still, TrustStates
<1>2. /\ path \in Barred(Root, disk) <=>
           path \in Declared(Root.manifest) /\ disk[path] \in Denied
      /\ path \in Lacking(Root, disk) <=>
           path \in Declared(Root.manifest) /\ ~ Readable(path)
      /\ path \in Altered(Root, disk) <=>
           path \in Declared(Root.manifest) /\ Readable(path) /\ ~ Matches(path)
      /\ disk[path] \in Denied => ~ Readable(path)
      /\ ~ Examinable(path) => disk[path] \in Denied
      /\ IsFile(path) <=> Readable(path) \/ disk[path] = Unreadable
      /\ Unreadable \in Denied
      /\ disk[path] \in Denied /\ ~ IsFile(path) => ~ Examinable(path)
  BY NotAFileAssumption
  DEF Barred, Lacking, Altered, Readable, IsFile, Examinable, Denied, Matches,
      FileDigest
<1>3. CASE FindContract /\ path \notin Declared(Root.manifest)
  <2>1. /\ NextContract(issues') /\ issues' = issues
        /\ UNCHANGED <<rootDigest, rootBytes, documents, trust, evidence>>
    BY <1>3 DEF FindContract
  <2> QED BY <1>1, <1>2, <1>3, <2>1, NextContractExact DEF DigestsExact
<1>4. CASE /\ FindContract /\ path \in Declared(Root.manifest)
           /\ ~ IsFile(path) /\ Examinable(path)
  <2>1. /\ NextContract(issues')
        /\ issues' = [issues EXCEPT !.missing = @ \cup {path}]
        /\ UNCHANGED <<rootDigest, rootBytes, documents, trust, evidence>>
    BY <1>2, <1>4 DEF FindContract
  <2>2. /\ issues'.stale = {} /\ issues'.ambiguous = {}
        /\ issues'.missing = issues.missing \cup {path}
        /\ issues'.invalid = issues.invalid
    BY <1>1, <2>1 DEF IssueSets
  <2> QED BY <1>1, <1>2, <1>4, <2>1, <2>2, NextContractExact DEF DigestsExact
<1>5. CASE FindContract /\ path \in Declared(Root.manifest) /\ IsFile(path)
  <2>1. /\ pc' = "contract_digest" /\ at' = at /\ issues' = issues
        /\ UNCHANGED <<rootDigest, rootBytes, documents, trust, evidence>>
    BY <1>5, NotAFileAssumption DEF FindContract, IsFile, Examinable, Denied
  <2>2. Root' = Root /\ Passed' = Passed /\ Path' = Path
    BY <2>1 DEF Root, Passed, Path
  <2>3. RootExact'
    BY <1>1, <2>1 DEF Exact, RootExact, Trusting, Judging
  <2>4. DigestsExact(Passed)'
    BY <1>1, <2>1, <2>2 DEF DigestsExact
  <2>5. TrustExact'
    BY <1>1, <1>5, <2>1, <2>2, <2>4, NoneAssumption DEF TrustExact, TrustStates, IsFile
  <2>6. JudgementExact'
    BY <1>1, <2>1 DEF JudgementExact
  <2> QED BY <2>3, <2>5, <2>6 DEF Exact
<1>6. DigestContract => IsFile(path) /\ path \in Declared(Root.manifest)
  BY DEF DigestContract, Exact, TrustExact, Inv, ContractsKnown
<1>7. CASE DigestContract /\ Readable(path) /\ Matches(path)
  <2>1. /\ NextContract(issues') /\ issues' = issues
        /\ UNCHANGED <<rootDigest, rootBytes, documents, trust, evidence>>
    BY <1>6, <1>7 DEF DigestContract
  <2> QED BY <1>1, <1>2, <1>6, <1>7, <2>1, NextContractExact DEF DigestsExact
<1>8. CASE DigestContract /\ Readable(path) /\ ~ Matches(path)
  <2>1. /\ NextContract(issues')
        /\ issues' = [issues EXCEPT !.invalid = @ \cup {path}]
        /\ UNCHANGED <<rootDigest, rootBytes, documents, trust, evidence>>
    BY <1>6, <1>8 DEF DigestContract
  <2>2. /\ issues'.stale = {} /\ issues'.ambiguous = {}
        /\ issues'.missing = issues.missing
        /\ issues'.invalid = issues.invalid \cup {path}
    BY <1>1, <2>1 DEF IssueSets
  <2> QED BY <1>1, <1>2, <1>6, <1>8, <2>1, <2>2, NextContractExact DEF DigestsExact
<1>9. CASE \/ FindContract /\ path \in Declared(Root.manifest) /\ ~ Examinable(path)
           \/ DigestContract /\ ~ Readable(path)
  <2>1. Raise
    BY <1>9 DEF FindContract, DigestContract
  <2>2. path \in Barred(Root, disk)
    BY <1>2, <1>6, <1>9
  <2>3. /\ disk[TrustRoot] \in Bytes /\ Root = ParseRoot[disk[TrustRoot]]
        /\ Root # Malformed
    BY <1>1, NotAFileAssumption
    DEF Inv, RootKnown, Exact, RootExact, Loadable, Root, Trusting
  <2> QED BY <2>1, <2>2, <2>3, RaiseExact, TrustOfTree
<1> QED BY <1>3, <1>4, <1>5, <1>7, <1>8, <1>9

LEMMA LoadContractExact ==
  ASSUME Inv, Exact, Still, LoadContract
  PROVE  Exact'
<1> PICK path : path = Path
  OBVIOUS
<1>1. /\ pc = "contract_load" /\ at \in 1 .. 4
      /\ trust = None /\ evidence = <<>> /\ disk' = disk
      /\ issues.stale = {} /\ issues.ambiguous = {} /\ issues \in IssueSets
      /\ LoadsExact(Passed) /\ path \in Contracts
      /\ documents \in [Contracts -> Bytes \cup {None}]
  BY NoneAssumption, PassedNext
  DEF LoadContract, Inv, TypeOK, Order, Trusting, Exact, TrustExact, Still,
      TrustStates
<1>2. /\ \/ at < 4 /\ at' = at + 1 /\ pc' = "contract_load"
         \/ at = 4 /\ at' = 1 /\ pc' = "settle"
      /\ IF path \notin Unparsable(disk)
         THEN documents' = [documents EXCEPT ![path] = disk[path]] /\ issues' = issues
         ELSE /\ issues' = [issues EXCEPT !.invalid = @ \cup {path}]
              /\ documents' = documents
      /\ UNCHANGED <<rootDigest, rootBytes, trust, evidence>>
  BY <1>1, PathsAreContracts DEF LoadContract, Unparsable, UnparsableOn, Readable
<1>3. /\ issues'.stale = {} /\ issues'.ambiguous = {} /\ issues'.missing = {}
      /\ issues'.invalid = Unparsable(disk) \cap (Passed \cup {path})
  BY <1>1, <1>2 DEF IssueSets, LoadsExact
<1>4. \A c \in (Passed \cup {path}) \ Unparsable(disk) : documents'[c] = disk[c]
  BY <1>1, <1>2, PassedNext DEF LoadsExact
<1>5. Root' = Root
  BY <1>2 DEF Root
<1>6. /\ pc' = "contract_load" => LoadsExact(Passed)'
      /\ pc' = "settle" => LoadsExact(Contracts)'
  BY <1>1, <1>2, <1>3, <1>4, <1>5, PassedNext DEF LoadsExact
<1>7. RootExact'
  BY <1>1, <1>2 DEF Exact, RootExact, Trusting, Judging
<1>8. TrustExact'
  BY <1>1, <1>2, <1>3, <1>6, NoneAssumption DEF TrustExact, TrustStates
<1>9. JudgementExact'
  BY <1>1, <1>2 DEF JudgementExact
<1> QED BY <1>7, <1>8, <1>9 DEF Exact

LEMMA SettleTrustExact ==
  ASSUME Inv, Exact, Still, SettleTrust
  PROVE  Exact'
<1> DEFINE found == DocumentIssues(Root, Document("identity.json"),
                      Document("ontology.json"), Document("ownership.json"),
                      Document("policy.json"))
<1>1. /\ pc = "settle" /\ pc \in Trusting /\ trust = None /\ evidence = <<>>
      /\ disk' = disk /\ issues.stale = {} /\ issues.ambiguous = {}
      /\ issues \in IssueSets /\ rootBytes \in Bytes /\ rootBytes # None
  BY NoneAssumption, NotAFileAssumption
  DEF SettleTrust, Inv, TypeOK, Order, RootKnown, Trusting, Exact, TrustExact, Still,
      TrustStates
<1>2. /\ disk[TrustRoot] \in Bytes /\ rootDigest = disk[TrustRoot]
      /\ Root = ParseRoot[disk[TrustRoot]] /\ Root # Malformed
  BY <1>1 DEF Exact, RootExact, Loadable, Root
<1>3. \/ Blocking(issues) /\ DigestsExact(Contracts)
      \/ LoadsExact(Contracts)
  BY <1>1 DEF Exact, TrustExact
<1>4. ASSUME Blocking(issues)
      PROVE  TrustOf(issues) = TrustOn(disk) /\ TrustOf(issues) # "verified"
  <2> PICK lacking, altered, flaws : /\ lacking = Lacking(Root, disk)
                                     /\ altered = Altered(Root, disk)
                                     /\ flaws = Flaws(Root)
    OBVIOUS
  <2>1. lacking \subseteq Contracts /\ altered \subseteq Contracts
    BY DeclaredAreContracts DEF Lacking, Altered
  <2>2. CASE DigestsExact(Contracts)
    <3>1. issues.missing = lacking /\ issues.invalid = flaws \cup altered
      BY <2>1, <2>2 DEF DigestsExact
    <3>2. Barred(Root, disk) = {}
      BY <2>2, DeclaredAreContracts DEF DigestsExact, Barred
    <3>3. /\ flaws \cup altered # {} => TrustOn(disk) = "invalid"
          /\ flaws \cup altered = {} /\ lacking # {} => TrustOn(disk) = "missing"
      BY <1>2, <3>2, TrustOfTree
    <3> QED BY <1>4, <3>1, <3>3 DEF TrustOf, Blocking
  <2>3. CASE LoadsExact(Contracts)
    <3>1. issues.missing = {} /\ issues.invalid = Unparsable(disk)
      BY <2>3 DEF LoadsExact, Unparsable
    <3>2. Unparsable(disk) # {}
      BY <1>4, <3>1 DEF Blocking
    <3>3. TrustOn(disk) = "invalid"
      BY <1>2, <2>3, <3>2, TrustOfTree DEF LoadsExact
    <3> QED BY <3>1, <3>2, <3>3 DEF TrustOf
  <2> QED BY <1>3, <2>2, <2>3
<1>5. ASSUME ~ Blocking(issues)
      PROVE  /\ \A c \in Contracts : documents[c] = disk[c]
             /\ TrustOn(disk) =
                  IF ReferenceCheckRaises(Root, Document("identity.json"))
                  THEN "raises" ELSE TrustOf(found)
             /\ TrustOf(SettledIssues) = TrustOf(found)
  <2>1. LoadsExact(Contracts) /\ issues.invalid = {} /\ issues.missing = {}
    BY <1>3, <1>5 DEF Blocking
  <2>2. Unparsable(disk) = {}
    BY <2>1 DEF LoadsExact, Unparsable
  <2>3. \A c \in Contracts : documents[c] = disk[c]
    BY <2>1, <2>2 DEF LoadsExact
  <2>4. /\ Document("identity.json") = ParseContract[disk["identity.json"]]
        /\ Document("ontology.json") = ParseContract[disk["ontology.json"]]
        /\ Document("ownership.json") = ParseContract[disk["ownership.json"]]
        /\ Document("policy.json") = ParseContract[disk["policy.json"]]
    BY <2>3 DEF Document, Contracts
  <2>5. /\ SettledIssues.invalid = found.invalid
        /\ SettledIssues.missing = found.missing
        /\ SettledIssues.stale = found.stale
        /\ SettledIssues.ambiguous = found.ambiguous
    <3> HIDE DEF found
    <3>1. SettledIssues = MergeIssues(issues, found)
      BY <1>5 DEF SettledIssues, found
    <3> QED BY <1>1, <2>1, <3>1 DEF MergeIssues
  <2>6. TrustOf(SettledIssues) = TrustOf(found)
    BY <2>5 DEF TrustOf
  <2> QED BY <1>2, <2>1, <2>2, <2>3, <2>4, <2>6, TrustOfTree DEF LoadsExact
<1> HIDE DEF found
<1>6. Blocking(issues) => SettledIssues = issues
  BY DEF SettledIssues
<1>7. CASE Raise
  BY <1>5, <1>6, <1>7, <1>4, RaiseExact, <1>1 DEF SettleTrust, Raise, Refuse
<1>8. CASE ~ Raise
  <2>1. /\ TrustOf(SettledIssues) = TrustOn(disk)
        /\ ~ (~ Blocking(issues)
                /\ ReferenceCheckRaises(Root, Document("identity.json")))
    BY <1>4, <1>5, <1>6, <1>8 DEF SettleTrust
  <2>2. TrustOf(SettledIssues) # None
    BY NoneAssumption, TrustOfType
  <2>3. CASE TrustOf(SettledIssues) # "verified"
    BY <1>1, <1>2, <2>1, <2>2, <2>3, RefuseExact DEF SettleTrust
  <2>4. CASE TrustOf(SettledIssues) = "verified"
    <3>1. /\ trust' = "verified" /\ pc' = "evidence_path"
          /\ UNCHANGED <<rootDigest, rootBytes, documents, evidence>>
      BY <2>1, <2>4 DEF SettleTrust
    <3>2. \A c \in Contracts : documents[c] = disk[c]
      BY <1>4, <1>5, <1>6, <2>4
    <3>3. RootExact'
      BY <1>1, <1>2, <3>1 DEF Exact, RootExact, Trusting, Judging
    <3>4. TrustExact'
      BY <1>1, <2>1, <2>4, <3>1, <3>2 DEF TrustExact, Trusting
    <3>5. JudgementExact'
      BY <1>1, <3>1 DEF JudgementExact
    <3> QED BY <3>3, <3>4, <3>5 DEF Exact
  <2> QED BY <2>3, <2>4
<1> QED BY <1>7, <1>8

(* A record whose state is the verdict on the tree.                        *)
LEMMA RecordExact ==
  ASSUME Inv, Exact, Still, pc \in Judging \ {"decide"},
         NEW state, NEW sources, NEW digested, NEW content,
         Record(state, sources, digested, content),
         UNCHANGED <<rootDigest, rootBytes, documents, trust>>,
         state = VerdictOn(disk, Rule)
  PROVE  Exact'
<1> PICK rec : rec = [requirement |-> Rule.id,
                      id |-> <<"evidence", Suffix(Rule.id)>>,
                      state |-> state, sources |-> sources,
                      digests |-> digested, content |-> content]
  OBVIOUS
<1>1. /\ at \in 1 .. Len(Rules) /\ Len(evidence) = at - 1 /\ Rule = Rules[at]
      /\ Len(Rules) \in Nat /\ trust = "verified" /\ disk' = disk
  BY JudgingFacts DEF Rule, Still
<1>2. evidence' = Append(evidence, rec) /\ pc' \in {"evidence_path", "decide"}
  BY DEF Record
<1>3. /\ DOMAIN evidence' = 1 .. at /\ DOMAIN evidence = 1 .. at - 1
      /\ \A i \in 1 .. at : evidence'[i] = IF i = at THEN rec ELSE evidence[i]
  <2> DEFINE S == EvidenceRecords \cup {rec}
  <2>1. evidence \in Seq(S) /\ rec \in S
    <3>1. evidence \in Seq(EvidenceRecords)
      BY DEF Inv, TypeOK
    <3>2. \A i \in 1 .. Len(evidence) : evidence[i] \in S
      BY <3>1
    <3> QED BY <3>1, <3>2
  <2> HIDE DEF S
  <2>2. /\ Append(evidence, rec) \in Seq(S)
        /\ Len(Append(evidence, rec)) = Len(evidence) + 1
        /\ \A i \in 1 .. Len(evidence) : Append(evidence, rec)[i] = evidence[i]
        /\ Append(evidence, rec)[Len(evidence) + 1] = rec
    BY <2>1, AppendProperties
  <2>3. Len(evidence) = at - 1 /\ at \in Nat \ {0}
    BY <1>1
  <2> QED BY <1>2, <2>1, <2>2, <2>3
<1>4. Rules' = Rules /\ rec.state = state
  BY DEF Rules, Document
<1>5. RootExact'
  BY <1>1, <1>2 DEF Exact, RootExact, Trusting, Judging
<1>6. TrustExact'
  BY <1>1, <1>2, NoneAssumption DEF Exact, TrustExact, Trusting, TrustStates
<1>7. ASSUME NEW i \in DOMAIN evidence'
      PROVE  evidence'[i].state = VerdictOn(disk', Rules'[i])
  BY <1>1, <1>3, <1>4, <1>7 DEF Exact, JudgementExact
<1>8. JudgementExact'
  BY <1>2, <1>7 DEF JudgementExact
<1> QED BY <1>5, <1>6, <1>8 DEF Exact

(* A step of the judgement that records nothing.                           *)
LEMMA ContinueExact ==
  ASSUME Exact, Still, pc \in Judging \ {"decide"},
         pc' \in Judging \ {"decide"}, trust = "verified",
         UNCHANGED <<at, rootDigest, rootBytes, documents, trust, evidence>>,
         pc' = "evidence_kind" => disk[Rule.source] # Absent,
         pc' = "evidence_digest" => IsFile(Rule.source),
         pc' = "evidence_content" => Readable(Rule.source)
  PROVE  Exact'
<1>1. Rules' = Rules /\ Rule' = Rule /\ disk' = disk
  BY DEF Rule, Rules, Document, Still
<1>2. RootExact'
  BY <1>1 DEF Exact, RootExact, Judging
<1>3. TrustExact'
  BY <1>1, NoneAssumption DEF Exact, TrustExact, Trusting, Judging, TrustStates
<1>4. JudgementExact'
  BY <1>1 DEF Exact, JudgementExact, Judging, IsFile, Readable
<1> QED BY <1>2, <1>3, <1>4 DEF Exact

LEMMA JudgingExact ==
  ASSUME Inv, Safe, Exact, Still,
         FindEvidence \/ CheckEvidenceKind \/ DigestEvidence \/ ReadEvidence
  PROVE  Exact'
<1> PICK entry, rule : entry = disk[Rule.source] /\ rule = Rule
  OBVIOUS
<1>1. /\ pc \in Judging \ {"decide"} /\ trust = "verified"
      /\ pc # "evidence_path" => SafeSource
      /\ SafeSource <=> rule.source \in EvidencePaths
  BY JudgingFacts
  DEF FindEvidence, CheckEvidenceKind, DigestEvidence, ReadEvidence, Judging, Safe,
      SafeSource
<1>2. /\ rule.source \notin EvidencePaths => VerdictOn(disk, rule) = "indeterminate"
      /\ rule.source \in EvidencePaths /\ entry = Absent
           => VerdictOn(disk, rule) = "missing"
      /\ rule.source \in EvidencePaths /\ entry = Directory
           => VerdictOn(disk, rule) = "blocked"
      /\ rule.source \in EvidencePaths /\ entry \in Denied
           => VerdictOn(disk, rule) = "indeterminate"
      /\ rule.source \in EvidencePaths /\ entry \in Bytes
           => VerdictOn(disk, rule) = CheckContent(rule, entry)
  BY NotAFileAssumption DEF VerdictOn
<1>3. SafeSource => entry \in Bytes \cup {Absent, Directory, Unreadable, Inaccessible}
  BY DEF Inv, TypeOK, Entries, Denied, SafeSource, Files
<1>4. /\ Readable(Rule.source) <=> entry \in Bytes
      /\ IsFile(Rule.source) <=> entry \in Bytes \/ entry = Unreadable
      /\ Examinable(Rule.source) <=> entry # Inaccessible
      /\ {Unreadable, Inaccessible} = Denied
      /\ Absent \notin Denied /\ Directory \notin Denied
      /\ Unreadable # Inaccessible /\ Denied \cap Bytes = {}
  BY NotAFileAssumption DEF Readable, IsFile, Examinable, Denied
<1>5. CASE FindEvidence
  <2> UNCHANGED <<rootDigest, rootBytes, documents, trust>>
    BY <1>5 DEF FindEvidence
  <2>1. CASE ~ SafeSource
    <3>1. Record("indeterminate", {}, {}, None)
      BY <1>5, <2>1 DEF FindEvidence
    <3> QED BY <1>1, <1>2, <2>1, <3>1, RecordExact
  <2>2. CASE SafeSource /\ entry = Absent
    <3>1. Record("missing", {Rule.source}, {}, None)
      BY <1>4, <1>5, <2>2 DEF FindEvidence
    <3> QED BY <1>1, <1>2, <2>2, <3>1, RecordExact
  <2>3. CASE SafeSource /\ entry = Inaccessible
    <3>1. Unevaluated({})
      BY <1>4, <1>5, <2>3 DEF FindEvidence
    <3> QED BY <1>1, <1>2, <1>4, <2>3, <3>1, RecordExact DEF Unevaluated
  <2>4. CASE SafeSource /\ entry \notin {Absent, Inaccessible}
    <3>1. ContinueWith("evidence_kind")
      BY <1>4, <1>5, <2>4 DEF FindEvidence
    <3> QED BY <1>1, <2>4, <3>1, ContinueExact DEF ContinueWith, Judging
  <2> QED BY <2>1, <2>2, <2>3, <2>4
<1>6. CASE CheckEvidenceKind
  <2> UNCHANGED <<rootDigest, rootBytes, documents, trust>>
    BY <1>6 DEF CheckEvidenceKind
  <2>1. CASE entry \in Bytes \/ entry = Unreadable
    <3>1. ContinueWith("evidence_digest")
      BY <1>4, <1>6, <2>1 DEF CheckEvidenceKind
    <3> QED BY <1>1, <1>4, <2>1, <3>1, ContinueExact DEF ContinueWith, Judging
  <2>2. CASE entry \notin Bytes /\ entry \notin Denied
    <3>1. Record("blocked", {Rule.source}, {}, None)
      BY <1>4, <1>6, <2>2 DEF CheckEvidenceKind
    <3>2. entry # Absent /\ SafeSource
      BY <1>1, <1>6 DEF CheckEvidenceKind, Exact, JudgementExact
    <3>3. entry = Directory
      BY <1>3, <1>4, <2>2, <3>2
    <3> QED BY <1>1, <1>2, <3>1, <3>2, <3>3, RecordExact
  <2>3. CASE entry = Inaccessible
    <3>1. Unevaluated({}) /\ SafeSource
      BY <1>1, <1>4, <1>6, <2>3 DEF CheckEvidenceKind
    <3> QED BY <1>1, <1>2, <1>4, <2>3, <3>1, RecordExact DEF Unevaluated
  <2> QED BY <1>4, <2>1, <2>2, <2>3
<1>7. CASE DigestEvidence
  <2> UNCHANGED <<rootDigest, rootBytes, documents, trust>>
    BY <1>7 DEF DigestEvidence
  <2>1. (entry \in Bytes \/ entry = Unreadable) /\ SafeSource
    BY <1>1, <1>4, <1>7 DEF DigestEvidence, Exact, JudgementExact
  <2>2. CASE entry \in Bytes /\ rule.check = "path_exists"
    <3>1. Record("satisfied", {Rule.source}, {FileDigest(disk[Rule.source])},
                 disk[Rule.source])
      BY <1>4, <1>7, <2>2 DEF DigestEvidence
    <3>2. CheckContent(rule, entry) = "satisfied"
      BY <2>2 DEF CheckContent
    <3> QED BY <1>1, <1>2, <2>1, <2>2, <3>1, <3>2, RecordExact
  <2>3. CASE entry \in Bytes /\ rule.check # "path_exists"
    <3>1. pc' = "evidence_content" /\ UNCHANGED <<at, evidence>>
      BY <1>4, <1>7, <2>3 DEF DigestEvidence
    <3> QED BY <1>1, <1>4, <2>3, <3>1, ContinueExact DEF Judging
  <2>4. CASE entry = Unreadable
    <3>1. Unevaluated({})
      BY <1>4, <1>7, <2>4 DEF DigestEvidence
    <3> QED BY <1>1, <1>2, <1>4, <2>1, <2>4, <3>1, RecordExact DEF Unevaluated
  <2> QED BY <2>1, <2>2, <2>3, <2>4
<1>8. CASE ReadEvidence /\ ~ Raise
  <2>1. entry \in Bytes /\ SafeSource
    BY <1>1, <1>4, <1>8 DEF ReadEvidence, Exact, JudgementExact
  <2>2. Judged /\ UNCHANGED <<rootDigest, rootBytes, documents, trust>>
    BY <1>4, <1>8, <2>1 DEF ReadEvidence
  <2> QED BY <1>1, <1>2, <2>1, <2>2, RecordExact DEF Judged
<1>9. CASE Raise
  BY <1>1, <1>9, RaiseExact, NoneAssumption DEF TrustStates
<1> QED BY <1>5, <1>6, <1>7, <1>8, <1>9

(* The decision taken from the records is the one taken from the tree.     *)
LEMMA DecideExact ==
  ASSUME Inv, Exact, Still, Decide
  PROVE  Exact'
<1>1. /\ pc = "decide" /\ trust = "verified" /\ Len(evidence) = Len(Rules)
      /\ Len(Rules) \in Nat \ {0} /\ DOMAIN Rules = 1 .. Len(Rules)
      /\ DOMAIN evidence = 1 .. Len(evidence)
      /\ disk' = disk
  BY JudgingFacts DEF Decide, Judging, Inv, TypeOK, TrustEarned, Still
<1>2. CASE Raise
  BY <1>1, <1>2, RaiseExact, NoneAssumption DEF TrustStates
<1>3. CASE ~ Raise
  <2>1. /\ decision' = DecisionOf(Verdicts) /\ pc' = "reported"
        /\ UNCHANGED <<at, rootDigest, rootBytes, documents, trust, evidence>>
    BY <1>3 DEF Decide, Verdicts
  <2>2. Rules' = Rules
    BY <2>1 DEF Rules, Document
  <2>3. DecisionOn(disk) = DecisionOf(Verdicts)
    <3> DEFINE found == {VerdictOn(disk, Rules[i]) : i \in DOMAIN Rules}
    <3>1. found = Verdicts /\ Verdicts # {}
      <4>1. \A i \in 1 .. Len(Rules) : evidence[i].state = VerdictOn(disk, Rules[i])
        BY <1>1 DEF Exact, JudgementExact
      <4>2. 1 \in 1 .. Len(Rules)
        BY <1>1
      <4> QED BY <1>1, <4>1, <4>2 DEF Verdicts
    <3>2. TrustOn(disk) = "verified" /\ documents["policy.json"] = disk["policy.json"]
      BY <1>1, NoneAssumption DEF Exact, TrustExact, TrustStates, Contracts
    <3>3. Rules = ParseContract[disk["policy.json"]].requirements
      BY <3>2 DEF Rules, Document
    <3>4. DecisionOn(disk) =
            IF \A v \in found : v = "satisfied" THEN "READY"
            ELSE IF \E v \in found : v \in {"blocked", "missing"} THEN "HOLD"
            ELSE "INDETERMINATE"
      BY <3>2, <3>3 DEF DecisionOn
    <3> HIDE DEF found
    <3> QED BY <3>1, <3>4 DEF DecisionOf
  <2>4. RootExact'
    BY <1>1, <2>1 DEF Exact, RootExact, Judging
  <2>5. TrustExact'
    BY <1>1, <2>1, NoneAssumption DEF Exact, TrustExact, Trusting, TrustStates
  <2>6. JudgementExact'
    BY <1>1, <2>1, <2>2, <2>3, NoneAssumption DEF Exact, JudgementExact, TrustStates
  <2> QED BY <2>4, <2>5, <2>6 DEF Exact
<1> QED BY <1>2, <1>3

LEMMA ExactNext ==
  Inv /\ Safe /\ (writes = 0 => Exact) /\ [Next]_vars => (writes = 0 => Exact)'
<1> SUFFICES ASSUME Inv, Safe, writes = 0 => Exact, [Next]_vars, writes' = 0
             PROVE  Exact'
  OBVIOUS
<1>1. CASE Evaluate
  <2>1. Still /\ Exact
    BY <1>1 DEF Evaluate, Still
  <2> QED BY <1>1, <2>1, RootStepsExact, ContractStepsExact, LoadContractExact,
             SettleTrustExact, JudgingExact, DecideExact DEF Evaluate
<1>2. CASE \E file \in Files : \E content \in Contents[file] : Change(file, content)
  <2>1. writes' = writes + 1
    BY <1>2 DEF Change
  <2>2. writes \in Nat
    BY MaxWritesAssumption DEF Inv, TypeOK
  <2> QED BY <2>1, <2>2
<1>3. CASE UNCHANGED vars
  <2>1. Exact
    BY <1>3 DEF vars
  <2> QED
    BY <1>3, <2>1
    DEF vars, callVars, Exact, RootExact, TrustExact, JudgementExact, DigestsExact,
        LoadsExact, Root, Rule, Rules, Document, Path, Passed, IsFile, Readable,
        Blocking
<1> QED BY <1>1, <1>2, <1>3 DEF Next, Return

THEOREM StillFilesExact == Spec => [](writes = 0 => Exact)
<1>1. Init => Exact
  BY NoneAssumption
  DEF Init, Exact, RootExact, TrustExact, JudgementExact, NoIssues, Trusting, Judging,
      TrustStates
<1> QED BY <1>1, ExactNext, Inductive, PTL DEF Spec

(* If no file changes while evaluate_context runs, then however its reads  *)
(* are spread over the call it returns the verdict on the tree it started  *)
(* on, and it raises only on a tree whose verdict is an exception or once  *)
(* the contracts are verified.                                             *)
THEOREM UndisturbedExact == Spec => []UndisturbedVerdictIsExact
<1>1. (writes = 0 => Exact) => UndisturbedVerdictIsExact
  <2> SUFFICES ASSUME Exact
               PROVE  /\ pc = "reported" => trust = TrustOn(disk)
                                            /\ decision = DecisionOn(disk)
                      /\ pc = "raised" => TrustOn(disk) \in {"raises", trust}
    BY DEF UndisturbedVerdictIsExact
  <2> QED BY DEF Exact, TrustExact, JudgementExact
<1> QED BY <1>1, StillFilesExact, PTL

-----------------------------------------------------------------------------
(* When the graph is rejected.                                             *)

(* A nonempty set of positions has a last one.                             *)
LEMMA LastExists ==
  ASSUME NEW N \in Nat, NEW S \in SUBSET (1 .. N), S # {}
  PROVE  \E n \in S : \A m \in S : m <= n
<1> DEFINE T == {k \in Nat : N - k \in S}
<1>1. T # {}
  <2>1. PICK s \in S : TRUE
    OBVIOUS
  <2>2. N - s \in T
    OBVIOUS
  <2> QED
    BY <2>2
<1>2. PICK k \in T : \A j \in T : ~ (<<j, k>> \in OpToRel(<, Nat))
  <2>1. T \subseteq Nat
    OBVIOUS
  <2> HIDE DEF T
  <2> QED
    BY <1>1, <2>1, NatLessThanWellFounded, WFMin
<1>3. \A j \in T : ~ (j < k)
  BY <1>2 DEF OpToRel
<1>4. ASSUME NEW m \in S PROVE m <= N - k
  <2>1. N - m \in T
    OBVIOUS
  <2> QED
    BY <1>3, <2>1
<1> QED
  BY <1>4

(* Where the identifiers of different kinds differ, the kind of a node is  *)
(* its own.                                                                *)
LEMMA KindIsOwn ==
  ASSUME NEW nodes, NEW N \in Nat, DOMAIN nodes = 1 .. N,
         \A m, n \in DOMAIN nodes : nodes[m].id = nodes[n].id => nodes[m].kind = nodes[n].kind,
         NEW n \in DOMAIN nodes
  PROVE  KindOf(nodes, nodes[n].id) = nodes[n].kind
<1> DEFINE same == {m \in DOMAIN nodes : nodes[m].id = nodes[n].id}
<1>1. \E l \in same : \A m \in same : m <= l
  <2>1. same # {} /\ same \in SUBSET (1 .. N)
    OBVIOUS
  <2> HIDE DEF same
  <2> QED
    BY <2>1, LastExists
<1>2. (CHOOSE l \in same : \A m \in same : m <= l) \in same
  BY <1>1
<1> QED
  BY <1>2 DEF KindOf

(* The nodes of the authority, then two for each of N items.               *)
Layout(nodes, root, policy, owner, items, N) ==
  /\ DOMAIN nodes = 1 .. 5 + 2 * N
  /\ nodes[1] = Node(root.authority, "authority")
  /\ nodes[2] = Node(owner, "owner")
  /\ nodes[3] = Node(<<"policy", policy>>, "policy")
  /\ nodes[4] = Node(root.target, "release")
  /\ nodes[5] = Node(root.id, "trust-root")
  /\ \A n \in 1 .. N :
       /\ nodes[4 + 2 * n] = Node(items[n].requirement, "requirement")
       /\ nodes[5 + 2 * n] = Node(items[n].id, "evidence")

LEMMA NodesOf ==
  ASSUME NEW root, NEW policy, NEW owner, NEW items, NEW N \in Nat, Len(items) = N,
         NEW nodes, nodes = Nodes(root, policy, owner, items)
  PROVE  Layout(nodes, root, policy, owner, items, N)
<1> DEFINE first == AuthorityNodes(root, policy, owner)
           item(n) == items[(n + 1) \div 2]
           node(n) == IF n % 2 = 1 THEN Node(item(n).requirement, "requirement")
                                   ELSE Node(item(n).id, "evidence")
           rest == [n \in 1 .. 2 * N |-> node(n)]
           S == {first[n] : n \in 1 .. 5} \cup {rest[n] : n \in 1 .. 2 * N}
<1>1. /\ Len(first) = 5 /\ first[1] = Node(root.authority, "authority")
      /\ first[2] = Node(owner, "owner") /\ first[3] = Node(<<"policy", policy>>, "policy")
      /\ first[4] = Node(root.target, "release") /\ first[5] = Node(root.id, "trust-root")
      /\ first = [n \in 1 .. 5 |-> first[n]]
  BY DEF AuthorityNodes
<1>2. first \in Seq(S)
  <2> HIDE DEF first, rest
  <2>1. \A n \in 1 .. 5 : first[n] \in S
    OBVIOUS
  <2> QED
    BY <1>1, <2>1
<1>3. rest \in Seq(S) /\ Len(rest) = 2 * N
  <2>1. 2 * N \in Nat /\ DOMAIN rest = 1 .. 2 * N
    OBVIOUS
  <2>2. rest = [n \in 1 .. 2 * N |-> rest[n]] /\ \A n \in 1 .. 2 * N : rest[n] \in S
    OBVIOUS
  <2> HIDE DEF rest, S
  <2>3. rest \in Seq(S)
    BY <2>1, <2>2
  <2> QED
    BY <2>1, <2>3
<1>4. ASSUME NEW n \in 1 .. N
      PROVE  /\ rest[2 * n - 1] = Node(items[n].requirement, "requirement")
             /\ rest[2 * n] = Node(items[n].id, "evidence")
  <2>1. /\ 2 * n - 1 \in 1 .. 2 * N /\ 2 * n \in 1 .. 2 * N
        /\ ((2 * n - 1) + 1) \div 2 = n /\ (2 * n + 1) \div 2 = n
        /\ (2 * n - 1) % 2 = 1 /\ (2 * n) % 2 = 0
    OBVIOUS
  <2>2. node(2 * n - 1) = Node(items[n].requirement, "requirement")
    BY <2>1
  <2>3. ASSUME NEW k, k % 2 = 0, (k + 1) \div 2 = n
        PROVE  node(k) = Node(items[n].id, "evidence")
    BY <2>3
  <2>4. node(2 * n) = Node(items[n].id, "evidence")
    BY <2>1, <2>3
  <2> QED
    BY <2>1, <2>2, <2>4
<1>5. nodes = first \o rest
  BY DEF Nodes
<1> HIDE DEF first, rest, S
<1>6. /\ DOMAIN (first \o rest) = 1 .. 5 + 2 * N
      /\ \A i \in 1 .. 5 : (first \o rest)[i] = first[i]
      /\ \A i \in 1 .. 2 * N : (first \o rest)[5 + i] = rest[i]
  <2>1. /\ first \o rest \in Seq(S) /\ Len(first \o rest) = 5 + 2 * N
        /\ \A i \in 1 .. 5 + 2 * N :
             (first \o rest)[i] = IF i <= 5 THEN first[i] ELSE rest[i - 5]
    BY <1>1, <1>2, <1>3, ConcatProperties
  <2> PICK all : all = first \o rest
    OBVIOUS
  <2>2. /\ all \in Seq(S) /\ Len(all) = 5 + 2 * N
        /\ \A i \in 1 .. 5 + 2 * N : all[i] = IF i <= 5 THEN first[i] ELSE rest[i - 5]
    BY <2>1
  <2>3. DOMAIN all = 1 .. 5 + 2 * N
    BY <2>2
  <2>4. \A i \in 1 .. 5 : all[i] = first[i]
    BY <2>2
  <2>5. ASSUME NEW i \in 1 .. 2 * N PROVE all[5 + i] = rest[i]
    <3>1. 5 + i \in 1 .. 5 + 2 * N /\ ~ (5 + i <= 5) /\ (5 + i) - 5 = i
      OBVIOUS
    <3> QED
      BY <2>2, <3>1
  <2> QED
    BY <2>3, <2>4, <2>5
<1>7. ASSUME NEW n \in 1 .. N
      PROVE  /\ (first \o rest)[4 + 2 * n] = rest[2 * n - 1]
             /\ (first \o rest)[5 + 2 * n] = rest[2 * n]
  <2>1. /\ 2 * n - 1 \in 1 .. 2 * N /\ 2 * n \in 1 .. 2 * N
        /\ 5 + (2 * n - 1) = 4 + 2 * n
    OBVIOUS
  <2> QED
    BY <1>6, <2>1
<1> QED
  <2>1. \A i \in 1 .. 5 : nodes[i] = first[i]
    BY <1>5, <1>6
  <2>2. \A n \in 1 .. N :
          /\ nodes[4 + 2 * n] = Node(items[n].requirement, "requirement")
          /\ nodes[5 + 2 * n] = Node(items[n].id, "evidence")
    BY <1>4, <1>5, <1>7
  <2>3. DOMAIN nodes = 1 .. 5 + 2 * N
    BY <1>5, <1>6
  <2> QED
    BY <1>1, <2>1, <2>2, <2>3 DEF Layout

(* An ontology with the required relations, all of them triples of strings, *)
(* rejects the graph only if two nodes of different kinds share an         *)
(* identifier.                                                             *)
LEMMA RejectedGraph ==
  ASSUME NEW root, NEW policy, NEW owner, NEW items, NEW N \in Nat, Len(items) = N,
         DOMAIN items = 1 .. N,
         NEW relations, RequiredRelations \subseteq relations,
         Hashable(relations), ~ GraphAccepted(root, policy, owner, items, relations),
         NEW nodes, nodes = Nodes(root, policy, owner, items)
  PROVE  \E m, n \in DOMAIN nodes :
           nodes[m].id = nodes[n].id /\ nodes[m].kind # nodes[n].kind
<1> DEFINE kind(id) == KindOf(nodes, id)
<1> SUFFICES ASSUME \A m, n \in DOMAIN nodes :
                      nodes[m].id = nodes[n].id => nodes[m].kind = nodes[n].kind
             PROVE  FALSE
  OBVIOUS
<1>1. /\ DOMAIN nodes = 1 .. 5 + 2 * N
      /\ nodes[1] = Node(root.authority, "authority")
      /\ nodes[2] = Node(owner, "owner")
      /\ nodes[3] = Node(<<"policy", policy>>, "policy")
      /\ nodes[4] = Node(root.target, "release")
      /\ nodes[5] = Node(root.id, "trust-root")
      /\ \A n \in 1 .. N :
           /\ nodes[4 + 2 * n] = Node(items[n].requirement, "requirement")
           /\ nodes[5 + 2 * n] = Node(items[n].id, "evidence")
  <2>1. Layout(nodes, root, policy, owner, items, N)
    BY NodesOf
  <2> QED
    BY <2>1 DEF Layout
<1>2. \A n \in DOMAIN nodes : kind(nodes[n].id) = nodes[n].kind
  <2>1. 5 + 2 * N \in Nat
    OBVIOUS
  <2> QED
    BY <1>1, <2>1, KindIsOwn
<1>3. /\ kind(root.authority) = "authority" /\ kind(owner) = "owner"
      /\ kind(<<"policy", policy>>) = "policy" /\ kind(root.target) = "release"
      /\ kind(root.id) = "trust-root"
  <2>1. {1, 2, 3, 4, 5} \subseteq DOMAIN nodes
    BY <1>1
  <2> HIDE DEF kind
  <2> QED
    BY <1>1, <1>2, <2>1 DEF Node
<1>4. ASSUME NEW n \in 1 .. N
      PROVE  kind(items[n].requirement) = "requirement" /\ kind(items[n].id) = "evidence"
  <2>1. 4 + 2 * n \in DOMAIN nodes /\ 5 + 2 * n \in DOMAIN nodes
    BY <1>1
  <2>2. /\ nodes[4 + 2 * n] = Node(items[n].requirement, "requirement")
        /\ nodes[5 + 2 * n] = Node(items[n].id, "evidence")
    BY <1>1
  <2>3. /\ nodes[4 + 2 * n].id = items[n].requirement
        /\ nodes[4 + 2 * n].kind = "requirement"
        /\ nodes[5 + 2 * n].id = items[n].id /\ nodes[5 + 2 * n].kind = "evidence"
    BY <2>2 DEF Node
  <2> HIDE DEF kind
  <2> QED
    BY <1>2, <2>1, <2>3
<1> HIDE DEF kind
<1>5. ASSUME NEW e \in Edges(root, policy, owner, items)
      PROVE  <<kind(e[1]), e[2], kind(e[3])>> \in relations
  <2>1. CASE e \in {<<root.authority, "ATTESTS", root.id>>,
                    <<root.id, "AUTHORIZES_OWNER", owner>>,
                    <<root.id, "AUTHORIZES_POLICY", <<"policy", policy>> >>,
                    <<<<"policy", policy>>, "GOVERNS", root.target>>,
                    <<root.target, "OWNED_BY", owner>>}
    BY <1>3, <2>1 DEF RequiredRelations
  <2>2. CASE \E n \in 1 .. N :
               e \in {<<root.target, "RELEASE_REQUIRES", items[n].requirement>>,
                      <<items[n].requirement, EvidenceRelation(items[n]), items[n].id>>}
    BY <1>3, <1>4, <2>2 DEF RequiredRelations, EvidenceRelation
  <2> QED
    BY <2>1, <2>2 DEF Edges
<1> QED
  BY <1>5 DEF GraphAccepted, kind

-----------------------------------------------------------------------------
(* The exceptions.  A digest is taken where a file was found, and a        *)
(* verified ontology has the required relations.                           *)

FilesFound ==
  /\ pc = "root_digest" => seen[TrustRoot] \cap (Bytes \cup Denied) # {}
  /\ pc = "contract_digest" =>
       Path \in Contracts /\ seen[Path] \cap (Bytes \cup Denied) # {}

RelationsKnown ==
  trust = "verified" =>
    RequiredRelations \subseteq Document("ontology.json").allowed_relations

ExceptionsInv == FilesFound /\ RelationsKnown /\ RaisesOnlyWhen

LEMMA RelationsOfDocuments ==
  ASSUME NEW root, NEW identity, NEW ontology, NEW ownership, NEW policy,
         DocumentIssues(root, identity, ontology, ownership, policy) = NoIssues
  PROVE  RequiredRelations \subseteq ontology.allowed_relations
<1> DEFINE rules == Get(policy, "requirements", <<>>)
           checks ==
             [identity_schema  |-> IdentityFields \subseteq DOMAIN identity,
              ontology_schema  |-> OntologyFields \subseteq DOMAIN ontology,
              policy_schema    |-> PolicyFields \subseteq DOMAIN policy,
              ownership_schema |-> OwnershipFields \subseteq DOMAIN ownership,
              requirements     |-> rules # <<>>,
              rule             |-> WellFormedRules(rules),
              rule_ids         |-> WellFormedRules(rules) => DistinctRuleIds(rules),
              relations        |-> RequiredRelations \subseteq
                                     Get(ontology, "allowed_relations", {}),
              kinds            |-> RequiredEntityKinds \subseteq
                                     Get(ontology, "entity_kinds", {})]
<1>1. SchemaIssues(identity, ontology, ownership, policy) = {}
  <2>1. DocumentIssues(root, identity, ontology, ownership, policy).invalid = {}
    BY DEF NoIssues
  <2> QED
    BY <2>1 DEF DocumentIssues
<1>2. \A c \in DOMAIN checks : checks[c]
  BY <1>1, NoneFailed DEF SchemaIssues
<1>3. {"ontology_schema", "relations"} \subseteq DOMAIN checks
  OBVIOUS
<1>4. /\ checks["ontology_schema"] = (OntologyFields \subseteq DOMAIN ontology)
      /\ checks["relations"] =
           (RequiredRelations \subseteq Get(ontology, "allowed_relations", {}))
  OBVIOUS
<1> HIDE DEF checks
<1>5. OntologyFields \subseteq DOMAIN ontology
  BY <1>2, <1>3, <1>4
<1>6. RequiredRelations \subseteq Get(ontology, "allowed_relations", {})
  BY <1>2, <1>3, <1>4
<1>7. "allowed_relations" \in DOMAIN ontology
  BY <1>5 DEF OntologyFields
<1> QED
  BY <1>6, <1>7 DEF Get

(* The grounds for an exception, which no later step takes away.           *)
Unusable(f) == Vanished(f) \/ seen[f] \cap Denied # {}

Grounds ==
  \/ trust = None /\ \E f \in {TrustRoot} \cup Contracts : Unusable(f)
  \/ /\ trust = None /\ documents["identity.json"] # None
     /\ ~ Resolvable(Document("identity.json"))
  \/ trust = "verified" /\ Len(evidence) < Len(Rules) /\ NoStringSelector(Rule)
  \/ /\ trust = "verified" /\ Len(evidence) = Len(Rules)
     /\ \/ IdentifiersCoincide
        \/ ~ Hashable(Document("ontology.json").allowed_relations)

LEMMA GroundsStay ==
  ASSUME Grounds, UNCHANGED <<at, rootBytes, documents, trust, evidence>>,
         \A f \in Files : seen[f] \subseteq seen'[f]
  PROVE  Grounds'
<1>1. ASSUME NEW f \in {TrustRoot} \cup Contracts, Unusable(f)
      PROVE  Unusable(f)'
  BY <1>1 DEF Unusable, Vanished, Files
<1>2. /\ Rules' = Rules /\ Rule' = Rule
      /\ Document("identity.json")' = Document("identity.json")
      /\ Document("ontology.json")' = Document("ontology.json")
  BY DEF Rule, Rules, Document
<1>3. IdentifiersCoincide => IdentifiersCoincide'
  <2> PICK nodes : nodes = Nodes(Root, Document("policy.json").id,
                                 Document("ownership.json").owner_id, evidence)
    OBVIOUS
  <2>1. nodes = Nodes(Root, Document("policy.json").id,
                      Document("ownership.json").owner_id, evidence)'
    BY DEF Root, Document
  <2> QED BY <2>1 DEF IdentifiersCoincide
<1> QED BY <1>1, <1>2, <1>3 DEF Grounds

(* The steps before evidence is opened.                                    *)
LEMMA TrustingExceptions ==
  ASSUME Inv, ExceptionsInv, Still,
         FindRoot \/ DigestRoot \/ LoadRoot \/ FindContract
           \/ DigestContract \/ LoadContract \/ SettleTrust
  PROVE  ExceptionsInv'
<1>1. /\ pc \in Trusting /\ trust = None /\ evidence = <<>>
      /\ disk' = disk /\ seen' = seen
      /\ \A f \in Files : disk[f] \in seen[f]
  BY TrustingSteps, NoneAssumption DEF Inv, Order, Contained, Still, TrustStates
<1>2. None # "verified"
  BY NoneAssumption DEF TrustStates
<1>3. pc' # "raised" => RaisesOnlyWhen'
  BY DEF RaisesOnlyWhen
<1>4. trust' # "verified" => RelationsKnown'
  BY DEF RelationsKnown
<1>5. CASE FindRoot
  <2>1. FilesFound' /\ trust' # "verified"
    BY <1>1, <1>2, <1>5 DEF FindRoot, Refuse, Raise, FilesFound, IsFile, Files, Denied
  <2>2. pc' = "raised" => Unusable(TrustRoot)' /\ trust' = None
    BY <1>1, <1>5 DEF FindRoot, Refuse, Raise, Examinable, Unusable, Files, Denied
  <2>3. RaisesOnlyWhen'
    BY <2>2 DEF RaisesOnlyWhen, Unusable
  <2> QED BY <1>4, <2>1, <2>3 DEF ExceptionsInv
<1>6. CASE LoadRoot \/ LoadContract
  <2>1. pc' \notin {"root_digest", "contract_digest", "raised"} /\ trust' # "verified"
    BY <1>1, <1>2, <1>6 DEF LoadRoot, LoadContract, Refuse
  <2> QED BY <1>3, <1>4, <2>1 DEF ExceptionsInv, FilesFound
<1>7. CASE FindContract
  <2>1. /\ pc' # "root_digest" /\ trust' = trust
        /\ pc' = "contract_digest" => at' = at /\ IsFile(Path)
        /\ pc' = "raised" => ~ Examinable(Path)
        /\ at \in 1 .. 4
    BY <1>7 DEF FindContract, NextContract, Raise, Inv, Order
  <2>2. Path \in Contracts /\ Path \in Files
    BY <2>1, PathsAreContracts DEF Path, Files
  <2>3. FilesFound'
    <3>1. pc' = "contract_digest" => Path' = Path
      BY <2>1 DEF Path
    <3> QED BY <1>1, <2>1, <2>2, <3>1 DEF FilesFound, IsFile, Denied
  <2>4. pc' = "raised" => \E f \in Contracts : Unusable(f)'
    BY <1>1, <2>1, <2>2 DEF Unusable, Examinable, Denied
  <2>5. RaisesOnlyWhen'
    BY <1>1, <2>1, <2>4 DEF RaisesOnlyWhen, Unusable
  <2> QED BY <1>1, <1>2, <1>4, <2>1, <2>3, <2>5 DEF ExceptionsInv
<1>8. CASE DigestRoot
  <2>1. /\ pc = "root_digest" /\ pc' \in {"root_load", "raised"} /\ trust' = trust
        /\ pc' = "raised" => disk[TrustRoot] \notin Bytes
    BY <1>8 DEF DigestRoot, Raise, Readable
  <2>2. pc' = "raised" => Unusable(TrustRoot)'
    BY <1>1, <2>1 DEF Unusable, Vanished, ExceptionsInv, FilesFound, Files
  <2>3. RaisesOnlyWhen'
    BY <1>1, <2>1, <2>2 DEF RaisesOnlyWhen, Unusable
  <2> QED BY <1>1, <1>2, <1>4, <2>1, <2>3 DEF ExceptionsInv, FilesFound
<1>9. CASE DigestContract
  <2>1. /\ pc = "contract_digest" /\ pc' \notin {"root_digest", "contract_digest"}
        /\ trust' = trust
        /\ pc' = "raised" => disk[Path] \notin Bytes
    BY <1>9 DEF DigestContract, NextContract, Raise, Readable
  <2>2. pc' = "raised" => \E f \in Contracts : Unusable(f)'
    BY <1>1, <2>1 DEF Unusable, Vanished, ExceptionsInv, FilesFound, Files
  <2>3. RaisesOnlyWhen'
    BY <1>1, <2>1, <2>2 DEF RaisesOnlyWhen, Unusable
  <2> QED BY <1>1, <1>2, <1>4, <2>1, <2>3 DEF ExceptionsInv, FilesFound
<1>10. CASE SettleTrust
  <2>1. pc = "settle" /\ issues \in IssueSets
    BY <1>10 DEF SettleTrust, Inv, TypeOK
  <2>2. FilesFound'
    BY <1>10 DEF SettleTrust, Refuse, Raise, FilesFound
  <2>3. CASE Raise
    <3>1. /\ ~ Blocking(issues) /\ ReferenceCheckRaises(Root, Document("identity.json"))
          /\ UNCHANGED <<documents, trust>>
      BY <1>10, <2>3 DEF SettleTrust, Raise, Refuse
    <3>2. documents["identity.json"] # None
      BY <2>1, <3>1, NotAFileAssumption DEF Inv, DocumentsKnown, Loaded, Contracts
    <3>3. Document("identity.json")' = Document("identity.json")
      BY <3>1 DEF Document
    <3>4. RaisesOnlyWhen'
      BY <1>1, <3>1, <3>2, <3>3 DEF ReferenceCheckRaises, RaisesOnlyWhen
    <3> QED BY <1>1, <1>2, <1>4, <2>2, <3>1, <3>4 DEF ExceptionsInv
  <2>4. CASE ~ Raise
    <3>1. /\ pc' # "raised" /\ trust' = TrustOf(SettledIssues)
          /\ UNCHANGED documents
      BY <1>10, <2>4 DEF SettleTrust, Refuse
    <3>2. trust' = "verified" =>
            RequiredRelations \subseteq Document("ontology.json").allowed_relations
      BY <2>1, <3>1, SettledClean, RelationsOfDocuments
    <3>3. RelationsKnown'
      BY <3>1, <3>2 DEF RelationsKnown, Document
    <3> QED BY <1>3, <2>2, <3>1, <3>3 DEF ExceptionsInv
  <2> QED BY <2>3, <2>4
<1> QED BY <1>5, <1>6, <1>7, <1>8, <1>9, <1>10

(* The graph of a call whose requirements are all judged.                  *)
LEMMA DecideExceptions ==
  ASSUME Inv, ExceptionsInv, Still, Decide
  PROVE  ExceptionsInv'
<1>1. /\ pc = "decide" /\ trust = "verified" /\ Len(evidence) = Len(Rules)
      /\ Len(Rules) \in Nat /\ pc' \in {"reported", "raised"}
      /\ UNCHANGED <<at, rootBytes, documents, trust, evidence>>
  BY JudgingFacts DEF Decide, Raise, Judging, Inv, TrustEarned
<1>2. DOMAIN evidence = 1 .. Len(evidence) /\ Len(evidence) \in Nat
  BY DEF Inv, TypeOK
<1>3. FilesFound' /\ RelationsKnown'
  BY <1>1 DEF FilesFound, RelationsKnown, ExceptionsInv, Document
<1>4. ASSUME pc' = "raised", Hashable(Document("ontology.json").allowed_relations)
      PROVE  IdentifiersCoincide
  <2> PICK root, policy, owner, items, relations :
        /\ root = Root /\ policy = Document("policy.json").id
        /\ owner = Document("ownership.json").owner_id /\ items = evidence
        /\ relations = Document("ontology.json").allowed_relations
    OBVIOUS
  <2> PICK nodes : nodes = Nodes(root, policy, owner, items)
    OBVIOUS
  <2>1. ~ GraphAccepted(root, policy, owner, items, relations)
    BY <1>4 DEF Decide
  <2>2. RequiredRelations \subseteq relations /\ Hashable(relations)
    BY <1>1, <1>4 DEF ExceptionsInv, RelationsKnown
  <2>3. \E m, n \in DOMAIN nodes :
          nodes[m].id = nodes[n].id /\ nodes[m].kind # nodes[n].kind
    BY <1>2, <2>1, <2>2, RejectedGraph
  <2> QED BY <2>3 DEF IdentifiersCoincide
<1>5. pc' = "raised" => Grounds'
  <2>1. pc' = "raised" => Grounds
    BY <1>1, <1>4 DEF Grounds
  <2> QED BY <1>1, <2>1, GroundsStay DEF Still
<1>6. RaisesOnlyWhen'
  BY <1>5 DEF RaisesOnlyWhen, Grounds, Unusable
<1> QED BY <1>3, <1>6 DEF ExceptionsInv

LEMMA ExceptionsNext ==
  Inv /\ ExceptionsInv /\ [Next]_vars => ExceptionsInv'
<1> SUFFICES ASSUME Inv, ExceptionsInv, [Next]_vars PROVE ExceptionsInv'
  OBVIOUS
<1>1. CASE Evaluate
  <2>1. Still
    BY <1>1 DEF Evaluate, Still
  <2>2. CASE FindRoot \/ DigestRoot \/ LoadRoot \/ FindContract \/ DigestContract
             \/ LoadContract \/ SettleTrust
    BY <2>1, <2>2, TrustingExceptions
  <2>3. CASE FindEvidence \/ CheckEvidenceKind \/ DigestEvidence \/ ReadEvidence
    <3>1. pc' \in Judging \cup {"raised"} /\ trust' = trust
      BY <2>3, JudgingSteps DEF Raise
    <3>2. documents' = documents
      BY <2>3
      DEF FindEvidence, CheckEvidenceKind, DigestEvidence, ReadEvidence, Raise
    <3>3. FilesFound' /\ RelationsKnown'
      BY <3>1, <3>2 DEF ExceptionsInv, FilesFound, RelationsKnown, Judging, Document
    <3>4. ASSUME pc' = "raised" PROVE Grounds'
      <4>1. Raise
        BY <2>3, <3>4, JudgingSteps DEF Judging
      <4>2. ReadEvidence /\ NoStringSelector(Rule)
        BY <2>3, <3>4 DEF FindEvidence, CheckEvidenceKind, DigestEvidence, ReadEvidence,
           Record, ContinueWith, Unevaluated, Judged, CheckRaises
      <4>3. trust = "verified" /\ Len(evidence) < Len(Rules)
        BY <2>3, JudgingSteps, JudgingFacts
      <4>4. Grounds
        BY <4>2, <4>3 DEF Grounds
      <4> QED BY <2>1, <4>1, <4>4, GroundsStay DEF Raise, Still
    <3>5. RaisesOnlyWhen'
      BY <3>4 DEF RaisesOnlyWhen, Grounds, Unusable
    <3> QED BY <3>3, <3>5 DEF ExceptionsInv
  <2>4. CASE Decide
    BY <2>1, <2>4, DecideExceptions
  <2> QED BY <1>1, <2>2, <2>3, <2>4 DEF Evaluate
<1>2. CASE UNCHANGED callVars /\ \A f \in Files : seen[f] \subseteq seen'[f]
  <2>1. UNCHANGED <<pc, at, rootBytes, documents, trust, evidence>>
    BY <1>2 DEF callVars
  <2>2. FilesFound'
    <3>1. pc = "contract_digest" => Path \in Files
      BY DEF ExceptionsInv, FilesFound, Files
    <3>2. Path' = Path
      BY <2>1 DEF Path
    <3> QED BY <1>2, <2>1, <3>1, <3>2 DEF ExceptionsInv, FilesFound, Files
  <2>3. RelationsKnown'
    BY <2>1 DEF ExceptionsInv, RelationsKnown, Document
  <2>4. pc' = "raised" => Grounds'
    <3>1. pc' = "raised" => Grounds
      BY <2>1 DEF ExceptionsInv, RaisesOnlyWhen, Grounds, Unusable
    <3> QED BY <1>2, <2>1, <3>1, GroundsStay
  <2>5. RaisesOnlyWhen'
    BY <2>4 DEF RaisesOnlyWhen, Grounds, Unusable
  <2> QED BY <2>2, <2>3, <2>5 DEF ExceptionsInv
<1>3. CASE \E file \in Files : \E content \in Contents[file] : Change(file, content)
  BY <1>2, <1>3 DEF Change, Inv, TypeOK
<1>4. CASE UNCHANGED vars
  BY <1>2, <1>4 DEF vars
<1> QED BY <1>1, <1>3, <1>4 DEF Next, Return

(* On any files, any documents and any changes to them, an exception       *)
(* leaves evaluate_context only for the causes RaisesOnlyWhen names: before *)
(* trust is settled a trust root or contract that vanished or could not be *)
(* read, or an identity contract that cannot be resolved against; after it *)
(* a rule whose selectors are no strings, or, once every requirement is    *)
(* judged, coinciding identifiers or relations that cannot be hashed.      *)
THEOREM ExceptionsAreKnown == Spec => []RaisesOnlyWhen
<1>1. Init => ExceptionsInv
  BY NoneAssumption
  DEF Init, ExceptionsInv, FilesFound, RelationsKnown, RaisesOnlyWhen, TrustStates
<1>2. (Inv /\ Safe) /\ ExceptionsInv /\ [Next]_vars => ExceptionsInv'
  BY ExceptionsNext
<1>3. ExceptionsInv => RaisesOnlyWhen
  BY DEF ExceptionsInv
<1> QED BY <1>1, <1>2, <1>3, Inductive, PTL DEF Spec
=============================================================================
