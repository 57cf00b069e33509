----------------------- MODULE MCAuthorityProvenance -----------------------
(***************************************************************************)
(* Bundles with two trust anchors and a recovery anchor (1 to 3), two      *)
(* introductions (4, 5), one more of them, a revocation or a claim (6) and *)
(* a claim (7); reports that are right about them and reports that are     *)
(* not.  K1 and K2 are the identities of a lineage at two epochs, R that   *)
(* of the recovery anchor.                                                 *)
(***************************************************************************)
EXTENDS AuthorityProvenance, TLC

MCIds == 1 .. 7

Identity(lineage, epoch) ==
  [issuer |-> "issuer", lineage |-> lineage, epoch |-> epoch, key |-> epoch]
K1 == Identity("releases", 1)
K2 == Identity("releases", 2)
R == Identity("recovery", 1)

Anchor(kind, identity) == [kind |-> kind, introduces |-> identity]
Entry(kind, signer, identity) ==
  [kind |-> kind, signer |-> signer, introduces |-> identity]
Following(previous, entry) == entry @@ [predecessor |-> previous]

Menu(previous) ==
  {Entry("delegation", K1, K2), Entry("delegation", K2, K1)}
    \cup {Following(p, Entry("rotation", K1, K2)) : p \in {1, previous}}
    \cup {Following(p, Entry("recovery", R, K2)
                    @@ [compromised |-> [issuer |-> "issuer", lineage |-> "releases"]]) :
            p \in {1, previous}}

Revocation == Entry("revocation", K2, None)
Claim(identity) == Entry("claim", identity, None)

RecordsOf(fourth, fifth, sixth) ==
  <<Anchor("trust_anchor", K1), Anchor("trust_anchor", K2),
    Anchor("recovery_anchor", R), fourth, fifth, sixth, Claim(K2)>>

(* What the oracle leaves out of its decision, and the record it does not  *)
(* find VALID with what it finds of it.                                    *)
Findings == {<<{}, 0, "VALID">>, <<{2, 3}, 0, "VALID">>, <<{1}, 2, "UNRESOLVED">>,
             <<{4}, 5, "INVALID">>, <<{}, 6, "NONMATCHING">>}

BundleOf(fourth, fifth, sixth, order, finding) ==
  [records |-> RecordsOf(fourth, fifth, sixth), order |-> <<1, 2, 3>> \o order,
   decisive |-> MCIds \ finding[1],
   classification |-> [id \in MCIds |-> IF id = finding[2] THEN finding[3] ELSE "VALID"]]

MCBundles ==
  {BundleOf(fourth, fifth, sixth, f[1], f[2]) :
     fourth \in Menu(5), fifth \in Menu(4),
     sixth \in {Entry("delegation", K1, K2), Revocation, Claim(K1)},
     f \in {<<<<4, 5, 6, 7>>, finding>> : finding \in Findings}
            \cup {<<<<7, 6, 5, 4>>, <<{}, 0, "VALID">>>>}}

-----------------------------------------------------------------------------

In(b) == INSTANCE AuthorizationPath WITH bundle <- b

Heads(b) == IF b.records[4].introduces = K2 THEN {4} ELSE {2}

(* What a report can depend on, in the order it has to list it.            *)
Pairs ==
  LET types == <<"identity_introduction", "lineage_head", "recovery", "revocation">>
  IN  [n \in 1 .. 28 |-> <<types[((n - 1) \div 7) + 1], ((n - 1) % 7) + 1>>]

Needs(b, pair) ==
  /\ pair[2] \in b.decisive
  /\ \/ pair[1] = b.records[pair[2]].kind
     \/ pair[1] = "lineage_head" /\ pair[2] \in Heads(b)
     \/ pair[1] = "identity_introduction" /\ pair[2] \in 1 .. 6
                                          /\ b.records[pair[2]].introduces # None

(* All of it, with the least path where there is one.                      *)
Complete(b) ==
  LET paths == In(b)!AllPaths
      least == {p \in paths :
                  \A q \in paths : Last(q) = Last(p) => ~ In(b)!Before(q, p)}
      depend(pair) ==
        [type |-> pair[1], id |-> pair[2],
         path |-> LET to == {p \in least : Last(p) = pair[2]}
                  IN  IF to = {} THEN <<pair[2]>> ELSE CHOOSE p \in to : TRUE]
      add(list, pair) == IF Needs(b, pair) THEN Append(list, depend(pair)) ELSE list
  IN  FoldLeft(add, <<>>, Pairs)

(* The same but for one record or two, with one dependency twice, with one *)
(* too many, or with a path that is not the least.                         *)
Deviations(complete) ==
  {SelectSeq(complete, LAMBDA d : d.id \notin omitted) :
     omitted \in {{id} : id \in MCIds} \cup {{4, 5}}}
  \cup {<<Head(complete)>> \o complete,
        Append(complete, [type |-> "revocation", id |-> 7, path |-> <<2, 7>>])}
  \cup {[i \in DOMAIN complete |->
           IF complete[i].id = id THEN [complete[i] EXCEPT !.path = path]
           ELSE complete[i]] :
         id \in {4, 5}, path \in {<<1, 4>>, <<1, 5>>, <<3, 4>>, <<1, 2>>, <<5>>}}

Chain(b, records) ==
  LET claim == Last(records)
  IN  [claim |-> claim, issuer |-> b.records[claim].signer.issuer, records |-> records]

Middles == {<<>>, <<4>>, <<5>>, <<6>>, <<4, 5>>, <<5, 4>>, <<6, 4>>}

ChainsTo7(b) == {Chain(b, <<anchor>> \o middle \o <<7>>) : anchor \in {1, 2}, middle \in Middles}

Output(rule, reasons, evidenceRules, oracle) ==
  LET row == VRules[rule].triplet
  IN  [disposition |-> row[1], mechanism |-> row[2], authority |-> row[3],
       reasons |-> reasons, oracle |-> oracle,
       rules |-> IF ~ oracle THEN {}
                 ELSE {rule} \cup evidenceRules
                      \cup (IF row[2] = "CONFORMANT"
                            THEN {AUTHORITY_TO_OA_RULE[row[3]]} ELSE {}),
       contracts |-> row[3] = "VALID", evidence |-> row[3] = "VALID",
       unevaluated |-> IF row[3] = "VALID" THEN <<>> ELSE <<"contract", "evidence">>]

Ready == Output("V1_READY", {"ALL_REQUIREMENTS_SATISFIED"}, {"OE8_ALL_SATISFIED"}, TRUE)
Hold == Output("V2_HOLD", {"POLICY_UNSATISFIED", "AUTHORITY_VALID"}, {}, FALSE)
Conflict == Output("V4_AUTHORITY_CONFLICT", {"VALID_ISSUER_CONFLICT"}, {}, TRUE)
Invalid == Output("V5_AUTHORITY_INVALID", {"AUTHORITY_INVALID"}, {}, FALSE)
Unknown == Output("V6_AUTHORITY_UNKNOWN", {"AUTHORITY_INDETERMINATE"}, {}, TRUE)
Broken == Output("V7_MECHANISM_NONCONFORMANT", {"MECHANISM_NONCONFORMANT"}, {}, TRUE)
Unsure == Output("V8_MECHANISM_UNKNOWN", {"MECHANISM_INDETERMINATE"}, {}, FALSE)

(* Outputs that break their contract, and two right ones about evidence.   *)
OddOutputs ==
  {Output("V1_READY", {"AUTHORITY_VALID"}, {"OE8_ALL_SATISFIED"}, TRUE),
   Output("V1_READY", Ready.reasons \cup {"POLICY_UNSATISFIED"}, {}, FALSE),
   Output("V1_READY", Ready.reasons, {}, TRUE),
   Output("V1_READY", Ready.reasons, {"OE2_POLICY_FALSE"}, TRUE),
   Output("V3_EVIDENCE_UNKNOWN", {"EVIDENCE_UNREADABLE"}, {"OE4_UNREADABLE"}, TRUE),
   Output("V2_HOLD", {"POLICY_UNSATISFIED"}, {"OE2_POLICY_FALSE"}, TRUE),
   [Ready EXCEPT !.unevaluated = <<"evidence">>], [Ready EXCEPT !.evidence = FALSE],
   [Ready EXCEPT !.rules = @ \ {"OA1_VALID"}], [Hold EXCEPT !.unevaluated = <<"contract">>],
   [Invalid EXCEPT !.unevaluated = <<>>], [Broken EXCEPT !.rules = @ \cup {"OA4_UNKNOWN"}]}

Says(output, chains, dependencies, b) ==
  output @@ [heads |-> Heads(b), chains |-> chains, dependencies |-> dependencies]

ReportsWith(b, complete) ==
  LET plain == b.order[4] = 4 /\ b.decisive \in {MCIds, MCIds \ {2, 3}}
      deviations == IF plain THEN Deviations(complete) ELSE {}
      best == <<Chain(b, <<1, 4, 7>>)>>
      rivals == {Chain(b, <<1, 4, 7>>)}
                  \cup {Chain(b, <<1, id>>) : id \in {i \in {6} : b.records[i].kind = "claim"}}
      conflicts == {<<one, two>> : one \in rivals,
                                   two \in {Chain(b, <<2, 7>>), Chain(b, <<1, 4, 7>>)}}
  IN  {Says(output, <<>>, complete, b) : output \in {Unsure, Broken, Invalid, Unknown, Ready}}
      \cup {Says(Ready, <<chain>>, complete, b) : chain \in ChainsTo7(b)}
      \cup {Says(Hold, best, d, b) : d \in deviations}
      \cup {Says(output, best, complete, b) : output \in IF plain THEN OddOutputs ELSE {}}
      \cup {Says(Conflict, chains, complete, b) : chains \in conflicts}

ReportsOn(b) == UNION {ReportsWith(b, complete) : complete \in {Complete(b)}}

MCReports == [b \in MCBundles |-> ReportsOn(b)]
============================================================================
