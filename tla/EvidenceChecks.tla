--------------------------- MODULE EvidenceChecks ---------------------------
(***************************************************************************)
(* What each kind of requirement check says of the bytes of an evidence    *)
(* file.  Json, Toml and Text are what the parsers make of those bytes:    *)
(*     Json[b]  Malformed, or [fields |-> coordinate -> scalar,            *)
(*              arrays |-> coordinate -> set of items], the coordinates    *)
(*              being the dotted selectors a rule may name                 *)
(*     Toml[b]  Malformed, or a function from coordinate to scalar         *)
(*     Text[b]  Malformed (not UTF-8), or the set of witnesses it contains *)
(* A rule is a record whose DOMAIN is the set of keys the policy gives it. *)
(* Its expected fields are a function of selectors; None is one that is no *)
(* string, which they can have when they are spelled as a list of pairs.   *)
(***************************************************************************)
EXTENDS Documents

CONSTANTS Json, Toml, Text

Verdict(holds) == IF holds THEN "satisfied" ELSE "blocked"

(* rule.get("expected", "path exists")                                     *)
Expected(rule) == Get(rule, "expected", "path exists")

TomlFieldEquals(rule, document) ==
  IF \/ document = Malformed
     \/ "selector" \notin DOMAIN rule
     \/ rule.selector \notin DOMAIN document
  THEN "indeterminate"
  ELSE Verdict(document[rule.selector] = Expected(rule))

(* A coordinate the document lacks reads as "<missing>": it blocks, it     *)
(* does not make the requirement indeterminate.                            *)
Observed(document, selector) ==
  IF selector \in DOMAIN document.fields
  THEN document.fields[selector] ELSE "<missing>"

(* The selectors are sorted before use, which fails if only some of them   *)
(* are strings.                                                            *)
JsonFieldsEqual(rule, document) ==
  IF \/ document = Malformed
     \/ "expected_fields" \notin DOMAIN rule
     \/ None \in DOMAIN rule.expected_fields
  THEN "indeterminate"
  ELSE Verdict(\A s \in DOMAIN rule.expected_fields :
                 Observed(document, s) = rule.expected_fields[s])

JsonArrayContains(rule, document) ==
  IF \/ document = Malformed
     \/ ~ {"selector", "match_field"} \subseteq DOMAIN rule
     \/ rule.selector \notin DOMAIN document.arrays
  THEN "indeterminate"
  ELSE Verdict(\E item \in document.arrays[rule.selector] :
                 /\ rule.match_field \in DOMAIN item
                 /\ item[rule.match_field] = Expected(rule))

TextContainsAll(rule, text) ==
  IF text = Malformed \/ "expected_values" \notin DOMAIN rule
  THEN "indeterminate"
  ELSE Verdict(rule.expected_values \subseteq text)

(* A selector that is no string cannot be split at its dots: that is an    *)
(* AttributeError, which is not among the exceptions caught.               *)
NoStringSelector(rule) ==
  /\ rule.check = "json_fields_equal"
  /\ "expected_fields" \in DOMAIN rule /\ DOMAIN rule.expected_fields = {None}

CheckRaises(rule, bytes) == NoStringSelector(rule) /\ Json[bytes] # Malformed

(* The verdict of a check on content that was read; an unsupported check   *)
(* and every parse error are caught and leave the requirement open.        *)
CheckContent(rule, bytes) ==
  CASE rule.check = "path_exists"         -> "satisfied"
    [] rule.check = "toml_field_equals"   -> TomlFieldEquals(rule, Toml[bytes])
    [] rule.check = "json_fields_equal"   -> JsonFieldsEqual(rule, Json[bytes])
    [] rule.check = "json_array_contains" -> JsonArrayContains(rule, Json[bytes])
    [] rule.check = "text_contains_all"   -> TextContainsAll(rule, Text[bytes])
    [] OTHER                              -> "indeterminate"
=============================================================================
