----------------------------- MODULE Documents -----------------------------
(***************************************************************************)
(* Conventions every module shares about files and the documents parsed    *)
(* out of them.                                                            *)
(*                                                                         *)
(* Bytes.  The content of a file is an opaque member of Bytes.  SHA-256 is *)
(* taken to be injective, so the digest of a file is its content.          *)
(*                                                                         *)
(* Documents.  A JSON object whose keys are checked for presence is a      *)
(* record; its DOMAIN is the set of keys present.  Malformed is what a     *)
(* parser yields on bytes that make it raise.  Where a string is expected, *)
(* Composite stands for any array or object.                               *)
(*                                                                         *)
(* Identifiers.  "kind:rest" is <<kind, rest>>, the result of splitting at *)
(* the first colon; an identifier that has no colon is <<rest>>.           *)
(***************************************************************************)
EXTENDS Integers, Sequences

CONSTANTS Bytes,        \* the contents a file may have
          None,         \* Python's None
          Malformed,    \* what a parser yields when it raises
          Composite     \* an array or an object in the place of a string

(* _file_digest                                                            *)
FileDigest(bytes) == bytes

(* document.get(key, default)                                              *)
Get(document, key, default) ==
  IF key \in DOMAIN document THEN document[key] ELSE default

(* The names of the checks of a record of truth values that do not hold.   *)
Failed(checks) == {c \in DOMAIN checks : ~ checks[c]}

(* identifier.split(":", 1)[-1]                                            *)
Suffix(id) == id[Len(id)]
============================================================================
