----------------------------- MODULE SourceCapture -----------------------------
(***************************************************************************)
(* How a pinned file and a set of source roots are read:                   *)
(* canonical_artifact.py and _finite_source.py.                            *)
(*                                                                         *)
(* An entry of the file system has a type.  The body of a file that is     *)
(* opened by its pin has a syntax, a meaning and a layout: the digest of   *)
(* its bytes covers both, the digest of its canonical form the meaning     *)
(* alone.  Other files are records, given by their digest.                 *)
(***************************************************************************)
EXTENDS Naturals, FiniteSets

CONSTANT Broken   \* the problem with each digest that is no record's

(* _lexical_source_error: every component of the path is looked at.        *)
LexicalProblems(entry) ==
  CASE entry.type = "absent"                     -> {"INPUT_NOT_FOUND"}
    [] entry.type \in {"link", "under-a-link"}   -> {"INPUT_SYMLINK"}
    [] entry.type = "directory"                  -> {"INPUT_UNSUPPORTED_TYPE"}
    [] OTHER                                     -> {}

(* _read_regular_file, once it has looked: only the last component is not  *)
(* followed when it has become a link.                                     *)
OpenProblems(entry) ==
  CASE entry.type = "absent"                     -> {"INPUT_NOT_FOUND"}
    [] entry.type = "link"                       -> {"INPUT_READ_ERROR"}
    [] entry.type = "directory"                  -> {"INPUT_UNSUPPORTED_TYPE"}
    [] entry.body.syntax = "too-large"           -> {"INPUT_TOO_LARGE"}
    [] entry.body.syntax = "not-utf8"            -> {"INPUT_INVALID_UTF8"}
    [] OTHER                                     -> {}

(* _parse_json. *)
ParseProblems(body) ==
  CASE body.syntax = "duplicate-member"          -> {"ARTIFACT_DUPLICATE_MEMBER"}
    [] body.syntax = "nested"                    -> {"ARTIFACT_NESTING_LIMIT"}
    [] body.syntax = "malformed"                 -> {"INPUT_INVALID_JSON"}
    [] OTHER                                     -> {}

CanonicalDigest(body) == body.meaning

RawDigest(body) == <<body.meaning, body.layout>>

(* inspect_json_artifact, after both files are read: the first problem.  A *)
(* schema admits some meanings, or is not a schema.  A pin is of a kind.   *)
DecodeProblems(body, schema, pin) ==
  IF ParseProblems(body) # {} THEN ParseProblems(body)
  ELSE IF ParseProblems(schema) # {} THEN ParseProblems(schema)
  ELSE IF schema.meaning = "no-schema" THEN {"ARTIFACT_SCHEMA_CONTRACT_ERROR"}
  ELSE IF schema.meaning = "rejects" THEN {"ARTIFACT_SCHEMA_INVALID"}
  ELSE IF pin.kind = "canonical" /\ pin.digest # CanonicalDigest(body)
       THEN {"ARTIFACT_CANONICAL_DIGEST_MISMATCH"}
  ELSE IF pin.kind = "raw" /\ pin.digest # RawDigest(body) THEN {"ARTIFACT_RAW_DIGEST_MISMATCH"}
  ELSE {}

-----------------------------------------------------------------------------
(* _discover_root.  A link below a root is reported and not followed; what *)
(* else is not a regular file is passed over.                              *)

RootProblems(type) ==
  CASE type = "absent"                           -> {"INPUT_NOT_FOUND"}
    [] type \in {"link", "under-a-link"}         -> {"INPUT_SYMLINK"}
    [] type = "file"                             -> {"INPUT_NON_JSON"}
    [] type = "special"                          -> {"INPUT_UNSUPPORTED_TYPE"}
    [] type = "unreadable"                       -> {"INPUT_READ_ERROR"}
    [] OTHER                                     -> {}

Discovered(type, entries) ==
  [paths    |-> IF RootProblems(type) # {} THEN {} ELSE {p \in DOMAIN entries : entries[p].type = "file"},
   problems |-> RootProblems(type)
                  \cup (IF RootProblems(type) = {} /\ \E p \in DOMAIN entries : entries[p].type = "link"
                        THEN {"INPUT_SYMLINK"} ELSE {})]

(* _observe_finite_source opens what was discovered, a link in its place   *)
(* included, and keeps what is a record.                                   *)
RecordProblems(entry) ==
  IF entry.type = "absent" THEN {"INPUT_READ_ERROR"}
  ELSE IF entry.digest \in DOMAIN Broken THEN {Broken[entry.digest]}
  ELSE {}

EmptyProblems(paths, problems) ==
  IF paths = {} /\ problems = {} THEN {"INPUT_EMPTY_SOURCE_SET"} ELSE {}

=============================================================================
