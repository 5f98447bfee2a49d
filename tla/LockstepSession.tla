--------------------------- MODULE LockstepSession ---------------------------
(***************************************************************************)
(* What one conformance session promises its caller, whatever the child    *)
(* process does: semantic marks come only from exchanges made before the   *)
(* first execution failure, the verdict is given once, when no child is    *)
(* left running and the session has either failed or completed every call, *)
(* and an execution failure outranks every semantic mark.                  *)
(*                                                                         *)
(* StackSession (semantic_packages/stack_runner.py) and OrderedMapSession  *)
(* (ordered_map_runner.py) implement it.                                   *)
(***************************************************************************)
EXTENDS Naturals

CONSTANT NumCalls   \* the calls the campaign makes when nothing fails

VARIABLES
  accepted,   \* exchanges completed
  marks,      \* what the accepted answers said against the specification
  failed,     \* an execution failure was recorded
  running,    \* the child process runs
  verdict     \* "none" until the report is made

vars == <<accepted, marks, failed, running, verdict>>

Marks == {"challenges", "inconclusive"}

(* summarize_stack_conformance: error, then challenges, then inconclusive. *)
Judge(f, m) ==
  IF f THEN "error"
  ELSE IF "challenges" \in m THEN "challenges"
  ELSE IF m = {} THEN "supports"
  ELSE "inconclusive"

Init ==
  /\ accepted = 0
  /\ marks = {}
  /\ failed = FALSE
  /\ running = FALSE
  /\ verdict = "none"

(* The child is started; nothing was exchanged before. *)
Begin ==
  /\ ~running
  /\ accepted = 0
  /\ verdict = "none"
  /\ running' = TRUE
  /\ UNCHANGED <<accepted, marks, failed, verdict>>

(* The child ends, of its own accord or by a signal. *)
End ==
  /\ running
  /\ running' = FALSE
  /\ UNCHANGED <<accepted, marks, failed, verdict>>

(* An answer is accepted; it may itself report the failure of the call. *)
Exchange ==
  /\ ~failed
  /\ verdict = "none"
  /\ accepted < NumCalls
  /\ accepted' = accepted + 1
  /\ \E m \in SUBSET Marks : marks' = marks \cup m
  /\ failed' \in BOOLEAN
  /\ UNCHANGED <<running, verdict>>

(* The session fails outside an exchange. *)
Fail ==
  /\ ~failed
  /\ verdict = "none"
  /\ failed' = TRUE
  /\ UNCHANGED <<accepted, marks, running, verdict>>

(* The verdict, once. *)
Report ==
  /\ verdict = "none"
  /\ ~running
  /\ failed \/ accepted = NumCalls
  /\ verdict' = Judge(failed, marks)
  /\ UNCHANGED <<accepted, marks, failed, running>>

Next == Begin \/ End \/ Exchange \/ Fail \/ Report

Spec == Init /\ [][Next]_vars

=============================================================================
