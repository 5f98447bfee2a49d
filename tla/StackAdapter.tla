----------------------------- MODULE StackAdapter -----------------------------
(***************************************************************************)
(* The adapters a Stack campaign is made against: what one answers to      *)
(* empty, push and pop.  They are the servers of StackServer and the       *)
(* semantic modes of fixtures/adapters/v1/fake_stack_adapter.py.           *)
(*                                                                         *)
(* A handle is the place of a stack in the heap.  A stack knows the stack  *)
(* it was pushed on, which only the mode that changes ancestors looks at.  *)
(* What the adapter counts (pops of non-empty stacks in one mode, of the   *)
(* watched stack in another) is told apart no further than CountCap.       *)
(***************************************************************************)
EXTENDS Integers, Sequences, SequencesExt, StackServer

CountCap == 3

NewAdapter(mode) == IF mode \in Languages THEN NewServer ELSE [heap |-> <<>>, count |-> 0]

(* The handles given so far. *)
Given(mode, adapter) == Len(IF mode \in Languages THEN adapter.stacks ELSE adapter.heap)

(* The runner numbers its requests from zero. *)
Served(lang, server, op, handle, value) ==
  ServeStack(lang, server, [seq |-> server.seq + 1, op |-> op, handle |-> handle, value |-> value])

(* What an answer says: its status, and of a pop the tag. *)
Says(tag, value, handle, adapter) ==
  [status |-> "ok", tag |-> tag, value |-> value, handle |-> handle, adapter |-> adapter]

SaidByServer(answer) ==
  [status |-> answer.status, tag |-> answer.tag, value |-> answer.value,
   handle |-> answer.handle, adapter |-> answer.server]

Stack(contents, parent) == [contents |-> contents, parent |-> parent, changed |-> FALSE]

(* _new_handle: fresh, unless equal contents share a handle. *)
Allocate(mode, heap, contents, parent) ==
  LET same == {h \in DOMAIN heap : heap[h].contents = contents} IN
  IF mode = "interned" /\ same # {}
  THEN [handle |-> CHOOSE h \in same : TRUE, heap |-> heap]
  ELSE [handle |-> Len(heap) + 1, heap |-> Append(heap, Stack(contents, parent))]

(* _change_retained_ancestor: once for each source that was itself pushed. *)
ChangeAncestor(mode, heap, source) ==
  LET ancestor == heap[source].parent IN
  IF mode = "retained-ancestor-change" /\ ancestor # 0 /\ ~heap[source].changed
  THEN [heap EXCEPT ![ancestor].contents = Append(@, -2), ![source].changed = TRUE]
  ELSE heap

(* respond, for "empty". *)
Emptied(mode, adapter) ==
  LET made == Allocate(mode, adapter.heap, <<>>, 0)
  IN  Says("stack", 0, made.handle, [adapter EXCEPT !.heap = made.heap])

(* respond, for "push". *)
Pushed(mode, adapter, source, value) ==
  LET heap  == adapter.heap
      grown == <<value>> \o heap[source].contents
      inPlace == [heap EXCEPT ![source].contents = grown]
      made == CASE mode = "destructive-push" ->
                     Allocate(mode, inPlace, grown, source)
                [] mode = "destructive-push-nonempty" /\ heap[source].contents # <<>> ->
                     [handle |-> source, heap |-> inPlace]
                [] OTHER ->
                     Allocate(mode, heap, grown, source)
  IN  Says("stack", 0, made.handle,
           [adapter EXCEPT !.heap = ChangeAncestor(mode, made.heap, source)])

(* The generated state whose second pop one mode answers wrongly. *)
Terminal == <<0, 0, 0, 0, 2, -1, 2, -1>>

(* respond, for "pop" of a stack that is not empty. *)
PoppedTop(mode, adapter, source) ==
  LET heap     == adapter.heap
      contents == heap[source].contents
      fromBottom == /\ Len(contents) >= 2
                    /\ \/ mode \in {"bottom-first", "shallow-liar"}
                       \/ mode = "case-local-causes" /\ adapter.count > 0
      offByOne == mode = "wrong-value" \/ (mode = "case-local-causes" /\ adapter.count = 0)
      terminal == /\ mode = "wrong-generated-terminal-remainder"
                  /\ heap[source].parent # 0
                  /\ contents = Terminal
      count    == IF (mode = "case-local-causes" \/ terminal) /\ adapter.count < CountCap
                  THEN adapter.count + 1 ELSE adapter.count
      taken    == IF fromBottom THEN Last(contents) ELSE Head(contents)
      left     == IF fromBottom THEN Front(contents) ELSE Tail(contents)
      shown    == IF mode = "wrong-remainder" /\ Len(contents) >= 2 THEN <<>>
                  ELSE IF terminal /\ count = 2 THEN <<-2>> \o left
                  ELSE left
      kept     == IF mode = "destructive-pop" THEN [heap EXCEPT ![source].contents = left] ELSE heap
      made     == Allocate(mode, kept, shown, 0)
  IN  Says("some", IF offByOne THEN taken + 1 ELSE taken, made.handle,
           [heap |-> ChangeAncestor(mode, made.heap, source), count |-> count])

(* respond, for "pop". *)
Popped(mode, adapter, source) ==
  LET empty == adapter.heap[source].contents = <<>> IN
  IF mode = "nonterminating-observation" \/ (mode = "wrong-empty" /\ empty)
  THEN Says("some", 0, source, adapter)
  ELSE IF empty
  THEN Says("none", 0, 0, adapter)
  ELSE PoppedTop(mode, adapter, source)

(* The answer to a request; one mode refuses them all. *)
Respond(mode, adapter, op, source, value) ==
  CASE mode \in Languages    -> SaidByServer(Served(mode, adapter, op, source, value))
    [] mode = "status-error" -> [Says("none", 0, 0, adapter) EXCEPT !.status = "error"]
    [] mode \notin Languages \cup {"status-error"} /\ op = "empty" -> Emptied(mode, adapter)
    [] mode \notin Languages \cup {"status-error"} /\ op = "push"  -> Pushed(mode, adapter, source, value)
    [] OTHER                 -> Popped(mode, adapter, source)

(* _events: only one mode reports what the plan forbids. *)
ReportsForbidden(mode) == mode = "forbidden-event"

=============================================================================
