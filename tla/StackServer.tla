------------------------------ MODULE StackServer ------------------------------
(***************************************************************************)
(* The three adapters that serve a real Stack to the conformance runner:   *)
(* semantic_packages/stack_adapter.py, implementations/rust and            *)
(* implementations/typescript.                                             *)
(*                                                                         *)
(* A server keeps the stacks it has handed out, in the order of their      *)
(* handles, and the sequence number it expects or has last seen.  Rust     *)
(* keeps a stack bottom first in a slice, the two others keep linked       *)
(* nodes, here the sequence of their values, top first.                    *)
(*                                                                         *)
(* A request is what is left of it after parsing: its number, operation,   *)
(* handle (0 when it names none that was handed out) and value.            *)
(***************************************************************************)
EXTENDS Integers, Sequences, SequencesExt

Languages == {"python", "rust", "typescript"}

NewServer == [stacks |-> <<>>, seq |-> -1]

EmptyOf(lang) == <<>>

PushOnTo(lang, stack, value) ==
  IF lang = "rust" THEN Append(stack, value) ELSE <<value>> \o stack

TopOf(lang, stack)  == IF lang = "rust" THEN Last(stack) ELSE Head(stack)
RestOf(lang, stack) == IF lang = "rust" THEN Front(stack) ELSE Tail(stack)

(* What the server says and what it then holds; an "exit" says nothing and *)
(* ends the process.                                                       *)
Answer(status, seq, tag, value, handle, server) ==
  [status |-> status, seq |-> seq, tag |-> tag, value |-> value, handle |-> handle,
   server |-> server]

Refusal(status, seq, server) == Answer(status, seq, "none", 0, 0, server)

(* register, store, _new_handle: a fresh handle. *)
Store(server, stack) == [server EXCEPT !.stacks = Append(@, stack)]

Live(server, handle) == handle \in DOMAIN server.stacks

(* decode_request and parseRequest refuse a value outside the profile; the *)
(* Python adapter looks at none.                                           *)
InProfile(request) == request.op = "push" => request.value \in -2 .. 2

(* The operation, on a server that has noted the number. *)
Operate(lang, server, request, seq) ==
  LET held == server.stacks[request.handle] IN
  CASE request.op = "empty" ->
         Answer("ok", seq, "stack", 0, Len(server.stacks) + 1, Store(server, EmptyOf(lang)))
    [] request.op = "push" ->
         Answer("ok", seq, "stack", 0, Len(server.stacks) + 1,
                Store(server, PushOnTo(lang, held, request.value)))
    [] request.op = "pop" /\ held = <<>> ->
         Answer("ok", seq, "none", 0, 0, server)
    [] OTHER ->
         Answer("ok", seq, "some", TopOf(lang, held), Len(server.stacks) + 1,
                Store(server, RestOf(lang, held)))

Addressed(server, request) == request.op = "empty" \/ Live(server, request.handle)

(* _handle_request and main: the number of the answer is counted, not read *)
(* from the request.                                                       *)
ServePython(server, request) ==
  LET seq   == server.seq + 1
      noted == [server EXCEPT !.seq = seq] IN
  IF Addressed(server, request)
  THEN Operate("python", noted, request, seq)
  ELSE Refusal("error", seq, noted)

(* decode_request, respond and run: what cannot be decoded ends the        *)
(* process, a number that does not increase or a handle that is not live   *)
(* is an error answer; the number of the latter is noted.                  *)
ServeRust(server, request) ==
  LET noted == [server EXCEPT !.seq = request.seq] IN
  IF ~InProfile(request)
  THEN Refusal("exit", request.seq, server)
  ELSE IF request.seq <= server.seq
  THEN Refusal("error", request.seq, server)
  ELSE IF ~Addressed(server, request)
  THEN Refusal("error", request.seq, noted)
  ELSE Operate("rust", noted, request, request.seq)

(* parseRequest and execute: every fault is thrown to the top. *)
ServeTypescript(server, request) ==
  IF request.seq > server.seq /\ InProfile(request) /\ Addressed(server, request)
  THEN Operate("typescript", [server EXCEPT !.seq = request.seq], request, request.seq)
  ELSE Refusal("exit", request.seq, server)

ServeStack(lang, server, request) ==
  CASE lang = "python"     -> ServePython(server, request)
    [] lang = "rust"       -> ServeRust(server, request)
    [] lang = "typescript" -> ServeTypescript(server, request)

=============================================================================
