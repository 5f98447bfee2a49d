----------------------------- MODULE LeaseSession -----------------------------
(***************************************************************************)
(* One lease as its specification, its implementations and the campaign    *)
(* plan see it: _expected_step of semantic_packages/lease_session.py, the  *)
(* table and object adapters of implementations/lease-session and the      *)
(* scenarios of contracts/lease-session/campaign-plan.json.                *)
(*                                                                         *)
(* A request is acquire (with client and request), renew or complete (with *)
(* a token) or expire.  An answer is an output and the state observed      *)
(* after it; only a held state shows holder, request and token.  A request *)
(* that leaves out its client, its token or its operation is not modelled. *)
(***************************************************************************)
EXTENDS Naturals, Sequences, FiniteSets

None   == "none"
Closed == {"completed", "expired"}

(* A client that names a token names one that can be told from None, which *)
(* a process keeps while nobody holds its lease.                           *)
Requests ==
  [op : {"acquire"}, client : STRING, request : STRING]
    \cup [op : {"renew", "complete"}, token : STRING \ {None}]
    \cup [op : {"expire"}]

Available          == [state |-> "available"]
Held(c, r)         == [state |-> "held", holder |-> c, request |-> r, token |-> "t1"]
Says(status)       == [status |-> status]
Granted            == [status |-> "granted", token |-> "t1"]
Terminal(state)    == [status |-> "terminal", state |-> state]
Answer(out, after) == [output |-> out, state |-> after]

(* The oracle. *)
ExpectedStep(s, m) ==
  CASE s.state \in Closed -> Answer(Terminal(s.state), s)
    [] s.state = "available" ->
         IF m.op = "acquire" THEN Answer(Granted, Held(m.client, m.request))
         ELSE Answer(Says("denied"), s)
    [] s.state = "held" /\ m.op = "acquire" ->
         Answer(IF m.client = s.holder /\ m.request = s.request THEN Granted ELSE Says("busy"), s)
    [] s.state = "held" /\ m.op = "renew" ->
         Answer(Says(IF m.token = s.token THEN "renewed" ELSE "denied"), s)
    [] s.state = "held" /\ m.op = "complete" ->
         IF m.token = s.token THEN Answer(Says("completed"), [state |-> "completed"])
         ELSE Answer(Says("denied"), s)
    [] OTHER -> Answer(Says("expired"), [state |-> "expired"])

-----------------------------------------------------------------------------
(* The implementations.  A process keeps its phase and the lease it gave.  *)

Fresh == [phase |-> "available", holder |-> None, request |-> None, token |-> None]

Snapshot(p) ==
  IF p.phase = "held"
  THEN [state |-> "held", holder |-> p.holder, request |-> p.request, token |-> p.token]
  ELSE [state |-> p.phase]

Took(m)      == [phase |-> "held", holder |-> m.client, request |-> m.request, token |-> "t1"]
Ended(phase) == [Fresh EXCEPT !.phase = phase]

(* What a request makes of a process: what it says and what it becomes.    *)
Becomes(out, p) == [output |-> out, process |-> p]

Acquire(p, m) ==
  Becomes(IF m.client = p.holder /\ m.request = p.request
          THEN [status |-> "granted", token |-> p.token] ELSE Says("busy"), p)

Renew(p, m) == Becomes(Says(IF m.token = p.token THEN "renewed" ELSE "denied"), p)

Complete(p, m) ==
  IF m.token = p.token THEN Becomes(Says("completed"), Ended("completed"))
  ELSE Becomes(Says("denied"), p)

(* table/adapter.py: the phase first, then a handler for the operation.    *)
TableApply(p, m) ==
  CASE p.phase \in Closed -> Becomes(Terminal(p.phase), p)
    [] p.phase = "available" ->
         IF m.op = "acquire" THEN Becomes(Granted, Took(m)) ELSE Becomes(Says("denied"), p)
    [] p.phase = "held" /\ m.op = "acquire"  -> Acquire(p, m)
    [] p.phase = "held" /\ m.op = "renew"    -> Renew(p, m)
    [] p.phase = "held" /\ m.op = "complete" -> Complete(p, m)
    [] OTHER -> Becomes(Says("expired"), Ended("expired"))

(* object/adapter.py: the operation first; only acquire and expire look at *)
(* the phase, the others compare tokens.                                   *)
ObjectReceive(p, m) ==
  CASE p.phase \in Closed -> Becomes(Terminal(p.phase), p)
    [] p.phase \notin Closed /\ m.op = "acquire" ->
         IF p.phase = "available" THEN Becomes(Granted, Took(m)) ELSE Acquire(p, m)
    [] p.phase \notin Closed /\ m.op = "renew"    -> Renew(p, m)
    [] p.phase \notin Closed /\ m.op = "complete" -> Complete(p, m)
    [] OTHER -> IF p.phase = "held" THEN Becomes(Says("expired"), Ended("expired"))
                ELSE Becomes(Says("denied"), p)

(* resurrection_breaker.py: a late completion closes an expired lease anew. *)
BreakerReceive(p, m) ==
  CASE p.phase = "expired" /\ m.op = "complete" ->
         Becomes(Says("completed"), [p EXCEPT !.phase = "completed"])
    [] p.phase \in Closed /\ ~(p.phase = "expired" /\ m.op = "complete") ->
         Becomes(Terminal(p.phase), p)
    [] p.phase \notin Closed /\ m.op = "acquire" ->
         IF p.phase = "available" THEN Becomes(Granted, Took(m)) ELSE Acquire(p, m)
    [] p.phase \notin Closed /\ m.op = "renew" -> Renew(p, m)
    [] p.phase \notin Closed /\ m.op = "complete" ->
         IF m.token = p.token THEN Becomes(Says("completed"), [p EXCEPT !.phase = "completed"])
         ELSE Becomes(Says("denied"), p)
    [] OTHER -> Becomes(Says("expired"), [p EXCEPT !.phase = "expired"])

-----------------------------------------------------------------------------
(* Any other program a plan may name: right but for one kind of request in *)
(* one phase.  The kinds are the inputs of the specification's protocol.   *)

InputOf(p, m) ==
  CASE p.phase # "held"                      -> m.op
    [] p.phase = "held" /\ m.op = "acquire"  ->
         IF m.client = p.holder /\ m.request = p.request THEN "acquire-retry" ELSE "acquire-conflict"
    [] p.phase = "held" /\ m.op = "renew"    ->
         IF m.token = p.token THEN "renew-holder" ELSE "renew-wrong"
    [] p.phase = "held" /\ m.op = "complete" ->
         IF m.token = p.token THEN "complete-holder" ELSE "complete-wrong"
    [] OTHER -> m.op

Wrong(p, m) ==
  CASE m.op = "acquire" /\ p.phase = "available" -> Becomes(Says("denied"), p)
    [] m.op = "acquire" /\ InputOf(p, m) = "acquire-retry" -> Becomes(Says("busy"), p)
    [] m.op = "acquire" /\ InputOf(p, m) # "acquire-retry" /\ p.phase # "available" ->
         Becomes(Granted, Took(m))
    [] m.op = "complete" ->
         IF InputOf(p, m) = "complete-holder" THEN Becomes(Says("denied"), p)
         ELSE Becomes(Says("completed"), Ended("completed"))
    [] m.op = "renew" ->
         Becomes(Says(IF InputOf(p, m) = "renew-holder" THEN "denied" ELSE "renewed"), p)
    [] OTHER ->
         IF p.phase = "held" THEN Becomes(Says("denied"), p)
         ELSE Becomes(Says("expired"), Ended("expired"))

Mistakes ==
  ({"available"} \X {"acquire"})
    \cup ({"held"} \X {"acquire-retry", "acquire-conflict", "renew-holder", "complete-holder",
                       "complete-wrong", "expire"})
    \cup (Closed \X {"acquire", "renew", "complete", "expire"})

Table   == <<"table">>
Object  == <<"object">>
Breaker == <<"breaker">>

Receive(program, p, m) ==
  CASE program = Table   -> TableApply(p, m)
    [] program = Object  -> ObjectReceive(p, m)
    [] program = Breaker -> BreakerReceive(p, m)
    [] OTHER -> IF program = <<p.phase, InputOf(p, m)>> THEN Wrong(p, m) ELSE TableApply(p, m)

(* The processes a program goes through under some requests, and what it   *)
(* answers to each.                                                        *)
Processes(program, inputs) ==
  LET after[i \in 0..Len(inputs)] ==
        IF i = 0 THEN Fresh ELSE Receive(program, after[i - 1], inputs[i]).process
  IN  after

Responses(program, inputs) ==
  LET after == Processes(program, inputs) IN
  [i \in DOMAIN inputs |->
     Answer(Receive(program, after[i - 1], inputs[i]).output, Snapshot(after[i]))]

-----------------------------------------------------------------------------
(* The scenarios of the campaign plan. *)

First      == [op |-> "acquire", client |-> "A", request |-> "r1"]
Second     == [op |-> "acquire", client |-> "B", request |-> "r2"]
RenewT1    == [op |-> "renew", token |-> "t1"]
CompleteT1 == [op |-> "complete", token |-> "t1"]
CompleteNo == [op |-> "complete", token |-> "wrong"]
Expire     == [op |-> "expire"]

Scenarios ==
  <<<<First>>, <<First, First>>, <<First, Second>>, <<First, CompleteNo>>,
    <<First, CompleteT1, Second, RenewT1, Expire, CompleteT1>>,
    <<First, Expire, CompleteT1, Second, RenewT1, Expire>>>>

=============================================================================
