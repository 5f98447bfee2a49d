-------------------------- MODULE MCLeaseInspection --------------------------
EXTENDS LeaseInspection

(* The plan of the repository, and others a maintainer may make of it. *)
MCPlan(pins, scenarios) == [ordered |-> Len(scenarios) = 6, pins |-> pins, scenarios |-> scenarios]

MCPins(object) == [table |-> Table, object |-> object, breaker |-> Breaker]

MCObjects  == {Object} \cup Mistakes
MCPrograms == {Table, Object, <<"held", "acquire-retry">>, <<"exits">>}

MCPlans ==
  {MCPlan(MCPins(Object), Scenarios)}
    \cup {MCPlan(MCPins(Object), [Scenarios EXCEPT ![6] = <<First, Expire>>]),
          MCPlan(MCPins(Object), [Scenarios EXCEPT ![1] = <<Expire>>, ![6] = <<First, Expire>>]),
          MCPlan(MCPins(Object), <<<<First>>>>)}

(* The protocol of the lease specification, and broken ones. *)
MCProtocol ==
  [declaredTwice |-> FALSE,
   states      |-> <<"available", "held", "completed", "expired">>,
   initial     |-> "available",
   terminals   |-> Closed,
   inputs      |-> <<"acquire", "renew", "complete", "expire">>,
   outputs     |-> <<"granted", "completed", "expired">>,
   transitions |-> <<<<"available", "acquire", "granted", "held">>,
                     <<"held", "complete", "completed", "completed">>,
                     <<"held", "expire", "expired", "expired">>>>]

MCProtocols ==
  {MCProtocol,
   [MCProtocol EXCEPT !.declaredTwice = TRUE],
   [MCProtocol EXCEPT !.states = Append(@, "held")],
   [MCProtocol EXCEPT !.initial = "absent"],
   [MCProtocol EXCEPT !.initial = "completed"],
   [MCProtocol EXCEPT !.inputs = Append(@, "renew")],
   [MCProtocol EXCEPT !.outputs = Append(@, "granted")],
   [MCProtocol EXCEPT !.outputs = Tail(@)],
   [MCProtocol EXCEPT !.inputs = Tail(@)],
   [MCProtocol EXCEPT !.transitions[1][4] = "absent"],
   [MCProtocol EXCEPT !.transitions = Append(@, <<"held", "expire", "completed", "completed">>)],
   [MCProtocol EXCEPT !.transitions = <<@[1], @[2]>>]}

MCEvidence(p, program) == [plan |-> p, source |-> program, differs |-> {}]

MCRegistry(o) ==
  LET p == MCPlan(MCPins(o), Scenarios) IN
  [missing |-> FALSE, protocol |-> MCProtocol, policy |-> {},
   claim    |-> [c \in Registered |-> {}],
   evidence |-> [table |-> MCEvidence(p, Table), object |-> MCEvidence(p, o)]]

MCRegistries ==
  {MCRegistry(o) : o \in MCObjects}
    \cup {[MCRegistry(Object) EXCEPT !.protocol = p] : p \in MCProtocols}
    \cup {[MCRegistry(Object) EXCEPT !.missing = TRUE],
          [MCRegistry(Object) EXCEPT !.policy = {"acceptedMechanisms"}],
          [MCRegistry(Object) EXCEPT !.claim["table"] = {"state"}],
          [MCRegistry(Object) EXCEPT !.evidence["table"] = Absent],
          [MCRegistry(Object) EXCEPT !.evidence["object"].differs = {"result"}],
          [MCRegistry(Object) EXCEPT !.evidence["object"].source = Table],
          [MCRegistry(Object) EXCEPT !.evidence["object"].plan = MCPlan(MCPins(Object), <<<<First>>>>)]}

MCRepublished == {MCRegistry(Object), MCRegistry(<<"held", "acquire-retry">>)}

=============================================================================
