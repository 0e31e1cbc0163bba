------------------------------ MODULE MCBroker ------------------------------
(* Two agents: agentA has two threads, agentB forks a second process. *)
EXTENDS Broker, TLC

CONSTANTS agentA, agentB, a1, b1, b2, t1, t2, t3, t4

MCAgentOf == (a1 :> agentA) @@ (b1 :> agentB) @@ (b2 :> agentB)
MCProcOf == (t1 :> a1) @@ (t2 :> a1) @@ (t3 :> b1) @@ (t4 :> b2)
MCLeader == (agentA :> a1) @@ (agentB :> b1)
MCMain == (agentA :> t1) @@ (agentB :> t3)

Oversized == [ConnectFrame(agentB) EXCEPT !.truncated = TRUE]
TwoCaps == [ConnectFrame(agentB) EXCEPT !.lines = @ \o <<Line("CAP", Mailbox(agentA))>>]

MCWants == (t1 :> {TwoCaps}) @@ (t2 :> {Oversized}) @@
           (t3 :> {ConnectFrame(agentB)}) @@ (t4 :> {ConnectFrame(agentA)})
MCRequests == {ConnectFrame(agentA), ConnectFrame(agentB), Oversized, TwoCaps}
MCAnswers == 0 .. MaxCalls

Allow(name, star) == [allow |-> TRUE, name |-> name, star |-> star]
Deny(name, star) == [allow |-> FALSE, name |-> name, star |-> star]
AllowAll == <<Allow(<<"mailbox.send">>, TRUE)>>
AllowB == <<Deny(<<>>, TRUE), Allow(Mailbox(agentB), FALSE), Allow(Mailbox(agentA), FALSE)>>
MCPolicies == {AllowAll, AllowB}
=============================================================================
