---------------------------- MODULE MCDelegation ----------------------------
(* Instances of Delegation for TLC. *)
EXTENDS Delegation

CONSTANTS w1, w2

Line(allow, op, name) == [allow |-> allow, op |-> op, name |-> name]

\* Two targets; one target named twice; no target left; no requests taken.
TwoTargets ==
    {<<Line(TRUE, "send", w1), Line(TRUE, "send", w2)>>,
     <<Line(TRUE, "send", w1), Line(TRUE, "send", w1), Line(TRUE, "send", w2)>>,
     <<Line(TRUE, "send", w2), Line(FALSE, "send", w2), Line(FALSE, "recv", Operator)>>,
     <<Line(TRUE, "send", w1), Line(FALSE, "send", "*")>>}

OneTarget == {<<Line(TRUE, "send", w1)>>}

Uds(single, policies, load) ==
    [transport |-> "uds", sdk |-> {}, single |-> single, full |-> {},
     policies |-> policies, load |-> load]

Agentfs(sdk) ==
    [transport |-> "agentfs", sdk |-> sdk, single |-> {}, full |-> {},
     policies |-> TwoTargets, load |-> 1]

\* Writes that may fail.
OnFullDisk(d) == [d EXCEPT !.full = Agents, !.policies = OneTarget]

\* Reviewers over sockets, one of them single-shot or none; two requests for one
\* reviewer; Python agents over agentfs.
Supported == {Uds({}, TwoTargets, 1), Uds({w1}, TwoTargets, 1), Uds({}, OneTarget, 2),
              Agentfs({w1, w2}), OnFullDisk(Uds({}, OneTarget, 1)),
              OnFullDisk(Agentfs({w1, w2}))}

\* Reviewers over agentfs.
ReviewersOverAgentfs == {Agentfs({})}
=============================================================================
