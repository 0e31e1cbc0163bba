---------------------------- MODULE MCAgentFS ----------------------------
(* AgentFS for TLC. Processes that use files and mailboxes are symmetric;  *)
(* so are tasks. Liveness runs do not use the symmetry.                    *)
EXTENDS AgentFS, TLC

Symmetry == Permutations(Clients) \cup Permutations(Tasks) \cup Permutations(Boxes)
(* No step depends on the value of result, so states that differ only there *)
(* have the same future; every transition is still compared with Mailbox.   *)
View == <<agent, mail, readq, reaper, unwoken, client>>
=============================================================================
