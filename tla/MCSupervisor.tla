---------------------------- MODULE MCSupervisor ----------------------------
(* Instances of Supervisor for TLC. *)
EXTENDS Supervisor, TLC

\* Agents, pids and slots are compared for equality only, and no operator
\* chooses among them.
Symmetry == Permutations(Names) \cup Permutations(Pids) \cup Permutations(Slots)

\* The queue of settings events only says when ReconcileEvent may run, which
\* ReconcileScan may do at any time: the safety properties do not depend on it.
HistoryView == <<desired_state, enabled, restart_policy, pid_file, proc,
                 g_agents, at, op, unscanned, auto>>

\* auto is a history variable that only CrashLoopBounded and NeverRelaunched
\* read.
StateView == <<desired_state, enabled, restart_policy, pid_file, proc,
               g_agents, at, op, unscanned>>
=============================================================================
