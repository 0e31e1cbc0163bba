----------------------------- MODULE Supervisor -----------------------------
(***************************************************************************)
(* agentd's lifecycle engine (src/agentd.c): the table of managed agents,  *)
(* SIGCHLD harvesting and the restart policy, reconciliation of the        *)
(* settings on disk with the live processes, the start, stop and restart   *)
(* commands, and the death and recovery of agentd itself.                  *)
(*                                                                         *)
(* agentd is one thread, so each of its handlers is an action; a handler   *)
(* that forks or waits is split where another process can act in the       *)
(* middle of it: between fork() and the write of the pid file ("spawn"),   *)
(* in the SIGTERM wait loop ("stop"), between the two halves of a restart  *)
(* ("start") and between two agents of the recovery scan ("recover").      *)
(* Time is abstract: a backoff deadline is "later" until it is "due", a    *)
(* runtime is `stable' once it has run for RESTART_STABLE_SEC.             *)
(***************************************************************************)
EXTENDS Integers, FiniteSets

CONSTANTS
    Names,               \* the agents under <root>/agents/
    Pids,                \* process incarnations; a pid is used once
    Slots,               \* the MAX_MANAGED entries of g_agents
    NoName, NoPid, NoSlot,
    RESTART_BURST_LIMIT,
    Policies,            \* the restart policies agents are configured with
    Faults               \* which of SpawnFaults the environment may inject

SpawnFaults == {"crash_in_spawn", "pid_write_fails"}

ASSUME ConstantsAssumption ==
    /\ NoName \notin Names
    /\ NoPid \notin Pids
    /\ NoSlot \notin Slots
    /\ RESTART_BURST_LIMIT \in Nat \ {0}
    /\ Policies \subseteq {"never", "on-failure", "always"}
    /\ Faults \subseteq SpawnFaults

VARIABLES
    desired_state, enabled, restart_policy,  \* config/ files of each agent
    pid_file,            \* runtime/pid of each agent
    proc,                \* the processes the runtimes run in
    g_agents,            \* agentd's slot table
    at,                  \* where agentd is in its code
    op,                  \* the spawn, stop or restart it is in the middle of
    unscanned,           \* agents the recovery scan has yet to visit
    inotify,             \* agents with a queued event on a settings file
    auto                 \* history: respawns nobody asked for, see Fork

vars == <<desired_state, enabled, restart_policy, pid_file, proc, g_agents,
          at, op, unscanned, inotify, auto>>

ExitKinds == {"ok", "fail", "signal"}
Callers == {"none", "recover", "reconcile", "start", "stop", "restart"}

Managed == [name : Names \cup {NoName}, pid : Pids \cup {NoPid},
            external : BOOLEAN, consecutive_failures : Nat,
            next_restart_at : {"none", "later", "due"}]

Process == [st : {"unused", "running", "zombie", "gone"},
            name : Names \cup {NoName}, child : BOOLEAN, killed : BOOLEAN,
            stable : BOOLEAN, exit : ExitKinds \cup {"none"}]

Operation == [slot : Slots \cup {NoSlot}, pid : Pids \cup {NoPid},
              name : Names \cup {NoName}, caller : Callers]

TypeOK ==
    /\ desired_state \in [Names -> {"running", "stopped"}]
    /\ enabled \in [Names -> BOOLEAN]
    /\ restart_policy \in [Names -> Policies]
    /\ pid_file \in [Names -> Pids \cup {NoPid}]
    /\ proc \in [Pids -> Process]
    /\ g_agents \in [Slots -> Managed]
    /\ at \in {"down", "recover", "loop", "spawn", "stop", "start"}
    /\ op \in Operation
    /\ unscanned \subseteq Names
    /\ inotify \subseteq Names
    /\ auto \in [Names -> Int]

-----------------------------------------------------------------------------
(* Slots and processes *)

\* alloc_slot's zeroed entry; an entry that is not `used' has no name.
Fresh(n) == [name |-> n, pid |-> NoPid, external |-> FALSE,
             consecutive_failures |-> 0, next_restart_at |-> "none"]

FreeSlot == Fresh(NoName)

find_by_name(n) == {i \in Slots : g_agents[i].name = n}
find_by_pid(p)  == {i \in Slots : g_agents[i].pid = p}

alloc_slot_unused(n) == find_by_name(NoName)

\* The entries alloc_slot may return; none when the table is full.
alloc_slot(n) == IF find_by_name(n) # {} THEN find_by_name(n)
                                         ELSE find_by_name(NoName)

Entry_zeroed(i, n) == Fresh(n)

Entry(i, n) == IF g_agents[i].name = n THEN g_agents[i] ELSE Fresh(n)

\* clear_runtime_state: the slot stays, with its name and failure count.
clear_runtime_state(m) == [m EXCEPT !.pid = NoPid]

\* Signal 0 reaches a zombie too: only waitpid ends its life.
run_alive(p) == p # NoPid /\ proc[p].st \in {"running", "zombie"}
agent_alive(m) == run_alive(m.pid)

Wanted(n) == enabled[n] /\ desired_state[n] = "running"

NoOp == [slot |-> NoSlot, pid |-> NoPid, name |-> NoName, caller |-> "none"]

Return(caller) == /\ at' = IF caller = "recover" THEN "recover" ELSE "loop"
                  /\ op' = NoOp

NoProcess(st) == [st |-> st, name |-> NoName, child |-> FALSE,
                  killed |-> FALSE, stable |-> FALSE, exit |-> "none"]

NewProcess(n) == [st |-> "running", name |-> n, child |-> TRUE,
                  killed |-> FALSE, stable |-> FALSE, exit |-> "none"]

\* spawn_agent_runtime up to and including fork(). The history variable
\* auto[n] counts the respawns of n by reconciliation since the operator
\* last asked for n, agentd started, or a run of n was stable; it is -1
\* while that request has yet to start a runtime.
Fork(i, m, caller) ==
    /\ \E p \in Pids :
          /\ proc[p].st = "unused"
          /\ proc' = [proc EXCEPT ![p] = NewProcess(m.name)]
          /\ op' = [slot |-> i, pid |-> p, name |-> m.name, caller |-> caller]
    /\ g_agents' = [g_agents EXCEPT ![i] = m]
    /\ at' = "spawn"
    /\ auto' = [auto EXCEPT ![m.name] =
                                IF caller = "reconcile" THEN @ + 1 ELSE 0]

\* spawn_agent fails before fork(): no exec file, not executable, no
\* descriptors, no process. Each caller treats the slot in its own way.
SpawnFails(i, m, caller) ==
    /\ g_agents' = [g_agents EXCEPT ![i] =
          CASE caller = "recover"   -> FreeSlot
            [] caller = "reconcile" -> [m EXCEPT !.next_restart_at = "later"]
            [] OTHER                -> m]
    /\ Return(caller)
    /\ auto' = [auto EXCEPT ![m.name] = IF caller = "start" THEN -1 ELSE @]
    /\ UNCHANGED proc

spawn_agent(i, m, caller) == Fork(i, m, caller) \/ SpawnFails(i, m, caller)

-----------------------------------------------------------------------------
(* The rest of a spawn: pid file, exec file, slot bookkeeping *)

Spawned(m, p) == [m EXCEPT !.pid = p, !.external = FALSE,
                           !.next_restart_at = "none"]

spawn_record_no_pid_file ==
    /\ at = "spawn"
    /\ g_agents' = [g_agents EXCEPT ![op.slot] = Spawned(@, op.pid)]
    /\ inotify' = inotify \cup {op.name}
    /\ Return(op.caller)
    /\ UNCHANGED <<desired_state, enabled, restart_policy, pid_file, proc,
                   unscanned, auto>>

spawn_record ==
    /\ at = "spawn"
    /\ pid_file' = [pid_file EXCEPT ![op.name] = op.pid]
    /\ g_agents' = [g_agents EXCEPT ![op.slot] = Spawned(@, op.pid)]
    /\ inotify' = inotify \cup {op.name}
    /\ Return(op.caller)
    /\ UNCHANGED <<desired_state, enabled, restart_policy, proc, unscanned, auto>>

\* atomic_write_file of the pid file fails: -1 although the child runs.
spawn_record_fails ==
    /\ at = "spawn"
    /\ "pid_write_fails" \in Faults
    /\ g_agents' = [g_agents EXCEPT ![op.slot] =
          CASE op.caller = "recover"   -> FreeSlot
            [] op.caller = "reconcile" -> [@ EXCEPT !.next_restart_at = "later"]
            [] OTHER                   -> @]
    /\ Return(op.caller)
    /\ UNCHANGED <<desired_state, enabled, restart_policy, pid_file, proc,
                   unscanned, inotify, auto>>
-----------------------------------------------------------------------------
(* reap_zombies: one waitpid() *)

ShouldRestart(policy, exit) ==
    \/ policy = "always"
    \/ policy = "on-failure" /\ exit # "ok"

Failed_decremented(m, stable) ==
    [clear_runtime_state(m) EXCEPT
        !.consecutive_failures = IF stable THEN 1 ELSE @ - 1]

\* The slot of an agent whose exit calls for a restart.
Failed(m, stable) ==
    [clear_runtime_state(m) EXCEPT
        !.consecutive_failures = IF stable THEN 1 ELSE @ + 1]

CrashLoop_one_more(m) == m.consecutive_failures > RESTART_BURST_LIMIT

CrashLoop(m) == m.consecutive_failures >= RESTART_BURST_LIMIT

WriteDesired(n, v) == /\ desired_state' = [desired_state EXCEPT ![n] = v]
                      /\ inotify' = inotify \cup {n}

reap_managed(i, p) ==
    LET m == g_agents[i]
        n == m.name
        f == Failed(m, proc[p].stable)
        Slot(v) == g_agents' = [g_agents EXCEPT ![i] = v]
    IN  \/ /\ ~Wanted(n)
           /\ Slot(clear_runtime_state(m))
           /\ UNCHANGED <<desired_state, inotify>>
        \/ /\ Wanted(n)
           /\ ~ShouldRestart(restart_policy[n], proc[p].exit)
           /\ Slot(clear_runtime_state(m))
           /\ WriteDesired(n, "stopped")
        \/ /\ Wanted(n)
           /\ ShouldRestart(restart_policy[n], proc[p].exit)
           /\ CrashLoop(f)
           /\ Slot([f EXCEPT !.next_restart_at = "none"])
           /\ WriteDesired(n, "stopped")
        \/ /\ Wanted(n)
           /\ ShouldRestart(restart_policy[n], proc[p].exit)
           /\ ~CrashLoop(f)
           /\ Slot([f EXCEPT !.next_restart_at = "later"])
           /\ UNCHANGED <<desired_state, inotify>>

reap_zombies(p) ==
    /\ at \in {"loop", "stop"}
    /\ proc[p].st = "zombie"
    /\ proc[p].child
    /\ proc' = [proc EXCEPT ![p] = NoProcess("gone")]
    /\ \/ \E i \in find_by_pid(p) : reap_managed(i, p)
       \/ /\ find_by_pid(p) = {}
          /\ UNCHANGED <<g_agents, desired_state, inotify>>
    /\ UNCHANGED <<enabled, restart_policy, pid_file, at, op, unscanned, auto>>

-----------------------------------------------------------------------------
(* stop_agent *)

\* What the caller of stop_agent does next, with m left in the slot.
AfterStop(i, m, caller) ==
    LET n == g_agents[i].name IN
    /\ g_agents' = [g_agents EXCEPT ![i] =
                        IF caller = "reconcile" THEN m ELSE FreeSlot]
    /\ at' = IF caller = "restart" THEN "start" ELSE "loop"
    /\ op' = IF caller = "restart" THEN [NoOp EXCEPT !.name = n] ELSE NoOp

stop_agent(i, m, caller) ==
    IF agent_alive(m)
    THEN /\ at' = "stop"
         /\ op' = [slot |-> i, pid |-> NoPid, name |-> m.name, caller |-> caller]
         /\ g_agents' = [g_agents EXCEPT ![i] = m]
    ELSE AfterStop(i, clear_runtime_state(m), caller)

\* The wait loop sees the runtime gone.
stop_done ==
    /\ at = "stop"
    /\ ~agent_alive(g_agents[op.slot])
    /\ AfterStop(op.slot, clear_runtime_state(g_agents[op.slot]), op.caller)
    /\ UNCHANGED <<desired_state, enabled, restart_policy, pid_file, proc,
                   unscanned, inotify, auto>>

stop_timeout_no_sigkill ==
    /\ at = "stop"
    /\ agent_alive(g_agents[op.slot])
    /\ AfterStop(op.slot, g_agents[op.slot], op.caller)
    /\ UNCHANGED <<desired_state, enabled, restart_policy, pid_file, proc,
                   unscanned, inotify, auto>>

\* The wait loop times out: SIGKILL, and no wait for its effect.
stop_timeout ==
    /\ at = "stop"
    /\ agent_alive(g_agents[op.slot])
    /\ proc' = [proc EXCEPT ![g_agents[op.slot].pid].killed = TRUE]
    /\ AfterStop(op.slot, g_agents[op.slot], op.caller)
    /\ UNCHANGED <<desired_state, enabled, restart_policy, pid_file,
                   unscanned, inotify, auto>>

-----------------------------------------------------------------------------
(* Recovery at start-up, reconciliation *)

DaemonStart ==
    /\ at = "down"
    /\ at' = "recover"
    /\ unscanned' = Names
    /\ auto' = [n \in Names |-> -1]
    /\ UNCHANGED <<desired_state, enabled, restart_policy, pid_file, proc,
                   g_agents, op, inotify>>

Adopted(m, p) == [m EXCEPT !.pid = p, !.external = TRUE]

recover_adopt(n) ==
    /\ run_alive(pid_file[n])
    /\ \/ /\ alloc_slot(n) = {}
          /\ UNCHANGED <<g_agents, auto>>
       \/ \E i \in alloc_slot(n) :
             /\ g_agents' = [g_agents EXCEPT ![i] =
                                    Adopted(Entry(i, n), pid_file[n])]
             /\ auto' = [auto EXCEPT ![n] = 0]
    /\ UNCHANGED <<proc, pid_file, at, op>>

recover_start(n) ==
    /\ ~run_alive(pid_file[n])
    /\ pid_file' = [pid_file EXCEPT ![n] = NoPid]
    /\ \/ /\ Wanted(n)
          /\ \E i \in alloc_slot(n) : spawn_agent(i, Entry(i, n), "recover")
       \/ /\ ~Wanted(n) \/ alloc_slot(n) = {}
          /\ UNCHANGED <<proc, g_agents, at, op, auto>>

recover_cb(n) ==
    /\ at = "recover"
    /\ n \in unscanned
    /\ unscanned' = unscanned \ {n}
    /\ recover_adopt(n) \/ recover_start(n)
    /\ UNCHANGED <<desired_state, enabled, restart_policy, inotify>>

RecoverDone ==
    /\ at = "recover"
    /\ unscanned = {}
    /\ at' = "loop"
    /\ UNCHANGED <<desired_state, enabled, restart_policy, pid_file, proc,
                   g_agents, op, unscanned, inotify, auto>>

ExternalGone(m) == m.external /\ m.pid # NoPid /\ ~agent_alive(m)

\* An adopted runtime that has exited is noticed, not reaped.
Observed(m) == IF ExternalGone(m)
               THEN [clear_runtime_state(m) EXCEPT !.external = FALSE]
               ELSE m

BackedOff_forever(m) == m.next_restart_at # "none"

BackedOff(m) == m.next_restart_at = "later"

reconcile_start(n) ==
    /\ Wanted(n)
    /\ \/ \E i \in alloc_slot(n) :
             LET m == Observed(Entry(i, n)) IN
             /\ ~agent_alive(m)
             /\ \/ /\ BackedOff(m)
                   /\ g_agents' = [g_agents EXCEPT ![i] = m]
                   /\ UNCHANGED <<proc, at, op, auto>>
                \/ /\ ~BackedOff(m)
                   /\ spawn_agent(i, m, "reconcile")
       \/ /\ alloc_slot(n) = {}
          /\ UNCHANGED <<proc, g_agents, at, op, auto>>

reconcile_stop_enabled_only(n) ==
    /\ enabled[n] /\ ~Wanted(n)
    /\ \E i \in find_by_name(n) :
          /\ agent_alive(g_agents[i])
          /\ stop_agent(i, g_agents[i], "reconcile")
    /\ UNCHANGED <<proc, auto>>

reconcile_stop(n) ==
    /\ ~Wanted(n)
    /\ \E i \in find_by_name(n) :
          /\ agent_alive(g_agents[i])
          /\ stop_agent(i, g_agents[i], "reconcile")
    /\ UNCHANGED <<proc, auto>>

reconcile_none(n) ==
    /\ \A i \in find_by_name(n) : agent_alive(g_agents[i]) <=> Wanted(n)
    /\ Wanted(n) => find_by_name(n) # {}
    /\ g_agents' = [i \in Slots |-> IF g_agents[i].name = n
                                    THEN Observed(g_agents[i])
                                    ELSE g_agents[i]]
    /\ UNCHANGED <<proc, at, op, auto>>

reconcile_cb(n) ==
    /\ at = "loop"
    /\ reconcile_start(n) \/ reconcile_stop(n) \/ reconcile_none(n)
    /\ UNCHANGED <<desired_state, enabled, restart_policy, pid_file, unscanned>>

\* inotify_drain: one queued event on a settings file of n.
ReconcileEvent(n) == /\ n \in inotify
                     /\ inotify' = inotify \ {n}
                     /\ reconcile_cb(n)

\* n's turn in a full scan, or a kick: poll timed out, or a backoff is due.
ReconcileScan(n) == reconcile_cb(n) /\ UNCHANGED inotify

\* The pidfd of an adopted runtime fires.
external_exit(i) ==
    /\ at = "loop"
    /\ ExternalGone(g_agents[i])
    /\ g_agents' = [g_agents EXCEPT ![i] = Observed(@)]
    /\ UNCHANGED <<desired_state, enabled, restart_policy, pid_file, proc, at,
                   op, unscanned, inotify, auto>>

-----------------------------------------------------------------------------
(* Control-socket commands *)

\* An explicit start clears crash-loop suppression and backoff.
Unsuppressed(m) == [m EXCEPT !.consecutive_failures = 0,
                             !.next_restart_at = "none"]

handle_cmd_start(n) ==
    /\ at = "loop" \/ (at = "start" /\ op.name = n)
    /\ WriteDesired(n, "running")
    /\ enabled' = [enabled EXCEPT ![n] = TRUE]
    /\ \/ /\ alloc_slot(n) = {}
          /\ Return("start")
          /\ auto' = [auto EXCEPT ![n] = -1]
          /\ UNCHANGED <<proc, g_agents>>
       \/ \E i \in alloc_slot(n) :
             \/ /\ agent_alive(Entry(i, n))
                /\ Return("start")
                /\ UNCHANGED <<proc, g_agents, auto>>
             \/ /\ ~agent_alive(Entry(i, n))
                /\ spawn_agent(i, Unsuppressed(Entry(i, n)), "start")
    /\ UNCHANGED <<restart_policy, pid_file, unscanned>>

handle_cmd_stop(n, caller) ==
    /\ at = "loop"
    /\ WriteDesired(n, "stopped")
    /\ \/ /\ find_by_name(n) = {}
          /\ at' = IF caller = "restart" THEN "start" ELSE "loop"
          /\ op' = IF caller = "restart" THEN [NoOp EXCEPT !.name = n] ELSE NoOp
          /\ UNCHANGED g_agents
       \/ \E i \in find_by_name(n) : stop_agent(i, g_agents[i], caller)
    /\ UNCHANGED <<enabled, restart_policy, pid_file, proc, unscanned, auto>>
-----------------------------------------------------------------------------
(* agentd dies or shuts down: its children live on, its zombies do not *)

DaemonExit ==
    /\ at # "down"
    /\ at = "spawn" => "crash_in_spawn" \in Faults
    /\ at' = "down"
    /\ op' = NoOp
    /\ g_agents' = [i \in Slots |-> FreeSlot]
    /\ proc' = [p \in Pids |->
          IF proc[p].st = "zombie" THEN NoProcess("gone")
                                   ELSE [proc[p] EXCEPT !.child = FALSE]]
    /\ unscanned' = {}
    /\ inotify' = {}
    /\ UNCHANGED <<desired_state, enabled, restart_policy, pid_file, auto>>

(* The operator writes a setting (agentctl start, stop, enable, disable) *)

Notify(n) == inotify' = IF at = "down" THEN inotify ELSE inotify \cup {n}

SetDesired(n, v) ==
    /\ desired_state' = [desired_state EXCEPT ![n] = v]
    /\ Notify(n)
    /\ auto' = [auto EXCEPT ![n] = IF v = "running" THEN -1 ELSE @]
    /\ UNCHANGED <<enabled, restart_policy, pid_file, proc, g_agents, at, op,
                   unscanned>>

SetEnabled(n, v) ==
    /\ enabled' = [enabled EXCEPT ![n] = v]
    /\ Notify(n)
    /\ auto' = [auto EXCEPT ![n] = IF v THEN -1 ELSE @]
    /\ UNCHANGED <<desired_state, restart_policy, pid_file, proc, g_agents, at,
                   op, unscanned>>

(* Runtimes and time *)

ProcExit(p, how) ==
    /\ proc[p].st = "running"
    /\ proc[p].killed => how = "signal"
    /\ proc' = [proc EXCEPT ![p] =
          IF @.child THEN [@ EXCEPT !.st = "zombie", !.exit = how]
                     ELSE NoProcess("gone")]
    /\ UNCHANGED <<desired_state, enabled, restart_policy, pid_file, g_agents,
                   at, op, unscanned, inotify, auto>>

RunsStable(p) ==
    /\ proc[p].st = "running"
    /\ ~proc[p].stable
    /\ proc' = [proc EXCEPT ![p].stable = TRUE]
    /\ auto' = [auto EXCEPT ![proc[p].name] = IF @ > 0 THEN 0 ELSE @]
    /\ UNCHANGED <<desired_state, enabled, restart_policy, pid_file, g_agents,
                   at, op, unscanned, inotify>>

BackoffExpires(i) ==
    /\ g_agents[i].next_restart_at = "later"
    /\ g_agents' = [g_agents EXCEPT ![i].next_restart_at = "due"]
    /\ UNCHANGED <<desired_state, enabled, restart_policy, pid_file, proc, at,
                   op, unscanned, inotify, auto>>

-----------------------------------------------------------------------------

Init ==
    /\ desired_state \in [Names -> {"running", "stopped"}]
    /\ enabled = [n \in Names |-> TRUE]
    /\ restart_policy \in [Names -> Policies]
    /\ pid_file = [n \in Names |-> NoPid]
    /\ proc = [p \in Pids |-> NoProcess("unused")]
    /\ g_agents = [i \in Slots |-> FreeSlot]
    /\ at = "down"
    /\ op = NoOp
    /\ unscanned = {}
    /\ inotify = {}
    /\ auto = [n \in Names |-> -1]

DaemonStep ==
    \/ DaemonStart
    \/ RecoverDone
    \/ spawn_record
    \/ spawn_record_fails
    \/ stop_done
    \/ stop_timeout
    \/ \E n \in Names : \/ recover_cb(n)
                        \/ ReconcileEvent(n)
                        \/ ReconcileScan(n)
                        \/ handle_cmd_start(n)
                        \/ \E c \in {"stop", "restart"} : handle_cmd_stop(n, c)
    \/ \E p \in Pids : reap_zombies(p)
    \/ \E i \in Slots : external_exit(i)

EnvStep ==
    \/ DaemonExit
    \/ \E n \in Names : \/ \E v \in {"running", "stopped"} : SetDesired(n, v)
                        \/ \E v \in BOOLEAN : SetEnabled(n, v)
    \/ \E p \in Pids : RunsStable(p) \/ \E how \in ExitKinds : ProcExit(p, how)
    \/ \E i \in Slots : BackoffExpires(i)

Next == DaemonStep \/ EnvStep

Spec == Init /\ [][Next]_vars

-----------------------------------------------------------------------------
(* Safety *)

\* A runtime that is executing and has not been sent SIGKILL.
Live(p) == proc[p].st = "running" /\ ~proc[p].killed

\* No agent ever has two live runtimes: not when a settings event, a command
\* and a due restart race, not after a stop that timed out, not across the
\* death and recovery of agentd (find_by_name, the agent_alive tests of
\* handle_cmd_start and reconcile_cb_, the pid file read by recover_cb_).
OneRuntime ==
    \A p, q \in Pids :
        Live(p) /\ Live(q) /\ proc[p].name = proc[q].name => p = q

\* Outside the window of spawn_agent_runtime between fork() and the write of
\* the pid file, the pid file of an agent names its live runtime, so that a
\* restarted agentd can find it.
PidFileNamesRuntime ==
    \A p \in Pids : Live(p) => \/ pid_file[proc[p].name] = p
                               \/ at = "spawn" /\ op.pid = p

\* While agentd serves its loop, every live runtime is the pid of a slot with
\* its name: none escapes stop, reaping and the restart policy.
Supervised ==
    at \in {"loop", "stop", "start"} =>
        \A p \in Pids : Live(p) =>
            \E i \in Slots : g_agents[i].pid = p /\ g_agents[i].name = proc[p].name

\* Two slots never share an agent or a process: agentd holds at most one
\* pidfd per supervised process, and find_by_name and find_by_pid are
\* unambiguous.
OneSlotPerRuntime ==
    \A i, j \in Slots : i # j =>
        /\ g_agents[i].name # NoName => g_agents[i].name # g_agents[j].name
        /\ g_agents[i].pid # NoPid => g_agents[i].pid # g_agents[j].pid

\* Short runs of an agent in a row are bounded: after the operator's request
\* or the adoption of a runtime, at most RESTART_BURST_LIMIT respawns happen
\* before reap_zombies gives up and sets desired_state to stopped.
CrashLoopBounded == \A n \in Names : auto[n] <= RESTART_BURST_LIMIT

\* An agent whose policy is `never' is not relaunched after its runtime ended
\* unless the operator asks for it (reap_zombies persists the terminal
\* decision so that a scan does not relaunch it).
NeverRelaunched == \A n \in Names : restart_policy[n] = "never" => auto[n] <= 0

-----------------------------------------------------------------------------
(* The invariant behind the safety properties: where a live runtime is       *)
(* recorded at every point of agentd's code.                                 *)

ProcOwned(p) == proc[p].st \in {"running", "zombie"} => proc[p].name \in Names

SlotOwns(i) ==
    LET p == g_agents[i].pid IN
    p # NoPid => /\ g_agents[i].name # NoName
                 /\ proc[p].st # "unused"
                 /\ run_alive(p) => proc[p].name = g_agents[i].name

FileOwns(n) ==
    LET p == pid_file[n] IN
    p # NoPid => /\ proc[p].st # "unused"
                 /\ run_alive(p) => proc[p].name = n

\* A slot's pid, and an agent's pid file, name a process that was forked; as
\* long as the process exists it belongs to that agent.
RecordsOwn == /\ \A p \in Pids : ProcOwned(p)
              /\ \A i \in Slots : SlotOwns(i)
              /\ \A n \in Names : FileOwns(n)

\* A live runtime is in a slot, or is being spawned, or will be found by the
\* recovery scan.
Tracked ==
    at # "down" => \A p \in Pids : Live(p) =>
        \/ \E i \in Slots : g_agents[i].pid = p
        \/ at = "spawn" /\ op.pid = p
        \/ proc[p].name \in unscanned

\* The operation in progress: its slot holds its agent, and a runtime being
\* spawned is in no slot yet.
Operating ==
    /\ at \in {"spawn", "stop"} =>
          /\ op.slot \in Slots
          /\ op.name \in Names
          /\ g_agents[op.slot].name = op.name
    /\ at = "start" => op.name \in Names
    /\ at = "stop" => op.caller \in {"reconcile", "stop", "restart"}
    /\ at = "spawn" =>
          /\ op.pid \in Pids
          /\ proc[op.pid].st \in {"running", "zombie"}
          /\ proc[op.pid].child /\ proc[op.pid].name = op.name
          /\ op.name \notin unscanned
          /\ \A i \in Slots : g_agents[i].pid # op.pid
    /\ at = "down" => \A i \in Slots : g_agents[i] = FreeSlot
    /\ unscanned # {} => at = "recover" \/ (at = "spawn" /\ op.caller = "recover")

\* A runtime being spawned is the only live runtime of its agent.
SpawnExclusive ==
    at = "spawn" =>
        \A p \in Pids : Live(p) /\ proc[p].name = op.name => p = op.pid

\* What holds whatever the faults and however many agents share the table.
Records == TypeOK /\ OneSlotPerRuntime /\ RecordsOwn /\ Operating

\* The conjunction the proofs show inductive: every step of agentd and of its
\* environment keeps each live runtime recorded exactly once.
IInv == Records /\ PidFileNamesRuntime /\ Tracked /\ SpawnExclusive

\* Under these conditions IInv is inductive: the table has a slot for every
\* agent, and spawn_agent_runtime is not cut between fork() and the pid file.
EnoughSlots == /\ IsFiniteSet(Names) /\ IsFiniteSet(Slots)
               /\ Cardinality(Names) <= Cardinality(Slots)

-----------------------------------------------------------------------------
(* The invariant behind CrashLoopBounded: the respawns counted in auto never *)
(* run ahead of the failures reap_zombies has counted in the slot.           *)

Spawning(i) == at = "spawn" /\ op.slot = i

\* A slot that does not say `external' has a child of agentd to wait for.
OwnChildren ==
    \A i \in Slots :
        LET m == g_agents[i] IN
        m.pid # NoPid /\ ~m.external =>
            proc[m.pid].child /\ proc[m.pid].st \in {"running", "zombie"}

\* A runtime p of agent n and the failures f counted before it: its own exit
\* is still to be counted.
RuntimeCounted(p, n, f) == /\ auto[n] <= f + 1
                           /\ proc[p].stable => auto[n] <= 0

\* Slot i of agent n: an adopted runtime has been preceded by no respawn, and
\* an agent to be respawned has had no more respawns than counted failures.
SlotCounted(i, n) ==
    LET m == g_agents[i] IN
    /\ m.pid # NoPid /\ m.external => auto[n] <= 0
    /\ m.pid # NoPid /\ ~m.external =>
            RuntimeCounted(m.pid, n, m.consecutive_failures)
    /\ Spawning(i) => RuntimeCounted(op.pid, n, m.consecutive_failures)
    /\ m.pid = NoPid /\ ~Spawning(i) /\ Wanted(n) =>
            /\ auto[n] <= m.consecutive_failures
            /\ auto[n] < RESTART_BURST_LIMIT

\* A running agentd has no failures of agent n on record, or a stop command
\* in progress is about to free the slot they are in.
Forgotten(n) == \/ at # "down" /\ \A i \in Slots : g_agents[i].name # n
                \/ at = "stop" /\ op.name = n /\ op.caller # "reconcile"

Recovering == at = "recover" \/ (at = "spawn" /\ op.caller = "recover")

Burst(n) == /\ auto[n] <= RESTART_BURST_LIMIT
            /\ Recovering => auto[n] <= 0
            /\ Wanted(n) /\ Forgotten(n) => auto[n] <= 0
            /\ \A i \in Slots : g_agents[i].name = n => SlotCounted(i, n)

\* Every respawn by reconciliation since the operator's request is matched by
\* a failure counted in the agent's slot, but for the one after an adopted
\* runtime: nothing that forgets failures (freeing the slot, a stop, a
\* recovery) leaves the respawns standing.
BurstInv == OwnChildren /\ \A n \in Names : Burst(n)

-----------------------------------------------------------------------------
(* Liveness. agentd's loop always gets back to its handlers: each of them is *)
(* bounded in time. It takes queued events, reaps on SIGCHLD, and scans when *)
(* a restart is due. Nothing makes it scan otherwise, nor makes a runtime    *)
(* exit or an operator act.                                                  *)

RestartDue(i) == /\ g_agents[i].pid = NoPid
                 /\ g_agents[i].next_restart_at = "due"

scheduled_restart_due == \E i \in Slots : RestartDue(i)

Fairness ==
    /\ WF_vars(RecoverDone)
    /\ WF_vars(spawn_record)
    /\ WF_vars(stop_done \/ stop_timeout)
    /\ \A n \in Names : /\ WF_vars(recover_cb(n))
                        /\ SF_vars(ReconcileEvent(n))
                        /\ SF_vars(scheduled_restart_due /\ ReconcileScan(n))
                        /\ WF_vars(at = "start" /\ handle_cmd_start(n))
    /\ \A p \in Pids : SF_vars(reap_zombies(p))
    /\ \A i \in Slots : WF_vars(BackoffExpires(i))

FairSpec == Spec /\ Fairness

\* A settings event that finds an agent unwanted ends with the agent having no
\* live runtime, unless the operator wants it again or agentd dies: also when
\* the event was queued while agentd was forking that very runtime.
StopHonoured ==
    \A n \in Names :
        (n \in inotify /\ ~Wanted(n))
            ~> \/ Wanted(n) \/ at = "down"
               \/ \A p \in Pids : proc[p].name = n => ~Live(p)

\* A restart that is due for a wanted agent is attempted.
RestartTaken ==
    \A i \in Slots :
        (RestartDue(i) /\ Wanted(g_agents[i].name))
            ~> \/ ~RestartDue(i)
               \/ ~Wanted(g_agents[i].name)

\* A due deadline does not stay due: poll() gets a time-out again and the
\* loop scans on the safety net only.
DeadlineConsumed == \A i \in Slots : RestartDue(i) ~> ~RestartDue(i)
=============================================================================
