-------------------------- MODULE SupervisorRecords -------------------------
(* What holds of the types, slots, pid files and counted failures for every  *)
(* number of agents, processes and slots, and whatever faults strike a spawn *)
(* (counted failures: but for a pid file that cannot be written).            *)
EXTENDS Supervisor, TLAPS

USE Zenon

-----------------------------------------------------------------------------
(* Types *)

\* alloc_slot's result is an entry for the agent it was called with.
LEMMA EntryType ==
    ASSUME TypeOK, NEW i \in Slots, NEW n \in Names
    PROVE  Entry(i, n) \in Managed /\ Entry(i, n).name = n
BY DEF TypeOK, Entry, Fresh, Managed

\* clear_runtime_state, Observed and Failed keep the entry's name.
LEMMA ClearType ==
    ASSUME NEW m \in Managed
    PROVE  /\ clear_runtime_state(m) \in Managed
           /\ clear_runtime_state(m).name = m.name
           /\ clear_runtime_state(m).pid = NoPid
BY DEF clear_runtime_state, Managed

\* Noticing that an adopted runtime is gone keeps an entry an entry
\* (reconcile_cb_).
LEMMA ObservedType ==
    ASSUME NEW m \in Managed
    PROVE  Observed(m) \in Managed /\ Observed(m).name = m.name
BY DEF Observed, clear_runtime_state, Managed

\* Counting a failure in reap_zombies keeps an entry an entry.
LEMMA FailedType ==
    ASSUME NEW m \in Managed, NEW b \in BOOLEAN
    PROVE  /\ Failed(m, b) \in Managed
           /\ Failed(m, b).name = m.name
           /\ Failed(m, b).pid = NoPid
<1> DEFINE c == clear_runtime_state(m)
<1>1. c \in Managed /\ c.name = m.name /\ c.pid = NoPid
  BY ClearType
<1>2. (IF b THEN 1 ELSE c.consecutive_failures + 1) \in Nat
  BY <1>1, SMT DEF Managed
<1> HIDE DEF c
<1>3. \A k \in Nat : LET f == [c EXCEPT !.consecutive_failures = k] IN
         f \in Managed /\ f.name = c.name /\ f.pid = c.pid
  BY <1>1 DEF Managed
<1>4. Failed(m, b) = [c EXCEPT !.consecutive_failures =
                         IF b THEN 1 ELSE c.consecutive_failures + 1]
  BY DEF Failed, c
<1> QED
  BY <1>1, <1>2, <1>3, <1>4

\* The entry that release_slot zeroes is an entry without a name.
LEMMA FreeSlotType == /\ FreeSlot \in Managed /\ FreeSlot.name = NoName
                      /\ FreeSlot.pid = NoPid
BY DEF FreeSlot, Fresh, Managed

\* No operation in progress is a legal value of op.
LEMMA NoOpType == NoOp \in Operation
BY DEF NoOp, Operation, Callers

\* fork() preserves the types of what it changes.
LEMMA ForkType ==
    ASSUME TypeOK, NEW i \in Slots, NEW m \in Managed, m.name \in Names,
           NEW caller \in Callers, Fork(i, m, caller)
    PROVE  /\ proc' \in [Pids -> Process]
           /\ g_agents' \in [Slots -> Managed]
           /\ at' = "spawn"
           /\ op' \in Operation
           /\ auto' \in [Names -> Int]
BY SMT DEF TypeOK, Fork, NewProcess, Process, Operation

\* A spawn_agent that fails before fork() preserves the types of what it
\* changes.
LEMMA SpawnFailsType ==
    ASSUME TypeOK, NEW i \in Slots, NEW m \in Managed, m.name \in Names,
           NEW caller \in Callers, SpawnFails(i, m, caller)
    PROVE  /\ proc' \in [Pids -> Process]
           /\ g_agents' \in [Slots -> Managed]
           /\ at' \in {"recover", "loop"}
           /\ op' \in Operation
           /\ auto' \in [Names -> Int]
<1>1. [m EXCEPT !.next_restart_at = "later"] \in Managed
  BY DEF Managed
<1>2. g_agents' \in [Slots -> Managed]
  BY <1>1, FreeSlotType DEF TypeOK, SpawnFails
<1> QED
  BY <1>2, NoOpType, SMT DEF TypeOK, SpawnFails, Return

\* spawn_agent preserves the types of what it changes, whether it forks or
\* fails.
LEMMA SpawnType ==
    ASSUME TypeOK, NEW i \in Slots, NEW m \in Managed, m.name \in Names,
           NEW caller \in Callers, spawn_agent(i, m, caller)
    PROVE  /\ proc' \in [Pids -> Process]
           /\ g_agents' \in [Slots -> Managed]
           /\ at' \in {"recover", "loop", "spawn"}
           /\ op' \in Operation
           /\ auto' \in [Names -> Int]
BY ForkType, SpawnFailsType DEF spawn_agent

\* What the callers of stop_agent do with the slot preserves the types.
LEMMA AfterStopType ==
    ASSUME TypeOK, NEW i \in Slots, NEW m \in Managed, NEW caller \in Callers,
           AfterStop(i, m, caller)
    PROVE  /\ g_agents' \in [Slots -> Managed]
           /\ at' \in {"loop", "start"}
           /\ op' \in Operation
<1>1. g_agents[i].name \in Names \cup {NoName}
  BY DEF TypeOK, Managed
<1>2. [NoOp EXCEPT !.name = g_agents[i].name] \in Operation
  BY <1>1, NoOpType DEF Operation
<1> QED
  BY <1>2, FreeSlotType, NoOpType DEF TypeOK, AfterStop

\* stop_agent preserves the types, whether it waits or returns at once.
LEMMA StopType ==
    ASSUME TypeOK, NEW i \in Slots, NEW m \in Managed, NEW caller \in Callers,
           stop_agent(i, m, caller)
    PROVE  /\ g_agents' \in [Slots -> Managed]
           /\ at' \in {"stop", "loop", "start"}
           /\ op' \in Operation
<1>1. CASE agent_alive(m)
  BY <1>1, SMT DEF TypeOK, stop_agent, Operation, Managed
<1>2. CASE ~agent_alive(m)
  BY <1>2, ClearType, AfterStopType DEF stop_agent
<1> QED
  BY <1>1, <1>2

\* Returning from a spawn to the scan or the loop preserves the types of at
\* and op.
LEMMA ReturnType ==
    ASSUME NEW c, Return(c)
    PROVE  at' \in {"recover", "loop"} /\ op' \in Operation
BY NoOpType DEF Return

\* Recording the forked pid in the slot keeps the entry an entry (spawn_agent).
LEMMA SpawnedType ==
    ASSUME NEW m \in Managed, NEW p \in Pids \cup {NoPid}
    PROVE  /\ Spawned(m, p) \in Managed
           /\ Spawned(m, p).name = m.name
           /\ Spawned(m, p).pid = p
BY DEF Spawned, Managed

\* A process that exits, is killed or becomes stable is still a process record.
LEMMA ProcType ==
    ASSUME NEW q \in Process
    PROVE  /\ [q EXCEPT !.killed = TRUE] \in Process
           /\ [q EXCEPT !.stable = TRUE] \in Process
           /\ [q EXCEPT !.child = FALSE] \in Process
           /\ \A e \in ExitKinds : [q EXCEPT !.st = "zombie", !.exit = e] \in Process
BY DEF Process

\* Processes that do not exist yet, or no longer, have a process record.
LEMMA NoProcessType == NoProcess("gone") \in Process /\ NoProcess("unused") \in Process
BY DEF NoProcess, Process

\* Setting or clearing a restart deadline keeps an entry an entry.
LEMMA DelayType ==
    ASSUME NEW m \in Managed, NEW d \in {"none", "later", "due"}
    PROVE  LET c == [m EXCEPT !.next_restart_at = d] IN
           c \in Managed /\ c.name = m.name /\ c.pid = m.pid
BY DEF Managed

\* Recording a recovered pid keeps the entry an entry (recover_cb_).
LEMMA AdoptedType ==
    ASSUME NEW m \in Managed, NEW p \in Pids \cup {NoPid}
    PROVE  /\ Adopted(m, p) \in Managed
           /\ Adopted(m, p).name = m.name
           /\ Adopted(m, p).pid = p
BY DEF Adopted, Managed

\* handle_cmd_start's reset of failures and backoff keeps the entry an entry.
LEMMA UnsuppressedType ==
    ASSUME NEW m \in Managed
    PROVE  /\ Unsuppressed(m) \in Managed
           /\ Unsuppressed(m).name = m.name
           /\ Unsuppressed(m).pid = m.pid
BY DEF Unsuppressed, Managed

\* reap_zombies preserves the types of what it changes.
LEMMA ReapType ==
    ASSUME TypeOK, RecordsOwn, NEW p \in Pids, reap_zombies(p)
    PROVE  TypeOK'
<1>1. proc' \in [Pids -> Process]
  BY NoProcessType DEF TypeOK, reap_zombies
<1>2. ASSUME NEW i \in find_by_pid(p), reap_managed(i, p)
      PROVE  /\ g_agents' \in [Slots -> Managed]
             /\ desired_state' \in [Names -> {"running", "stopped"}]
             /\ inotify' \subseteq Names
  <2> DEFINE m == g_agents[i]
             f == Failed(m, proc[p].stable)
  <2>1. i \in Slots /\ m \in Managed /\ proc[p].stable \in BOOLEAN
    BY DEF TypeOK, Process, find_by_pid
  <2>2. m.name \in Names
    BY <2>1, ConstantsAssumption, SMT
      DEF RecordsOwn, ProcOwned, SlotOwns, FileOwns, find_by_pid, Managed
  <2>3. /\ clear_runtime_state(m) \in Managed
        /\ [f EXCEPT !.next_restart_at = "none"] \in Managed
        /\ [f EXCEPT !.next_restart_at = "later"] \in Managed
    <3> HIDE DEF m
    <3>1. f \in Managed
      BY <2>1, FailedType
    <3> HIDE DEF f
    <3> QED
      BY <2>1, <3>1, ClearType, DelayType
  <2>4. \E v \in Managed : g_agents' = [g_agents EXCEPT ![i] = v]
    BY <1>2, <2>3 DEF reap_managed
  <2>5. desired_state' \in [Names -> {"running", "stopped"}]
    BY <1>2 DEF TypeOK, reap_managed, WriteDesired
  <2>6. inotify' \subseteq Names
    BY <1>2, <2>2 DEF TypeOK, reap_managed, WriteDesired
  <2> QED
    BY <2>1, <2>4, <2>5, <2>6 DEF TypeOK
<1> QED
  BY <1>1, <1>2 DEF TypeOK, reap_zombies

\* reconcile_cb_ preserves the types of what it changes.
LEMMA ReconcileType ==
    ASSUME TypeOK, NEW n \in Names, reconcile_cb(n), inotify' \subseteq Names
    PROVE  TypeOK'
<1>1. CASE reconcile_start(n)
  <2>1. CASE alloc_slot(n) = {} /\ UNCHANGED <<proc, g_agents, at, op, auto>>
    BY <2>1 DEF TypeOK, reconcile_cb
  <2>2. ASSUME NEW i \in alloc_slot(n),
               LET m == Observed(Entry(i, n)) IN
               \/ /\ g_agents' = [g_agents EXCEPT ![i] = m]
                  /\ UNCHANGED <<proc, at, op, auto>>
               \/ spawn_agent(i, m, "reconcile")
        PROVE  TypeOK'
    <3>1. i \in Slots
      BY DEF alloc_slot, find_by_name
    <3>2. /\ Observed(Entry(i, n)) \in Managed
          /\ Observed(Entry(i, n)).name = n
      BY <3>1, EntryType, ObservedType
    <3>3. "reconcile" \in Callers
      BY DEF Callers
    <3>4. CASE spawn_agent(i, Observed(Entry(i, n)), "reconcile")
      BY <3>1, <3>2, <3>3, <3>4, SpawnType DEF TypeOK, reconcile_cb
    <3>5. CASE /\ g_agents' = [g_agents EXCEPT ![i] = Observed(Entry(i, n))]
               /\ UNCHANGED <<proc, at, op, auto>>
      BY <3>1, <3>2, <3>5 DEF TypeOK, reconcile_cb
    <3> QED
      BY <2>2, <3>4, <3>5
  <2> QED
    BY <1>1, <2>1, <2>2 DEF reconcile_start
<1>2. CASE reconcile_stop(n)
  <2>1. PICK i \in Slots : stop_agent(i, g_agents[i], "reconcile")
    BY <1>2 DEF reconcile_stop, find_by_name
  <2>2. g_agents[i] \in Managed /\ "reconcile" \in Callers
    BY DEF TypeOK, Callers
  <2> QED
    BY <1>2, <2>1, <2>2, StopType DEF TypeOK, reconcile_cb, reconcile_stop
<1>3. CASE reconcile_none(n)
  <2>1. g_agents' \in [Slots -> Managed]
    BY <1>3, ObservedType DEF TypeOK, reconcile_none
  <2> QED
    BY <1>3, <2>1 DEF TypeOK, reconcile_cb, reconcile_none
<1> QED
  BY <1>1, <1>2, <1>3 DEF reconcile_cb

\* recover_cb_ preserves the types of what it changes.
LEMMA RecoverType ==
    ASSUME TypeOK, NEW n \in Names, recover_cb(n)
    PROVE  TypeOK'
<1>1. CASE recover_adopt(n)
  <2>1. ASSUME NEW i \in alloc_slot(n)
        PROVE  i \in Slots /\ Adopted(Entry(i, n), pid_file[n]) \in Managed
    <3>1. i \in Slots
      BY DEF alloc_slot, find_by_name
    <3>2. Entry(i, n) \in Managed /\ pid_file[n] \in Pids \cup {NoPid}
      BY <3>1, EntryType DEF TypeOK
    <3> QED
      BY <3>1, <3>2, AdoptedType
  <2>2. g_agents' \in [Slots -> Managed] /\ auto' \in [Names -> Int]
    BY <1>1, <2>1, SMT DEF recover_adopt, TypeOK
  <2> QED
    BY <1>1, <2>2 DEF TypeOK, recover_cb, recover_adopt
<1>2. CASE recover_start(n)
  <2>1. "recover" \in Callers
    BY DEF Callers
  <2>2. ASSUME NEW i \in alloc_slot(n), spawn_agent(i, Entry(i, n), "recover")
        PROVE  TypeOK'
    <3>1. i \in Slots
      BY DEF alloc_slot, find_by_name
    <3> QED
      BY <1>2, <2>1, <2>2, <3>1, EntryType, SpawnType
      DEF TypeOK, recover_cb, recover_start
  <2>3. CASE UNCHANGED <<proc, g_agents, at, op, auto>>
    BY <1>2, <2>3 DEF TypeOK, recover_cb, recover_start
  <2> QED
    BY <1>2, <2>2, <2>3 DEF recover_start
<1> QED
  BY <1>1, <1>2 DEF recover_cb

\* handle_cmd_start preserves the types of what it changes.
LEMMA StartType ==
    ASSUME TypeOK, NEW n \in Names, handle_cmd_start(n)
    PROVE  TypeOK'
<1>1. /\ desired_state' \in [Names -> {"running", "stopped"}]
      /\ inotify' \subseteq Names
      /\ enabled' \in [Names -> BOOLEAN]
  BY DEF TypeOK, handle_cmd_start, WriteDesired
<1>2. CASE Return("start") /\ UNCHANGED <<proc, g_agents>> /\ auto' \in [Names -> Int]
  BY <1>1, <1>2, ReturnType DEF TypeOK, handle_cmd_start
<1>3. ASSUME NEW i \in alloc_slot(n),
             spawn_agent(i, Unsuppressed(Entry(i, n)), "start")
      PROVE  TypeOK'
  <2>1. i \in Slots /\ "start" \in Callers
    BY DEF alloc_slot, find_by_name, Callers
  <2>2. Unsuppressed(Entry(i, n)) \in Managed /\ Unsuppressed(Entry(i, n)).name = n
    BY <2>1, EntryType, UnsuppressedType
  <2> QED
    BY <1>1, <1>3, <2>1, <2>2, SpawnType, SMT DEF TypeOK, handle_cmd_start
<1>4. [auto EXCEPT ![n] = -1] \in [Names -> Int] /\ auto \in [Names -> Int]
  BY SMT DEF TypeOK
<1> QED
  BY <1>2, <1>3, <1>4 DEF handle_cmd_start

\* handle_cmd_stop preserves the types of what it changes.
LEMMA StopCmdType ==
    ASSUME TypeOK, NEW n \in Names, NEW c \in {"stop", "restart"},
           handle_cmd_stop(n, c)
    PROVE  TypeOK'
<1>1. /\ desired_state' \in [Names -> {"running", "stopped"}]
      /\ inotify' \subseteq Names
  BY DEF TypeOK, handle_cmd_stop, WriteDesired
<1>2. [NoOp EXCEPT !.name = n] \in Operation /\ c \in Callers
  BY NoOpType DEF Operation, Callers
<1>3. /\ g_agents' \in [Slots -> Managed]
      /\ at' \in {"stop", "loop", "start"}
      /\ op' \in Operation
  <2>1. ASSUME NEW i \in find_by_name(n), stop_agent(i, g_agents[i], c)
        PROVE  <1>3!:
    BY <1>2, <2>1, StopType DEF TypeOK, find_by_name
  <2> QED
    BY <1>2, <2>1, NoOpType DEF TypeOK, handle_cmd_stop
<1> QED
  BY <1>1, <1>3 DEF TypeOK, handle_cmd_stop

\* Every step preserves the type invariant.
LEMMA TypeStep == TypeOK /\ RecordsOwn /\ Operating /\ [Next]_vars => TypeOK'
<1> SUFFICES ASSUME TypeOK, RecordsOwn, Operating, [Next]_vars PROVE TypeOK'
  OBVIOUS
<1>1. CASE UNCHANGED vars
  BY <1>1 DEF TypeOK, vars
<1>2. CASE DaemonStart
  BY <1>2, SMT DEF TypeOK, DaemonStart
<1>3. CASE RecoverDone
  BY <1>3 DEF TypeOK, RecoverDone
<1>4. CASE spawn_record
  <2>1. at' \in {"recover", "loop"} /\ op' \in Operation
    BY <1>4, ReturnType DEF spawn_record
  <2>2. op.slot \in Slots /\ op.pid \in Pids /\ op.name \in Names
    BY <1>4 DEF spawn_record, Operating
  <2>3. g_agents' \in [Slots -> Managed]
    BY <1>4, <2>2, SpawnedType DEF TypeOK, spawn_record
  <2> QED
    BY <1>4, <2>1, <2>2, <2>3 DEF TypeOK, spawn_record
<1>5. CASE spawn_record_fails
  <2>1. at' \in {"recover", "loop"} /\ op' \in Operation
    BY <1>5, ReturnType DEF spawn_record_fails
  <2>2. op.slot \in Slots
    BY <1>5 DEF spawn_record_fails, Operating
  <2>3. /\ g_agents[op.slot] \in Managed
        /\ [g_agents[op.slot] EXCEPT !.next_restart_at = "later"] \in Managed
    BY <2>2, DelayType DEF TypeOK
  <2>4. g_agents' \in [Slots -> Managed]
    BY <1>5, <2>2, <2>3, FreeSlotType DEF TypeOK, spawn_record_fails
  <2> QED
    BY <1>5, <2>1, <2>4 DEF TypeOK, spawn_record_fails
<1>6. CASE stop_done \/ stop_timeout
  <2>1. op.slot \in Slots /\ op.caller \in Callers
    BY <1>6 DEF stop_done, stop_timeout, Operating, TypeOK, Operation
  <2>2. /\ g_agents[op.slot] \in Managed
        /\ clear_runtime_state(g_agents[op.slot]) \in Managed
    BY <2>1, ClearType DEF TypeOK
  <2>3. /\ g_agents' \in [Slots -> Managed]
        /\ at' \in {"loop", "start"}
        /\ op' \in Operation
    BY <1>6, <2>1, <2>2, AfterStopType DEF stop_done, stop_timeout
  <2>4. proc' \in [Pids -> Process]
    <3>1. CASE stop_timeout
      <4> DEFINE k == g_agents[op.slot].pid
      <4>1. k \in Pids
        BY <2>2, <3>1 DEF stop_timeout, agent_alive, run_alive, Managed
      <4>2. proc' = [proc EXCEPT ![k] = [proc[k] EXCEPT !.killed = TRUE]]
        BY <3>1 DEF stop_timeout
      <4> HIDE DEF k
      <4>3. [proc[k] EXCEPT !.killed = TRUE] \in Process
        BY <4>1, ProcType DEF TypeOK
      <4> QED
        BY <4>1, <4>2, <4>3 DEF TypeOK
    <3>2. CASE stop_done
      BY <3>2 DEF TypeOK, stop_done
    <3> QED
      BY <1>6, <3>1, <3>2
  <2> QED
    BY <1>6, <2>3, <2>4 DEF TypeOK, stop_done, stop_timeout
<1>7. ASSUME NEW n \in Names,
             \/ recover_cb(n) \/ ReconcileEvent(n) \/ ReconcileScan(n)
             \/ handle_cmd_start(n)
             \/ \E c \in {"stop", "restart"} : handle_cmd_stop(n, c)
      PROVE  TypeOK'
  <2>1. CASE ReconcileEvent(n) \/ ReconcileScan(n)
    <3>1. reconcile_cb(n) /\ inotify' \subseteq Names
      BY <2>1 DEF ReconcileEvent, ReconcileScan, TypeOK
    <3> QED
      BY <3>1, ReconcileType
  <2> QED
    BY <1>7, <2>1, RecoverType, StartType, StopCmdType
<1>8. ASSUME NEW i \in Slots, external_exit(i) PROVE TypeOK'
  BY <1>8, ObservedType DEF TypeOK, external_exit
<1>9. CASE DaemonExit
  BY <1>9, FreeSlotType, NoOpType, NoProcessType, ProcType DEF TypeOK, DaemonExit
<1>10. ASSUME NEW n \in Names, NEW v \in {"running", "stopped"}, SetDesired(n, v)
       PROVE  TypeOK'
  BY <1>10, SMT DEF TypeOK, SetDesired, Notify
<1>11. ASSUME NEW n \in Names, NEW v \in BOOLEAN, SetEnabled(n, v)
       PROVE  TypeOK'
  BY <1>11, SMT DEF TypeOK, SetEnabled, Notify
<1>12. ASSUME NEW p \in Pids, NEW how \in ExitKinds, ProcExit(p, how)
       PROVE  TypeOK'
  BY <1>12, NoProcessType, ProcType DEF TypeOK, ProcExit
<1>13. ASSUME NEW p \in Pids, RunsStable(p) PROVE TypeOK'
  <2>1. proc' \in [Pids -> Process]
    BY <1>13, ProcType DEF TypeOK, RunsStable
  <2>2. auto' \in [Names -> Int]
    <3>1. proc[p].name \in Names
      BY <1>13 DEF RunsStable, RecordsOwn, ProcOwned, SlotOwns, FileOwns
    <3>2. (IF auto[proc[p].name] > 0 THEN 0 ELSE auto[proc[p].name]) \in Int
      BY <3>1, SMT DEF TypeOK
    <3> QED
      BY <1>13, <3>1, <3>2 DEF TypeOK, RunsStable
  <2> QED
    BY <1>13, <2>1, <2>2 DEF TypeOK, RunsStable
<1>14. ASSUME NEW i \in Slots, BackoffExpires(i) PROVE TypeOK'
  BY <1>14, DelayType DEF TypeOK, BackoffExpires
<1> QED
  BY <1>1, <1>2, <1>3, <1>4, <1>5, <1>6, <1>7, <1>8, <1>9, <1>10, <1>11, <1>12,
     <1>13, <1>14, ReapType DEF Next, DaemonStep, EnvStep


-----------------------------------------------------------------------------
(* Slots and pid files name the right processes, whatever the faults *)

\* No process is born: processes only exit, are reaped, or are sent SIGKILL.
Ages ==
    \A p \in Pids :
        /\ proc[p].st # "unused" => proc'[p].st # "unused"
        /\ proc'[p].st \in {"running", "zombie"} =>
              proc[p].st \in {"running", "zombie"} /\ proc'[p].name = proc[p].name
        /\ proc'[p].st = "running" /\ ~proc'[p].killed => Live(p)

\* Entry m may replace slot i without a clash and without a new pid.
Keeps(i, m) ==
    /\ m.name # NoName => \A j \in Slots : j # i => g_agents[j].name # m.name
    /\ m.pid # NoPid => m.pid = g_agents[i].pid /\ m.name = g_agents[i].name

PidFilesKept == \A n \in Names : pid_file'[n] \in {pid_file[n], NoPid}

\* alloc_slot returns the slot of the agent, or an empty one if it has none.
LEMMA AllocKeeps ==
    ASSUME TypeOK, OneSlotPerRuntime, NEW n \in Names, NEW i \in alloc_slot(n)
    PROVE  i \in Slots /\ Keeps(i, Entry(i, n))
<1>1. i \in Slots
  BY DEF alloc_slot, find_by_name
<1>2. \A j \in Slots : j # i => g_agents[j].name # n
  BY <1>1, ConstantsAssumption DEF alloc_slot, find_by_name, OneSlotPerRuntime
<1> QED
  BY <1>1, <1>2 DEF Keeps, Entry, Fresh

\* A slot may be left as it is or released.
LEMMA SlotKeeps ==
    ASSUME TypeOK, OneSlotPerRuntime, NEW i \in Slots
    PROVE  Keeps(i, g_agents[i]) /\ Keeps(i, FreeSlot)
BY FreeSlotType DEF Keeps, OneSlotPerRuntime

\* An entry derived from a kept one that adds no pid is kept as well.
LEMMA KeepsMore ==
    ASSUME NEW i \in Slots, NEW m \in Managed, NEW k \in Managed, Keeps(i, m),
           k.name = m.name, k.pid \in {m.pid, NoPid}
    PROVE  Keeps(i, k)
BY DEF Keeps

\* If every slot keeps what it may, no two slots come to share an agent or a
\* process.
LEMMA KeepsStep ==
    ASSUME TypeOK, OneSlotPerRuntime, RecordsOwn, NEW i \in Slots, NEW m \in Managed,
           Keeps(i, m), Ages, PidFilesKept,
           g_agents' = [g_agents EXCEPT ![i] = m]
    PROVE  OneSlotPerRuntime' /\ RecordsOwn'
<1>1. \A j \in Slots : g_agents'[j] = IF j = i THEN m ELSE g_agents[j]
  BY DEF TypeOK
<1>2. OneSlotPerRuntime'
  BY <1>1, SMT DEF Keeps, OneSlotPerRuntime
<1>3. \A j \in Slots : g_agents'[j].pid # NoPid =>
          g_agents'[j].pid = g_agents[j].pid /\ g_agents'[j].name = g_agents[j].name
  BY <1>1 DEF Keeps
<1>4. \A j \in Slots : g_agents[j].pid \in Pids \cup {NoPid}
  BY DEF TypeOK, Managed
<1>5. \A n \in Names : pid_file[n] \in Pids \cup {NoPid}
  BY DEF TypeOK
<1> QED
  BY <1>2, <1>3, <1>4, <1>5, SMT
    DEF RecordsOwn, ProcOwned, SlotOwns, FileOwns, Ages, PidFilesKept, run_alive

\* A step that leaves the slots alone.
LEMMA SameSlots ==
    ASSUME TypeOK, OneSlotPerRuntime, RecordsOwn, Ages, PidFilesKept,
           UNCHANGED g_agents
    PROVE  OneSlotPerRuntime' /\ RecordsOwn'
<1>1. \A j \in Slots : g_agents[j].pid \in Pids \cup {NoPid}
  BY DEF TypeOK, Managed
<1>2. \A n \in Names : pid_file[n] \in Pids \cup {NoPid}
  BY DEF TypeOK
<1> QED
  BY <1>1, <1>2, SMT
    DEF OneSlotPerRuntime, RecordsOwn, ProcOwned, SlotOwns, FileOwns, Ages, PidFilesKept, run_alive

\* fork() takes a process that is in no slot and no pid file.
LEMMA ForkRecords ==
    ASSUME TypeOK, OneSlotPerRuntime, RecordsOwn,
           NEW i \in Slots, NEW m \in Managed, m.name \in Names, Keeps(i, m),
           NEW caller \in Callers, Fork(i, m, caller), PidFilesKept,
           m.name \notin unscanned', unscanned' # {} => caller = "recover"
    PROVE  OneSlotPerRuntime' /\ RecordsOwn' /\ Operating'
<1>1. PICK p \in Pids : /\ proc[p].st = "unused"
                        /\ proc' = [proc EXCEPT ![p] = NewProcess(m.name)]
                        /\ op' = [slot |-> i, pid |-> p, name |-> m.name, caller |-> caller]
  BY DEF Fork
<1>2. /\ op'.slot = i /\ op'.pid = p /\ op'.name = m.name /\ op'.caller = caller
      /\ at' = "spawn"
  BY <1>1 DEF Fork
<1>3. /\ proc'[p].st = "running" /\ proc'[p].name = m.name /\ proc'[p].child
      /\ \A q \in Pids : q # p => proc'[q] = proc[q]
  BY <1>1 DEF TypeOK, NewProcess
<1>4. \A j \in Slots : g_agents'[j] = IF j = i THEN m ELSE g_agents[j]
  BY DEF TypeOK, Fork
<1>5. /\ \A j \in Slots : g_agents[j].pid \in Pids \cup {NoPid}
      /\ \A n \in Names : pid_file[n] \in Pids \cup {NoPid}
  BY DEF TypeOK, Managed
<1>6. \A j \in Slots : g_agents'[j].pid # NoPid =>
          g_agents'[j].pid = g_agents[j].pid /\ g_agents'[j].name = g_agents[j].name
  BY <1>4 DEF Keeps
<1>7. \A j \in Slots : g_agents'[j].pid # p
  BY <1>1, <1>5, <1>6, ConstantsAssumption, SMT DEF RecordsOwn, ProcOwned, SlotOwns, FileOwns
<1>8. OneSlotPerRuntime'
  BY <1>4, SMT DEF Keeps, OneSlotPerRuntime
<1>9. RecordsOwn'
  <2>1. \A q \in Pids : ProcOwned(q)'
    BY <1>3 DEF RecordsOwn, ProcOwned
  <2>2. ASSUME NEW j \in Slots PROVE SlotOwns(j)'
    <3>1. SlotOwns(j)
      BY DEF RecordsOwn
    <3> QED
      BY <1>3, <1>5, <1>6, <1>7, <3>1, SMT DEF SlotOwns, run_alive
  <2>3. ASSUME NEW n \in Names PROVE FileOwns(n)'
    <3>1. FileOwns(n) /\ pid_file'[n] \in {pid_file[n], NoPid}
      BY DEF RecordsOwn, PidFilesKept
    <3> QED
      BY <1>1, <1>3, <1>5, <3>1, SMT DEF FileOwns, run_alive
  <2> QED
    BY <2>1, <2>2, <2>3 DEF RecordsOwn
<1>10. Operating'
  BY <1>2, <1>3, <1>4, <1>7 DEF Operating
<1> QED
  BY <1>8, <1>9, <1>10

\* A step that leaves the processes alone ages none of them.
LEMMA AgesSame == ASSUME TypeOK, UNCHANGED proc PROVE Ages
BY DEF Ages, Live

\* After a spawn has returned, no operation is in progress.
LEMMA ReturnOperating ==
    ASSUME NEW c, Return(c), unscanned' # {} => c = "recover"
    PROVE  Operating'
BY DEF Return, Operating

\* A spawn_agent that fails before fork() keeps the records consistent.
LEMMA SpawnFailsRecords ==
    ASSUME TypeOK, OneSlotPerRuntime, RecordsOwn,
           NEW i \in Slots, NEW m \in Managed, Keeps(i, m),
           NEW caller \in Callers, SpawnFails(i, m, caller), PidFilesKept,
           unscanned' # {} => caller = "recover"
    PROVE  OneSlotPerRuntime' /\ RecordsOwn' /\ Operating'
<1>1. PICK k \in Managed : /\ g_agents' = [g_agents EXCEPT ![i] = k]
                           /\ Keeps(i, k)
  <2> DEFINE d == [m EXCEPT !.next_restart_at = "later"]
  <2>1. d \in Managed /\ d.name = m.name /\ d.pid = m.pid
    BY DelayType
  <2>2. Keeps(i, d)
    <3> HIDE DEF d
    <3> QED
      BY <2>1, KeepsMore
  <2>3. CASE caller = "recover"
    BY <2>3, FreeSlotType, SlotKeeps DEF SpawnFails
  <2>4. CASE caller = "reconcile"
    BY <2>1, <2>2, <2>4 DEF SpawnFails
  <2>5. CASE caller \notin {"recover", "reconcile"}
    BY <2>5 DEF SpawnFails
  <2> QED
    BY <2>3, <2>4, <2>5
<1>2. Ages
  BY AgesSame DEF SpawnFails
<1>3. OneSlotPerRuntime' /\ RecordsOwn'
  BY <1>1, <1>2, KeepsStep
<1> QED
  BY <1>3, ReturnOperating DEF SpawnFails

\* spawn_agent keeps the records consistent.
LEMMA SpawnRecords ==
    ASSUME TypeOK, OneSlotPerRuntime, RecordsOwn,
           NEW i \in Slots, NEW m \in Managed, m.name \in Names, Keeps(i, m),
           NEW caller \in Callers, spawn_agent(i, m, caller), PidFilesKept,
           m.name \notin unscanned', unscanned' # {} => caller = "recover"
    PROVE  OneSlotPerRuntime' /\ RecordsOwn' /\ Operating'
BY ForkRecords, SpawnFailsRecords DEF spawn_agent

\* What the callers of stop_agent do with the slot keeps the records
\* consistent.
LEMMA AfterStopRecords ==
    ASSUME TypeOK, OneSlotPerRuntime, RecordsOwn, unscanned' = {},
           NEW i \in Slots, NEW m \in Managed, Keeps(i, m),
           NEW caller \in {"reconcile", "stop", "restart"},
           AfterStop(i, m, caller), Ages, PidFilesKept,
           g_agents[i].name \in Names
    PROVE  OneSlotPerRuntime' /\ RecordsOwn' /\ Operating'
<1>1. PICK k \in Managed : /\ g_agents' = [g_agents EXCEPT ![i] = k]
                           /\ Keeps(i, k)
  BY FreeSlotType, SlotKeeps DEF AfterStop
<1>2. OneSlotPerRuntime' /\ RecordsOwn'
  BY <1>1, KeepsStep
<1>3. at' \in {"loop", "start"} /\ (at' = "start" => op'.name \in Names)
  BY DEF AfterStop, NoOp
<1> QED
  BY <1>2, <1>3 DEF Operating

\* stop_agent keeps the records consistent.
LEMMA StopRecords ==
    ASSUME TypeOK, OneSlotPerRuntime, RecordsOwn, unscanned' = {},
           NEW i \in Slots, g_agents[i].name \in Names,
           NEW caller \in {"reconcile", "stop", "restart"},
           stop_agent(i, g_agents[i], caller), UNCHANGED <<proc, pid_file>>
    PROVE  OneSlotPerRuntime' /\ RecordsOwn' /\ Operating'
<1>1. Ages /\ PidFilesKept
  BY AgesSame DEF PidFilesKept
<1>2. g_agents[i] \in Managed /\ Keeps(i, g_agents[i])
  BY SlotKeeps DEF TypeOK
<1>3. CASE agent_alive(g_agents[i])
  <2>1. g_agents' = [g_agents EXCEPT ![i] = g_agents[i]]
    BY <1>3 DEF stop_agent
  <2>2. OneSlotPerRuntime' /\ RecordsOwn'
    BY <1>1, <1>2, <2>1, KeepsStep
  <2>3. /\ at' = "stop" /\ op'.slot = i /\ op'.caller = caller
        /\ op'.name = g_agents[i].name /\ g_agents'[i] = g_agents[i]
    BY <1>3, <2>1, SMT DEF stop_agent, TypeOK
  <2> QED
    BY <2>2, <2>3 DEF Operating
<1>4. CASE ~agent_alive(g_agents[i])
  <2>1. /\ clear_runtime_state(g_agents[i]) \in Managed
        /\ Keeps(i, clear_runtime_state(g_agents[i]))
    BY <1>2, ClearType, KeepsMore
  <2> QED
    BY <1>1, <1>4, <2>1, AfterStopRecords DEF stop_agent
<1> QED
  BY <1>3, <1>4

\* reconcile_cb_ keeps the records consistent.
LEMMA ReconcileRecords ==
    ASSUME TypeOK, OneSlotPerRuntime, RecordsOwn, Operating,
           NEW n \in Names, reconcile_cb(n)
    PROVE  OneSlotPerRuntime' /\ RecordsOwn' /\ Operating'
<1>1. /\ at = "loop" /\ unscanned = {} /\ unscanned' = {} /\ UNCHANGED pid_file
      /\ PidFilesKept
  BY DEF reconcile_cb, Operating, PidFilesKept
<1>2. CASE reconcile_start(n)
  <2>1. ASSUME UNCHANGED <<proc, g_agents, at, op>>
        PROVE  OneSlotPerRuntime' /\ RecordsOwn' /\ Operating'
    BY <1>1, <2>1, AgesSame, SameSlots DEF Operating
  <2>2. ASSUME NEW i \in alloc_slot(n),
               \/ /\ g_agents' = [g_agents EXCEPT ![i] = Observed(Entry(i, n))]
                  /\ UNCHANGED <<proc, at, op, auto>>
               \/ spawn_agent(i, Observed(Entry(i, n)), "reconcile")
        PROVE  OneSlotPerRuntime' /\ RecordsOwn' /\ Operating'
    <3> DEFINE m == Observed(Entry(i, n))
    <3>1. i \in Slots /\ Keeps(i, Entry(i, n)) /\ Entry(i, n) \in Managed
          /\ Entry(i, n).name = n
      BY AllocKeeps, EntryType
    <3>2. m \in Managed /\ m.name = n /\ m.pid \in {Entry(i, n).pid, NoPid}
      BY <3>1, ObservedType, ClearType DEF Observed, clear_runtime_state, Managed
    <3>3. Keeps(i, m)
      BY <3>1, <3>2, KeepsMore
    <3> HIDE DEF m
    <3>4. CASE spawn_agent(i, m, "reconcile")
      BY <1>1, <3>1, <3>2, <3>3, <3>4, SpawnRecords DEF Callers
    <3>5. CASE g_agents' = [g_agents EXCEPT ![i] = m] /\ UNCHANGED <<proc, at, op, auto>>
      <4>1. OneSlotPerRuntime' /\ RecordsOwn'
        BY <1>1, <3>1, <3>2, <3>3, <3>5, AgesSame, KeepsStep
      <4> QED
        BY <1>1, <3>5, <4>1 DEF Operating
    <3> QED
      BY <2>2, <3>4, <3>5 DEF m
  <2> QED
    BY <1>2, <2>1, <2>2 DEF reconcile_start
<1>3. CASE reconcile_stop(n)
  <2>1. PICK i \in Slots : /\ g_agents[i].name = n
                           /\ stop_agent(i, g_agents[i], "reconcile")
    BY <1>3 DEF reconcile_stop, find_by_name
  <2> QED
    BY <1>1, <1>3, <2>1, StopRecords DEF reconcile_stop
<1>4. CASE reconcile_none(n)
  <2>1. \A j \in Slots :
           /\ g_agents'[j].name = g_agents[j].name
           /\ g_agents'[j].pid \in {g_agents[j].pid, NoPid}
    <3>1. \A j \in Slots : g_agents'[j] \in {g_agents[j], Observed(g_agents[j])}
      BY <1>4 DEF reconcile_none
    <3>2. \A m \in Managed : Observed(m).name = m.name /\ Observed(m).pid \in {m.pid, NoPid}
      BY DEF Observed, clear_runtime_state, Managed
    <3>3. \A j \in Slots : g_agents[j] \in Managed
      BY DEF TypeOK
    <3> QED
      BY <3>1, <3>2, <3>3
  <2>2. UNCHANGED <<proc, at, op>>
    BY <1>4 DEF reconcile_none
  <2>3. OneSlotPerRuntime'
    BY <2>1, SMT DEF OneSlotPerRuntime
  <2>4. RecordsOwn'
    BY <1>1, <2>1, <2>2 DEF RecordsOwn, ProcOwned, SlotOwns, FileOwns, run_alive
  <2> QED
    BY <1>1, <2>2, <2>3, <2>4 DEF Operating
<1> QED
  BY <1>2, <1>3, <1>4 DEF reconcile_cb

\* recover_cb_ keeps the records consistent.
LEMMA RecoverRecords ==
    ASSUME TypeOK, OneSlotPerRuntime, RecordsOwn, Operating,
           NEW n \in Names, recover_cb(n)
    PROVE  OneSlotPerRuntime' /\ RecordsOwn' /\ Operating'
<1>1. at = "recover" /\ unscanned' = unscanned \ {n}
  BY DEF recover_cb
<1>2. CASE recover_adopt(n)
  <2>1. UNCHANGED <<proc, pid_file, at, op>> /\ run_alive(pid_file[n])
    BY <1>2 DEF recover_adopt
  <2>2. Ages /\ PidFilesKept
    BY <2>1, AgesSame DEF PidFilesKept
  <2>3. Operating'
    BY <1>1, <2>1 DEF Operating
  <2>4. ASSUME NEW i \in alloc_slot(n),
               g_agents' = [g_agents EXCEPT ![i] = Adopted(Entry(i, n), pid_file[n])]
        PROVE  OneSlotPerRuntime' /\ RecordsOwn'
    <3> DEFINE m == Adopted(Entry(i, n), pid_file[n])
    <3>1. i \in Slots /\ Keeps(i, Entry(i, n)) /\ Entry(i, n) \in Managed
          /\ Entry(i, n).name = n /\ pid_file[n] \in Pids
      BY <2>1, AllocKeeps, EntryType DEF TypeOK, run_alive
    <3>2. m \in Managed /\ m.name = n /\ m.pid = pid_file[n]
      BY <3>1, AdoptedType
    <3> HIDE DEF m
    <3>3. \A j \in Slots : g_agents'[j] = IF j = i THEN m ELSE g_agents[j]
      BY <2>4 DEF TypeOK, m
    <3>4. \A j \in Slots : j # i => g_agents[j].name # n
      BY <3>1, ConstantsAssumption DEF Keeps
    <3>5. proc[pid_file[n]].name = n /\ proc[pid_file[n]].st # "unused"
      <4>1. FileOwns(n)
        BY DEF RecordsOwn
      <4> QED
        BY <2>1, <3>1, <4>1, ConstantsAssumption DEF FileOwns
    <3>6. \A j \in Slots : j # i => g_agents[j].pid # pid_file[n]
      <4>1. \A j \in Slots : SlotOwns(j)
        BY DEF RecordsOwn
      <4> QED
        BY <2>1, <3>4, <3>5, <4>1 DEF SlotOwns, run_alive
    <3>7. OneSlotPerRuntime'
      <4>1. \A j \in Slots : /\ g_agents'[j].name = IF j = i THEN n ELSE g_agents[j].name
                             /\ g_agents'[j].pid = IF j = i THEN pid_file[n]
                                                           ELSE g_agents[j].pid
        BY <3>2, <3>3
      <4> QED
        BY <3>4, <3>6, <4>1, SMT DEF OneSlotPerRuntime
    <3>8. RecordsOwn'
      <4>1. ASSUME NEW j \in Slots PROVE SlotOwns(j)'
        <5>1. SlotOwns(j) /\ n # NoName
          BY ConstantsAssumption DEF RecordsOwn
        <5> QED
          BY <2>1, <3>2, <3>3, <3>5, <5>1 DEF SlotOwns, run_alive
      <4>2. (\A q \in Pids : ProcOwned(q)') /\ \A k \in Names : FileOwns(k)'
        BY <2>1 DEF RecordsOwn, ProcOwned, FileOwns, run_alive
      <4> QED
        BY <4>1, <4>2 DEF RecordsOwn
    <3> QED
      BY <3>7, <3>8
  <2>5. UNCHANGED g_agents => OneSlotPerRuntime' /\ RecordsOwn'
    BY <2>2, SameSlots
  <2> QED
    BY <1>2, <2>3, <2>4, <2>5 DEF recover_adopt
<1>3. CASE recover_start(n)
  <2>1. PidFilesKept
    BY <1>3 DEF recover_start, PidFilesKept, TypeOK
  <2>2. ASSUME NEW i \in alloc_slot(n), spawn_agent(i, Entry(i, n), "recover")
        PROVE  OneSlotPerRuntime' /\ RecordsOwn' /\ Operating'
    <3>1. n \notin unscanned' /\ "recover" \in Callers
      BY <1>1 DEF Callers
    <3> QED
      BY <2>1, <2>2, <3>1, AllocKeeps, EntryType, SpawnRecords
  <2>3. CASE UNCHANGED <<proc, g_agents, at, op, auto>>
    <3>1. OneSlotPerRuntime' /\ RecordsOwn'
      BY <2>1, <2>3, AgesSame, SameSlots
    <3> QED
      BY <1>1, <2>3, <3>1 DEF Operating
  <2> QED
    BY <1>3, <2>2, <2>3 DEF recover_start
<1> QED
  BY <1>2, <1>3 DEF recover_cb

\* handle_cmd_start keeps the records consistent.
LEMMA StartRecords ==
    ASSUME TypeOK, OneSlotPerRuntime, RecordsOwn, Operating,
           NEW n \in Names, handle_cmd_start(n)
    PROVE  OneSlotPerRuntime' /\ RecordsOwn' /\ Operating'
<1>1. unscanned' = {} /\ PidFilesKept
  BY DEF handle_cmd_start, Operating, PidFilesKept
<1>2. CASE Return("start") /\ UNCHANGED <<proc, g_agents>>
  BY <1>1, <1>2, AgesSame, SameSlots, ReturnOperating
<1>3. ASSUME NEW i \in alloc_slot(n),
             spawn_agent(i, Unsuppressed(Entry(i, n)), "start")
      PROVE  OneSlotPerRuntime' /\ RecordsOwn' /\ Operating'
  <2>1. i \in Slots /\ Keeps(i, Entry(i, n)) /\ Entry(i, n) \in Managed
        /\ Entry(i, n).name = n
    BY AllocKeeps, EntryType
  <2>2. /\ Unsuppressed(Entry(i, n)) \in Managed
        /\ Unsuppressed(Entry(i, n)).name = n
        /\ Keeps(i, Unsuppressed(Entry(i, n)))
    BY <2>1, UnsuppressedType, KeepsMore
  <2>3. "start" \in Callers /\ n \notin unscanned'
    BY <1>1 DEF Callers
  <2> QED
    BY <1>1, <1>3, <2>1, <2>2, <2>3, SpawnRecords
<1> QED
  BY <1>2, <1>3 DEF handle_cmd_start

\* handle_cmd_stop keeps the records consistent.
LEMMA StopCmdRecords ==
    ASSUME TypeOK, OneSlotPerRuntime, RecordsOwn, Operating,
           NEW n \in Names, NEW c \in {"stop", "restart"}, handle_cmd_stop(n, c)
    PROVE  OneSlotPerRuntime' /\ RecordsOwn' /\ Operating'
<1>1. unscanned' = {} /\ UNCHANGED <<proc, pid_file>> /\ PidFilesKept
  BY DEF handle_cmd_stop, Operating, PidFilesKept
<1>2. ASSUME UNCHANGED g_agents,
             at' = IF c = "restart" THEN "start" ELSE "loop",
             op' = IF c = "restart" THEN [NoOp EXCEPT !.name = n] ELSE NoOp
      PROVE  OneSlotPerRuntime' /\ RecordsOwn' /\ Operating'
  <2>1. OneSlotPerRuntime' /\ RecordsOwn'
    BY <1>1, <1>2, AgesSame, SameSlots
  <2>2. at' \in {"loop", "start"} /\ (at' = "start" => op'.name \in Names)
    BY <1>2 DEF NoOp
  <2> QED
    BY <1>1, <2>1, <2>2 DEF Operating
<1>3. ASSUME NEW i \in find_by_name(n), stop_agent(i, g_agents[i], c)
      PROVE  OneSlotPerRuntime' /\ RecordsOwn' /\ Operating'
  BY <1>1, <1>3, StopRecords DEF find_by_name
<1> QED
  BY <1>2, <1>3 DEF handle_cmd_stop

\* reap_zombies keeps the records consistent.
LEMMA ReapRecords ==
    ASSUME TypeOK, OneSlotPerRuntime, RecordsOwn, Operating,
           NEW p \in Pids, reap_zombies(p)
    PROVE  OneSlotPerRuntime' /\ RecordsOwn' /\ Operating'
<1>1. Ages /\ PidFilesKept
  BY DEF reap_zombies, Ages, PidFilesKept, NoProcess, Live, TypeOK
<1>2. at \in {"loop", "stop"} /\ UNCHANGED <<at, op, unscanned>>
  BY DEF reap_zombies
<1>3. ASSUME NEW i \in find_by_pid(p), reap_managed(i, p)
      PROVE  \E m \in Managed : /\ Keeps(i, m)
                                /\ m.name = g_agents[i].name
                                /\ g_agents' = [g_agents EXCEPT ![i] = m]
  <2> DEFINE k == g_agents[i]
             f == Failed(k, proc[p].stable)
             Good(m) == m \in Managed /\ m.name = k.name /\ m.pid = NoPid
  <2>1. i \in Slots /\ k \in Managed /\ proc[p].stable \in BOOLEAN
    BY DEF TypeOK, Process, find_by_pid
  <2>2. \A m : Good(m) => Keeps(i, m)
    BY <2>1, SlotKeeps DEF Keeps
  <2>3. /\ Good(clear_runtime_state(k))
        /\ Good([f EXCEPT !.next_restart_at = "none"])
        /\ Good([f EXCEPT !.next_restart_at = "later"])
    <3> HIDE DEF k
    <3>1. f \in Managed /\ f.name = k.name /\ f.pid = NoPid
      BY <2>1, FailedType
    <3> HIDE DEF f
    <3> QED
      BY <2>1, <3>1, ClearType, DelayType
  <2>4. \E m : Good(m) /\ g_agents' = [g_agents EXCEPT ![i] = m]
    <3> HIDE DEF Good
    <3> QED
      BY <1>3, <2>3 DEF reap_managed
  <2> QED
    BY <2>2, <2>4
<1>4. CASE UNCHANGED g_agents
  <2>1. OneSlotPerRuntime' /\ RecordsOwn'
    BY <1>1, <1>4, SameSlots
  <2> QED
    BY <1>2, <1>4, <2>1 DEF Operating
<1>5. ASSUME NEW i \in find_by_pid(p), reap_managed(i, p)
      PROVE  OneSlotPerRuntime' /\ RecordsOwn' /\ Operating'
  <2>1. PICK m \in Managed : /\ Keeps(i, m)
                             /\ m.name = g_agents[i].name
                             /\ g_agents' = [g_agents EXCEPT ![i] = m]
    BY <1>3, <1>5
  <2>2. i \in Slots
    BY DEF find_by_pid
  <2>3. OneSlotPerRuntime' /\ RecordsOwn'
    BY <1>1, <2>1, <2>2, KeepsStep
  <2>4. \A j \in Slots : g_agents'[j].name = g_agents[j].name
    BY <2>1, <2>2 DEF TypeOK
  <2> QED
    BY <1>2, <2>3, <2>4 DEF Operating
<1> QED
  BY <1>4, <1>5 DEF reap_zombies

\* The second half of spawn_agent keeps the records consistent.
LEMMA SpawnRecordRecords ==
    ASSUME TypeOK, OneSlotPerRuntime, RecordsOwn, Operating, spawn_record
    PROVE  OneSlotPerRuntime' /\ RecordsOwn' /\ Operating'
<1>1. /\ op.slot \in Slots /\ op.pid \in Pids /\ op.name \in Names
      /\ g_agents[op.slot].name = op.name
      /\ proc[op.pid].st \in {"running", "zombie"} /\ proc[op.pid].name = op.name
      /\ \A i \in Slots : g_agents[i].pid # op.pid
      /\ unscanned # {} => op.caller = "recover"
  BY DEF spawn_record, Operating
<1>2. UNCHANGED <<proc, unscanned>>
  BY DEF spawn_record
<1>3. /\ Spawned(g_agents[op.slot], op.pid).name = op.name
      /\ Spawned(g_agents[op.slot], op.pid).pid = op.pid
  BY <1>1, SpawnedType, SMT DEF TypeOK
<1>4. \A j \in Slots : IF j = op.slot
                       THEN g_agents'[j].name = op.name /\ g_agents'[j].pid = op.pid
                       ELSE g_agents'[j] = g_agents[j]
  BY <1>1, <1>3 DEF TypeOK, spawn_record
<1>5. \A n \in Names : pid_file'[n] = IF n = op.name THEN op.pid ELSE pid_file[n]
  BY <1>1 DEF TypeOK, spawn_record
<1>6. OneSlotPerRuntime'
  BY <1>1, <1>4, SMT DEF OneSlotPerRuntime
<1>7. RecordsOwn'
  <2>1. (\A q \in Pids : ProcOwned(q)')
    BY <1>2 DEF RecordsOwn, ProcOwned
  <2>2. ASSUME NEW j \in Slots PROVE SlotOwns(j)'
    <3>1. SlotOwns(j)
      BY DEF RecordsOwn
    <3> QED
      BY <1>1, <1>2, <1>4, <3>1, ConstantsAssumption, SMT DEF SlotOwns, run_alive
  <2>3. ASSUME NEW n \in Names PROVE FileOwns(n)'
    <3>1. FileOwns(n)
      BY DEF RecordsOwn
    <3> QED
      BY <1>1, <1>2, <1>5, <3>1 DEF FileOwns, run_alive
  <2> QED
    BY <2>1, <2>2, <2>3 DEF RecordsOwn
<1>8. Operating'
  BY <1>1, <1>2, ReturnOperating DEF spawn_record
<1> QED
  BY <1>6, <1>7, <1>8

\* A failed write of the pid file keeps the records consistent.
LEMMA SpawnRecordFailsRecords ==
    ASSUME TypeOK, OneSlotPerRuntime, RecordsOwn, Operating, spawn_record_fails
    PROVE  OneSlotPerRuntime' /\ RecordsOwn' /\ Operating'
<1>1. op.slot \in Slots /\ (unscanned # {} => op.caller = "recover")
  BY DEF spawn_record_fails, Operating
<1>2. g_agents[op.slot] \in Managed /\ Keeps(op.slot, g_agents[op.slot])
  BY <1>1, SlotKeeps DEF TypeOK
<1>3. \E m \in Managed : Keeps(op.slot, m) /\ g_agents' = [g_agents EXCEPT ![op.slot] = m]
  <2> DEFINE d == [g_agents[op.slot] EXCEPT !.next_restart_at = "later"]
  <2>1. d \in Managed /\ d.name = g_agents[op.slot].name /\ d.pid = g_agents[op.slot].pid
    BY <1>2, DelayType
  <2>2. Keeps(op.slot, d)
    <3> HIDE DEF d
    <3> QED
      BY <1>1, <1>2, <2>1, KeepsMore
  <2>3. CASE op.caller = "recover"
    BY <1>1, <2>3, FreeSlotType, SlotKeeps DEF spawn_record_fails
  <2>4. CASE op.caller = "reconcile"
    BY <2>1, <2>2, <2>4 DEF spawn_record_fails
  <2>5. CASE op.caller \notin {"recover", "reconcile"}
    BY <1>2, <2>5 DEF spawn_record_fails
  <2> QED
    BY <2>3, <2>4, <2>5
<1>4. Ages /\ PidFilesKept
  BY AgesSame DEF spawn_record_fails, PidFilesKept
<1>5. OneSlotPerRuntime' /\ RecordsOwn'
  BY <1>1, <1>3, <1>4, KeepsStep
<1> QED
  BY <1>1, <1>5, ReturnOperating DEF spawn_record_fails

\* Both ends of stop_agent's wait loop keep the records consistent.
LEMMA StopEndRecords ==
    ASSUME TypeOK, OneSlotPerRuntime, RecordsOwn, Operating, stop_done \/ stop_timeout
    PROVE  OneSlotPerRuntime' /\ RecordsOwn' /\ Operating'
<1>1. /\ op.slot \in Slots /\ g_agents[op.slot].name \in Names
      /\ op.caller \in {"reconcile", "stop", "restart"} /\ unscanned' = {}
  BY DEF stop_done, stop_timeout, Operating
<1>2. g_agents[op.slot] \in Managed /\ Keeps(op.slot, g_agents[op.slot])
  BY <1>1, SlotKeeps DEF TypeOK
<1>3. /\ clear_runtime_state(g_agents[op.slot]) \in Managed
      /\ Keeps(op.slot, clear_runtime_state(g_agents[op.slot]))
  BY <1>1, <1>2, ClearType, KeepsMore
<1>4. PidFilesKept
  BY DEF stop_done, stop_timeout, PidFilesKept
<1>5. Ages
  <2>1. \A p \in Pids : proc[p] \in Process
    BY DEF TypeOK
  <2>2. CASE stop_timeout
    <3>1. \A p \in Pids : \/ proc'[p] = proc[p]
                          \/ /\ proc'[p].st = proc[p].st /\ proc'[p].name = proc[p].name
                             /\ proc'[p].killed = TRUE
      BY <2>1, <2>2 DEF stop_timeout, TypeOK, Process
    <3> QED
      BY <3>1 DEF Ages, Live
  <2>3. CASE stop_done
    BY <2>3, AgesSame DEF stop_done
  <2> QED
    BY <2>2, <2>3
<1> QED
  BY <1>1, <1>2, <1>3, <1>4, <1>5, AfterStopRecords DEF stop_done, stop_timeout

\* The death of agentd keeps the records consistent: the table is gone.
LEMMA DaemonExitRecords ==
    ASSUME TypeOK, RecordsOwn, DaemonExit
    PROVE  OneSlotPerRuntime' /\ RecordsOwn' /\ Operating'
<1>1. \A i \in Slots : g_agents'[i] = FreeSlot /\ g_agents'[i].pid = NoPid
                       /\ g_agents'[i].name = NoName
  BY FreeSlotType DEF DaemonExit
<1>2. \A p \in Pids : /\ proc[p].st # "unused" => proc'[p].st # "unused"
                      /\ proc'[p].st \in {"running", "zombie"} =>
                            proc[p].st = "running" /\ proc'[p].name = proc[p].name
  <2>1. \A q \in Process : LET r == [q EXCEPT !.child = FALSE] IN
                           r.st = q.st /\ r.name = q.name
    BY DEF Process
  <2> QED
    BY <2>1 DEF DaemonExit, NoProcess, TypeOK
<1>3. /\ \A n \in Names : pid_file[n] \in Pids \cup {NoPid}
      /\ UNCHANGED pid_file
  BY DEF TypeOK, DaemonExit
<1>4. RecordsOwn'
  BY <1>1, <1>2, <1>3 DEF RecordsOwn, ProcOwned, SlotOwns, FileOwns, run_alive
<1> QED
  BY <1>1, <1>4 DEF OneSlotPerRuntime, Operating, DaemonExit

\* A runtime that exits becomes a zombie or is gone, under its own name.
LEMMA ProcExitAges ==
    ASSUME TypeOK, NEW p \in Pids, NEW how \in ExitKinds, ProcExit(p, how)
    PROVE  /\ Ages
           /\ \A q \in Pids : q # p => proc'[q] = proc[q]
           /\ proc[p].child => /\ proc'[p].st = "zombie" /\ proc'[p].child
                               /\ proc'[p].name = proc[p].name
<1>1. LET r == [proc[p] EXCEPT !.st = "zombie", !.exit = how] IN
      r.st = "zombie" /\ r.name = proc[p].name /\ r.child = proc[p].child
  BY DEF TypeOK, Process
<1>2. /\ \A q \in Pids : q # p => proc'[q] = proc[q]
      /\ proc[p].st = "running"
      /\ IF proc[p].child THEN /\ proc'[p].st = "zombie" /\ proc'[p].child
                               /\ proc'[p].name = proc[p].name
                          ELSE proc'[p].st = "gone"
  BY <1>1 DEF ProcExit, TypeOK, NoProcess
<1> QED
  BY <1>2 DEF Ages, Live

\* A runtime that becomes stable stays what it is.
LEMMA RunsStableAges ==
    ASSUME TypeOK, NEW p \in Pids, RunsStable(p)
    PROVE  \A q \in Pids : /\ proc'[q].st = proc[q].st
                           /\ proc'[q].name = proc[q].name
                           /\ proc'[q].killed = proc[q].killed
                           /\ proc'[q].child = proc[q].child
<1>1. LET r == [proc[p] EXCEPT !.stable = TRUE] IN
      /\ r.st = proc[p].st /\ r.name = proc[p].name
      /\ r.killed = proc[p].killed /\ r.child = proc[p].child
  BY DEF TypeOK, Process
<1> QED
  BY <1>1 DEF RunsStable, TypeOK

\* Operators, runtimes and time keep the records consistent.
LEMMA EnvRecords ==
    ASSUME TypeOK, OneSlotPerRuntime, RecordsOwn, Operating, EnvStep
    PROVE  OneSlotPerRuntime' /\ RecordsOwn' /\ Operating'
<1> DEFINE Goal == OneSlotPerRuntime' /\ RecordsOwn' /\ Operating'
<1>1. ASSUME NEW n \in Names,
             \/ \E v \in {"running", "stopped"} : SetDesired(n, v)
             \/ \E v \in BOOLEAN : SetEnabled(n, v)
      PROVE  Goal
  <2>1. UNCHANGED <<pid_file, proc, g_agents, at, op, unscanned>>
    BY <1>1 DEF SetDesired, SetEnabled
  <2> QED
    BY <2>1, SMT
      DEF OneSlotPerRuntime, RecordsOwn, ProcOwned, SlotOwns, FileOwns, Operating, run_alive
<1>2. ASSUME NEW p \in Pids, RunsStable(p) PROVE Goal
  <2>1. UNCHANGED <<pid_file, g_agents, at, op, unscanned>>
    BY <1>2 DEF RunsStable
  <2>2. Ages /\ PidFilesKept
    BY <1>2, <2>1, RunsStableAges DEF Ages, PidFilesKept, Live
  <2>3. OneSlotPerRuntime' /\ RecordsOwn'
    BY <2>1, <2>2, SameSlots
  <2> QED
    BY <1>2, <2>1, <2>3, RunsStableAges DEF Operating
<1>3. ASSUME NEW p \in Pids, NEW how \in ExitKinds, ProcExit(p, how) PROVE Goal
  <2>1. UNCHANGED <<pid_file, g_agents, at, op, unscanned>>
    BY <1>3 DEF ProcExit
  <2>2. Ages /\ PidFilesKept
    BY <1>3, <2>1, ProcExitAges DEF PidFilesKept
  <2>3. OneSlotPerRuntime' /\ RecordsOwn'
    BY <2>1, <2>2, SameSlots
  <2> QED
    BY <1>3, <2>1, <2>3, ProcExitAges DEF Operating
<1>4. ASSUME NEW i \in Slots, BackoffExpires(i) PROVE Goal
  <2>1. UNCHANGED <<pid_file, proc, at, op, unscanned>>
    BY <1>4 DEF BackoffExpires
  <2> DEFINE d == [g_agents[i] EXCEPT !.next_restart_at = "due"]
  <2>2. d \in Managed /\ d.name = g_agents[i].name /\ d.pid = g_agents[i].pid
    BY DelayType DEF TypeOK
  <2>3. g_agents' = [g_agents EXCEPT ![i] = d]
    BY <1>4 DEF BackoffExpires
  <2> HIDE DEF d
  <2>4. Keeps(i, d)
    BY <2>2, SlotKeeps, KeepsMore DEF TypeOK
  <2>5. OneSlotPerRuntime' /\ RecordsOwn'
    BY <2>1, <2>2, <2>3, <2>4, AgesSame, KeepsStep DEF PidFilesKept
  <2>6. \A j \in Slots : /\ g_agents'[j].name = g_agents[j].name
                         /\ g_agents'[j].pid = g_agents[j].pid
    BY <2>2, <2>3 DEF TypeOK
  <2>7. at # "down"
    BY <1>4, SMT DEF BackoffExpires, Operating, FreeSlot, Fresh
  <2> QED
    BY <2>1, <2>5, <2>6, <2>7 DEF Operating
<1> QED
  BY <1>1, <1>2, <1>3, <1>4, DaemonExitRecords DEF EnvStep

\* Every step keeps slots, pid files and the operation in progress consistent.
LEMMA RecordsStep == Records /\ [Next]_vars => Records'
<1> SUFFICES ASSUME TypeOK, OneSlotPerRuntime, RecordsOwn, Operating, [Next]_vars
             PROVE  OneSlotPerRuntime' /\ RecordsOwn' /\ Operating'
  BY TypeStep DEF Records
<1>1. CASE UNCHANGED vars
  <2>1. OneSlotPerRuntime' /\ RecordsOwn'
    BY <1>1, AgesSame, SameSlots DEF vars, PidFilesKept
  <2> QED
    BY <1>1, <2>1 DEF vars, Operating
<1>2. CASE DaemonStart
  <2>1. OneSlotPerRuntime' /\ RecordsOwn'
    BY <1>2, AgesSame, SameSlots DEF DaemonStart, PidFilesKept
  <2> QED
    BY <1>2, <2>1 DEF DaemonStart, Operating
<1>3. CASE RecoverDone
  <2>1. OneSlotPerRuntime' /\ RecordsOwn'
    BY <1>3, AgesSame, SameSlots DEF RecoverDone, PidFilesKept
  <2> QED
    BY <1>3, <2>1 DEF RecoverDone, Operating
<1>4. ASSUME NEW n \in Names,
             \/ recover_cb(n) \/ ReconcileEvent(n) \/ ReconcileScan(n)
             \/ handle_cmd_start(n)
             \/ \E c \in {"stop", "restart"} : handle_cmd_stop(n, c)
      PROVE  OneSlotPerRuntime' /\ RecordsOwn' /\ Operating'
  BY <1>4, RecoverRecords, ReconcileRecords, StartRecords, StopCmdRecords
  DEF ReconcileEvent, ReconcileScan
<1>5. ASSUME NEW i \in Slots, external_exit(i)
      PROVE  OneSlotPerRuntime' /\ RecordsOwn' /\ Operating'
  <2>1. at = "loop" /\ UNCHANGED <<pid_file, proc, at, op, unscanned>>
        /\ g_agents' = [g_agents EXCEPT ![i] = Observed(g_agents[i])]
    BY <1>5 DEF external_exit
  <2>2. /\ g_agents[i] \in Managed /\ Observed(g_agents[i]) \in Managed
        /\ Observed(g_agents[i]).name = g_agents[i].name
    BY ObservedType DEF TypeOK
  <2>3. \A m \in Managed : Observed(m).pid \in {m.pid, NoPid}
    BY DEF Observed, clear_runtime_state, Managed
  <2>4. Keeps(i, Observed(g_agents[i]))
    BY <2>2, <2>3, SlotKeeps, KeepsMore
  <2>5. OneSlotPerRuntime' /\ RecordsOwn'
    BY <2>1, <2>2, <2>4, AgesSame, KeepsStep DEF PidFilesKept
  <2> QED
    BY <2>1, <2>5 DEF Operating
<1> QED
  BY <1>1, <1>2, <1>3, <1>4, <1>5, EnvRecords, ReapRecords, SpawnRecordRecords,
     SpawnRecordFailsRecords, StopEndRecords DEF Next, DaemonStep

\* The records are consistent before agentd first starts.
LEMMA RecordsInit == Init => Records
<1> SUFFICES ASSUME Init PROVE Records
  OBVIOUS
<1>1. TypeOK
  BY FreeSlotType, NoOpType, NoProcessType, SMT DEF Init, TypeOK
<1> QED
  BY <1>1, FreeSlotType
    DEF Init, Records, OneSlotPerRuntime, RecordsOwn, ProcOwned, SlotOwns, FileOwns, Operating, NoProcess, run_alive

\* In every behaviour, whatever is cut short and however many agents there
\* are, the variables keep their types.
THEOREM TypeCorrect == Spec => []TypeOK
<1>1. Spec => []Records
  BY RecordsInit, RecordsStep, PTL DEF Spec
<1>2. Records => TypeOK
  BY DEF Records
<1> QED
  BY <1>1, <1>2, PTL

\* agentd holds at most one slot, hence at most one pidfd, per agent and per
\* supervised process: also after spawns that failed halfway, deaths of agentd
\* in the middle of a spawn, and with more agents than slots.
THEOREM OneSlotPerRuntimeAlways == Spec => []OneSlotPerRuntime
<1>1. Spec => []Records
  BY RecordsInit, RecordsStep, PTL DEF Spec
<1>2. Records => OneSlotPerRuntime
  BY DEF Records
<1> QED
  BY <1>1, <1>2, PTL

-----------------------------------------------------------------------------
(* Crash loops end: the respawns of an agent are matched by the failures     *)
(* that reap_zombies has counted in its slot                                 *)

\* The entry alloc_slot returns is the agent's own, or a zeroed one.
LEMMA EntryFields ==
    ASSUME NEW i \in Slots, NEW n \in Names
    PROVE  LET e == Entry(i, n) IN
           \/ g_agents[i].name = n /\ e = g_agents[i]
           \/ /\ g_agents[i].name # n /\ e.pid = NoPid /\ ~e.external
              /\ e.consecutive_failures = 0 /\ e.name = n
BY DEF Entry, Fresh

\* clear_runtime_state keeps all but the pid.
LEMMA ClearFields ==
    ASSUME NEW m \in Managed
    PROVE  LET c == clear_runtime_state(m) IN
           /\ c.name = m.name /\ c.pid = NoPid /\ c.external = m.external
           /\ c.consecutive_failures = m.consecutive_failures
BY DEF clear_runtime_state, Managed

\* reconcile_cb_ drops the pid of an adopted runtime that is gone.
LEMMA ObservedFields ==
    ASSUME NEW m \in Managed
    PROVE  LET o == Observed(m) IN
           /\ o.consecutive_failures = m.consecutive_failures
           /\ o.name = m.name
           /\ IF ExternalGone(m) THEN o.pid = NoPid
              ELSE o.pid = m.pid /\ o.external = m.external
BY DEF Observed, clear_runtime_state, Managed

\* A restart that is scheduled or cancelled keeps runtime and failures.
LEMMA DelayFields ==
    ASSUME NEW m \in Managed, NEW t
    PROVE  LET d == [m EXCEPT !.next_restart_at = t] IN
           /\ d.name = m.name /\ d.pid = m.pid /\ d.external = m.external
           /\ d.consecutive_failures = m.consecutive_failures
BY DEF Managed

\* An explicit start forgets the failures.
LEMMA UnsuppressedFields ==
    ASSUME NEW m \in Managed
    PROVE  LET d == Unsuppressed(m) IN
           /\ d.name = m.name /\ d.pid = m.pid /\ d.external = m.external
           /\ d.consecutive_failures = 0
BY DEF Managed, Unsuppressed

\* reap_zombies counts one more failure, or starts again after a stable run.
LEMMA FailedFields ==
    ASSUME NEW m \in Managed, NEW b \in BOOLEAN
    PROVE  Failed(m, b).consecutive_failures =
               IF b THEN 1 ELSE m.consecutive_failures + 1
<1> DEFINE c == clear_runtime_state(m)
           k == IF b THEN 1 ELSE c.consecutive_failures + 1
<1>1. c \in Managed /\ c.consecutive_failures = m.consecutive_failures
  BY ClearType, ClearFields
<1>2. Failed(m, b) = [c EXCEPT !.consecutive_failures = k]
  BY DEF Failed
<1> HIDE DEF c
<1>3. \A x : [c EXCEPT !.consecutive_failures = x].consecutive_failures = x
  BY <1>1 DEF Managed
<1> QED
  BY <1>1, <1>2, <1>3

\* An agent with no respawn on its account owes nothing.
LEMMA ZeroBurst ==
    ASSUME TypeOK', NEW n \in Names, auto'[n] <= 0
    PROVE  Burst(n)'
<1>1. auto'[n] \in Int /\ RESTART_BURST_LIMIT \in Nat \ {0}
  BY ConstantsAssumption DEF TypeOK
<1>2. auto'[n] < RESTART_BURST_LIMIT /\ auto'[n] <= RESTART_BURST_LIMIT
  BY <1>1, SMT
<1>3. ASSUME NEW f \in Nat PROVE auto'[n] <= f /\ auto'[n] <= f + 1
  BY <1>1, SMT
<1>4. \A j \in Slots : g_agents'[j].consecutive_failures \in Nat
  BY DEF TypeOK, Managed
<1>5. ASSUME NEW j \in Slots PROVE SlotCounted(j, n)'
  BY <1>2, <1>3, <1>4 DEF SlotCounted, RuntimeCounted
<1> QED
  BY <1>2, <1>5 DEF Burst

\* What is left to show of an agent whose account does not change.
LEMMA BurstBy ==
    ASSUME NEW n \in Names, Burst(n), auto'[n] = auto[n],
           Recovering' => Recovering,
           Wanted(n)' /\ Forgotten(n)' => Wanted(n) /\ Forgotten(n),
           \A j \in Slots : g_agents'[j].name = n => SlotCounted(j, n)'
    PROVE  Burst(n)'
BY DEF Burst

\* A slot that keeps its runtime and its failures.
SlotSame(j) == /\ g_agents'[j].name = g_agents[j].name
               /\ g_agents'[j].pid = g_agents[j].pid
               /\ g_agents'[j].external = g_agents[j].external
               /\ g_agents'[j].consecutive_failures = g_agents[j].consecutive_failures

NoneStabler == \A p \in Pids : proc'[p].stable => proc[p].stable

\* A slot that keeps its runtime and failures keeps the account true.
LEMMA SlotFrame ==
    ASSUME TypeOK, Operating, NEW n \in Names, NEW j \in Slots,
           SlotCounted(j, n), SlotSame(j),
           auto'[n] = auto[n], Wanted(n)' => Wanted(n),
           Spawning(j)' <=> Spawning(j), Spawning(j) => op'.pid = op.pid,
           g_agents[j].pid # NoPid /\ proc'[g_agents[j].pid].stable =>
               proc[g_agents[j].pid].stable,
           Spawning(j) /\ proc'[op.pid].stable => proc[op.pid].stable
    PROVE  SlotCounted(j, n)'
BY DEF SlotCounted, SlotSame, RuntimeCounted

\* A slot left without a runtime.
LEMMA SlotEmpty ==
    ASSUME NEW n \in Names, NEW j \in Slots, ~Spawning(j)',
           g_agents'[j].pid = NoPid,
           Wanted(n)' => /\ auto'[n] <= g_agents'[j].consecutive_failures
                         /\ auto'[n] < RESTART_BURST_LIMIT
    PROVE  SlotCounted(j, n)'
BY DEF SlotCounted

\* A step that keeps the slots' runtimes and failures, and does not make the
\* agent wanted, keeps the agent's account.
LEMMA BurstQuiet ==
    ASSUME Records, NEW n \in Names, Burst(n), auto'[n] = auto[n],
           Wanted(n)' => Wanted(n), UNCHANGED <<at, op>>,
           \A j \in Slots : SlotSame(j), NoneStabler
    PROVE  Burst(n)'
<1>1. TypeOK /\ Operating
  BY DEF Records
<1>2. \A j \in Slots : /\ g_agents'[j].name = g_agents[j].name
                       /\ g_agents[j].pid \in Pids \cup {NoPid}
  BY <1>1 DEF SlotSame, TypeOK, Managed
<1>3. (Recovering' <=> Recovering) /\ (Forgotten(n)' <=> Forgotten(n))
  BY <1>2 DEF Recovering, Forgotten
<1>4. ASSUME NEW j \in Slots, g_agents'[j].name = n PROVE SlotCounted(j, n)'
  <2>1. SlotCounted(j, n) /\ SlotSame(j)
    BY <1>2, <1>4 DEF Burst
  <2>2. (Spawning(j)' <=> Spawning(j)) /\ op'.pid = op.pid
    BY DEF Spawning
  <2>3. Spawning(j) => op.pid \in Pids
    BY <1>1 DEF Spawning, Operating
  <2> QED
    BY <1>1, <1>2, <2>1, <2>2, <2>3, SlotFrame DEF NoneStabler
<1> QED
  BY <1>3, <1>4, BurstBy

\* A step that gives no slot a new child and ends no child in a slot.
LEMMA ChildrenKept ==
    ASSUME TypeOK, OwnChildren,
           \A j \in Slots : g_agents'[j].pid # NoPid /\ ~g_agents'[j].external =>
               g_agents'[j].pid = g_agents[j].pid /\ ~g_agents[j].external,
           \A p \in Pids : proc[p].child /\ proc[p].st \in {"running", "zombie"} =>
               \/ proc'[p].child /\ proc'[p].st \in {"running", "zombie"}
               \/ \A j \in Slots : g_agents'[j].pid # p
    PROVE  OwnChildren'
<1>1. \A j \in Slots : g_agents[j].pid \in Pids \cup {NoPid}
  BY DEF TypeOK, Managed
<1> QED
  BY <1>1 DEF OwnChildren

\* The slots after one of them is replaced by an entry m.
LEMMA OneSlotChanges ==
    ASSUME TypeOK, NEW i \in Slots, NEW m \in Managed,
           g_agents' = [g_agents EXCEPT ![i] = m]
    PROVE  /\ g_agents'[i] = m
           /\ \A j \in Slots : j # i => g_agents'[j] = g_agents[j] /\ SlotSame(j)
BY DEF TypeOK, SlotSame

\* Entry m keeps the runtime and the failures of slot i, and its agent.
Inherits(i, m) == /\ m.name = g_agents[i].name
                  /\ m.pid = g_agents[i].pid
                  /\ m.external = g_agents[i].external
                  /\ m.consecutive_failures = g_agents[i].consecutive_failures

\* Entry m has no runtime, and agent n's account allows for one more.
Spare(n, m) == /\ m.name = n /\ m.pid = NoPid
               /\ Wanted(n)' => /\ auto'[n] <= m.consecutive_failures
                                /\ auto'[n] < RESTART_BURST_LIMIT

\* A step at the loop, or in the wait of a stop, that replaces the slot of
\* an agent, or an empty one, by an entry of that agent.
LEMMA SlotReplaced ==
    ASSUME Records, BurstInv, NEW i \in Slots, NEW m \in Managed, NEW k \in Names,
           g_agents' = [g_agents EXCEPT ![i] = m], m.name = k,
           g_agents[i].name \in {k, NoName},
           auto' = auto, at \notin {"spawn", "down"}, at' \notin {"spawn", "down", "recover"},
           at' = "stop" => UNCHANGED <<at, op>> \/ op'.caller = "reconcile",
           NoneStabler,
           \A n \in Names : Wanted(n)' => Wanted(n),
           Inherits(i, m) \/ Spare(k, m)
    PROVE  \A n \in Names : Burst(n)'
<1> SUFFICES ASSUME NEW n \in Names PROVE Burst(n)'
  OBVIOUS
<1>1. TypeOK /\ Operating /\ Burst(n) /\ auto'[n] = auto[n]
  BY DEF Records, BurstInv
<1>2. /\ g_agents'[i] = m
      /\ \A j \in Slots : j # i => g_agents'[j] = g_agents[j] /\ SlotSame(j)
  BY <1>1, OneSlotChanges
<1>3. \A j \in Slots : ~Spawning(j) /\ ~Spawning(j)'
  BY DEF Spawning
<1>4. \A j \in Slots : g_agents[j].pid \in Pids \cup {NoPid}
  BY <1>1 DEF TypeOK, Managed
<1>5. ~Recovering'
  BY DEF Recovering
<1>6. Forgotten(n)' => Forgotten(n)
  BY <1>2, ConstantsAssumption DEF Forgotten
<1>7. ASSUME NEW j \in Slots, g_agents'[j].name = n, SlotSame(j)
      PROVE  SlotCounted(j, n)'
  <2>1. SlotCounted(j, n)
    BY <1>1, <1>7 DEF SlotSame, Burst
  <2> QED
    BY <1>1, <1>3, <1>4, <1>7, <2>1, SlotFrame DEF NoneStabler
<1>8. ASSUME Spare(k, m), n = k PROVE SlotCounted(i, n)'
  BY <1>2, <1>3, <1>8, SlotEmpty DEF Spare
<1>9. Inherits(i, m) => SlotSame(i)
  BY <1>2 DEF Inherits, SlotSame
<1>10. ASSUME NEW j \in Slots, g_agents'[j].name = n PROVE SlotCounted(j, n)'
  BY <1>2, <1>7, <1>8, <1>9, <1>10
<1> QED
  BY <1>1, <1>5, <1>6, <1>10, BurstBy

\* Children of agentd stay what they are, or are in no slot any more.
ChildrenStay ==
    \A p \in Pids : proc[p].child /\ proc[p].st \in {"running", "zombie"} =>
        \/ proc'[p].child /\ proc'[p].st \in {"running", "zombie"}
        \/ \A j \in Slots : g_agents'[j].pid # p

\* A replaced slot brings no new child.
LEMMA ChildrenReplaced ==
    ASSUME TypeOK, OwnChildren, NEW i \in Slots, NEW m \in Managed,
           g_agents' = [g_agents EXCEPT ![i] = m], ChildrenStay,
           \/ m.pid = NoPid
           \/ m.external
           \/ m.pid = g_agents[i].pid /\ m.external = g_agents[i].external
    PROVE  OwnChildren'
<1>1. /\ g_agents'[i] = m
      /\ \A j \in Slots : j # i => g_agents'[j] = g_agents[j]
  BY OneSlotChanges
<1>2. \A j \in Slots : g_agents'[j].pid # NoPid /\ ~g_agents'[j].external =>
               g_agents'[j].pid = g_agents[j].pid /\ ~g_agents[j].external
  BY <1>1
<1> QED
  BY <1>2, ChildrenKept DEF ChildrenStay

\* The agents a step is not about: it replaces a slot of agent k, or an empty
\* one, and works on agent k's behalf.
LEMMA OthersKept ==
    ASSUME Records, BurstInv, NEW i \in Slots, NEW m \in Managed, NEW k \in Names,
           g_agents' = [g_agents EXCEPT ![i] = m],
           m.name \in {k, NoName}, g_agents[i].name \in {k, NoName},
           at \notin {"spawn", "down"}, Recovering' => Recovering,
           at' = "spawn" => op'.slot = i,
           at' = "stop" => UNCHANGED <<at, op>> \/ op'.name = k,
           NoneStabler, NEW n \in Names, n # k,
           auto'[n] = auto[n], Wanted(n)' => Wanted(n)
    PROVE  Burst(n)'
<1>1. TypeOK /\ Operating /\ Burst(n)
  BY DEF Records, BurstInv
<1>2. /\ g_agents'[i] = m
      /\ \A j \in Slots : j # i => g_agents'[j] = g_agents[j] /\ SlotSame(j)
  BY <1>1, OneSlotChanges
<1>3. \A j \in Slots : g_agents[j].pid \in Pids \cup {NoPid}
  BY <1>1 DEF TypeOK, Managed
<1>4. Forgotten(n)' => Forgotten(n)
  BY <1>2, ConstantsAssumption DEF Forgotten
<1>5. ASSUME NEW j \in Slots, g_agents'[j].name = n PROVE SlotCounted(j, n)'
  <2>1. j # i /\ SlotSame(j) /\ g_agents[j].name = n
    BY <1>2, <1>5, ConstantsAssumption
  <2>2. ~Spawning(j) /\ ~Spawning(j)'
    BY <2>1 DEF Spawning
  <2>3. SlotCounted(j, n)
    BY <1>1, <2>1 DEF Burst
  <2> QED
    BY <1>1, <1>3, <2>1, <2>2, <2>3, SlotFrame DEF NoneStabler
<1> QED
  BY <1>1, <1>4, <1>5, BurstBy

\* reap_zombies counts the failure before it schedules the restart.
LEMMA ReapSpare ==
    ASSUME Records, BurstInv, NEW p \in Pids, NEW i \in find_by_pid(p),
           NEW n \in Names, n = g_agents[i].name,
           reap_managed(i, p), at \in {"loop", "stop"}, UNCHANGED <<at, op, auto, enabled>>
    PROVE  /\ \A x \in Names : Wanted(x)' => Wanted(x)
           /\ \E m \in Managed : /\ g_agents' = [g_agents EXCEPT ![i] = m]
                                 /\ Spare(n, m)
<1> DEFINE k == g_agents[i]
           f == Failed(k, proc[p].stable)
<1>1. /\ i \in Slots /\ k \in Managed /\ k.pid = p /\ k.name = n
      /\ proc[p].stable \in BOOLEAN /\ p # NoPid /\ k.consecutive_failures \in Nat
      /\ k.external \in BOOLEAN
  <2>1. TypeOK /\ RecordsOwn
    BY DEF Records
  <2>2. i \in Slots /\ k.pid = p /\ p # NoPid
    BY ConstantsAssumption DEF find_by_pid
  <2>3. k \in Managed /\ proc[p] \in Process
    BY <2>1, <2>2 DEF TypeOK
  <2>4. SlotOwns(i)
    BY <2>1, <2>2 DEF RecordsOwn
  <2> QED
    BY <2>2, <2>3, <2>4 DEF Managed, Process, SlotOwns
<1>2. SlotCounted(i, n) /\ ~Spawning(i) /\ auto'[n] = auto[n] /\ auto[n] \in Int
  BY <1>1 DEF BurstInv, Burst, Spawning, Records, TypeOK
<1>3. /\ f \in Managed /\ f.name = n /\ f.pid = NoPid
      /\ f.consecutive_failures =
             IF proc[p].stable THEN 1 ELSE k.consecutive_failures + 1
  BY <1>1, FailedType, FailedFields
<1>4. clear_runtime_state(k) \in Managed /\ clear_runtime_state(k).name = n
      /\ clear_runtime_state(k).pid = NoPid
  BY <1>1, ClearType
<1>5. \A t \in {"none", "later"} : LET d == [f EXCEPT !.next_restart_at = t] IN
         /\ d \in Managed /\ d.name = n /\ d.pid = NoPid
         /\ d.consecutive_failures = f.consecutive_failures
  <2> HIDE DEF f
  <2> QED
    BY <1>3, DelayType, DelayFields
<1>6. auto[n] <= f.consecutive_failures
  <2> HIDE DEF f, k
  <2>1. proc[p].stable => auto[n] <= 0
    BY <1>1, <1>2 DEF SlotCounted, RuntimeCounted, k
  <2>2. ~k.external => auto[n] <= k.consecutive_failures + 1
    BY <1>1, <1>2 DEF SlotCounted, RuntimeCounted, k
  <2>3. k.external => auto[n] <= 0
    BY <1>1, <1>2 DEF SlotCounted, RuntimeCounted, k
  <2> QED
    BY <1>1, <1>2, <1>3, <2>1, <2>2, <2>3, SMT
<1>7. CASE /\ ~Wanted(n) /\ g_agents' = [g_agents EXCEPT ![i] = clear_runtime_state(k)]
           /\ UNCHANGED <<desired_state, inotify>>
  <2>1. \A x \in Names : Wanted(x)' <=> Wanted(x)
    BY <1>7 DEF Wanted
  <2>2. Spare(n, clear_runtime_state(k))
    <3> HIDE DEF k
    <3> QED
      BY <1>1, <1>4, <1>7, <2>1 DEF Spare
  <2> QED
    BY <1>1, <1>4, <1>7, <2>1, <2>2
<1>8. ASSUME NEW m \in Managed, m.name = n, m.pid = NoPid,
             g_agents' = [g_agents EXCEPT ![i] = m], WriteDesired(n, "stopped")
      PROVE  Spare(n, m) /\ \A x \in Names : Wanted(x)' => Wanted(x)
  <2>1. desired_state' = [desired_state EXCEPT ![n] = "stopped"]
    BY <1>8 DEF WriteDesired
  <2>2. desired_state'[n] = "stopped" /\ \A x \in Names : x # n => desired_state'[x] = desired_state[x]
    BY <1>1, <2>1 DEF Records, TypeOK
  <2>3. ~Wanted(n)' /\ \A x \in Names : Wanted(x)' => Wanted(x)
    BY <1>1, <2>2 DEF Wanted
  <2> HIDE DEF k
  <2> QED
    BY <1>8, <2>3 DEF Spare
<1>9. ASSUME NEW m \in Managed, m.name = n, m.pid = NoPid, ~CrashLoop(f),
             m.consecutive_failures = f.consecutive_failures,
             g_agents' = [g_agents EXCEPT ![i] = m], UNCHANGED desired_state
      PROVE  Spare(n, m) /\ \A x \in Names : Wanted(x)' => Wanted(x)
  <2>1. f.consecutive_failures < RESTART_BURST_LIMIT /\ f.consecutive_failures \in Int
    BY <1>1, <1>3, <1>9, ConstantsAssumption, SMT DEF CrashLoop
  <2>2. auto[n] < RESTART_BURST_LIMIT
    <3> HIDE DEF f, k
    <3> QED
      BY <1>2, <1>6, <2>1, ConstantsAssumption, SMT
  <2> QED
    BY <1>2, <1>6, <1>9, <2>2 DEF Spare, Wanted
<1> QED
  BY <1>1, <1>4, <1>5, <1>7, <1>8, <1>9 DEF reap_managed

BurstOK == OwnChildren' /\ \A n \in Names : Burst(n)'

\* reap_zombies keeps the accounts.
LEMMA ReapBurst ==
    ASSUME Records, BurstInv, NEW p \in Pids, reap_zombies(p)
    PROVE  BurstOK
<1>1. TypeOK /\ OneSlotPerRuntime /\ OwnChildren
  BY DEF Records, BurstInv
<1>2. /\ proc' = [proc EXCEPT ![p] = NoProcess("gone")]
      /\ at \in {"loop", "stop"} /\ UNCHANGED <<at, op, auto, enabled>>
  BY DEF reap_zombies
<1>3. \A q \in Pids : IF q = p THEN proc'[q].stable = FALSE
                               ELSE proc'[q] = proc[q]
  BY <1>1, <1>2 DEF TypeOK, NoProcess
<1>4. NoneStabler
  BY <1>3 DEF NoneStabler
<1>5. CASE find_by_pid(p) = {} /\ UNCHANGED <<g_agents, desired_state, inotify>>
  <2>1. \A j \in Slots : SlotSame(j) /\ g_agents'[j].pid # p
    BY <1>5 DEF SlotSame, find_by_pid
  <2>2. OwnChildren'
    BY <1>1, <1>3, <1>5, <2>1, ChildrenKept
  <2>3. ASSUME NEW n \in Names PROVE Burst(n)'
    <3>1. Wanted(n)' => Wanted(n)
      BY <1>2, <1>5 DEF Wanted
    <3> QED
      BY <1>2, <1>4, <2>1, <3>1, BurstQuiet DEF BurstInv
  <2> QED
    BY <2>2, <2>3 DEF BurstOK
<1>6. ASSUME NEW i \in find_by_pid(p), reap_managed(i, p) PROVE BurstOK
  <2>1. i \in Slots /\ g_agents[i].pid = p /\ p # NoPid
    BY ConstantsAssumption DEF find_by_pid
  <2>2. PICK n \in Names : n = g_agents[i].name
    <3>1. SlotOwns(i) /\ g_agents[i] \in Managed
      BY <1>1, <2>1 DEF Records, RecordsOwn, TypeOK
    <3> QED
      BY <2>1, <3>1 DEF SlotOwns, Managed
  <2>3. PICK m \in Managed : /\ g_agents' = [g_agents EXCEPT ![i] = m]
                             /\ Spare(n, m)
    BY <1>2, <1>6, <2>2, ReapSpare
  <2>4. m.pid = NoPid /\ m.name = n /\ \A x \in Names : Wanted(x)' => Wanted(x)
    BY <1>2, <1>6, <2>2, <2>3, ReapSpare DEF Spare
  <2>5. ChildrenStay
    <3>1. /\ g_agents'[i] = m
          /\ \A j \in Slots : j # i => g_agents'[j] = g_agents[j]
      BY <1>1, <2>1, <2>3, OneSlotChanges
    <3>2. \A j \in Slots : g_agents'[j].pid # p
      BY <1>1, <2>1, <2>4, <3>1 DEF OneSlotPerRuntime
    <3> QED
      BY <1>3, <3>2 DEF ChildrenStay
  <2>6. OwnChildren'
    BY <1>1, <2>1, <2>3, <2>5, <2>4, ChildrenReplaced
  <2>7. \A x \in Names : Burst(x)'
    BY <1>2, <1>4, <2>1, <2>2, <2>3, <2>4, SlotReplaced
  <2> QED
    BY <2>6, <2>7 DEF BurstOK
<1> QED
  BY <1>5, <1>6 DEF reap_zombies

\* What alloc_slot returns: the agent's own slot, or an empty one.
LEMMA AllocName ==
    ASSUME NEW n \in Names, NEW i \in alloc_slot(n)
    PROVE  /\ i \in Slots /\ g_agents[i].name \in {n, NoName}
           /\ g_agents[i].name = NoName => \A j \in Slots : g_agents[j].name # n
<1>1. i \in Slots /\ g_agents[i].name \in {n, NoName}
  BY DEF alloc_slot, find_by_name
<1>2. ASSUME g_agents[i].name = NoName, NEW j \in Slots PROVE g_agents[j].name # n
  BY <1>2, ConstantsAssumption DEF alloc_slot, find_by_name
<1> QED
  BY <1>1, <1>2

\* When reconcile_cb_ is about to respawn an agent, its account allows it.
LEMMA ReconcileSpare ==
    ASSUME Records, BurstInv, at = "loop", NEW n \in Names, Wanted(n),
           NEW i \in alloc_slot(n), ~agent_alive(Observed(Entry(i, n)))
    PROVE  LET m == Observed(Entry(i, n)) IN
           /\ m \in Managed /\ m.name = n /\ m.pid = NoPid
           /\ auto[n] <= m.consecutive_failures
           /\ auto[n] < RESTART_BURST_LIMIT
<1> DEFINE e == Entry(i, n)
           m == Observed(e)
<1>1. TypeOK /\ OwnChildren /\ Burst(n) /\ i \in Slots /\ auto[n] \in Int
      /\ RESTART_BURST_LIMIT \in Nat \ {0}
  BY AllocName, ConstantsAssumption DEF Records, BurstInv, TypeOK
<1>2. /\ e \in Managed /\ e.name = n /\ m \in Managed /\ m.name = n
      /\ e.consecutive_failures \in Nat
  <2>1. e \in Managed /\ e.name = n
    BY <1>1, EntryType
  <2> HIDE DEF e
  <2> QED
    BY <2>1, ObservedType DEF Managed
<1>3. /\ m.consecutive_failures = e.consecutive_failures
      /\ IF ExternalGone(e) THEN m.pid = NoPid
         ELSE m.pid = e.pid /\ m.external = e.external
  BY <1>2, ObservedFields
<1>4. \/ g_agents[i].name = n /\ e = g_agents[i]
      \/ g_agents[i].name # n /\ e.pid = NoPid
  BY <1>1, EntryFields
<1>5. ~Spawning(i)
  BY DEF Spawning
<1>6. auto[n] <= 0 => /\ auto[n] <= e.consecutive_failures
                      /\ auto[n] < RESTART_BURST_LIMIT
  BY <1>1, <1>2, SMT
<1>7. CASE g_agents[i].name # n
  <2>1. \A j \in Slots : g_agents[j].name # n
    BY <1>7, AllocName
  <2>2. auto[n] <= 0
    BY <1>1, <2>1 DEF Burst, Forgotten
  <2> QED
    BY <1>2, <1>3, <1>4, <1>6, <1>7, <2>2 DEF ExternalGone
<1>8. CASE g_agents[i].name = n
  <2>1. SlotCounted(i, n) /\ e = g_agents[i]
    BY <1>1, <1>4, <1>8 DEF Burst
  <2>2. CASE ExternalGone(e)
    <3>1. auto[n] <= 0
      BY <2>1, <2>2 DEF SlotCounted, ExternalGone
    <3> QED
      BY <1>2, <1>3, <1>6, <2>2, <3>1
  <2>3. CASE ~ExternalGone(e)
    <3>1. m.pid = e.pid /\ ~run_alive(e.pid)
      BY <1>3, <2>3 DEF agent_alive
    <3>2. e.pid # NoPid => ~e.external
      BY <2>3, <3>1 DEF ExternalGone, agent_alive
    <3>3. e.pid = NoPid
      BY <1>1, <2>1, <3>1, <3>2 DEF OwnChildren, run_alive
    <3> QED
      BY <1>2, <1>3, <1>5, <2>1, <3>1, <3>3 DEF SlotCounted
  <2> QED
    BY <2>2, <2>3
<1> QED
  BY <1>7, <1>8

\* fork() for agent k in slot i: the other agents keep their accounts, and a
\* respawn is entered in k's.
LEMMA ForkBurst ==
    ASSUME Records, Records', BurstInv, NEW k \in Names, NEW i \in alloc_slot(k),
           NEW m \in Managed, m.name = k,
           \/ m.pid = NoPid
           \/ m.pid = g_agents[i].pid /\ m.external = g_agents[i].external,
           NEW caller \in {"recover", "reconcile", "start"},
           Fork(i, m, caller), at \notin {"spawn", "down"},
           caller = "recover" => at = "recover",
           \A n \in Names : n # k => (Wanted(n)' => Wanted(n)),
           caller = "reconcile" => /\ m.pid = NoPid
                                   /\ auto[k] <= m.consecutive_failures
                                   /\ auto[k] < RESTART_BURST_LIMIT
    PROVE  BurstOK
<1>1. TypeOK /\ TypeOK' /\ OneSlotPerRuntime /\ OwnChildren
  BY DEF Records, BurstInv
<1>2. PICK p \in Pids : /\ proc[p].st = "unused"
                        /\ proc' = [proc EXCEPT ![p] = NewProcess(k)]
                        /\ op' = [slot |-> i, pid |-> p, name |-> k, caller |-> caller]
  BY DEF Fork
<1>3. /\ op'.slot = i /\ op'.pid = p /\ op'.caller = caller /\ at' = "spawn"
      /\ g_agents' = [g_agents EXCEPT ![i] = m]
  BY <1>2 DEF Fork
<1>4. /\ ~proc'[p].stable /\ \A q \in Pids : q # p => proc'[q] = proc[q]
  BY <1>1, <1>2 DEF TypeOK, NewProcess
<1>5. NoneStabler /\ ChildrenStay
  BY <1>2, <1>4 DEF NoneStabler, ChildrenStay
<1>6. /\ i \in Slots /\ g_agents[i].name \in {k, NoName}
      /\ g_agents[i].name = NoName => \A j \in Slots : g_agents[j].name # k
  BY AllocName
<1>7. OwnChildren'
  BY <1>1, <1>3, <1>5, <1>6, ChildrenReplaced
<1>8. /\ auto' = [auto EXCEPT ![k] = IF caller = "reconcile" THEN auto[k] + 1 ELSE 0]
      /\ auto'[k] = IF caller = "reconcile" THEN auto[k] + 1 ELSE 0
      /\ \A n \in Names : n # k => auto'[n] = auto[n]
  BY <1>1 DEF Fork, TypeOK
<1>9. Recovering' => Recovering
  BY <1>3 DEF Recovering
<1>10. ASSUME NEW n \in Names, n # k PROVE Burst(n)'
  BY <1>3, <1>5, <1>6, <1>8, <1>9, <1>10, OthersKept
<1>11. CASE caller # "reconcile"
  <2>1. auto'[k] <= 0
    BY <1>8, <1>11, SMT
  <2> QED
    BY <1>1, <1>7, <1>10, <2>1, ZeroBurst DEF BurstOK
<1>12. CASE caller = "reconcile"
  <2>1. /\ auto[k] \in Int /\ m.consecutive_failures \in Nat
        /\ RESTART_BURST_LIMIT \in Nat
    BY <1>1, ConstantsAssumption DEF TypeOK, Managed
  <2>2. auto'[k] <= m.consecutive_failures + 1 /\ auto'[k] <= RESTART_BURST_LIMIT
    BY <1>8, <1>12, <2>1, SMT
  <2>3. /\ g_agents'[i] = m
        /\ \A j \in Slots : j # i => g_agents'[j] = g_agents[j]
    BY <1>1, <1>3, <1>6 DEF TypeOK
  <2>4. Spawning(i)' /\ ~Recovering' /\ ~Forgotten(k)'
    BY <1>3, <1>6, <1>12, <2>3 DEF Spawning, Recovering, Forgotten
  <2>5. SlotCounted(i, k)'
    BY <1>3, <1>4, <1>12, <2>2, <2>3, <2>4 DEF SlotCounted, RuntimeCounted
  <2>6. \A j \in Slots : g_agents'[j].name = k => j = i
    BY <1>1, <1>6, <2>3, ConstantsAssumption DEF OneSlotPerRuntime
  <2>7. Burst(k)'
    BY <2>2, <2>4, <2>5, <2>6 DEF Burst
  <2> QED
    BY <1>7, <1>10, <2>7 DEF BurstOK
<1> QED
  BY <1>11, <1>12

\* A stop that ends: reconciliation keeps the slot, the commands free it.
LEMMA AfterStopBurst ==
    ASSUME Records, BurstInv, NEW i \in Slots, NEW k \in Names,
           g_agents[i].name = k, NEW m \in Managed, m.name = k,
           NEW caller \in {"reconcile", "stop", "restart"},
           AfterStop(i, m, caller), at \in {"loop", "stop"}, UNCHANGED auto,
           NoneStabler, ChildrenStay,
           \A n \in Names : Wanted(n)' => Wanted(n),
           caller # "reconcile" /\ Wanted(k)' => auto[k] <= 0,
           caller = "reconcile" => Inherits(i, m) \/ Spare(k, m),
           m.pid = NoPid \/ Inherits(i, m)
    PROVE  BurstOK
<1>1. TypeOK /\ OneSlotPerRuntime /\ OwnChildren /\ Burst(k)
  BY DEF Records, BurstInv
<1>2. at' \in {"loop", "start"}
  BY DEF AfterStop
<1>3. CASE caller = "reconcile"
  <2>1. g_agents' = [g_agents EXCEPT ![i] = m]
    BY <1>3 DEF AfterStop
  <2>2. OwnChildren'
    BY <1>1, <2>1, ChildrenReplaced DEF Inherits
  <2>3. \A n \in Names : Burst(n)'
    BY <1>2, <1>3, <2>1, SlotReplaced
  <2> QED
    BY <2>2, <2>3 DEF BurstOK
<1>4. CASE caller # "reconcile"
  <2>1. g_agents' = [g_agents EXCEPT ![i] = FreeSlot]
    BY <1>4 DEF AfterStop
  <2>2. FreeSlot \in Managed /\ FreeSlot.name = NoName /\ FreeSlot.pid = NoPid
    BY FreeSlotType
  <2>3. OwnChildren'
    BY <1>1, <2>1, <2>2, ChildrenReplaced
  <2>4. ~Recovering'
    BY <1>2 DEF Recovering
  <2>5. ASSUME NEW n \in Names, n # k PROVE Burst(n)'
    BY <1>2, <2>1, <2>2, <2>4, <2>5, OthersKept
  <2>6. \A j \in Slots : g_agents'[j].name # k
    BY <1>1, <2>1, <2>2, ConstantsAssumption DEF OneSlotPerRuntime, TypeOK
  <2>7. Burst(k)'
    BY <1>1, <1>4, <2>4, <2>6 DEF Burst
  <2> QED
    BY <2>3, <2>5, <2>7 DEF BurstOK
<1> QED
  BY <1>3, <1>4

\* clear_runtime_state of a slot whose runtime is gone.
LEMMA ClearedSpare ==
    ASSUME Records, BurstInv, NEW i \in Slots, NEW k \in Names,
           g_agents[i].name = k, ~agent_alive(g_agents[i]), at # "spawn",
           UNCHANGED auto, Wanted(k)' => Wanted(k)
    PROVE  LET c == clear_runtime_state(g_agents[i]) IN
           /\ c \in Managed /\ c.name = k /\ c.pid = NoPid
           /\ Spare(k, c)
<1> DEFINE g == g_agents[i]
           c == clear_runtime_state(g)
<1>1. TypeOK /\ OwnChildren /\ Burst(k) /\ g \in Managed /\ auto[k] \in Int
      /\ RESTART_BURST_LIMIT \in Nat \ {0}
  BY ConstantsAssumption DEF Records, BurstInv, TypeOK
<1>2. /\ c \in Managed /\ c.name = k /\ c.pid = NoPid
      /\ c.consecutive_failures = g.consecutive_failures
      /\ g.consecutive_failures \in Nat
  BY <1>1, ClearType, ClearFields DEF Managed
<1>3. SlotCounted(i, k) /\ ~Spawning(i)
  BY <1>1 DEF Burst, Spawning
<1>4. CASE g.pid = NoPid
  <2>1. Wanted(k)' => /\ auto'[k] <= c.consecutive_failures
                      /\ auto'[k] < RESTART_BURST_LIMIT
    BY <1>2, <1>3, <1>4 DEF SlotCounted
  <2> QED
    BY <1>2, <2>1 DEF Spare
<1>5. CASE g.pid # NoPid
  <2>1. g.external
    BY <1>1, <1>5 DEF OwnChildren, agent_alive, run_alive
  <2>2. auto[k] <= 0
    BY <1>3, <1>5, <2>1 DEF SlotCounted
  <2>3. auto[k] <= c.consecutive_failures /\ auto[k] < RESTART_BURST_LIMIT
    <3> HIDE DEF c
    <3> QED
      BY <1>1, <1>2, <2>2, SMT
  <2> QED
    BY <1>2, <2>3 DEF Spare
<1> QED
  BY <1>4, <1>5

\* stop_agent at the loop.
LEMMA StopBurst ==
    ASSUME Records, BurstInv, NEW i \in Slots, NEW k \in Names,
           g_agents[i].name = k, NEW caller \in {"reconcile", "stop", "restart"},
           stop_agent(i, g_agents[i], caller), at = "loop", UNCHANGED <<auto, proc>>,
           \A n \in Names : Wanted(n)' => Wanted(n),
           caller # "reconcile" => ~Wanted(k)'
    PROVE  BurstOK
<1>1. TypeOK /\ Operating /\ OneSlotPerRuntime /\ OwnChildren /\ Burst(k)
      /\ g_agents[i] \in Managed
  BY DEF Records, BurstInv, TypeOK
<1>2. NoneStabler /\ ChildrenStay
  BY DEF NoneStabler, ChildrenStay
<1>3. CASE agent_alive(g_agents[i])
  <2>1. /\ g_agents' = [g_agents EXCEPT ![i] = g_agents[i]] /\ at' = "stop"
        /\ op'.name = k /\ op'.caller = caller
    BY <1>3, SMT DEF stop_agent
  <2>2. OwnChildren'
    BY <1>1, <1>2, <2>1, ChildrenReplaced
  <2>3. CASE caller = "reconcile"
    <3>1. \A n \in Names : Burst(n)'
      BY <1>1, <1>2, <2>1, <2>3, SlotReplaced DEF Inherits
    <3> QED
      BY <2>2, <3>1 DEF BurstOK
  <2>4. CASE caller # "reconcile"
    <3>1. ~Recovering'
      BY <2>1 DEF Recovering
    <3>2. ASSUME NEW n \in Names, n # k PROVE Burst(n)'
      BY <1>1, <1>2, <2>1, <3>1, <3>2, OthersKept
    <3>3. \A j \in Slots : /\ SlotSame(j) /\ ~Spawning(j) /\ ~Spawning(j)'
                           /\ g_agents'[j].name = g_agents[j].name
      BY <1>1, <2>1 DEF TypeOK, SlotSame, Spawning
    <3>4. ASSUME NEW j \in Slots, g_agents'[j].name = k PROVE SlotCounted(j, k)'
      <4>1. SlotCounted(j, k)
        BY <1>1, <3>3, <3>4 DEF Burst
      <4> QED
        BY <1>1, <3>3, <4>1, SlotFrame
    <3>5. Burst(k)'
      BY <1>1, <2>4, <3>1, <3>4, BurstBy
    <3> QED
      BY <2>2, <3>2, <3>5 DEF BurstOK
  <2> QED
    BY <2>3, <2>4
<1>4. CASE ~agent_alive(g_agents[i])
  <2> DEFINE c == clear_runtime_state(g_agents[i])
  <2>1. c \in Managed /\ c.name = k /\ c.pid = NoPid /\ Spare(k, c)
    BY <1>4, ClearedSpare
  <2>2. AfterStop(i, c, caller)
    BY <1>4 DEF stop_agent
  <2> HIDE DEF c
  <2> QED
    BY <1>2, <2>1, <2>2, AfterStopBurst
<1> QED
  BY <1>3, <1>4

\* The wait of a stop ends, with the runtime gone or with SIGKILL.
LEMMA StopEndBurst ==
    ASSUME Records, BurstInv, stop_done \/ stop_timeout
    PROVE  BurstOK
<1>1. TypeOK /\ Operating
  BY DEF Records
<1>2. at = "stop" /\ UNCHANGED <<auto, desired_state, enabled>>
  BY DEF stop_done, stop_timeout
<1>3. PICK i \in Slots, k \in Names, caller \in {"reconcile", "stop", "restart"} :
         i = op.slot /\ k = op.name /\ caller = op.caller /\ g_agents[i].name = k
  BY <1>1, <1>2 DEF Operating
<1>4. \A n \in Names : Wanted(n)' <=> Wanted(n)
  BY <1>2 DEF Wanted
<1>5. caller # "reconcile" /\ Wanted(k)' => auto[k] <= 0
  BY <1>2, <1>3, <1>4 DEF BurstInv, Burst, Forgotten
<1>6. CASE stop_done
  <2> DEFINE c == clear_runtime_state(g_agents[i])
  <2>1. AfterStop(i, c, caller) /\ ~agent_alive(g_agents[i]) /\ UNCHANGED proc
    BY <1>3, <1>6 DEF stop_done
  <2>2. c \in Managed /\ c.name = k /\ c.pid = NoPid /\ Spare(k, c)
    BY <1>2, <1>3, <1>4, <2>1, ClearedSpare
  <2>3. NoneStabler /\ ChildrenStay
    BY <2>1 DEF NoneStabler, ChildrenStay
  <2> HIDE DEF c
  <2> QED
    BY <1>2, <1>3, <1>4, <1>5, <2>1, <2>2, <2>3, AfterStopBurst
<1>7. CASE stop_timeout
  <2>1. /\ AfterStop(i, g_agents[i], caller) /\ agent_alive(g_agents[i])
        /\ proc' = [proc EXCEPT ![g_agents[i].pid].killed = TRUE]
    BY <1>3, <1>7 DEF stop_timeout
  <2>2. PICK p \in Pids : p = g_agents[i].pid
    BY <1>1, <2>1 DEF TypeOK, Managed, agent_alive, run_alive
  <2>3. \A q \in Pids : /\ proc'[q].stable = proc[q].stable
                        /\ proc'[q].child = proc[q].child
                        /\ proc'[q].st = proc[q].st
    <3>1. proc' = [proc EXCEPT ![p].killed = TRUE] /\ proc \in [Pids -> Process]
      BY <1>1, <2>1, <2>2 DEF TypeOK
    <3>2. \A q \in Pids : /\ proc[q] \in Process
                          /\ proc'[q] = IF q = p THEN [proc[q] EXCEPT !.killed = TRUE]
                                                 ELSE proc[q]
      BY <3>1
    <3>3. \A r \in Process : LET d == [r EXCEPT !.killed = TRUE] IN
             d.stable = r.stable /\ d.child = r.child /\ d.st = r.st
      BY DEF Process
    <3> QED
      BY <3>2, <3>3
  <2>4. NoneStabler /\ ChildrenStay
    BY <2>3 DEF NoneStabler, ChildrenStay
  <2>5. g_agents[i] \in Managed /\ Inherits(i, g_agents[i])
    BY <1>1 DEF TypeOK, Inherits
  <2> QED
    BY <1>2, <1>3, <1>4, <1>5, <2>1, <2>4, <2>5, AfterStopBurst
<1> QED
  BY <1>6, <1>7

\* A step after which no agent has a respawn on its account.
LEMMA ZeroAll ==
    ASSUME Records', \A n \in Names : auto'[n] <= 0, OwnChildren'
    PROVE  BurstOK
BY ZeroBurst DEF BurstOK, Records

\* Recovery: no respawn has been counted since agentd started.
LEMMA RecoverBurst ==
    ASSUME Records, Records', BurstInv, NEW k \in Names, recover_cb(k)
    PROVE  BurstOK
<1>1. TypeOK /\ OneSlotPerRuntime /\ OwnChildren /\ at = "recover" /\ RecordsOwn
  BY DEF Records, BurstInv, recover_cb
<1>2. \A n \in Names : auto[n] <= 0 /\ auto[n] \in Int
  BY <1>1 DEF BurstInv, Burst, Recovering, TypeOK
<1>3. \A n \in Names : Wanted(n)' <=> Wanted(n)
  BY DEF recover_cb, Wanted
<1>4. ASSUME UNCHANGED <<proc, g_agents, auto>> PROVE BurstOK
  <2>1. OwnChildren'
    BY <1>1, <1>4 DEF OwnChildren
  <2> QED
    BY <1>2, <1>4, <2>1, ZeroAll
<1>5. ASSUME NEW i \in alloc_slot(k), UNCHANGED proc,
             g_agents' = [g_agents EXCEPT ![i] = Adopted(Entry(i, k), pid_file[k])],
             auto' = [auto EXCEPT ![k] = 0]
      PROVE  BurstOK
  <2> DEFINE m == Adopted(Entry(i, k), pid_file[k])
  <2>1. i \in Slots /\ Entry(i, k) \in Managed
    BY <1>1, AllocName, EntryType
  <2>2. m \in Managed /\ m.external
    <3> DEFINE e == Entry(i, k)
    <3>1. e \in Managed /\ pid_file[k] \in Pids \cup {NoPid}
      BY <1>1, <2>1 DEF TypeOK
    <3> HIDE DEF e
    <3>2. Adopted(e, pid_file[k]) \in Managed /\ Adopted(e, pid_file[k]).external
      BY <3>1 DEF Adopted, Managed
    <3> QED
      BY <3>2 DEF e
  <2>3. ChildrenStay
    BY <1>5 DEF ChildrenStay
  <2>4. OwnChildren'
    <3> HIDE DEF m
    <3>1. g_agents' = [g_agents EXCEPT ![i] = m]
      BY <1>5 DEF m
    <3> QED
      BY <1>1, <2>1, <2>2, <2>3, <3>1, ChildrenReplaced
  <2>5. \A n \in Names : auto'[n] = IF n = k THEN 0 ELSE auto[n]
    BY <1>1, <1>5 DEF TypeOK
  <2>6. \A n \in Names : auto'[n] <= 0
    BY <1>2, <2>5, SMT
  <2> QED
    BY <2>4, <2>6, ZeroAll
<1>6. ASSUME NEW i \in alloc_slot(k), spawn_agent(i, Entry(i, k), "recover")
      PROVE  BurstOK
  <2> DEFINE e == Entry(i, k)
  <2>1. i \in Slots /\ e \in Managed /\ e.name = k
    BY <1>1, AllocName, EntryType
  <2>2. e.pid = NoPid \/ (e.pid = g_agents[i].pid /\ e.external = g_agents[i].external)
    BY <2>1, EntryFields
  <2> HIDE DEF e
  <2>3. CASE Fork(i, e, "recover")
    BY <1>1, <1>3, <2>1, <2>2, <2>3, ForkBurst
  <2>4. CASE SpawnFails(i, e, "recover")
    <3>1. g_agents' = [g_agents EXCEPT ![i] = FreeSlot] /\ UNCHANGED proc
      BY <2>4 DEF SpawnFails
    <3>2. OwnChildren'
      BY <1>1, <2>1, <3>1, FreeSlotType, ChildrenReplaced DEF ChildrenStay
    <3>3. auto' = [auto EXCEPT ![k] = auto[k]]
      BY <2>1, <2>4 DEF SpawnFails
    <3>4. \A n \in Names : auto'[n] = auto[n]
      BY <1>1, <3>3 DEF TypeOK
    <3> QED
      BY <1>2, <3>2, <3>4, ZeroAll
  <2> QED
    BY <1>6, <2>3, <2>4 DEF spawn_agent, e
<1> QED
  BY <1>4, <1>5, <1>6 DEF recover_cb, recover_adopt, recover_start

\* Observed, field by field, on a slot of the table: the account of the agent
\* covers a runtime that has gone.
LEMMA ObservedSlot ==
    ASSUME Records, BurstInv, NEW i \in Slots, NEW k \in Names,
           g_agents[i].name = k, at = "loop", UNCHANGED auto,
           Wanted(k)' => Wanted(k)
    PROVE  LET m == Observed(g_agents[i]) IN
           /\ m \in Managed /\ m.name = k
           /\ Inherits(i, m) \/ Spare(k, m)
           /\ m.pid = NoPid \/ Inherits(i, m)
<1> DEFINE g == g_agents[i]
           m == Observed(g)
<1>1. TypeOK /\ Burst(k) /\ g \in Managed /\ auto[k] \in Int
      /\ RESTART_BURST_LIMIT \in Nat \ {0}
  BY ConstantsAssumption DEF Records, BurstInv, TypeOK
<1>2. /\ m \in Managed /\ m.name = k
      /\ m.consecutive_failures = g.consecutive_failures
      /\ g.consecutive_failures \in Nat
      /\ IF ExternalGone(g) THEN m.pid = NoPid
         ELSE m.pid = g.pid /\ m.external = g.external
  BY <1>1, ObservedType, ObservedFields DEF Managed
<1>3. CASE ~ExternalGone(g)
  BY <1>2, <1>3 DEF Inherits
<1>4. CASE ExternalGone(g)
  <2>1. auto[k] <= 0
    BY <1>1, <1>4 DEF Burst, SlotCounted, ExternalGone
  <2>2. auto[k] <= m.consecutive_failures /\ auto[k] < RESTART_BURST_LIMIT
    <3> HIDE DEF m
    <3> QED
      BY <1>1, <1>2, <2>1, SMT
  <2> QED
    BY <1>2, <1>4, <2>2 DEF Spare
<1> QED
  BY <1>3, <1>4

\* Reconciliation respawns what the account allows, and stops by stop_agent.
LEMMA ReconcileBurst ==
    ASSUME Records, Records', BurstInv, NEW k \in Names, reconcile_cb(k)
    PROVE  BurstOK
<1>1. TypeOK /\ OneSlotPerRuntime /\ OwnChildren /\ at = "loop"
      /\ UNCHANGED <<desired_state, enabled>>
  BY DEF Records, BurstInv, reconcile_cb
<1>2. \A n \in Names : Wanted(n)' <=> Wanted(n)
  BY <1>1 DEF Wanted
<1>3. ASSUME UNCHANGED <<proc, g_agents, at, op, auto>> PROVE BurstOK
  <2>1. OwnChildren' /\ NoneStabler /\ \A j \in Slots : SlotSame(j)
    BY <1>1, <1>3 DEF OwnChildren, NoneStabler, SlotSame
  <2>2. ASSUME NEW n \in Names PROVE Burst(n)'
    BY <1>2, <1>3, <2>1, BurstQuiet DEF BurstInv
  <2> QED
    BY <2>1, <2>2 DEF BurstOK
<1>4. ASSUME NEW i \in alloc_slot(k), Wanted(k), ~agent_alive(Observed(Entry(i, k))),
             \/ /\ g_agents' = [g_agents EXCEPT ![i] = Observed(Entry(i, k))]
                /\ UNCHANGED <<proc, at, op, auto>>
             \/ spawn_agent(i, Observed(Entry(i, k)), "reconcile")
      PROVE  BurstOK
  <2> DEFINE m == Observed(Entry(i, k))
  <2>1. /\ m \in Managed /\ m.name = k /\ m.pid = NoPid
        /\ auto[k] <= m.consecutive_failures
        /\ auto[k] < RESTART_BURST_LIMIT
    BY <1>1, <1>4, ReconcileSpare
  <2>2. i \in Slots /\ g_agents[i].name \in {k, NoName}
    BY AllocName
  <2> HIDE DEF m
  <2>3. ASSUME NEW d \in Managed, d.name = k, d.pid = NoPid,
               d.consecutive_failures = m.consecutive_failures,
               g_agents' = [g_agents EXCEPT ![i] = d],
               UNCHANGED <<proc, auto>>, at' = "loop"
        PROVE  BurstOK
    <3>1. NoneStabler /\ ChildrenStay
      BY <2>3 DEF NoneStabler, ChildrenStay
    <3>2. OwnChildren'
      BY <1>1, <2>2, <2>3, <3>1, ChildrenReplaced
    <3>3. Spare(k, d)
      BY <2>1, <2>3 DEF Spare
    <3>4. \A n \in Names : Burst(n)'
      BY <1>1, <1>2, <2>2, <2>3, <3>1, <3>3, SlotReplaced
    <3> QED
      BY <3>2, <3>4 DEF BurstOK
  <2>4. CASE g_agents' = [g_agents EXCEPT ![i] = m] /\ UNCHANGED <<proc, at, op, auto>>
    BY <1>1, <2>1, <2>3, <2>4
  <2>5. CASE Fork(i, m, "reconcile")
    BY <1>1, <1>2, <2>1, <2>2, <2>5, ForkBurst
  <2>6. CASE SpawnFails(i, m, "reconcile")
    <3> DEFINE d == [m EXCEPT !.next_restart_at = "later"]
    <3>1. /\ d \in Managed /\ d.name = k /\ d.pid = NoPid
          /\ d.consecutive_failures = m.consecutive_failures
      BY <2>1, DelayType, DelayFields
    <3>2. /\ g_agents' = [g_agents EXCEPT ![i] = d] /\ UNCHANGED proc
          /\ auto' = [auto EXCEPT ![k] = auto[k]] /\ at' = "loop"
      BY <2>1, <2>6 DEF SpawnFails, Return
    <3>3. auto' = auto
      BY <1>1, <3>2 DEF TypeOK
    <3> HIDE DEF d
    <3> QED
      BY <2>3, <3>1, <3>2, <3>3
  <2> QED
    BY <1>4, <2>4, <2>5, <2>6 DEF spawn_agent, m
<1>5. CASE reconcile_start(k)
  BY <1>3, <1>4, <1>5 DEF reconcile_start
<1>6. CASE reconcile_stop(k)
  <2>1. PICK i \in Slots : /\ g_agents[i].name = k
                           /\ stop_agent(i, g_agents[i], "reconcile")
    BY <1>6 DEF reconcile_stop, find_by_name
  <2>2. UNCHANGED <<auto, proc>>
    BY <1>6 DEF reconcile_stop
  <2> QED
    BY <1>1, <1>2, <2>1, <2>2, StopBurst
<1>7. CASE reconcile_none(k)
  <2>1. UNCHANGED <<proc, at, op, auto>>
    BY <1>7 DEF reconcile_none
  <2>2. CASE \E i \in Slots : g_agents[i].name = k
    <3>1. PICK i \in Slots : g_agents[i].name = k
      BY <2>2
    <3> DEFINE m == Observed(g_agents[i])
    <3>2. /\ m \in Managed /\ m.name = k
          /\ Inherits(i, m) \/ Spare(k, m)
          /\ m.pid = NoPid \/ Inherits(i, m)
      BY <1>1, <1>2, <2>1, <3>1, ObservedSlot
    <3>3. \A j \in Slots : j # i => g_agents[j].name # k
      BY <1>1, <3>1, ConstantsAssumption DEF OneSlotPerRuntime
    <3>4. g_agents' = [g_agents EXCEPT ![i] = m]
      <4>1. g_agents' = [j \in Slots |-> IF g_agents[j].name = k
                                         THEN Observed(g_agents[j]) ELSE g_agents[j]]
        BY <1>7 DEF reconcile_none
      <4>2. [g_agents EXCEPT ![i] = m] = [j \in Slots |-> IF j = i THEN m ELSE g_agents[j]]
        BY <1>1 DEF TypeOK
      <4> QED
        BY <3>1, <3>3, <4>1, <4>2
    <3> HIDE DEF m
    <3>5. NoneStabler /\ ChildrenStay
      BY <2>1 DEF NoneStabler, ChildrenStay
    <3>6. OwnChildren'
      BY <1>1, <3>2, <3>4, <3>5, ChildrenReplaced DEF Inherits
    <3>7. \A n \in Names : Burst(n)'
      BY <1>1, <1>2, <2>1, <3>1, <3>2, <3>4, <3>5, SlotReplaced
    <3> QED
      BY <3>6, <3>7 DEF BurstOK
  <2>3. CASE \A i \in Slots : g_agents[i].name # k
    <3>1. g_agents' = g_agents
      BY <1>1, <1>7, <2>3 DEF reconcile_none, TypeOK
    <3> QED
      BY <1>3, <2>1, <3>1
  <2> QED
    BY <2>2, <2>3
<1> QED
  BY <1>5, <1>6, <1>7 DEF reconcile_cb

\* An explicit start opens a new account, or finds the runtime alive.
LEMMA StartBurst ==
    ASSUME Records, Records', BurstInv, NEW k \in Names, handle_cmd_start(k)
    PROVE  BurstOK
<1>1. TypeOK /\ TypeOK' /\ Operating /\ OneSlotPerRuntime /\ OwnChildren
      /\ at \in {"loop", "start"}
  BY DEF Records, BurstInv, handle_cmd_start
<1>2. \A n \in Names : n # k => (Wanted(n)' => Wanted(n))
  BY <1>1 DEF handle_cmd_start, WriteDesired, Wanted, TypeOK
<1>3. ASSUME UNCHANGED <<proc, g_agents>>, at' = "loop",
             \A n \in Names : n # k => auto'[n] = auto[n]
      PROVE  OwnChildren' /\ \A n \in Names : n # k => Burst(n)'
  <2>1. OwnChildren' /\ NoneStabler
    BY <1>1, <1>3 DEF OwnChildren, NoneStabler
  <2>2. ASSUME NEW n \in Names, n # k PROVE Burst(n)'
    <3>1. Burst(n) /\ auto'[n] = auto[n] /\ (Wanted(n)' => Wanted(n))
      BY <1>2, <1>3, <2>2 DEF BurstInv
    <3>2. ~Recovering' /\ (Forgotten(n)' => Forgotten(n))
      BY <1>1, <1>3 DEF Recovering, Forgotten
    <3>3. ASSUME NEW j \in Slots, g_agents'[j].name = n PROVE SlotCounted(j, n)'
      <4>1. SlotCounted(j, n) /\ SlotSame(j) /\ ~Spawning(j) /\ ~Spawning(j)'
        BY <1>1, <1>3, <3>1, <3>3 DEF Burst, SlotSame, Spawning
      <4> QED
        BY <1>1, <1>3, <3>1, <4>1, SlotFrame
    <3> QED
      BY <3>1, <3>2, <3>3, BurstBy
  <2> QED
    BY <2>1, <2>2
<1>4. CASE alloc_slot(k) = {} /\ Return("start") /\ auto' = [auto EXCEPT ![k] = -1]
           /\ UNCHANGED <<proc, g_agents>>
  <2>1. at' = "loop" /\ \A n \in Names : n # k => auto'[n] = auto[n]
    BY <1>1, <1>4 DEF Return, TypeOK
  <2>2. auto'[k] = -1
    BY <1>1, <1>4 DEF TypeOK
  <2>3. auto'[k] <= 0
    BY <2>2, SMT
  <2> QED
    BY <1>1, <1>3, <1>4, <2>1, <2>3, ZeroBurst DEF BurstOK
<1>5. ASSUME NEW i \in alloc_slot(k), agent_alive(Entry(i, k)), Return("start"),
             UNCHANGED <<proc, g_agents, auto>>
      PROVE  BurstOK
  <2>1. at' = "loop"
    BY <1>5 DEF Return
  <2>2. OwnChildren' /\ \A n \in Names : n # k => Burst(n)'
    BY <1>3, <1>5, <2>1
  <2>3. i \in Slots /\ g_agents[i].name = k /\ g_agents[i].pid # NoPid
    <3>1. i \in Slots /\ Entry(i, k).pid # NoPid
      BY <1>5, AllocName DEF agent_alive, run_alive
    <3> QED
      BY <3>1, EntryFields
  <2>4. \A j \in Slots : g_agents[j].name = k => j = i
    BY <1>1, <2>3, ConstantsAssumption DEF OneSlotPerRuntime
  <2>5. Burst(k) /\ SlotCounted(i, k)
    BY <2>3 DEF BurstInv, Burst
  <2>6. ~Recovering' /\ ~Forgotten(k)' /\ ~Spawning(i)'
    BY <1>5, <2>1, <2>3 DEF Recovering, Forgotten, Spawning
  <2>7. SlotCounted(i, k)'
    BY <1>5, <2>3, <2>5, <2>6 DEF SlotCounted, RuntimeCounted
  <2>8. Burst(k)'
    BY <1>5, <2>4, <2>5, <2>6, <2>7 DEF Burst
  <2> QED
    BY <2>2, <2>8 DEF BurstOK
<1>6. ASSUME NEW i \in alloc_slot(k), ~agent_alive(Entry(i, k)),
             spawn_agent(i, Unsuppressed(Entry(i, k)), "start")
      PROVE  BurstOK
  <2> DEFINE e == Entry(i, k)
             m == Unsuppressed(e)
  <2>1. i \in Slots /\ g_agents[i].name \in {k, NoName} /\ e \in Managed /\ e.name = k
    BY <1>1, AllocName, EntryType
  <2>2. e.pid = NoPid \/ (e.pid = g_agents[i].pid /\ e.external = g_agents[i].external)
    BY <2>1, EntryFields
  <2> HIDE DEF e
  <2>3. /\ m \in Managed /\ m.name = k
        /\ m.pid = NoPid \/ (m.pid = g_agents[i].pid /\ m.external = g_agents[i].external)
    BY <2>1, <2>2, UnsuppressedType, UnsuppressedFields
  <2> HIDE DEF m
  <2>4. CASE Fork(i, m, "start")
    BY <1>1, <1>2, <2>1, <2>3, <2>4, ForkBurst
  <2>5. CASE SpawnFails(i, m, "start")
    <3>1. /\ g_agents' = [g_agents EXCEPT ![i] = m] /\ UNCHANGED proc
          /\ auto' = [auto EXCEPT ![k] = -1] /\ at' = "loop"
      BY <2>3, <2>5 DEF SpawnFails, Return
    <3>2. NoneStabler /\ ChildrenStay
      BY <3>1 DEF NoneStabler, ChildrenStay
    <3>3. OwnChildren'
      BY <1>1, <2>1, <2>3, <3>1, <3>2, ChildrenReplaced
    <3>4. auto'[k] = -1 /\ \A n \in Names : n # k => auto'[n] = auto[n]
      BY <1>1, <3>1 DEF TypeOK
    <3>5. auto'[k] <= 0
      BY <3>4, SMT
    <3>6. ~Recovering'
      BY <3>1 DEF Recovering
    <3>7. ASSUME NEW n \in Names, n # k PROVE Burst(n)'
      BY <1>1, <1>2, <2>1, <2>3, <3>1, <3>2, <3>4, <3>6, <3>7, OthersKept
    <3> QED
      BY <1>1, <3>3, <3>5, <3>7, ZeroBurst DEF BurstOK
  <2> QED
    BY <1>6, <2>4, <2>5 DEF spawn_agent, m, e
<1> QED
  BY <1>4, <1>5, <1>6 DEF handle_cmd_start

\* A stop command makes the agent unwanted before it frees its slot.
LEMMA StopCmdBurst ==
    ASSUME Records, Records', BurstInv, NEW k \in Names,
           NEW caller \in {"stop", "restart"}, handle_cmd_stop(k, caller)
    PROVE  BurstOK
<1>1. TypeOK /\ Operating /\ OwnChildren /\ at = "loop"
      /\ UNCHANGED <<enabled, proc, auto>>
  BY DEF Records, BurstInv, handle_cmd_stop
<1>2. ~Wanted(k)' /\ \A n \in Names : Wanted(n)' => Wanted(n)
  BY <1>1 DEF handle_cmd_stop, WriteDesired, Wanted, TypeOK
<1>3. CASE UNCHANGED g_agents /\ at' \in {"loop", "start"}
  <2>1. OwnChildren' /\ \A j \in Slots : SlotSame(j)
    BY <1>1, <1>3 DEF OwnChildren, SlotSame
  <2>2. ASSUME NEW n \in Names PROVE Burst(n)'
    <3>1. Burst(n) /\ auto'[n] = auto[n] /\ (Wanted(n)' => Wanted(n))
      BY <1>1, <1>2 DEF BurstInv
    <3>2. ~Recovering' /\ (Forgotten(n)' => Forgotten(n))
      BY <1>1, <1>3 DEF Recovering, Forgotten
    <3>3. ASSUME NEW j \in Slots, g_agents'[j].name = n PROVE SlotCounted(j, n)'
      <4>1. SlotCounted(j, n) /\ SlotSame(j) /\ ~Spawning(j) /\ ~Spawning(j)'
        BY <1>1, <1>3, <2>1, <3>1, <3>3 DEF Burst, Spawning
      <4> QED
        BY <1>1, <3>1, <4>1, SlotFrame
    <3> QED
      BY <3>1, <3>2, <3>3, BurstBy
  <2> QED
    BY <2>1, <2>2 DEF BurstOK
<1>4. ASSUME NEW i \in find_by_name(k), stop_agent(i, g_agents[i], caller)
      PROVE  BurstOK
  <2>1. i \in Slots /\ g_agents[i].name = k
    BY DEF find_by_name
  <2> QED
    BY <1>1, <1>2, <1>4, <2>1, StopBurst
<1> QED
  BY <1>3, <1>4 DEF handle_cmd_stop

\* The spawn that succeeds hands its account to the slot.
LEMMA SpawnRecordBurst ==
    ASSUME Records, Records', BurstInv, spawn_record
    PROVE  BurstOK
<1>1. TypeOK /\ Operating /\ OwnChildren /\ at = "spawn"
      /\ UNCHANGED <<proc, auto, desired_state, enabled>>
  BY DEF Records, BurstInv, spawn_record
<1>2. PICK i \in Slots, p \in Pids, k \in Names :
         /\ i = op.slot /\ p = op.pid /\ k = op.name /\ g_agents[i].name = k
         /\ proc[p].child /\ proc[p].st \in {"running", "zombie"}
  BY <1>1 DEF Operating
<1> DEFINE m == Spawned(g_agents[i], p)
<1>3. /\ m \in Managed /\ m.name = k /\ m.pid = p /\ ~m.external /\ p # NoPid
      /\ m.consecutive_failures = g_agents[i].consecutive_failures
  <2>1. g_agents[i] \in Managed
    BY <1>1 DEF TypeOK
  <2> QED
    BY <1>2, <2>1, ConstantsAssumption DEF Spawned, Managed
<1>4. g_agents' = [g_agents EXCEPT ![i] = m]
  BY <1>2 DEF spawn_record
<1> HIDE DEF m
<1>5. /\ g_agents'[i] = m
      /\ \A j \in Slots : j # i => g_agents'[j] = g_agents[j] /\ SlotSame(j)
  BY <1>1, <1>3, <1>4, OneSlotChanges
<1>6. OwnChildren'
  BY <1>1, <1>2, <1>3, <1>5 DEF OwnChildren
<1>7. at' \in {"loop", "recover"} /\ (at' = "recover" => op.caller = "recover")
  BY DEF spawn_record, Return
<1>8. Recovering' => Recovering
  BY <1>1, <1>7 DEF Recovering
<1>9. \A n \in Names : (Wanted(n)' <=> Wanted(n)) /\ (Forgotten(n)' => Forgotten(n))
  BY <1>1, <1>2, <1>3, <1>5, <1>7 DEF Wanted, Forgotten
<1>10. \A j \in Slots : ~Spawning(j)' /\ (Spawning(j) <=> j = i)
  BY <1>1, <1>2, <1>7 DEF Spawning
<1>11. ASSUME NEW n \in Names PROVE Burst(n)'
  <2>1. Burst(n)
    BY DEF BurstInv
  <2>2. ASSUME NEW j \in Slots, g_agents'[j].name = n PROVE SlotCounted(j, n)'
    <3>1. CASE j = i
      <4>1. SlotCounted(i, n)
        BY <1>2, <1>3, <1>5, <2>1, <2>2, <3>1 DEF Burst
      <4>2. RuntimeCounted(p, n, m.consecutive_failures)
        BY <1>2, <1>3, <1>10, <4>1 DEF SlotCounted
      <4> QED
        BY <1>1, <1>3, <1>5, <1>10, <3>1, <4>2 DEF SlotCounted, RuntimeCounted
    <3>2. CASE j # i
      <4>1. SlotCounted(j, n) /\ SlotSame(j)
        BY <1>5, <2>1, <2>2, <3>2 DEF Burst
      <4> QED
        BY <1>1, <1>9, <1>10, <3>2, <4>1, SlotFrame
    <3> QED
      BY <3>1, <3>2
  <2> QED
    BY <1>1, <1>8, <1>9, <2>1, <2>2, BurstBy
<1> QED
  BY <1>6, <1>11 DEF BurstOK

\* Steps of the environment.
LEMMA EnvBurst ==
    ASSUME Records, Records', BurstInv, EnvStep
    PROVE  BurstOK
<1>1. TypeOK /\ TypeOK' /\ Operating /\ RecordsOwn /\ OwnChildren
  BY DEF Records, BurstInv
<1>2. CASE DaemonExit
  <2>1. at' = "down" /\ g_agents' = [i \in Slots |-> FreeSlot] /\ UNCHANGED auto
    BY <1>2 DEF DaemonExit
  <2>2. \A j \in Slots : g_agents'[j].name = NoName /\ g_agents'[j].pid = NoPid
    BY <2>1, FreeSlotType
  <2>3. ~Recovering' /\ \A n \in Names : ~Forgotten(n)'
    BY <2>1 DEF Recovering, Forgotten
  <2>4. OwnChildren'
    BY <2>2 DEF OwnChildren
  <2> QED
    BY <2>1, <2>2, <2>3, <2>4, ConstantsAssumption DEF BurstInv, Burst, BurstOK
<1>3. ASSUME NEW k \in Names, UNCHANGED <<proc, g_agents, at, op>>,
             \A n \in Names : n # k => (Wanted(n)' => Wanted(n)) /\ auto'[n] = auto[n],
             auto'[k] <= 0 \/ (auto'[k] = auto[k] /\ ~Wanted(k)')
      PROVE  BurstOK
  <2>1. OwnChildren' /\ NoneStabler /\ \A j \in Slots : SlotSame(j)
    BY <1>1, <1>3 DEF OwnChildren, NoneStabler, SlotSame
  <2>2. ASSUME NEW n \in Names PROVE Burst(n)'
    <3>1. CASE auto'[n] <= 0
      BY <1>1, <3>1, ZeroBurst
    <3>2. CASE auto'[n] = auto[n] /\ (Wanted(n)' => Wanted(n))
      BY <1>3, <2>1, <3>2, BurstQuiet DEF BurstInv
    <3> QED
      BY <1>3, <3>1, <3>2
  <2> QED
    BY <2>1, <2>2 DEF BurstOK
<1>4. ASSUME NEW k \in Names, NEW v \in {"running", "stopped"}, SetDesired(k, v)
      PROVE  BurstOK
  <2>1. /\ UNCHANGED <<proc, g_agents, at, op, enabled>>
        /\ desired_state' = [desired_state EXCEPT ![k] = v]
        /\ auto' = [auto EXCEPT ![k] = IF v = "running" THEN -1 ELSE auto[k]]
    BY <1>4 DEF SetDesired
  <2>2. /\ desired_state'[k] = v
        /\ \A n \in Names : n # k => desired_state'[n] = desired_state[n]
        /\ auto'[k] = IF v = "running" THEN -1 ELSE auto[k]
        /\ \A n \in Names : n # k => auto'[n] = auto[n]
    BY <1>1, <2>1 DEF TypeOK
  <2>3. -1 <= 0
    BY SMT
  <2>4. auto'[k] <= 0 \/ (auto'[k] = auto[k] /\ ~Wanted(k)')
    BY <2>2, <2>3 DEF Wanted
  <2>5. \A n \in Names : n # k => (Wanted(n)' => Wanted(n))
    BY <2>1, <2>2 DEF Wanted
  <2> QED
    BY <1>3, <2>1, <2>2, <2>4, <2>5
<1>5. ASSUME NEW k \in Names, NEW v \in BOOLEAN, SetEnabled(k, v) PROVE BurstOK
  <2>1. /\ UNCHANGED <<proc, g_agents, at, op, desired_state>>
        /\ enabled' = [enabled EXCEPT ![k] = v]
        /\ auto' = [auto EXCEPT ![k] = IF v THEN -1 ELSE auto[k]]
    BY <1>5 DEF SetEnabled
  <2>2. /\ enabled'[k] = v
        /\ \A n \in Names : n # k => enabled'[n] = enabled[n]
        /\ auto'[k] = IF v THEN -1 ELSE auto[k]
        /\ \A n \in Names : n # k => auto'[n] = auto[n]
    BY <1>1, <2>1 DEF TypeOK
  <2>3. -1 <= 0
    BY SMT
  <2>4. auto'[k] <= 0 \/ (auto'[k] = auto[k] /\ ~Wanted(k)')
    BY <2>2, <2>3 DEF Wanted
  <2>5. \A n \in Names : n # k => (Wanted(n)' => Wanted(n))
    BY <2>1, <2>2 DEF Wanted
  <2> QED
    BY <1>3, <2>1, <2>2, <2>4, <2>5
<1>6. ASSUME NEW p \in Pids, RunsStable(p) PROVE BurstOK
  <2>1. /\ UNCHANGED <<desired_state, enabled, g_agents, at, op>>
        /\ proc[p].st = "running" /\ proc[p] \in Process
        /\ proc' = [proc EXCEPT ![p].stable = TRUE]
        /\ auto' = [auto EXCEPT ![proc[p].name] = IF @ > 0 THEN 0 ELSE @]
    BY <1>1, <1>6 DEF RunsStable, TypeOK
  <2>2. PICK k \in Names : k = proc[p].name
    BY <1>1, <2>1 DEF RecordsOwn, ProcOwned
  <2>3. /\ auto'[k] = IF auto[k] > 0 THEN 0 ELSE auto[k]
        /\ \A n \in Names : n # k => auto'[n] = auto[n]
        /\ auto[k] \in Int
    BY <1>1, <2>1, <2>2 DEF TypeOK
  <2>4. auto'[k] <= 0
    BY <2>3, SMT
  <2>5. \A q \in Pids : /\ q # p => proc'[q] = proc[q]
                        /\ proc'[q].child = proc[q].child
                        /\ proc'[q].st = proc[q].st
    <3>1. [proc[p] EXCEPT !.stable = TRUE].child = proc[p].child
          /\ [proc[p] EXCEPT !.stable = TRUE].st = proc[p].st
      BY <2>1 DEF Process
    <3>2. proc'[p] = [proc[p] EXCEPT !.stable = TRUE]
          /\ \A q \in Pids : q # p => proc'[q] = proc[q]
      BY <1>1, <2>1 DEF TypeOK
    <3> QED
      BY <3>1, <3>2
  <2>6. OwnChildren'
    BY <1>1, <2>1, <2>5, ChildrenKept
  <2>7. ASSUME NEW n \in Names PROVE Burst(n)'
    <3>1. CASE n = k
      BY <1>1, <2>4, <3>1, ZeroBurst
    <3>2. CASE n # k
      <4>1. Burst(n) /\ auto'[n] = auto[n] /\ (Wanted(n)' <=> Wanted(n))
        BY <2>1, <2>3, <3>2 DEF BurstInv, Wanted
      <4>2. (Recovering' <=> Recovering) /\ (Forgotten(n)' <=> Forgotten(n))
        BY <2>1 DEF Recovering, Forgotten
      <4>3. ASSUME NEW j \in Slots, g_agents'[j].name = n PROVE SlotCounted(j, n)'
        <5>1. /\ SlotCounted(j, n) /\ SlotSame(j) /\ g_agents[j].name = n
              /\ (Spawning(j)' <=> Spawning(j)) /\ op'.pid = op.pid
          BY <2>1, <4>1, <4>3 DEF Burst, SlotSame, Spawning
        <5>2. g_agents[j].pid \in Pids \cup {NoPid} /\ g_agents[j].pid # p
          <6>1. SlotOwns(j) /\ g_agents[j] \in Managed
            BY <1>1 DEF RecordsOwn, TypeOK
          <6>2. run_alive(p) /\ proc[p].name # n /\ p # NoPid
            BY <2>1, <2>2, <3>2, ConstantsAssumption DEF run_alive
          <6> QED
            BY <5>1, <6>1, <6>2 DEF SlotOwns, Managed
        <5>3. Spawning(j) => op.pid \in Pids /\ op.pid # p
          BY <1>1, <2>2, <3>2, <5>1 DEF Spawning, Operating
        <5> QED
          BY <1>1, <2>5, <4>1, <5>1, <5>2, <5>3, SlotFrame
      <4> QED
        BY <4>1, <4>2, <4>3, BurstBy
    <3> QED
      BY <3>1, <3>2
  <2> QED
    BY <2>6, <2>7 DEF BurstOK
<1>7. ASSUME NEW p \in Pids, NEW how \in ExitKinds, ProcExit(p, how) PROVE BurstOK
  <2>1. /\ UNCHANGED <<desired_state, enabled, g_agents, at, op, auto>>
        /\ proc[p] \in Process
        /\ proc' = [proc EXCEPT ![p] =
             IF proc[p].child THEN [proc[p] EXCEPT !.st = "zombie", !.exit = how]
                              ELSE NoProcess("gone")]
    BY <1>1, <1>7 DEF ProcExit, TypeOK
  <2>2. /\ \A q \in Pids : q # p => proc'[q] = proc[q]
        /\ proc'[p] = IF proc[p].child THEN [proc[p] EXCEPT !.st = "zombie", !.exit = how]
                                       ELSE NoProcess("gone")
    BY <1>1, <2>1 DEF TypeOK
  <2>3. /\ proc'[p].stable => proc[p].stable
        /\ proc[p].child => proc'[p].child /\ proc'[p].st = "zombie"
    <3>1. \A r \in Process : LET d == [r EXCEPT !.st = "zombie", !.exit = how] IN
             d.stable = r.stable /\ d.child = r.child /\ d.st = "zombie"
      BY DEF Process
    <3>2. CASE proc[p].child
      <4> DEFINE d == [proc[p] EXCEPT !.st = "zombie", !.exit = how]
      <4>1. d.stable = proc[p].stable /\ d.child = proc[p].child /\ d.st = "zombie"
        BY <2>1, <3>1
      <4>2. proc'[p] = d
        BY <2>2, <3>2
      <4> HIDE DEF d
      <4> QED
        BY <3>2, <4>1, <4>2
    <3>3. CASE ~proc[p].child
      BY <2>2, <3>3, SMT DEF NoProcess
    <3> QED
      BY <3>2, <3>3
  <2>4. NoneStabler /\ \A j \in Slots : SlotSame(j)
    BY <2>1, <2>2, <2>3 DEF NoneStabler, SlotSame
  <2>5. OwnChildren'
    BY <1>1, <2>1, <2>2, <2>3, ChildrenKept
  <2>6. ASSUME NEW n \in Names PROVE Burst(n)'
    <3>1. Wanted(n)' <=> Wanted(n)
      BY <2>1 DEF Wanted
    <3> QED
      BY <2>1, <2>4, <3>1, BurstQuiet DEF BurstInv
  <2> QED
    BY <2>5, <2>6 DEF BurstOK
<1>8. ASSUME NEW i \in Slots, BackoffExpires(i) PROVE BurstOK
  <2> DEFINE d == [g_agents[i] EXCEPT !.next_restart_at = "due"]
  <2>1. UNCHANGED <<desired_state, enabled, proc, at, op, auto>>
        /\ g_agents' = [g_agents EXCEPT ![i] = d]
    BY <1>8 DEF BackoffExpires
  <2>2. d \in Managed /\ d.name = g_agents[i].name /\ d.pid = g_agents[i].pid
        /\ d.external = g_agents[i].external
        /\ d.consecutive_failures = g_agents[i].consecutive_failures
    <3>1. g_agents[i] \in Managed
      BY <1>1 DEF TypeOK
    <3> QED
      BY <3>1, DelayType, DelayFields
  <2> HIDE DEF d
  <2>3. NoneStabler /\ ChildrenStay /\ \A j \in Slots : SlotSame(j)
    BY <1>1, <2>1, <2>2 DEF NoneStabler, ChildrenStay, SlotSame, TypeOK
  <2>4. OwnChildren'
    BY <1>1, <2>1, <2>2, <2>3, ChildrenReplaced
  <2>5. ASSUME NEW n \in Names PROVE Burst(n)'
    <3>1. Wanted(n)' <=> Wanted(n)
      BY <2>1 DEF Wanted
    <3> QED
      BY <2>1, <2>3, <3>1, BurstQuiet DEF BurstInv
  <2> QED
    BY <2>4, <2>5 DEF BurstOK
<1> QED
  BY <1>2, <1>4, <1>5, <1>6, <1>7, <1>8 DEF EnvStep

\* Every step keeps the accounts, when the pid file of a spawn gets written.
LEMMA BurstStep ==
    ASSUME "pid_write_fails" \notin Faults
    PROVE  Records /\ BurstInv /\ [Next]_vars => BurstInv'
<1> SUFFICES ASSUME Records, BurstInv, [Next]_vars PROVE BurstOK
  BY DEF BurstOK, BurstInv
<1>1. Records' /\ TypeOK /\ OwnChildren
  BY RecordsStep DEF Records, BurstInv
<1>2. CASE UNCHANGED vars
  <2>1. OwnChildren' /\ NoneStabler /\ \A j \in Slots : SlotSame(j)
    BY <1>1, <1>2 DEF OwnChildren, NoneStabler, SlotSame, vars
  <2>2. ASSUME NEW n \in Names PROVE Burst(n)'
    <3>1. (Wanted(n)' <=> Wanted(n)) /\ UNCHANGED <<auto, at, op>>
      BY <1>2 DEF Wanted, vars
    <3> QED
      BY <2>1, <3>1, BurstQuiet DEF BurstInv
  <2> QED
    BY <2>1, <2>2 DEF BurstOK
<1>3. CASE DaemonStart
  <2>1. UNCHANGED <<proc, g_agents>> /\ auto' = [n \in Names |-> -1]
    BY <1>3 DEF DaemonStart
  <2>2. \A n \in Names : auto'[n] <= 0
    BY <2>1, SMT
  <2>3. OwnChildren'
    BY <1>1, <2>1 DEF OwnChildren
  <2> QED
    BY <1>1, <2>2, <2>3, ZeroAll
<1>4. CASE RecoverDone
  <2>1. UNCHANGED <<proc, g_agents, auto>> /\ at = "recover"
    BY <1>4 DEF RecoverDone
  <2>2. \A n \in Names : auto'[n] <= 0
    BY <2>1 DEF BurstInv, Burst, Recovering
  <2>3. OwnChildren'
    BY <1>1, <2>1 DEF OwnChildren
  <2> QED
    BY <1>1, <2>2, <2>3, ZeroAll
<1>5. ASSUME NEW i \in Slots, external_exit(i) PROVE BurstOK
  <2>1. /\ at = "loop" /\ UNCHANGED <<desired_state, enabled, proc, at, op, auto>>
        /\ g_agents' = [g_agents EXCEPT ![i] = Observed(g_agents[i])]
        /\ g_agents[i].pid # NoPid
    BY <1>5 DEF external_exit, ExternalGone
  <2>2. PICK k \in Names : k = g_agents[i].name
    <3>1. SlotOwns(i) /\ g_agents[i] \in Managed
      BY <1>1 DEF Records, RecordsOwn, TypeOK
    <3> QED
      BY <2>1, <3>1 DEF SlotOwns, Managed
  <2>3. \A n \in Names : Wanted(n)' <=> Wanted(n)
    BY <2>1 DEF Wanted
  <2> DEFINE m == Observed(g_agents[i])
  <2>4. /\ m \in Managed /\ m.name = k
        /\ Inherits(i, m) \/ Spare(k, m)
        /\ m.pid = NoPid \/ Inherits(i, m)
    BY <2>1, <2>2, <2>3, ObservedSlot
  <2>5. g_agents' = [g_agents EXCEPT ![i] = m] /\ NoneStabler /\ ChildrenStay
    BY <2>1 DEF NoneStabler, ChildrenStay
  <2> HIDE DEF m
  <2>6. OwnChildren'
    BY <1>1, <2>4, <2>5, ChildrenReplaced DEF Inherits
  <2>7. \A n \in Names : Burst(n)'
    BY <2>1, <2>2, <2>3, <2>4, <2>5, SlotReplaced
  <2> QED
    BY <2>6, <2>7 DEF BurstOK
<1>6. ~spawn_record_fails
  BY DEF spawn_record_fails
<1>7. ASSUME NEW n \in Names,
             \/ recover_cb(n) \/ ReconcileEvent(n) \/ ReconcileScan(n)
             \/ handle_cmd_start(n)
             \/ \E c \in {"stop", "restart"} : handle_cmd_stop(n, c)
      PROVE  BurstOK
  BY <1>1, <1>7, RecoverBurst, ReconcileBurst, StartBurst, StopCmdBurst
    DEF ReconcileEvent, ReconcileScan
<1> QED
  BY <1>1, <1>2, <1>3, <1>4, <1>5, <1>6, <1>7, SpawnRecordBurst, StopEndBurst,
     ReapBurst, EnvBurst DEF Next, DaemonStep

\* Nothing is owed before agentd first starts.
LEMMA BurstInit == Init => BurstInv
<1> SUFFICES ASSUME Init PROVE BurstInv
  OBVIOUS
<1>1. /\ at = "down"
      /\ \A n \in Names : auto[n] = -1
      /\ \A j \in Slots : g_agents[j].name = NoName /\ g_agents[j].pid = NoPid
  BY FreeSlotType DEF Init
<1>2. -1 <= RESTART_BURST_LIMIT /\ -1 <= 0
  BY ConstantsAssumption, SMT
<1>3. ASSUME NEW n \in Names PROVE Burst(n)
  BY <1>1, <1>2, ConstantsAssumption DEF Burst, Recovering, Forgotten
<1> QED
  BY <1>1, <1>3 DEF BurstInv, OwnChildren

\* As long as pid files can be written, every respawn of an agent is matched by a
\* failure counted in its slot, but for the runtime that is up: whatever forgets
\* failures (a freed slot, a stop, a recovery) leaves no respawns standing.
THEOREM BurstInvAlways ==
    ASSUME "pid_write_fails" \notin Faults
    PROVE  Spec => []BurstInv
BY RecordsInit, RecordsStep, BurstInit, BurstStep, PTL DEF Spec

\* With any number of agents, slots and processes, and any burst limit: as
\* long as pid files can be written, an agent is respawned at most
\* RESTART_BURST_LIMIT times in a row on reconcile_cb_'s own account. Deaths
\* of agentd, also in the middle of a spawn, adoptions, stops that time out
\* and settings changed at any moment do not buy it another respawn.
THEOREM CrashLoopBoundedAlways ==
    ASSUME "pid_write_fails" \notin Faults
    PROVE  Spec => []CrashLoopBounded
<1>1. BurstInv => CrashLoopBounded
  BY DEF BurstInv, Burst, CrashLoopBounded
<1> QED
  BY <1>1, BurstInvAlways, PTL
=============================================================================
