-------------------------- MODULE SupervisorProofs --------------------------
(* The main safety theorems about Supervisor. *)
EXTENDS SupervisorRecords, FiniteSetTheorems

USE Zenon

-----------------------------------------------------------------------------
(* No live runtime is lost: the table has a slot for every agent, and no     *)
(* spawn is cut between fork() and the write of the pid file                 *)

\* With a slot for every agent alloc_slot never fails: distinct slots hold
\* distinct agents, so a full table would need one more agent than there are.
LEMMA AllocSucceeds ==
    ASSUME TypeOK, OneSlotPerRuntime, EnoughSlots, NEW n \in Names
    PROVE  alloc_slot(n) # {}
<1> SUFFICES ASSUME alloc_slot(n) = {} PROVE FALSE
  OBVIOUS
<1> DEFINE f == [i \in Slots |-> g_agents[i].name]
<1>1. f \in [Slots -> Names \ {n}]
  <2>1. \A i \in Slots : g_agents[i].name \in Names \cup {NoName}
    BY DEF TypeOK, Managed
  <2>2. \A i \in Slots : g_agents[i].name # n /\ g_agents[i].name # NoName
    BY DEF alloc_slot, find_by_name
  <2> QED
    BY <2>1, <2>2
<1>2. IsFiniteSet(Names \ {n}) /\ Cardinality(Names \ {n}) = Cardinality(Names) - 1
  BY FS_RemoveElement DEF EnoughSlots
<1>3. Cardinality(Names) \in Nat /\ Cardinality(Slots) \in Nat
  BY FS_CardinalityType DEF EnoughSlots
<1>4. Cardinality(Names \ {n}) < Cardinality(Slots)
  BY <1>2, <1>3, SMT DEF EnoughSlots
<1>5. \E x, y \in Slots : x # y /\ f[x] = f[y]
  <2> HIDE DEF f
  <2> QED
    BY <1>1, <1>2, <1>4, FS_PigeonHole, SMT DEF EnoughSlots
<1>6. \A x \in Slots : f[x] # NoName
  BY <1>1, ConstantsAssumption, SMT
<1> QED
  BY <1>5, <1>6 DEF OneSlotPerRuntime

\* A slot gives up the pid of no live runtime.
LosesNoLive ==
    \A i \in Slots : LET q == g_agents[i].pid IN
        q \in Pids /\ proc'[q].st = "running" /\ ~proc'[q].killed =>
            g_agents'[i].pid = q

NoLive(n) == \A q \in Pids : Live(q) => proc[q].name # n

\* A step that forks nothing, finishes no spawn and drops no live runtime.
LEMMA QuietStep ==
    ASSUME PidFileNamesRuntime, Tracked, SpawnExclusive,
           Ages, LosesNoLive, UNCHANGED pid_file, unscanned \subseteq unscanned',
           \/ at # "spawn" /\ at' # "spawn"
           \/ UNCHANGED <<at, op>>,
           at # "down" \/ at' = "down"
    PROVE  PidFileNamesRuntime' /\ Tracked' /\ SpawnExclusive'
<1>1. \A q \in Pids : Live(q)' => Live(q) /\ proc'[q].name = proc[q].name
  BY DEF Ages, Live
<1>2. PidFileNamesRuntime'
  BY <1>1 DEF PidFileNamesRuntime
<1>3. Tracked'
  <2> SUFFICES ASSUME at' # "down", NEW p \in Pids, Live(p)'
               PROVE  \/ \E i \in Slots : g_agents'[i].pid = p
                      \/ at' = "spawn" /\ op'.pid = p
                      \/ proc'[p].name \in unscanned'
    BY DEF Tracked
  <2>1. \/ \E i \in Slots : g_agents[i].pid = p
        \/ at = "spawn" /\ op.pid = p
        \/ proc[p].name \in unscanned
    BY <1>1 DEF Tracked
  <2>2. ASSUME NEW i \in Slots, g_agents[i].pid = p PROVE g_agents'[i].pid = p
    BY <2>2 DEF LosesNoLive, Live
  <2> QED
    BY <1>1, <2>1, <2>2
<1>4. SpawnExclusive'
  BY <1>1 DEF SpawnExclusive
<1> QED
  BY <1>2, <1>3, <1>4

\* A spawn for an agent that has no live runtime.
LEMMA SpawnTracked ==
    ASSUME TypeOK, RecordsOwn, PidFileNamesRuntime, Tracked,
           at \notin {"spawn", "down"},
           NEW i \in Slots, NEW m \in Managed, m.name \in Names,
           g_agents[i].name \in {m.name, NoName}, NoLive(m.name),
           NEW caller \in Callers, spawn_agent(i, m, caller),
           \A n \in Names : n # m.name => pid_file'[n] = pid_file[n],
           unscanned \ {m.name} \subseteq unscanned'
    PROVE  PidFileNamesRuntime' /\ Tracked' /\ SpawnExclusive'
<1>1. \A q \in Pids : Live(q) =>
          /\ proc[q].name \in Names \ {m.name}
          /\ pid_file'[proc[q].name] = q
          /\ g_agents[i].pid # q
  <2> SUFFICES ASSUME NEW q \in Pids, Live(q)
               PROVE  /\ proc[q].name \in Names \ {m.name}
                      /\ pid_file'[proc[q].name] = q
                      /\ g_agents[i].pid # q
    OBVIOUS
  <2>1. proc[q].name \in Names \ {m.name}
    BY DEF RecordsOwn, ProcOwned, NoLive, Live
  <2>2. pid_file'[proc[q].name] = q
    BY <2>1 DEF PidFileNamesRuntime
  <2>3. g_agents[i].pid # q
    <3>1. SlotOwns(i)
      BY DEF RecordsOwn
    <3> QED
      BY <2>1, <3>1, ConstantsAssumption DEF SlotOwns, Live, run_alive
  <2> QED
    BY <2>1, <2>2, <2>3
<1>2. \A j \in Slots : j # i => g_agents'[j] = g_agents[j]
  BY DEF spawn_agent, Fork, SpawnFails, TypeOK
<1>3. \A q \in Pids : Live(q) => \/ \E j \in Slots : g_agents'[j].pid = q
                                 \/ proc[q].name \in unscanned'
  <2> SUFFICES ASSUME NEW q \in Pids, Live(q)
               PROVE  \/ \E j \in Slots : g_agents'[j].pid = q
                      \/ proc[q].name \in unscanned'
    OBVIOUS
  <2>1. \/ \E j \in Slots : g_agents[j].pid = q
        \/ proc[q].name \in unscanned
    BY DEF Tracked
  <2> QED
    BY <1>1, <1>2, <2>1
<1>4. CASE Fork(i, m, caller)
  <2>1. PICK p \in Pids : /\ proc[p].st = "unused"
                          /\ proc' = [proc EXCEPT ![p] = NewProcess(m.name)]
                          /\ op' = [slot |-> i, pid |-> p, name |-> m.name, caller |-> caller]
    BY <1>4 DEF Fork
  <2>2. op'.pid = p /\ op'.name = m.name /\ at' = "spawn"
    BY <1>4, <2>1 DEF Fork
  <2>3. \A q \in Pids : q # p => proc'[q] = proc[q]
    BY <2>1 DEF TypeOK
  <2>4. \A q \in Pids : q # p => (Live(q)' <=> Live(q))
    BY <2>3 DEF Live
  <2> QED
    <3>1. PidFileNamesRuntime'
      BY <1>1, <2>2, <2>3, <2>4 DEF PidFileNamesRuntime
    <3>2. Tracked'
      BY <1>3, <2>2, <2>3, <2>4 DEF Tracked
    <3>3. SpawnExclusive'
      BY <1>1, <2>2, <2>3, <2>4 DEF SpawnExclusive
    <3> QED
      BY <3>1, <3>2, <3>3
<1>5. CASE SpawnFails(i, m, caller)
  <2>1. UNCHANGED proc /\ at' # "spawn"
    BY <1>5 DEF SpawnFails, Return
  <2> QED
    BY <1>1, <1>3, <2>1 DEF PidFileNamesRuntime, Tracked, SpawnExclusive, Live
<1> QED
  BY <1>4, <1>5 DEF spawn_agent

\* In the loop, an agent whose slot shows no live process has none.
LEMMA SlotTellsAll ==
    ASSUME TypeOK, OneSlotPerRuntime, RecordsOwn, Tracked, Operating,
           at \in {"loop", "start"}, NEW n \in Names, NEW i \in alloc_slot(n),
           ~agent_alive(Entry(i, n))
    PROVE  NoLive(n) /\ i \in Slots /\ g_agents[i].name \in {n, NoName}
<1>1. i \in Slots /\ g_agents[i].name \in {n, NoName}
  BY DEF alloc_slot, find_by_name
<1>2. ASSUME NEW q \in Pids, Live(q), proc[q].name = n PROVE FALSE
  <2>1. PICK j \in Slots : g_agents[j].pid = q
    BY <1>2 DEF Tracked, Operating
  <2>2. g_agents[j].name = n
    BY <1>2, <2>1, ConstantsAssumption
      DEF RecordsOwn, ProcOwned, SlotOwns, FileOwns, run_alive, Live
  <2>3. i = j
    BY <1>1, <2>2, ConstantsAssumption DEF alloc_slot, find_by_name, OneSlotPerRuntime
  <2>4. Entry(i, n).pid = q
    BY <2>1, <2>2, <2>3 DEF Entry
  <2> QED
    BY <1>2, <2>4, ConstantsAssumption DEF agent_alive, run_alive, Live
<1> QED
  BY <1>1, <1>2 DEF NoLive

\* Noticing a gone runtime does not drop a live one (reconcile_cb_).
LEMMA ObservedKeepsLive ==
    ASSUME NEW m \in Managed, agent_alive(m) PROVE Observed(m) = m
BY DEF Observed, ExternalGone

\* A step after which every slot has its old pid drops no live runtime.
LEMMA SamePidsLoseNoLive ==
    ASSUME \A j \in Slots : \/ g_agents'[j].pid = g_agents[j].pid
                            \/ ~agent_alive(g_agents[j]),
           Ages
    PROVE  LosesNoLive
BY ConstantsAssumption DEF LosesNoLive, agent_alive, run_alive, Ages, Live

\* After stop_agent agentd is back in the loop or about to start the agent, and
\* the other slots are as they were.
LEMMA AfterStopLoses ==
    ASSUME TypeOK, NEW i \in Slots, NEW m, NEW caller, AfterStop(i, m, caller)
    PROVE  /\ at' \in {"loop", "start"}
           /\ \A j \in Slots : j # i => g_agents'[j] = g_agents[j]
BY DEF AfterStop, TypeOK

\* stop_agent keeps every live runtime tracked.
LEMMA StopTracked ==
    ASSUME TypeOK, PidFileNamesRuntime, Tracked, SpawnExclusive,
           at = "loop", NEW i \in Slots, NEW caller,
           stop_agent(i, g_agents[i], caller),
           UNCHANGED <<proc, pid_file, unscanned>>
    PROVE  PidFileNamesRuntime' /\ Tracked' /\ SpawnExclusive'
<1>1. Ages
  BY AgesSame
<1>2. at' \in {"stop", "loop", "start"}
  BY AfterStopLoses DEF stop_agent
<1>3. \A j \in Slots : \/ g_agents'[j].pid = g_agents[j].pid
                       \/ ~agent_alive(g_agents[j])
  <2>1. CASE agent_alive(g_agents[i])
    BY <2>1 DEF stop_agent, TypeOK
  <2>2. CASE ~agent_alive(g_agents[i])
    BY <2>2, AfterStopLoses DEF stop_agent
  <2> QED
    BY <2>1, <2>2
<1> QED
  BY <1>1, <1>2, <1>3, SamePidsLoseNoLive, QuietStep

\* A slot that is not used has no pid (alloc_slot, release_slot).
LEMMA UnusedHasNoPid ==
    ASSUME RecordsOwn, NEW i \in Slots, g_agents[i].name = NoName
    PROVE  g_agents[i].pid = NoPid
BY DEF RecordsOwn, ProcOwned, SlotOwns, FileOwns

\* reconcile_cb_ keeps every live runtime tracked and spawns no second one.
LEMMA ReconcileTracked ==
    ASSUME Records, PidFileNamesRuntime, Tracked, SpawnExclusive,
           NEW n \in Names, reconcile_cb(n)
    PROVE  PidFileNamesRuntime' /\ Tracked' /\ SpawnExclusive'
<1> USE DEF Records
<1>1. at = "loop" /\ UNCHANGED <<pid_file, unscanned>>
  BY DEF reconcile_cb
<1>2. CASE reconcile_start(n)
  <2>1. UNCHANGED <<proc, g_agents, at, op>> =>
            PidFileNamesRuntime' /\ Tracked' /\ SpawnExclusive'
    BY <1>1, AgesSame, SamePidsLoseNoLive, QuietStep
  <2>2. ASSUME NEW i \in alloc_slot(n), ~agent_alive(Observed(Entry(i, n))),
               \/ /\ g_agents' = [g_agents EXCEPT ![i] = Observed(Entry(i, n))]
                  /\ UNCHANGED <<proc, at, op, auto>>
               \/ spawn_agent(i, Observed(Entry(i, n)), "reconcile")
        PROVE  PidFileNamesRuntime' /\ Tracked' /\ SpawnExclusive'
    <3>1. i \in Slots /\ Entry(i, n) \in Managed
      BY AllocKeeps, EntryType
    <3>2. ~agent_alive(Entry(i, n))
      BY <2>2, <3>1, ObservedKeepsLive
    <3>3. NoLive(n) /\ g_agents[i].name \in {n, NoName}
      BY <1>1, <3>2, SlotTellsAll
    <3>4. Observed(Entry(i, n)) \in Managed /\ Observed(Entry(i, n)).name = n
      BY <3>1, EntryType, ObservedType
    <3>5. CASE spawn_agent(i, Observed(Entry(i, n)), "reconcile")
      BY <1>1, <3>1, <3>3, <3>4, <3>5, SpawnTracked DEF Callers
    <3>6. CASE /\ g_agents' = [g_agents EXCEPT ![i] = Observed(Entry(i, n))]
               /\ UNCHANGED <<proc, at, op, auto>>
      <4>1. ~agent_alive(g_agents[i])
        <5>1. CASE g_agents[i].name = n
          BY <3>2, <5>1 DEF Entry
        <5>2. CASE g_agents[i].name = NoName
          BY <3>1, <5>2, UnusedHasNoPid DEF agent_alive, run_alive
        <5> QED
          BY <3>3, <5>1, <5>2
      <4>2. \A j \in Slots : \/ g_agents'[j].pid = g_agents[j].pid
                             \/ ~agent_alive(g_agents[j])
        BY <3>6, <4>1 DEF TypeOK
      <4> QED
        BY <1>1, <3>6, <4>2, AgesSame, SamePidsLoseNoLive, QuietStep
    <3> QED
      BY <2>2, <3>5, <3>6
  <2> QED
    BY <1>2, <2>1, <2>2 DEF reconcile_start
<1>3. CASE reconcile_stop(n)
  BY <1>1, <1>3, StopTracked DEF reconcile_stop, find_by_name
<1>4. CASE reconcile_none(n)
  <2>1. \A j \in Slots : \/ g_agents'[j].pid = g_agents[j].pid
                         \/ ~agent_alive(g_agents[j])
    BY <1>4, ObservedKeepsLive DEF reconcile_none, TypeOK
  <2> QED
    BY <1>1, <1>4, <2>1, AgesSame, SamePidsLoseNoLive, QuietStep DEF reconcile_none
<1> QED
  BY <1>2, <1>3, <1>4 DEF reconcile_cb

\* recover_cb_ keeps every live runtime tracked and spawns no second one.
LEMMA RecoverTracked ==
    ASSUME EnoughSlots, Records, PidFileNamesRuntime, Tracked, SpawnExclusive,
           NEW n \in Names, recover_cb(n)
    PROVE  PidFileNamesRuntime' /\ Tracked' /\ SpawnExclusive'
<1> USE DEF Records
<1>1. at = "recover" /\ unscanned' = unscanned \ {n}
  BY DEF recover_cb
<1>2. \A q \in Pids : Live(q) => pid_file[proc[q].name] = q
  BY <1>1 DEF PidFileNamesRuntime
<1>3. CASE recover_adopt(n)
  <2>1. UNCHANGED <<proc, pid_file, at, op>>
    BY <1>3 DEF recover_adopt
  <2>2. PICK i \in alloc_slot(n) :
            g_agents' = [g_agents EXCEPT ![i] = Adopted(Entry(i, n), pid_file[n])]
    BY <1>3, AllocSucceeds DEF recover_adopt
  <2>3. i \in Slots /\ g_agents[i].name \in {n, NoName}
    BY DEF alloc_slot, find_by_name
  <2>4. g_agents'[i].pid = pid_file[n] /\ \A j \in Slots : j # i => g_agents'[j] = g_agents[j]
    BY <2>2, <2>3, EntryType, AdoptedType, SMT DEF TypeOK
  <2>5. ASSUME NEW q \in Pids, Live(q)
        PROVE  (\E j \in Slots : g_agents'[j].pid = q) \/ proc[q].name \in unscanned'
    <3>1. CASE proc[q].name = n
      BY <1>2, <2>3, <2>4, <2>5, <3>1
    <3>2. CASE proc[q].name # n
      <4>1. g_agents[i].pid # q
        <5>1. SlotOwns(i)
          BY <2>3 DEF RecordsOwn
        <5> QED
          BY <2>3, <2>5, <3>2, <5>1, ConstantsAssumption DEF SlotOwns, run_alive, Live
      <4> QED
        BY <1>1, <2>4, <2>5, <3>2, <4>1 DEF Tracked
    <3> QED
      BY <3>1, <3>2
  <2> QED
    BY <1>1, <2>1, <2>5 DEF PidFileNamesRuntime, Tracked, SpawnExclusive, Live
<1>4. CASE recover_start(n)
  <2>1. NoLive(n)
    BY <1>2, <1>4, ConstantsAssumption DEF NoLive, recover_start, run_alive, Live
  <2>2. \A k \in Names : k # n => pid_file'[k] = pid_file[k]
    BY <1>4 DEF recover_start, TypeOK
  <2>3. ASSUME NEW i \in alloc_slot(n), spawn_agent(i, Entry(i, n), "recover")
        PROVE  PidFileNamesRuntime' /\ Tracked' /\ SpawnExclusive'
    <3>1. i \in Slots /\ g_agents[i].name \in {n, NoName}
      BY DEF alloc_slot, find_by_name
    <3>2. Entry(i, n) \in Managed /\ Entry(i, n).name = n
      BY <3>1, EntryType
    <3> QED
      <4>1. /\ "recover" \in Callers /\ at \notin {"spawn", "down"}
            /\ unscanned \ {n} \subseteq unscanned'
        BY <1>1 DEF Callers
      <4> QED
        BY <2>1, <2>2, <2>3, <3>1, <3>2, <4>1, SpawnTracked, SMT
  <2>4. CASE UNCHANGED <<proc, g_agents, at, op, auto>>
    <3>1. \A q \in Pids : Live(q) => proc[q].name \in Names \ {n}
      BY <2>1 DEF NoLive, RecordsOwn, ProcOwned, SlotOwns, FileOwns, Live
    <3> QED
      BY <1>1, <2>2, <2>4, <3>1
        DEF PidFileNamesRuntime, Tracked, SpawnExclusive, Live
  <2> QED
    BY <1>4, <2>3, <2>4 DEF recover_start
<1> QED
  BY <1>3, <1>4 DEF recover_cb

\* handle_cmd_start keeps every live runtime tracked and spawns no second one.
LEMMA StartTracked ==
    ASSUME Records, PidFileNamesRuntime, Tracked, SpawnExclusive,
           NEW n \in Names, handle_cmd_start(n)
    PROVE  PidFileNamesRuntime' /\ Tracked' /\ SpawnExclusive'
<1> USE DEF Records
<1>1. at \in {"loop", "start"} /\ UNCHANGED <<pid_file, unscanned>>
  BY DEF handle_cmd_start
<1>2. ASSUME Return("start"), UNCHANGED <<proc, g_agents>>
      PROVE  PidFileNamesRuntime' /\ Tracked' /\ SpawnExclusive'
  <2>1. at' = "loop"
    BY <1>2 DEF Return
  <2> QED
    BY <1>1, <1>2, <2>1, AgesSame, SamePidsLoseNoLive, QuietStep
<1>3. ASSUME NEW i \in alloc_slot(n), ~agent_alive(Entry(i, n)),
             spawn_agent(i, Unsuppressed(Entry(i, n)), "start")
      PROVE  PidFileNamesRuntime' /\ Tracked' /\ SpawnExclusive'
  <2>1. NoLive(n) /\ i \in Slots /\ g_agents[i].name \in {n, NoName}
    BY <1>1, <1>3, SlotTellsAll
  <2>2. Unsuppressed(Entry(i, n)) \in Managed /\ Unsuppressed(Entry(i, n)).name = n
    BY <2>1, EntryType, UnsuppressedType
  <2> QED
    BY <1>1, <1>3, <2>1, <2>2, SpawnTracked DEF Callers
<1> QED
  BY <1>2, <1>3 DEF handle_cmd_start

\* handle_cmd_stop keeps every live runtime tracked.
LEMMA StopCmdTracked ==
    ASSUME Records, PidFileNamesRuntime, Tracked, SpawnExclusive,
           NEW n \in Names, NEW c \in {"stop", "restart"}, handle_cmd_stop(n, c)
    PROVE  PidFileNamesRuntime' /\ Tracked' /\ SpawnExclusive'
<1> USE DEF Records
<1>1. at = "loop" /\ UNCHANGED <<proc, pid_file, unscanned>>
  BY DEF handle_cmd_stop
<1>2. ASSUME UNCHANGED g_agents, at' = IF c = "restart" THEN "start" ELSE "loop"
      PROVE  PidFileNamesRuntime' /\ Tracked' /\ SpawnExclusive'
  BY <1>1, <1>2, AgesSame, SamePidsLoseNoLive, QuietStep
<1>3. ASSUME NEW i \in find_by_name(n), stop_agent(i, g_agents[i], c)
      PROVE  PidFileNamesRuntime' /\ Tracked' /\ SpawnExclusive'
  BY <1>1, <1>3, StopTracked DEF find_by_name
<1> QED
  BY <1>2, <1>3 DEF handle_cmd_stop

\* reap_zombies clears only the slot of the process it reaped.
LEMMA ReapTracked ==
    ASSUME Records, PidFileNamesRuntime, Tracked, SpawnExclusive,
           NEW p \in Pids, reap_zombies(p)
    PROVE  PidFileNamesRuntime' /\ Tracked' /\ SpawnExclusive'
<1> USE DEF Records
<1>1. Ages
  BY DEF reap_zombies, Ages, NoProcess, Live, TypeOK
<1>2. proc'[p].st = "gone"
  BY DEF reap_zombies, NoProcess, TypeOK
<1>3. \A j \in Slots : g_agents[j].pid # p => g_agents'[j] = g_agents[j]
  BY DEF reap_zombies, reap_managed, find_by_pid, TypeOK
<1>4. LosesNoLive
  BY <1>2, <1>3 DEF LosesNoLive
<1>5. UNCHANGED <<pid_file, at, op, unscanned>>
  BY DEF reap_zombies
<1>6. at # "down"
  BY DEF reap_zombies
<1> QED
  BY <1>1, <1>4, <1>5, <1>6, QuietStep

\* Once spawn_agent has returned, the new runtime is in its slot and its pid
\* file.
LEMMA SpawnRecordTracked ==
    ASSUME Records, PidFileNamesRuntime, Tracked, SpawnExclusive, spawn_record
    PROVE  PidFileNamesRuntime' /\ Tracked' /\ SpawnExclusive'
<1> USE DEF Records
<1>1. /\ op.slot \in Slots /\ op.pid \in Pids /\ op.name \in Names
      /\ g_agents[op.slot].name = op.name /\ at = "spawn"
      /\ proc[op.pid].name = op.name
  BY DEF spawn_record, Operating
<1>2. at' \in {"recover", "loop"} /\ UNCHANGED <<proc, unscanned>>
  BY DEF spawn_record, Return
<1>3. /\ g_agents'[op.slot].pid = op.pid
      /\ \A j \in Slots : j # op.slot => g_agents'[j] = g_agents[j]
  <2>1. g_agents[op.slot] \in Managed
    BY <1>1 DEF TypeOK
  <2>2. Spawned(g_agents[op.slot], op.pid).pid = op.pid
    BY <1>1, <2>1, SpawnedType
  <2>3. g_agents' = [g_agents EXCEPT ![op.slot] = Spawned(@, op.pid)]
    BY DEF spawn_record
  <2>4. \A j \in Slots : g_agents'[j] = IF j = op.slot
                                        THEN Spawned(g_agents[op.slot], op.pid)
                                        ELSE g_agents[j]
    BY <1>1, <2>3 DEF TypeOK
  <2> QED
    BY <1>1, <2>2, <2>4
<1>4. \A n \in Names : pid_file'[n] = IF n = op.name THEN op.pid ELSE pid_file[n]
  BY <1>1 DEF TypeOK, spawn_record
<1>5. \A q \in Pids : Live(q) /\ q # op.pid =>
          proc[q].name \in Names \ {op.name} /\ g_agents[op.slot].pid # q
  <2> SUFFICES ASSUME NEW q \in Pids, Live(q), q # op.pid
               PROVE  proc[q].name \in Names \ {op.name} /\ g_agents[op.slot].pid # q
    OBVIOUS
  <2>1. proc[q].name \in Names \ {op.name}
    BY <1>1 DEF SpawnExclusive, RecordsOwn, ProcOwned, Live
  <2>2. SlotOwns(op.slot)
    BY <1>1 DEF RecordsOwn
  <2>3. g_agents[op.slot].pid # q
    BY <1>1, <2>1, <2>2, ConstantsAssumption DEF SlotOwns, run_alive, Live
  <2> QED
    BY <2>1, <2>3
<1>6. \A q \in Pids : Live(q)' <=> Live(q)
  BY <1>2 DEF Live
<1>7. PidFileNamesRuntime'
  BY <1>1, <1>2, <1>4, <1>5, <1>6 DEF PidFileNamesRuntime
<1>8. Tracked'
  BY <1>1, <1>2, <1>3, <1>5, <1>6, SMT DEF Tracked
<1> QED
  BY <1>2, <1>7, <1>8 DEF SpawnExclusive

\* Both ends of stop_agent's wait loop keep every live runtime tracked.
LEMMA StopEndTracked ==
    ASSUME Records, PidFileNamesRuntime, Tracked, SpawnExclusive,
           stop_done \/ stop_timeout
    PROVE  PidFileNamesRuntime' /\ Tracked' /\ SpawnExclusive'
<1> USE DEF Records
<1>1. /\ op.slot \in Slots /\ at = "stop" /\ UNCHANGED <<pid_file, unscanned>>
  BY DEF stop_done, stop_timeout, Operating
<1>2. /\ at' \in {"loop", "start"}
      /\ \A j \in Slots : j # op.slot => g_agents'[j] = g_agents[j]
  BY <1>1, AfterStopLoses DEF stop_done, stop_timeout
<1>3. CASE stop_done
  <2>1. Ages
    BY <1>3, AgesSame DEF stop_done
  <2>2. \A j \in Slots : \/ g_agents'[j].pid = g_agents[j].pid
                         \/ ~agent_alive(g_agents[j])
    BY <1>2, <1>3 DEF stop_done
  <2> QED
    BY <1>1, <1>2, <2>1, <2>2, SamePidsLoseNoLive, QuietStep
<1>4. CASE stop_timeout
  <2>1. \A q \in Pids : proc[q] \in Process
    BY DEF TypeOK
  <2>2. \A q \in Pids : IF q = g_agents[op.slot].pid
                        THEN /\ proc'[q].st = proc[q].st /\ proc'[q].name = proc[q].name
                             /\ proc'[q].killed = TRUE
                        ELSE proc'[q] = proc[q]
    BY <1>4, <2>1, SMT DEF stop_timeout, TypeOK, Process
  <2>3. Ages /\ LosesNoLive
    BY <1>2, <2>2 DEF Ages, LosesNoLive, Live
  <2> QED
    BY <1>1, <1>2, <2>3, QuietStep
<1> QED
  BY <1>3, <1>4

\* Operators, runtimes, time and the death of agentd keep the invariant.
LEMMA EnvTracked ==
    ASSUME Faults = {}, Records, PidFileNamesRuntime, Tracked, SpawnExclusive, EnvStep
    PROVE  PidFileNamesRuntime' /\ Tracked' /\ SpawnExclusive'
<1> USE DEF Records
<1> DEFINE Goal == PidFileNamesRuntime' /\ Tracked' /\ SpawnExclusive'
<1>1. ASSUME NEW n \in Names,
             \/ \E v \in {"running", "stopped"} : SetDesired(n, v)
             \/ \E v \in BOOLEAN : SetEnabled(n, v)
      PROVE  Goal
  <2>1. UNCHANGED <<pid_file, proc, g_agents, at, op, unscanned>>
    BY <1>1 DEF SetDesired, SetEnabled
  <2> QED
    BY <2>1 DEF PidFileNamesRuntime, Tracked, SpawnExclusive, Live
<1>2. ASSUME NEW p \in Pids,
             RunsStable(p) \/ \E how \in ExitKinds : ProcExit(p, how)
      PROVE  Goal
  <2>1. UNCHANGED <<pid_file, g_agents, at, op, unscanned>>
    BY <1>2, ZenonT(60) DEF RunsStable, ProcExit
  <2>2. Ages
    BY <1>2, RunsStableAges, ProcExitAges DEF Ages, Live
  <2>3. LosesNoLive
    BY <2>1 DEF LosesNoLive
  <2> QED
    BY <2>1, <2>2, <2>3, QuietStep
<1>3. ASSUME NEW i \in Slots, BackoffExpires(i) PROVE Goal
  <2>1. UNCHANGED <<pid_file, proc, at, op, unscanned>>
    BY <1>3 DEF BackoffExpires
  <2>2. \A j \in Slots : g_agents'[j].pid = g_agents[j].pid
    <3>1. [g_agents[i] EXCEPT !.next_restart_at = "due"].pid = g_agents[i].pid
      BY DEF TypeOK, Managed
    <3> QED
      BY <1>3, <3>1 DEF BackoffExpires, TypeOK
  <2>3. Ages /\ LosesNoLive
    BY <2>1, <2>2, AgesSame DEF LosesNoLive
  <2> QED
    BY <2>1, <2>3, QuietStep
<1>4. CASE DaemonExit
  <2>1. at # "spawn" /\ at' = "down" /\ UNCHANGED pid_file
    BY <1>4 DEF DaemonExit
  <2>2. \A p \in Pids : Live(p)' => Live(p) /\ proc'[p].name = proc[p].name
    <3>1. \A q \in Process : LET r == [q EXCEPT !.child = FALSE] IN
              r.st = q.st /\ r.name = q.name /\ r.killed = q.killed
      BY DEF Process
    <3> QED
      BY <1>4, <3>1, SMT DEF DaemonExit, NoProcess, TypeOK, Live
  <2> QED
    BY <2>1, <2>2 DEF PidFileNamesRuntime, Tracked, SpawnExclusive
<1> QED
  BY <1>1, <1>2, <1>3, <1>4 DEF EnvStep

\* The inductive step of the main invariant, action by action.
LEMMA IInvStep ==
    ASSUME Faults = {}, EnoughSlots
    PROVE  IInv /\ [Next]_vars => IInv'
<1> SUFFICES ASSUME Records, PidFileNamesRuntime, Tracked, SpawnExclusive, [Next]_vars
             PROVE  PidFileNamesRuntime' /\ Tracked' /\ SpawnExclusive'
  BY RecordsStep DEF IInv
<1>1. CASE UNCHANGED vars
  <2>1. UNCHANGED <<pid_file, proc, g_agents, at, op, unscanned>>
    BY <1>1 DEF vars
  <2>2. PidFileNamesRuntime' /\ SpawnExclusive'
    BY <2>1 DEF PidFileNamesRuntime, SpawnExclusive, Live
  <2> QED
    BY <2>1, <2>2 DEF Tracked, Live
<1>2. CASE DaemonStart
  <2>1. at = "down" /\ at' = "recover" /\ unscanned' = Names /\ UNCHANGED <<proc, pid_file>>
    BY <1>2 DEF DaemonStart
  <2> QED
    BY <2>1
      DEF Records, RecordsOwn, ProcOwned, SlotOwns, FileOwns, PidFileNamesRuntime, Tracked, SpawnExclusive, Live
<1>3. CASE RecoverDone
  <2>1. at = "recover" /\ at' = "loop" /\ UNCHANGED <<proc, pid_file, g_agents, unscanned>>
    BY <1>3 DEF RecoverDone
  <2> QED
    BY <2>1 DEF PidFileNamesRuntime, Tracked, SpawnExclusive, Live
<1>4. ~spawn_record_fails
  BY DEF spawn_record_fails
<1>5. ASSUME NEW n \in Names,
             \/ recover_cb(n) \/ ReconcileEvent(n) \/ ReconcileScan(n)
             \/ handle_cmd_start(n)
             \/ \E c \in {"stop", "restart"} : handle_cmd_stop(n, c)
      PROVE  PidFileNamesRuntime' /\ Tracked' /\ SpawnExclusive'
  BY <1>5, RecoverTracked, ReconcileTracked, StartTracked, StopCmdTracked
  DEF ReconcileEvent, ReconcileScan
<1>6. ASSUME NEW i \in Slots, external_exit(i)
      PROVE  PidFileNamesRuntime' /\ Tracked' /\ SpawnExclusive'
  <2>1. at = "loop" /\ UNCHANGED <<pid_file, proc, at, op, unscanned>>
        /\ g_agents' = [g_agents EXCEPT ![i] = Observed(g_agents[i])]
        /\ ~agent_alive(g_agents[i])
    BY <1>6 DEF external_exit, ExternalGone
  <2>2. \A j \in Slots : \/ g_agents'[j].pid = g_agents[j].pid
                         \/ ~agent_alive(g_agents[j])
    BY <2>1 DEF Records, TypeOK
  <2> QED
    BY <2>1, <2>2, AgesSame, SamePidsLoseNoLive, QuietStep DEF Records
<1> QED
  BY <1>1, <1>2, <1>3, <1>4, <1>5, <1>6, EnvTracked, ReapTracked,
     SpawnRecordTracked, StopEndTracked DEF Next, DaemonStep

\* The invariant holds before agentd first starts.
LEMMA IInvInit == Init => IInv
<1> SUFFICES ASSUME Init PROVE PidFileNamesRuntime /\ Tracked /\ SpawnExclusive
  BY RecordsInit DEF IInv
<1>1. \A p \in Pids : ~Live(p)
  BY DEF Init, NoProcess, Live
<1> QED
  BY <1>1 DEF Init, PidFileNamesRuntime, Tracked, SpawnExclusive

\* The invariant implies that an agent has at most one live runtime: two would
\* both be named by its pid file, or one of them is being spawned.
LEMMA IInvOneRuntime == IInv => OneRuntime
<1> SUFFICES ASSUME IInv, NEW p \in Pids, NEW q \in Pids, Live(p), Live(q),
                    proc[p].name = proc[q].name
             PROVE  p = q
  BY DEF OneRuntime
<1>1. CASE at = "spawn" /\ op.pid \in {p, q}
  <2>1. proc[op.pid].name = op.name
    BY <1>1 DEF IInv, Records, Operating
  <2> QED
    BY <1>1, <2>1 DEF IInv, SpawnExclusive
<1>2. CASE ~(at = "spawn" /\ op.pid \in {p, q})
  BY <1>2 DEF IInv, PidFileNamesRuntime
<1> QED
  BY <1>1, <1>2

\* In the loop no spawn is in progress and no agent is unscanned, so tracked
\* is in a slot.
LEMMA IInvSupervised == IInv => Supervised
<1> SUFFICES ASSUME IInv, at \in {"loop", "stop", "start"}, NEW p \in Pids, Live(p)
             PROVE  \E i \in Slots : g_agents[i].pid = p /\ g_agents[i].name = proc[p].name
  BY DEF Supervised
<1>1. PICK i \in Slots : g_agents[i].pid = p
  BY DEF IInv, Tracked, Records, Operating
<1>2. proc[p].name = g_agents[i].name
  BY <1>1, ConstantsAssumption
    DEF IInv, Records, RecordsOwn, ProcOwned, SlotOwns, FileOwns, run_alive, Live
<1> QED
  BY <1>1, <1>2

\* The slots, pid files, deadlines and processes stay together as IInv says, at every
\* point where agentd may die and through every recovery (agentd.c).
THEOREM IInvAlways ==
    ASSUME Faults = {}, EnoughSlots
    PROVE  Spec => []IInv
BY IInvInit, IInvStep, PTL DEF Spec

\* No agent ever has two live runtimes, for any number of agents that fits
\* the table: commands, settings events, due restarts, stops that time out and
\* deaths and recoveries of agentd interleave freely.
THEOREM OneRuntimeAlways ==
    ASSUME Faults = {}, EnoughSlots
    PROVE  Spec => []OneRuntime
BY IInvAlways, IInvOneRuntime, PTL

\* Once agentd serves its loop, every live runtime is in a slot of its agent,
\* also the runtimes an earlier agentd had started.
THEOREM SupervisedAlways ==
    ASSUME Faults = {}, EnoughSlots
    PROVE  Spec => []Supervised
BY IInvAlways, IInvSupervised, PTL

\* The pid file of an agent names its live runtime at every point where agentd
\* may die, so that recovery finds it.
THEOREM PidFileNamesRuntimeAlways ==
    ASSUME Faults = {}, EnoughSlots
    PROVE  Spec => []PidFileNamesRuntime
<1>1. IInv => PidFileNamesRuntime
  BY DEF IInv
<1> QED
  BY <1>1, IInvAlways, PTL
=============================================================================
