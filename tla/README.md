# agentctl: a TLA+ verification project

agentctl runs named processes ("agents") on a Linux host. `agentd` supervises
them and brokers descriptors between them; `agentctl` is the operator's tool;
the state both share is a tree of small files. This directory holds TLA+
models of the parts whose correctness depends on the order of events, the TLC
configurations that check them on small instances, and TLAPS proofs of the
main invariants for instances of any size.

Run a check with `tlc -config MCSupervisor_one.cfg MCSupervisor`, the proofs
with `tlapm` on `SupervisorRecords`, `SupervisorProofs`, `ControlProofs`,
`ExchangeProofs`, `BrokerProofs`, `DelegationSteps`, `DelegationProofs` and
`AgentFSProofs` (a minute to a quarter of an hour each). `PROJECT.json` lists
the runs, the source lines each definition models, the mutations each property
is known to catch, the hazards of the code and the theorems.

## 1. Inventory of the system

| part | state | operations | interacts with |
|---|---|---|---|
| lifecycle engine (`agentd.c`, `spawn_agent_runtime` in `common.c`) | slot table `g_agents` (name, pid, pidfd, external, failures, deadline), shutdown and SIGCHLD flags, inotify watches | recover, reconcile, spawn, stop, reap + restart policy, commands start/stop/restart/reload/status/kick/shutdown | settings files, runtimes, agentctl, kernel process table |
| operator tool (`agentctl.c`) | none of its own; writes `config/` files | create, start, stop, kill, enable, disable, set-restart-policy, restart, send, ping, list, inspect... | agentd's socket, or the runtime itself in direct mode |
| capability broker (`agentd.c` 540-776, `broker.c`) | one request channel and one inbox per slot, policy files | parse request, match policy, make a socketpair, deliver one end to the target, answer with the other | runtimes through fd 3 and fd 4, the slot table |
| poll loop (`agentd.c` 1278-1380) | the pollfd snapshot of one iteration | dispatch in a fixed order: signals, command, inotify, pidfds, broker, scan | everything in agentd |
| transport (`ipc.c`) | exchange lock (thread flag + record lock on fd 5), sockets | connect through the broker or by path, framed send with three retries, receive with truncation checks | broker, agents |
| task store (`tasks.c`) | per task: state, status, events, result; pending file | create, set state, append, iterate, recover, pending add/remove/count | agents, agentctl display |
| fan-out and reviewer agents (`fanout-agent.c`, `reviewer-agent.c`) | task in hand, pending answers, signal flags | receive, delegate, aggregate, review, shut down | transport, task store |
| Python SDK (`sdk/python/agent.py`) | as above, for Python agents | run loop, handlers, complete, fail | transport, task store |
| agentfs kernel module (`kernel/agentfs.c`) | registered agents, two bounded mailboxes each, wait queues, reaper | register, write, blocking read, poll, owner exit, mount | user programs through the file system |
| single instance (`common.c` 147-172, `agentd.c` 1126-1276) | root lock, control socket, daemon pid file | lock, bind, unlink, shut down | a second agentd, agentctl |
| profiles, enforcement (`profiles.c`, `enforcement.c`) | parsed profile, enforcement state file | parse, apply Landlock/seccomp/cgroup | spawn |
| display (`psa.c`, parts of `agentctl.c`) | none | read files, print | files |

What makes the system hard: agentd is one thread that forks, sleeps and waits
inside its handlers while operators rewrite the settings and runtimes exit; it
may be killed anywhere and must recover from files alone; a stop may time out;
the table has 32 entries; adopted runtimes are not children and are neither
reaped nor subject to the restart policy; the broker uses poll results that
earlier handlers may have made stale; messages between agents are lost when an
agent restarts and answers come in any order.

Correctness properties per part (those in **bold** are checked):

* lifecycle: **one live runtime per agent**, **every live runtime supervised**,
  **pid file good enough to recover from**, **slots unambiguous**, **crash
  loops bounded**, **a stop is honoured**, **a due restart is attempted**,
  **policy `never` respected**, **no endless rescanning**; slots are not leaked
  when directories vanish;
* operator tool and single instance: **the agentd that serves owns lock, socket
  and pid file**, **one runtime with and without agentd**, **stop removes
  nothing under a live runtime**, **every command ends**;
* exchange and broker: **one exchange at a time per agent**, **each thread gets
  the answer to its own request**, **a message reaches the target it named**,
  **every request is answered**, **agentd handles only what fired**;
* tasks and agents: **completed means answered**, **answered means no longer
  pending**, **no task without an owner after recovery**, **answers are on
  record**, **ended tasks stay ended**, **tasks end**;
* agentfs: **bounded FIFO per mailbox and owner**, **exact counters**, **no
  lost wake-up**, **a blocked reader is served**, **pollers woken by room**; a
  registered name has files, and a file an agent.

## 2. Modules

| module | content |
|---|---|
| `Supervisor`, `MCSupervisor` | the lifecycle engine; symmetry and views for TLC |
| `SupervisorRecords` | proofs: its types, slots and pid files, whatever the faults; its crash loops end |
| `SupervisorProofs` | proofs: its live runtimes, one per agent and none unsupervised |
| `Control`, `MCControl` | agentctl's commands, competing agentds and one agent whose directory comes and goes |
| `ControlProofs` | proofs: who serves, which runtime there is, what a stop leaves |
| `Exchange` | the client side of the broker: one request/answer channel shared by threads and forked processes |
| `ExchangeProofs` | proofs: the exchange is exclusive, and answers are one's own |
| `Broker`, `MCBroker` | extends `Exchange` with agentd's poll loop, the broker handler, inboxes and issued channels; implements `Exchange`'s view of agentd |
| `BrokerProofs` | proofs: it does, and messages reach the agent they name |
| `Tasks` | task trees and pending tables as operators |
| `Delegation`, `MCDelegation` | fan-out agent, reviewers and Python agents on `Tasks` |
| `DelegationSteps`, `DelegationProofs` | proofs: trees, results and pending files agree |
| `Mailbox` | what agentfs promises its clients: a bounded FIFO with an owner |
| `AgentFS`, `MCAgentFS` | the agentfs kernel module; symmetry and view for TLC |
| `AgentFSProofs` | proofs: no lost wake-up, exact counts, refinement of `Mailbox` |

### Supervisor

State and code:

| variable | code |
|---|---|
| `desired_state`, `enabled`, `restart_policy` | the files of `config/`; a missing `enabled` counts as yes |
| `pid_file` | `runtime/pid`; `NoPid` when absent |
| `proc` | the kernel's view of runtimes: running, zombie (child of this agentd, not yet waited for), gone; whether SIGKILL was sent; whether it has run for `RESTART_STABLE_SEC` |
| `g_agents` | the slot table; a slot is `used` iff it has a name |
| `at`, `op` | where agentd's thread is when others can act: `loop`, `recover` (between two agents of the start-up scan), `spawn` (after fork, before the pid file), `stop` (in the wait loop of `stop_agent`), `start` (between the halves of a restart), `down` |
| `unscanned` | agents the recovery scan has not visited |
| `inotify` | agents with an unread event on `desired_state`, `enabled` or `exec` |
| `auto` | history only: respawns by reconciliation since the last request, start of agentd or stable run |

Every handler is one action, cut only where the code forks or waits:
`recover_cb`, `reconcile_cb` (as `ReconcileEvent` for an inotify event and
`ReconcileScan` for a scan or a kick), `handle_cmd_start`, `handle_cmd_stop`
(also the first half of restart), `spawn_record` (the second half of every
spawn), `stop_done` and `stop_timeout`, `reap_zombies`, `external_exit`.
`DaemonExit` is a crash or a shutdown: children are reparented, zombies
disappear, memory is lost, files stay. `SetDesired` and `SetEnabled` are the
operator's writes, `ProcExit` any exit of a runtime.

Abstractions:

* pids are used once. The code documents that it does not defend against a
  reused pid at recovery (`docs/design-invariants.md`, Lifecycle).
* `alloc_slot` returns the first unused slot; the model takes any, which lets
  slots be symmetric and adds behaviours only.
* Time is a deadline that is `later`, then `due`, and a run that becomes
  `stable`. The exact backoff (1, 2, 4, ... 30 s) is left out.
  A due deadline and a stable run may come at any moment, which covers every
  timing.
* A scan of the disk is one `ReconcileScan` per agent, in any order and with
  other handlers in between; agentd runs it in one go, so the model has more
  behaviours than the code.
* SIGTERM is not recorded: a runtime may exit at any time anyway.
* A SIGKILLed runtime may take arbitrarily long to die; "live" excludes it.
* status, audit, log and restart_count writes are left out: nothing in agentd
  reads them back to decide. Broker and inbox descriptors are in `Broker`.
* The set of agents, and the policy of each, are fixed during a behaviour;
  `Control` has a directory that comes and goes.
* Two faults can be switched on with `Faults`: the write of the pid file fails
  after fork(), and agentd dies between fork() and that write.

### AgentFS

One name under `/agents`. `listed`, `owner`, `dead` are the fields of
`struct agent`; `messages`, `queued_bytes`, `queued_messages`, `readq` those of
its mailboxes; `alive` is the kernel's view of tasks; `files` the mailbox files
that exist; `client` is where each process stands inside a call: before the
lock (`lock`), before it is linked into `readq` (`prepare`), linked and about
to test its condition (`check`), asleep (`sleep`), or a writer between unlock
and `wake_up` (`wake`).

A critical section of `agent->lock` is one action, with one action per way out
of it (`read_eof`, `read_take`, `read_empty`). The reaper holds
`g_agents_lock` from `reaper_mark` to `reaper_done`, during which nobody
registers. `build_file` runs outside the lock, as in the code. `wait_*` is
`wait_event_interruptible` (and, with the same order of linking and testing,
`poll`); it belongs to the kernel and is marked external.

Abstractions: a message is its length, and, for the properties only, the owner
it was written for; `messages_processed` and the text files `pid`, `owner`,
`status`, `stats` are left out, since nothing in the module depends on them;
copying to and from user memory always succeeds; calls that only return an
error are no steps. A task registers at most once while it lives and its
`task_struct` is not reused. Unloading the module is left out: it needs every
file closed. Two simultaneous mounts are not modelled.
Two events are switched on with `Faults`: `enomem`, an allocation failing in
the middle of building the files, and `remount`. The model does not take the
`enomem` step while a call is in progress on one of the files, because the
code's behaviour is undefined from there on. For the same reason no call is made
on a file that a failed build left behind, and no later registration meets one:
until the next unmount the name is then out of use in the model, where the code
adds a second set of files under the same names.

`Mailbox` is what clients may rely on: messages of a box come out in order and
once, for the current owner only; a read returns 0 only when there is no
owner; a signal does not end a read that could return a message. `MailOwner`
and `MailWaiting` map the state of `AgentFS` to it.

### Control

The data root (`lock`, `sock`, `dpid`: which agentd holds the lock, whose socket
and whose pid are in the root), the agentds (`daemon`: place in `main`, the slot
of the agent, the child being spawned, the command being served), the agent's
directory (`dir`, `desired`, `pidfile`), its runtimes (`run`) and the one
agentctl that runs (`op`). Where `Supervisor` has many agents and one agentd,
`Control` has one agent, several agentds one after the other, and agentctl at
the grain of single file operations.

An agentd takes the lock, replaces a stale socket, writes its pid, recovers the
agent and serves its loop; a shutdown closes the socket, unlinks it, unlinks the
pid file and exits, in the order of the code; `Die` is a crash anywhere.
agentctl's `cmd_start` and `cmd_stop` are cut at every look at the pid file,
every write, the test of `agentd_is_alive`, the request, the answer or its
time-out (`NoAnswer`), the fork of the direct mode, `wait_pid_gone` and the two
halves of the removal. A runtime tests `shutdown_flag` (`Test`) and then sleeps
in `poll` (`Sleep`): a SIGTERM in between is lost until a message comes.

Some windows of the code are open: nothing orders the two sides. `windows` is a
history variable that records which were hit (a direct start beside an agentd;
a fork that could not be recorded; a stop that did not wait because an agentd
came up; a request served after agentctl gave up on it; a directory removed over
a runtime). The properties say what holds outside them: there is no other way to a second
runtime or to a stop that leaves one.
A late request and an unwaited stop alone never give a second runtime, so
`OneRuntime` does not except them.

Abstractions: one agentctl at a time; pids are used once; the restart policy is
a choice between wanted and stopped; `wait_pid_gone` either sees the end or
runs out; a control request carries the right token.

### Exchange and Broker

`thread` is where each thread stands in `ipc_connect`: spinning on the flag in
its process's memory (`flag`), waiting for the record lock on fd 5 (`lock`, held
by a process, not a thread), between request and answer, or giving the two back.
`req`, `held`, `ans` are the requests in the agent's channel, the one agentd has
taken, and the answers. `Fork` copies the flag with the rest of the memory,
`Die` releases the record lock and leaves what is in the channel. `Kill` ends the
agent with all its processes and leaves the requests it sent, which agentd may
still read; `Spawn` gives it new channels. Answers are tagged with the thread they are for; no
step reads the tag. `orphaned` remembers that a process died between its request
and the answer, after which the next exchange finds an answer too many.

`Broker` makes agentd concrete: `Poll` decides which channels fired; then dead
children are reaped, one command is served (`Serve`, `Stop`, `Start`), and only
then the channels that fired are handled (`Events`, `Recv`, `Decide`, `Issue`),
by slot and whatever the slot holds by then. `slot` tells apart an entry in use,
one that `release_slot` has cleared (`zeroed`), whose `broker_fd` is then 0 and
passes the test `< 0`, and one whose descriptor was closed since (`dropped`).
For a cleared one agentd is in `recvmsg` on its standard input; `RecvZero` is its
return, which may never come. `recvmsg` on the channel and
`sendmsg` to an inbox block, as in the code. Frames are their lines in order:
`broker_parse` refuses a repeated header, a value that does not fit, an unknown
verb and a missing end; a capability name is a sequence of parts and a pattern
matches it or a prefix of it; the policy file is read anew for each request.
Threads send what `ipc_connect` sends and, as `examples/broker-fault.c` does,
frames with a repeated header or too long for agentd's buffer.

Abstractions: an issued channel carries one message; its header text is left
out; a start of a running agent, reload and status change nothing here and are
left out; each agent keeps its slot, so a slot reused by another agent is not
modelled; descriptor 0 gives no request, that is, agentd's standard input is
taken to be no socket that speaks the broker's protocol; the forked processes of
an agent die with it.

### Tasks and Delegation

`Tasks` has a task tree as a function from ids to directories and a pending
table as a set of files; an id is its sequence number. `task_set_state`,
`recover_one`, `pending_add` and so on are the functions of `tasks.c`.
`Delegation` has one fan-out agent and its workers, each a reviewer or an SDK
agent. `proc` is the place in `main` with the message in hand; a handler is cut
at every write to the tree and every send, because `Crash` may come between any
two. Trees and the pending table survive, inbox, id counter and message do not.
A send may fail; over agentfs a message to a dead agent may be accepted and
lost. `Sender` is what the receiver takes the sender to be: over sockets the
name that came with the channel, over agentfs the `REPLY-TO` header.

Writes may fail in the agents that `full` of the deployment names. `task_create`
gives up on the task; what the other writes return is not looked at by the C
agents (`task_set_state` and the result file in `reviewer-agent.c` 422-434,
`pending_add` in `fanout-agent.c` 332), which go on as if they had succeeded. The
field `unwritten` of a task remembers it for the properties; no step reads it. In the SDK a
write that fails raises (`WriteFailsSdk`): in `complete()` the task is failed
instead, elsewhere the agent ends.

`Deployments` lists the combinations that are checked: reviewers over sockets,
with and without a single-shot one, under policies with two targets, a repeated
target, a denied one or none; two requests for one reviewer; Python agents over
agentfs; and both kinds once more with writes that fail. A handler of the SDK
may call `Task.reply` once before it ends; `delegate_to`, which records nothing,
is left out, as is an unlink of a pending file that fails. Policy lines and
messages are records; what a review finds is not modelled, its three artifacts
are counted.

## 3. Runs

Passing runs (states are distinct states; every run ends within five minutes
on two workers):

| run | instance | checks | states |
|---|---|---|---|
| `one` | 1 agent, 4 pids, 1 slot, limit 2, policy on-failure | `TypeOK`, `OneRuntime`, `PidFileNamesRuntime`, `CrashLoopBounded`, `Supervised`, `IInv`, `BurstInv` | 474 k |
| `faults` | 2 agents, 2 pids, 2 slots, limit 1, policy always, both faults | `OneSlotPerRuntime` | 603 k |
| `live` | 1 agent, 2 pids, policies never and on-failure, fair | `StopHonoured`, `RestartTaken` | 73 k |
| `agentfs` | 2 boxes of 2 messages and 3 bytes, lengths 1 and 2, 2 processes, 2 owners, both faults, fair | `TypeOK`, `NoLostWakeup`, `AgentFSInv`, `Counted`, `BytesExact`, `ImplementsMailbox`, `ReadersServed` | 208 k |
| `control` | 2 agentds, 2 pids, 3 commands, 1 crash, fair | `TypeOK`, `ControlInv`, `Reachable`, `OneRuntime`, `StopLeavesNothing`, `CommandsEnd` | 562 k |
| `broker` | 2 agents, one with 2 threads, one with 2 processes, inboxes of 1, 2 requests, 1 stop, crash or death, fair | `TypeOK`, `BrokerInv`, `ExchangeExclusive`, `OwnAnswer`, `ClientView`, `ReachesAddressee`, `RequestsAnswered` | 172 k |
| `tasks` | fan-out and 2 workers, 6 deployments, 4 ids, 1 crash, fair | `TypeOK`, `DelegationInv`, `CompletedMeansAnswered`, `RepliesAreCredited`, `ActiveTasksAreOwned`, `AnswersAreOnRecord`, `EndedTasksStay`, `TasksEnd` | 362 k |

Five more runs are expected to fail. Each states what the repository says of
itself and finds that the code does otherwise:

| run | property | what happens |
|---|---|---|
| `never` | `NeverRelaunched` | an adopted runtime exits; its slot is cleared without asking the policy; the next scan starts it again |
| `spin` | `DeadlineConsumed` | an agent is disabled during its backoff; its deadline stays due and poll() never sleeps again |
| `pollout` | `SpaceWakesPoller` | a reader makes room and wakes no poller |
| `stale_event` | `HandlesWhatFired` | a channel fires, the command of the same iteration restarts its agent, and agentd waits in recvmsg on the new channel |
| `agentfs_reply` | `RepliesAreCredited` | over agentfs a reviewer's result names no sender; the delegation it answers stays pending |

Why the bounds are enough.

* `Supervisor`: an agent needs an old runtime, its successor and one more spawn
  to show a double start (3 pids); `CrashLoopBounded` needs one pid more than
  first start plus limit, so that the respawn too many could happen; policy
  on-failure takes both ways, like always after a failure and like never after
  an exit with 0; a stop of
  one agent that reaps another needs 2 agents and 2 pids. Symmetry is over
  agents, pids and slots in the safety runs, never in the liveness runs. A
  `VIEW` drops the pending inotify events, since `ReconcileScan` may do at any
  time what an event would do, and the history variable where the property
  does not read it.
* `AgentFS`: a sleeper and a competitor or writer; both limits of the mailbox
  are reached, the byte limit with and without the message limit; two owners
  give a registration before and after the reaper's tick. The `VIEW` leaves out
  `result`, which no step reads.
* `Control`: a predecessor and a successor; a runtime and the second one that
  must not be; any three of create, start, stop, kill and shutdown, which covers
  a stop against a late start, a kill or a shutdown. No fork succeeds once both
  pids are used; the command then ends as after a failed fork.
* `Broker`: two threads contend for the flag, two processes for the record lock;
  two requests are one that is orphaned or fills the inbox and one that meets
  the consequences; the policies allow by prefix, by name, and by a name beyond
  `MAX_PATTERNS`.
* `Delegation`: two targets make a partial answer possible, one target with two
  requests makes ids and results of two tasks overlap, `MAX_TARGETS` is exceeded
  by a policy of three lines, and the crash may hit any agent at any step.
  Failing writes are explored with one target and one request. `CAP` is as large
  as the number of ids (section 6).

Where the bounds do limit (number of agents, slots, processes, threads, length
of a behaviour), the theorems of section 4 do not. Deadlock checking is off in
`control`, `broker`, `tasks` and their violations, where the bounds on commands,
requests and crashes end behaviours.

Fairness of `Supervisor` (`FairSpec`). agentd's handlers are bounded in time
(the stop loop by 2 s, the wait after a spawn by 2 s), so the second halves of
spawn, stop, restart and recovery are weakly fair. Its loop serves every source
that is ready in every iteration, but a handler may leave the loop for a stop
or a spawn again and again, so events, reaping and the scan for a due deadline
are strongly fair. Clocks advance: a deadline becomes due. Nothing is assumed
of runtimes (they may ignore SIGTERM and never exit), of operators or of
restarts of agentd. The bound leaves out the broker, which runs in the same
thread: in the waits that `Broker` names (`WaitsForRequest`, `WaitsOnZero`,
`WaitsInCycle`) agentd serves no event, so `StopHonoured` and `RestartTaken` are
about an agentd that is in none of them.

Fairness of `AgentFS`: a process inside a call keeps running (weak fairness of
its steps: it never waits for a lock that is held across a wait), and the
reaper is requeued every 2 s. Nothing is assumed of owners, signals or new
calls.

Fairness of the others is weak and per process, since each process that can run
does: agentctl, an agentd that was started, a runtime up to its `poll` (no
message need ever come); agentd's loop, each thread inside `ipc_connect`, and
the reader of an inbox, whose wait for a message SO_RCVTIMEO ends; each agent of
`Delegation`, including its start after an exit, which is its supervisor's
doing. Crashes, forks, commands and new requests need not happen.

## 4. Proofs

Every safety property that a passing run checks, but for `BytesExact`, is also
proved, for all values of the constants that satisfy the assumptions of the
module (sets are disjoint, counts are numbers, the policies of `Delegation` name
workers). Where a theorem needs more, it says so:

| theorem | condition | what breaks without it |
|---|---|---|
| `OneRuntimeAlways`, `SupervisedAlways`, `PidFileNamesRuntimeAlways` (and `IInvAlways`) of `SupervisorProofs` | `Faults = {}`, `EnoughSlots` (finitely many agents, no more than slots) | section 6: `Supervised` fails with a cut spawn and with a full table |
| `CrashLoopBoundedAlways` (and `BurstInvAlways`) | `"pid_write_fails" \notin Faults` | a child whose pid file could not be written runs on unrecorded; the next due scan starts another, for which no failure was counted (TLC shows it in 12 steps with that fault in `one`) |
| `ActiveTasksAreOwnedAlways` | `MaxTask <= CAP` | section 6: one scan does not reach every task |
| `RepliesAreCreditedAlways` | every deployment uses sockets or SDK workers only | the run `agentfs_reply` |

None of the properties is inductive. Each module has an invariant that is, which
TLC checks too (`IInv` and `BurstInv` in the run `one`, `ControlInv`, `BrokerInv`,
`DelegationInv` and `AgentFSInv` in the runs of their modules). Two of them are
inductive together with an invariant proved before: `BurstInv` with `Records`,
`BrokerInv` with `AnswerInv` of `Exchange`.

**Lifecycle** (`SupervisorRecords`, `SupervisorProofs`). That no agent has two
runtimes depends on what agentd knows at the moment it decides to spawn.
`Records` says that slots, pid files and the operation in progress name
existing processes of the right agent; it needs no condition and is proved
first (`RecordsStep`), through the notion of a slot update that adds no pid
and clashes with no other slot (`Keeps`). `IInv` adds where a live runtime is
recorded: its pid file names it outside the spawn window
(`PidFileNamesRuntime`); it is in a slot, being spawned, or of an agent the
recovery scan has yet to visit (`Tracked`); one being spawned is alone
(`SpawnExclusive`). From these, a slot without a live process means an agent
without a live runtime (`SlotTellsAll`), so a spawn never adds a second one.
That a wanted agent always gets a slot is a pigeonhole argument
(`AllocSucceeds`).

**Crash loops** (`SupervisorRecords`, second half). The number of respawns is a history
variable; what agentd has is `consecutive_failures` of a slot, which is lost when
the slot is. `BurstInv` keeps an account per agent: the respawns are matched by
the failures in its slot, one more while a runtime is up that has yet to fail;
an agent that is wanted and has no slot has no respawns on its account, and a
runtime that was adopted is not a respawn. Since the limit is compared with the
failures before the next respawn, the account never exceeds it. Nothing is
assumed of the number of slots, and agentd may die anywhere.

**agentctl and agentds** (`ControlProofs`). `RootInv`: at most one agentd is
past the lock, and how far it came determines what the socket and the pid file
in the root name; this gives `Reachable`. `RunInv`: whoever has forked a runtime
and not recorded it knows of the only one; otherwise the pid file names it, and
so does the slot of an agentd that has recovered. It holds as long as none of
the three windows of `OneRuntime` was hit (the third is any removal while a
runtime is live, recorded or not). `StopInv` is for `StopLeavesNothing`: with no
window hit, agentd works for the agentctl that runs or for nobody, and while a
stop goes on nothing is restarted. The theorems so say that the windows are the
only ways to a second runtime, for any number of commands, agentds and crashes;
the run could say it for three commands only.

**Exchange** (`ExchangeProofs`). Neither lock suffices alone: the record lock does
not keep threads of one process apart, the flag not processes. `LockInv` says
that a thread past the flag is alone past it in its process, and that a thread
past the record lock is in the process that holds it, so two threads inside
would be in one process and both past its flag. A forked child starts with a
copy of the flag; that is harmless because a process that is not up has no
thread in `ipc_connect` (`Down`). `AnswerInv` adds what is in the channel while
no exchange was orphaned: the request of the one thread that waits, or the
answer to it, or nothing (`ChannelOK`).

**Broker** (`BrokerProofs`). `BrokerImplementsExchange` proves
`Spec => ClientView`: each step of agentd's loop is a step of the agentd that
`Exchange` assumes, or one its clients do not see. So exclusion and own answers
carry over (`BrokerExchangesExclude`, `BrokerAnswersAreOwn`) without a second
proof. The refinement needs that an answer is given for the request in hand only
(`LoopInv`), and that channels do not run out: every call in progress can be
given a number of its own among those left (`Counted`), whether it is still with
its thread, queued, in agentd's hands, or a command of agentctl. For
`ReachesAddressee`, `Addressed` follows a request through the channel: while no
exchange was orphaned, what is queued, taken or answered for the one thread that
waits is its request, or a channel to the agent that request named.

**Tasks** (`DelegationSteps` for what all agents do, `DelegationProofs` for the
rest). `DelegationInv` ties four things together: the place of each agent in its
code and the state of its task in hand (`InHand`); the messages on their way and
what their senders have on record (`Mail`); the pending table, the delegations
recorded and the results handled (`Ledger`); and what the fan-out agent has sent
of the task in hand (`Posted`). The last one is why a delegation may be recorded
after its message left: until the fan-out agent is back in its loop, no answer
to the task in hand has been handled. `KeptTree` is the lemma most steps rest
on: a step on a task keeps its incoming id, keeps the mark of a failed write and
does not touch a reviewer's task that ended, so that an answer on record stays
there through crashes and recoveries. A write that fails leaves the state behind
the place in the code; `InHand` so says which state was reached or that a write
failed (`Reached`, `Ended`), and the properties inherit that exception where the
agents do not look. Each action is proved once to preserve the invariant, to
change no ended task (`Stays`) and to leave no active task without owner
(`OwnedKept`).

**agentfs** (`AgentFSProofs`). `AgentFSInv` adds to the properties what they need: a
sleeping process is linked in the `readq` of its box (`SleepersLinked`), so a
wake-up reaches it; a dead agent has empty boxes, a live one an owner, and nobody
is inside a file of an unlisted one (`Lifecycle`). `WakePending` is the heart:
whoever makes a sleeper ready, a writer or the reaper, is recorded as owing it a
wake-up until it has given it. `RefinesStep` maps each action to an action of
`Mailbox` or to a stutter, for `ImplementsMailboxAlways` (`Spec => M!Spec`).

Only model-checked: `BytesExact`, since the sum over a sequence needs induction
over data, which the prover lacks; the liveness properties `StopHonoured`,
`RestartTaken`, `ReadersServed`, `CommandsEnd`, `RequestsAnswered` and `TasksEnd`,
since temporal reasoning under fairness is outside its reach; and the five
violations, which need one behaviour each.

## 5. How the parts meet

`Broker` is `Exchange` with agentd; `Delegation` uses a message transport whose
two kinds are the issued channels of `Broker` (a message reaches the target it
names and comes with its sender's name) and the mailboxes of `Mailbox` (in
order, once, lost with their owner). `Control` and `Supervisor` overlap on
purpose: the decisions to spawn and stop are those of the same functions, once
for many agents in one agentd, once for one agent between agentctl and agentds.

Next steps: the exact backoff with integer time; slots that change hands between
agents in `Broker`; more than one agentctl at a time in `Control`.

## 6. Not modelled

Profiles and enforcement are configuration parsing and system calls whose
effect is the kernel's; display tools only read; header parsing in `ipc.c`,
`common.c` and the SDK is text processing of one message by one process; the
macOS fallbacks (no pidfd, no inotify, polling every 5 s, stream sockets) are
not modelled. The SDK over sockets is left out: it listens on a stream socket
and does not use fd 3 and fd 4, so on Linux it does not meet the C runtimes
there. Checkpoints, events and timestamps of tasks, the reload, snapshot and
rotation signals, and the commands that only write one configuration file are
left out because nothing else in the models depends on them.

Behaviours the models contain, that are not what one would wish, and that no
run is kept for (TLC exhibits each in a few steps when the formula is added as
an invariant or the constant is changed):

* a death of agentd between fork() and the pid file (`common.c` 1353, fault
  `crash_in_spawn`): the file header says a restarted agentd picks agents up
  "via the same per-agent files", but none names that runtime, and the
  successor starts another: `Supervised` fails;
* more agents than slots: `recover_cb_` (`agentd.c` 436-437) skips a live
  runtime when the table is full, so `Supervised` fails with one slot for two
  agents;
* more tasks than `CAP` (256 in `task_iterate`): recovery sees only some of
  them, and `ActiveTasksAreOwned` fails in `tasks` with `CAP = 1`;
* an SDK agent killed in a handler leaves its task `running`, as it scans for
  none at start, and takes over the directory of a task it is sent again, so
  `EndedTasksStay` and `TasksEnd` leave its trees out;
* a lost result leaves its fan-out task `delegated` until the fan-out agent is
  restarted (`Stranded` in `TasksEnd`);
* a write to the task store that fails is not noticed by the C agents
  (`reviewer-agent.c` 422-434, `fanout-agent.c` 332): a reviewer answers what is
  not on record, a task stays active although nobody works on it, a delegation is
  not awaited (`unwritten` in `AnswersAreOnRecord`, `ActiveTasksAreOwned` and
  `TasksEnd`);
* an SDK handler may reply before its task has ended, and a `CapabilityError` of
  its own ends it without a result file (`agent.py` 472, 481), so
  `AnswersAreOnRecord` says of an SDK tree only that it has the task;
* both locks of the exchange are sound, but a child forked while another thread
  holds the flag spins for ever in its own `ipc_connect`, and a process killed
  between request and answer leaves an answer that the next requester takes
  for its own (`orphaned` in `OwnAnswer` and `ReachesAddressee`);
* agentd and an agent wait for each other when agentd issues a channel into the
  full inbox of an agent that is itself in `ipc_connect` (`WaitsInCycle`);
* a stop served between `poll()` and the pass over the channels that fired leaves
  `broker_fd` 0 in the released slot (`agentd.c` 173), the pass lets it through
  (1370), and agentd reads from its standard input, which may block, and then
  closes it (`WaitsOnZero`);
* the windows of `Control`: a direct start beside a starting agentd (`agentctl.c`
  376), a fork that could not be recorded and, with a fourth command and a third
  pid, a removal over a runtime (1049, 1064) lead to a second runtime; an
  unwaited stop (1034) and a late request (307) to a stop that leaves one;
* allowed and denied targets are both cut at `MAX_TARGETS` while the policy is
  read (`fanout-agent.c` 60), before the denied ones are taken out;
* a result that comes after its task was failed by recovery completes it
  (`EndedTasksStay` allows this step and no other);
* registration of a name whose owner is gone but not yet marked by the reaper
  (`agentfs.c` 600): the mailboxes are drained and no sleeping reader is woken,
  although the module's README says that the end of an owner wakes all of them
  (the same README says at 227-236 that a dead agent's name is never registered
  again; `agentfs.c` 582-600 does that);
* remount: `g_agents` of `agentfs.c` outlives an unmount while the directories
  do not, so a name of the earlier mount is registered again with success and
  has no files (`listed /\ ~dead /\ files # Boxes` outside a registration);
* a failing allocation in `agentfs_build_agent_tree`: `agentfs_register` (line
  649) frees the agent and leaves the files made so far, whose `i_private`
  points to it (`files # {} /\ ~listed`).

Not in any model: a directory removed while its slot has a pid never gives the
slot back (`agentd.c` 882).
