------------------------------ MODULE Control ------------------------------
(***************************************************************************)
(* agentctl and agentd around one agent: which agentd holds the data root, *)
(* the socket and the pid file that lead agentctl to it, the commands of   *)
(* agentctl with and without an agentd, the directory they create and      *)
(* remove, and the runtimes with their signals.                            *)
(*                                                                         *)
(* One agentctl runs at a time. A process id of a runtime is used once; which *)
(* of the unused ones a new process gets does not matter, so it is chosen. *)
(***************************************************************************)
EXTENDS Naturals, Sequences

CONSTANTS Daemons, Pids, None, MaxCommands, MaxFaults

ASSUME ControlAssumption == /\ None \notin Daemons \cup Pids
                            /\ MaxCommands \in Nat /\ MaxFaults \in Nat

VARIABLES
    lock,         \* the agentd that has <root>/agentd.lock
    sock, dpid,   \* the agentd whose control socket and pid are in the root
    daemon,       \* each agentd
    dir,          \* the agent's directory exists
    desired,      \* its desired_state
    pidfile,      \* its pid file
    run,          \* the runtimes
    op,           \* the agentctl that runs
    backlog,      \* requests the control socket holds
    windows,      \* the unprotected windows that were hit
    commands, faults

root == <<lock, sock, dpid>>
agent == <<dir, desired, pidfile>>
vars == <<root, daemon, agent, run, op, backlog, windows, commands, faults>>

Off == [pc |-> "off", slot |-> None, child |-> None, then |-> "loop", to |-> 0,
        term |-> FALSE]

DaemonPc == {"off", "bind", "rebind", "pidfile", "recover", "wanted", "loop", "fork", "record",
             "stop", "stopping", "reply", "unlink", "unlink_pid", "exit"}

Daemon == [pc : DaemonPc,
           slot : Pids \cup {None}, child : Pids \cup {None},
           then : {"loop", "reply"}, to : 0 .. MaxCommands, term : BOOLEAN]

Commands == {"create", "start", "stop", "kill", "shutdown"}

Idle == [pc |-> "idle", cmd |-> "create", pid |-> None, direct |-> FALSE, tries |-> 0]

OperatorPc == {"idle", "begin", "want", "look", "ask", "sent", "fork", "record", "gone",
               "remove", "rmdir"}

Operator == [pc : OperatorPc,
             cmd : Commands, pid : Pids \cup {None}, direct : BOOLEAN, tries : 0 .. 2]

Request == [cmd : {"start", "stop", "shutdown"}, id : 1 .. MaxCommands]

\* by: the agentd whose child it is
Runtime == [pc : {"off", "test", "tested", "poll", "zombie", "dead"}, term : BOOLEAN,
            by : Daemons \cup {None}]

Windows == {"direct start beside an agentd", "unrecorded", "unwaited stop",
            "late request", "removed over a runtime"}

TypeOK ==
    /\ lock \in Daemons \cup {None} /\ sock \in Daemons \cup {None}
    /\ dpid \in Daemons \cup {None}
    /\ daemon \in [Daemons -> Daemon]
    /\ dir \in BOOLEAN /\ desired \in {"none", "running", "stopped"}
    /\ pidfile \in Pids \cup {None}
    /\ run \in [Pids -> Runtime]
    /\ op \in Operator
    /\ backlog \in Seq(Request)
    /\ windows \subseteq Windows
    /\ commands \in 0 .. MaxCommands /\ faults \in 0 .. MaxFaults
    /\ ~dir => desired = "none" /\ pidfile = None

-----------------------------------------------------------------------------
(* Runtimes *)

Live(p) == run[p].pc \in {"test", "tested", "poll"}

\* kill(pid, 0) and the probe by pidfd: a zombie counts.
run_alive(p) == p # None /\ (Live(p) \/ run[p].pc = "zombie")

Ended(r) == [r EXCEPT !.pc = IF r.by # None /\ daemon[r.by].pc # "off" THEN "zombie"
                                                                      ELSE "dead"]

\* on_term, and EINTR where the process is in poll().
Termed(r) == [r EXCEPT !.term = TRUE, !.pc = IF r.pc = "poll" THEN "test" ELSE r.pc]

Term(p) == run' = [run EXCEPT ![p] = IF Live(p) THEN Termed(@) ELSE @]

Kill(p) == run' = [run EXCEPT ![p] = IF Live(p) THEN Ended(@) ELSE @]

\* The loop of a runtime: it tests shutdown_flag, then sleeps in poll().
Test(p) ==
    /\ run[p].pc = "test"
    /\ run' = [run EXCEPT ![p] = IF @.term THEN Ended(@) ELSE [@ EXCEPT !.pc = "tested"]]
    /\ UNCHANGED <<root, daemon, agent, op, backlog, windows, commands, faults>>

Sleep(p) ==
    /\ run[p].pc = "tested"
    /\ run' = [run EXCEPT ![p].pc = "poll"]
    /\ UNCHANGED <<root, daemon, agent, op, backlog, windows, commands, faults>>

\* A message came in.
Wake(p) ==
    /\ run[p].pc = "poll"
    /\ run' = [run EXCEPT ![p].pc = "test"]
    /\ UNCHANGED <<root, daemon, agent, op, backlog, windows, commands, faults>>

Crash(p) ==
    /\ faults < MaxFaults
    /\ Live(p)
    /\ Kill(p)
    /\ faults' = faults + 1
    /\ UNCHANGED <<root, daemon, agent, op, backlog, windows, commands>>

\* spawn_agent_runtime up to fork().
Fork(p, by) ==
    /\ run[p].pc = "off" /\ p = CHOOSE q \in Pids : run[q].pc = "off"
    /\ run' = [run EXCEPT ![p] = [pc |-> "test", term |-> FALSE, by |-> by]]

\* fork() fails.
NoProcess == \A p \in Pids : run[p].pc # "off"

\* (mutated) the pid file is written whether or not there is a directory
Record_always(p) ==
    /\ pidfile' = p
    /\ windows' = windows

\* and from there on: without the directory the pid file cannot be written.
Record(p) ==
    /\ pidfile' = IF dir THEN p ELSE pidfile
    /\ windows' = windows \cup (IF dir THEN {} ELSE {"unrecorded"})
                          \cup (IF lock # None /\ run[p].by = None
                                THEN {"direct start beside an agentd"} ELSE {})

-----------------------------------------------------------------------------
(* agentd: start, stop and crash *)

Set(d, pc) == daemon' = [daemon EXCEPT ![d].pc = pc]

\* A new process: nothing in the root names it yet.
New(d) == LET Fresh(e) == daemon[e].pc = "off" /\ e \notin {sock, dpid}
          IN  Fresh(d) /\ d = CHOOSE e \in Daemons : Fresh(e)

\* A second agentd exits at once.
agentctl_root_lock(d) ==
    /\ New(d)
    /\ lock = None
    /\ lock' = d
    /\ Set(d, "bind")
    /\ UNCHANGED <<sock, dpid, agent, run, op, backlog, windows, commands, faults>>

\* A socket left by a crash is unlinked first.
bind_control_socket(d) ==
    /\ daemon[d].pc \in {"bind", "rebind"}
    /\ IF sock = None
       THEN sock' = d /\ backlog' = <<>> /\ Set(d, "pidfile")
       ELSE /\ daemon[d].pc = "bind"
            /\ sock' = None
            /\ Set(d, "rebind") /\ UNCHANGED backlog
    /\ UNCHANGED <<lock, dpid, agent, run, op, windows, commands, faults>>

write_pid_file(d) ==
    /\ daemon[d].pc = "pidfile"
    /\ dpid' = d
    /\ Set(d, "recover")
    /\ UNCHANGED <<lock, sock, agent, run, op, backlog, windows, commands, faults>>

\* recover_cb_: the pid file first, desired_state then.
recover_cb(d) ==
    /\ daemon[d].pc = "recover"
    /\ IF run_alive(pidfile)
       THEN /\ daemon' = [daemon EXCEPT ![d].pc = "loop", ![d].slot = pidfile]
            /\ UNCHANGED pidfile
       ELSE /\ pidfile' = None
            /\ Set(d, "wanted")
    /\ UNCHANGED <<root, dir, desired, run, op, backlog, windows, commands, faults>>

recover_wanted(d) ==
    /\ daemon[d].pc = "wanted"
    /\ Set(d, IF desired = "running" THEN "fork" ELSE "loop")
    /\ UNCHANGED <<root, agent, run, op, backlog, windows, commands, faults>>

\* init takes the children of an agentd that ended.
Orphaned(d) ==
    [p \in Pids |-> IF run[p].by = d
                    THEN [run[p] EXCEPT !.by = None,
                                        !.pc = IF run[p].pc = "zombie" THEN "dead" ELSE run[p].pc]
                    ELSE run[p]]

\* (mutated) the lock is given back before the names are unlinked
shutdown_unlocks(d) ==
    /\ daemon[d].pc = "loop" /\ daemon[d].term
    /\ lock' = None
    /\ backlog' = <<>>
    /\ Set(d, "unlink")
    /\ UNCHANGED <<sock, dpid, agent, run, op, windows, commands, faults>>

\* The end of main: the socket is closed, then its name and the pid file are
\* unlinked, and the exit gives the lock back.
close_control_socket(d) ==
    /\ daemon[d].pc = "loop" /\ daemon[d].term
    /\ backlog' = <<>>
    /\ Set(d, "unlink")
    /\ UNCHANGED <<root, agent, run, op, windows, commands, faults>>

unlink_control_socket(d) ==
    /\ daemon[d].pc = "unlink"
    /\ sock' = None
    /\ Set(d, "unlink_pid")
    /\ UNCHANGED <<lock, dpid, agent, run, op, backlog, windows, commands, faults>>

unlink_pid_file(d) ==
    /\ daemon[d].pc = "unlink_pid"
    /\ dpid' = None
    /\ Set(d, "exit")
    /\ UNCHANGED <<lock, sock, agent, run, op, backlog, windows, commands, faults>>

Exit(d) ==
    /\ daemon[d].pc = "exit"
    /\ lock' = None
    /\ daemon' = [daemon EXCEPT ![d] = Off]
    /\ run' = Orphaned(d)
    /\ UNCHANGED <<sock, dpid, agent, op, backlog, windows, commands, faults>>

Die(d) ==
    /\ faults < MaxFaults
    /\ daemon[d].pc # "off"
    /\ faults' = faults + 1
    /\ lock' = IF lock = d THEN None ELSE lock
    /\ daemon' = [daemon EXCEPT ![d] = Off]
    /\ run' = Orphaned(d)
    /\ backlog' = IF sock = d THEN <<>> ELSE backlog
    /\ windows' = IF daemon[d].pc = "record" THEN windows \cup {"unrecorded"} ELSE windows
    /\ UNCHANGED <<sock, dpid, agent, op, commands>>

-----------------------------------------------------------------------------
(* agentd: the loop, for the one agent *)

InLoop(d) == daemon[d].pc = "loop"

\* reap_zombies, in the loop and while a stop waits. The restart policy either
\* leaves the agent wanted, for a later scan, or has it stopped.
reap_zombies(d) ==
    /\ daemon[d].pc = "stopping" \/ InLoop(d)
    /\ \E p \in Pids :
          /\ run[p].pc = "zombie" /\ run[p].by = d
          /\ run' = [run EXCEPT ![p].pc = "dead"]
          /\ daemon' = [daemon EXCEPT ![d].slot = IF daemon[d].slot = p THEN None ELSE daemon[d].slot]
          /\ IF daemon[d].slot = p /\ desired = "running"
             THEN desired' \in {"running", "stopped"}
             ELSE UNCHANGED desired
    /\ UNCHANGED <<root, dir, pidfile, op, backlog, windows, commands, faults>>

\* The pidfd of an adopted runtime.
external_exit(d) ==
    /\ InLoop(d)
    /\ daemon[d].slot # None /\ ~run_alive(daemon[d].slot)
    /\ daemon' = [daemon EXCEPT ![d].slot = None]
    /\ UNCHANGED <<root, agent, run, op, backlog, windows, commands, faults>>

\* reconcile_cb_, after a settings event, a due restart or a time-out.
reconcile_cb(d) ==
    /\ InLoop(d) /\ dir
    /\ LET alive == run_alive(daemon[d].slot)
       IN  \/ ~alive /\ desired = "running"
              /\ daemon' = [daemon EXCEPT ![d].pc = "fork", ![d].slot = None]
           \/ alive /\ desired # "running" /\ Set(d, "stop")
    /\ UNCHANGED <<root, agent, run, op, backlog, windows, commands, faults>>

\* Back to the loop, or to the answer.
Back(d, slot) == [daemon[d] EXCEPT !.pc = daemon[d].then, !.slot = slot, !.child = None]

\* spawn_agent. Without the directory agent_ensure_layout fails.
spawn_agent(d) ==
    /\ daemon[d].pc = "fork"
    /\ \/ /\ dir
          /\ \E p \in Pids :
                Fork(p, d) /\ daemon' = [daemon EXCEPT ![d].pc = "record", ![d].child = p]
       \/ /\ ~dir \/ NoProcess
          /\ daemon' = [daemon EXCEPT ![d] = Back(d, None)]
          /\ UNCHANGED run
    /\ windows' = IF op.pc = "record" THEN windows \cup {"direct start beside an agentd"}
                                      ELSE windows
    /\ UNCHANGED <<root, agent, op, backlog, commands, faults>>

spawn_record(d) ==
    /\ daemon[d].pc = "record"
    /\ Record(daemon[d].child)
    /\ daemon' = [daemon EXCEPT ![d] = Back(d, IF dir THEN daemon[d].child ELSE None)]
    /\ UNCHANGED <<root, dir, desired, run, op, backlog, commands, faults>>

\* stop_agent: SIGTERM, then at most two seconds, then SIGKILL. The commands
\* give the slot back, a scan keeps it until the exit is seen.
stop_agent(d) ==
    /\ daemon[d].pc = "stop"
    /\ Term(daemon[d].slot)
    /\ Set(d, "stopping")
    /\ UNCHANGED <<root, agent, op, backlog, windows, commands, faults>>

stop_done(d) ==
    /\ daemon[d].pc = "stopping"
    /\ ~run_alive(daemon[d].slot)
    /\ daemon' = [daemon EXCEPT ![d] = Back(d, None)]
    /\ UNCHANGED <<root, agent, run, op, backlog, windows, commands, faults>>

stop_timeout(d) ==
    /\ daemon[d].pc = "stopping"
    /\ run_alive(daemon[d].slot)
    /\ Kill(daemon[d].slot)
    /\ daemon' = [daemon EXCEPT ![d] =
          Back(d, IF daemon[d].then = "reply" THEN None ELSE daemon[d].slot)]
    /\ UNCHANGED <<root, agent, op, backlog, windows, commands, faults>>

\* serve_one_connection and handle_command.
handle_command(d) ==
    /\ InLoop(d) /\ ~daemon[d].term /\ backlog # <<>>
    /\ LET r == Head(backlog)
           To(pc) == [daemon EXCEPT ![d].pc = pc, ![d].then = "reply", ![d].to = r.id]
       IN  CASE r.cmd = "shutdown" ->
                  /\ daemon' = [To("reply") EXCEPT ![d].term = TRUE]
                  /\ UNCHANGED desired
             [] r.cmd # "shutdown" /\ ~dir -> daemon' = To("reply") /\ UNCHANGED desired
             [] r.cmd = "start" /\ dir ->
                  /\ desired' = "running"
                  /\ daemon' = To(IF run_alive(daemon[d].slot) THEN "reply" ELSE "fork")
             [] r.cmd = "stop" /\ dir ->
                  /\ desired' = "stopped"
                  /\ daemon' = IF run_alive(daemon[d].slot) THEN To("stop")
                               ELSE [To("reply") EXCEPT ![d].slot = None]
    /\ backlog' = Tail(backlog)
    /\ UNCHANGED <<root, dir, pidfile, run, op, windows, commands, faults>>

\* The answer: it may find agentctl gone.
Reply(d) ==
    /\ daemon[d].pc = "reply"
    /\ daemon' = [daemon EXCEPT ![d].pc = "loop", ![d].then = "loop", ![d].to = 0]
    /\ op' = IF op.pc = "sent" /\ daemon[d].to = commands
             THEN IF op.cmd = "stop" THEN [op EXCEPT !.pc = "gone"] ELSE Idle
             ELSE op
    /\ UNCHANGED <<root, agent, run, backlog, windows, commands, faults>>

-----------------------------------------------------------------------------
(* agentctl *)

agentd_is_alive == dpid # None /\ daemon[dpid].pc # "off"
Listening == /\ sock # None
             /\ daemon[sock].pc \notin {"off", "unlink", "unlink_pid", "exit"}

Op(pc) == op' = [op EXCEPT !.pc = pc]
Others == <<root, daemon, commands, faults>>

Begin ==
    /\ op.pc = "idle" /\ commands < MaxCommands
    /\ commands' = commands + 1
    /\ \E cmd \in Commands : op' = [Idle EXCEPT !.pc = "begin", !.cmd = cmd]
    /\ UNCHANGED <<root, daemon, agent, run, backlog, windows, faults>>

cmd_create ==
    /\ op.pc = "begin" /\ op.cmd = "create"
    /\ dir' = TRUE
    /\ op' = Idle
    /\ UNCHANGED <<Others, desired, pidfile, run, backlog, windows>>

\* (mutated) start relies on agentd for a runtime that is already there
cmd_start_unchecked ==
    /\ op.pc = "begin" /\ op.cmd = "start"
    /\ op' = IF dir THEN [op EXCEPT !.pc = "want", !.pid = pidfile] ELSE Idle
    /\ UNCHANGED <<Others, agent, run, backlog, windows>>

\* start, up to the settings: a runtime that is there is left alone.
cmd_start ==
    /\ op.pc = "begin" /\ op.cmd = "start"
    /\ op' = IF dir /\ ~run_alive(pidfile)
             THEN [op EXCEPT !.pc = "want", !.pid = pidfile] ELSE Idle
    /\ UNCHANGED <<Others, agent, run, backlog, windows>>

start_setting ==
    /\ op.pc = "want"
    /\ desired' = "running"
    /\ Op("ask")
    /\ UNCHANGED <<Others, dir, pidfile, run, backlog, windows>>

\* stop writes desired_state, then looks for the process.
cmd_stop ==
    /\ op.pc = "begin" /\ op.cmd = "stop"
    /\ IF dir THEN desired' = "stopped" /\ Op("look") ELSE op' = Idle /\ UNCHANGED desired
    /\ UNCHANGED <<Others, dir, pidfile, run, backlog, windows>>

stop_look ==
    /\ op.pc = "look"
    /\ op' = IF run_alive(pidfile) THEN [op EXCEPT !.pc = "ask", !.pid = pidfile]
                                   ELSE [op EXCEPT !.pc = "remove"]
    /\ UNCHANGED <<Others, agent, run, backlog, windows>>

\* agentd_is_alive, and without an agentd the direct mode: start forks, stop
\* sends SIGTERM itself.
Ask ==
    /\ op.pc = "ask" \/ (op.pc = "begin" /\ op.cmd = "shutdown")
    /\ \/ /\ agentd_is_alive \/ op.cmd = "shutdown"
          /\ IF Listening
             THEN /\ backlog' = Append(backlog, [cmd |-> op.cmd, id |-> commands])
                  /\ Op("sent")
             ELSE op' = Idle /\ UNCHANGED backlog
          /\ UNCHANGED run
       \/ /\ ~agentd_is_alive /\ op.cmd = "start"
          /\ Op("fork")
          /\ UNCHANGED <<run, backlog>>
       \/ /\ ~agentd_is_alive /\ op.cmd = "stop"
          /\ Term(op.pid)
          /\ op' = [op EXCEPT !.pc = "gone", !.direct = TRUE]
          /\ UNCHANGED backlog
    /\ UNCHANGED <<Others, agent, windows>>

\* (mutated) agentctl waits for the answer of an agentd that stays
NoAnswer_waits ==
    /\ op.pc = "sent"
    /\ ~Listening
    /\ op' = Idle
    /\ UNCHANGED <<Others, agent, run, backlog, windows>>

\* The connection ends or SO_RCVTIMEO runs out; agentd still serves the request.
NoAnswer ==
    /\ op.pc = "sent"
    /\ op' = Idle
    /\ windows' = IF Listening THEN windows \cup {"late request"} ELSE windows
    /\ UNCHANGED <<Others, agent, run, backlog>>

\* An agentd may have started, and even have come and gone, since start looked at
\* the pid file.
start_fork ==
    /\ op.pc = "fork"
    /\ \/ \E p \in Pids : Fork(p, None) /\ op' = [op EXCEPT !.pc = "record", !.pid = p]
       \/ NoProcess /\ op' = Idle /\ UNCHANGED run
    /\ windows' = IF lock = None /\ pidfile = op.pid THEN windows
                  ELSE windows \cup {"direct start beside an agentd"}
    /\ UNCHANGED <<Others, agent, backlog>>

start_record ==
    /\ op.pc = "record"
    /\ Record(op.pid)
    /\ op' = Idle
    /\ UNCHANGED <<Others, dir, desired, run, backlog>>

\* (mutated) the process is not waited for
stop_gone_unwaited ==
    /\ op.pc = "gone"
    /\ Op("remove")
    /\ UNCHANGED <<Others, agent, run, backlog, windows>>

\* wait_pid_gone, which an agentd that is there now spares stop: it has stopped
\* the agent, or came up after the direct mode was chosen.
stop_gone ==
    /\ op.pc = "gone"
    /\ \/ agentd_is_alive /\ Op("remove")
          /\ windows' = IF op.direct THEN windows \cup {"unwaited stop"} ELSE windows
       \/ ~agentd_is_alive /\ ~run_alive(op.pid) /\ Op("remove") /\ UNCHANGED windows
       \/ ~agentd_is_alive /\ run_alive(op.pid) /\ op' = Idle /\ UNCHANGED windows
    /\ UNCHANGED <<Others, agent, run, backlog>>

\* kill leaves desired_state alone and does not insist on the end.
cmd_kill ==
    /\ op.pc = "begin" /\ op.cmd = "kill"
    /\ IF dir
       THEN /\ IF run_alive(pidfile) THEN Kill(pidfile) ELSE UNCHANGED run
            /\ Op("remove")
       ELSE op' = Idle /\ UNCHANGED run
    /\ UNCHANGED <<Others, agent, backlog, windows>>

Left == IF \E p \in Pids : Live(p) THEN {"removed over a runtime"} ELSE {}

\* remove_tree: the files, then the directories, which fails where something was
\* written meanwhile. stop tries three times.
remove_tree ==
    /\ op.pc = "remove"
    /\ desired' = "none" /\ pidfile' = None
    /\ windows' = windows \cup Left
    /\ Op("rmdir")
    /\ UNCHANGED <<Others, dir, run, backlog>>

remove_rmdir ==
    /\ op.pc = "rmdir"
    /\ IF desired = "none" /\ pidfile = None
       THEN /\ dir' = FALSE
            /\ op' = Idle
            /\ windows' = windows \cup Left
       ELSE /\ op' = IF op.cmd = "stop" /\ op.tries < 2
                     THEN [op EXCEPT !.pc = "remove", !.tries = op.tries + 1] ELSE Idle
            /\ UNCHANGED <<dir, windows>>
    /\ UNCHANGED <<Others, desired, pidfile, run, backlog>>

-----------------------------------------------------------------------------
Init ==
    /\ lock = None /\ sock = None /\ dpid = None
    /\ daemon = [d \in Daemons |-> Off]
    /\ dir = TRUE /\ desired = "none" /\ pidfile = None
    /\ run = [p \in Pids |-> [pc |-> "off", term |-> FALSE, by |-> None]]
    /\ op = Idle
    /\ backlog = <<>>
    /\ windows = {}
    /\ commands = 0 /\ faults = 0

\* Once it is started an agentd goes on.
Agentd(d) ==
    \/ bind_control_socket(d) \/ write_pid_file(d) \/ recover_cb(d) \/ recover_wanted(d)
    \/ reap_zombies(d) \/ external_exit(d) \/ reconcile_cb(d)
    \/ spawn_agent(d) \/ spawn_record(d) \/ stop_agent(d) \/ stop_done(d) \/ stop_timeout(d)
    \/ handle_command(d) \/ Reply(d)
    \/ close_control_socket(d) \/ unlink_control_socket(d) \/ unlink_pid_file(d) \/ Exit(d)

Agentctl ==
    \/ cmd_create \/ cmd_start \/ start_setting \/ cmd_stop \/ stop_look \/ Ask \/ NoAnswer
    \/ start_fork \/ start_record \/ stop_gone \/ cmd_kill \/ remove_tree \/ remove_rmdir

Next ==
    \/ \E d \in Daemons : agentctl_root_lock(d) \/ Agentd(d) \/ Die(d)
    \/ \E p \in Pids : Test(p) \/ Sleep(p) \/ Wake(p) \/ Crash(p)
    \/ Begin \/ Agentctl

\* Processes run. No runtime need get a message, no agentd need be started.
Spec == /\ Init /\ [][Next]_vars
        /\ WF_vars(Agentctl)
        /\ \A d \in Daemons : WF_vars(Agentd(d))
        /\ \A p \in Pids : WF_vars(Test(p) \/ Sleep(p))

-----------------------------------------------------------------------------
(* Properties *)

\* docs/design-invariants.md: "A second agentd under the same data root MUST ...
\* refuse to start", and successors come after exits and crashes: from its pid
\* file on to the end of its loop, the socket and the pid in the root are those of
\* the agentd that holds the lock, whatever its predecessors left or unlink late.
Serving(d) == daemon[d].pc \notin {"off", "bind", "rebind", "pidfile", "unlink", "unlink_pid",
                                   "exit"}
Reachable == \A d \in Daemons : Serving(d) => lock = d /\ sock = d /\ dpid = d

\* The agent has one runtime at most, with and without agentd, whatever agentctl is
\* asked to do, unless agentd was started while a direct start went on, a fork could
\* not be recorded, or the directory was removed while a runtime was live.
Recorded == windows \subseteq {"unwaited stop", "late request"}
OneRuntime == Recorded => \A p, q \in Pids : Live(p) /\ Live(q) => p = q

\* "A synchronous stop makes agentd finish signaling and clear its runtime/broker
\* state before we remove the directory" (agentctl.c), and so does the wait of the
\* direct mode: where stop found a runtime it removes the directory of an agent
\* that has none, unless agentd came up between the direct signal and the wait, or a
\* start that agentctl had given up on was served after all.
StopLeavesNothing ==
    [][/\ op.pc = "remove" /\ op.cmd = "stop" /\ op.pid # None /\ windows = {}
       /\ pidfile' # pidfile
       => \A p \in Pids : ~Live(p)]_vars

\* Every command ends, though a SIGTERM may get lost between a runtime's test of
\* shutdown_flag and its poll(), and agentd may crash before it answers.
CommandsEnd == []<>(op.pc = "idle")

-----------------------------------------------------------------------------
(* What the properties rest on, as an invariant that every step preserves by itself *)

\* One agentd at most is not "off", and it has the lock; how far it came tells what
\* the socket and the pid file in the root name, and only a socket somebody listens on
\* holds requests.
RootInv ==
    /\ \A d \in Daemons :
          /\ daemon[d].pc # "off" <=> lock = d
          /\ daemon[d].pc = "bind" => sock # d
          /\ daemon[d].pc \in {"rebind", "unlink_pid", "exit"} => sock = None
          /\ daemon[d].pc \in {"pidfile", "unlink"} \/ Serving(d) => sock = d
          /\ daemon[d].pc \in {"unlink", "unlink_pid"} \/ Serving(d) => dpid = d
    /\ ~Listening => backlog = <<>>

Used(p) == p \in Pids /\ run[p].pc # "off"

\* A process id is written down once the process is there.
DaemonPids(d) == /\ daemon[d].slot # None => Used(daemon[d].slot)
                 /\ daemon[d].pc = "record" => Used(daemon[d].child)

OpInv ==
    /\ op.pid # None => Used(op.pid)
    /\ op.pc = "record" => Used(op.pid) /\ run[op.pid].by = None
    /\ op.pc \in {"begin", "look"} => op.pid = None
    /\ op.pc = "want" => op.cmd = "start" /\ dir
    /\ op.pc \in {"want", "ask", "fork"} /\ op.cmd = "start" => ~run_alive(op.pid)
    /\ op.pc \in {"ask", "sent", "gone"} /\ op.cmd = "stop" => op.pid # None
    /\ op.pc = "ask" => op.cmd \in {"start", "stop"}
    /\ op.pc = "look" => op.cmd = "stop"
    /\ op.pc = "fork" => op.cmd = "start"
    /\ op.pc # "idle" => commands > 0

PidInv == OpInv /\ (pidfile # None => Used(pidfile)) /\ \A d \in Daemons : DaemonPids(d)

\* Who knows of a runtime: whoever has forked one and not yet recorded it knows the
\* only one; otherwise the pid file names it, and so does the slot of an agentd that
\* has recovered. An agentd that is about to fork knows of none.
KnownTo(d, p) ==
    /\ daemon[d].pc = "record" => p = daemon[d].child
    /\ op.pc # "record" =>
          /\ daemon[d].pc \notin {"wanted", "fork"}
          /\ daemon[d].pc \in {"loop", "stop", "stopping", "reply"} => daemon[d].slot = p

Known(p) ==
    /\ op.pc = "record" => p = op.pid
    /\ op.pc # "record" => pidfile = p \/ \E d \in Daemons : daemon[d].pc = "record"
    /\ \A d \in Daemons : KnownTo(d, p)

RunInv == Recorded => /\ \A d \in Daemons : daemon[d].pc = "record" => op.pc # "record"
                      /\ \A p \in Pids : Live(p) => Known(p)

\* Where no window was hit at all, agentd works for the agentctl that runs or for
\* nobody,
RequestInv ==
    backlog # <<>> =>
        op.pc = "sent" /\ backlog = <<Head(backlog)>> /\ Head(backlog).cmd = op.cmd

WorksFor(d) ==
    /\ daemon[d].pc = "reply" => daemon[d].then = "reply"
    /\ daemon[d].then = "reply" =>
          /\ backlog = <<>> /\ op.pc = "sent"
          /\ daemon[d].pc \in {"fork", "record", "stop", "stopping", "reply"}
          /\ daemon[d].pc \in {"stop", "stopping"} => op.cmd = "stop"
          /\ daemon[d].pc = "reply" /\ op.cmd = "stop" => daemon[d].slot = None

\* knows what the pid file names, unless it has just killed it for stop,
Remembers(d) ==
    /\ daemon[d].pc \in {"wanted", "fork", "record"} => ~run_alive(pidfile)
    /\ daemon[d].pc \in {"loop", "stop", "stopping", "reply"} /\ run_alive(pidfile) =>
          \/ daemon[d].slot = pidfile
          \/ op.cmd = "stop" /\ op.pc \in {"sent", "gone", "remove"}

\* and restarts nothing while stop goes on, from desired_state to the directory.
StopGoesOn == op.cmd = "stop" /\ op.pc \in {"look", "ask", "sent", "gone", "remove", "rmdir"}

Stops ==
    StopGoesOn =>
        /\ dir /\ desired # "running"
        /\ op.pid # None =>
              /\ \A d \in Daemons : daemon[d].pc \notin {"fork", "record"}
              /\ \A p \in Pids : Live(p) =>
                    p = op.pid /\ op.pc \notin {"remove", "rmdir"} /\ (op.pc = "gone" => op.direct)

StopInv == windows = {} => /\ RequestInv /\ Stops
                           /\ \A d \in Daemons : WorksFor(d) /\ Remembers(d)

ControlInv == TypeOK /\ RootInv /\ PidInv /\ RunInv /\ StopInv
=============================================================================
