--------------------------- MODULE ControlProofs ----------------------------
(***************************************************************************)
(* For every number of agentd and runtime processes, of commands and of    *)
(* crashes: the steps of agentd, of the runtimes and of agentctl preserve  *)
(* ControlInv, and what follows from it.                                   *)
(***************************************************************************)
EXTENDS Control, TLAPS

USE Zenon, ControlAssumption DEF ControlAssumption

(***************************************************************************)
(* What a step does to the record it changes, field by field.              *)
(***************************************************************************)
DaemonTo(d, pc, slot, child, then) ==
    /\ daemon' \in [Daemons -> Daemon]
    /\ \A e \in Daemons \ {d} : daemon'[e] = daemon[e]
    /\ daemon'[d].pc = pc /\ daemon'[d].slot = slot /\ daemon'[d].child = child
    /\ daemon'[d].then = then

OpTo(pc, cmd, pid, direct) ==
    /\ op' \in Operator
    /\ op'.pc = pc /\ op'.cmd = cmd /\ op'.pid = pid /\ op'.direct = direct

\* No process comes, and those that are there can only get closer to their end.
Fewer ==
    /\ run' \in [Pids -> Runtime]
    /\ \A p \in Pids :
          /\ Live(p)' => Live(p)
          /\ run_alive(p)' => run_alive(p)
          /\ run'[p].pc = "off" <=> run[p].pc = "off"
          /\ run[p].by = None => run'[p].by = None

\* The types of an agentd's fields.
LEMMA DaemonType ==
    ASSUME NEW r \in Daemon
    PROVE  /\ r.pc \in DaemonPc /\ r.slot \in Pids \cup {None} /\ r.child \in Pids \cup {None}
           /\ r.then \in {"loop", "reply"} /\ r.to \in 0 .. MaxCommands /\ r.term \in BOOLEAN
BY DEF Daemon

\* An agentd that does not run knows of nothing.
LEMMA OffType == Off \in Daemon /\ Off.pc = "off" /\ Off.slot = None /\ Off.child = None
                 /\ Off.then = "loop"
BY SMT DEF Off, Daemon, DaemonPc

\* A change of place changes nothing else.
LEMMA SetField ==
    ASSUME NEW r \in Daemon, NEW pc \in DaemonPc
    PROVE  LET s == [r EXCEPT !.pc = pc] IN
           s \in Daemon /\ s.pc = pc /\ s.slot = r.slot /\ s.child = r.child /\ s.then = r.then
BY DEF Daemon

\* Places of a serving agentd.
LEMMA DaemonPcs == {"loop", "fork", "record", "stop", "stopping", "reply"} \subseteq DaemonPc
BY DEF DaemonPc

\* A change of the slot changes nothing else.
LEMMA SlotField ==
    ASSUME NEW r \in Daemon, NEW p \in Pids \cup {None}
    PROVE  LET s == [r EXCEPT !.slot = p] IN
           s \in Daemon /\ s.pc = r.pc /\ s.slot = p /\ s.child = r.child /\ s.then = r.then
BY DEF Daemon

\* An agentd's record that is replaced has the fields of the new one.
LEMMA Put ==
    ASSUME TypeOK, NEW d \in Daemons, NEW r \in Daemon, daemon' = [daemon EXCEPT ![d] = r]
    PROVE  DaemonTo(d, r.pc, r.slot, r.child, r.then)
BY DEF TypeOK, DaemonTo

\* Set changes an agentd's place only.
LEMMA SetTo ==
    ASSUME TypeOK, NEW d \in Daemons, NEW pc \in DaemonPc, Set(d, pc)
    PROVE  DaemonTo(d, pc, daemon[d].slot, daemon[d].child, daemon[d].then)
<1>1. daemon[d] \in Daemon BY DEF TypeOK
<1> DEFINE r == [daemon[d] EXCEPT !.pc = pc]
<1>2. daemon' = [daemon EXCEPT ![d] = r] BY DEF Set
<1>3. r \in Daemon /\ r.pc = pc /\ r.slot = daemon[d].slot /\ r.child = daemon[d].child
      /\ r.then = daemon[d].then
  BY <1>1, SetField
<1> HIDE DEF r
<1> QED BY <1>2, <1>3, Put

\* A step that changes an agentd's slot only.
LEMMA SlotTo ==
    ASSUME TypeOK, NEW d \in Daemons, NEW p \in Pids \cup {None},
           daemon' = [daemon EXCEPT ![d].slot = p]
    PROVE  DaemonTo(d, daemon[d].pc, p, daemon[d].child, daemon[d].then)
<1> DEFINE r == [daemon[d] EXCEPT !.slot = p]
<1>1. daemon[d] \in Daemon BY DEF TypeOK
<1>2. daemon' = [daemon EXCEPT ![d] = r] OBVIOUS
<1>3. r \in Daemon /\ r.pc = daemon[d].pc /\ r.slot = p /\ r.child = daemon[d].child
      /\ r.then = daemon[d].then
  BY <1>1, SlotField
<1> HIDE DEF r
<1> QED BY <1>2, <1>3, Put

\* agentd goes back to what it was doing before a spawn or a stop.
LEMMA BackTo ==
    ASSUME TypeOK, NEW d \in Daemons, NEW p \in Pids \cup {None},
           daemon' = [daemon EXCEPT ![d] = Back(d, p)]
    PROVE  DaemonTo(d, daemon[d].then, p, None, daemon[d].then)
<1>1. daemon[d] \in Daemon BY DEF TypeOK
<1>2. LET s == Back(d, p) IN
      s \in Daemon /\ s.pc = daemon[d].then /\ s.slot = p /\ s.child = None
      /\ s.then = daemon[d].then
  BY <1>1 DEF Back, Daemon, DaemonPc
<1> QED BY <1>2, Put

-----------------------------------------------------------------------------
(* Processes *)

\* A runtime that ends is a zombie or gone.
LEMMA EndedType ==
    ASSUME NEW r \in Runtime
    PROVE  Ended(r) \in Runtime /\ Ended(r).pc \in {"zombie", "dead"} /\ Ended(r).by = r.by
BY DEF Ended, Runtime

\* A runtime that got a SIGTERM is still live.
LEMMA TermedType ==
    ASSUME NEW r \in Runtime, r.pc \in {"test", "tested", "poll"}
    PROVE  Termed(r) \in Runtime /\ Termed(r).pc \in {"test", "tested"} /\ Termed(r).by = r.by
BY DEF Termed, Runtime

\* A runtime that moves on in its loop.
LEMMA TestedType ==
    ASSUME NEW r \in Runtime, NEW pc \in {"test", "tested", "poll", "dead"}
    PROVE  LET s == [r EXCEPT !.pc = pc] IN s \in Runtime /\ s.pc = pc /\ s.by = r.by
BY DEF Runtime

\* One process gets closer to its end.
LEMMA OneFewer ==
    ASSUME TypeOK, NEW p \in Pids, NEW r \in Runtime, run' = [run EXCEPT ![p] = r],
           r.by = run[p].by, r.pc # "off", run[p].pc # "off",
           Live(p) \/ r.pc \notin {"test", "tested", "poll"},
           run[p].pc = "dead" => r.pc = "dead"
    PROVE  Fewer
BY SMT DEF TypeOK, Fewer, Live, run_alive, Runtime

\* No runtime changes.
LEMMA SameFewer == TypeOK /\ UNCHANGED run => Fewer
BY DEF TypeOK, Fewer, Live, run_alive

\* SIGTERM makes no runtime live.
LEMMA TermFewer ==
    ASSUME TypeOK, NEW p \in Pids \cup {None}, Term(p)
    PROVE  Fewer
<1>1. CASE p = None \/ ~Live(p)
  <2>1. run' = run BY <1>1 DEF Term, TypeOK
  <2> QED BY <2>1, SameFewer
<1>2. CASE p \in Pids /\ Live(p)
  <2>1. run[p] \in Runtime BY <1>2 DEF TypeOK
  <2>2. run' = [run EXCEPT ![p] = Termed(run[p])] BY <1>2 DEF Term
  <2> QED BY <1>2, <2>1, <2>2, TermedType, OneFewer DEF Live
<1> QED BY <1>1, <1>2

\* SIGKILL makes none live and ends its target.
LEMMA KillFewer ==
    ASSUME TypeOK, NEW p \in Pids \cup {None}, Kill(p)
    PROVE  Fewer /\ (p # None => ~Live(p)')
<1>1. CASE p = None \/ ~Live(p)
  <2>1. run' = run BY <1>1 DEF Kill, TypeOK
  <2> QED BY <1>1, <2>1, SameFewer DEF Live
<1>2. CASE p \in Pids /\ Live(p)
  <2>1. run[p] \in Runtime BY <1>2 DEF TypeOK
  <2>2. run' = [run EXCEPT ![p] = Ended(run[p])] BY <1>2 DEF Kill
  <2>3. Fewer BY <1>2, <2>1, <2>2, EndedType, OneFewer DEF Live
  <2>4. ~Live(p)' BY <1>2, <2>1, <2>2, EndedType DEF Live, TypeOK
  <2> QED BY <2>3, <2>4
<1> QED BY <1>1, <1>2

\* The end of an agentd makes none live.
LEMMA OrphanedFewer ==
    ASSUME TypeOK, NEW d \in Daemons, run' = Orphaned(d)
    PROVE  Fewer
<1> SUFFICES ASSUME NEW p \in Pids
             PROVE  /\ run'[p] \in Runtime
                    /\ Live(p)' => Live(p)
                    /\ run_alive(p)' => run_alive(p)
                    /\ run'[p].pc = "off" <=> run[p].pc = "off"
                    /\ run[p].by = None => run'[p].by = None
  BY DEF Fewer, Orphaned
<1>1. run[p] \in Runtime BY DEF TypeOK
<1>2. CASE run[p].by = d
  <2> DEFINE r == [run[p] EXCEPT !.by = None, !.pc = IF run[p].pc = "zombie" THEN "dead" ELSE run[p].pc]
  <2>1. r \in Runtime /\ r.by = None /\ r.pc = IF run[p].pc = "zombie" THEN "dead" ELSE run[p].pc
    BY <1>1 DEF Runtime
  <2>2. run'[p] = r BY <1>2 DEF Orphaned
  <2> HIDE DEF r
  <2> QED BY <2>1, <2>2 DEF Live, run_alive
<1>3. CASE run[p].by # d
  <2>1. run'[p] = run[p] BY <1>3 DEF Orphaned
  <2> QED BY <1>1, <2>1 DEF Live, run_alive
<1> QED BY <1>2, <1>3

-----------------------------------------------------------------------------
(* agentd outside its loop *)

\* What agentctl knows stays true while runtimes only end.
LEMMA OpStays ==
    ASSUME OpInv, Fewer, UNCHANGED <<op, dir, commands>>
    PROVE  OpInv'
BY DEF OpInv, Used, Fewer, run_alive

\* A runtime the pid file names did not come to life.
LEMMA FileStays ==
    ASSUME PidInv, Fewer, pidfile' = pidfile, run_alive(pidfile)'
    PROVE  run_alive(pidfile)
BY DEF PidInv, Used, Fewer, run_alive

Outside == {"off", "bind", "rebind", "pidfile", "recover", "unlink", "unlink_pid", "exit"}

\* An agentd that does not serve, or no longer, promises nothing about runtimes.
LEMMA OutsideKeeps ==
    ASSUME ControlInv, Fewer, NEW d \in Daemons, NEW pc \in Outside, NEW s, NEW c, NEW t,
           DaemonTo(d, pc, s, c, t), s \in {None, daemon[d].slot},
           t = "loop" \/ (t = daemon[d].then /\ daemon[d].pc \in Outside \cup {"loop"}),
           UNCHANGED <<agent, op, commands>>, backlog' \in {backlog, <<>>},
           windows' = {} => windows = {}, Recorded' => Recorded /\ daemon[d].pc # "record"
    PROVE  PidInv' /\ RunInv' /\ StopInv'
<1>1. PidInv'
  <2>1. \A e \in Daemons : DaemonPids(e)'
    BY SMT DEF ControlInv, PidInv, DaemonPids, Used, Fewer, DaemonTo, Outside
  <2> QED BY <2>1, OpStays DEF ControlInv, PidInv, Used, Fewer, agent
<1>2. RunInv'
  <2> SUFFICES ASSUME Recorded', NEW p \in Pids, Live(p)' PROVE Known(p)'
    BY DEF ControlInv, RunInv, DaemonTo, Outside
  <2>1. Known(p) BY DEF ControlInv, RunInv, Fewer
  <2>2. \A e \in Daemons : KnownTo(e, p)'
    BY <2>1, SMT DEF Known, KnownTo, DaemonTo, Outside
  <2> QED BY <2>1, <2>2 DEF Known, DaemonTo, agent
<1>3. StopInv'
  <2> SUFFICES ASSUME windows' = {}
               PROVE  RequestInv' /\ Stops' /\ \A e \in Daemons : WorksFor(e)' /\ Remembers(e)'
    BY DEF StopInv
  <2>1. RequestInv /\ Stops /\ \A e \in Daemons : WorksFor(e) /\ Remembers(e)
    BY DEF ControlInv, StopInv
  <2>2. RequestInv' BY <2>1 DEF RequestInv
  <2>3. Stops' BY <2>1 DEF Stops, StopGoesOn, Fewer, DaemonTo, Outside, agent
  <2>4. \A e \in Daemons : WorksFor(e)' BY <2>1, SMT DEF WorksFor, DaemonTo, Outside
  <2>5. \A e \in Daemons : Remembers(e)'
    BY <2>1, FileStays DEF ControlInv, Remembers, DaemonTo, Outside, agent
  <2> QED BY <2>2, <2>3, <2>4, <2>5
<1> QED BY <1>1, <1>2, <1>3

\* No window is hit by a step that hits none.
LEMMA SameWindows == UNCHANGED windows => (windows' = {} => windows = {}) /\ (Recorded' => Recorded)
BY DEF Recorded

\* An agentd takes the lock of the root.
LEMMA LockKeeps ==
    ASSUME ControlInv, NEW d \in Daemons, agentctl_root_lock(d)
    PROVE  ControlInv'
<1>1. DaemonTo(d, "bind", daemon[d].slot, daemon[d].child, daemon[d].then)
  BY SetTo DEF agentctl_root_lock, ControlInv, DaemonPc
<1>2. daemon[d].pc = "off" /\ d \notin {sock, dpid} BY DEF agentctl_root_lock, New
<1>3. TypeOK' BY <1>1 DEF agentctl_root_lock, ControlInv, TypeOK, DaemonTo, agent
<1>4. RootInv'
  BY <1>1, <1>2, SMT DEF agentctl_root_lock, ControlInv, TypeOK, RootInv, Serving, Listening, DaemonTo
<1> QED
  BY <1>1, <1>2, <1>3, <1>4, OutsideKeeps, SameFewer, SameWindows
  DEF agentctl_root_lock, ControlInv, Outside

\* It replaces a stale socket, which is not its own.
LEMMA BindKeeps ==
    ASSUME ControlInv, NEW d \in Daemons, bind_control_socket(d)
    PROVE  ControlInv'
<1>1. CASE sock = None
  <2>1. DaemonTo(d, "pidfile", daemon[d].slot, daemon[d].child, daemon[d].then)
    BY <1>1, SetTo DEF bind_control_socket, ControlInv, DaemonPc
  <2>2. TypeOK' BY <1>1, <2>1, SMT DEF bind_control_socket, ControlInv, TypeOK, DaemonTo, agent
  <2>3. RootInv'
    BY <1>1, <2>1, SMT DEF bind_control_socket, ControlInv, TypeOK, RootInv, Serving, Listening, DaemonTo
  <2> QED
    BY <1>1, <2>1, <2>2, <2>3, OutsideKeeps, SameFewer, SameWindows
    DEF bind_control_socket, ControlInv, Outside
<1>2. CASE sock # None
  <2>1. DaemonTo(d, "rebind", daemon[d].slot, daemon[d].child, daemon[d].then)
    BY <1>2, SetTo DEF bind_control_socket, ControlInv, DaemonPc
  <2>2. TypeOK' BY <1>2, <2>1 DEF bind_control_socket, ControlInv, TypeOK, DaemonTo, agent
  <2>3. RootInv'
    BY <1>2, <2>1 DEF bind_control_socket, ControlInv, TypeOK, RootInv, Serving, Listening, DaemonTo
  <2> QED
    BY <1>2, <2>1, <2>2, <2>3, OutsideKeeps, SameFewer, SameWindows
    DEF bind_control_socket, ControlInv, Outside
<1> QED BY <1>1, <1>2

\* It writes its pid.
LEMMA WritePidKeeps ==
    ASSUME ControlInv, NEW d \in Daemons, write_pid_file(d)
    PROVE  ControlInv'
<1>1. DaemonTo(d, "recover", daemon[d].slot, daemon[d].child, daemon[d].then)
  BY SetTo DEF write_pid_file, ControlInv, DaemonPc
<1>2. TypeOK' BY <1>1 DEF write_pid_file, ControlInv, TypeOK, DaemonTo, agent
<1>3. RootInv'
  BY <1>1, SMT DEF write_pid_file, ControlInv, TypeOK, RootInv, Serving, Listening, DaemonTo
<1> QED
  BY <1>1, <1>2, <1>3, OutsideKeeps, SameFewer, SameWindows DEF write_pid_file, ControlInv, Outside

\* It stops listening: what the socket held is lost.
LEMMA CloseKeeps ==
    ASSUME ControlInv, NEW d \in Daemons, close_control_socket(d)
    PROVE  ControlInv'
<1>1. DaemonTo(d, "unlink", daemon[d].slot, daemon[d].child, daemon[d].then)
  BY SetTo DEF close_control_socket, ControlInv, DaemonPc
<1>2. TypeOK' BY <1>1, SMT DEF close_control_socket, ControlInv, TypeOK, DaemonTo, agent, root
<1>3. RootInv'
  BY <1>1, SMT DEF close_control_socket, ControlInv, TypeOK, RootInv, Serving, Listening, DaemonTo, root
<1> QED
  BY <1>1, <1>2, <1>3, OutsideKeeps, SameFewer, SameWindows
  DEF close_control_socket, ControlInv, Outside

\* It unlinks its own socket: nobody else had the lock.
LEMMA UnlinkKeeps ==
    ASSUME ControlInv, NEW d \in Daemons, unlink_control_socket(d)
    PROVE  ControlInv'
<1>1. DaemonTo(d, "unlink_pid", daemon[d].slot, daemon[d].child, daemon[d].then)
  BY SetTo DEF unlink_control_socket, ControlInv, DaemonPc
<1>2. TypeOK' BY <1>1 DEF unlink_control_socket, ControlInv, TypeOK, DaemonTo, agent
<1>3. RootInv'
  BY <1>1 DEF unlink_control_socket, ControlInv, TypeOK, RootInv, Serving, Listening, DaemonTo
<1> QED
  BY <1>1, <1>2, <1>3, OutsideKeeps, SameFewer, SameWindows
  DEF unlink_control_socket, ControlInv, Outside

\* It unlinks its own pid file.
LEMMA UnlinkPidKeeps ==
    ASSUME ControlInv, NEW d \in Daemons, unlink_pid_file(d)
    PROVE  ControlInv'
<1>1. DaemonTo(d, "exit", daemon[d].slot, daemon[d].child, daemon[d].then)
  BY SetTo DEF unlink_pid_file, ControlInv, DaemonPc
<1>2. TypeOK' BY <1>1 DEF unlink_pid_file, ControlInv, TypeOK, DaemonTo, agent
<1>3. RootInv'
  BY <1>1, SMT DEF unlink_pid_file, ControlInv, TypeOK, RootInv, Serving, Listening, DaemonTo
<1> QED
  BY <1>1, <1>2, <1>3, OutsideKeeps, SameFewer, SameWindows
  DEF unlink_pid_file, ControlInv, Outside

\* It exits and gives the lock back.
LEMMA ExitKeeps ==
    ASSUME ControlInv, NEW d \in Daemons, Exit(d)
    PROVE  ControlInv'
<1>1. DaemonTo(d, "off", None, None, "loop")
  BY Put, OffType DEF Exit, ControlInv
<1>2. Fewer BY OrphanedFewer DEF Exit, ControlInv
<1>3. TypeOK' BY <1>1, <1>2 DEF Exit, ControlInv, TypeOK, DaemonTo, Fewer, agent
<1>4. RootInv'
  BY <1>1, SMT DEF Exit, ControlInv, TypeOK, RootInv, Serving, Listening, DaemonTo
<1> QED
  BY <1>1, <1>2, <1>3, <1>4, OutsideKeeps, SameWindows DEF Exit, ControlInv, Outside

\* An agentd is killed anywhere: lock and backlog go, the files stay.
LEMMA DieKeeps ==
    ASSUME ControlInv, NEW d \in Daemons, Die(d)
    PROVE  ControlInv'
<1>1. DaemonTo(d, "off", None, None, "loop")
  BY Put, OffType DEF Die, ControlInv
<1>2. Fewer BY OrphanedFewer DEF Die, ControlInv
<1>3. lock = d /\ lock' = None BY DEF Die, ControlInv, RootInv
<1>4. /\ windows' \subseteq Windows /\ (windows' = {} => windows = {})
      /\ Recorded' => Recorded /\ daemon[d].pc # "record"
  BY DEF Die, ControlInv, TypeOK, Windows, Recorded
<1>5. backlog' \in {backlog, <<>>} BY DEF Die
<1>6. faults' \in 0 .. MaxFaults BY SMT DEF Die, ControlInv, TypeOK
<1>7. TypeOK'
  BY <1>1, <1>2, <1>3, <1>4, <1>5, <1>6, SMT DEF Die, ControlInv, TypeOK, DaemonTo, Fewer, agent
<1>8. RootInv'
  BY <1>1, <1>3, SMT DEF Die, ControlInv, TypeOK, RootInv, Serving, Listening, DaemonTo
<1> QED
  BY <1>1, <1>2, <1>4, <1>5, <1>7, <1>8, OutsideKeeps DEF Die, ControlInv, Outside

-----------------------------------------------------------------------------
(* agentd in its loop *)

Served == {"recover", "wanted", "loop", "fork", "record", "stop", "stopping", "reply"}
Knows == {"loop", "stop", "stopping", "reply"}

\* A serving agentd that goes on serving leaves the root as it is.
LEMMA RootStays ==
    ASSUME TypeOK, RootInv, NEW d \in Daemons, NEW pc \in Served, NEW s, NEW c, NEW t,
           DaemonTo(d, pc, s, c, t), daemon[d].pc \in Served, UNCHANGED root
    PROVE  RootInv'
BY SMT DEF TypeOK, RootInv, Serving, Listening, DaemonTo, Served, root

\* A step in the loop that forks and records nothing: the invariants but StopInv
\* follow from what agentd knows afterwards.
LEMMA LoopKeeps ==
    ASSUME ControlInv, Fewer, NEW d \in Daemons, NEW pc \in Served, NEW s, NEW c, NEW t,
           DaemonTo(d, pc, s, c, t), daemon[d].pc \in Served, daemon[d].pc # "record",
           pc # "record", s \in {None, daemon[d].slot, pidfile},
           UNCHANGED <<root, dir, pidfile, op, commands>>,
           Recorded' => Recorded,
           \A p \in Pids : Recorded' /\ Live(p)' /\ op.pc # "record" =>
              pc \notin {"wanted", "fork"} /\ (pc \in Knows => s = p)
    PROVE  RootInv' /\ PidInv' /\ RunInv'
<1>1. RootInv' BY RootStays DEF ControlInv
<1>2. PidInv'
  <2>1. s # None => Used(s)' BY SMT DEF ControlInv, PidInv, DaemonPids, Used, Fewer
  <2>2. \A e \in Daemons : DaemonPids(e)'
    BY <2>1, SMT DEF ControlInv, PidInv, DaemonPids, Used, Fewer, DaemonTo
  <2> QED BY <2>2, OpStays DEF ControlInv, PidInv, Used, Fewer
<1>3. RunInv'
  <2> SUFFICES ASSUME Recorded', NEW p \in Pids, Live(p)' PROVE Known(p)'
    BY DEF ControlInv, RunInv, DaemonTo
  <2>1. Known(p) BY DEF ControlInv, RunInv, Fewer
  <2>2. \A e \in Daemons : KnownTo(e, p)'
    BY <2>1 DEF Known, KnownTo, DaemonTo, Knows
  <2> QED BY <2>1, <2>2 DEF Known, DaemonTo
<1> QED BY <1>1, <1>2, <1>3

\* And StopInv from what the step leaves of the request, of the slot and of
\* desired_state.
LEMMA LoopStops ==
    ASSUME ControlInv, Fewer, NEW d \in Daemons, NEW pc, NEW s, NEW c, NEW t,
           DaemonTo(d, pc, s, c, t), UNCHANGED <<dir, pidfile, op>>,
           windows' = {} => /\ windows = {}
                            /\ backlog' \in {backlog, <<>>}
                            /\ StopGoesOn => desired' # "running"
                            /\ StopGoesOn /\ op.pid # None => pc \notin {"fork", "record"}
                            /\ WorksFor(d)' /\ Remembers(d)'
    PROVE  StopInv'
<1> SUFFICES ASSUME windows' = {}
             PROVE  RequestInv' /\ Stops' /\ \A e \in Daemons : WorksFor(e)' /\ Remembers(e)'
  BY DEF StopInv
<1>1. RequestInv /\ Stops /\ \A e \in Daemons : WorksFor(e) /\ Remembers(e)
  BY DEF ControlInv, StopInv
<1>2. RequestInv' BY <1>1 DEF RequestInv
<1>3. Stops' BY <1>1 DEF Stops, StopGoesOn, Fewer, DaemonTo
<1>4. \A e \in Daemons \ {d} : WorksFor(e)' BY <1>1 DEF WorksFor, DaemonTo
<1>5. \A e \in Daemons \ {d} : Remembers(e)'
  BY <1>1, FileStays DEF ControlInv, Remembers, DaemonTo
<1> QED BY <1>2, <1>3, <1>4, <1>5

\* What agentd knows where no window was hit.
LEMMA StopFacts ==
    ASSUME ControlInv, windows = {}, NEW d \in Daemons
    PROVE  RequestInv /\ Stops /\ WorksFor(d) /\ Remembers(d)
BY DEF ControlInv, StopInv

\* agentd knows the one runtime there is.
LEMMA KnownFacts ==
    ASSUME ControlInv, NEW d \in Daemons, NEW p \in Pids, Recorded, Live(p)
    PROVE  KnownTo(d, p)
BY DEF ControlInv, RunInv, Known

\* recover_cb adopts what the pid file names.
LEMMA RecoverKeeps ==
    ASSUME ControlInv, NEW d \in Daemons, recover_cb(d)
    PROVE  ControlInv'
<1>1. daemon[d] \in Daemon /\ pidfile \in Pids \cup {None} /\ daemon[d].pc = "recover" /\ TypeOK
  BY DEF ControlInv, TypeOK, recover_cb
<1>2. \A p \in Pids : Recorded /\ Live(p) /\ op.pc # "record" => pidfile = p
  BY <1>1 DEF ControlInv, TypeOK, RunInv, Known, RootInv
<1>3. CASE run_alive(pidfile)
  <2> DEFINE q == [daemon[d] EXCEPT !.pc = "loop"]
             r == [q EXCEPT !.slot = pidfile]
  <2>1. daemon' = [daemon EXCEPT ![d] = r]
    BY <1>1, <1>3 DEF recover_cb, TypeOK
  <2>2. q \in Daemon /\ q.pc = "loop" /\ q.child = daemon[d].child /\ q.then = daemon[d].then
    BY <1>1, SetField, DaemonPcs
  <2> HIDE DEF q
  <2>3. r \in Daemon /\ r.pc = q.pc /\ r.slot = pidfile /\ r.child = q.child /\ r.then = q.then
    BY <1>1, <2>2, SlotField
  <2> HIDE DEF r
  <2>4. DaemonTo(d, "loop", pidfile, daemon[d].child, daemon[d].then)
    BY <1>1, <2>1, <2>2, <2>3, Put
  <2>5. TypeOK' BY <1>1, <1>3, <2>4 DEF recover_cb, TypeOK, DaemonTo, root
  <2>6. RootInv' /\ PidInv' /\ RunInv'
    BY <1>1, <1>2, <1>3, <2>4, LoopKeeps, SameFewer, SameWindows, SMT
    DEF recover_cb, ControlInv, Served, Live
  <2>7. windows = {} => WorksFor(d)' /\ Remembers(d)'
    BY <1>1, <1>3, <2>4, StopFacts DEF recover_cb, WorksFor, Remembers, DaemonTo
  <2>8. StopInv'
    BY <1>1, <1>3, <2>4, <2>7, StopFacts, LoopStops, SameFewer DEF recover_cb, Stops
  <2> QED BY <2>5, <2>6, <2>8 DEF ControlInv
<1>4. CASE ~run_alive(pidfile)
  <2>1. DaemonTo(d, "wanted", daemon[d].slot, daemon[d].child, daemon[d].then)
    BY <1>1, <1>4, SetTo DEF recover_cb, DaemonPc
  <2>2. TypeOK' BY <1>1, <1>4, <2>1 DEF recover_cb, TypeOK, DaemonTo, root
  <2>3. RootInv' BY <1>1, <1>4, <2>1, RootStays DEF recover_cb, ControlInv, Served
  <2>4. PidInv'
    BY <1>1, <1>4, <2>1, OpStays, SameFewer, SMT
    DEF recover_cb, ControlInv, PidInv, DaemonPids, Used, DaemonTo
  <2>5. \A p \in Pids : Recorded /\ Live(p) => op.pc = "record"
    BY <1>1, <1>2, <1>4 DEF run_alive
  <2>6. RunInv'
    <3> SUFFICES ASSUME Recorded', NEW p \in Pids, Live(p)' PROVE Known(p)'
      BY <1>4, <2>1, SameWindows DEF ControlInv, RunInv, DaemonTo, recover_cb
    <3>1. Known(p) /\ op.pc = "record" /\ op' = op
      BY <1>4, <2>5, SameWindows DEF recover_cb, ControlInv, RunInv, Live
    <3> QED BY <3>1, <2>1 DEF Known, KnownTo, DaemonTo
  <2>7. StopInv'
    <3> SUFFICES ASSUME windows = {}
                 PROVE  RequestInv' /\ Stops' /\ \A e \in Daemons : WorksFor(e)' /\ Remembers(e)'
      BY <1>4 DEF recover_cb, StopInv
    <3>1. pidfile' = None /\ ~run_alive(pidfile)' BY <1>4 DEF recover_cb, run_alive
    <3>2. RequestInv' /\ Stops'
      BY <1>4, <2>1, StopFacts DEF recover_cb, RequestInv, Stops, StopGoesOn, DaemonTo, Live
    <3>3. \A e \in Daemons : WorksFor(e)'
      BY <1>1, <1>4, <2>1, StopFacts DEF recover_cb, WorksFor, DaemonTo
    <3> QED BY <3>1, <3>2, <3>3 DEF Remembers
  <2> QED BY <2>2, <2>3, <2>4, <2>6, <2>7 DEF ControlInv
<1> QED BY <1>3, <1>4

\* recover_cb, second part: with no live runtime it may start one.
LEMMA WantedKeeps ==
    ASSUME ControlInv, NEW d \in Daemons, recover_wanted(d)
    PROVE  ControlInv'
<1> DEFINE pc == IF desired = "running" THEN "fork" ELSE "loop"
<1>1. /\ pc \in {"fork", "loop"} /\ pc \in DaemonPc /\ pc \in Served /\ daemon[d].pc = "wanted"
      /\ daemon[d].pc \in Served /\ TypeOK /\ (pc = "fork" => desired = "running")
  BY DEF DaemonPc, Served, recover_wanted, ControlInv
<1>2. DaemonTo(d, pc, daemon[d].slot, daemon[d].child, daemon[d].then)
  BY <1>1, SetTo DEF recover_wanted
<1> HIDE DEF pc
<1>3. TypeOK' BY <1>1, <1>2 DEF recover_wanted, TypeOK, DaemonTo, agent, root
<1>4. \A p \in Pids : Recorded /\ Live(p) => op.pc = "record"
  BY <1>1, KnownFacts DEF KnownTo
<1>5. RootInv' /\ PidInv' /\ RunInv'
  BY <1>1, <1>2, <1>4, LoopKeeps, SameFewer, SameWindows DEF recover_wanted, Live, agent
<1>6. windows = {} => WorksFor(d)' /\ Remembers(d)'
  BY <1>1, <1>2, StopFacts
  DEF recover_wanted, WorksFor, Remembers, DaemonTo, run_alive, Live, agent
<1>7. StopInv'
  BY <1>1, <1>2, <1>6, StopFacts, LoopStops, SameFewer DEF recover_wanted, Stops, agent
<1> QED BY <1>3, <1>5, <1>7 DEF ControlInv

\* A child that ended is reaped and its slot cleared.
LEMMA ReapKeeps ==
    ASSUME ControlInv, NEW d \in Daemons, reap_zombies(d)
    PROVE  ControlInv'
<1>1. PICK p \in Pids :
         /\ run[p].pc = "zombie"
         /\ run' = [run EXCEPT ![p].pc = "dead"]
         /\ daemon' = [daemon EXCEPT ![d].slot = IF daemon[d].slot = p THEN None ELSE daemon[d].slot]
         /\ IF daemon[d].slot = p /\ desired = "running"
            THEN desired' \in {"running", "stopped"}
            ELSE UNCHANGED desired
  BY DEF reap_zombies
<1> DEFINE s == IF daemon[d].slot = p THEN None ELSE daemon[d].slot
<1>2. /\ daemon[d] \in Daemon /\ run[p] \in Runtime /\ daemon[d].pc \in {"loop", "stopping"}
      /\ TypeOK /\ daemon[d].slot \in Pids \cup {None} /\ s \in Pids \cup {None}
      /\ daemon[d].pc \in Served
  BY DaemonType DEF ControlInv, TypeOK, reap_zombies, InLoop, Served
<1>3. DaemonTo(d, daemon[d].pc, s, daemon[d].child, daemon[d].then)
  BY <1>1, <1>2, SlotTo
<1>4. s = daemon[d].slot \/ (daemon[d].slot = p /\ s = None)
  OBVIOUS
<1> HIDE DEF s
<1>5. Fewer /\ run'[p].pc = "dead"
  <2> DEFINE r == [run[p] EXCEPT !.pc = "dead"]
  <2>1. r \in Runtime /\ r.pc = "dead" /\ r.by = run[p].by BY <1>2, TestedType
  <2>2. run' = [run EXCEPT ![p] = r] BY <1>1
  <2> HIDE DEF r
  <2>3. Fewer BY <1>1, <1>2, <2>1, <2>2, OneFewer
  <2> QED BY <1>2, <2>1, <2>2, <2>3 DEF TypeOK
<1>6. desired' = desired \/ (desired = "running" /\ desired' \in {"running", "stopped"})
  BY <1>1
<1>7. TypeOK' BY <1>2, <1>3, <1>5, <1>6 DEF reap_zombies, TypeOK, DaemonTo, Fewer, root
<1>8. \A q \in Pids : Recorded /\ Live(q)' /\ op.pc # "record" => s = q
  BY <1>1, <1>2, <1>4, <1>5, KnownFacts, SMT DEF KnownTo, Fewer, Live
<1>9. RootInv' /\ PidInv' /\ RunInv'
  BY <1>2, <1>3, <1>4, <1>5, <1>8, LoopKeeps, SameWindows, SMT DEF reap_zombies
<1>10. windows = {} => WorksFor(d)' /\ Remembers(d)'
  BY <1>2, <1>3, <1>4, <1>5, FileStays, StopFacts, SMT
  DEF reap_zombies, ControlInv, WorksFor, Remembers, DaemonTo, run_alive, Live
<1>11. StopInv'
  BY <1>2, <1>3, <1>5, <1>6, <1>10, StopFacts, LoopStops DEF reap_zombies, Stops
<1> QED BY <1>7, <1>9, <1>11 DEF ControlInv

\* The same for an adopted runtime.
LEMMA ExternalKeeps ==
    ASSUME ControlInv, NEW d \in Daemons, external_exit(d)
    PROVE  ControlInv'
<1>1. /\ daemon[d].pc = "loop" /\ daemon[d].pc \in Served /\ TypeOK
      /\ ~run_alive(daemon[d].slot) /\ daemon[d].slot # None
  BY DEF external_exit, InLoop, ControlInv, Served
<1>2. DaemonTo(d, "loop", None, daemon[d].child, daemon[d].then)
  BY <1>1, SlotTo DEF external_exit
<1>3. TypeOK' BY <1>1, <1>2 DEF external_exit, TypeOK, DaemonTo, agent, root
<1>4. \A p \in Pids : Recorded /\ Live(p) => op.pc = "record"
  BY <1>1, KnownFacts DEF KnownTo, run_alive
<1>5. RootInv' /\ PidInv' /\ RunInv'
  BY <1>1, <1>2, <1>4, LoopKeeps, SameFewer, SameWindows DEF external_exit, Live, agent
<1>6. windows = {} => WorksFor(d)' /\ Remembers(d)'
  BY <1>1, <1>2, StopFacts
  DEF external_exit, WorksFor, Remembers, DaemonTo, run_alive, Live, agent
<1>7. StopInv'
  BY <1>1, <1>2, <1>6, StopFacts, LoopStops, SameFewer DEF external_exit, Stops, agent
<1> QED BY <1>3, <1>5, <1>7 DEF ControlInv

\* reconcile_cb forks only if the slot is empty, and so no runtime is there.
LEMMA ReconcileKeeps ==
    ASSUME ControlInv, NEW d \in Daemons, reconcile_cb(d)
    PROVE  ControlInv'
<1>1. daemon[d].pc = "loop" /\ daemon[d].pc \in Served /\ TypeOK /\ daemon[d] \in Daemon
  BY DEF reconcile_cb, InLoop, ControlInv, TypeOK, Served
<1>2. CASE /\ ~run_alive(daemon[d].slot) /\ desired = "running"
           /\ daemon' = [daemon EXCEPT ![d].pc = "fork", ![d].slot = None]
  <2> DEFINE q == [daemon[d] EXCEPT !.pc = "fork"]
             r == [q EXCEPT !.slot = None]
  <2>1. daemon' = [daemon EXCEPT ![d] = r] BY <1>1, <1>2 DEF TypeOK
  <2>2. q \in Daemon /\ q.pc = "fork" /\ q.child = daemon[d].child /\ q.then = daemon[d].then
    BY <1>1, SetField, DaemonPcs
  <2> HIDE DEF q
  <2>3. r \in Daemon /\ r.pc = q.pc /\ r.slot = None /\ r.child = q.child /\ r.then = q.then
    BY <2>2, SlotField
  <2> HIDE DEF r
  <2>4. DaemonTo(d, "fork", None, daemon[d].child, daemon[d].then)
    BY <1>1, <2>1, <2>2, <2>3, Put
  <2>5. TypeOK' BY <1>1, <2>4 DEF reconcile_cb, TypeOK, DaemonTo, agent, root
  <2>6. \A p \in Pids : Recorded /\ Live(p) => op.pc = "record"
    BY <1>1, <1>2, KnownFacts DEF KnownTo, run_alive
  <2>7. RootInv' /\ PidInv' /\ RunInv'
    BY <1>1, <2>4, <2>6, LoopKeeps, SameFewer, SameWindows DEF reconcile_cb, Live, agent, Served
  <2>8. windows = {} => ~StopGoesOn /\ WorksFor(d)' /\ Remembers(d)'
    BY <1>1, <1>2, <2>4, StopFacts, SMT
    DEF reconcile_cb, WorksFor, Remembers, Stops, StopGoesOn, DaemonTo, run_alive, Live, agent
  <2>9. StopInv' BY <2>4, <2>8, <1>1, LoopStops, SameFewer DEF reconcile_cb, agent
  <2> QED BY <2>5, <2>7, <2>9 DEF ControlInv
<1>3. CASE run_alive(daemon[d].slot) /\ desired # "running" /\ Set(d, "stop")
  <2>1. DaemonTo(d, "stop", daemon[d].slot, daemon[d].child, daemon[d].then)
    BY <1>1, <1>3, SetTo DEF DaemonPc
  <2>2. TypeOK' BY <1>1, <2>1 DEF reconcile_cb, TypeOK, DaemonTo, agent, root
  <2>3. \A p \in Pids : Recorded /\ Live(p) /\ op.pc # "record" => daemon[d].slot = p
    BY <1>1, KnownFacts DEF KnownTo
  <2>4. RootInv' /\ PidInv' /\ RunInv'
    BY <1>1, <2>1, <2>3, LoopKeeps, SameFewer, SameWindows, SMT DEF reconcile_cb, Live, agent, Served
  <2>5. windows = {} => WorksFor(d)' /\ Remembers(d)'
    BY <1>1, <2>1, StopFacts
    DEF reconcile_cb, WorksFor, Remembers, DaemonTo, run_alive, Live, agent
  <2>6. StopInv'
    BY <1>1, <1>3, <2>1, <2>5, LoopStops, SameFewer DEF reconcile_cb, agent
  <2> QED BY <2>2, <2>4, <2>6 DEF ControlInv
<1> QED BY <1>2, <1>3 DEF reconcile_cb

-----------------------------------------------------------------------------
(* Runtimes *)

\* A step after which fewer runtimes are live, and nothing else changed.
LEMMA RuntimeKeeps ==
    ASSUME ControlInv, Fewer, faults' \in 0 .. MaxFaults,
           UNCHANGED <<root, daemon, agent, op, backlog, windows, commands>>
    PROVE  ControlInv'
<1>1. UNCHANGED <<lock, sock, dpid, dir, desired, pidfile>> BY DEF root, agent
<1>2. TypeOK' BY <1>1 DEF ControlInv, TypeOK, Fewer
<1>3. RootInv' BY <1>1 DEF ControlInv, RootInv, Serving, Listening
<1>4. PidInv'
  BY <1>1, OpStays DEF ControlInv, PidInv, DaemonPids, Used, Fewer
<1>5. RunInv'
  BY <1>1, SameWindows, SMT DEF ControlInv, RunInv, Known, KnownTo, Fewer
<1>6. StopInv'
  <2> SUFFICES ASSUME windows = {}
               PROVE  RequestInv' /\ Stops' /\ \A e \in Daemons : WorksFor(e)' /\ Remembers(e)'
    BY DEF StopInv
  <2>1. RequestInv /\ Stops /\ \A e \in Daemons : WorksFor(e) /\ Remembers(e)
    BY DEF ControlInv, StopInv
  <2>2. RequestInv' /\ \A e \in Daemons : WorksFor(e)' BY <2>1 DEF RequestInv, WorksFor
  <2>3. Stops' BY <1>1, <2>1 DEF Stops, StopGoesOn, Fewer
  <2>4. \A e \in Daemons : Remembers(e)' BY <1>1, <2>1, FileStays DEF ControlInv, Remembers
  <2> QED BY <2>2, <2>3, <2>4
<1> QED BY <1>2, <1>3, <1>4, <1>5, <1>6 DEF ControlInv

\* A running process goes from one place of its loop to another.
LEMMA GoesOnFewer ==
    ASSUME TypeOK, NEW p \in Pids, Live(p), NEW pc \in {"test", "tested", "poll"},
           run' = [run EXCEPT ![p].pc = pc]
    PROVE  Fewer
<1> DEFINE r == [run[p] EXCEPT !.pc = pc]
<1>1. run[p] \in Runtime /\ pc \in {"test", "tested", "poll", "dead"} BY DEF TypeOK
<1>2. r \in Runtime /\ r.pc = pc /\ r.by = run[p].by
  BY ONLY <1>1, TestedType DEF r
<1>3. run' = [run EXCEPT ![p] = r] OBVIOUS
<1> HIDE DEF r
<1> QED BY <1>2, <1>3, OneFewer DEF Live

\* The steps of a runtime.
LEMMA RuntimesKeep ==
    ASSUME ControlInv, NEW p \in Pids, Test(p) \/ Sleep(p) \/ Wake(p) \/ Crash(p)
    PROVE  ControlInv'
<1>1. TypeOK /\ run[p] \in Runtime /\ faults \in 0 .. MaxFaults BY DEF ControlInv, TypeOK
<1>2. CASE Test(p)
  <2>1. Live(p) BY <1>2 DEF Test, Live
  <2>2. CASE run[p].term
    <3>1. run' = [run EXCEPT ![p] = Ended(run[p])] BY <1>2, <2>2 DEF Test
    <3>2. Fewer BY <1>1, <2>1, <3>1, EndedType, OneFewer DEF Live
    <3> QED BY <1>1, <1>2, <3>2, RuntimeKeeps DEF Test
  <2>3. CASE ~run[p].term
    <3>1. run' = [run EXCEPT ![p].pc = "tested"] BY <1>2, <2>3 DEF Test
    <3>2. Fewer BY <1>1, <2>1, <3>1, GoesOnFewer
    <3> QED BY <1>1, <1>2, <3>2, RuntimeKeeps DEF Test
  <2> QED BY <2>2, <2>3
<1>3. CASE Sleep(p)
  <2>1. Fewer BY <1>1, <1>3, GoesOnFewer DEF Sleep, Live
  <2> QED BY <1>1, <1>3, <2>1, RuntimeKeeps DEF Sleep
<1>4. CASE Wake(p)
  <2>1. Fewer BY <1>1, <1>4, GoesOnFewer DEF Wake, Live
  <2> QED BY <1>1, <1>4, <2>1, RuntimeKeeps DEF Wake
<1>5. CASE Crash(p)
  <2>1. Fewer BY <1>1, <1>5, KillFewer DEF Crash
  <2>2. faults' \in 0 .. MaxFaults BY <1>1, <1>5, SMT DEF Crash
  <2> QED BY <1>5, <2>1, <2>2, RuntimeKeeps DEF Crash
<1> QED BY <1>2, <1>3, <1>4, <1>5

-----------------------------------------------------------------------------
(* Requests: the runtimes agentd spawns and stops, and its answers *)

\* A backlog of one is empty after its head was taken.
LEMMA TailOfOne == \A x : Tail(<<x>>) = <<>>
BY SMT

\* fork() makes one process of an unused id.
Forked(p, by) ==
    /\ run' \in [Pids -> Runtime]
    /\ run[p].pc = "off" /\ run'[p].pc = "test" /\ run'[p].by = by
    /\ \A q \in Pids \ {p} : run'[q] = run[q]

\* What a fork changes.
LEMMA ForkForks ==
    ASSUME TypeOK, NEW p \in Pids, NEW by \in Daemons \cup {None}, Fork(p, by)
    PROVE  Forked(p, by)
<1> DEFINE r == [pc |-> "test", term |-> FALSE, by |-> by]
<1>1. r \in Runtime /\ r.pc = "test" /\ r.by = by BY DEF Runtime
<1>2. run' = [run EXCEPT ![p] = r] /\ run[p].pc = "off" BY DEF Fork
<1> HIDE DEF r
<1> QED BY <1>1, <1>2 DEF Forked, TypeOK

\* It does not change what is known of the ids in use.
LEMMA ForkedKeeps ==
    ASSUME NEW p \in Pids, NEW by, Forked(p, by), NEW q, q # None => Used(q)
    PROVE  /\ q # None => Used(q)' /\ q # p /\ run'[q] = run[q]
           /\ run_alive(q)' <=> run_alive(q)
           /\ q = None \/ (Live(q)' <=> Live(q))
BY DEF Forked, Used, run_alive, Live

\* agentd forks: the only runtime is the child it has yet to record.
LEMMA SpawnKeeps ==
    ASSUME ControlInv, NEW d \in Daemons, spawn_agent(d)
    PROVE  ControlInv'
<1>1. /\ daemon[d].pc = "fork" /\ daemon[d].pc \in Served /\ TypeOK /\ daemon[d] \in Daemon
      /\ daemon[d].then \in {"loop", "reply"} /\ d \in Daemons \cup {None}
  BY DaemonType DEF spawn_agent, ControlInv, TypeOK, Served
<1>2. /\ windows' \subseteq Windows /\ (windows' = {} => windows = {})
      /\ Recorded' => Recorded /\ op.pc # "record"
  BY DEF spawn_agent, ControlInv, TypeOK, Windows, Recorded
<1>3. \A p \in Pids : Recorded /\ Live(p) => op.pc = "record"
  BY <1>1, KnownFacts DEF KnownTo
<1>4. ASSUME dir, NEW p \in Pids, Fork(p, d),
             daemon' = [daemon EXCEPT ![d].pc = "record", ![d].child = p]
      PROVE  ControlInv'
  <2>1. Forked(p, d) BY <1>1, <1>4, ForkForks
  <2>2. DaemonTo(d, "record", daemon[d].slot, p, daemon[d].then)
    <3> DEFINE q == [daemon[d] EXCEPT !.pc = "record"]
               r == [q EXCEPT !.child = p]
    <3>1. daemon' = [daemon EXCEPT ![d] = r] BY <1>1, <1>4 DEF TypeOK
    <3>2. q \in Daemon /\ q.pc = "record" /\ q.slot = daemon[d].slot /\ q.then = daemon[d].then
      BY <1>1, SetField, DaemonPcs
    <3> HIDE DEF q
    <3>3. r \in Daemon /\ r.pc = q.pc /\ r.slot = q.slot /\ r.child = p /\ r.then = q.then
      BY <3>2 DEF Daemon
    <3> HIDE DEF r
    <3> QED BY <1>1, <3>1, <3>2, <3>3, Put
  <2>3. TypeOK'
    BY <1>1, <1>2, <2>1, <2>2 DEF spawn_agent, TypeOK, DaemonTo, Forked, agent, root
  <2>4. RootInv' BY <1>1, <2>2, RootStays DEF spawn_agent, ControlInv, Served
  <2>5. OpInv' BY <2>1, ForkedKeeps DEF spawn_agent, ControlInv, PidInv, OpInv, agent, Used
  <2>6. pidfile # None => Used(pidfile)
    BY DEF ControlInv, PidInv
  <2>7. pidfile' # None => Used(pidfile)'
    BY <2>1, <2>6, ForkedKeeps DEF spawn_agent, agent, Used
  <2>8. \A e \in Daemons : DaemonPids(e)'
    <3> SUFFICES ASSUME NEW e \in Daemons PROVE DaemonPids(e)'
      OBVIOUS
    <3>1. DaemonPids(e) BY DEF ControlInv, PidInv
    <3>2. Used(p)' BY <1>4, <2>1 DEF Used, Forked
    <3>3. \A q \in Pids : Used(q) => Used(q)' BY <2>1 DEF Used, Forked
    <3>4. CASE e = d BY <1>1, <3>1, <3>2, <3>3, <3>4, <2>2 DEF DaemonPids, DaemonTo, Used
    <3>5. CASE e # d BY <1>1, <3>1, <3>3, <3>5, <2>2 DEF DaemonPids, DaemonTo, Used
    <3> QED BY <3>4, <3>5
  <2>9. RunInv'
    <3> SUFFICES ASSUME Recorded', NEW q \in Pids, Live(q)' PROVE Known(q)'
      BY <1>2, <2>2 DEF ControlInv, RunInv, DaemonTo, spawn_agent
    <3>1. q = p BY <1>2, <1>3, <2>1 DEF Forked, Live
    <3>2. op' = op /\ op.pc # "record" BY <1>2 DEF spawn_agent
    <3>3. \A e \in Daemons \ {d} : daemon'[e].pc = "off"
      BY <1>1, <2>2 DEF ControlInv, RootInv, DaemonTo
    <3>4. \A e \in Daemons : KnownTo(e, q)'
      BY <3>1, <3>3, <2>2 DEF KnownTo, DaemonTo
    <3> QED BY <3>2, <3>4, <2>2 DEF Known, DaemonTo
  <2>10. StopInv'
    <3> SUFFICES ASSUME windows' = {}
                 PROVE  RequestInv' /\ Stops' /\ \A e \in Daemons : WorksFor(e)' /\ Remembers(e)'
      BY DEF StopInv
    <3>1. UNCHANGED <<op, pidfile, backlog, dir, desired>> BY DEF spawn_agent, agent
    <3>2. RequestInv' BY <1>2, <3>1, StopFacts DEF RequestInv
    <3>3. StopGoesOn => op.pid = None BY <1>1, <1>2, StopFacts DEF Stops
    <3>4. Stops' BY <1>2, <3>1, <3>3, StopFacts DEF Stops, StopGoesOn
    <3>5. \A e \in Daemons : WorksFor(e)'
      BY <1>1, <1>2, <2>2, <3>1, StopFacts, SMT DEF WorksFor, DaemonTo
    <3>6. run_alive(pidfile)' <=> run_alive(pidfile)
      BY <2>1, <2>6, <3>1, ForkedKeeps DEF run_alive, Live
    <3>7. \A e \in Daemons : Remembers(e)'
      BY <1>1, <1>2, <2>2, <3>1, <3>6, StopFacts DEF Remembers, DaemonTo
    <3> QED BY <3>2, <3>4, <3>5, <3>7
  <2> QED BY <2>3, <2>4, <2>5, <2>7, <2>8, <2>9, <2>10 DEF ControlInv, PidInv
<1>5. CASE daemon' = [daemon EXCEPT ![d] = Back(d, None)] /\ UNCHANGED run
  <2>1. DaemonTo(d, daemon[d].then, None, None, daemon[d].then) BY <1>1, <1>5, BackTo
  <2>2. TypeOK' BY <1>1, <1>2, <1>5, <2>1 DEF spawn_agent, TypeOK, DaemonTo, agent, root
  <2>3. RootInv' /\ PidInv' /\ RunInv'
    <3>1. daemon[d].then \in Served /\ daemon[d].then # "record" BY <1>1 DEF Served
    <3>2. UNCHANGED <<root, dir, pidfile, op, commands>> BY DEF spawn_agent, agent
    <3>3. \A p \in Pids : ~(Recorded' /\ Live(p)') BY <1>2, <1>3, <1>5 DEF Live
    <3> QED BY <1>1, <1>2, <1>5, <2>1, <3>1, <3>2, <3>3, LoopKeeps, SameFewer
  <2>4. windows' = {} => WorksFor(d)' /\ Remembers(d)'
    <3>1. windows' = {} => WorksFor(d)'
      BY <1>1, <1>2, <2>1, StopFacts DEF spawn_agent, WorksFor, DaemonTo
    <3>2. windows' = {} => Remembers(d)'
      BY <1>1, <1>2, <1>5, <2>1, StopFacts
      DEF spawn_agent, Remembers, DaemonTo, run_alive, Live, agent
    <3> QED BY <3>1, <3>2
  <2>5. StopInv'
    BY <1>1, <1>2, <1>5, <2>1, <2>4, LoopStops, SameFewer, StopFacts DEF spawn_agent, agent, Stops
  <2> QED BY <2>2, <2>3, <2>5 DEF ControlInv
<1> QED BY <1>4, <1>5 DEF spawn_agent

\* Where the pid file is written, and by whom.
LEMMA RecordFacts ==
    ASSUME TypeOK, NEW p \in Pids, Record(p)
    PROVE  /\ pidfile' = IF dir THEN p ELSE pidfile
           /\ windows' \subseteq Windows /\ (windows' = {} => windows = {})
           /\ Recorded' => Recorded /\ dir
           /\ Recorded' /\ run[p].by = None => lock = None
BY DEF TypeOK, Record, Recorded, Windows

\* It records the child in the pid file and in its slot.
LEMMA SpawnRecordKeeps ==
    ASSUME ControlInv, NEW d \in Daemons, spawn_record(d)
    PROVE  ControlInv'
<1> DEFINE p == daemon[d].child
           s == IF dir THEN p ELSE None
<1>1. /\ daemon[d].pc = "record" /\ daemon[d].pc \in Served /\ TypeOK /\ daemon[d] \in Daemon
      /\ daemon[d].then \in {"loop", "reply"} /\ daemon[d].then \in Served
  BY DaemonType DEF spawn_record, ControlInv, TypeOK, Served
<1>2. p \in Pids /\ Used(p) BY <1>1 DEF ControlInv, PidInv, DaemonPids, Used
<1>3. s \in Pids \cup {None} BY <1>2
<1>4. DaemonTo(d, daemon[d].then, s, None, daemon[d].then)
  BY <1>1, <1>3, BackTo DEF spawn_record
<1>5. UNCHANGED <<lock, sock, dpid, dir, desired, run, op, backlog, commands, faults>>
  BY DEF spawn_record, root
<1>6. /\ pidfile' = IF dir THEN p ELSE pidfile
      /\ windows' \subseteq Windows /\ (windows' = {} => windows = {})
      /\ Recorded' => Recorded /\ dir
  BY <1>1, <1>2, RecordFacts DEF spawn_record
<1>7. Recorded => op.pc # "record" BY <1>1 DEF ControlInv, RunInv
<1>8. windows' = {} => windows = {} /\ dir /\ op.pc # "record" /\ ~run_alive(pidfile)
  BY <1>1, <1>6, <1>7, StopFacts DEF Recorded, Remembers
<1>9. \A q \in Pids : Recorded /\ Live(q) => q = p
  BY <1>1, KnownFacts DEF KnownTo
<1> HIDE DEF p
<1>10. TypeOK' BY <1>1, <1>2, <1>4, <1>5, <1>6 DEF TypeOK, DaemonTo
<1>11. RootInv' BY <1>1, <1>4, <1>5, RootStays DEF ControlInv, root
<1>12. PidInv'
  <2>1. OpInv' BY <1>5, <1>1, OpStays, SameFewer DEF ControlInv, PidInv
  <2>2. pidfile' # None => Used(pidfile)' BY <1>2, <1>5, <1>6 DEF ControlInv, PidInv, Used
  <2>3. \A e \in Daemons : DaemonPids(e)'
    BY <1>1, <1>2, <1>4, <1>5 DEF ControlInv, PidInv, DaemonPids, Used, DaemonTo
  <2> QED BY <2>1, <2>2, <2>3 DEF PidInv
<1>13. \A e \in Daemons \ {d} : daemon'[e].pc = "off"
  BY <1>1, <1>4, SMT DEF ControlInv, RootInv, DaemonTo
<1>14. RunInv'
  <2> SUFFICES ASSUME Recorded', NEW q \in Pids, Live(q)' PROVE Known(q)'
    BY <1>1, <1>4, <1>13 DEF RunInv, DaemonTo
  <2>1. q = p /\ pidfile' = p /\ s = p /\ op' = op /\ op.pc # "record"
    BY <1>5, <1>6, <1>7, <1>9 DEF Live
  <2>2. \A e \in Daemons : KnownTo(e, q)' BY <2>1, <1>1, <1>4, <1>13 DEF KnownTo, DaemonTo
  <2> QED BY <2>1, <2>2 DEF Known
<1>15. StopInv'
  <2> SUFFICES ASSUME windows' = {}
               PROVE  RequestInv' /\ Stops' /\ \A e \in Daemons : WorksFor(e)' /\ Remembers(e)'
    BY DEF StopInv
  <2>1. windows = {} /\ s = p /\ pidfile' = p BY <1>6, <1>8
  <2>2. RequestInv' BY <1>5, <2>1, StopFacts DEF RequestInv
  <2>3. StopGoesOn => op.pid = None BY <1>1, <2>1, StopFacts DEF Stops
  <2>4. Stops' BY <1>5, <2>1, <2>3, StopFacts DEF Stops, StopGoesOn
  <2>5. op.pc = "sent" => op.cmd # "stop"
    BY <2>3 DEF StopGoesOn, ControlInv, PidInv, OpInv
  <2>6. WorksFor(d)' BY <1>1, <1>4, <1>5, <2>1, <2>5, StopFacts DEF WorksFor, DaemonTo
  <2>7. Remembers(d)' BY <1>1, <1>4, <2>1 DEF Remembers, DaemonTo
  <2>8. \A e \in Daemons \ {d} : WorksFor(e)' /\ Remembers(e)'
    BY <1>4, <1>5, <1>13, <2>1, StopFacts DEF WorksFor, Remembers, DaemonTo
  <2> QED BY <2>2, <2>4, <2>6, <2>7, <2>8
<1> QED BY <1>10, <1>11, <1>12, <1>14, <1>15 DEF ControlInv

\* stop_agent sends the SIGTERM.
LEMMA StopKeeps ==
    ASSUME ControlInv, NEW d \in Daemons, stop_agent(d)
    PROVE  ControlInv'
<1>1. daemon[d].pc = "stop" /\ daemon[d].pc \in Served /\ TypeOK /\ daemon[d].slot \in Pids \cup {None}
  BY DaemonType DEF stop_agent, ControlInv, TypeOK, Served
<1>2. DaemonTo(d, "stopping", daemon[d].slot, daemon[d].child, daemon[d].then)
  BY <1>1, SetTo DEF stop_agent, DaemonPc
<1>3. Fewer BY <1>1, TermFewer DEF stop_agent
<1>4. TypeOK' BY <1>1, <1>2, <1>3 DEF stop_agent, TypeOK, DaemonTo, Fewer, agent, root
<1>5. \A p \in Pids : Recorded /\ Live(p)' /\ op.pc # "record" => daemon[d].slot = p
  BY <1>1, <1>3, KnownFacts DEF KnownTo, Fewer
<1>6. RootInv' /\ PidInv' /\ RunInv'
  BY <1>1, <1>2, <1>3, <1>5, LoopKeeps, SameWindows, SMT DEF stop_agent, agent, Served
<1>7. windows = {} => WorksFor(d)' /\ Remembers(d)'
  BY <1>1, <1>2, <1>3, FileStays, StopFacts
  DEF stop_agent, ControlInv, WorksFor, Remembers, DaemonTo, agent
<1>8. StopInv'
  BY <1>1, <1>2, <1>3, <1>7, StopFacts, LoopStops DEF stop_agent, Stops, agent
<1> QED BY <1>4, <1>6, <1>8 DEF ControlInv

\* The ends of a stop. Only the answer to agentctl makes agentd forget the slot of a
\* process that may still be there as a zombie.
LEMMA StopEndKeeps ==
    ASSUME ControlInv, NEW d \in Daemons, Fewer, daemon[d].pc = "stopping",
           NEW s \in {None, daemon[d].slot}, daemon' = [daemon EXCEPT ![d] = Back(d, s)],
           s = None => ~run_alive(daemon[d].slot) \/ daemon[d].then = "reply",
           daemon[d].then = "reply" => s = None,
           \A p \in Pids : Live(p)' => p # daemon[d].slot,
           UNCHANGED <<root, agent, op, backlog, windows, commands, faults>>
    PROVE  ControlInv'
<1>1. /\ daemon[d].pc \in Served /\ TypeOK /\ daemon[d].slot \in Pids \cup {None}
      /\ daemon[d].then \in {"loop", "reply"} /\ daemon[d].then \in Served
  BY DaemonType DEF ControlInv, TypeOK, Served
<1>2. DaemonTo(d, daemon[d].then, s, None, daemon[d].then) BY <1>1, BackTo
<1>3. TypeOK' BY <1>1, <1>2 DEF TypeOK, DaemonTo, Fewer, agent, root
<1>4. \A p \in Pids : Recorded /\ Live(p)' => op.pc = "record"
  BY <1>1, KnownFacts DEF KnownTo, Fewer
<1>5. RootInv' /\ PidInv' /\ RunInv'
  BY <1>1, <1>2, <1>4, LoopKeeps, SameWindows DEF agent
<1>6. windows = {} => WorksFor(d)'
  BY <1>1, <1>2, StopFacts DEF WorksFor, DaemonTo
<1>7. windows = {} => Remembers(d)'
  BY <1>1, <1>2, FileStays, StopFacts DEF ControlInv, WorksFor, Remembers, DaemonTo, agent
<1>8. StopInv'
  BY <1>1, <1>2, <1>6, <1>7, StopFacts, LoopStops DEF Stops, agent
<1> QED BY <1>3, <1>5, <1>8 DEF ControlInv

\* stop_agent saw the end of the runtime.
LEMMA StopDoneKeeps ==
    ASSUME ControlInv, NEW d \in Daemons, stop_done(d)
    PROVE  ControlInv'
<1>1. Fewer BY SameFewer DEF stop_done, ControlInv
<1>2. \A p \in Pids : Live(p)' => p # daemon[d].slot BY DEF stop_done, run_alive, Live
<1> QED BY <1>1, <1>2, StopEndKeeps DEF stop_done

\* stop_agent gave up and sent SIGKILL.
LEMMA StopTimeoutKeeps ==
    ASSUME ControlInv, NEW d \in Daemons, stop_timeout(d)
    PROVE  ControlInv'
<1> DEFINE s == IF daemon[d].then = "reply" THEN None ELSE daemon[d].slot
<1>1. daemon[d].slot \in Pids /\ TypeOK
  BY DaemonType DEF stop_timeout, ControlInv, TypeOK, run_alive
<1>2. Fewer BY <1>1, KillFewer DEF stop_timeout
<1>3. \A p \in Pids : Live(p)' => p # daemon[d].slot
  <2> SUFFICES ASSUME NEW p \in Pids, p = daemon[d].slot PROVE ~Live(p)' OBVIOUS
  <2>1. Kill(p) BY DEF stop_timeout
  <2> QED BY <1>1, <2>1, KillFewer
<1>4. /\ s \in {None, daemon[d].slot} /\ (daemon[d].then = "reply" => s = None)
      /\ s = None => daemon[d].then = "reply"
  BY <1>1
<1>5. daemon' = [daemon EXCEPT ![d] = Back(d, s)] BY DEF stop_timeout
<1> HIDE DEF s
<1> QED BY <1>2, <1>3, <1>4, <1>5, StopEndKeeps DEF stop_timeout

\* serve_one_connection takes the request off the socket; agentd works for it until it
\* answers.
LEMMA ServeKeeps ==
    ASSUME ControlInv, NEW d \in Daemons, daemon[d].pc = "loop", backlog # <<>>,
           NEW pc \in Served, NEW s \in {None, daemon[d].slot},
           DaemonTo(d, pc, s, daemon[d].child, "reply"), backlog' = Tail(backlog),
           pc \in {"reply", "fork", "stop"},
           s = None => ~run_alive(daemon[d].slot) \/ daemon[d].slot = None,
           pc = "fork" => ~run_alive(daemon[d].slot) /\ Head(backlog).cmd = "start",
           pc = "stop" => Head(backlog).cmd = "stop",
           pc = "reply" /\ Head(backlog).cmd = "stop" => s = None \/ ~dir,
           desired' = "running" => desired = "running" \/ Head(backlog).cmd = "start",
           UNCHANGED <<root, dir, pidfile, run, op, windows, commands>>
    PROVE  RootInv' /\ PidInv' /\ RunInv' /\ StopInv'
<1>1. daemon[d].pc \in Served /\ TypeOK /\ daemon[d].slot \in Pids \cup {None} /\ pc # "record"
  BY DaemonType DEF ControlInv, TypeOK, Served
<1>2. \A p \in Pids : Recorded /\ Live(p) /\ op.pc # "record" => pc # "fork" /\ s = p
  BY <1>1, KnownFacts DEF KnownTo, run_alive
<1>3. RootInv' /\ PidInv' /\ RunInv'
  BY <1>1, <1>2, LoopKeeps, SameFewer, SameWindows, SMT DEF Live
<1>4. windows = {} => op.pc = "sent" /\ Head(backlog).cmd = op.cmd /\ backlog' = <<>>
  <2> SUFFICES ASSUME windows = {}
               PROVE  op.pc = "sent" /\ Head(backlog).cmd = op.cmd /\ backlog' = <<>>
    OBVIOUS
  <2>1. op.pc = "sent" /\ backlog = <<Head(backlog)>> /\ Head(backlog).cmd = op.cmd
    BY StopFacts DEF RequestInv
  <2> QED BY <2>1, TailOfOne
<1>5. windows = {} => ~run_alive(pidfile)' \/ daemon[d].slot = pidfile \/ op.cmd = "stop"
  BY StopFacts DEF Remembers, run_alive, Live
<1>6. windows = {} /\ op.cmd = "stop" => dir /\ desired # "running" /\ op.pid # None
  BY <1>4, StopFacts DEF Stops, StopGoesOn, ControlInv, PidInv, OpInv
<1>7. windows = {} => WorksFor(d)'
  BY <1>4, <1>6 DEF WorksFor, DaemonTo
<1>8. run_alive(pidfile)' => run_alive(pidfile) BY <1>1, FileStays, SameFewer DEF ControlInv
<1>9. windows = {} => Remembers(d)'
  BY <1>1, <1>4, <1>5, <1>8, StopFacts DEF Remembers, DaemonTo
<1>10. StopInv'
  BY <1>1, <1>4, <1>6, <1>7, <1>9, LoopStops, SameFewer DEF StopGoesOn
<1> QED BY <1>3, <1>10

Answering(r, pc, id) == [r EXCEPT !.pc = pc, !.then = "reply", !.to = id]

\* What a command leaves in agentd's record.
LEMMA ServeField ==
    ASSUME NEW r \in Daemon, NEW pc \in DaemonPc, NEW id \in 0 .. MaxCommands
    PROVE  LET s == Answering(r, pc, id) IN
           /\ s \in Daemon /\ s.pc = pc /\ s.slot = r.slot /\ s.child = r.child
           /\ s.then = "reply"
BY DEF Daemon, Answering

\* Append, Head and Tail keep the type of a queue.
LEMMA SeqFacts ==
    ASSUME NEW S, NEW s \in Seq(S), NEW e \in S
    PROVE  /\ Append(s, e) \in Seq(S)
           /\ s # <<>> => Head(s) \in S /\ Tail(s) \in Seq(S)
BY SMT

\* A shutdown request changes one flag of agentd only.
LEMMA TermField ==
    ASSUME NEW r \in Daemon
    PROVE  LET s == [r EXCEPT !.term = TRUE] IN
           s \in Daemon /\ s.pc = r.pc /\ s.slot = r.slot /\ s.child = r.child /\ s.then = r.then
BY DEF Daemon

\* A command is taken from the socket: start, stop and shutdown.
LEMMA HandleKeeps ==
    ASSUME ControlInv, NEW d \in Daemons, handle_command(d)
    PROVE  ControlInv'
<1> DEFINE r == Head(backlog)
           Rec(pc) == Answering(daemon[d], pc, r.id)
           To(pc) == [daemon EXCEPT ![d].pc = pc, ![d].then = "reply", ![d].to = r.id]
<1>1. /\ daemon[d].pc = "loop" /\ backlog # <<>> /\ TypeOK /\ daemon[d] \in Daemon
      /\ daemon[d].slot \in Pids \cup {None} /\ backlog' = Tail(backlog)
      /\ backlog \in Seq(Request)
  BY DaemonType DEF handle_command, InLoop, ControlInv, TypeOK
<1>2. r \in Request BY <1>1, SeqFacts, SMT
<1>3. backlog' \in Seq(Request) BY <1>1, SeqFacts, SMT
<1>4. r.id \in 0 .. MaxCommands /\ r.cmd \in {"start", "stop", "shutdown"}
  BY <1>2, SMT DEF Request
<1>5. UNCHANGED <<root, dir, pidfile, run, op, windows, commands, faults>>
  BY DEF handle_command
<1>6. \/ r.cmd = "shutdown" /\ daemon' = [To("reply") EXCEPT ![d].term = TRUE] /\ desired' = desired
      \/ ~dir /\ daemon' = To("reply") /\ desired' = desired
      \/ /\ r.cmd = "start" /\ dir /\ desired' = "running"
         /\ daemon' = To(IF run_alive(daemon[d].slot) THEN "reply" ELSE "fork")
      \/ /\ r.cmd = "stop" /\ dir /\ desired' = "stopped"
         /\ daemon' = IF run_alive(daemon[d].slot) THEN To("stop")
                      ELSE [To("reply") EXCEPT ![d].slot = None]
  BY <1>4 DEF handle_command
<1>7. ASSUME NEW pc PROVE To(pc) = [daemon EXCEPT ![d] = Rec(pc)]
  BY <1>1 DEF TypeOK, Answering
<1>8. ASSUME NEW pc \in DaemonPc
      PROVE  /\ Rec(pc) \in Daemon /\ Rec(pc).pc = pc /\ Rec(pc).slot = daemon[d].slot
             /\ Rec(pc).child = daemon[d].child /\ Rec(pc).then = "reply"
  BY <1>1, <1>4, ServeField, SMT
<1>9. "reply" \in DaemonPc /\ "fork" \in DaemonPc /\ "stop" \in DaemonPc
      /\ "reply" \in Served /\ "fork" \in Served /\ "stop" \in Served
  BY DEF DaemonPc, Served
<1> HIDE DEF Rec, To
<1>10. ASSUME NEW pc \in DaemonPc, daemon' = To(pc)
       PROVE  DaemonTo(d, pc, daemon[d].slot, daemon[d].child, "reply")
  BY <1>1, <1>7, <1>8, <1>10, Put
<1>11. ASSUME daemon' \in [Daemons -> Daemon], desired' = desired \/ (dir /\ desired' \in {"running", "stopped"})
       PROVE  TypeOK'
  BY <1>1, <1>3, <1>5, <1>11 DEF TypeOK, root
<1>12. CASE r.cmd = "shutdown" /\ daemon' = [To("reply") EXCEPT ![d].term = TRUE] /\ desired' = desired
  <2> DEFINE w == [Rec("reply") EXCEPT !.term = TRUE]
  <2>1. w \in Daemon /\ w.pc = "reply" /\ w.slot = daemon[d].slot /\ w.child = daemon[d].child
        /\ w.then = "reply"
    BY <1>8, <1>9, TermField, SMT
  <2>2. daemon' = [daemon EXCEPT ![d] = w] BY <1>1, <1>7, <1>12 DEF TypeOK
  <2> HIDE DEF w
  <2>3. DaemonTo(d, "reply", daemon[d].slot, daemon[d].child, "reply")
    BY <1>1, <2>1, <2>2, Put
  <2>4. TypeOK' BY <2>3, <1>11, <1>12 DEF DaemonTo
  <2>5. RootInv' /\ PidInv' /\ RunInv' /\ StopInv'
    BY <1>1, <1>5, <1>9, <1>12, <2>3, ServeKeeps
  <2> QED BY <2>4, <2>5 DEF ControlInv
<1>13. CASE ~dir /\ daemon' = To("reply") /\ desired' = desired
  <2>1. DaemonTo(d, "reply", daemon[d].slot, daemon[d].child, "reply") BY <1>9, <1>10, <1>13
  <2>2. TypeOK' BY <2>1, <1>11, <1>13 DEF DaemonTo
  <2>3. RootInv' /\ PidInv' /\ RunInv' /\ StopInv'
    BY <1>1, <1>5, <1>9, <1>13, <2>1, ServeKeeps
  <2> QED BY <2>2, <2>3 DEF ControlInv
<1>14. CASE /\ r.cmd = "start" /\ dir /\ desired' = "running"
            /\ daemon' = To(IF run_alive(daemon[d].slot) THEN "reply" ELSE "fork")
  <2> DEFINE pc == IF run_alive(daemon[d].slot) THEN "reply" ELSE "fork"
  <2>1. pc \in DaemonPc /\ pc \in Served /\ pc \in {"reply", "fork", "stop"} /\ pc # "stop"
        /\ (pc = "fork" => ~run_alive(daemon[d].slot))
    BY <1>9
  <2>2. DaemonTo(d, pc, daemon[d].slot, daemon[d].child, "reply") BY <2>1, <1>10, <1>14
  <2> HIDE DEF pc
  <2>3. TypeOK' BY <2>2, <1>11, <1>14 DEF DaemonTo
  <2>4. RootInv' /\ PidInv' /\ RunInv' /\ StopInv'
    BY <1>1, <1>5, <1>14, <2>1, <2>2, ServeKeeps
  <2> QED BY <2>3, <2>4 DEF ControlInv
<1>15. CASE r.cmd = "stop" /\ dir /\ desired' = "stopped" /\ run_alive(daemon[d].slot) /\ daemon' = To("stop")
  <2>1. DaemonTo(d, "stop", daemon[d].slot, daemon[d].child, "reply") BY <1>9, <1>10, <1>15
  <2>2. TypeOK' BY <2>1, <1>11, <1>15 DEF DaemonTo
  <2>3. RootInv' /\ PidInv' /\ RunInv' /\ StopInv'
    BY <1>1, <1>5, <1>9, <1>15, <2>1, ServeKeeps
  <2> QED BY <2>2, <2>3 DEF ControlInv
<1>16. CASE /\ r.cmd = "stop" /\ dir /\ desired' = "stopped" /\ ~run_alive(daemon[d].slot)
            /\ daemon' = [To("reply") EXCEPT ![d].slot = None]
  <2> DEFINE w == [Rec("reply") EXCEPT !.slot = None]
  <2>1. w \in Daemon /\ w.pc = "reply" /\ w.slot = None /\ w.child = daemon[d].child
        /\ w.then = "reply"
    BY <1>8, <1>9, SlotField, SMT
  <2>2. daemon' = [daemon EXCEPT ![d] = w] BY <1>1, <1>7, <1>16 DEF TypeOK
  <2> HIDE DEF w
  <2>3. DaemonTo(d, "reply", None, daemon[d].child, "reply")
    BY <1>1, <2>1, <2>2, Put
  <2>4. TypeOK' BY <2>3, <1>11, <1>16 DEF DaemonTo
  <2>5. RootInv' /\ PidInv' /\ RunInv' /\ StopInv'
    BY <1>1, <1>5, <1>9, <1>16, <2>3, ServeKeeps
  <2> QED BY <2>4, <2>5 DEF ControlInv
<1> QED BY <1>6, <1>12, <1>13, <1>14, <1>15, <1>16
-----------------------------------------------------------------------------
(* Answers *)

\* The types of agentctl's fields.
LEMMA OperatorType ==
    ASSUME NEW o \in Operator
    PROVE  o.pc \in OperatorPc /\ o.cmd \in Commands /\ o.pid \in Pids \cup {None}
           /\ o.direct \in BOOLEAN /\ o.tries \in 0 .. 2
BY DEF Operator

\* Op changes agentctl's place only.
LEMMA OpSet ==
    ASSUME TypeOK, NEW pc \in OperatorPc, Op(pc)
    PROVE  OpTo(pc, op.cmd, op.pid, op.direct)
<1>1. op \in Operator BY DEF TypeOK
<1>2. op' = [op EXCEPT !.pc = pc] BY DEF Op
<1> QED BY <1>1, <1>2 DEF OpTo, Operator

\* agentctl reads a pid.
LEMMA OpPid ==
    ASSUME TypeOK, NEW pc \in OperatorPc, NEW p \in Pids \cup {None},
           op' = [op EXCEPT !.pc = pc, !.pid = p]
    PROVE  OpTo(pc, op.cmd, p, op.direct)
<1>1. op \in Operator BY DEF TypeOK
<1> QED BY <1>1 DEF OpTo, Operator

\* agentctl has exited.
LEMMA OpIdle == op' = Idle => OpTo("idle", "create", None, FALSE)
BY SMT DEF Idle, OpTo, Operator, OperatorPc, Commands

\* agentctl starts with a command and no pid.
LEMMA OpBegin ==
    ASSUME NEW cmd \in Commands, op' = [Idle EXCEPT !.pc = "begin", !.cmd = cmd]
    PROVE  OpTo("begin", cmd, None, FALSE)
<1>1. op' = [pc |-> "begin", cmd |-> cmd, pid |-> None, direct |-> FALSE, tries |-> 0]
  BY DEF Idle
<1>2. op' \in Operator
  <2>1. "begin" \in OperatorPc /\ None \in Pids \cup {None} /\ FALSE \in BOOLEAN /\ 0 \in 0 .. 2
    BY SMT DEF OperatorPc
  <2> QED BY <1>1, <2>1 DEF Operator, Idle
<1> QED BY <1>1, <1>2 DEF OpTo, Idle

\* agentctl stops a runtime itself.
LEMMA OpDirect ==
    ASSUME TypeOK, op' = [op EXCEPT !.pc = "gone", !.direct = TRUE]
    PROVE  OpTo("gone", op.cmd, op.pid, TRUE)
<1>1. op \in Operator BY DEF TypeOK
<1> QED BY <1>1 DEF OpTo, Operator, OperatorPc

\* agentctl tries a removal again.
LEMMA OpRetry ==
    ASSUME TypeOK, op.tries < 2, op' = [op EXCEPT !.pc = "remove", !.tries = op.tries + 1]
    PROVE  OpTo("remove", op.cmd, op.pid, op.direct)
<1>1. op \in Operator /\ op.tries \in 0 .. 2 BY DEF TypeOK, Operator
<1>2. op.tries + 1 \in 0 .. 2 BY <1>1, SMT
<1> QED BY <1>1, <1>2 DEF OpTo, Operator, OperatorPc

Answered(r, pc, id) == [r EXCEPT !.pc = pc, !.then = "loop", !.to = id]

\* What an answer leaves in agentd's record.
LEMMA ReplyField ==
    ASSUME NEW r \in Daemon, NEW pc \in DaemonPc, NEW id \in 0 .. MaxCommands
    PROVE  LET s == Answered(r, pc, id) IN
           /\ s \in Daemon /\ s.pc = pc /\ s.slot = r.slot /\ s.child = r.child
           /\ s.then = "loop"
BY DEF Daemon, Answered

\* The answer. Where it is the answer to stop, agentd has no runtime.
LEMMA ReplyKeeps ==
    ASSUME ControlInv, NEW d \in Daemons, Reply(d)
    PROVE  ControlInv'
<1>1. /\ TypeOK /\ Fewer /\ daemon[d].pc = "reply" /\ daemon[d].pc \in Served /\ "loop" \in Served
      /\ daemon[d] \in Daemon
  BY SameFewer DEF ControlInv, TypeOK, Reply, Served
<1>2. UNCHANGED <<lock, sock, dpid, dir, desired, pidfile, run, backlog, windows, commands, faults>>
  BY DEF Reply, agent, root
<1>3. DaemonTo(d, "loop", daemon[d].slot, daemon[d].child, "loop")
  <2> DEFINE r == Answered(daemon[d], "loop", 0)
  <2>1. r \in Daemon /\ r.pc = "loop" /\ r.slot = daemon[d].slot /\ r.child = daemon[d].child
        /\ r.then = "loop"
    <3>1. "loop" \in DaemonPc /\ 0 \in 0 .. MaxCommands BY SMT DEF DaemonPc
    <3> QED BY <1>1, <3>1, ReplyField
  <2>2. daemon' = [daemon EXCEPT ![d] = r] BY <1>1 DEF Reply, TypeOK, Answered
  <2> HIDE DEF r
  <2> QED BY <1>1, <2>1, <2>2, Put
<1>4. \/ op' = op
      \/ op.pc = "sent" /\ op.cmd = "stop" /\ OpTo("gone", "stop", op.pid, op.direct)
      \/ op.pc = "sent" /\ op.cmd # "stop" /\ OpTo("idle", "create", None, FALSE)
  <2>1. op' = [op EXCEPT !.pc = "gone"] => OpTo("gone", op.cmd, op.pid, op.direct)
    BY <1>1, OpSet DEF Op, OperatorPc
  <2> QED BY <2>1, OpIdle DEF Reply
<1>5. op' \in Operator BY <1>1, <1>4 DEF TypeOK, OpTo
<1>6. TypeOK' BY <1>1, <1>2, <1>3, <1>5 DEF TypeOK, DaemonTo
<1>7. RootInv' BY <1>1, <1>2, <1>3, RootStays DEF ControlInv, root
<1>8. OpInv' BY <1>2, <1>4 DEF ControlInv, PidInv, OpInv, OpTo, Used, run_alive, Live
<1>9. PidInv'
  BY <1>1, <1>2, <1>3, <1>8, SMT DEF ControlInv, PidInv, DaemonPids, Used, DaemonTo
<1>10. (op'.pc = "record") <=> (op.pc = "record") BY <1>4 DEF OpTo
<1>11. op.pc = "record" => op' = op BY <1>4
<1>12. RunInv'
  <2> SUFFICES ASSUME Recorded, NEW p \in Pids, Live(p) PROVE Known(p)'
    BY <1>2, <1>3, <1>10, SameWindows DEF ControlInv, RunInv, DaemonTo, Live
  <2>1. Known(p) BY DEF ControlInv, RunInv
  <2>2. \A e \in Daemons : KnownTo(e, p)'
    BY <1>1, <1>3, <1>10, <2>1, SMT DEF Known, KnownTo, DaemonTo
  <2>3. pidfile' = p \/ op'.pc = "record" \/ \E e \in Daemons : daemon'[e].pc = "record"
    BY <1>1, <1>2, <1>3, <1>10, <2>1 DEF Known, DaemonTo
  <2>4. op'.pc = "record" => p = op'.pid BY <1>10, <1>11, <2>1 DEF Known
  <2> QED BY <2>2, <2>3, <2>4 DEF Known
<1>13. StopInv'
  <2> SUFFICES ASSUME windows = {}
               PROVE  RequestInv' /\ Stops' /\ \A e \in Daemons : WorksFor(e)' /\ Remembers(e)'
    BY <1>2 DEF StopInv
  <2>1. RequestInv /\ Stops /\ \A e \in Daemons : WorksFor(e) /\ Remembers(e)
    BY DEF ControlInv, StopInv
  <2>2. op.pc = "sent" /\ backlog = <<>> BY <1>1, <2>1 DEF WorksFor
  <2>3. RequestInv' BY <1>2, <2>2 DEF RequestInv
  <2>4. \A e \in Daemons \ {d} : daemon[e].pc = "off"
    BY <1>1 DEF ControlInv, RootInv
  <2>5. \A e \in Daemons : daemon'[e].then # "reply" /\ daemon'[e].pc # "reply"
    BY <1>3, <2>1, <2>4, SMT DEF WorksFor, DaemonTo
  <2>6. \A e \in Daemons : WorksFor(e)' BY <2>5 DEF WorksFor
  <2>7. run_alive(pidfile)' => run_alive(pidfile)
    BY <1>1, <1>2, FileStays DEF ControlInv
  <2>8. Remembers(d)'
    BY <1>1, <1>2, <1>3, <1>4, <2>1, <2>2, <2>7 DEF Remembers, DaemonTo, OpTo
  <2>9. \A e \in Daemons \ {d} : Remembers(e)'
    BY <1>3, <2>4 DEF Remembers, DaemonTo
  <2>10. op.cmd = "stop" => \A p \in Pids : ~Live(p)
    <3>1. op.cmd = "stop" => daemon[d].slot = None BY <1>1, <2>1 DEF WorksFor
    <3>2. Recorded BY DEF Recorded
    <3> QED BY <1>1, <2>2, <3>1, <3>2, KnownFacts DEF KnownTo
  <2>11. Stops'
    BY <1>2, <1>3, <1>4, <2>1, <2>2, <2>10 DEF Stops, StopGoesOn, OpTo, DaemonTo, Live
  <2> QED BY <2>3, <2>6, <2>8, <2>9, <2>11
<1> QED BY <1>6, <1>7, <1>9, <1>12, <1>13 DEF ControlInv

-----------------------------------------------------------------------------
(* agentctl *)

\* A step of agentctl that forks and records nothing, and leaves the pid file alone,
\* keeps what is known of the runtimes.
LEMMA OperatorKeeps ==
    ASSUME ControlInv, Fewer, UNCHANGED <<root, daemon, pidfile>>,
           Listening \/ backlog' = backlog, op.pc # "record", op'.pc # "record",
           Recorded' => Recorded, OpInv'
    PROVE  RootInv' /\ PidInv' /\ RunInv'
<1>1. RootInv'
  BY DEF ControlInv, TypeOK, RootInv, Serving, Listening, root
<1>2. PidInv' BY DEF ControlInv, PidInv, DaemonPids, Used, Fewer
<1>3. RunInv'
  <2> SUFFICES ASSUME Recorded', NEW p \in Pids, Live(p)' PROVE Known(p)'
    BY DEF RunInv
  <2>1. Known(p) BY DEF ControlInv, RunInv, Fewer
  <2> QED BY <2>1 DEF Known, KnownTo
<1> QED BY <1>1, <1>2, <1>3

\* While agentctl waits for no answer, agentd works for nobody, and a step of agentctl
\* need only keep Stops.
LEMMA OperatorStops ==
    ASSUME ControlInv, Fewer, UNCHANGED <<daemon, backlog, pidfile>>, op.pc # "sent",
           \/ op.pc \notin {"gone", "remove"}
           \/ op'.cmd = op.cmd /\ op'.pc \in {"sent", "gone", "remove"},
           windows' = {} => windows = {} /\ Stops'
    PROVE  StopInv'
<1> SUFFICES ASSUME windows' = {}
             PROVE  RequestInv' /\ \A e \in Daemons : WorksFor(e)' /\ Remembers(e)'
  BY DEF StopInv
<1>1. RequestInv /\ \A e \in Daemons : WorksFor(e) /\ Remembers(e)
  BY DEF ControlInv, StopInv
<1>2. backlog = <<>> /\ RequestInv' BY <1>1 DEF RequestInv
<1>3. \A e \in Daemons : WorksFor(e)' BY <1>1 DEF WorksFor
<1>4. \A e \in Daemons : Remembers(e)' BY <1>1, FileStays DEF ControlInv, Remembers
<1> QED BY <1>2, <1>3, <1>4

\* Giving up, or being done.
LEMMA IdleKeeps ==
    ASSUME ControlInv, Fewer, op' = Idle,
           UNCHANGED <<root, daemon, desired, pidfile, backlog, commands, faults>>,
           op.pc \notin {"record", "sent", "gone", "remove"},
           dir' \in BOOLEAN, ~dir' => ~dir \/ (desired = "none" /\ pidfile = None),
           windows \subseteq windows', windows' \subseteq Windows
    PROVE  ControlInv'
<1>1. OpTo("idle", "create", None, FALSE) BY OpIdle
<1>2. TypeOK' BY <1>1 DEF ControlInv, TypeOK, OpTo, Fewer, root
<1>3. OpInv' BY <1>1 DEF OpInv, OpTo
<1>4. (Recorded' => Recorded) /\ (windows' = {} => windows = {}) BY DEF Recorded
<1>5. RootInv' /\ PidInv' /\ RunInv'
  BY <1>1, <1>3, <1>4, OperatorKeeps DEF OpTo
<1>6. StopInv'
  BY <1>1, <1>4, OperatorStops DEF OpTo, Stops, StopGoesOn
<1> QED BY <1>2, <1>5, <1>6 DEF ControlInv

\* An agentctl starts.
LEMMA BeginKeeps == ControlInv /\ Begin => ControlInv'
<1> SUFFICES ASSUME ControlInv, Begin PROVE ControlInv' OBVIOUS
<1>1. PICK cmd \in Commands : op' = [Idle EXCEPT !.pc = "begin", !.cmd = cmd] BY DEF Begin
<1>2. OpTo("begin", cmd, None, FALSE) BY <1>1, OpBegin
<1>3. Fewer BY SameFewer DEF Begin, ControlInv
<1>4. TypeOK' BY <1>2, SMT DEF Begin, ControlInv, TypeOK, OpTo, agent, root
<1>5. OpInv' BY <1>2, SMT DEF Begin, ControlInv, TypeOK, OpInv, OpTo
<1>6. RootInv' /\ PidInv' /\ RunInv'
  BY <1>2, <1>3, <1>5, OperatorKeeps, SameWindows DEF Begin, OpTo, agent
<1>7. StopInv'
  BY <1>2, <1>3, OperatorStops DEF Begin, OpTo, Stops, StopGoesOn, agent
<1> QED BY <1>4, <1>6, <1>7 DEF ControlInv

\* agentctl create makes the directory.
LEMMA CreateKeeps == ControlInv /\ cmd_create => ControlInv'
BY IdleKeeps, SameFewer DEF ControlInv, TypeOK, cmd_create, Others, root

\* agentctl start looks at the pid file.
LEMMA StartKeeps == ControlInv /\ cmd_start => ControlInv'
<1> SUFFICES ASSUME ControlInv, cmd_start PROVE ControlInv' OBVIOUS
<1>1. Fewer /\ TypeOK BY SameFewer DEF ControlInv, cmd_start
<1>2. CASE dir /\ ~run_alive(pidfile) /\ op' = [op EXCEPT !.pc = "want", !.pid = pidfile]
  <2>1. OpTo("want", op.cmd, pidfile, op.direct)
    BY <1>1, <1>2, OpPid DEF TypeOK, OperatorPc
  <2>2. TypeOK' BY <1>1, <2>1 DEF cmd_start, TypeOK, OpTo, agent, root, Others
  <2>3. OpInv'
    BY <1>2, <2>1
    DEF cmd_start, ControlInv, PidInv, OpInv, OpTo, Used, run_alive, Live, agent, Others
  <2>4. RootInv' /\ PidInv' /\ RunInv'
    BY <1>1, <2>1, <2>3, OperatorKeeps, SameWindows DEF cmd_start, OpTo, agent, Others
  <2>5. StopInv'
    BY <1>1, <2>1, OperatorStops DEF cmd_start, OpTo, Stops, StopGoesOn, agent, Others
  <2> QED BY <2>2, <2>4, <2>5 DEF ControlInv
<1>3. CASE op' = Idle
  BY <1>1, <1>3, IdleKeeps DEF cmd_start, TypeOK, agent, Others
<1> QED BY <1>2, <1>3 DEF cmd_start

\* It writes desired_state, having seen no live runtime.
LEMMA SettingKeeps == ControlInv /\ start_setting => ControlInv'
<1> SUFFICES ASSUME ControlInv, start_setting PROVE ControlInv' OBVIOUS
<1>1. Fewer /\ TypeOK /\ op.pc = "want" /\ op.cmd = "start" /\ dir
  BY SameFewer DEF ControlInv, start_setting, PidInv, OpInv
<1>2. OpTo("ask", op.cmd, op.pid, op.direct) BY <1>1, OpSet DEF start_setting, OperatorPc
<1>3. TypeOK' BY <1>1, <1>2 DEF start_setting, TypeOK, OpTo, root, Others
<1>4. OpInv'
  BY <1>1, <1>2 DEF start_setting, ControlInv, PidInv, OpInv, OpTo, Used, run_alive, Live, Others
<1>5. RootInv' /\ PidInv' /\ RunInv'
  BY <1>1, <1>2, <1>4, OperatorKeeps, SameWindows DEF start_setting, OpTo, Others
<1>6. StopInv'
  BY <1>1, <1>2, OperatorStops DEF start_setting, OpTo, Stops, StopGoesOn, Others
<1> QED BY <1>3, <1>5, <1>6 DEF ControlInv

\* agentctl stop writes desired_state before it looks at the pid file.
LEMMA StopCmdKeeps == ControlInv /\ cmd_stop => ControlInv'
<1> SUFFICES ASSUME ControlInv, cmd_stop PROVE ControlInv' OBVIOUS
<1>1. Fewer /\ TypeOK /\ op.pc = "begin" /\ op.cmd = "stop" /\ op.pid = None
  BY SameFewer DEF ControlInv, cmd_stop, PidInv, OpInv
<1>2. CASE dir
  <2>1. OpTo("look", op.cmd, op.pid, op.direct) BY <1>1, <1>2, OpSet DEF cmd_stop, OperatorPc
  <2>2. TypeOK' BY <1>1, <1>2, <2>1 DEF cmd_stop, TypeOK, OpTo, root, Others
  <2>3. OpInv'
    BY <1>1, <2>1 DEF cmd_stop, ControlInv, PidInv, OpInv, OpTo, Others
  <2>4. RootInv' /\ PidInv' /\ RunInv'
    BY <1>1, <2>1, <2>3, OperatorKeeps, SameWindows DEF cmd_stop, OpTo, Others
  <2>5. StopInv'
    BY <1>1, <1>2, <2>1, OperatorStops DEF cmd_stop, OpTo, Stops, StopGoesOn, Others
  <2> QED BY <2>2, <2>4, <2>5 DEF ControlInv
<1>3. CASE ~dir
  BY <1>1, <1>3, IdleKeeps DEF cmd_stop, TypeOK, Others
<1> QED BY <1>2, <1>3

\* stop that finds a process: nobody is about to start another.
LEMMA LookKeeps == ControlInv /\ stop_look => ControlInv'
<1> SUFFICES ASSUME ControlInv, stop_look PROVE ControlInv' OBVIOUS
<1>1. Fewer /\ TypeOK /\ op.pc = "look" /\ op.cmd = "stop" /\ op.pid = None
  BY SameFewer DEF ControlInv, stop_look, PidInv, OpInv
<1>2. UNCHANGED <<lock, sock, dpid, daemon, dir, desired, pidfile, run, backlog, windows, commands, faults>>
  BY DEF stop_look, agent, root, Others
<1>3. CASE run_alive(pidfile) /\ op' = [op EXCEPT !.pc = "ask", !.pid = pidfile]
  <2>1. OpTo("ask", op.cmd, pidfile, op.direct) BY <1>1, <1>3, OpPid DEF TypeOK, OperatorPc
  <2>2. TypeOK' BY <1>1, <1>2, <2>1 DEF TypeOK, OpTo
  <2>3. OpInv'
    BY <1>1, <1>2, <1>3, <2>1, SMT DEF ControlInv, PidInv, OpInv, OpTo, Used, run_alive
  <2>4. RootInv' /\ PidInv' /\ RunInv'
    BY <1>1, <1>2, <2>1, <2>3, OperatorKeeps, SameWindows DEF OpTo, root
  <2>5. windows = {} => \A d \in Daemons : daemon[d].pc \notin {"fork", "record"}
    BY <1>3, StopFacts DEF Remembers
  <2>6. windows = {} => Recorded BY DEF Recorded
  <2>7. windows = {} => \A p \in Pids : Live(p) => p = pidfile
    BY <1>1, <2>5, <2>6 DEF ControlInv, RunInv, Known
  <2>8. windows = {} => dir /\ desired # "running"
    BY <1>1 DEF ControlInv, StopInv, Stops, StopGoesOn
  <2>9. windows = {} => Stops'
    BY <1>1, <1>2, <2>1, <2>5, <2>7, <2>8 DEF OpTo, Stops, StopGoesOn, Live
  <2>10. StopInv' BY <1>1, <1>2, <2>9, OperatorStops
  <2> QED BY <2>2, <2>4, <2>10 DEF ControlInv
<1>4. CASE op' = [op EXCEPT !.pc = "remove"]
  <2>1. OpTo("remove", op.cmd, op.pid, op.direct) BY <1>1, <1>4, OpSet DEF Op, OperatorPc
  <2>2. TypeOK' BY <1>1, <1>2, <2>1 DEF TypeOK, OpTo
  <2>3. OpInv' BY <1>1, <1>2, <2>1 DEF ControlInv, PidInv, OpInv, OpTo
  <2>4. RootInv' /\ PidInv' /\ RunInv'
    BY <1>1, <1>2, <2>1, <2>3, OperatorKeeps, SameWindows DEF OpTo, root
  <2>5. windows = {} => Stops'
    BY <1>1, <1>2, <2>1, SMT DEF ControlInv, StopInv, OpTo, Stops, StopGoesOn
  <2>6. StopInv' BY <1>1, <1>2, <2>5, OperatorStops
  <2> QED BY <2>2, <2>4, <2>6 DEF ControlInv
<1> QED BY <1>3, <1>4 DEF stop_look

\* agentctl sends its request or, without an agentd, chooses the direct mode.
LEMMA AskKeeps == ControlInv /\ Ask => ControlInv'
<1> SUFFICES ASSUME ControlInv, Ask PROVE ControlInv' OBVIOUS
<1>1. /\ TypeOK /\ op \in Operator /\ op.cmd \in {"start", "stop", "shutdown"}
      /\ op.pc = "ask" \/ (op.pc = "begin" /\ op.cmd = "shutdown")
      /\ op.pid \in Pids \cup {None}
  BY OperatorType DEF ControlInv, TypeOK, Ask, PidInv, OpInv
<1>2. UNCHANGED <<lock, sock, dpid, daemon, dir, desired, pidfile, windows, commands, faults>>
  BY DEF Ask, agent, root, Others
<1>3. ASSUME Listening, backlog' = Append(backlog, [cmd |-> op.cmd, id |-> commands]),
             Op("sent"), UNCHANGED run
      PROVE  ControlInv'
  <2> DEFINE r == [cmd |-> op.cmd, id |-> commands]
  <2>1. Fewer BY <1>1, <1>3, SameFewer
  <2>2. OpTo("sent", op.cmd, op.pid, op.direct) BY <1>1, <1>3, OpSet DEF OperatorPc
  <2>3. commands \in 1 .. MaxCommands BY <1>1, SMT DEF ControlInv, TypeOK, PidInv, OpInv
  <2>4. r \in Request /\ r.cmd = op.cmd BY <1>1, <2>3 DEF Request
  <2> HIDE DEF r
  <2>5. backlog' \in Seq(Request)
    BY <1>1, <1>3, <2>4, SeqFacts DEF TypeOK, r
  <2>6. TypeOK' BY <1>1, <1>2, <1>3, <2>2, <2>5 DEF TypeOK, OpTo
  <2>7. OpInv'
    BY <1>1, <1>2, <1>3, <2>2 DEF ControlInv, PidInv, OpInv, OpTo, Used
  <2>8. RootInv' /\ PidInv' /\ RunInv'
    BY <1>1, <1>2, <1>3, <2>1, <2>2, <2>7, OperatorKeeps, SameWindows DEF OpTo, root
  <2>9. StopInv'
    <3> SUFFICES ASSUME windows = {}
                 PROVE  RequestInv' /\ Stops' /\ \A e \in Daemons : WorksFor(e)' /\ Remembers(e)'
      BY <1>2 DEF StopInv
    <3>1. RequestInv /\ Stops /\ \A e \in Daemons : WorksFor(e) /\ Remembers(e)
      BY DEF ControlInv, StopInv
    <3>2. backlog = <<>> BY <1>1, <3>1 DEF RequestInv
    <3>3. backlog' = <<r>> BY <1>3, <3>2, SMT DEF r
    <3>4. RequestInv' BY <2>2, <2>4, <3>3, SMT DEF RequestInv, OpTo
    <3>5. Stops' BY <1>1, <1>2, <1>3, <2>2, <3>1 DEF Stops, StopGoesOn, OpTo, Live
    <3>6. \A e \in Daemons : WorksFor(e)' BY <1>1, <1>2, <3>1 DEF WorksFor
    <3>7. \A e \in Daemons : Remembers(e)'
      BY <1>1, <1>2, <2>1, <3>1, FileStays DEF ControlInv, Remembers
    <3> QED BY <3>4, <3>5, <3>6, <3>7
  <2> QED BY <2>6, <2>8, <2>9 DEF ControlInv
<1>4. CASE op' = Idle /\ UNCHANGED <<run, backlog>>
  BY <1>1, <1>2, <1>4, IdleKeeps, SameFewer DEF TypeOK, root
<1>5. CASE op.cmd = "start" /\ Op("fork") /\ UNCHANGED <<run, backlog>>
  <2>1. OpTo("fork", op.cmd, op.pid, op.direct) /\ Fewer
    BY <1>1, <1>5, OpSet, SameFewer DEF OperatorPc
  <2>2. TypeOK' BY <1>1, <1>2, <1>5, <2>1 DEF TypeOK, OpTo
  <2>3. OpInv'
    BY <1>1, <1>2, <1>5, <2>1, SMT DEF ControlInv, PidInv, OpInv, OpTo, Used, run_alive, Live
  <2>4. RootInv' /\ PidInv' /\ RunInv'
    BY <1>1, <1>2, <1>5, <2>1, <2>3, OperatorKeeps, SameWindows DEF OpTo, root
  <2>5. StopInv'
    BY <1>1, <1>2, <1>5, <2>1, OperatorStops DEF OpTo, Stops, StopGoesOn
  <2> QED BY <2>2, <2>4, <2>5 DEF ControlInv
<1>6. CASE op.cmd = "stop" /\ Term(op.pid) /\ UNCHANGED backlog
           /\ op' = [op EXCEPT !.pc = "gone", !.direct = TRUE]
  <2>1. OpTo("gone", op.cmd, op.pid, TRUE) /\ Fewer
    BY <1>1, <1>6, OpDirect, TermFewer
  <2>2. TypeOK' BY <1>1, <1>2, <1>6, <2>1 DEF TypeOK, OpTo, Fewer
  <2>3. OpInv'
    BY <1>1, <1>2, <1>6, <2>1, SMT DEF ControlInv, PidInv, OpInv, OpTo, Used, Fewer
  <2>4. RootInv' /\ PidInv' /\ RunInv'
    BY <1>1, <1>2, <1>6, <2>1, <2>3, OperatorKeeps, SameWindows DEF OpTo, root
  <2>5. windows = {} => Stops'
    BY <1>1, <1>2, <1>6, <2>1 DEF ControlInv, StopInv, OpTo, Stops, StopGoesOn, Fewer
  <2>6. StopInv' BY <1>1, <1>2, <1>6, <2>1, <2>5, OperatorStops
  <2> QED BY <2>2, <2>4, <2>6 DEF ControlInv
<1> QED BY <1>3, <1>4, <1>5, <1>6 DEF Ask

\* agentctl gives up only on an agentd that does not listen, or hits a window.
LEMMA NoAnswerKeeps == ControlInv /\ NoAnswer => ControlInv'
<1> SUFFICES ASSUME ControlInv, NoAnswer PROVE ControlInv' OBVIOUS
<1>1. Fewer /\ TypeOK /\ op.pc = "sent"
  BY SameFewer DEF ControlInv, NoAnswer
<1>2. UNCHANGED <<lock, sock, dpid, daemon, dir, desired, pidfile, run, backlog, commands, faults>>
  BY DEF NoAnswer, agent, root, Others
<1>3. /\ windows' \subseteq Windows /\ (Recorded' => Recorded)
      /\ windows' = {} => windows = {} /\ ~Listening
  BY <1>1 DEF NoAnswer, TypeOK, Windows, Recorded
<1>4. OpTo("idle", "create", None, FALSE) BY OpIdle DEF NoAnswer
<1>5. TypeOK' BY <1>1, <1>2, <1>3, <1>4 DEF TypeOK, OpTo
<1>6. OpInv' BY <1>4 DEF OpInv, OpTo
<1>7. RootInv' /\ PidInv' /\ RunInv'
  BY <1>1, <1>2, <1>3, <1>4, <1>6, OperatorKeeps DEF OpTo, root
<1>8. StopInv'
  <2> SUFFICES ASSUME windows' = {}
               PROVE  RequestInv' /\ Stops' /\ \A e \in Daemons : WorksFor(e)' /\ Remembers(e)'
    BY DEF StopInv
  <2>1. backlog = <<>> BY <1>3 DEF ControlInv, RootInv
  <2>2. \A e \in Daemons : ~Serving(e)
    BY <1>3 DEF ControlInv, TypeOK, RootInv, Serving, Listening
  <2>3. \A e \in Daemons : WorksFor(e) BY <1>3, StopFacts
  <2>4. \A e \in Daemons : WorksFor(e)' BY <1>2, <2>2, <2>3 DEF WorksFor, Serving
  <2>5. \A e \in Daemons : Remembers(e)' BY <1>2, <2>2 DEF Remembers, Serving
  <2> QED BY <1>2, <1>4, <2>1, <2>4, <2>5 DEF RequestInv, Stops, StopGoesOn, OpTo
<1> QED BY <1>5, <1>7, <1>8 DEF ControlInv

\* A direct start forks where there is no agentd and the pid file is the one it has
\* looked at, or hits a window.
LEMMA StartForkKeeps == ControlInv /\ start_fork => ControlInv'
<1> SUFFICES ASSUME ControlInv, start_fork PROVE ControlInv' OBVIOUS
<1>1. TypeOK /\ op.pc = "fork" /\ op.cmd = "start" /\ ~run_alive(op.pid)
  BY DEF ControlInv, start_fork, PidInv, OpInv
<1>2. UNCHANGED <<lock, sock, dpid, daemon, dir, desired, pidfile, backlog, commands, faults>>
  BY DEF start_fork, agent, root, Others
<1>3. /\ windows' \subseteq Windows /\ (windows' = {} => windows = {})
      /\ Recorded' => Recorded /\ lock = None /\ pidfile = op.pid
      /\ windows \subseteq windows'
  BY <1>1 DEF start_fork, TypeOK, Windows, Recorded
<1>4. ASSUME NEW p \in Pids, Fork(p, None), op' = [op EXCEPT !.pc = "record", !.pid = p]
      PROVE  ControlInv'
  <2>1. Forked(p, None) BY <1>1, <1>4, ForkForks
  <2>2. OpTo("record", op.cmd, p, op.direct) BY <1>1, <1>4, OpPid DEF OperatorPc
  <2>3. TypeOK' BY <1>1, <1>2, <1>3, <2>1, <2>2 DEF TypeOK, OpTo, Forked
  <2>4. RootInv' BY <1>2 DEF ControlInv, RootInv, Serving, Listening
  <2>5. \A q \in Pids : Used(q) => Used(q)' BY <2>1 DEF Used, Forked
  <2>6. OpInv'
    BY <1>1, <1>2, <2>1, <2>2, <1>4, SMT DEF ControlInv, PidInv, OpInv, OpTo, Used, Forked
  <2>7. PidInv'
    BY <1>2, <2>5, <2>6 DEF ControlInv, PidInv, DaemonPids, Used
  <2>8. RunInv'
    <3> SUFFICES ASSUME Recorded'
                 PROVE  /\ \A d \in Daemons : daemon'[d].pc # "record"
                        /\ \A q \in Pids : Live(q)' => Known(q)'
      BY DEF RunInv
    <3>1. \A d \in Daemons : daemon'[d].pc = "off" BY <1>2, <1>3, SMT DEF ControlInv, RootInv
    <3>2. \A q \in Pids : ~Live(q)
      BY <1>1, <1>2, <1>3, <3>1 DEF ControlInv, RunInv, Known, run_alive
    <3>3. \A q \in Pids : Live(q)' => q = p BY <2>1, <3>2 DEF Forked, Live
    <3> QED BY <2>2, <3>1, <3>3 DEF Known, KnownTo, OpTo
  <2>9. StopInv'
    <3> SUFFICES ASSUME windows' = {}
                 PROVE  RequestInv' /\ Stops' /\ \A e \in Daemons : WorksFor(e)' /\ Remembers(e)'
      BY DEF StopInv
    <3>1. RequestInv /\ \A e \in Daemons : WorksFor(e) /\ Remembers(e)
      BY <1>3 DEF ControlInv, StopInv
    <3>2. RequestInv' /\ Stops'
      BY <1>1, <1>2, <2>2, <3>1 DEF RequestInv, Stops, StopGoesOn, OpTo
    <3>3. \A e \in Daemons : WorksFor(e)' BY <1>1, <1>2, <3>1 DEF WorksFor
    <3>4. pidfile # None => Used(pidfile) BY DEF ControlInv, PidInv
    <3>5. run_alive(pidfile)' <=> run_alive(pidfile)
      BY <1>2, <2>1, <3>4, ForkedKeeps DEF run_alive, Live
    <3>6. \A e \in Daemons : Remembers(e)' BY <1>1, <1>2, <3>1, <3>5 DEF Remembers
    <3> QED BY <3>2, <3>3, <3>6
  <2> QED BY <2>3, <2>4, <2>7, <2>8, <2>9 DEF ControlInv
<1>5. CASE op' = Idle /\ UNCHANGED run
  BY <1>1, <1>2, <1>3, <1>5, IdleKeeps, SameFewer DEF TypeOK, root
<1> QED BY <1>4, <1>5 DEF start_fork

\* agentctl records the runtime it forked.
LEMMA StartRecordKeeps == ControlInv /\ start_record => ControlInv'
<1> SUFFICES ASSUME ControlInv, start_record PROVE ControlInv' OBVIOUS
<1> DEFINE p == op.pid
<1>1. TypeOK /\ op.pc = "record" /\ p \in Pids /\ Used(p) /\ run[p].by = None
  BY DEF ControlInv, start_record, PidInv, OpInv, Used
<1>2. UNCHANGED <<lock, sock, dpid, daemon, dir, desired, run, backlog, commands, faults>>
  BY DEF start_record, root, Others
<1>3. /\ pidfile' = IF dir THEN p ELSE pidfile
      /\ windows' \subseteq Windows /\ (windows' = {} => windows = {})
      /\ Recorded' => Recorded /\ dir /\ lock = None
  BY <1>1, RecordFacts DEF start_record
<1>4. OpTo("idle", "create", None, FALSE) BY OpIdle DEF start_record
<1>5. \A q \in Pids : Recorded /\ Live(q) => q = p BY <1>1 DEF ControlInv, RunInv, Known
<1> HIDE DEF p
<1>6. TypeOK' BY <1>1, <1>2, <1>3, <1>4 DEF TypeOK, OpTo
<1>7. RootInv' BY <1>2 DEF ControlInv, RootInv, Serving, Listening
<1>8. OpInv' BY <1>4 DEF OpInv, OpTo
<1>9. PidInv' BY <1>1, <1>2, <1>3, <1>8 DEF ControlInv, PidInv, DaemonPids, Used
<1>10. Recorded' => \A d \in Daemons : daemon'[d].pc = "off"
  BY <1>2, <1>3, SMT DEF ControlInv, RootInv
<1>11. RunInv'
  BY <1>1, <1>2, <1>3, <1>4, <1>5, <1>10 DEF RunInv, Known, KnownTo, OpTo, Live
<1>12. StopInv'
  <2> SUFFICES ASSUME windows' = {}
               PROVE  RequestInv' /\ Stops' /\ \A e \in Daemons : WorksFor(e)' /\ Remembers(e)'
    BY DEF StopInv
  <2>1. RequestInv /\ \A e \in Daemons : WorksFor(e)
    BY <1>3 DEF ControlInv, StopInv
  <2>2. RequestInv' /\ Stops'
    BY <1>1, <1>2, <1>4, <2>1 DEF RequestInv, Stops, StopGoesOn, OpTo
  <2>3. \A e \in Daemons : WorksFor(e)' BY <1>1, <1>2, <2>1 DEF WorksFor
  <2>4. \A e \in Daemons : daemon'[e].pc = "off" BY <1>10 DEF Recorded
  <2> QED BY <2>2, <2>3, <2>4 DEF Remembers
<1> QED BY <1>6, <1>7, <1>9, <1>11, <1>12 DEF ControlInv

\* An agentd whose pid file is gone or names a process that ended does not serve.
LEMMA NobodyServes ==
    ASSUME ControlInv, ~agentd_is_alive
    PROVE  \A e \in Daemons : ~Serving(e)
BY DEF ControlInv, TypeOK, RootInv, Serving, agentd_is_alive

\* wait_pid_gone sees the end of the runtime, gives up, or is skipped beside an agentd.
LEMMA GoneKeeps == ControlInv /\ stop_gone => ControlInv'
<1> SUFFICES ASSUME ControlInv, stop_gone PROVE ControlInv' OBVIOUS
<1>1. Fewer /\ TypeOK /\ op.pc = "gone" BY SameFewer DEF ControlInv, stop_gone
<1>2. UNCHANGED <<lock, sock, dpid, daemon, dir, desired, pidfile, run, backlog, commands, faults>>
  BY DEF stop_gone, agent, root, Others
<1>3. ASSUME Op("remove"), windows' \subseteq Windows, Recorded' => Recorded,
             windows' = {} => windows = {} /\ (~op.direct \/ ~run_alive(op.pid))
      PROVE  ControlInv'
  <2>1. OpTo("remove", op.cmd, op.pid, op.direct) BY <1>1, <1>3, OpSet DEF OperatorPc
  <2>2. TypeOK' BY <1>1, <1>2, <1>3, <2>1 DEF TypeOK, OpTo
  <2>3. OpInv' BY <1>1, <1>2, <2>1 DEF ControlInv, PidInv, OpInv, OpTo, Used
  <2>4. RootInv' /\ PidInv' /\ RunInv'
    BY <1>1, <1>2, <1>3, <2>1, <2>3, OperatorKeeps DEF OpTo, root
  <2>5. windows' = {} /\ StopGoesOn /\ op.pid # None => \A p \in Pids : ~Live(p)
    BY <1>1, <1>3 DEF ControlInv, StopInv, Stops, run_alive
  <2>6. windows' = {} => Stops'
    BY <1>1, <1>2, <1>3, <2>1, <2>5 DEF ControlInv, StopInv, Stops, StopGoesOn, OpTo, Live
  <2>7. StopInv' BY <1>1, <1>2, <1>3, <2>1, <2>6, OperatorStops DEF OpTo
  <2> QED BY <2>2, <2>4, <2>7 DEF ControlInv
<1>4. CASE agentd_is_alive /\ Op("remove")
           /\ windows' = IF op.direct THEN windows \cup {"unwaited stop"} ELSE windows
  <2>1. /\ windows' \subseteq Windows /\ (Recorded' => Recorded)
        /\ windows' = {} => windows = {} /\ ~op.direct
    BY <1>1, <1>4 DEF TypeOK, Windows, Recorded
  <2> QED BY <1>3, <1>4, <2>1
<1>5. CASE ~run_alive(op.pid) /\ Op("remove") /\ UNCHANGED windows
  BY <1>1, <1>3, <1>5, SameWindows DEF TypeOK
<1>6. CASE ~agentd_is_alive /\ op' = Idle /\ UNCHANGED windows
  <2>1. OpTo("idle", "create", None, FALSE) BY <1>6, OpIdle
  <2>2. TypeOK' BY <1>1, <1>2, <1>6, <2>1 DEF TypeOK, OpTo
  <2>3. OpInv' BY <2>1 DEF OpInv, OpTo
  <2>4. RootInv' /\ PidInv' /\ RunInv'
    BY <1>1, <1>2, <1>6, <2>1, <2>3, OperatorKeeps, SameWindows DEF OpTo, root
  <2>5. \A e \in Daemons : Remembers(e)'
    BY <1>2, <1>6, NobodyServes DEF Remembers, Serving
  <2>6. StopInv'
    BY <1>1, <1>2, <1>6, <2>1, <2>5
    DEF ControlInv, StopInv, RequestInv, WorksFor, Stops, StopGoesOn, OpTo
  <2> QED BY <2>2, <2>4, <2>6 DEF ControlInv
<1> QED BY <1>4, <1>5, <1>6 DEF stop_gone

\* agentctl kill ends what the pid file names and goes on to the removal.
LEMMA KillKeeps == ControlInv /\ cmd_kill => ControlInv'
<1> SUFFICES ASSUME ControlInv, cmd_kill PROVE ControlInv' OBVIOUS
<1>1. Fewer /\ TypeOK /\ op.pc = "begin" /\ op.cmd = "kill"
  BY KillFewer, SameFewer DEF ControlInv, TypeOK, cmd_kill
<1>2. UNCHANGED <<lock, sock, dpid, daemon, dir, desired, pidfile, backlog, windows, commands, faults>>
  BY DEF cmd_kill, agent, root, Others
<1>3. CASE Op("remove")
  <2>1. OpTo("remove", op.cmd, op.pid, op.direct) BY <1>1, <1>3, OpSet DEF OperatorPc
  <2>2. TypeOK' BY <1>1, <1>2, <2>1 DEF TypeOK, OpTo, Fewer
  <2>3. OpInv' BY <1>1, <1>2, <2>1 DEF ControlInv, PidInv, OpInv, OpTo, Used, Fewer
  <2>4. RootInv' /\ PidInv' /\ RunInv'
    BY <1>1, <1>2, <2>1, <2>3, OperatorKeeps, SameWindows DEF OpTo, root
  <2>5. StopInv' BY <1>1, <1>2, <2>1, OperatorStops DEF OpTo, Stops, StopGoesOn
  <2> QED BY <2>2, <2>4, <2>5 DEF ControlInv
<1>4. CASE op' = Idle
  BY <1>1, <1>2, <1>4, IdleKeeps DEF TypeOK, root
<1> QED BY <1>3, <1>4 DEF cmd_kill

\* Removing over a runtime is a window.
LEMMA LeftFacts ==
    ASSUME TypeOK, windows' = windows \cup Left
    PROVE  /\ windows \subseteq windows' /\ windows' \subseteq Windows
           /\ Recorded' => Recorded /\ \A p \in Pids : ~Live(p)
           /\ windows' = {} => windows = {} /\ \A p \in Pids : ~Live(p)
BY DEF TypeOK, Left, Windows, Recorded

\* agentctl removes the files of the runtime.
LEMMA RemoveKeeps == ControlInv /\ remove_tree => ControlInv'
<1> SUFFICES ASSUME ControlInv, remove_tree PROVE ControlInv' OBVIOUS
<1>1. TypeOK /\ op.pc = "remove" /\ desired' = "none" /\ pidfile' = None
  BY DEF ControlInv, remove_tree
<1>2. UNCHANGED <<lock, sock, dpid, daemon, dir, run, backlog, commands, faults>>
  BY DEF remove_tree, root, Others
<1>3. /\ windows' \subseteq Windows
      /\ Recorded' => Recorded /\ \A p \in Pids : ~Live(p)'
      /\ windows' = {} => windows = {} /\ \A p \in Pids : ~Live(p)'
  BY <1>1, <1>2, LeftFacts DEF remove_tree, Live
<1>4. OpTo("rmdir", op.cmd, op.pid, op.direct) BY <1>1, OpSet DEF remove_tree, OperatorPc
<1>5. TypeOK' BY <1>1, <1>2, <1>3, <1>4 DEF TypeOK, OpTo
<1>6. RootInv' BY <1>2 DEF ControlInv, RootInv, Serving, Listening
<1>7. OpInv' BY <1>1, <1>2, <1>4 DEF ControlInv, PidInv, OpInv, OpTo, Used
<1>8. PidInv' BY <1>1, <1>2, <1>7 DEF ControlInv, PidInv, DaemonPids, Used
<1>9. RunInv' BY <1>3, <1>4 DEF RunInv, OpTo
<1>10. StopInv'
  <2> SUFFICES ASSUME windows' = {}
               PROVE  RequestInv' /\ Stops' /\ \A e \in Daemons : WorksFor(e)' /\ Remembers(e)'
    BY DEF StopInv
  <2>1. RequestInv /\ Stops /\ \A e \in Daemons : WorksFor(e)
    BY <1>3 DEF ControlInv, StopInv
  <2>2. RequestInv' BY <1>1, <1>2, <1>4, <2>1 DEF RequestInv, OpTo
  <2>3. Stops' BY <1>1, <1>2, <1>3, <1>4, <2>1 DEF Stops, StopGoesOn, OpTo
  <2>4. \A e \in Daemons : WorksFor(e)' BY <1>1, <1>2, <2>1 DEF WorksFor
  <2>5. ~run_alive(pidfile)' BY <1>1 DEF run_alive
  <2> QED BY <2>2, <2>3, <2>4, <2>5 DEF Remembers
<1> QED BY <1>5, <1>6, <1>8, <1>9, <1>10 DEF ControlInv

\* agentctl removes the directory.
LEMMA RmdirKeeps == ControlInv /\ remove_rmdir => ControlInv'
<1> SUFFICES ASSUME ControlInv, remove_rmdir PROVE ControlInv' OBVIOUS
<1>1. Fewer /\ TypeOK /\ op.pc = "rmdir" BY SameFewer DEF ControlInv, remove_rmdir
<1>2. UNCHANGED <<lock, sock, dpid, daemon, desired, pidfile, run, backlog, commands, faults>>
  BY DEF remove_rmdir, root, Others
<1>3. CASE desired = "none" /\ pidfile = None
  BY <1>1, <1>2, <1>3, LeftFacts, IdleKeeps DEF remove_rmdir, TypeOK, root
<1>4. CASE ~(desired = "none" /\ pidfile = None) /\ op' = Idle
  BY <1>1, <1>2, <1>4, IdleKeeps DEF remove_rmdir, TypeOK, root
<1>5. CASE /\ ~(desired = "none" /\ pidfile = None) /\ op.cmd = "stop" /\ op.tries < 2
           /\ op' = [op EXCEPT !.pc = "remove", !.tries = op.tries + 1]
  <2>1. OpTo("remove", op.cmd, op.pid, op.direct) BY <1>1, <1>5, OpRetry
  <2>2. UNCHANGED <<dir, windows>> BY <1>5 DEF remove_rmdir
  <2>3. TypeOK' BY <1>1, <1>2, <2>1, <2>2 DEF TypeOK, OpTo
  <2>4. OpInv' BY <1>1, <1>2, <2>1 DEF ControlInv, PidInv, OpInv, OpTo, Used
  <2>5. RootInv' /\ PidInv' /\ RunInv'
    BY <1>1, <1>2, <2>1, <2>2, <2>4, OperatorKeeps, SameWindows DEF OpTo, root
  <2>6. windows = {} => Stops'
    BY <1>1, <1>2, <2>1, <2>2 DEF ControlInv, StopInv, Stops, StopGoesOn, OpTo, Live
  <2>7. StopInv' BY <1>1, <1>2, <2>1, <2>2, <2>6, OperatorStops
  <2> QED BY <2>3, <2>5, <2>7 DEF ControlInv
<1> QED BY <1>3, <1>4, <1>5 DEF remove_rmdir

-----------------------------------------------------------------------------
(* The theorems *)

\* The invariant holds at first, when nothing runs.
LEMMA ControlInvInit == Init => ControlInv
<1> SUFFICES ASSUME Init PROVE ControlInv OBVIOUS
<1>1. Idle \in Operator /\ Idle.pc = "idle" /\ Idle.pid = None /\ Idle.cmd = "create"
  BY SMT DEF Idle, Operator, OperatorPc, Commands
<1>2. \A d \in Daemons : daemon[d] = Off BY DEF Init
<1>3. daemon \in [Daemons -> Daemon] BY OffType DEF Init
<1> DEFINE r == [pc |-> "off", term |-> FALSE, by |-> None]
<1>4. r \in Runtime /\ r.pc = "off" BY DEF Runtime
<1>5. run \in [Pids -> Runtime] /\ \A p \in Pids : run[p].pc = "off" BY <1>4 DEF Init
<1>6. TypeOK
  <2>1. backlog \in Seq(Request) /\ windows \subseteq Windows BY SMT DEF Init
  <2>2. 0 \in 0 .. MaxCommands /\ 0 \in 0 .. MaxFaults BY SMT
  <2> QED BY <1>1, <1>3, <1>5, <2>1, <2>2 DEF Init, TypeOK
<1>7. RootInv BY <1>2, OffType DEF Init, RootInv, Serving, Listening
<1>8. PidInv BY <1>1, <1>2, OffType DEF Init, PidInv, OpInv, DaemonPids
<1>9. RunInv BY <1>2, <1>5, OffType DEF RunInv, Live
<1>10. StopInv
  BY <1>1, <1>2, OffType DEF Init, StopInv, RequestInv, Stops, StopGoesOn, WorksFor, Remembers
<1> QED BY <1>6, <1>7, <1>8, <1>9, <1>10 DEF ControlInv

\* Every step keeps it.
LEMMA ControlInvStep == ControlInv /\ [Next]_vars => ControlInv'
<1> SUFFICES ASSUME ControlInv, [Next]_vars PROVE ControlInv' OBVIOUS
<1>1. ASSUME NEW d \in Daemons, agentctl_root_lock(d) \/ Agentd(d) \/ Die(d)
      PROVE  ControlInv'
  BY <1>1, LockKeeps, BindKeeps, WritePidKeeps, RecoverKeeps, WantedKeeps, ReapKeeps, ExternalKeeps,
     ReconcileKeeps, SpawnKeeps, SpawnRecordKeeps, StopKeeps, StopDoneKeeps, StopTimeoutKeeps,
     HandleKeeps, ReplyKeeps, CloseKeeps, UnlinkKeeps, UnlinkPidKeeps, ExitKeeps, DieKeeps
  DEF Agentd
<1>2. ASSUME NEW p \in Pids, Test(p) \/ Sleep(p) \/ Wake(p) \/ Crash(p)
      PROVE  ControlInv'
  BY <1>2, RuntimesKeep
<1>3. CASE Begin \/ Agentctl
  BY <1>3, BeginKeeps, CreateKeeps, StartKeeps, SettingKeeps, StopCmdKeeps, LookKeeps, AskKeeps,
     NoAnswerKeeps, StartForkKeeps, StartRecordKeeps, GoneKeeps, KillKeeps, RemoveKeeps, RmdirKeeps
  DEF Agentctl
<1>4. CASE UNCHANGED vars
  <2>1. Fewer BY <1>4, SameFewer DEF ControlInv, vars
  <2> QED BY <1>4, <2>1, RuntimeKeeps DEF ControlInv, TypeOK, vars
<1> QED BY <1>1, <1>2, <1>3, <1>4 DEF Next

\* ControlInv holds throughout (agentd.c and agentctl.c, for any number of processes,
\* commands and crashes).
THEOREM ControlInvAlways == Spec => []ControlInv
BY ControlInvInit, ControlInvStep, PTL DEF Spec

\* The variables keep their types.
THEOREM ControlTypeOK == Spec => []TypeOK
<1>1. ControlInv => TypeOK BY DEF ControlInv
<1> QED BY <1>1, ControlInvAlways, PTL

\* The socket and the pid in the root are those of the agentd that holds the lock,
\* whatever its predecessors left behind (agentctl_root_lock, bind_control_socket,
\* the end of main).
THEOREM ReachableAlways == Spec => []Reachable
<1>1. ControlInv => Reachable
  <2> SUFFICES ASSUME ControlInv, NEW d \in Daemons, Serving(d)
               PROVE  lock = d /\ sock = d /\ dpid = d
    BY DEF Reachable
  <2>1. daemon[d].pc # "off" BY DEF Serving
  <2> QED BY <2>1 DEF ControlInv, RootInv
<1> QED BY <1>1, ControlInvAlways, PTL

\* The agent has one runtime at most, with and without agentd, where no fork went
\* unrecorded and no direct start ran beside an agentd (spawn_agent, cmd_start).
THEOREM OneRuntimeAlways == Spec => []OneRuntime
<1>1. ControlInv => OneRuntime
  BY SMT DEF ControlInv, RunInv, OneRuntime, Known, KnownTo
<1> QED BY <1>1, ControlInvAlways, PTL

\* stop removes the directory of an agent that has no runtime any more (cmd_stop,
\* stop_agent, wait_pid_gone).
THEOREM StopLeavesNothingAlways == Spec => StopLeavesNothing
<1>1. ControlInv =>
         (/\ op.pc = "remove" /\ op.cmd = "stop" /\ op.pid # None /\ windows = {}
          /\ pidfile' # pidfile
          => \A p \in Pids : ~Live(p))
  BY DEF ControlInv, StopInv, Stops, StopGoesOn
<1> QED BY <1>1, ControlInvAlways, PTL DEF StopLeavesNothing
=============================================================================
