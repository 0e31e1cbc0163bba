--------------------------- MODULE ExchangeProofs ---------------------------
(***************************************************************************)
(* For every number of agents, processes, threads and requests: the two    *)
(* locks of ipc.c make a broker request and its answer one critical        *)
(* section, and every answer is read by the thread that asked.             *)
(***************************************************************************)
EXTENDS Exchange, TLAPS

\* Sequences of length one.
LEMMA NoneLeft == ASSUME NEW S, NEW s \in Seq(S), s # <<>> PROVE Len(s) # 0
BY SMT

\* A queue of one is empty after its head was taken.
LEMMA SingleFacts ==
    ASSUME NEW S, NEW s \in Seq(S), Len(s) = 1
    PROVE  Tail(s) = <<>> /\ Head(s) = s[1]
<1>1. Len(s) > 0 BY SMT
<1>2. Tail(s) \in Seq(S) /\ Len(Tail(s)) = 0 BY <1>1, SMT
<1>3. Tail(s) = <<>> BY <1>2, NoneLeft
<1> QED BY <1>3, SMT

USE Zenon, ExchangeAssumption DEF ExchangeAssumption


(***************************************************************************)
(* The locks. A thread with the flag is alone with it in its process, and  *)
(* one with the record lock is in the process that owns it; two threads    *)
(* inside would be in one process. A process that is down has no thread in *)
(* ipc_connect, so that a flag which fork copied or spawn reset is nobody's.*)
(***************************************************************************)
Down == /\ \A t \in Threads : ~up[ProcOf[t]] => thread[t] = Idle
        /\ \A p \in Procs : up[p] => up[Leader[AgentOf[p]]]

Flags == /\ \A t \in Threads : thread[t].pc \in Guarded => flag[ProcOf[t]]
         /\ \A t, u \in Threads :
               /\ ProcOf[t] = ProcOf[u] /\ t # u
               /\ thread[t].pc \in Guarded
               => thread[u].pc \notin Guarded

Locks == \A t \in Threads : thread[t].pc \in Inside => lock[Of(t)] = ProcOf[t]

LockInv == ETypeOK /\ Down /\ Flags /\ Locks

\* Append, Head and Tail keep the type of a queue.
LEMMA SeqFacts ==
    ASSUME NEW S, NEW s \in Seq(S), NEW e \in S
    PROVE  /\ Append(s, e) \in Seq(S)
           /\ s # <<>> => Head(s) \in S /\ Tail(s) \in Seq(S)
BY SMT

\* A thread outside ipc_connect holds no lock and no answer.
LEMMA IdleState == Idle \in ThreadState /\ Idle.pc \notin Guarded /\ Idle.answer = None
BY DEF Idle, At, ThreadState, Places, Guarded, Inside

\* The locks are free at first.
LEMMA LockInvInit == EInit => LockInv
<1> SUFFICES ASSUME EInit PROVE LockInv OBVIOUS
<1>1. \A t \in Threads : thread[t] = Idle BY DEF EInit
<1>2. thread \in [Threads -> ThreadState] BY IdleState DEF EInit
<1>3. ETypeOK BY <1>2, SMT DEF EInit, ETypeOK, QueuesTypeOK
<1>4. Down BY <1>1 DEF EInit, Down
<1>5. Flags /\ Locks BY <1>1, IdleState DEF Flags, Locks, Guarded
<1> QED BY <1>3, <1>4, <1>5 DEF LockInv

\* Two threads of an agent inside the exchange would be in one process, which has the
\* record lock, and both past its flag.
LEMMA LockInvExclusive == LockInv => ExchangeExclusive
BY SMT DEF LockInv, ETypeOK, Flags, Locks, ExchangeExclusive, Guarded, Inside, Of

\* The channel is untouched.
LEMMA QueuesSame == QueuesTypeOK /\ UNCHANGED <<req, held, ans>> => QueuesTypeOK'
BY DEF QueuesTypeOK

\* What moving one thread does.
Moved(t, pc) == /\ thread' \in [Threads -> ThreadState]
                /\ thread'[t].pc = pc
                /\ \A u \in Threads \ {t} : thread'[u] = thread[u]

\* Goto changes a thread's place only.
LEMMA GotoMoves ==
    ASSUME ETypeOK, NEW t \in Threads, NEW pc \in Places, Goto(t, pc)
    PROVE  Moved(t, pc) /\ thread'[t].answer = thread[t].answer
<1>1. thread[t] \in ThreadState BY DEF ETypeOK
<1>2. [thread[t] EXCEPT !.pc = pc] = At(pc, thread[t].request, thread[t].answer)
  BY <1>1, SMT DEF At, ThreadState
<1>3. At(pc, thread[t].request, thread[t].answer) \in ThreadState
  BY <1>1 DEF At, ThreadState
<1>4. thread' = [thread EXCEPT ![t] = At(pc, thread[t].request, thread[t].answer)]
  BY <1>2 DEF Goto, ETypeOK
<1> QED BY <1>3, <1>4 DEF Moved, ETypeOK, At

\* A thread is set to a place, a request and an answer.
LEMMA SetMoves ==
    ASSUME ETypeOK, NEW t \in Threads, NEW pc \in Places, NEW r \in Requests \cup {None},
           NEW x \in Tagged(Answers) \cup {None},
           thread' = [thread EXCEPT ![t] = At(pc, r, x)]
    PROVE  Moved(t, pc) /\ thread'[t].answer = x
BY DEF Moved, ETypeOK, At, ThreadState

\* A thread outside of both locks moves outside of both.
LEMMA OutsideMoves ==
    ASSUME LockInv, NEW t \in Threads, NEW pc \in Places \ Guarded, Moved(t, pc),
           thread'[t] = Idle \/ up[ProcOf[t]],
           UNCHANGED <<up, flag, lock>>
    PROVE  Down' /\ Flags' /\ Locks'
<1>1. Down' BY DEF LockInv, Down, Moved
<1>2. Flags' BY DEF LockInv, Flags, Moved
<1>3. Locks' BY DEF LockInv, Locks, Moved, Of, Guarded
<1> QED BY <1>1, <1>2, <1>3

\* A thread with the flag keeps it.
LEMMA GuardedMoves ==
    ASSUME LockInv, NEW t \in Threads, NEW pc \in Guarded, Moved(t, pc),
           thread[t].pc \in Guarded, UNCHANGED flag
    PROVE  Flags'
BY DEF LockInv, Flags, Moved

\* A thread inside moves on inside.
LEMMA InsideMoves ==
    ASSUME LockInv, NEW t \in Threads, NEW pc \in Inside, Moved(t, pc),
           thread[t].pc \in Inside, UNCHANGED <<up, flag, lock>>
    PROVE  Down' /\ Flags' /\ Locks'
<1>0. thread[t] # Idle BY SMT DEF Idle, At, Inside
<1>1. Down' BY <1>0 DEF LockInv, Down, Moved
<1>2. Flags' BY GuardedMoves DEF Guarded
<1>3. Locks' BY DEF LockInv, Locks, Moved, Of
<1> QED BY <1>1, <1>2, <1>3

\* A thread enters ipc_connect, before the flag.
LEMMA LockInvCall ==
    ASSUME LockInv, NEW t \in Threads, NEW r \in Requests, Call(t, r)
    PROVE  LockInv'
<1>1. Moved(t, "spin")
  BY SetMoves DEF LockInv, Call, Places
<1>2. Down' /\ Flags' /\ Locks'
  BY <1>1, OutsideMoves DEF Call, Places, Guarded, Inside
<1>3. ETypeOK' BY <1>1, QueuesSame DEF LockInv, ETypeOK, Moved, Call, Queues
<1> QED BY <1>2, <1>3 DEF LockInv

\* A thread leaves it, after both locks were given back.
LEMMA LockInvReturn ==
    ASSUME LockInv, NEW t \in Threads, Return(t)
    PROVE  LockInv'
<1>1. Moved(t, "idle") /\ thread'[t] = Idle
  BY SetMoves DEF LockInv, ETypeOK, Return, Idle, Places
<1>2. Down' /\ Flags' /\ Locks'
  BY <1>1, OutsideMoves DEF Return, Places, Guarded, Inside
<1>3. ETypeOK' BY <1>1, QueuesSame DEF LockInv, ETypeOK, Moved, Return, Queues
<1> QED BY <1>2, <1>3 DEF LockInv

\* The flag was clear, so no thread of the process had it.
LEMMA LockInvSpin ==
    ASSUME LockInv, NEW t \in Threads, Spin(t)
    PROVE  LockInv'
<1>1. Moved(t, "wait") BY GotoMoves DEF LockInv, Spin, Places
<1>2. thread[t] # Idle BY SMT DEF Spin, Idle, At
<1>3. ETypeOK' BY <1>1, QueuesSame DEF LockInv, ETypeOK, Moved, Spin, Queues
<1>4. Down' BY <1>1, <1>2 DEF LockInv, Down, Moved, Spin
<1>5. Flags' BY <1>1 DEF LockInv, ETypeOK, Flags, Moved, Spin
<1>6. Locks' BY <1>1 DEF LockInv, Locks, Moved, Spin, Of, Inside
<1> QED BY <1>3, <1>4, <1>5, <1>6 DEF LockInv

\* Whoever is inside with the same owner is in this thread's process, and so
\* would have the flag this thread has.
LEMMA LockInvLock ==
    ASSUME LockInv, NEW t \in Threads, Lock(t)
    PROVE  LockInv'
<1>1. Moved(t, "locked") BY GotoMoves DEF LockInv, Lock, Places
<1>2. thread[t] # Idle BY SMT DEF Lock, Idle, At
<1>3. ETypeOK' BY <1>1, QueuesSame DEF LockInv, ETypeOK, Moved, Lock, Queues, Of
<1>4. Down' BY <1>1, <1>2, SMT DEF LockInv, Down, Moved, Lock
<1>5. Flags' BY <1>1, GuardedMoves DEF Lock, Guarded, Inside
<1>6. Locks'
  <2> SUFFICES ASSUME NEW u \in Threads, thread'[u].pc \in Inside
               PROVE  lock'[Of(u)] = ProcOf[u]
    BY DEF Locks, Of
  <2>1. CASE u = t BY <2>1 DEF LockInv, ETypeOK, Lock, Of
  <2>2. CASE u # t
    <3>1. lock[Of(u)] = ProcOf[u] /\ ProcOf[u] \in Procs
      BY <1>1, <2>2 DEF LockInv, Locks, Moved
    <3>2. CASE Of(u) # Of(t) BY <3>1, <3>2 DEF LockInv, ETypeOK, Lock, Of
    <3>3. CASE Of(u) = Of(t) BY <3>1, <3>3 DEF LockInv, ETypeOK, Lock, Of
    <3> QED BY <3>2, <3>3
  <2> QED BY <2>1, <2>2
<1> QED BY <1>3, <1>4, <1>5, <1>6 DEF LockInv

\* fcntl fails: the thread goes on to release the flag.
LEMMA LockInvLockFails ==
    ASSUME LockInv, NEW t \in Threads, LockFails(t)
    PROVE  LockInv'
<1>1. Moved(t, "release") BY GotoMoves DEF LockInv, LockFails, Places
<1>2. thread[t] # Idle BY SMT DEF LockFails, Idle, At
<1>3. ETypeOK' BY <1>1, QueuesSame DEF LockInv, ETypeOK, Moved, LockFails, Queues
<1>4. Down' BY <1>1, <1>2 DEF LockInv, Down, Moved, LockFails
<1>5. Flags' BY <1>1, GuardedMoves DEF LockFails, Guarded, Inside
<1>6. Locks' BY <1>1 DEF LockInv, Locks, Moved, LockFails, Of, Inside
<1> QED BY <1>3, <1>4, <1>5, <1>6 DEF LockInv

\* A request is sent under both locks.
LEMMA LockInvSend ==
    ASSUME LockInv, NEW t \in Threads, Send(t)
    PROVE  LockInv'
<1>1. PICK pc \in {"sent", "unlock"} : Moved(t, pc)
  BY GotoMoves DEF LockInv, Send, Places
<1>2. Down' /\ Flags' /\ Locks' BY <1>1, InsideMoves DEF Send, Inside
<1>3. req' \in [Agents -> Seq(Tagged(Requests \cup {None}))]
  <2>1. CASE open[Of(t)]
    <3> DEFINE S == Tagged(Requests \cup {None})
               e == [by |-> t, is |-> thread[t].request]
    <3>1. e \in S BY DEF LockInv, ETypeOK, ThreadState, Tagged
    <3>2. req \in [Agents -> Seq(S)] BY DEF LockInv, ETypeOK, QueuesTypeOK
    <3>3. req' = [req EXCEPT ![Of(t)] = Append(@, e)] BY <2>1 DEF Send
    <3> HIDE DEF S, e
    <3>4. Append(req[Of(t)], e) \in Seq(S) BY <3>1, <3>2, SeqFacts DEF Of
    <3>5. req' \in [Agents -> Seq(S)] BY <3>2, <3>3, <3>4
    <3> QED BY <3>5 DEF S
  <2>2. CASE ~open[Of(t)] BY <2>2 DEF LockInv, ETypeOK, QueuesTypeOK, Send
  <2> QED BY <2>1, <2>2
<1>4. QueuesTypeOK' BY <1>3 DEF LockInv, ETypeOK, QueuesTypeOK, Send
<1>5. ETypeOK' BY <1>1, <1>4 DEF LockInv, ETypeOK, Moved, Send
<1> QED BY <1>2, <1>5 DEF LockInv

\* An answer is read under both locks.
LEMMA LockInvReceive ==
    ASSUME LockInv, NEW t \in Threads, Receive(t)
    PROVE  LockInv' /\ Moved(t, "unlock")
<1>1. CASE ans[Of(t)] # <<>>
  <2>1. Head(ans[Of(t)]) \in Tagged(Answers)
    BY <1>1, SeqFacts, SMT DEF LockInv, ETypeOK, QueuesTypeOK, Of
  <2>2. thread[t] \in ThreadState BY DEF LockInv, ETypeOK
  <2>4. thread' = [thread EXCEPT ![t] = At("unlock", thread[t].request, Head(ans[Of(t)]))]
    BY <1>1 DEF Receive
  <2>5. Moved(t, "unlock")
    BY <2>1, <2>2, <2>4, SetMoves DEF LockInv, Places, ThreadState
  <2>6. Down' /\ Flags' /\ Locks' BY <2>5, InsideMoves DEF Receive, Inside
  <2>7. ans' \in [Agents -> Seq(Tagged(Answers))]
    <3> DEFINE S == Tagged(Answers)
    <3>1. ans \in [Agents -> Seq(S)] /\ Head(ans[Of(t)]) \in S
      BY <2>1 DEF LockInv, ETypeOK, QueuesTypeOK
    <3> HIDE DEF S
    <3>2. Tail(ans[Of(t)]) \in Seq(S) BY <1>1, <3>1, SeqFacts DEF Of
    <3>3. ans' = [ans EXCEPT ![Of(t)] = Tail(@)] BY <1>1 DEF Receive
    <3>4. ans' \in [Agents -> Seq(S)] BY <3>1, <3>2, <3>3
    <3> QED BY <3>4 DEF S
  <2>8. QueuesTypeOK' BY <2>7 DEF LockInv, ETypeOK, QueuesTypeOK, Receive
  <2>9. ETypeOK' BY <2>5, <2>8 DEF LockInv, ETypeOK, Moved, Receive
  <2> QED BY <2>5, <2>6, <2>9 DEF LockInv
<1>2. CASE ans[Of(t)] = <<>>
  <2>1. Moved(t, "unlock") BY <1>2, GotoMoves DEF LockInv, Receive, Places
  <2>2. Down' /\ Flags' /\ Locks' BY <2>1, InsideMoves DEF Receive, Inside
  <2>3. ETypeOK' BY <1>2, <2>1, QueuesSame DEF LockInv, ETypeOK, Moved, Receive
  <2> QED BY <2>1, <2>2, <2>3 DEF LockInv
<1> QED BY <1>1, <1>2

\* Giving the record lock back takes it from nobody: whoever is inside with the
\* same owner is the thread itself.
LEMMA LockInvUnlock ==
    ASSUME LockInv, NEW t \in Threads, Unlock(t)
    PROVE  LockInv'
<1>1. Moved(t, "release") BY GotoMoves DEF LockInv, Unlock, Places
<1>2. thread[t] # Idle BY SMT DEF Unlock, Idle, At
<1>3. ETypeOK' BY <1>1, QueuesSame DEF LockInv, ETypeOK, Moved, Unlock, Queues, Of
<1>4. Down' BY <1>1, <1>2 DEF LockInv, Down, Moved, Unlock
<1>5. Flags' BY <1>1, GuardedMoves DEF Unlock, Guarded, Inside
<1>6. Locks'
  <2> SUFFICES ASSUME NEW u \in Threads, thread'[u].pc \in Inside
               PROVE  lock'[Of(u)] = ProcOf[u]
    BY DEF Locks, Of
  <2>1. u # t /\ thread[u].pc \in Inside BY <1>1 DEF Moved, Inside
  <2>2. Of(u) # Of(t)
    BY <2>1, LockInvExclusive DEF ExchangeExclusive, Unlock, Inside
  <2> QED BY <2>1, <2>2 DEF LockInv, ETypeOK, Locks, Unlock, Of
<1> QED BY <1>3, <1>4, <1>5, <1>6 DEF LockInv

\* The flag is given back, by the thread that has it.
LEMMA LockInvRelease ==
    ASSUME LockInv, NEW t \in Threads, Release(t)
    PROVE  LockInv'
<1>1. Moved(t, "done") BY GotoMoves DEF LockInv, Release, Places
<1>2. thread[t] # Idle BY SMT DEF Release, Idle, At
<1>3. ETypeOK' BY <1>1, QueuesSame DEF LockInv, ETypeOK, Moved, Release, Queues
<1>4. Down' BY <1>1, <1>2 DEF LockInv, Down, Moved, Release
<1>5. Flags'
  <2>1. "release" \in Guarded /\ "done" \notin Guarded BY DEF Guarded, Inside
  <2> QED BY <1>1, <2>1, SMT DEF LockInv, ETypeOK, Flags, Moved, Release
<1>6. Locks' BY <1>1 DEF LockInv, Locks, Moved, Release, Of, Inside
<1> QED BY <1>3, <1>4, <1>5, <1>6 DEF LockInv

\* A child starts with a copy of the flag and no thread inside; it inherits no record
\* lock.
LEMMA LockInvFork ==
    ASSUME LockInv, NEW p \in Procs, NEW q \in Procs, Fork(p, q)
    PROVE  LockInv'
<1>1. ETypeOK' BY QueuesSame DEF LockInv, ETypeOK, Fork, Queues
<1>2. Down' BY DEF LockInv, ETypeOK, Down, Fork, Queues
<1>3. Flags'
  BY SMT DEF LockInv, ETypeOK, Down, Flags, Fork, Queues, Idle, At, Guarded, Inside
<1>4. Locks' BY DEF LockInv, ETypeOK, Locks, Fork, Queues, Of
<1> QED BY <1>1, <1>2, <1>3, <1>4 DEF LockInv

\* A process dies: the kernel releases its record lock.
LEMMA LockInvDie ==
    ASSUME LockInv, NEW q \in Procs, Die(q)
    PROVE  LockInv'
<1>1. ETypeOK' BY QueuesSame, IdleState DEF LockInv, ETypeOK, Die, Queues
<1>2. Down' BY DEF LockInv, ETypeOK, Down, Die, Queues, Idle, At
<1>3. Flags' BY DEF LockInv, ETypeOK, Flags, Die, Queues, Idle, At, Guarded, Inside
<1>4. Locks' BY DEF LockInv, ETypeOK, Locks, Die, Queues, Idle, At, Inside, Of
<1> QED BY <1>1, <1>2, <1>3, <1>4 DEF LockInv

\* All processes of an agent die.
LEMMA LockInvKill ==
    ASSUME LockInv, NEW a \in Agents, Kill(a)
    PROVE  LockInv'
<1>0. QueuesTypeOK'
  <2> DEFINE S == Tagged(Answers)
  <2>1. ans \in [Agents -> Seq(S)] BY DEF LockInv, ETypeOK, QueuesTypeOK
  <2>2. ans' = [ans EXCEPT ![a] = <<>>] BY DEF Kill
  <2> HIDE DEF S
  <2>3. ans' \in [Agents -> Seq(S)] BY <2>1, <2>2, SMT
  <2> QED BY <2>3 DEF LockInv, ETypeOK, QueuesTypeOK, Kill, S
<1>1. ETypeOK' BY <1>0, IdleState DEF LockInv, ETypeOK, Kill
<1>2. Down' BY DEF LockInv, ETypeOK, Down, Kill, Idle, At, Of
<1>3. Flags' BY DEF LockInv, ETypeOK, Flags, Kill, Idle, At, Guarded, Inside, Of
<1>4. Locks' BY DEF LockInv, ETypeOK, Locks, Kill, Idle, At, Inside, Of
<1> QED BY <1>1, <1>2, <1>3, <1>4 DEF LockInv

\* A new instance of an agent starts with a flag of its own.
LEMMA LockInvSpawn ==
    ASSUME LockInv, NEW a \in Agents, Spawn(a)
    PROVE  LockInv'
<1>0. QueuesTypeOK'
  <2> DEFINE S == Tagged(Requests \cup {None})
  <2>1. req \in [Agents -> Seq(S)] BY DEF LockInv, ETypeOK, QueuesTypeOK
  <2>2. req' = [req EXCEPT ![a] = <<>>] BY DEF Spawn
  <2> HIDE DEF S
  <2>3. req' \in [Agents -> Seq(S)] BY <2>1, <2>2, SMT
  <2> QED BY <2>3 DEF LockInv, ETypeOK, QueuesTypeOK, Spawn, S
<1>1. ETypeOK' BY <1>0 DEF LockInv, ETypeOK, Spawn
<1>2. Down' BY DEF LockInv, ETypeOK, Down, Spawn
<1>3. Flags' BY SMT DEF LockInv, ETypeOK, Down, Flags, Spawn, Idle, At, Guarded, Inside
<1>4. Locks' BY DEF LockInv, ETypeOK, Locks, Spawn, Of
<1> QED BY <1>1, <1>2, <1>3, <1>4 DEF LockInv

\* What agentd does touches neither lock.
LEMMA LockInvAgentd ==
    ASSUME LockInv, NEW a \in Agents,
           Take(a) \/ HangUp(a) \/ \E x \in Answers : Answer(a, x)
    PROVE  LockInv'
<1>1. QueuesTypeOK'
  <2>1. CASE Take(a)
    <3> DEFINE S == Tagged(Requests \cup {None})
    <3>1. req \in [Agents -> Seq(S)] /\ held \in [Agents -> S \cup {None}]
      BY DEF LockInv, ETypeOK, QueuesTypeOK
    <3>2. held' = [held EXCEPT ![a] = Head(req[a])] /\ req' = [req EXCEPT ![a] = Tail(@)]
      BY <2>1 DEF Take
    <3> HIDE DEF S
    <3>3. Head(req[a]) \in S /\ Tail(req[a]) \in Seq(S)
      BY <2>1, <3>1, SeqFacts, SMT DEF Take
    <3>4. req' \in [Agents -> Seq(S)] /\ held' \in [Agents -> S \cup {None}]
      BY <3>1, <3>2, <3>3
    <3> QED BY <2>1, <3>4 DEF LockInv, ETypeOK, QueuesTypeOK, Take, S
  <2>2. CASE HangUp(a)
    <3> DEFINE S == Tagged(Requests \cup {None})
    <3>1. req \in [Agents -> Seq(S)] /\ held \in [Agents -> S \cup {None}]
      BY DEF LockInv, ETypeOK, QueuesTypeOK
    <3>2. held' = [held EXCEPT ![a] = None] /\ req' = [req EXCEPT ![a] = <<>>]
      BY <2>2 DEF HangUp
    <3> HIDE DEF S
    <3>3. req' \in [Agents -> Seq(S)] /\ held' \in [Agents -> S \cup {None}]
      BY <3>1, <3>2, SMT
    <3> QED BY <2>2, <3>3 DEF LockInv, ETypeOK, QueuesTypeOK, HangUp, S
  <2>3. ASSUME NEW x \in Answers, Answer(a, x) PROVE QueuesTypeOK'
    <3>1. held[a] \in Tagged(Requests \cup {None})
      BY <2>3 DEF LockInv, ETypeOK, QueuesTypeOK, Answer
    <3>2. [by |-> held[a].by, is |-> x] \in Tagged(Answers) BY <3>1 DEF Tagged
    <3> DEFINE S == Tagged(Answers)
    <3>3. ans \in [Agents -> Seq(S)] BY DEF LockInv, ETypeOK, QueuesTypeOK
    <3>4. [by |-> held[a].by, is |-> x] \in S BY <3>2
    <3> HIDE DEF S
    <3>5. ans' \in [Agents -> Seq(S)] BY <2>3, <3>3, <3>4, SeqFacts DEF Answer
    <3>6. held' \in [Agents -> Tagged(Requests \cup {None}) \cup {None}]
      BY <2>3 DEF LockInv, ETypeOK, QueuesTypeOK, Answer
    <3> QED BY <2>3, <3>5, <3>6 DEF LockInv, ETypeOK, QueuesTypeOK, Answer, S
  <2> QED BY <2>1, <2>2, <2>3
<1>2. UNCHANGED <<up, flag, lock, thread, orphaned>> BY DEF Take, HangUp, Answer
<1>0. ETypeOK' BY <1>1, <1>2 DEF LockInv, ETypeOK, Take, HangUp, Answer
<1>3. Down' BY <1>2 DEF LockInv, Down
<1>4. Flags' BY <1>2 DEF LockInv, Flags
<1>5. Locks' BY <1>2 DEF LockInv, Locks, Of
<1> QED BY <1>0, <1>3, <1>4, <1>5 DEF LockInv

\* One step of the environment, agentd or a thread.
LEMMA LockInvNext == LockInv /\ [ENext]_evars => LockInv'
<1> SUFFICES ASSUME LockInv, [ENext]_evars PROVE LockInv' OBVIOUS
<1>1. CASE UNCHANGED evars
  BY <1>1 DEF evars, LockInv, ETypeOK, QueuesTypeOK, Down, Flags, Locks, Of
<1>2. CASE \E t \in Threads : ThreadStep(t) \/ Return(t) \/ \E r \in Requests : Call(t, r)
  BY <1>2, LockInvCall, LockInvReturn, LockInvSpin, LockInvLock, LockInvLockFails,
     LockInvSend, LockInvReceive, LockInvUnlock, LockInvRelease DEF ThreadStep
<1>3. CASE \E p, q \in Procs : Fork(p, q) BY <1>3, LockInvFork
<1>4. CASE \E q \in Procs : Die(q) BY <1>4, LockInvDie
<1>5. CASE \E a \in Agents : Kill(a) \/ Spawn(a) BY <1>5, LockInvKill, LockInvSpawn
<1>6. CASE \E a \in Agents : Take(a) \/ HangUp(a) BY <1>6, LockInvAgentd
<1>7. CASE \E a \in Agents, x \in Answers : Answer(a, x) BY <1>7, LockInvAgentd
<1> QED BY <1>1, <1>2, <1>3, <1>4, <1>5, <1>6, <1>7 DEF ENext

\* No two threads of an agent, in whichever of its processes, are in a broker
\* exchange at a time: the flag and the record lock of ipc.c together exclude
\* what neither excludes alone.
THEOREM ExchangesExclude == ESpec => []ExchangeExclusive
<1>1. LockInv /\ [ENext]_evars => LockInv' BY LockInvNext
<1> QED BY <1>1, LockInvInit, LockInvExclusive, PTL DEF ESpec



(***************************************************************************)
(* The answers. While no process died in an exchange, what is in an        *)
(* agent's channel is the request of its one thread that waits, or the     *)
(* answer to it, and nothing when none waits.                              *)
(***************************************************************************)
Empty(a) == req[a] = <<>> /\ held[a] = None /\ ans[a] = <<>>

Pending(a, t) ==
    \/ Len(req[a]) = 1 /\ req[a][1].by = t /\ held[a] = None /\ ans[a] = <<>>
    \/ req[a] = <<>> /\ held[a].by = t /\ ans[a] = <<>>
    \/ req[a] = <<>> /\ held[a] = None /\ Len(ans[a]) = 1 /\ ans[a][1].by = t
    \/ Empty(a) /\ ~open[a]

Waits(a, t) == Of(t) = a /\ thread[t].pc = "sent"

ChannelOK(a) ==
    /\ \A t \in Threads : Waits(a, t) => Pending(a, t)
    /\ (\A t \in Threads : ~Waits(a, t)) => Empty(a)

ChannelInv ==
    \A a \in Agents :
       /\ ~open[a] => req[a] = <<>> /\ held[a] = None
       /\ ~up[Leader[a]] => ans[a] = <<>>
       /\ up[Leader[a]] /\ ~orphaned[a] => ChannelOK(a)

AnswerInv == LockInv /\ ChannelInv /\ OwnAnswer

\* The channels are empty at first.
LEMMA AnswerInvInit == EInit => AnswerInv
<1> SUFFICES ASSUME EInit PROVE AnswerInv OBVIOUS
<1>1. \A t \in Threads : thread[t].answer = None /\ thread[t].pc = "idle"
  BY DEF EInit, Idle, At
<1>2. ChannelInv BY <1>1 DEF EInit, ChannelInv, ChannelOK, Waits, Empty
<1>3. OwnAnswer BY <1>1 DEF OwnAnswer
<1> QED BY <1>2, <1>3, LockInvInit DEF AnswerInv

\* A thread moves without waiting before or after, and takes no answer.
LEMMA QuietMoves ==
    ASSUME AnswerInv, NEW t \in Threads, NEW pc \in Places, Moved(t, pc),
           pc # "sent", thread[t].pc # "sent",
           thread'[t].answer \in {None, thread[t].answer},
           UNCHANGED <<up, open, req, held, ans, orphaned>>
    PROVE  ChannelInv' /\ OwnAnswer'
<1>1. \A u \in Threads, a \in Agents : Waits(a, u)' <=> Waits(a, u)
  BY DEF Waits, Moved, Of
<1>2. \A a \in Agents : ChannelOK(a) => ChannelOK(a)'
  BY <1>1 DEF ChannelOK, Pending, Empty
<1>3. ChannelInv' BY <1>2 DEF AnswerInv, ChannelInv
<1>4. OwnAnswer' BY DEF AnswerInv, OwnAnswer, Moved, Of
<1> QED BY <1>3, <1>4

\* Steps of a thread that do not touch the channel.
LEMMA AnswerInvQuiet ==
    ASSUME AnswerInv, NEW t \in Threads,
           \/ (\E r \in Requests : Call(t, r)) \/ Return(t) \/ Spin(t) \/ Lock(t) \/ LockFails(t)
           \/ Unlock(t) \/ Release(t)
    PROVE  ChannelInv' /\ OwnAnswer'
<1>0. ETypeOK BY DEF AnswerInv, LockInv
<1>1. ASSUME NEW r \in Requests, Call(t, r) PROVE ChannelInv' /\ OwnAnswer'
  <2>1. Moved(t, "spin") /\ thread'[t].answer = None
    <3>1. thread' = [thread EXCEPT ![t] = At("spin", r, None)] BY <1>1 DEF Call
    <3>2. "spin" \in Places BY DEF Places
    <3>3. r \in Requests \cup {None} /\ None \in Tagged(Answers) \cup {None} OBVIOUS
    <3> QED BY <1>0, <3>1, <3>2, <3>3, SetMoves
  <2> QED BY <1>1, <2>1, QuietMoves DEF Call, Places, Queues
<1>2. CASE Return(t)
  <2>1. Moved(t, "idle") /\ thread'[t].answer = None
    <3>1. thread' = [thread EXCEPT ![t] = At("idle", None, None)]
      BY <1>2 DEF Return, Idle
    <3>2. "idle" \in Places BY DEF Places
    <3>3. None \in Requests \cup {None} /\ None \in Tagged(Answers) \cup {None} OBVIOUS
    <3> QED BY <1>0, <3>1, <3>2, <3>3, SetMoves
  <2> QED BY <1>2, <2>1, QuietMoves DEF Return, Places, Queues
<1>3. CASE Spin(t)
  <2>1. Moved(t, "wait") /\ thread'[t].answer = thread[t].answer
    BY <1>0, <1>3, GotoMoves DEF Spin, Places
  <2> QED BY <1>3, <2>1, QuietMoves DEF Spin, Places, Queues
<1>4. CASE Lock(t)
  <2>1. Moved(t, "locked") /\ thread'[t].answer = thread[t].answer
    BY <1>0, <1>4, GotoMoves DEF Lock, Places
  <2> QED BY <1>4, <2>1, QuietMoves DEF Lock, Places, Queues
<1>5. CASE LockFails(t) \/ Unlock(t)
  <2>1. Moved(t, "release") /\ thread'[t].answer = thread[t].answer
    BY <1>0, <1>5, GotoMoves DEF LockFails, Unlock, Places
  <2> QED BY <1>5, <2>1, QuietMoves DEF LockFails, Unlock, Places, Queues
<1>6. CASE Release(t)
  <2>1. Moved(t, "done") /\ thread'[t].answer = thread[t].answer
    BY <1>0, <1>6, GotoMoves DEF Release, Places
  <2> QED BY <1>6, <2>1, QuietMoves DEF Release, Places, Queues
<1> QED BY <1>1, <1>2, <1>3, <1>4, <1>5, <1>6

\* A thread that is inside is the only one that can wait.
LEMMA OnlyWaiter ==
    ASSUME LockInv, NEW t \in Threads, thread[t].pc \in Inside,
           NEW u \in Threads, Waits(Of(t), u)
    PROVE  u = t
BY LockInvExclusive DEF ExchangeExclusive, Waits, Inside

\* A step that changes one agent's channel leaves the others as they are.
LEMMA OtherChannels ==
    ASSUME ChannelInv, NEW a \in Agents, NEW b \in Agents \ {a},
           UNCHANGED <<open[b], req[b], held[b], ans[b], up[Leader[b]], orphaned[b]>>,
           \A u \in Threads : Of(u) = b => thread'[u] = thread[u]
    PROVE  /\ ~open'[b] => req'[b] = <<>> /\ held'[b] = None
           /\ ~up'[Leader[b]] => ans'[b] = <<>>
           /\ up'[Leader[b]] /\ ~orphaned'[b] => ChannelOK(b)'
<1>1. ChannelOK(b) => ChannelOK(b)'
  BY SMT DEF ChannelOK, Waits, Pending, Empty, Of
<1> QED BY <1>1 DEF ChannelInv

\* The request of the one thread that waits enters an empty channel.
LEMMA AnswerInvSend ==
    ASSUME AnswerInv, NEW t \in Threads, Send(t)
    PROVE  ChannelInv' /\ OwnAnswer'
<1> DEFINE a == Of(t)
<1>0. ETypeOK /\ LockInv /\ a \in Agents BY DEF AnswerInv, LockInv, Of
<1>1. CASE ~open[a]
  <2>1. Moved(t, "unlock") /\ thread'[t].answer = thread[t].answer
    BY <1>0, <1>1, GotoMoves DEF Send, Places
  <2> QED BY <1>1, <2>1, QuietMoves DEF Send, Places
<1>2. CASE open[a]
  <2>1. Moved(t, "sent") /\ thread'[t].answer = thread[t].answer
    BY <1>0, <1>2, GotoMoves DEF Send, Places
  <2>2. OwnAnswer' BY <2>1 DEF AnswerInv, OwnAnswer, Moved, Send, Of
  <2>3. \A u \in Threads : Waits(a, u)' => u = t
    BY <1>0, <2>1, OnlyWaiter, SMT DEF Waits, Moved, Send, Inside, Of
  <2>4. \A u \in Threads : ~Waits(a, u)
    BY <1>0, OnlyWaiter DEF Waits, Send, Inside
  <2>5. up[Leader[a]] /\ ~orphaned[a] => Empty(a)
    BY <1>0, <2>4 DEF AnswerInv, ChannelInv, ChannelOK
  <2>6. req'[a] = Append(req[a], [by |-> t, is |-> thread[t].request])
    BY <1>0, <1>2 DEF Send, ETypeOK, QueuesTypeOK
  <2>7. Empty(a) => Len(req'[a]) = 1 /\ req'[a][1].by = t BY <2>6, SMT DEF Empty
  <2>8. up'[Leader[a]] /\ ~orphaned'[a] => ChannelOK(a)'
    <3>1. Waits(a, t)' BY <2>1 DEF Waits, Moved, Of
    <3> QED BY <1>2, <2>3, <2>5, <2>7, <3>1 DEF Send, ChannelOK, Pending, Empty
  <2>9. up[Leader[a]]
    BY <1>0, SMT DEF LockInv, Down, Send, Idle, At, Of
  <2>10. ASSUME NEW b \in Agents \ {a}
         PROVE  /\ ~open'[b] => req'[b] = <<>> /\ held'[b] = None
                /\ ~up'[Leader[b]] => ans'[b] = <<>>
                /\ up'[Leader[b]] /\ ~orphaned'[b] => ChannelOK(b)'
    <3>1. req'[b] = req[b] BY <1>0, <1>2 DEF Send, ETypeOK, QueuesTypeOK
    <3>2. \A u \in Threads : Of(u) = b => thread'[u] = thread[u]
      BY <2>1 DEF Moved
    <3> QED BY <1>0, <3>1, <3>2, OtherChannels DEF AnswerInv, Send
  <2>11. ChannelInv' BY <1>0, <1>2, <2>8, <2>9, <2>10 DEF ChannelInv, Send
  <2> QED BY <2>2, <2>11
<1> QED BY <1>1, <1>2

\* That thread takes the answer, or the end of the channel.
LEMMA AnswerInvReceive ==
    ASSUME AnswerInv, NEW t \in Threads, Receive(t)
    PROVE  ChannelInv' /\ OwnAnswer'
<1> DEFINE a == Of(t)
<1>0. ETypeOK /\ LockInv /\ a \in Agents BY DEF AnswerInv, LockInv, Of
<1>1. Moved(t, "unlock") BY <1>0, LockInvReceive
<1>2. \A u \in Threads : ~Waits(a, u)'
  BY <1>0, <1>1, OnlyWaiter DEF Waits, Moved, Receive, Inside, Of
<1>3. Waits(a, t) /\ up[Leader[a]]
  BY <1>0, SMT DEF Waits, Receive, LockInv, Down, Idle, At, Of
<1>4. ~orphaned[a] => Pending(a, t)
  BY <1>0, <1>3 DEF AnswerInv, ChannelInv, ChannelOK
<1>5. ASSUME NEW b \in Agents \ {a}
      PROVE  /\ ~open'[b] => req'[b] = <<>> /\ held'[b] = None
             /\ ~up'[Leader[b]] => ans'[b] = <<>>
             /\ up'[Leader[b]] /\ ~orphaned'[b] => ChannelOK(b)'
  <2>1. ans'[b] = ans[b] BY <1>0 DEF Receive, ETypeOK, QueuesTypeOK
  <2>2. \A u \in Threads : Of(u) = b => thread'[u] = thread[u] BY <1>1 DEF Moved
  <2> QED BY <1>0, <2>1, <2>2, OtherChannels DEF AnswerInv, Receive
<1>6. CASE ans[a] # <<>>
  <2>1. ans'[a] = Tail(ans[a]) BY <1>0, <1>6 DEF Receive, ETypeOK, QueuesTypeOK
  <2>2. ~orphaned[a] => req[a] = <<>> /\ held[a] = None /\ Len(ans[a]) = 1 /\ ans[a][1].by = t
    BY <1>4, <1>6 DEF Pending, Empty
  <2>3. ans[a] \in Seq(Tagged(Answers)) BY <1>0 DEF ETypeOK, QueuesTypeOK
  <2>4. ~orphaned[a] => Empty(a)'
    BY <2>1, <2>2, <2>3, SingleFacts DEF Empty, Receive
  <2>5. ChannelInv' BY <1>0, <1>2, <1>3, <1>5, <2>4 DEF AnswerInv, ChannelInv, ChannelOK, Receive
  <2>6. thread'[t].answer = Head(ans[a])
    BY <1>0, <1>6, SMT DEF Receive, ETypeOK, At
  <2>7. OwnAnswer'
    BY <1>1, <2>2, <2>6, SMT DEF AnswerInv, OwnAnswer, Moved, Receive, Of
  <2> QED BY <2>5, <2>7
<1>7. CASE ans[a] = <<>>
  <2>1. thread'[t].answer = thread[t].answer
    BY <1>0, <1>7, GotoMoves DEF Receive, Places
  <2>2. OwnAnswer' BY <1>1, <2>1 DEF AnswerInv, OwnAnswer, Moved, Receive, Of
  <2>3. Empty(a)' BY <1>0, <1>7 DEF AnswerInv, ChannelInv, Empty, Receive
  <2>4. ChannelInv' BY <1>0, <1>2, <1>3, <1>5, <2>3 DEF AnswerInv, ChannelInv, ChannelOK, Receive
  <2> QED BY <2>2, <2>4
<1> QED BY <1>6, <1>7

\* Processes come and go.
LEMMA AnswerInvFork ==
    ASSUME AnswerInv, NEW p \in Procs, NEW q \in Procs, Fork(p, q)
    PROVE  ChannelInv' /\ OwnAnswer'
<1>1. \A a \in Agents : up'[Leader[a]] = up[Leader[a]]
  BY DEF AnswerInv, LockInv, ETypeOK, Fork
<1>2. \A a \in Agents : ChannelOK(a) => ChannelOK(a)'
  BY SMT DEF Fork, Queues, ChannelOK, Waits, Pending, Empty, Of
<1>3. ChannelInv' BY <1>1, <1>2 DEF AnswerInv, ChannelInv, Fork, Queues
<1>4. OwnAnswer' BY DEF AnswerInv, OwnAnswer, Fork, Of
<1> QED BY <1>3, <1>4

\* A process dies, and orphans the exchange it was in.
LEMMA AnswerInvDie ==
    ASSUME AnswerInv, NEW q \in Procs, Die(q)
    PROVE  ChannelInv' /\ OwnAnswer'
<1>0. ETypeOK BY DEF AnswerInv, LockInv
<1>1. \A a \in Agents : up'[Leader[a]] = up[Leader[a]]
  BY <1>0 DEF ETypeOK, Die
<1>2. \A t \in Threads : thread'[t] = IF ProcOf[t] = q THEN Idle ELSE thread[t]
  BY DEF Die
<1>3. \A a \in Agents : ~orphaned'[a] =>
         /\ ~orphaned[a]
         /\ \A t \in Threads : a = AgentOf[q] /\ ProcOf[t] = q => thread[t].pc # "sent"
  <2> TAKE a \in Agents
  <2>1. CASE a # AgentOf[q]
    <3>1. orphaned'[a] = orphaned[a] BY <1>0, <2>1 DEF ETypeOK, Die
    <3> QED BY <2>1, <3>1
  <2>2. CASE a = AgentOf[q]
    <3>1. orphaned'[a] = (orphaned[a] \/ \E t \in Threads : ProcOf[t] = q /\ thread[t].pc = "sent")
      BY <1>0, <2>2 DEF ETypeOK, Die
    <3> QED BY <3>1
  <2> QED BY <2>1, <2>2
<1>4. ASSUME NEW a \in Agents, NEW t \in Threads, ~orphaned'[a]
      PROVE  Waits(a, t)' <=> Waits(a, t)
  <2>1. CASE ProcOf[t] = q
    <3>1. thread'[t].pc = "idle" BY <1>2, <2>1, SMT DEF Idle, At
    <3>2. Of(t) = a => thread[t].pc # "sent" BY <1>3, <1>4, <2>1 DEF Of
    <3> QED BY <3>1, <3>2 DEF Waits, Of
  <2>2. CASE ProcOf[t] # q
    <3>1. thread'[t] = thread[t] BY <1>2, <2>2
    <3> QED BY <3>1 DEF Waits, Of
  <2> QED BY <2>1, <2>2
<1>5. \A a \in Agents : ~orphaned'[a] /\ ChannelOK(a) => ChannelOK(a)'
  BY <1>4 DEF ChannelOK, Pending, Empty, Die, Queues
<1>6. ChannelInv'
  <2>1. UNCHANGED <<open, req, held, ans>> BY DEF Die, Queues
  <2> QED BY <1>1, <1>3, <1>5, <2>1 DEF AnswerInv, ChannelInv
<1>7. OwnAnswer'
  <2> SUFFICES ASSUME NEW t \in Threads, thread'[t].answer # None, ~orphaned'[Of(t)]
               PROVE  thread'[t].answer.by = t
    BY DEF OwnAnswer, Of
  <2>1. thread'[t] = thread[t] BY <1>2, IdleState
  <2>2. ~orphaned[Of(t)] BY <1>3 DEF Of
  <2> QED BY <2>1, <2>2 DEF AnswerInv, OwnAnswer
<1> QED BY <1>6, <1>7

\* An agent dies; what it sent is left in the channel.
LEMMA AnswerInvKill ==
    ASSUME AnswerInv, NEW a \in Agents, Kill(a)
    PROVE  ChannelInv' /\ OwnAnswer'
<1>0. ETypeOK BY DEF AnswerInv, LockInv
<1>1. \A t \in Threads : thread'[t] = IF Of(t) = a THEN Idle ELSE thread[t]
  BY DEF Kill
<1>2. ans'[a] = <<>> /\ ~up'[Leader[a]]
  BY <1>0 DEF ETypeOK, QueuesTypeOK, Kill
<1>3. ~open'[a] => req'[a] = <<>> /\ held'[a] = None BY DEF AnswerInv, ChannelInv, Kill
<1>4. ASSUME NEW b \in Agents \ {a}
      PROVE  /\ ~open'[b] => req'[b] = <<>> /\ held'[b] = None
             /\ ~up'[Leader[b]] => ans'[b] = <<>>
             /\ up'[Leader[b]] /\ ~orphaned'[b] => ChannelOK(b)'
  <2>1. UNCHANGED <<open[b], req[b], held[b], ans[b], up[Leader[b]], orphaned[b]>>
    BY <1>0, SMT DEF ETypeOK, QueuesTypeOK, Kill
  <2> QED BY <1>1, <2>1, OtherChannels DEF AnswerInv
<1>5. ChannelInv' BY <1>2, <1>3, <1>4 DEF ChannelInv
<1>6. OwnAnswer' BY <1>1, IdleState DEF AnswerInv, OwnAnswer, Kill, Of
<1> QED BY <1>5, <1>6

\* A new instance of an agent has a new channel.
LEMMA AnswerInvSpawn ==
    ASSUME AnswerInv, NEW a \in Agents, Spawn(a)
    PROVE  ChannelInv' /\ OwnAnswer'
<1>0. ETypeOK BY DEF AnswerInv, LockInv
<1>1. \A t \in Threads : Of(t) = a => thread[t] = Idle
  BY <1>0 DEF AnswerInv, LockInv, Down, Spawn, Of
<1>2. Empty(a)' /\ open'[a]
  BY <1>0 DEF AnswerInv, ChannelInv, ETypeOK, QueuesTypeOK, Spawn, Empty
<1>3. \A t \in Threads : ~Waits(a, t)' BY <1>1, SMT DEF Waits, Spawn, Idle, At, Of
<1>4. ASSUME NEW b \in Agents \ {a}
      PROVE  /\ ~open'[b] => req'[b] = <<>> /\ held'[b] = None
             /\ ~up'[Leader[b]] => ans'[b] = <<>>
             /\ up'[Leader[b]] /\ ~orphaned'[b] => ChannelOK(b)'
  <2>1. UNCHANGED <<req[b], ans[b], held[b]>> BY <1>0 DEF ETypeOK, QueuesTypeOK, Spawn
  <2>2. UNCHANGED <<open[b], orphaned[b]>> BY <1>0 DEF ETypeOK, Spawn
  <2>3. UNCHANGED up[Leader[b]] BY <1>0 DEF ETypeOK, Spawn
  <2> QED BY <2>1, <2>2, <2>3, OtherChannels DEF AnswerInv, Spawn
<1>5. ChannelInv' BY <1>2, <1>3, <1>4 DEF ChannelInv, ChannelOK, Empty
<1>6. \A b \in Agents \ {a} : orphaned'[b] = orphaned[b] BY <1>0 DEF ETypeOK, Spawn
<1>7. OwnAnswer' BY <1>1, <1>6, IdleState, SMT DEF AnswerInv, OwnAnswer, Spawn, Of
<1> QED BY <1>5, <1>7

\* agentd moves what is pending along the channel.
LEMMA AnswerInvAgentd ==
    ASSUME AnswerInv, NEW a \in Agents,
           Take(a) \/ HangUp(a) \/ \E x \in Answers : Answer(a, x)
    PROVE  ChannelInv' /\ OwnAnswer'
<1>0. ETypeOK BY DEF AnswerInv, LockInv
<1>1. UNCHANGED <<up, thread, orphaned>> BY DEF Take, HangUp, Answer
<1>2. OwnAnswer' BY <1>1 DEF AnswerInv, OwnAnswer, Of
<1>3. ASSUME NEW b \in Agents \ {a}
      PROVE  /\ ~open'[b] => req'[b] = <<>> /\ held'[b] = None
             /\ ~up'[Leader[b]] => ans'[b] = <<>>
             /\ up'[Leader[b]] /\ ~orphaned'[b] => ChannelOK(b)'
  <2>1. UNCHANGED <<open[b], req[b], held[b], ans[b]>>
    BY <1>0 DEF ETypeOK, QueuesTypeOK, Take, HangUp, Answer
  <2> QED BY <1>1, <2>1, OtherChannels DEF AnswerInv
<1>4. /\ ~open'[a] => req'[a] = <<>> /\ held'[a] = None
      /\ ~up'[Leader[a]] => ans'[a] = <<>>
  <2>1. CASE Take(a)
    BY <1>0, <2>1 DEF AnswerInv, ChannelInv, ETypeOK, QueuesTypeOK, Take
  <2>2. CASE HangUp(a)
    BY <1>0, <2>2 DEF AnswerInv, ChannelInv, ETypeOK, QueuesTypeOK, HangUp
  <2>3. ASSUME NEW x \in Answers, Answer(a, x)
        PROVE  /\ ~open'[a] => req'[a] = <<>> /\ held'[a] = None
               /\ ~up'[Leader[a]] => ans'[a] = <<>>
    BY <1>0, <2>3 DEF AnswerInv, ChannelInv, ETypeOK, QueuesTypeOK, Answer
  <2> QED BY <2>1, <2>2, <2>3
<1>5. \A t \in Threads : Waits(a, t)' <=> Waits(a, t) BY <1>1 DEF Waits, Of
<1>6. Empty(a) => Empty(a)'
  BY <1>0 DEF Empty, ETypeOK, QueuesTypeOK, Take, HangUp, Answer
<1>7. ASSUME NEW t \in Threads, Pending(a, t), up[Leader[a]] PROVE Pending(a, t)'
  <2>0. req[a] \in Seq(Tagged(Requests \cup {None})) BY <1>0 DEF ETypeOK, QueuesTypeOK
  <2>1. CASE Take(a)
    <3>1. Len(req[a]) = 1 /\ req[a][1].by = t /\ ans[a] = <<>>
      BY <1>7, <2>1 DEF Take, Pending, Empty
    <3>2. held'[a] = req[a][1] /\ req'[a] = <<>>
      BY <1>0, <2>0, <2>1, <3>1, SingleFacts DEF Take, ETypeOK, QueuesTypeOK
    <3> QED BY <2>1, <3>1, <3>2 DEF Take, Pending
  <2>2. CASE HangUp(a)
    <3>1. ~open'[a] /\ req'[a] = <<>> /\ held'[a] = None /\ ans' = ans
      BY <1>0, <2>2 DEF HangUp, ETypeOK, QueuesTypeOK
    <3> QED BY <1>7, <3>1 DEF Pending, Empty
  <2>3. ASSUME NEW x \in Answers, Answer(a, x) PROVE Pending(a, t)'
    <3>1. req[a] = <<>> /\ held[a].by = t /\ ans[a] = <<>>
      BY <1>7, <2>3 DEF Answer, Pending, Empty
    <3>2. held'[a] = None /\ ans'[a] = Append(<<>>, [by |-> t, is |-> x])
      BY <1>0, <1>7, <2>3, <3>1 DEF Answer, ETypeOK, QueuesTypeOK
    <3>3. Len(ans'[a]) = 1 /\ ans'[a][1].by = t BY <3>2, SMT
    <3>4. req'[a] = <<>> BY <2>3, <3>1 DEF Answer
    <3> QED BY <3>2, <3>3, <3>4 DEF Pending
  <2> QED BY <2>1, <2>2, <2>3
<1>8. up'[Leader[a]] /\ ~orphaned'[a] => ChannelOK(a)'
  <2> SUFFICES ASSUME up'[Leader[a]], ~orphaned'[a] PROVE ChannelOK(a)' OBVIOUS
  <2>1. up[Leader[a]] /\ ~orphaned[a] BY <1>1
  <2>2. ChannelOK(a) BY <2>1 DEF AnswerInv, ChannelInv
  <2> QED BY <1>5, <1>6, <1>7, <2>1, <2>2 DEF ChannelOK
<1>9. ChannelInv' BY <1>3, <1>4, <1>8 DEF ChannelInv
<1> QED BY <1>2, <1>9

\* The invariant is inductive.
LEMMA AnswerInvNext == AnswerInv /\ [ENext]_evars => AnswerInv'
<1> SUFFICES ASSUME AnswerInv, [ENext]_evars PROVE AnswerInv' OBVIOUS
<1>0. LockInv' BY LockInvNext DEF AnswerInv
<1>1. CASE UNCHANGED evars
  BY <1>0, <1>1, SMT DEF evars, AnswerInv, ChannelInv, ChannelOK, Waits, Pending, Empty, OwnAnswer, Of
<1>2. ASSUME NEW t \in Threads,
             ThreadStep(t) \/ Return(t) \/ \E r \in Requests : Call(t, r)
      PROVE  AnswerInv'
  BY <1>0, <1>2, AnswerInvQuiet, AnswerInvSend, AnswerInvReceive DEF ThreadStep, AnswerInv
<1>3. CASE \E p, q \in Procs : Fork(p, q) BY <1>0, <1>3, AnswerInvFork DEF AnswerInv
<1>4. CASE \E q \in Procs : Die(q) BY <1>0, <1>4, AnswerInvDie DEF AnswerInv
<1>5. CASE \E a \in Agents : Kill(a) \/ Spawn(a)
  BY <1>0, <1>5, AnswerInvKill, AnswerInvSpawn DEF AnswerInv
<1>6. CASE \E a \in Agents : Take(a) \/ HangUp(a) BY <1>0, <1>6, AnswerInvAgentd DEF AnswerInv
<1>7. CASE \E a \in Agents, x \in Answers : Answer(a, x)
  BY <1>0, <1>7, AnswerInvAgentd DEF AnswerInv
<1> QED BY <1>1, <1>2, <1>3, <1>4, <1>5, <1>6, <1>7 DEF ENext

\* Every answer is read by the thread whose request it answers, until a process
\* dies between its request and the answer.
THEOREM AnswersAreOwn == ESpec => []OwnAnswer
<1>1. AnswerInv => OwnAnswer BY DEF AnswerInv
<1> QED BY <1>1, AnswerInvInit, AnswerInvNext, PTL DEF ESpec
=============================================================================
