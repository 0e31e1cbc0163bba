------------------------------ MODULE Exchange ------------------------------
(***************************************************************************)
(* The client side of the capability broker (src/ipc.c): the threads and   *)
(* forked processes of an agent share one request/answer channel, fd 3,    *)
(* and serialise on a flag in their own memory, g_broker_thread_lock, and  *)
(* a record lock on the inherited fd 5.                                    *)
(*                                                                         *)
(* agentd is here only what a client sees of it: it takes requests in the  *)
(* order they were sent, answers the one it took, or hangs up. Broker.tla  *)
(* has the rest of it.                                                     *)
(***************************************************************************)
EXTENDS Naturals, Sequences

CONSTANTS
    Agents,
    Procs,               \* the processes an agent's runtime may consist of
    Threads,
    AgentOf,             \* the agent each process belongs to
    ProcOf,              \* the process each thread runs in
    Leader,              \* the process agentd spawned for each agent
    Requests,            \* the frames threads send
    Answers,             \* what agentd may answer
    None

ASSUME ExchangeAssumption ==
    /\ AgentOf \in [Procs -> Agents]
    /\ ProcOf \in [Threads -> Procs]
    /\ Leader \in [Agents -> Procs]
    /\ \A a \in Agents : AgentOf[Leader[a]] = a
    /\ None \notin Procs /\ None \notin Requests /\ None \notin Answers

VARIABLES
    up,                  \* the process exists
    flag,                \* g_broker_thread_lock, in each process's memory
    lock,                \* holder of the record lock on each agent's fd 5
    thread,              \* where each thread is in ipc_connect, and its locals
    open,                \* agentd holds its end of the agent's fd 3
    req, held, ans,      \* requests sent, the one agentd took, answers sent
    orphaned             \* history: a process of this instance of the agent
                         \* died between its request and the answer

evars == <<up, flag, lock, thread, open, req, held, ans, orphaned>>

Of(t) == AgentOf[ProcOf[t]]

At(pc, request, answer) == [pc |-> pc, request |-> request, answer |-> answer]
Idle == At("idle", None, None)

Places == {"idle", "spin", "wait", "locked", "sent", "unlock", "release", "done"}
Inside == {"locked", "sent", "unlock"}          \* with the record lock
Guarded == Inside \cup {"wait", "release"}      \* with the flag

Tagged(S) == [by : Threads, is : S]

ThreadState == [pc : Places, request : Requests \cup {None},
                answer : Tagged(Answers) \cup {None}]

QueuesTypeOK == /\ req \in [Agents -> Seq(Tagged(Requests \cup {None}))]
                /\ held \in [Agents -> Tagged(Requests \cup {None}) \cup {None}]
                /\ ans \in [Agents -> Seq(Tagged(Answers))]

ETypeOK ==
    /\ up \in [Procs -> BOOLEAN]
    /\ flag \in [Procs -> BOOLEAN]
    /\ lock \in [Agents -> Procs \cup {None}]
    /\ thread \in [Threads -> ThreadState]
    /\ open \in [Agents -> BOOLEAN]
    /\ QueuesTypeOK
    /\ orphaned \in [Agents -> BOOLEAN]

EInit ==
    /\ up = [p \in Procs |-> p = Leader[AgentOf[p]]]
    /\ flag = [p \in Procs |-> FALSE]
    /\ lock = [a \in Agents |-> None]
    /\ thread = [t \in Threads |-> Idle]
    /\ open = [a \in Agents |-> TRUE]
    /\ req = [a \in Agents |-> <<>>]
    /\ held = [a \in Agents |-> None]
    /\ ans = [a \in Agents |-> <<>>]
    /\ orphaned = [a \in Agents |-> FALSE]

-----------------------------------------------------------------------------
(* ipc_connect in a supervised runtime *)

Queues == <<open, req, held, ans>>

Goto(t, pc) == thread' = [thread EXCEPT ![t].pc = pc]

Call(t, r) ==
    /\ up[ProcOf[t]]
    /\ thread[t].pc = "idle"
    /\ thread' = [thread EXCEPT ![t] = At("spin", r, None)]
    /\ UNCHANGED <<up, flag, lock, Queues, orphaned>>

\* (mutated) threads rely on the record lock alone
Spin_no_guard(t) ==
    /\ thread[t].pc = "spin"
    /\ flag' = [flag EXCEPT ![ProcOf[t]] = TRUE]
    /\ Goto(t, "wait")
    /\ UNCHANGED <<up, lock, Queues, orphaned>>

\* __sync_lock_test_and_set finds the flag clear; a thread that finds it set
\* sleeps and tries again.
Spin(t) ==
    /\ thread[t].pc = "spin"
    /\ ~flag[ProcOf[t]]
    /\ flag' = [flag EXCEPT ![ProcOf[t]] = TRUE]
    /\ Goto(t, "wait")
    /\ UNCHANGED <<up, lock, Queues, orphaned>>

\* (mutated) threads rely on the flag alone, which each process has its own of
Lock_no_record(t) ==
    /\ thread[t].pc = "wait"
    /\ lock' = [lock EXCEPT ![Of(t)] = ProcOf[t]]
    /\ Goto(t, "locked")
    /\ UNCHANGED <<up, flag, Queues, orphaned>>

\* F_SETLKW waits for other processes only: a record lock belongs to a process.
Lock(t) ==
    /\ thread[t].pc = "wait"
    /\ lock[Of(t)] \in {None, ProcOf[t]}
    /\ lock' = [lock EXCEPT ![Of(t)] = ProcOf[t]]
    /\ Goto(t, "locked")
    /\ UNCHANGED <<up, flag, Queues, orphaned>>

\* F_SETLKW failed.
LockFails(t) ==
    /\ thread[t].pc = "wait"
    /\ Goto(t, "release")
    /\ UNCHANGED <<up, flag, lock, Queues, orphaned>>

\* (mutated) the record lock is given back once the request is sent
Send_unlocks(t) ==
    /\ thread[t].pc = "locked"
    /\ open[Of(t)]
    /\ req' = [req EXCEPT ![Of(t)] = Append(@, [by |-> t, is |-> thread[t].request])]
    /\ lock' = [lock EXCEPT ![Of(t)] = None]
    /\ Goto(t, "sent")
    /\ UNCHANGED <<up, flag, open, held, ans, orphaned>>

\* send() fails on a channel that agentd closed.
Send(t) ==
    /\ thread[t].pc = "locked"
    /\ IF open[Of(t)]
       THEN /\ req' = [req EXCEPT ![Of(t)] =
                         Append(@, [by |-> t, is |-> thread[t].request])]
            /\ Goto(t, "sent")
       ELSE Goto(t, "unlock") /\ UNCHANGED req
    /\ UNCHANGED <<up, flag, lock, open, held, ans, orphaned>>

\* recvmsg() returns the next answer, whose it may be, or the end of a channel
\* that agentd closed.
Receive(t) ==
    /\ thread[t].pc = "sent"
    /\ IF ans[Of(t)] # <<>>
       THEN /\ thread' = [thread EXCEPT ![t] = At("unlock", @.request, Head(ans[Of(t)]))]
            /\ ans' = [ans EXCEPT ![Of(t)] = Tail(@)]
       ELSE ~open[Of(t)] /\ Goto(t, "unlock") /\ UNCHANGED ans
    /\ UNCHANGED <<up, flag, lock, open, req, held, orphaned>>

\* The two halves of broker_exchange_unlock.
Unlock(t) ==
    /\ thread[t].pc = "unlock"
    /\ lock' = [lock EXCEPT ![Of(t)] = None]
    /\ Goto(t, "release")
    /\ UNCHANGED <<up, flag, Queues, orphaned>>

Release(t) ==
    /\ thread[t].pc = "release"
    /\ flag' = [flag EXCEPT ![ProcOf[t]] = FALSE]
    /\ Goto(t, "done")
    /\ UNCHANGED <<up, lock, Queues, orphaned>>

\* The caller is through with the answer.
Return(t) ==
    /\ thread[t].pc = "done"
    /\ thread' = [thread EXCEPT ![t] = Idle]
    /\ UNCHANGED <<up, flag, lock, Queues, orphaned>>

-----------------------------------------------------------------------------
(* Processes *)

\* A thread of p forks: q starts with a copy of p's memory, the flag in it.
Fork(p, q) ==
    /\ up[p] /\ ~up[q] /\ AgentOf[p] = AgentOf[q]
    /\ q # Leader[AgentOf[q]]
    /\ up' = [up EXCEPT ![q] = TRUE]
    /\ flag' = [flag EXCEPT ![q] = flag[p]]
    /\ UNCHANGED <<lock, thread, Queues, orphaned>>

\* A forked process dies. The kernel drops its record lock; what it sent, and
\* what agentd answers it, stays in the shared channel.
Die(q) ==
    /\ up[q] /\ q # Leader[AgentOf[q]]
    /\ up' = [up EXCEPT ![q] = FALSE]
    /\ lock' = [a \in Agents |-> IF lock[a] = q THEN None ELSE lock[a]]
    /\ thread' = [t \in Threads |-> IF ProcOf[t] = q THEN Idle ELSE thread[t]]
    /\ orphaned' = [orphaned EXCEPT ![AgentOf[q]] =
          @ \/ \E t \in Threads : ProcOf[t] = q /\ thread[t].pc = "sent"]
    /\ UNCHANGED <<flag, Queues>>

\* The agent is killed: its process group, and with it the client's end of the
\* channel. What it sent stays in the channel for agentd to read.
Kill(a) ==
    /\ up[Leader[a]]
    /\ up' = [p \in Procs |-> up[p] /\ AgentOf[p] # a]
    /\ lock' = [lock EXCEPT ![a] = None]
    /\ thread' = [t \in Threads |-> IF Of(t) = a THEN Idle ELSE thread[t]]
    /\ ans' = [ans EXCEPT ![a] = <<>>]
    /\ UNCHANGED <<flag, open, req, held, orphaned>>

\* spawn_agent_runtime: a new process, channel and lock file.
Spawn(a) ==
    /\ ~up[Leader[a]]
    /\ up' = [up EXCEPT ![Leader[a]] = TRUE]
    /\ flag' = [flag EXCEPT ![Leader[a]] = FALSE]
    /\ open' = [open EXCEPT ![a] = TRUE]
    /\ req' = [req EXCEPT ![a] = <<>>]
    /\ held' = [held EXCEPT ![a] = None]
    /\ orphaned' = [orphaned EXCEPT ![a] = FALSE]
    /\ UNCHANGED <<lock, thread, ans>>

-----------------------------------------------------------------------------
(* agentd, as the clients see it *)

Take(a) ==
    /\ open[a] /\ held[a] = None /\ req[a] # <<>>
    /\ held' = [held EXCEPT ![a] = Head(req[a])]
    /\ req' = [req EXCEPT ![a] = Tail(@)]
    /\ UNCHANGED <<up, flag, lock, thread, open, ans, orphaned>>

\* The answer is lost if the agent died meanwhile.
Answer(a, x) ==
    /\ held[a] # None
    /\ held' = [held EXCEPT ![a] = None]
    /\ ans' = [ans EXCEPT ![a] =
          IF up[Leader[a]] THEN Append(@, [by |-> held[a].by, is |-> x]) ELSE @]
    /\ UNCHANGED <<up, flag, lock, thread, open, req, orphaned>>

HangUp(a) ==
    /\ open[a]
    /\ open' = [open EXCEPT ![a] = FALSE]
    /\ req' = [req EXCEPT ![a] = <<>>]
    /\ held' = [held EXCEPT ![a] = None]
    /\ UNCHANGED <<up, flag, lock, thread, ans, orphaned>>

ThreadStep(t) ==
    \/ Spin(t) \/ Lock(t) \/ LockFails(t) \/ Send(t) \/ Receive(t)
    \/ Unlock(t) \/ Release(t)

ENext ==
    \/ \E t \in Threads : ThreadStep(t) \/ Return(t) \/ \E r \in Requests : Call(t, r)
    \/ \E p, q \in Procs : Fork(p, q)
    \/ \E q \in Procs : Die(q)
    \/ \E a \in Agents : Kill(a) \/ Spawn(a) \/ Take(a) \/ HangUp(a)
    \/ \E a \in Agents, x \in Answers : Answer(a, x)

ESpec == EInit /\ [][ENext]_evars

-----------------------------------------------------------------------------
(* Properties *)

\* "A broker request and its fd-bearing response are one critical section"
\* (docs/design-invariants.md): of all threads of all processes of an agent at
\* most one is between taking and giving back the record lock.
ExchangeExclusive ==
    \A t, u \in Threads :
       /\ Of(t) = Of(u) /\ t # u
       /\ thread[t].pc \in Inside
       => thread[u].pc \notin Inside

\* The lock "prevents threads or forked descendants from consuming one another's
\* SCM_RIGHTS response" (docs/capabilities.md): the answer a thread took is the
\* answer to its own request, unless a process of the agent died between sending
\* a request and reading the answer.
OwnAnswer ==
    \A t \in Threads :
       thread[t].answer # None => thread[t].answer.by = t \/ orphaned[Of(t)]
=============================================================================
