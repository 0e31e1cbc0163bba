------------------------------ MODULE AgentFS ------------------------------
(***************************************************************************)
(* The agentfs kernel module, src/kernel/agentfs.c: one name under         *)
(* /agents, its two mailboxes, the tasks that register it one after the    *)
(* other, the periodic reaper and the processes that read, write and poll. *)
(* Names share no state except g_agents_lock, so one is enough.            *)
(*                                                                         *)
(* A critical section of agent->lock is one action.  g_agents_lock is held *)
(* over several steps only by the reaper; "reaper # idle" means it is      *)
(* taken.  Tasks are used once: a released task_struct does not come back. *)
(* A call that only returns an error (EEXIST, ESHUTDOWN, ENOSPC, EMSGSIZE, *)
(* EINVAL) changes nothing and is not an action.                           *)
(***************************************************************************)
EXTENDS Integers, Sequences, FiniteSets

LOCAL INSTANCE Functions

CONSTANTS
    Boxes,                      \* inbox, outbox
    Clients,                    \* processes using the mailbox files
    Tasks,                      \* processes that write to /register
    NoTask, NoBox,
    AGENTFS_MAX_MESSAGE,        \* 1 MiB in the code
    AGENTFS_MAX_QUEUE_BYTES,    \* 8 MiB
    AGENTFS_MAX_QUEUE_MSGS,     \* 1024
    Faults                      \* events a run allows: "enomem", "remount"

ASSUME AgentFSAssumption ==
    /\ NoTask \notin Tasks
    /\ NoBox \notin Boxes
    /\ AGENTFS_MAX_MESSAGE \in Nat \ {0}
    /\ AGENTFS_MAX_QUEUE_BYTES \in Nat \ {0}
    /\ AGENTFS_MAX_QUEUE_MSGS \in Nat \ {0}

VARIABLES
    mounted,          \* the file system is mounted
    listed,           \* the agent is in g_agents
    files,            \* mailbox files present under /agents/<name>/
    building,         \* the task inside agentfs_build_agent_tree, or NoTask
    owner,            \* agent->owner
    dead,             \* agent->dead
    alive,            \* tasks for which pid_alive() holds
    messages,         \* mailbox->messages
    queued_bytes,     \* mailbox->queued_bytes
    queued_messages,  \* mailbox->queued_messages
    readq,            \* processes linked in mailbox->readq
    reaper,           \* "idle", or "waking": between the drain and the end of the pass
    unwoken,          \* mailboxes whose readq the reaper has yet to wake
    client,           \* what each process is doing in a mailbox file
    result            \* what its last blocking mailbox_read returned

agent == <<mounted, listed, files, building, owner, dead, alive>>
mail == <<messages, queued_bytes, queued_messages>>
vars == <<agent, mail, readq, reaper, unwoken, client, result>>

Lengths == 1..AGENTFS_MAX_MESSAGE

(* "to" is not in the code: the owner at the time of the write. *)
Message == [len : Lengths, to : Tasks]

Idle == [pc |-> "idle", op |-> "none", box |-> NoBox]

(* Where a process can be: about to take agent->lock in mailbox_read, about *)
(* to join readq, linked and about to test its condition, asleep, or (a    *)
(* writer) past the unlock and before its wake_up.                         *)
ClientStates ==
    [pc : {"idle", "lock", "prepare", "check", "sleep", "wake"},
     op : {"none", "read", "tryread", "pollin", "pollout", "write"},
     box : Boxes \cup {NoBox}]

(* How a blocking read has ended: not yet, with a message, 0 or an error. *)
Results == {"none", "message", "eof", "interrupted"}

Init ==
    /\ mounted = TRUE /\ listed = FALSE /\ files = {} /\ building = NoTask
    /\ owner = NoTask /\ dead = FALSE /\ alive = Tasks
    /\ messages = [b \in Boxes |-> << >>]
    /\ queued_bytes = [b \in Boxes |-> 0]
    /\ queued_messages = [b \in Boxes |-> 0]
    /\ readq = [b \in Boxes |-> {}]
    /\ reaper = "idle" /\ unwoken = {}
    /\ client = [c \in Clients |-> Idle]
    /\ result = [c \in Clients |-> "none"]

(* Mutants of mailbox_drain_locked: the messages, or the bytes, forgotten. *)
drain_counters_only ==
    /\ UNCHANGED messages
    /\ queued_bytes' = [b \in Boxes |-> 0]
    /\ queued_messages' = [b \in Boxes |-> 0]

drain_keeps_bytes ==
    /\ messages' = [b \in Boxes |-> << >>]
    /\ UNCHANGED queued_bytes
    /\ queued_messages' = [b \in Boxes |-> 0]

mailbox_drain_locked ==
    /\ messages' = [b \in Boxes |-> << >>]
    /\ queued_bytes' = [b \in Boxes |-> 0]
    /\ queued_messages' = [b \in Boxes |-> 0]

(* The waiters are not exclusive, so wake_up_interruptible and its _all     *)
(* form both unlink every one; a sleeping one will test its condition anew. *)
Woken(b) ==
    [c \in Clients |->
        IF c \in readq[b] /\ client[c].pc = "sleep"
        THEN [client[c] EXCEPT !.pc = "prepare"] ELSE client[c]]

-----------------------------------------------------------------------------
(* Registration *)

pid_alive(t) == t \in alive

(* Previous owner reaped, or gone since the last tick of the reaper. *)
Recyclable == dead \/ (owner # NoTask /\ ~pid_alive(owner))

(* Mutant: the boxes of the previous owner are handed on. *)
register_recycle_undrained(t) ==
    /\ mounted /\ reaper = "idle" /\ pid_alive(t)
    /\ listed /\ Recyclable
    /\ owner' = t
    /\ dead' = FALSE
    /\ UNCHANGED <<mounted, listed, files, building, alive,
                   mail, readq, reaper, unwoken, client, result>>

register_recycle(t) ==
    /\ mounted /\ reaper = "idle" /\ pid_alive(t)
    /\ listed /\ Recyclable
    /\ mailbox_drain_locked
    /\ owner' = t
    /\ dead' = FALSE
    /\ UNCHANGED <<mounted, listed, files, building, alive,
                   readq, reaper, unwoken, client, result>>

(* The name is new. Its directory is taken to be new too: what a build that *)
(* failed left is met by no later registration here.                        *)
register_fresh(t) ==
    /\ mounted /\ reaper = "idle" /\ pid_alive(t)
    /\ ~listed /\ building = NoTask /\ files = {}
    /\ mailbox_drain_locked
    /\ readq' = [b \in Boxes |-> {}]
    /\ owner' = t
    /\ dead' = FALSE
    /\ listed' = TRUE
    /\ building' = t
    /\ UNCHANGED <<mounted, files, alive, reaper, unwoken, client, result>>

(* One file after the other, outside g_agents_lock. *)
build_file(b) ==
    /\ building # NoTask
    /\ b \notin files
    /\ files' = files \cup {b}
    /\ building' = IF files' = Boxes THEN NoTask ELSE building
    /\ UNCHANGED <<mounted, listed, owner, dead, alive,
                   mail, readq, reaper, unwoken, client, result>>

(* An allocation fails: the agent is freed, the files made so far stay.     *)
(* What a call in progress on one of them does next is undefined; the model *)
(* takes the step only when there is none.                                  *)
build_fails ==
    /\ "enomem" \in Faults
    /\ client = [c \in Clients |-> Idle]
    /\ building # NoTask /\ reaper = "idle"
    /\ listed' = FALSE
    /\ building' = NoTask
    /\ owner' = NoTask
    /\ mailbox_drain_locked
    /\ UNCHANGED <<mounted, files, dead, alive, readq, reaper, unwoken, client, result>>

(* The owner is released, which it is not inside its register call.  Of a *)
(* task that owns nothing the module does not notice the exit.            *)
TaskExit(t) ==
    /\ pid_alive(t) /\ t = owner /\ t # building
    /\ alive' = alive \ {t}
    /\ UNCHANGED <<mounted, listed, files, building, owner, dead,
                   mail, readq, reaper, unwoken, client, result>>

(* umount is refused while a file is open; g_agents is not emptied. *)
Unmount ==
    /\ "remount" \in Faults
    /\ mounted /\ building = NoTask
    /\ client = [c \in Clients |-> Idle]
    /\ mounted' = FALSE
    /\ files' = {}
    /\ UNCHANGED <<listed, building, owner, dead, alive,
                   mail, readq, reaper, unwoken, client, result>>

agentfs_fill_super ==
    /\ ~mounted
    /\ mounted' = TRUE
    /\ UNCHANGED <<listed, files, building, owner, dead, alive,
                   mail, readq, reaper, unwoken, client, result>>

-----------------------------------------------------------------------------
(* The reaper *)

(* Mutants: only one of the two wait queues is woken, or none. *)
reaper_mark_one_box ==
    /\ reaper = "idle"
    /\ listed /\ ~dead /\ ~(owner # NoTask /\ pid_alive(owner))
    /\ dead' = TRUE
    /\ mailbox_drain_locked
    /\ reaper' = "waking"
    /\ \E b \in Boxes : unwoken' = {b}
    /\ UNCHANGED <<mounted, listed, files, building, owner, alive, readq, client, result>>

reaper_mark_no_wake ==
    /\ reaper = "idle"
    /\ listed /\ ~dead /\ ~(owner # NoTask /\ pid_alive(owner))
    /\ dead' = TRUE
    /\ mailbox_drain_locked
    /\ reaper' = "waking"
    /\ unwoken' = {}
    /\ UNCHANGED <<mounted, listed, files, building, owner, alive, readq, client, result>>

reaper_mark ==
    /\ reaper = "idle"
    /\ listed /\ ~dead /\ ~(owner # NoTask /\ pid_alive(owner))
    /\ dead' = TRUE
    /\ mailbox_drain_locked
    /\ reaper' = "waking"
    /\ unwoken' = Boxes
    /\ UNCHANGED <<mounted, listed, files, building, owner, alive, readq, client, result>>

reaper_wake(b) ==
    /\ b \in unwoken
    /\ unwoken' = unwoken \ {b}
    /\ client' = Woken(b)
    /\ readq' = [readq EXCEPT ![b] = {}]
    /\ UNCHANGED <<agent, mail, reaper, result>>

reaper_done ==
    /\ reaper = "waking" /\ unwoken = {}
    /\ owner' = NoTask
    /\ reaper' = "idle"
    /\ UNCHANGED <<mounted, listed, files, building, dead, alive,
                   mail, readq, unwoken, client, result>>

-----------------------------------------------------------------------------
(* The mailbox files *)

Goto(c, pc) == client' = [client EXCEPT ![c].pc = pc]

(* The call returns, and the process leaves the wait queue. *)
Return(c, how) ==
    /\ client' = [client EXCEPT ![c] = Idle]
    /\ readq' = [b \in Boxes |-> readq[b] \ {c}]
    /\ result' = IF client[c].op = "read" THEN [result EXCEPT ![c] = how] ELSE result

(* A read or a poll begins on an open file. *)
mailbox_open(c, b, op) ==
    /\ client[c] = Idle /\ listed /\ b \in files
    /\ client' = [client EXCEPT ![c] =
         [pc |-> IF op \in {"read", "tryread"} THEN "lock" ELSE "prepare",
          op |-> op, box |-> b]]
    /\ result' = IF op = "read" THEN [result EXCEPT ![c] = "none"] ELSE result
    /\ UNCHANGED <<agent, mail, readq, reaper, unwoken>>

(* Mutant: the size of the new message is not counted. *)
Room_before(b, len) ==
    /\ queued_messages[b] < AGENTFS_MAX_QUEUE_MSGS
    /\ queued_bytes[b] < AGENTFS_MAX_QUEUE_BYTES

Room(b, len) ==
    /\ queued_messages[b] < AGENTFS_MAX_QUEUE_MSGS
    /\ queued_bytes[b] + len <= AGENTFS_MAX_QUEUE_BYTES

(* Mutant: a writer that wakes nobody. *)
mailbox_write_silent(c, b, len) ==
    /\ client[c] = Idle /\ listed /\ b \in files
    /\ ~dead /\ Room(b, len)
    /\ messages' = [messages EXCEPT ![b] = Append(@, [len |-> len, to |-> owner])]
    /\ queued_bytes' = [queued_bytes EXCEPT ![b] = @ + len]
    /\ queued_messages' = [queued_messages EXCEPT ![b] = @ + 1]
    /\ UNCHANGED <<agent, readq, reaper, unwoken, client, result>>

mailbox_write(c, b, len) ==
    /\ client[c] = Idle /\ listed /\ b \in files
    /\ ~dead /\ Room(b, len)
    /\ messages' = [messages EXCEPT ![b] = Append(@, [len |-> len, to |-> owner])]
    /\ queued_bytes' = [queued_bytes EXCEPT ![b] = @ + len]
    /\ queued_messages' = [queued_messages EXCEPT ![b] = @ + 1]
    /\ client' = [client EXCEPT ![c] = [pc |-> "wake", op |-> "write", box |-> b]]
    /\ UNCHANGED <<agent, readq, reaper, unwoken, result>>

mailbox_write_wake(c) ==
    /\ client[c].pc = "wake"
    /\ client' = [Woken(client[c].box) EXCEPT ![c] = Idle]
    /\ readq' = [readq EXCEPT ![client[c].box] = {}]
    /\ UNCHANGED <<agent, mail, reaper, unwoken, result>>

(* The critical section of mailbox_read, with each way out of it. *)
read_eof(c) ==
    /\ client[c].pc = "lock"
    /\ dead /\ messages[client[c].box] = << >>
    /\ Return(c, "eof")
    /\ UNCHANGED <<agent, mail, reaper, unwoken>>

read_take(c) ==
    LET b == client[c].box IN
    /\ client[c].pc = "lock"
    /\ messages[b] # << >>
    /\ messages' = [messages EXCEPT ![b] = Tail(@)]
    /\ queued_bytes' = [queued_bytes EXCEPT ![b] = @ - Head(messages[b]).len]
    /\ queued_messages' = [queued_messages EXCEPT ![b] = @ - 1]
    /\ Return(c, "message")
    /\ UNCHANGED <<agent, reaper, unwoken>>

read_empty(c) ==
    /\ client[c].pc = "lock"
    /\ ~dead /\ messages[client[c].box] = << >>
    /\ IF client[c].op = "tryread"
       THEN Return(c, "none")
       ELSE Goto(c, "prepare") /\ UNCHANGED <<readq, result>>
    /\ UNCHANGED <<agent, mail, reaper, unwoken>>

(* wait_event_interruptible and poll link the process first ... *)
wait_prepare(c) ==
    /\ client[c].pc = "prepare"
    /\ readq' = [readq EXCEPT ![client[c].box] = @ \cup {c}]
    /\ Goto(c, "check")
    /\ UNCHANGED <<agent, mail, reaper, unwoken, result>>

(* The condition of the wait in mailbox_read, and the events of mailbox_poll. *)
Ready(c) ==
    LET b == client[c].box IN
    \/ dead
    \/ IF client[c].op = "pollout"
       THEN /\ queued_messages[b] < AGENTFS_MAX_QUEUE_MSGS
            /\ queued_bytes[b] < AGENTFS_MAX_QUEUE_BYTES
       ELSE messages[b] # << >>

(* The test succeeds: a read starts over, a poll returns its events. *)
Proceed(c) ==
    IF client[c].op = "read"
    THEN /\ Goto(c, "lock")
         /\ readq' = [readq EXCEPT ![client[c].box] = @ \ {c}]
         /\ UNCHANGED result
    ELSE Return(c, "none")

(* ... and then test the condition: it holds, or the process sleeps unless *)
(* a wake-up has unlinked it in the meantime.                              *)
wait_ready(c) ==
    /\ client[c].pc = "check" /\ Ready(c)
    /\ Proceed(c)
    /\ UNCHANGED <<agent, mail, reaper, unwoken>>

wait_sleep(c) ==
    /\ client[c].pc = "check" /\ ~Ready(c)
    /\ Goto(c, IF c \in readq[client[c].box] THEN "sleep" ELSE "prepare")
    /\ UNCHANGED <<agent, mail, readq, reaper, unwoken, result>>

(* A signal, or the timeout of poll, unless the condition holds by then. *)
Interrupt(c) ==
    /\ client[c].pc = "sleep"
    /\ IF Ready(c) THEN Proceed(c) ELSE Return(c, "interrupted")
    /\ UNCHANGED <<agent, mail, reaper, unwoken>>

-----------------------------------------------------------------------------
read(c) == read_eof(c) \/ read_take(c) \/ read_empty(c)

Running(c) ==
    mailbox_write_wake(c) \/ read(c) \/ wait_prepare(c) \/ wait_ready(c) \/ wait_sleep(c)

Reaper == reaper_mark \/ reaper_done \/ \E b \in Boxes : reaper_wake(b)

Next ==
    \/ \E t \in Tasks : register_recycle(t) \/ register_fresh(t) \/ TaskExit(t)
    \/ \E b \in Boxes : build_file(b)
    \/ build_fails
    \/ Unmount
    \/ agentfs_fill_super
    \/ Reaper
    \/ \E c \in Clients, b \in Boxes :
         \/ \E op \in {"read", "tryread", "pollin", "pollout"} : mailbox_open(c, b, op)
         \/ \E len \in Lengths : mailbox_write(c, b, len)
    \/ \E c \in Clients : Running(c) \/ Interrupt(c)

Spec == Init /\ [][Next]_vars

(* A process inside a call keeps running, and the reaper keeps ticking. *)
Fairness == WF_vars(Reaper) /\ \A c \in Clients : WF_vars(Running(c))

FairSpec == Spec /\ Fairness

-----------------------------------------------------------------------------
(* Properties *)

(* Every variable keeps its type. *)
TypeOK ==
    /\ mounted \in BOOLEAN /\ listed \in BOOLEAN /\ dead \in BOOLEAN
    /\ files \subseteq Boxes
    /\ building \in Tasks \cup {NoTask}
    /\ owner \in Tasks \cup {NoTask}
    /\ alive \subseteq Tasks
    /\ messages \in [Boxes -> Seq(Message)]
    /\ queued_bytes \in [Boxes -> Int]
    /\ queued_messages \in [Boxes -> Nat]
    /\ readq \in [Boxes -> SUBSET Clients]
    /\ reaper \in {"idle", "waking"}
    /\ unwoken \subseteq Boxes
    /\ client \in [Clients -> ClientStates]
    /\ result \in [Clients -> Results]

(* The number of messages that mailbox_write compares with the limit is     *)
(* exact, and neither limit is ever exceeded.                               *)
Counted ==
    \A b \in Boxes :
        /\ queued_messages[b] = Len(messages[b])
        /\ queued_messages[b] <= AGENTFS_MAX_QUEUE_MSGS
        /\ queued_bytes[b] <= AGENTFS_MAX_QUEUE_BYTES

Bytes(s) == FoldFunction(LAMBDA m, n : m.len + n, 0, s)

(* queued_bytes, which mailbox_read decrements without a check, is the exact *)
(* size of the queued messages, whatever drains of the reaper and of a      *)
(* registration come in between: it cannot wrap around or drift until a     *)
(* mailbox refuses messages it has room for.                                *)
BytesExact == \A b \in Boxes : queued_bytes[b] = Bytes(messages[b])

(* Somebody past the critical section has yet to wake the waiters of b. *)
WakePending(b) ==
    \/ b \in unwoken
    \/ \E w \in Clients : client[w].pc = "wake" /\ client[w].box = b

(* No wake-up is lost between the test of mailbox_read or mailbox_poll and  *)
(* schedule(): a process asleep although there is a message, or although    *)
(* the agent is dead, will be woken by a writer or the reaper.              *)
NoLostWakeup ==
    \A c \in Clients :
        client[c].pc = "sleep" /\ client[c].op # "pollout" /\ Ready(c)
            => WakePending(client[c].box)

(* The inductive invariant of the proofs: beside types, counters and the    *)
(* absence of lost wake-ups, a sleeper is linked where wake_up finds it, a  *)
(* dead agent has no messages, a live one has an owner, nobody is inside a  *)
(* file of an unlisted one, and the reaper between its steps holds a dead   *)
(* agent.                                                                   *)
InCall ==
    \A c \in Clients :
        /\ client[c].pc # "idle" => client[c].box \in Boxes
        /\ client[c].pc = "idle" => client[c].op = "none"
        /\ client[c].pc = "wake" => client[c].op = "write"

SleepersLinked ==
    \A c \in Clients : client[c].pc = "sleep" => c \in readq[client[c].box]

Lifecycle ==
    /\ dead => listed /\ building = NoTask /\ messages = [b \in Boxes |-> << >>]
    /\ listed /\ ~dead => owner \in Tasks
    /\ building # NoTask => listed /\ owner = building /\ building \in alive
    /\ ~listed => \A c \in Clients : client[c].pc = "idle"
    /\ IF reaper = "waking" THEN dead ELSE unwoken = {}

AgentFSInv ==
    TypeOK /\ Counted /\ NoLostWakeup /\ InCall /\ SleepersLinked /\ Lifecycle

(* The module as clients see it: a read that blocks, the current owner. *)
InRead(c) == client[c].op = "read"

MailOwner == IF listed /\ ~dead THEN owner ELSE NoTask

MailWaiting == [c \in Clients |-> IF InRead(c) THEN client[c].box ELSE NoBox]

M == INSTANCE Mailbox WITH
        queue <- messages,
        owner <- MailOwner,
        waiting <- MailWaiting,
        MaxMsgs <- AGENTFS_MAX_QUEUE_MSGS

(* agentfs implements Mailbox: messages of a box are read in the order they *)
(* were written, each once, none written for an owner is read after the     *)
(* reaper or a new registration has ended that owner's time, a read returns *)
(* 0 only when there is no owner, and a signal never ends a read that could *)
(* return a message.                                                        *)
ImplementsMailbox == M!Spec

(* A blocking read returns when there is a message that no other reader     *)
(* takes or when the agent stays dead: Mailbox's liveness.                  *)
ReadersServed == M!Served

(* "epoll over many mailboxes works without polling": a process that polls  *)
(* for EPOLLOUT does not sleep for ever on a mailbox that has room.         *)
SpaceWakesPoller ==
    \A c \in Clients :
        (client[c].pc = "sleep" /\ client[c].op = "pollout" /\ Ready(c))
            ~> ~(client[c].pc = "sleep" /\ Ready(c))
=============================================================================
