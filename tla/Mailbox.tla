------------------------------ MODULE Mailbox ------------------------------
(***************************************************************************)
(* What the mailboxes of one agentfs agent promise to the processes that   *)
(* use them, without locks, wait queues or the reaper: a bounded FIFO per  *)
(* box that lives as long as one owner.  When the owner is gone the boxes  *)
(* are empty and readers are told so; the next owner starts with empty     *)
(* boxes.  AgentFS implements this specification.                          *)
(***************************************************************************)
EXTENDS Naturals, Sequences

CONSTANTS
    Boxes,      \* the mailboxes of the agent: inbox and outbox
    Clients,    \* processes that read
    Tasks,      \* processes that may own the agent
    NoTask,     \* no owner
    NoBox,      \* a client that is not in a blocking read
    Lengths,    \* sizes of messages
    MaxMsgs     \* messages a box can hold

VARIABLES
    queue,      \* queue[b]: the messages of box b, each with its length and addressee
    owner,      \* the task whose messages these are, or NoTask
    waiting,    \* waiting[c]: the box client c is in a blocking read of
    result      \* result[c]: how c's last blocking read ended

vars == <<queue, owner, waiting, result>>

Empty == [b \in Boxes |-> << >>]

Init ==
    /\ queue = Empty
    /\ owner = NoTask
    /\ waiting = [c \in Clients |-> NoBox]
    /\ result = [c \in Clients |-> "none"]

(* A new owner; nothing written for an earlier one is left. *)
Open(t) ==
    /\ owner' = t
    /\ queue' = Empty
    /\ UNCHANGED <<waiting, result>>

Close ==
    /\ owner' = NoTask
    /\ queue' = Empty
    /\ UNCHANGED <<waiting, result>>

Put(b, len) ==
    /\ owner # NoTask
    /\ Len(queue[b]) < MaxMsgs
    /\ queue' = [queue EXCEPT ![b] = Append(@, [len |-> len, to |-> owner])]
    /\ UNCHANGED <<owner, waiting, result>>

(* A read that does not wait. *)
Get(b) ==
    /\ queue[b] # << >>
    /\ queue' = [queue EXCEPT ![b] = Tail(@)]
    /\ UNCHANGED <<owner, waiting, result>>

Begin(c, b) ==
    /\ waiting[c] = NoBox
    /\ waiting' = [waiting EXCEPT ![c] = b]
    /\ result' = [result EXCEPT ![c] = "none"]
    /\ UNCHANGED <<queue, owner>>

(* The blocking read of c ends. *)
End(c, how) ==
    /\ waiting[c] # NoBox
    /\ waiting' = [waiting EXCEPT ![c] = NoBox]
    /\ result' = [result EXCEPT ![c] = how]

Deliver(c) ==
    /\ End(c, "message")
    /\ queue[waiting[c]] # << >>
    /\ queue' = [queue EXCEPT ![waiting[c]] = Tail(@)]
    /\ UNCHANGED owner

Eof(c) ==
    /\ End(c, "eof")
    /\ owner = NoTask
    /\ UNCHANGED <<queue, owner>>

(* A signal ends the read, but not one that could return a message or 0. *)
Interrupted(c) ==
    /\ End(c, "interrupted")
    /\ queue[waiting[c]] = << >> /\ owner # NoTask
    /\ UNCHANGED <<queue, owner>>

Next ==
    \/ \E t \in Tasks : Open(t)
    \/ Close
    \/ \E b \in Boxes : Get(b) \/ \E len \in Lengths : Put(b, len)
    \/ \E c \in Clients :
         Deliver(c) \/ Eof(c) \/ Interrupted(c) \/ \E b \in Boxes : Begin(c, b)

Spec == Init /\ [][Next]_vars

(* A reader can return: there is a message for it, or no owner any more. *)
Servable(c, b) == waiting[c] = b /\ (queue[b] # << >> \/ owner = NoTask)

(* A blocking read returns unless its message goes to another reader or a  *)
(* new owner comes first.                                                  *)
Served == \A c \in Clients, b \in Boxes : Servable(c, b) ~> ~Servable(c, b)

LiveSpec == Spec /\ Served
=============================================================================
