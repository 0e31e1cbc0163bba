---------------------------- MODULE AgentFSProofs ---------------------------
(***************************************************************************)
(* AgentFSInv is an invariant of AgentFS, and AgentFS implements Mailbox,  *)
(* for any number of processes, tasks and mailboxes and any limits.        *)
(***************************************************************************)
EXTENDS AgentFS, TLAPS

USE Zenon, AgentFSAssumption


(* What a step must not disturb for the processes in the mailbox files. *)
Waiters == NoLostWakeup /\ InCall /\ SleepersLinked

(* A step that leaves processes, wait queues and messages alone, and does   *)
(* not make the agent dead, keeps the waiters.                              *)
LEMMA WaitersQuiet ==
    ASSUME Waiters, UNCHANGED <<client, readq, mail, unwoken>>, dead' => dead
    PROVE  Waiters'
  BY DEF Waiters, NoLostWakeup, InCall, SleepersLinked, Ready, WakePending, mail

(* A drain that leaves the agent alive makes nobody ready to read. *)
LEMMA WaitersDrained ==
    ASSUME TypeOK, Waiters, mailbox_drain_locked, ~dead',
           UNCHANGED <<client, readq>>
    PROVE  Waiters'
  BY DEF Waiters, NoLostWakeup, InCall, SleepersLinked, Ready, TypeOK,
         mailbox_drain_locked

(* Empty mailboxes are counted correctly. *)
LEMMA CountedDrained ==
    ASSUME mailbox_drain_locked
    PROVE  /\ Counted'
           /\ messages' \in [Boxes -> Seq(Message)]
           /\ queued_bytes' \in [Boxes -> Int]
           /\ queued_messages' \in [Boxes -> Nat]
  BY SMT DEF mailbox_drain_locked, Counted

(* The counters follow the messages when neither changes. *)
LEMMA CountedQuiet ==
    ASSUME Counted, UNCHANGED mail
    PROVE  Counted'
  BY DEF Counted, mail

(* The initial state satisfies the invariant. *)
LEMMA InvInit == Init => AgentFSInv
  <1> SUFFICES ASSUME Init PROVE AgentFSInv
    OBVIOUS
  <1>0. Idle \in ClientStates
    BY DEF Idle, ClientStates
  <1>1. TypeOK
    <2>0. result \in [Clients -> Results]
      BY DEF Init, Results
    <2>1. messages \in [Boxes -> Seq(Message)]
      BY SMT DEF Init
    <2>2. queued_bytes \in [Boxes -> Int] /\ queued_messages \in [Boxes -> Nat]
      BY SMT DEF Init
    <2>3. readq \in [Boxes -> SUBSET Clients] /\ client \in [Clients -> ClientStates]
      BY <1>0 DEF Init
    <2> QED
      BY <2>0, <2>1, <2>2, <2>3 DEF Init, TypeOK
  <1>2. Counted
    BY SMT DEF Init, Counted
  <1>3. NoLostWakeup /\ InCall /\ SleepersLinked
    BY DEF Init, NoLostWakeup, InCall, SleepersLinked, Idle
  <1>4. Lifecycle
    BY DEF Init, Lifecycle, Idle
  <1> QED
    BY <1>1, <1>2, <1>3, <1>4 DEF AgentFSInv

(* Registration, building the files, exit of the owner, mounting. *)
LEMMA InvRegistration ==
    ASSUME AgentFSInv,
           \/ \E t \in Tasks : register_recycle(t) \/ register_fresh(t) \/ TaskExit(t)
           \/ \E b \in Boxes : build_file(b)
           \/ build_fails \/ Unmount \/ agentfs_fill_super
    PROVE  AgentFSInv'
  <1> USE DEF AgentFSInv
  <1>0. Waiters
    BY DEF Waiters
  <1>1. ASSUME NEW t \in Tasks, register_recycle(t) PROVE AgentFSInv'
    <2>1. Counted' /\ TypeOK'
      BY <1>1, CountedDrained DEF register_recycle, TypeOK
    <2>2. Waiters'
      BY <1>1, <1>0, WaitersDrained DEF register_recycle
    <2>3. Lifecycle'
      BY <1>1 DEF register_recycle, Lifecycle, Recyclable, pid_alive
    <2> QED
      BY <2>1, <2>2, <2>3 DEF Waiters
  <1>2. ASSUME NEW t \in Tasks, register_fresh(t) PROVE AgentFSInv'
    <2>1. Counted' /\ TypeOK'
      BY <1>2, CountedDrained DEF register_fresh, TypeOK
    <2>2. Waiters'
      BY <1>2 DEF register_fresh, Lifecycle, Waiters, NoLostWakeup, InCall,
                    SleepersLinked
    <2>3. Lifecycle'
      BY <1>2 DEF register_fresh, Lifecycle, pid_alive
    <2> QED
      BY <2>1, <2>2, <2>3 DEF Waiters
  <1>3. ASSUME NEW t \in Tasks, TaskExit(t) PROVE AgentFSInv'
    <2>1. Counted' /\ TypeOK'
      BY <1>3, CountedQuiet DEF TaskExit, TypeOK, mail
    <2>2. Waiters'
      BY <1>3, <1>0, WaitersQuiet DEF TaskExit
    <2>3. Lifecycle'
      BY <1>3 DEF TaskExit, Lifecycle, mail
    <2> QED
      BY <2>1, <2>2, <2>3 DEF Waiters
  <1>4. ASSUME NEW b \in Boxes, build_file(b) PROVE AgentFSInv'
    <2>1. Counted' /\ TypeOK'
      BY <1>4, CountedQuiet DEF build_file, TypeOK, mail
    <2>2. Waiters'
      BY <1>4, <1>0, WaitersQuiet DEF build_file
    <2>3. Lifecycle'
      BY <1>4 DEF build_file, Lifecycle, mail
    <2> QED
      BY <2>1, <2>2, <2>3 DEF Waiters
  <1>5. ASSUME build_fails PROVE AgentFSInv'
    <2>1. Counted' /\ TypeOK'
      BY <1>5, CountedDrained DEF build_fails, TypeOK
    <2>2. ~dead'
      BY <1>5 DEF build_fails, Lifecycle
    <2>3. Waiters'
      BY <1>5, <1>0, <2>2, WaitersDrained DEF build_fails
    <2>4. Lifecycle'
      BY <1>5, <2>2 DEF build_fails, Lifecycle, Idle
    <2> QED
      BY <2>1, <2>3, <2>4 DEF Waiters
  <1>6. ASSUME Unmount \/ agentfs_fill_super PROVE AgentFSInv'
    <2>1. Counted' /\ TypeOK'
      BY <1>6, CountedQuiet DEF Unmount, agentfs_fill_super, TypeOK, mail
    <2>2. Waiters'
      BY <1>6, <1>0, WaitersQuiet, SMT DEF Unmount, agentfs_fill_super
    <2>3. Lifecycle'
      BY <1>6, SMT DEF Unmount, agentfs_fill_super, Lifecycle, mail
    <2> QED
      BY <2>1, <2>2, <2>3 DEF Waiters
  <1> QED
    BY <1>1, <1>2, <1>3, <1>4, <1>5, <1>6

-----------------------------------------------------------------------------
(* wake_up on box b: nobody sleeps there any more, and beyond that every    *)
(* process is where it was.                                                 *)
LEMMA WokenFacts ==
    ASSUME TypeOK, SleepersLinked, NEW b \in Boxes, NEW c \in Clients
    PROVE  /\ Woken(b)[c] \in ClientStates
           /\ Woken(b)[c].op = client[c].op
           /\ Woken(b)[c].box = client[c].box
           /\ \/ Woken(b)[c].pc = client[c].pc
              \/ client[c].pc = "sleep" /\ Woken(b)[c].pc = "prepare"
           /\ ~(Woken(b)[c].pc = "sleep" /\ Woken(b)[c].box = b)
  <1>1. client[c] \in ClientStates
    BY DEF TypeOK
  <1>2. CASE c \in readq[b] /\ client[c].pc = "sleep"
    <2>1. Woken(b)[c] = [client[c] EXCEPT !.pc = "prepare"]
      BY <1>2 DEF Woken
    <2> QED
      BY <1>1, <1>2, <2>1 DEF ClientStates
  <1>3. CASE ~(c \in readq[b] /\ client[c].pc = "sleep")
    <2>1. Woken(b)[c] = client[c]
      BY <1>3 DEF Woken
    <2> QED
      BY <1>1, <1>3, <2>1 DEF SleepersLinked
  <1> QED
    BY <1>2, <1>3

(* The reaper: it makes sleepers ready only where it goes on to wake them. *)
LEMMA InvReaper == ASSUME AgentFSInv, Reaper PROVE AgentFSInv'
  <1> USE DEF AgentFSInv
  <1>1. ASSUME reaper_mark PROVE AgentFSInv'
    <2>1. Counted' /\ TypeOK'
      BY <1>1, CountedDrained DEF reaper_mark, TypeOK
    <2>2. InCall' /\ SleepersLinked'
      BY <1>1 DEF reaper_mark, InCall, SleepersLinked
    <2>3. NoLostWakeup'
      BY <1>1, <2>2 DEF reaper_mark, NoLostWakeup, InCall, WakePending
    <2>4. Lifecycle'
      BY <1>1 DEF reaper_mark, Lifecycle, mailbox_drain_locked, pid_alive
    <2> QED
      BY <2>1, <2>2, <2>3, <2>4
  <1>2. ASSUME NEW b \in Boxes, reaper_wake(b) PROVE AgentFSInv'
    <2>0. /\ client' = Woken(b)
          /\ DOMAIN client' = Clients
          /\ readq' = [readq EXCEPT ![b] = {}]
          /\ UNCHANGED <<dead, listed, owner, building, messages, queued_messages,
                         queued_bytes, mounted, files, alive, reaper, result>>
          /\ unwoken' = unwoken \ {b}
      BY <1>2 DEF reaper_wake, agent, mail, Woken
    <2>1. Counted'
      BY <2>0 DEF Counted
    <2>2. TypeOK'
      <3>1. client' \in [Clients -> ClientStates]
        BY <2>0, WokenFacts DEF Woken
      <3> QED
        BY <2>0, <3>1 DEF TypeOK
    <2>3. InCall'
      BY <2>0, WokenFacts, SMT DEF InCall
    <2>4. SleepersLinked'
      <3> SUFFICES ASSUME NEW c \in Clients, client'[c].pc = "sleep"
                   PROVE  c \in readq'[client'[c].box]
        BY DEF SleepersLinked
      <3>1. client[c].pc = "sleep" /\ client'[c].box = client[c].box /\ client[c].box # b
        BY <2>0, WokenFacts, SMT
      <3> QED
        BY <2>0, <3>1 DEF SleepersLinked, InCall, TypeOK
    <2>5. NoLostWakeup'
      <3> SUFFICES ASSUME NEW c \in Clients,
                          client'[c].pc = "sleep", client'[c].op # "pollout", Ready(c)'
                   PROVE  WakePending(client[c].box)'
        BY DEF NoLostWakeup
      <3>1. /\ client[c].pc = "sleep" /\ client[c].op # "pollout"
            /\ client'[c].box = client[c].box /\ client[c].box # b
        BY <2>0, WokenFacts, SMT
      <3>2. Ready(c)
        BY <2>0, <3>1, WokenFacts, SMT DEF Ready
      <3>3. WakePending(client[c].box)
        BY <3>1, <3>2 DEF NoLostWakeup
      <3>4. CASE client[c].box \in unwoken
        BY <2>0, <3>1, <3>4 DEF WakePending
      <3>5. CASE \E w \in Clients : client[w].pc = "wake" /\ client[w].box = client[c].box
        <4>1. PICK w \in Clients : client[w].pc = "wake" /\ client[w].box = client[c].box
          BY <3>5
        <4>2. client'[w].pc = "wake" /\ client'[w].box = client[c].box
          BY <4>1, <2>0, WokenFacts
        <4> QED
          BY <4>2, <3>1 DEF WakePending
      <3> QED
        BY <3>3, <3>4, <3>5 DEF WakePending
    <2>6. Lifecycle'
      BY <2>0, WokenFacts, SMT DEF Lifecycle
    <2> QED
      BY <2>1, <2>2, <2>3, <2>4, <2>5, <2>6
  <1>3. ASSUME reaper_done PROVE AgentFSInv'
    <2>1. Counted' /\ TypeOK'
      BY <1>3, CountedQuiet DEF reaper_done, TypeOK, mail
    <2>2. Waiters'
      BY <1>3, WaitersQuiet DEF reaper_done, Waiters
    <2>3. Lifecycle'
      BY <1>3 DEF reaper_done, Lifecycle, mail
    <2> QED
      BY <2>1, <2>2, <2>3 DEF Waiters
  <1> QED
    BY <1>1, <1>2, <1>3 DEF Reaper



(* A process moves inside its call. *)
LEMMA GotoFacts ==
    ASSUME TypeOK, NEW c \in Clients, client[c].box \in Boxes,
           NEW pc \in {"lock", "prepare", "check", "sleep"}, Goto(c, pc)
    PROVE  /\ client' \in [Clients -> ClientStates]
           /\ client'[c].pc = pc
           /\ client'[c].op = client[c].op
           /\ client'[c].box = client[c].box
           /\ \A d \in Clients \ {c} : client'[d] = client[d]
  <1>1. client[c] \in ClientStates
    BY DEF TypeOK
  <1>2. client' = [client EXCEPT ![c] = [client[c] EXCEPT !.pc = pc]]
    BY DEF Goto
  <1>3. [client[c] EXCEPT !.pc = pc] \in ClientStates
    BY <1>1 DEF ClientStates
  <1> QED
    BY <1>1, <1>2, <1>3 DEF TypeOK, ClientStates

(* A process leaves its call. *)
LEMMA ReturnFacts ==
    ASSUME TypeOK, NEW c \in Clients, NEW how \in Results, Return(c, how)
    PROVE  /\ result' \in [Clients -> Results]
           /\ client' \in [Clients -> ClientStates]
           /\ client'[c] = Idle
           /\ \A d \in Clients \ {c} : client'[d] = client[d]
           /\ readq' \in [Boxes -> SUBSET Clients]
           /\ \A d \in Clients \ {c}, b \in Boxes : d \in readq[b] => d \in readq'[b]
  <1>1. Idle \in ClientStates
    BY DEF Idle, ClientStates
  <1> QED
    BY <1>1 DEF TypeOK, Return

(* A step of one process c that makes nobody else ready and wakes nobody. *)
LEMMA WaitersStep ==
    ASSUME TypeOK, Waiters, NEW c \in Clients,
           client[c].pc # "wake",
           \A d \in Clients \ {c} : client'[d] = client[d],
           \A d \in Clients \ {c}, b \in Boxes : d \in readq[b] => d \in readq'[b],
           \A b \in Boxes : messages'[b] # << >> => messages[b] # << >>,
           UNCHANGED <<dead, unwoken>>,
           client'[c].pc # "idle" => client'[c].box \in Boxes,
           client'[c].pc = "idle" => client'[c].op = "none",
           client'[c].pc = "wake" => client'[c].op = "write",
           client'[c].pc = "sleep" => ~Ready(c)' /\ c \in readq'[client'[c].box]
    PROVE  Waiters'
  <1> USE DEF Waiters
  <1>1. InCall'
    BY DEF InCall
  <1>2. SleepersLinked'
    BY DEF SleepersLinked, InCall
  <1>3. NoLostWakeup'
    <2> SUFFICES ASSUME NEW d \in Clients,
                        client'[d].pc = "sleep", client'[d].op # "pollout", Ready(d)'
                 PROVE  WakePending(client[d].box)'
      BY DEF NoLostWakeup
    <2>1. d # c /\ client'[d] = client[d]
      OBVIOUS
    <2>2. client[d].box \in Boxes
      BY <2>1 DEF InCall
    <2>3. Ready(d)
      BY <2>1, <2>2 DEF Ready
    <2>4. WakePending(client[d].box)
      BY <2>1, <2>3 DEF NoLostWakeup
    <2> QED
      BY <2>1, <2>4 DEF WakePending
  <1> QED
    BY <1>1, <1>2, <1>3

(* A process in a call is in a file of a listed agent. *)
LEMMA InCallFacts ==
    ASSUME AgentFSInv, NEW c \in Clients, client[c].pc # "idle"
    PROVE  client[c].box \in Boxes /\ listed
  BY DEF AgentFSInv, InCall, Lifecycle

(* A process leaves its call and makes nobody ready. *)
LEMMA LeaveKeeps ==
    ASSUME AgentFSInv, NEW c \in Clients,
           client[c].pc \notin {"idle", "wake"}, NEW how \in Results, Return(c, how),
           UNCHANGED <<agent, reaper, unwoken>>,
           \A b \in Boxes : messages'[b] # << >> => messages[b] # << >>
    PROVE  Waiters' /\ client' \in [Clients -> ClientStates]
                    /\ readq' \in [Boxes -> SUBSET Clients]
                    /\ result' \in [Clients -> Results]
  <1> USE DEF AgentFSInv
  <1>0. client'[c] = Idle
    BY ReturnFacts
  <1>1. client'[c].pc = "idle" /\ client'[c].op = "none"
    BY <1>0, SMT DEF Idle
  <1> QED
    BY <1>1, ReturnFacts, WaitersStep DEF Waiters, agent

(* A process moves on inside its call, but not to sleep. *)
LEMMA MoveKeeps ==
    ASSUME AgentFSInv, NEW c \in Clients,
           client[c].pc \notin {"idle", "wake"},
           NEW pc \in {"lock", "prepare", "check"}, Goto(c, pc),
           UNCHANGED <<agent, mail, reaper, unwoken>>,
           \A d \in Clients \ {c}, b \in Boxes : d \in readq[b] => d \in readq'[b]
    PROVE  Waiters' /\ client' \in [Clients -> ClientStates]
  <1> USE DEF AgentFSInv
  <1>1. /\ client'[c].pc = pc /\ client'[c].box \in Boxes
        /\ client' \in [Clients -> ClientStates]
        /\ \A d \in Clients \ {c} : client'[d] = client[d]
    BY InCallFacts, GotoFacts
  <1> QED
    BY <1>1, WaitersStep DEF Waiters, agent, mail

(* A step that changes neither the agent nor its mail has only the waiters  *)
(* to keep.                                                                 *)
LEMMA QuietKeeps ==
    ASSUME AgentFSInv, NEW c \in Clients,
           client[c].pc # "idle", UNCHANGED <<agent, mail, reaper, unwoken>>,
           Waiters', client' \in [Clients -> ClientStates],
           readq' \in [Boxes -> SUBSET Clients], result' \in [Clients -> Results]
    PROVE  AgentFSInv'
  <1> USE DEF AgentFSInv
  <1>1. Counted' /\ TypeOK'
    BY CountedQuiet DEF TypeOK, agent, mail
  <1>2. Lifecycle'
    BY InCallFacts DEF Lifecycle, agent, mail
  <1> QED
    BY <1>1, <1>2 DEF Waiters

(* A process enters mailbox_read or mailbox_poll. *)
LEMMA InvOpen ==
    ASSUME AgentFSInv, NEW c \in Clients, NEW b \in Boxes,
           NEW op \in {"read", "tryread", "pollin", "pollout"}, mailbox_open(c, b, op)
    PROVE  AgentFSInv'
  <1> USE DEF AgentFSInv
  <1> DEFINE pc == IF op \in {"read", "tryread"} THEN "lock" ELSE "prepare"
             x == [pc |-> pc, op |-> op, box |-> b]
  <1>1. x \in ClientStates
    BY DEF ClientStates
  <1>2. client' = [client EXCEPT ![c] = x]
    BY DEF mailbox_open
  <1>3. Counted' /\ TypeOK'
    <2>1. result' \in [Clients -> Results]
      BY DEF mailbox_open, TypeOK, Results
    <2>2. client' \in [Clients -> ClientStates]
      BY <1>1, <1>2 DEF TypeOK
    <2>3. UNCHANGED <<agent, mail, readq, reaper, unwoken>>
      BY DEF mailbox_open
    <2>4. TypeOK'
      BY <2>1, <2>2, <2>3 DEF TypeOK, agent, mail
    <2> QED
      BY <2>3, <2>4, CountedQuiet
  <1>4. /\ client'[c].pc \in {"lock", "prepare"} /\ client'[c].box = b
        /\ client[c].pc # "wake"
        /\ \A d \in Clients \ {c} : client'[d] = client[d]
    BY <1>2, SMT DEF TypeOK, mailbox_open, Idle
  <1>5. Waiters'
    BY <1>4, WaitersStep DEF mailbox_open, Waiters, agent, mail
  <1>6. Lifecycle'
    BY DEF mailbox_open, Lifecycle, agent, mail
  <1> QED
    BY <1>3, <1>5, <1>6 DEF Waiters

(* A reader takes the oldest message and leaves. *)
LEMMA InvTake ==
    ASSUME AgentFSInv, NEW c \in Clients, read_take(c)
    PROVE  AgentFSInv'
  <1> USE DEF AgentFSInv
  <1> DEFINE b == client[c].box
  <1>0. b \in Boxes /\ messages[b] \in Seq(Message) /\ messages[b] # << >> /\ listed
    BY InCallFacts DEF read_take, TypeOK
  <1>1. /\ messages' = [messages EXCEPT ![b] = Tail(messages[b])]
        /\ queued_bytes' = [queued_bytes EXCEPT ![b] = queued_bytes[b] - Head(messages[b]).len]
        /\ queued_messages' = [queued_messages EXCEPT ![b] = queued_messages[b] - 1]
        /\ client[c].pc = "lock" /\ Return(c, "message") /\ UNCHANGED <<agent, reaper, unwoken>>
    BY DEF read_take
  <1>2. /\ Tail(messages[b]) \in Seq(Message)
        /\ Len(Tail(messages[b])) = Len(messages[b]) - 1
        /\ Len(messages[b]) \in Nat \ {0}
    BY <1>0, SMT
  <1>3. Head(messages[b]).len \in Nat
    <2>1. Head(messages[b]) \in Message
      BY <1>0, SMT
    <2>2. Head(messages[b]).len \in Lengths
      BY <2>1 DEF Message
    <2> QED
      BY <2>2, SMT DEF Lengths
  <1>4. \A e \in Boxes : messages'[e] # << >> => messages[e] # << >>
    BY <1>0, <1>1 DEF TypeOK
  <1>5. /\ Waiters' /\ client' \in [Clients -> ClientStates]
        /\ readq' \in [Boxes -> SUBSET Clients] /\ result' \in [Clients -> Results]
    BY LeaveKeeps, <1>1, <1>4 DEF Results
  <1>6. Counted'
    <2>1. /\ messages'[b] = Tail(messages[b])
          /\ queued_bytes'[b] = queued_bytes[b] - Head(messages[b]).len
          /\ queued_messages'[b] = queued_messages[b] - 1
      BY <1>0, <1>1 DEF TypeOK
    <2>2. \A e \in Boxes \ {b} : /\ messages'[e] = messages[e]
                                /\ queued_bytes'[e] = queued_bytes[e]
                                /\ queued_messages'[e] = queued_messages[e]
      BY <1>1 DEF TypeOK
    <2>3. /\ queued_messages[b] - 1 = Len(Tail(messages[b]))
          /\ queued_messages[b] - 1 <= AGENTFS_MAX_QUEUE_MSGS
      BY <1>0, <1>2, SMT DEF Counted
    <2>4. queued_bytes[b] - Head(messages[b]).len <= AGENTFS_MAX_QUEUE_BYTES
      <3>1. queued_bytes[b] \in Int /\ queued_bytes[b] <= AGENTFS_MAX_QUEUE_BYTES
        BY <1>0 DEF Counted, TypeOK
      <3> QED
        BY <1>3, <3>1, SMT
    <2> QED
      BY <2>1, <2>2, <2>3, <2>4 DEF Counted
  <1>7. TypeOK'
    <2>1. messages' \in [Boxes -> Seq(Message)] /\ queued_bytes' \in [Boxes -> Int]
      BY <1>0, <1>1, <1>2, <1>3, SMT DEF TypeOK
    <2>2. queued_messages[b] - 1 \in Nat
      BY <1>0, <1>2, SMT DEF Counted
    <2>3. queued_messages' \in [Boxes -> Nat]
      BY <1>0, <1>1, <2>2 DEF TypeOK
    <2> QED
      BY <1>1, <1>5, <2>1, <2>3 DEF TypeOK, agent
  <1>8. Lifecycle'
    BY <1>0, <1>1 DEF Lifecycle, agent
  <1> QED
    BY <1>5, <1>6, <1>7, <1>8 DEF Waiters

(* A process is linked into the wait queue before it tests its condition. *)
LEMMA InvPrepare ==
    ASSUME AgentFSInv, NEW c \in Clients, wait_prepare(c)
    PROVE  AgentFSInv'
  <1> USE DEF AgentFSInv
  <1>1. readq' = [readq EXCEPT ![client[c].box] = readq[client[c].box] \cup {c}]
    BY DEF wait_prepare
  <1>2. readq' \in [Boxes -> SUBSET Clients]
    BY <1>1 DEF TypeOK
  <1>3. \A d \in Clients \ {c}, b \in Boxes : d \in readq[b] => d \in readq'[b]
    BY <1>1 DEF TypeOK
  <1> QED
    BY MoveKeeps, QuietKeeps, <1>2, <1>3 DEF wait_prepare, TypeOK

(* A wait ends: a blocking reader takes the lock again, others return. *)
LEMMA ProceedKeeps ==
    ASSUME AgentFSInv, NEW c \in Clients,
           client[c].pc \notin {"idle", "wake"}, Proceed(c),
           UNCHANGED <<agent, mail, reaper, unwoken>>
    PROVE  AgentFSInv'
  <1> USE DEF AgentFSInv
  <1>1. CASE client[c].op = "read"
    <2>1. /\ Goto(c, "lock") /\ UNCHANGED result
          /\ readq' = [readq EXCEPT ![client[c].box] = readq[client[c].box] \ {c}]
      BY <1>1 DEF Proceed
    <2>2. readq' \in [Boxes -> SUBSET Clients]
      BY <2>1 DEF TypeOK
    <2>3. \A d \in Clients \ {c}, b \in Boxes : d \in readq[b] => d \in readq'[b]
      BY <2>1 DEF TypeOK
    <2> QED
      BY MoveKeeps, QuietKeeps, <2>1, <2>2, <2>3 DEF TypeOK
  <1>2. CASE client[c].op # "read"
    BY LeaveKeeps, QuietKeeps, <1>2 DEF Proceed, mail, Results
  <1> QED
    BY <1>1, <1>2

(* A process that is linked and found its condition false goes to sleep. *)
LEMMA InvSleep ==
    ASSUME AgentFSInv, NEW c \in Clients, wait_sleep(c)
    PROVE  AgentFSInv'
  <1> USE DEF AgentFSInv
  <1>1. CASE c \in readq[client[c].box]
    <2>1. /\ client[c].pc = "check" /\ ~Ready(c) /\ Goto(c, "sleep")
          /\ UNCHANGED <<agent, mail, readq, reaper, unwoken, result>>
      BY <1>1 DEF wait_sleep
    <2>2. /\ client'[c].pc = "sleep" /\ client'[c].box = client[c].box
          /\ client'[c].op = client[c].op
          /\ client' \in [Clients -> ClientStates]
          /\ \A d \in Clients \ {c} : client'[d] = client[d]
      BY InCallFacts, <2>1, GotoFacts
    <2>3. ~Ready(c)'
      BY <2>1, <2>2 DEF Ready, agent, mail
    <2>4. Waiters'
      BY InCallFacts, <1>1, <2>1, <2>2, <2>3, WaitersStep DEF Waiters, agent, mail
    <2> QED
      BY QuietKeeps, <2>1, <2>2, <2>4 DEF TypeOK
  <1>2. CASE c \notin readq[client[c].box]
    BY MoveKeeps, QuietKeeps, <1>2 DEF wait_sleep, TypeOK
  <1> QED
    BY <1>1, <1>2

(* The steps of a process in mailbox_read, mailbox_poll or on its way into  *)
(* them, and signals.  Each changes at most the process's own place and     *)
(* takes at most one message.                                               *)
LEMMA InvWaiting ==
    ASSUME AgentFSInv, NEW c \in Clients,
           \/ \E b \in Boxes, op \in {"read", "tryread", "pollin", "pollout"} :
                mailbox_open(c, b, op)
           \/ read(c) \/ wait_prepare(c) \/ wait_ready(c) \/ wait_sleep(c) \/ Interrupt(c)
    PROVE  AgentFSInv'
  <1>1. CASE read_eof(c)
    BY <1>1, LeaveKeeps, QuietKeeps DEF read_eof, mail, Results
  <1>2. CASE read_empty(c)
    <2>1. client[c].pc = "lock" /\ UNCHANGED <<agent, mail, reaper, unwoken>>
      BY <1>2 DEF read_empty
    <2>2. CASE Return(c, "none")
      BY <2>1, <2>2, LeaveKeeps, QuietKeeps DEF mail, Results
    <2>3. CASE Goto(c, "prepare") /\ UNCHANGED <<readq, result>>
      <3>1. readq' \in [Boxes -> SUBSET Clients] /\ result' \in [Clients -> Results]
        BY <2>3 DEF AgentFSInv, TypeOK
      <3>2. Waiters' /\ client' \in [Clients -> ClientStates]
        BY <2>1, <2>3, MoveKeeps
      <3> QED
        BY <2>1, <3>1, <3>2, QuietKeeps
    <2> QED
      BY <1>2, <2>2, <2>3 DEF read_empty
  <1>3. CASE wait_ready(c)
    BY <1>3, ProceedKeeps DEF wait_ready
  <1>4. CASE Interrupt(c)
    <2>1. client[c].pc = "sleep" /\ UNCHANGED <<agent, mail, reaper, unwoken>>
      BY <1>4 DEF Interrupt
    <2>2. CASE Return(c, "interrupted")
      BY <2>1, <2>2, LeaveKeeps, QuietKeeps DEF mail, Results
    <2>3. CASE Proceed(c)
      BY <2>1, <2>3, ProceedKeeps
    <2> QED
      BY <1>4, <2>2, <2>3 DEF Interrupt
  <1> QED
    BY <1>1, <1>2, <1>3, <1>4, InvOpen, InvTake, InvPrepare, InvSleep DEF read



(* A writer makes readers ready and owes them a wake-up until it has given  *)
(* it.                                                                      *)
LEMMA InvWriting ==
    ASSUME AgentFSInv, NEW c \in Clients,
           \/ \E b \in Boxes, len \in Lengths : mailbox_write(c, b, len)
           \/ mailbox_write_wake(c)
    PROVE  AgentFSInv'
  <1> USE DEF AgentFSInv
  <1>1. ASSUME NEW b \in Boxes, NEW len \in Lengths, mailbox_write(c, b, len)
        PROVE  AgentFSInv'
    <2> DEFINE x == [pc |-> "wake", op |-> "write", box |-> b]
               m == [len |-> len, to |-> owner]
    <2>0. /\ client[c] = Idle /\ listed /\ ~dead /\ Room(b, len)
          /\ messages' = [messages EXCEPT ![b] = Append(messages[b], m)]
          /\ queued_bytes' = [queued_bytes EXCEPT ![b] = queued_bytes[b] + len]
          /\ queued_messages' = [queued_messages EXCEPT ![b] = queued_messages[b] + 1]
          /\ client' = [client EXCEPT ![c] = x]
          /\ UNCHANGED <<agent, readq, reaper, unwoken, result>>
      BY <1>1 DEF mailbox_write
    <2>1. len \in Nat /\ queued_bytes[b] \in Int /\ queued_messages[b] \in Nat
      BY SMT DEF Lengths, TypeOK
    <2>2. m \in Message
      BY <2>0 DEF Message, Lifecycle
    <2>3. /\ Append(messages[b], m) \in Seq(Message)
          /\ Len(Append(messages[b], m)) = Len(messages[b]) + 1
      BY <2>2, SMT DEF TypeOK
    <2>4. Counted'
      <3>1. /\ messages'[b] = Append(messages[b], m)
            /\ queued_bytes'[b] = queued_bytes[b] + len
            /\ queued_messages'[b] = queued_messages[b] + 1
        BY <2>0 DEF TypeOK
      <3>2. \A e \in Boxes \ {b} : /\ messages'[e] = messages[e]
                                  /\ queued_bytes'[e] = queued_bytes[e]
                                  /\ queued_messages'[e] = queued_messages[e]
        BY <2>0 DEF TypeOK
      <3>3. /\ queued_messages[b] + 1 = Len(Append(messages[b], m))
            /\ queued_messages[b] + 1 <= AGENTFS_MAX_QUEUE_MSGS
            /\ queued_bytes[b] + len <= AGENTFS_MAX_QUEUE_BYTES
        BY <2>0, <2>1, <2>3, SMT DEF Counted, Room
      <3> QED
        BY <3>1, <3>2, <3>3 DEF Counted
    <2>5. TypeOK'
      <3>1. x \in ClientStates
        BY DEF ClientStates
      <3>2. client' \in [Clients -> ClientStates]
        BY <2>0, <3>1 DEF TypeOK
      <3>3. messages' \in [Boxes -> Seq(Message)]
        BY <2>0, <2>3 DEF TypeOK
      <3>4. queued_bytes' \in [Boxes -> Int] /\ queued_messages' \in [Boxes -> Nat]
        BY <2>0, <2>1, SMT DEF TypeOK
      <3> QED
        BY <2>0, <3>2, <3>3, <3>4 DEF TypeOK, agent
    <2>6. /\ client'[c].pc = "wake" /\ client'[c].op = "write" /\ client'[c].box = b
          /\ client[c].pc = "idle"
          /\ \A d \in Clients \ {c} : client'[d] = client[d]
      BY <2>0, SMT DEF TypeOK, Idle
    <2>7. InCall' /\ SleepersLinked'
      <3>1. InCall'
        BY <2>6 DEF InCall
      <3>2. SleepersLinked'
        BY <2>0, <2>6 DEF SleepersLinked
      <3> QED
        BY <3>1, <3>2
    <2>8. NoLostWakeup'
      <3> SUFFICES ASSUME NEW d \in Clients,
                          client'[d].pc = "sleep", client'[d].op # "pollout", Ready(d)'
                   PROVE  WakePending(client[d].box)'
        BY DEF NoLostWakeup
      <3>1. d # c /\ client'[d] = client[d]
        BY <2>6
      <3>2. CASE client[d].box = b
        BY <2>6, <3>1, <3>2 DEF WakePending
      <3>3. CASE client[d].box # b
        <4>1. messages'[client[d].box] = messages[client[d].box]
          BY <2>0, <3>1, <3>3 DEF TypeOK, InCall
        <4>2. Ready(d)
          BY <2>0, <3>1, <4>1 DEF Ready, agent
        <4>3. WakePending(client[d].box)
          BY <3>1, <4>2 DEF NoLostWakeup
        <4> QED
          BY <2>0, <2>6, <3>1, <4>3, SMT DEF WakePending
      <3> QED
        BY <3>2, <3>3
    <2>9. Lifecycle'
      BY <2>0 DEF Lifecycle, agent
    <2> QED
      BY <2>4, <2>5, <2>7, <2>8, <2>9
  <1>2. ASSUME mailbox_write_wake(c) PROVE AgentFSInv'
    <2>0. PICK b \in Boxes :
            /\ client[c].pc = "wake" /\ client[c].box = b /\ listed
            /\ client' = [Woken(b) EXCEPT ![c] = Idle]
            /\ readq' = [readq EXCEPT ![b] = {}]
            /\ UNCHANGED <<agent, mail, reaper, unwoken, result>>
      BY <1>2 DEF mailbox_write_wake, InCall, Lifecycle
    <2>1. /\ client'[c] = Idle
          /\ \A d \in Clients \ {c} : client'[d] = Woken(b)[d]
          /\ DOMAIN client' = Clients
      BY <2>0 DEF Woken
    <2>2. \A d \in Clients \ {c} :
            /\ client'[d] \in ClientStates
            /\ client'[d].op = client[d].op /\ client'[d].box = client[d].box
            /\ client'[d].pc = client[d].pc \/ (client[d].pc = "sleep" /\ client'[d].pc = "prepare")
            /\ ~(client'[d].pc = "sleep" /\ client'[d].box = b)
      <3> SUFFICES ASSUME NEW d \in Clients \ {c}
                   PROVE  /\ client'[d] \in ClientStates
                          /\ client'[d].op = client[d].op /\ client'[d].box = client[d].box
                          /\ \/ client'[d].pc = client[d].pc
                             \/ client[d].pc = "sleep" /\ client'[d].pc = "prepare"
                          /\ ~(client'[d].pc = "sleep" /\ client'[d].box = b)
        OBVIOUS
      <3>1. client'[d] = Woken(b)[d]
        BY <2>1
      <3>2. TypeOK /\ SleepersLinked /\ b \in Boxes /\ d \in Clients
        BY <2>0
      <3> QED
        BY ONLY <3>1, <3>2, WokenFacts, SMT
    <2>3. client'[c].pc = "idle" /\ client'[c].op = "none" /\ client'[c] \in ClientStates
      BY <2>1, SMT DEF Idle, ClientStates
    <2>4. Counted'
      BY <2>0, CountedQuiet
    <2>5. TypeOK'
      <3>1. client' \in [Clients -> ClientStates]
        <4>1. client' = [d \in Clients |-> client'[d]]
          BY <2>0 DEF Woken
        <4> QED
          BY <2>2, <2>3, <4>1
      <3> QED
        BY <2>0, <3>1 DEF TypeOK, agent, mail
    <2>6. InCall'
      BY <2>2, <2>3, SMT DEF InCall
    <2>7. SleepersLinked'
      <3> SUFFICES ASSUME NEW d \in Clients, client'[d].pc = "sleep"
                   PROVE  d \in readq'[client'[d].box]
        BY DEF SleepersLinked
      <3>1. client[d].pc = "sleep" /\ client'[d].box = client[d].box /\ client[d].box # b
        BY <2>2, <2>3
      <3> QED
        BY <2>0, <3>1 DEF SleepersLinked, InCall, TypeOK
    <2>8. NoLostWakeup'
      <3> SUFFICES ASSUME NEW d \in Clients,
                          client'[d].pc = "sleep", client'[d].op # "pollout", Ready(d)'
                   PROVE  WakePending(client[d].box)'
        BY DEF NoLostWakeup
      <3>1. /\ client[d].pc = "sleep" /\ client[d].op # "pollout" /\ d # c
            /\ client'[d].box = client[d].box /\ client'[d].op = client[d].op
            /\ client[d].box # b
        BY <2>2, <2>3
      <3>2. Ready(d)
        BY <2>0, <3>1 DEF Ready, agent, mail
      <3>3. WakePending(client[d].box)
        BY <3>1, <3>2 DEF NoLostWakeup
      <3>4. CASE client[d].box \in unwoken
        <4>1. client'[d].box \in unwoken'
          <5>1. unwoken' = unwoken
            BY <2>0
          <5> QED
            BY <5>1, <3>1, <3>4
        <4> QED
          BY <4>1 DEF WakePending
      <3>5. CASE \E w \in Clients : client[w].pc = "wake" /\ client[w].box = client[d].box
        <4>1. PICK w \in Clients : client[w].pc = "wake" /\ client[w].box = client[d].box
          BY <3>5
        <4>2. w # c
          BY <2>0, <3>1, <4>1
        <4>3. client'[w].pc = "wake" /\ client'[w].box = client[d].box
          BY <4>1, <4>2, <2>2
        <4> QED
          BY <4>3, <3>1 DEF WakePending
      <3> QED
        BY <3>3, <3>4, <3>5 DEF WakePending
    <2>9. Lifecycle'
      BY <2>0 DEF Lifecycle, agent, mail
    <2> QED
      BY <2>4, <2>5, <2>6, <2>7, <2>8, <2>9
  <1> QED
    BY <1>1, <1>2

(* Every step keeps the invariant. *)
LEMMA InvStep == AgentFSInv /\ [Next]_vars => AgentFSInv'
  <1> SUFFICES ASSUME AgentFSInv, [Next]_vars PROVE AgentFSInv'
    OBVIOUS
  <1>1. CASE UNCHANGED vars
    BY <1>1 DEF vars, agent, mail, AgentFSInv, TypeOK, Counted, NoLostWakeup, InCall,
                SleepersLinked, Lifecycle, Ready, WakePending
  <1>2. CASE Next
    BY <1>2, InvRegistration, InvReaper, InvWaiting, InvWriting DEF Next, Running
  <1> QED
    BY <1>1, <1>2

(* AgentFSInv holds in every state of agentfs.c's model, whatever the       *)
(* faults.                                                                  *)
THEOREM InvAlways == Spec => []AgentFSInv
  BY InvInit, InvStep, PTL DEF Spec

(* The module's state keeps its types. *)
THEOREM TypeCorrect == Spec => []TypeOK
  <1>1. AgentFSInv => TypeOK
    BY DEF AgentFSInv
  <1> QED
    BY <1>1, InvAlways, PTL

(* A process asleep in mailbox_read or in a poll for input never misses the *)
(* wake-up of a writer or of the reaper.                                    *)
THEOREM NoLostWakeupAlways == Spec => []NoLostWakeup
  <1>1. AgentFSInv => NoLostWakeup
    BY DEF AgentFSInv
  <1> QED
    BY <1>1, InvAlways, PTL

(* The mailbox limits of mailbox_write hold and the message count is exact. *)
THEOREM CountedAlways == Spec => []Counted
  <1>1. AgentFSInv => Counted
    BY DEF AgentFSInv
  <1> QED
    BY <1>1, InvAlways, PTL

-----------------------------------------------------------------------------

(* Steps that move processes without ending or beginning a blocking read    *)
(* are not seen by clients.                                                 *)
LEMMA SameWaiting ==
    ASSUME \A d \in Clients : client'[d].op = client[d].op /\ client'[d].box = client[d].box
    PROVE  MailWaiting' = MailWaiting
  BY DEF MailWaiting, InRead

(* A process that returns from a call is no longer waiting. *)
LEMMA ReturnWaiting ==
    ASSUME TypeOK, NEW c \in Clients, NEW how \in Results, Return(c, how)
    PROVE  /\ InRead(c) => /\ MailWaiting' = [MailWaiting EXCEPT ![c] = NoBox]
                           /\ result' = [result EXCEPT ![c] = how]
           /\ ~InRead(c) => MailWaiting' = MailWaiting /\ result' = result
  <1>1. client'[c] = Idle /\ \A d \in Clients \ {c} : client'[d] = client[d]
    BY ReturnFacts
  <1>2. client'[c].op = "none"
    BY <1>1, SMT DEF Idle
  <1>3. /\ MailWaiting' = [MailWaiting EXCEPT ![c] = NoBox]
        /\ ~InRead(c) => MailWaiting' = MailWaiting
    BY <1>1, <1>2 DEF MailWaiting, InRead
  <1>4. result' = IF InRead(c) THEN [result EXCEPT ![c] = how] ELSE result
    BY DEF InRead, Return
  <1> QED
    BY <1>3, <1>4

(* The owner as clients see it depends on registration and the reaper only. *)
LEMMA SameOwner ==
    ASSUME UNCHANGED agent
    PROVE  MailOwner' = MailOwner
  BY DEF MailOwner, agent

(* The initial states of agentfs are initial states of Mailbox. *)
LEMMA RefinesInit == Init => M!Init
  BY SMT DEF Init, M!Init, M!Empty, MailOwner, MailWaiting, InRead, Idle

(* Every step of agentfs is a step of Mailbox or invisible to its clients. *)
LEMMA RefinesStep == AgentFSInv /\ [Next]_vars => [M!Next]_(M!vars)
  <1> SUFFICES ASSUME AgentFSInv, [Next]_vars PROVE M!Next \/ UNCHANGED M!vars
    OBVIOUS
  <1> USE DEF AgentFSInv
  <1>1. ASSUME UNCHANGED <<messages, MailOwner, MailWaiting, result>>
        PROVE  UNCHANGED M!vars
    BY <1>1 DEF M!vars
  <1>2. CASE UNCHANGED vars
    BY <1>1, <1>2 DEF vars, agent, mail, MailOwner, MailWaiting, InRead
  <1>3. ASSUME NEW t \in Tasks, register_recycle(t) \/ register_fresh(t)
        PROVE  M!Next
    <2>1. /\ MailOwner' = t /\ messages' = M!Empty
          /\ MailWaiting' = MailWaiting /\ result' = result
      BY <1>3, SameWaiting, SMT
         DEF register_recycle, register_fresh, mailbox_drain_locked, MailOwner, M!Empty
    <2> QED
      BY <2>1 DEF M!Next, M!Open
  <1>4. ASSUME NEW t \in Tasks, TaskExit(t) PROVE UNCHANGED M!vars
    BY <1>1, <1>4, SameWaiting DEF TaskExit, mail, MailOwner
  <1>5. ASSUME NEW b \in Boxes, build_file(b) PROVE UNCHANGED M!vars
    BY <1>1, <1>5, SameWaiting DEF build_file, mail, MailOwner
  <1>6. ASSUME build_fails \/ reaper_mark PROVE M!Next
    <2>1. /\ MailOwner' = NoTask /\ messages' = M!Empty
          /\ MailWaiting' = MailWaiting /\ result' = result
      BY <1>6, SameWaiting
         DEF build_fails, reaper_mark, mailbox_drain_locked, MailOwner, M!Empty
    <2> QED
      BY <2>1 DEF M!Next, M!Close
  <1>7. ASSUME Unmount \/ agentfs_fill_super PROVE UNCHANGED M!vars
    BY <1>1, <1>7, SameWaiting, SMT DEF Unmount, agentfs_fill_super, mail, MailOwner
  <1>8. ASSUME NEW b \in Boxes, reaper_wake(b) PROVE UNCHANGED M!vars
    <2>1. \A d \in Clients : client'[d].op = client[d].op /\ client'[d].box = client[d].box
      BY <1>8, WokenFacts, SMT DEF reaper_wake
    <2> QED
      BY <1>1, <1>8, <2>1, SameWaiting, SameOwner DEF reaper_wake, mail
  <1>9. ASSUME reaper_done PROVE UNCHANGED M!vars
    BY <1>1, <1>9, SameWaiting DEF reaper_done, mail, MailOwner, Lifecycle
  <1>10. ASSUME NEW c \in Clients, NEW b \in Boxes,
                NEW op \in {"read", "tryread", "pollin", "pollout"}, mailbox_open(c, b, op)
         PROVE  M!Next \/ UNCHANGED M!vars
    <2>1. /\ client[c].op = "none" /\ client'[c].op = op /\ client'[c].box = b
          /\ \A d \in Clients \ {c} : client'[d] = client[d]
          /\ UNCHANGED <<agent, messages>>
          /\ result' = IF op = "read" THEN [result EXCEPT ![c] = "none"] ELSE result
      BY <1>10, SMT DEF mailbox_open, mail, TypeOK, Idle
    <2>2. CASE op = "read"
      <3>1. MailWaiting[c] = NoBox /\ MailWaiting' = [MailWaiting EXCEPT ![c] = b]
        BY <2>1, <2>2 DEF MailWaiting, InRead
      <3>2. M!Begin(c, b)
        BY <2>1, <2>2, <3>1, SameOwner DEF M!Begin
      <3> QED
        BY <3>2 DEF M!Next
    <2>3. CASE op # "read"
      <3>1. MailWaiting' = MailWaiting
        BY <2>1, <2>3 DEF MailWaiting, InRead
      <3> QED
        BY <1>1, <2>1, <2>3, <3>1, SameOwner
    <2> QED
      BY <2>2, <2>3
  <1>11. ASSUME NEW c \in Clients, NEW b \in Boxes, NEW len \in Lengths,
                mailbox_write(c, b, len)
         PROVE  M!Next
    <2>1. /\ client[c].op = "none" /\ client'[c].op = "write"
          /\ \A d \in Clients \ {c} : client'[d] = client[d]
      BY <1>11, SMT DEF mailbox_write, TypeOK, Idle
    <2>2. MailWaiting' = MailWaiting
      BY <2>1 DEF MailWaiting, InRead
    <2>3. MailOwner = owner /\ MailOwner # NoTask /\ MailOwner' = MailOwner
      BY <1>11, SameOwner DEF mailbox_write, MailOwner, Lifecycle
    <2>4. Len(messages[b]) < AGENTFS_MAX_QUEUE_MSGS
      BY <1>11 DEF mailbox_write, Room, Counted
    <2>5. M!Put(b, len)
      BY <1>11, <2>2, <2>3, <2>4 DEF mailbox_write, M!Put
    <2> QED
      BY <2>5 DEF M!Next
  <1>12. ASSUME NEW c \in Clients, mailbox_write_wake(c) PROVE UNCHANGED M!vars
    <2> DEFINE b == client[c].box
    <2>0. /\ client[c].op = "write" /\ b \in Boxes
          /\ client' = [Woken(b) EXCEPT ![c] = Idle]
          /\ UNCHANGED <<agent, mail, result>>
      BY <1>12 DEF mailbox_write_wake, InCall
    <2>1. client'[c].op = "none" /\ \A d \in Clients \ {c} : client'[d] = Woken(b)[d]
      BY <2>0 DEF Woken, Idle
    <2>2. ASSUME NEW d \in Clients \ {c}
          PROVE  client'[d].op = client[d].op /\ client'[d].box = client[d].box
      <3>1. client'[d] = Woken(b)[d]
        BY <2>1
      <3> QED
        BY <2>0, <3>1, WokenFacts, SMT
    <2>3. MailWaiting' = MailWaiting
      <3>1. ~InRead(c) /\ ~InRead(c)'
        BY <2>0, <2>1 DEF InRead
      <3>2. \A d \in Clients \ {c} : (InRead(d)' <=> InRead(d)) /\ client'[d].box = client[d].box
        BY <2>2 DEF InRead
      <3> QED
        BY <3>1, <3>2 DEF MailWaiting
    <2> QED
      BY <1>1, <2>0, <2>3, SameOwner DEF mail
  <1>13. ASSUME NEW c \in Clients, client[c].pc # "idle", ~InRead(c),
                NEW how \in Results, Return(c, how), UNCHANGED <<agent, mail>>
         PROVE  UNCHANGED M!vars
    BY <1>1, <1>13, ReturnWaiting, SameOwner DEF mail
  <1>14. ASSUME NEW c \in Clients, client[c].pc # "idle",
                NEW pc \in {"lock", "prepare", "check", "sleep"}, Goto(c, pc),
                UNCHANGED <<agent, mail, result>>
         PROVE  UNCHANGED M!vars
    <2>1. client[c].box \in Boxes
      BY <1>14 DEF InCall
    <2>2. \A d \in Clients : client'[d].op = client[d].op /\ client'[d].box = client[d].box
      BY <1>14, <2>1, GotoFacts
    <2> QED
      BY <1>1, <1>14, <2>2, SameWaiting, SameOwner DEF mail
  <1>15. ASSUME NEW c \in Clients, read(c) PROVE M!Next \/ UNCHANGED M!vars
    <2>0. client[c].pc # "idle" => MailWaiting[c] # NoBox \/ ~InRead(c)
      BY DEF MailWaiting, InCall
    <2>1. CASE read_eof(c)
      <3>1. /\ client[c].pc # "idle" /\ Return(c, "eof") /\ UNCHANGED <<agent, mail>>
            /\ MailOwner = NoTask
        BY <2>1 DEF read_eof, MailOwner
      <3>2. CASE InRead(c)
        <4>1. M!Eof(c)
          BY <2>0, <3>1, <3>2, ReturnWaiting, SameOwner DEF M!Eof, M!End, mail, Results
        <4> QED
          BY <4>1 DEF M!Next
      <3> QED
        BY <1>13, <3>1, <3>2 DEF Results
    <2>2. CASE read_take(c)
      <3> DEFINE b == client[c].box
      <3>1. /\ b \in Boxes /\ messages[b] # << >>
            /\ messages' = [messages EXCEPT ![b] = Tail(messages[b])]
            /\ Return(c, "message") /\ UNCHANGED agent
        BY <2>2 DEF read_take, InCall
      <3>2. CASE InRead(c)
        <4>1. MailWaiting[c] = b /\ b # NoBox
          BY <3>1, <3>2 DEF MailWaiting
        <4>2. M!Deliver(c)
          BY <3>1, <3>2, <4>1, ReturnWaiting, SameOwner DEF M!Deliver, M!End, Results
        <4> QED
          BY <4>2 DEF M!Next
      <3>3. CASE ~InRead(c)
        <4>1. M!Get(b)
          BY <3>1, <3>3, ReturnWaiting, SameOwner DEF M!Get, Results
        <4> QED
          BY <3>1, <4>1 DEF M!Next
      <3> QED
        BY <3>2, <3>3
    <2>3. CASE read_empty(c)
      BY <1>13, <1>14, <2>3 DEF read_empty, InRead, Results
    <2> QED
      BY <1>15, <2>1, <2>2, <2>3 DEF read
  <1>16. ASSUME NEW c \in Clients, client[c].pc # "idle", Proceed(c), UNCHANGED <<agent, mail>>
         PROVE  UNCHANGED M!vars
    BY <1>13, <1>14, <1>16 DEF Proceed, InRead, Results
  <1>17. ASSUME NEW c \in Clients, wait_prepare(c) \/ wait_ready(c) \/ wait_sleep(c)
         PROVE  UNCHANGED M!vars
    BY <1>14, <1>16, <1>17 DEF wait_prepare, wait_ready, wait_sleep
  <1>18. ASSUME NEW c \in Clients, Interrupt(c) PROVE M!Next \/ UNCHANGED M!vars
    <2>0. client[c].pc = "sleep" /\ UNCHANGED <<agent, mail>>
      BY <1>18 DEF Interrupt
    <2>1. CASE Ready(c)
      BY <1>16, <1>18, <2>0, <2>1 DEF Interrupt
    <2>2. CASE ~Ready(c) /\ InRead(c)
      <3>1. Return(c, "interrupted")
        BY <1>18, <2>2 DEF Interrupt
      <3>2. /\ MailWaiting[c] = client[c].box /\ MailWaiting[c] # NoBox
            /\ messages[client[c].box] = << >>
        BY <2>0, <2>2 DEF MailWaiting, InCall, Ready, InRead
      <3>3. MailOwner # NoTask
        BY <2>0, <2>2 DEF MailOwner, Lifecycle, Ready
      <3>4. M!Interrupted(c)
        BY <2>0, <2>2, <3>1, <3>2, <3>3, ReturnWaiting, SameOwner
           DEF M!Interrupted, M!End, mail, Results
      <3> QED
        BY <3>4 DEF M!Next
    <2>3. CASE ~Ready(c) /\ ~InRead(c)
      BY <1>13, <1>18, <2>0, <2>3 DEF Interrupt, Results
    <2> QED
      BY <2>1, <2>2, <2>3
  <1> QED
    BY <1>2, <1>3, <1>4, <1>5, <1>6, <1>7, <1>8, <1>9, <1>10, <1>11, <1>12, <1>15, <1>17,
       <1>18
       DEF Next, Reaper, Running

(* agentfs.c implements the bounded FIFO with an owner of Mailbox, safety   *)
(* part: for every number of processes, tasks and boxes and every limit.    *)
THEOREM ImplementsMailboxAlways == Spec => ImplementsMailbox
  <1>1. Spec => M!Spec
    BY RefinesInit, RefinesStep, InvAlways, PTL DEF Spec, M!Spec
  <1> QED
    BY <1>1 DEF ImplementsMailbox
=============================================================================
