------------------------------- MODULE Broker -------------------------------
(***************************************************************************)
(* The capability broker: agentd's poll loop with its control commands and *)
(* broker_handle_event (src/agentd.c, src/broker.c), the clients of        *)
(* Exchange, and the inboxes through which agents receive the channels     *)
(* issued to them (ipc_accept, ipc_recv).                                  *)
(*                                                                         *)
(* agentd is one thread. It looks at revents of descriptors it put into    *)
(* the poll set before it ran commands, and both its recvmsg on a broker   *)
(* channel and its sendmsg to an inbox block. Each agent keeps its slot in *)
(* g_agents: a started agent gets the one it had. A slot that was released *)
(* is all zeros, and the channel it then seems to have is descriptor 0.    *)
(***************************************************************************)
EXTENDS Exchange, FiniteSets

CONSTANTS
    Wants,               \* the requests each thread makes
    Main,                \* the thread of each agent that serves its inbox
    Operator,            \* the other requester of channels, agentctl
    Policies,            \* contents an agent's policy file may have
    MAX_PATTERNS,        \* allow lines load_allow_patterns keeps
    INBOX_CAP,           \* datagrams the kernel queues on an inbox
    MaxCalls,            \* bound: requests made
    MaxFaults            \* bound: agents stopped or killed, processes that die

ASSUME BrokerAssumption ==
    /\ Wants \in [Threads -> SUBSET Requests]
    /\ Main \in [Agents -> Threads]
    /\ Operator \notin Agents
    /\ Answers = 0 .. MaxCalls
    /\ MaxCalls \in Nat /\ MaxFaults \in Nat
    /\ MAX_PATTERNS \in Nat /\ INBOX_CAP \in Nat

Channels == 1 .. MaxCalls
Denied == 0

VARIABLES
    loop,                \* where agentd is in its loop, and its locals
    managed,             \* m->pid > 0 and m->inbox_fd is open
    slot,                \* m->used, or what release_slot left of the slot
    inbox,               \* channels delivered to each agent's fd 4
    reader,              \* the channel an agent reads a message from
    chan,                \* the channels issued
    calls, faults        \* counters of the bounds

bvars == <<loop, managed, slot, inbox, reader, chan, calls, faults>>
vars == <<evars, bvars>>

\* A command agentctl sends.
Commands == [do : {"none", "start", "stop", "restart", "issue"},
             to : Agents \cup {None}]
NoCommand == [do |-> "none", to |-> None]

AtLoop(pc, fired, command) ==
    [pc |-> pc, fired |-> fired, command |-> command, at |-> None, to |-> None]

LoopState == [pc : {"poll", "reap", "stop", "start", "events", "zero", "recv", "decide", "issue"},
              fired : SUBSET Agents, command : Commands,
              at : Agents \cup {Operator, None}, to : Agents \cup {None}]

-----------------------------------------------------------------------------
(* broker.c. A frame is the lines before its blank line, [key, value, fits]. *)

Known == {"VERB", "CAP", "TASK-ID", "REASON", "TOKEN"}

Lines(frame, key) == {i \in DOMAIN frame.lines : frame.lines[i].key = key}
ValueOf(frame, key) == frame.lines[CHOOSE i \in Lines(frame, key) : TRUE].value

\* A known header twice, a value that is empty or too long, an unknown verb and
\* a missing terminator are refused; unknown headers are skipped.
broker_parse(frame) ==
    /\ frame.terminated
    /\ \A key \in Known : Cardinality(Lines(frame, key)) <= 1
    /\ \A key \in Known : \A i \in Lines(frame, key) : frame.lines[i].fits
    /\ Lines(frame, "VERB") # {} /\ Lines(frame, "CAP") # {}
    /\ ValueOf(frame, "VERB") \in {"request", "issued", "denied"}
    /\ ValueOf(frame, "VERB") = "issued" => Lines(frame, "TOKEN") # {}

\* Whom a request is for, and whom any request may be for.
Target(frame) == ValueOf(frame, "CAP")[2]
Targets == {Target(r) : r \in {frame \in Requests : broker_parse(frame)}}

\* A capability name is a sequence of its parts, a pattern may end in "*".
pattern_match(pattern, cap) ==
    LET n == Len(pattern.name)
    IN  IF pattern.star THEN n <= Len(cap) /\ SubSeq(cap, 1, n) = pattern.name
                        ELSE pattern.name = cap

load_allow_patterns(policy) ==
    LET Allow(l) == l.allow
        allows == SelectSeq(policy, Allow)
    IN  SubSeq(allows, 1, IF Len(allows) < MAX_PATTERNS THEN Len(allows) ELSE MAX_PATTERNS)

broker_policy_check(cap, patterns) ==
    \E i \in DOMAIN patterns : pattern_match(patterns[i], cap)

\* What ipc_connect sends for a target.
Mailbox(target) == <<"mailbox.send", target>>
Line(key, value) == [key |-> key, value |-> value, fits |-> TRUE]
ConnectFrame(target) ==
    [lines |-> <<Line("VERB", "request"), Line("CAP", Mailbox(target)),
                 Line("REASON", "libagentctl")>>,
     terminated |-> TRUE, truncated |-> FALSE]

-----------------------------------------------------------------------------
Channel == [from : Agents \cup {Operator}, to : Agents,
            msg : Agents \cup Targets \cup {None}, gone : BOOLEAN]

TypeOK ==
    /\ ETypeOK
    /\ loop \in LoopState
    /\ managed \in [Agents -> BOOLEAN]
    /\ slot \in [Agents -> {"used", "zeroed", "dropped"}]
    /\ inbox \in [Agents -> Seq(Channels)]
    /\ \A a \in Agents : Len(inbox[a]) <= INBOX_CAP
    /\ reader \in [Agents -> Channels \cup {0}]
    /\ chan \in Seq(Channel)
    /\ Len(chan) <= calls
    /\ calls \in 0 .. MaxCalls /\ faults \in 0 .. MaxFaults

-----------------------------------------------------------------------------
(* agentd's loop *)

Readable(a) == open[a] /\ (req[a] # <<>> \/ ~up[Leader[a]])
Dead(a) == managed[a] /\ ~up[Leader[a]]

\* The next iteration once all channels that fired have been looked at.
EventsLeft(fired) == AtLoop(IF fired = {} THEN "poll" ELSE "events", fired, NoCommand)

\* poll() returns: a channel fired, a child died, or a command came in. Which
\* channels fired is decided here. A start of an agent that runs, which changes
\* nothing, is left out.
Poll ==
    /\ loop.pc = "poll"
    /\ \E command \in Commands :
          /\ command.do = "none" <=> command.to = None
          /\ command.do = "start" => ~up[Leader[command.to]]
          /\ command.do \in {"stop", "restart"} => faults < MaxFaults
          /\ command.do = "issue" => calls < MaxCalls
          /\ faults' = faults + (IF command.do \in {"stop", "restart"} THEN 1 ELSE 0)
          /\ calls' = calls + (IF command.do = "issue" THEN 1 ELSE 0)
          /\ command = NoCommand => \E a \in Agents : Readable(a) \/ Dead(a)
          /\ loop' = AtLoop("reap", {a \in Agents : Readable(a)}, command)
    /\ UNCHANGED <<evars, managed, slot, inbox, reader, chan>>

\* clear_runtime_state: both channels are closed, and the inbox is lost with
\* the process.
Clear(a) == /\ managed' = [managed EXCEPT ![a] = FALSE]
            /\ inbox' = [inbox EXCEPT ![a] = <<>>]
            /\ reader' = [reader EXCEPT ![a] = 0]
            /\ IF open[a] THEN HangUp(a) ELSE UNCHANGED evars

\* reap_zombies, one dead child at a time.
Reap ==
    /\ loop.pc = "reap"
    /\ \E a \in Agents : Dead(a) /\ Clear(a)
    /\ UNCHANGED <<loop, slot, chan, calls, faults>>

\* serve_one_connection. start does nothing to an agent that runs.
Serve ==
    /\ loop.pc = "reap"
    /\ \A a \in Agents : ~Dead(a)
    /\ LET c == loop.command
           do == CASE c.do = "issue" /\ managed[c.to] -> "issue"
                   [] c.do \in {"stop", "restart"} -> "stop"
                   [] c.do = "start" /\ ~up[Leader[c.to]] -> "start"
                   [] OTHER -> "events"
       IN  /\ loop' = CASE do = "events" -> EventsLeft(loop.fired)
                        [] do = "issue" -> [loop EXCEPT !.pc = do, !.at = Operator, !.to = c.to]
                        [] OTHER -> [loop EXCEPT !.pc = do, !.at = c.to]
    /\ UNCHANGED <<evars, managed, slot, inbox, reader, chan, calls, faults>>

\* handle_cmd_stop: stop_agent, then release_slot, whose memset leaves 0 for
\* broker_fd. A restart goes on to handle_cmd_start.
Stop ==
    /\ loop.pc = "stop"
    /\ LET a == loop.at
       IN  IF up[Leader[a]]
           THEN Kill(a) /\ UNCHANGED <<loop, managed, slot, inbox, reader>>
           ELSE /\ Clear(a)
                /\ slot' = [slot EXCEPT ![a] = IF @ = "used" THEN "zeroed" ELSE @]
                /\ loop' = IF loop.command.do = "restart" THEN [loop EXCEPT !.pc = "start"]
                                                          ELSE EventsLeft(loop.fired)
    /\ UNCHANGED <<chan, calls, faults>>

\* handle_cmd_start: alloc_slot sets the descriptors to -1, spawn_agent then to
\* the new ones.
Start ==
    /\ loop.pc = "start"
    /\ LET a == loop.at
       IN  /\ Spawn(a)
           /\ managed' = [managed EXCEPT ![a] = TRUE]
           /\ slot' = [slot EXCEPT ![a] = "used"]
           /\ inbox' = [inbox EXCEPT ![a] = <<>>]
           /\ reader' = [reader EXCEPT ![a] = 0]
    /\ loop' = EventsLeft(loop.fired)
    /\ UNCHANGED <<chan, calls, faults>>

\* The next slot whose descriptor's revents were set, passed over if m->broker_fd
\* is below 0 by now. That of a slot released meanwhile is 0, and goes through.
Events ==
    /\ loop.pc = "events"
    /\ \E a \in loop.fired :
          LET Handle(pc) == [loop EXCEPT !.pc = pc, !.fired = @ \ {a}, !.at = a]
          IN  loop' = CASE open[a] -> Handle("recv")
                        [] ~open[a] /\ slot[a] = "zeroed" -> Handle("zero")
                        [] OTHER -> EventsLeft(loop.fired \ {a})
    /\ UNCHANGED <<evars, managed, slot, inbox, reader, chan, calls, faults>>

\* broker_handle_event's recvmsg on descriptor 0, what agentd was started with or
\* has opened under that number since. It fails on what is no socket, and may
\* wait for ever on a socket; then descriptor 0 is closed.
RecvZero ==
    /\ loop.pc = "zero"
    /\ slot' = [slot EXCEPT ![loop.at] = "dropped"]
    /\ loop' = EventsLeft(loop.fired)
    /\ UNCHANGED <<evars, managed, inbox, reader, chan, calls, faults>>

\* broker_handle_event's recvmsg: a request, also of an agent that died since, or
\* the end of the channel.
Recv ==
    /\ loop.pc = "recv"
    /\ IF req[loop.at] # <<>>
       THEN Take(loop.at) /\ loop' = [loop EXCEPT !.pc = "decide"]
       ELSE /\ ~up[Leader[loop.at]]
            /\ HangUp(loop.at) /\ loop' = EventsLeft(loop.fired)
    /\ UNCHANGED <<managed, slot, inbox, reader, chan, calls, faults>>

\* (mutated) a request that cannot be parsed is dropped without a denial
Decide_drops_malformed ==
    /\ loop.pc = "decide"
    /\ held' = [held EXCEPT ![loop.at] = None]
    /\ IF broker_parse(held[loop.at].is)
       THEN /\ ans' = [ans EXCEPT ![loop.at] =
                         Append(@, [by |-> held[loop.at].by, is |-> Denied])]
       ELSE UNCHANGED ans
    /\ loop' = EventsLeft(loop.fired)
    /\ UNCHANGED <<up, flag, lock, thread, open, req, orphaned,
                   managed, slot, inbox, reader, chan, calls, faults>>

\* The rest of it, up to issue_mailbox_channel.
Decide ==
    /\ loop.pc = "decide"
    /\ LET a == loop.at
           frame == held[a].is
           cap == ValueOf(frame, "CAP")
           Back == loop' = EventsLeft(loop.fired)
           Deny == Answer(a, Denied) /\ Back
       IN  \E policy \in Policies :
             IF frame.truncated THEN HangUp(a) /\ Back
             ELSE IF \/ ~broker_parse(frame)
                     \/ ValueOf(frame, "VERB") # "request"
                     \/ ~broker_policy_check(cap, load_allow_patterns(policy))
                     \/ Head(cap) # "mailbox.send"
             THEN Deny
             ELSE IF cap[2] \in Agents /\ managed[cap[2]] /\ up[Leader[cap[2]]]
             THEN /\ loop' = [loop EXCEPT !.pc = "issue", !.to = cap[2]]
                  /\ UNCHANGED evars
             ELSE Deny
    /\ UNCHANGED <<managed, slot, inbox, reader, chan, calls, faults>>

\* (mutated) a token that could not be made is tried again, channel and all
Issue_retries ==
    /\ loop.pc = "issue"
    /\ Len(inbox[loop.to]) < INBOX_CAP
    /\ chan' = Append(chan, [from |-> loop.at, to |-> loop.to, msg |-> None, gone |-> FALSE])
    /\ inbox' = [inbox EXCEPT ![loop.to] = Append(@, Len(chan) + 1)]
    /\ \/ UNCHANGED <<evars, loop>>
       \/ /\ IF loop.at = Operator THEN UNCHANGED evars
                                    ELSE Answer(loop.at, Len(chan) + 1)
          /\ loop' = EventsLeft(loop.fired)
    /\ UNCHANGED <<managed, slot, reader, calls, faults>>

\* The blocking sendmsg to the target's inbox, the token and the answer. The
\* channel is there for the target even where the token fails.
Issue ==
    /\ loop.pc = "issue"
    /\ LET b == loop.to
           Reply(x) == IF loop.at = Operator THEN UNCHANGED evars ELSE Answer(loop.at, x)
           Reached == managed[b] /\ up[Leader[b]]
       IN  /\ Reached => Len(inbox[b]) < INBOX_CAP
           /\ IF Reached
              THEN /\ \E m \in {None} \cup (IF loop.at = Operator THEN {b} ELSE {}) :
                        chan' = Append(chan, [from |-> loop.at, to |-> b, msg |-> m,
                                              gone |-> FALSE])
                   /\ inbox' = [inbox EXCEPT ![b] = Append(@, Len(chan) + 1)]
                   /\ \E x \in {Len(chan) + 1, Denied} : Reply(x)
              ELSE Reply(Denied) /\ UNCHANGED <<chan, inbox>>
    /\ loop' = EventsLeft(loop.fired)
    /\ UNCHANGED <<managed, slot, reader, calls, faults>>

-----------------------------------------------------------------------------
(* The agents *)

Serving(a) == up[Leader[a]] /\ thread[Main[a]].pc = "idle"

\* Someone still has the sender's end of a channel open.
SenderOpen(i) ==
    \/ \E t \in Threads : thread[t].answer # None /\ thread[t].answer.is = i
    \/ \E a \in Agents : \E k \in DOMAIN ans[a] : ans[a][k].is = i

Connect(t) ==
    /\ calls < MaxCalls
    /\ \A a \in Agents : t = Main[a] => reader[a] = 0
    /\ \E r \in Wants[t] : Call(t, r)
    /\ calls' = calls + 1
    /\ UNCHANGED <<loop, managed, slot, inbox, reader, chan, faults>>

\* ipc_send and close: the message goes to whoever holds the other end.
UseChannel(t) ==
    /\ Return(t)
    /\ LET i == IF thread[t].answer = None THEN Denied ELSE thread[t].answer.is
       IN  chan' = IF i # Denied /\ ~chan[i].gone /\ broker_parse(thread[t].request)
                   THEN [chan EXCEPT ![i].msg = Target(thread[t].request)]
                   ELSE chan
    /\ UNCHANGED <<loop, managed, slot, inbox, reader, calls, faults>>

\* ipc_accept on fd 4.
Accept(a) ==
    /\ Serving(a) /\ reader[a] = 0 /\ inbox[a] # <<>>
    /\ reader' = [reader EXCEPT ![a] = Head(inbox[a])]
    /\ inbox' = [inbox EXCEPT ![a] = Tail(@)]
    /\ UNCHANGED <<evars, loop, managed, slot, chan, calls, faults>>

\* ipc_recv: a message or the end of the channel, after which it is closed.
Read(a) ==
    /\ reader[a] # 0
    /\ chan[reader[a]].msg # None \/ ~SenderOpen(reader[a])
    /\ chan' = [chan EXCEPT ![reader[a]].gone = TRUE]
    /\ reader' = [reader EXCEPT ![a] = 0]
    /\ UNCHANGED <<evars, loop, managed, slot, inbox, calls, faults>>

\* SO_RCVTIMEO.
ReadTimeout(a) ==
    /\ reader[a] # 0
    /\ chan[reader[a]].msg = None /\ SenderOpen(reader[a])
    /\ chan' = [chan EXCEPT ![reader[a]].gone = TRUE]
    /\ reader' = [reader EXCEPT ![a] = 0]
    /\ UNCHANGED <<evars, loop, managed, slot, inbox, calls, faults>>

Crash(a) ==
    /\ faults < MaxFaults
    /\ faults' = faults + 1
    /\ Kill(a)
    /\ UNCHANGED <<loop, managed, slot, inbox, reader, chan, calls>>

ForkOrDie ==
    /\ \/ (\E p, q \in Procs : Fork(p, q)) /\ UNCHANGED faults
       \/ /\ faults < MaxFaults
          /\ \E q \in Procs : Die(q)
          /\ faults' = faults + 1
    /\ UNCHANGED <<loop, managed, slot, inbox, reader, chan, calls>>

Init ==
    /\ EInit
    /\ loop = EventsLeft({})
    /\ managed = [a \in Agents |-> TRUE]
    /\ slot = [a \in Agents |-> "used"]
    /\ inbox = [a \in Agents |-> <<>>]
    /\ reader = [a \in Agents |-> 0]
    /\ chan = <<>>
    /\ calls = 0 /\ faults = 0

Agentd == Poll \/ Reap \/ Serve \/ Stop \/ Start \/ Events \/ Recv \/ Decide \/ Issue

Client(t) == (ThreadStep(t) /\ UNCHANGED bvars) \/ UseChannel(t)

Next ==
    \/ Agentd \/ RecvZero
    \/ \E t \in Threads : Client(t) \/ Connect(t)
    \/ \E a \in Agents : Accept(a) \/ Read(a) \/ ReadTimeout(a) \/ Crash(a)
    \/ ForkOrDie

\* agentd and the threads run, and a wait for a message ends, if only by the
\* timeout. Crashes, forks and commands need not happen, and recvmsg on
\* descriptor 0 need not return.
Spec == /\ Init /\ [][Next]_vars
        /\ WF_vars(Agentd)
        /\ \A t \in Threads : WF_vars(Client(t))
        /\ \A a \in Agents : WF_vars(Accept(a) \/ Read(a) \/ ReadTimeout(a))

-----------------------------------------------------------------------------
(* Properties *)

\* agentd as it runs, its poll loop with events taken before the commands, its
\* commands and its blocking handlers, keeps to what the clients of Exchange rely
\* on: it answers the request it took, once, or hangs up.
ClientView == ESpec

\* A message goes to the agent it was addressed to: the channel a thread got from
\* ipc_connect(target) is the one whose other end agentd gave to target. Again
\* unless a process died between its request and the answer.
ReachesAddressee ==
    [][\A i \in DOMAIN chan :
          chan'[i].msg # chan[i].msg =>
             chan'[i].msg = chan[i].to \/ orphaned[chan[i].from]]_vars

-----------------------------------------------------------------------------
(* The invariant behind them *)

\* The agents a command, an event or a request in hand is about.
LoopInv ==
    /\ loop.pc = "reap" /\ loop.command.do # "none" => loop.command.to \in Agents
    /\ loop.pc \in {"stop", "start", "zero", "recv", "decide"} => loop.at \in Agents
    /\ loop.pc = "issue" => loop.at \in Agents \cup {Operator} /\ loop.to \in Agents
    /\ loop.pc = "issue" /\ loop.at # Operator => loop.to = Target(held[loop.at].is)

\* Where a call may be that was counted and has not been issued a channel: on its
\* way to the channel, in it, in agentd's hands, or a command of agentctl.
Calling == {<<"calling", t, 0>> :
              t \in {u \in Threads : thread[u].pc \in {"spin", "wait", "locked"}}}
Queued == UNION {{<<"queued", a, k>> : k \in DOMAIN req[a]} : a \in Agents}
Taken == {<<"taken", a, 0>> : a \in {b \in Agents : held[b] # None}}
Command == IF \/ loop.pc = "reap" /\ loop.command.do = "issue"
              \/ loop.pc = "issue" /\ loop.at = Operator
           THEN {<<"command", Operator, 0>>} ELSE {}
InProgress == Calling \cup Queued \cup Taken \cup Command

\* Each of them can have a number of its own of those left, so that no call is
\* issued two channels.
Numbered(S, used, last) ==
    \E n \in [S -> used + 1 .. last] : \A x, y \in S : n[x] = n[y] => x = y
Counted == Numbered(InProgress, Len(chan), calls)

\* An answer that issues a channel issues one the agent asked for, and while no
\* process died in an exchange, one to the agent the thread that asked named.
Issued(a, i) == i # Denied => i \in DOMAIN chan /\ chan[i].from = a
LeadsTo(i, frame) == i # Denied => chan[i].to = Target(frame)

Origins ==
    /\ \A a \in Agents : \A k \in DOMAIN ans[a] : Issued(a, ans[a][k].is)
    /\ \A t \in Threads : thread[t].answer # None => Issued(Of(t), thread[t].answer.is)

Underway(a, frame) ==
    /\ req[a] # <<>> => Head(req[a]).is = frame
    /\ held[a] # None => held[a].is = frame
    /\ ans[a] # <<>> => LeadsTo(Head(ans[a]).is, frame)

Addressed ==
    \A t \in Threads : ~orphaned[Of(t)] =>
       /\ thread[t].pc = "sent" => Underway(Of(t), thread[t].request)
       /\ thread[t].answer # None => LeadsTo(thread[t].answer.is, thread[t].request)

Asked == \A t \in Threads : thread[t].pc # "idle" => thread[t].request \in Requests

\* agentd's place in its loop, the calls it has yet to serve and the channels it
\* has issued agree: no call is issued two channels, and every answer on its way
\* to a thread is for the request that thread made.
BrokerInv == TypeOK /\ LoopInv /\ Counted /\ Origins /\ Addressed /\ Asked

-----------------------------------------------------------------------------
(* Liveness *)

\* agentd waits for an agent, in recvmsg on a channel that has nothing to read or
\* in sendmsg to a full inbox whose only reader is in ipc_connect and so waits for
\* agentd in turn, or it is in recvmsg on descriptor 0.
WaitsForRequest == loop.pc = "recv" /\ ~Readable(loop.at)
WaitsInCycle == /\ loop.pc = "issue"
                /\ managed[loop.to] /\ up[Leader[loop.to]]
                /\ Len(inbox[loop.to]) = INBOX_CAP
                /\ thread[Main[loop.to]].pc # "idle"
WaitsOnZero == loop.pc = "zero"

\* Every request gets its answer, or the end of the channel, whatever commands,
\* crashes, forks and deaths come in between: there is always a later moment when
\* no thread waits in recvmsg. Only the three waits above can prevent it, each after
\* a command or a crash that came between poll() and the handler or in a cycle of
\* two agents; a full inbox alone only delays agentd, as its reader goes on reading.
RequestsAnswered ==
    []<>(\/ \A t \in Threads : thread[t].pc # "sent"
         \/ WaitsForRequest \/ WaitsInCycle \/ WaitsOnZero)

\* docs/capabilities.md: "agentd's main poll loop watches every live broker fd;
\* POLLIN triggers broker_handle_event". The handler runs on a channel that has
\* something to read.
HandlesWhatFired == ~WaitsForRequest
=============================================================================
