---------------------------- MODULE BrokerProofs ----------------------------
(***************************************************************************)
(* agentd, with its poll loop, commands and handlers, is an agentd as the  *)
(* clients of Exchange see it, whatever the agents, processes, policies,   *)
(* bounds and faults: what is proved of Exchange holds of the broker. And  *)
(* the channels it issues are one for a call at most, each to the agent    *)
(* the call named.                                                         *)
(***************************************************************************)
EXTENDS Broker, ExchangeProofs

USE Zenon

\* Every thread belongs to an agent.
LEMMA OfAgent == ASSUME NEW t \in Threads PROVE Of(t) \in Agents
BY ExchangeAssumption DEF ExchangeAssumption, Of

\* Numbers for a set that loses or gains an element.
LEMMA NumberedFewer ==
    ASSUME NEW S, NEW T, NEW k \in Nat, NEW m \in Nat, Numbered(S, k, m), T \subseteq S
    PROVE  Numbered(T, k, m)
<1>1. PICK n \in [S -> k + 1 .. m] : \A x, y \in S : n[x] = n[y] => x = y BY DEF Numbered
<1> DEFINE g == [o \in T |-> n[o]]
<1>2. g \in [T -> k + 1 .. m] BY <1>1
<1>3. \A x, y \in T : g[x] = g[y] => x = y BY <1>1
<1> QED BY <1>2, <1>3 DEF Numbered

\* One call more can be numbered when the last number grows by one.
LEMMA NumberedMore ==
    ASSUME NEW S, NEW T, NEW y, NEW k \in Nat, NEW m \in Nat, Numbered(S, k, m), k <= m,
           T \subseteq S \cup {y}
    PROVE  Numbered(T, k, m + 1)
<1>1. PICK n \in [S -> k + 1 .. m] : \A x, z \in S : n[x] = n[z] => x = z BY DEF Numbered
<1> DEFINE g == [o \in T |-> IF o \in S THEN n[o] ELSE m + 1]
<1>2. \A o \in S : n[o] \in k + 1 .. m + 1 /\ n[o] # m + 1 BY <1>1, SMT
<1>3. m + 1 \in k + 1 .. m + 1 BY SMT
<1>4. g \in [T -> k + 1 .. m + 1] BY <1>2, <1>3
<1>5. \A x, z \in T : g[x] = g[z] => x = z BY <1>1, <1>2
<1> QED BY <1>4, <1>5 DEF Numbered

\* A call that moves on keeps its number.
LEMMA NumberedMoved ==
    ASSUME NEW S, NEW T, NEW x \in S, NEW y, NEW k \in Nat, NEW m \in Nat, Numbered(S, k, m),
           T \subseteq S \cup {y}, x \notin T
    PROVE  Numbered(T, k, m)
<1>1. PICK n \in [S -> k + 1 .. m] : \A u, z \in S : n[u] = n[z] => u = z BY DEF Numbered
<1> DEFINE g == [o \in T |-> IF o \in S THEN n[o] ELSE n[x]]
<1>2. g \in [T -> k + 1 .. m] BY <1>1
<1>3. \A u, z \in T : g[u] = g[z] => u = z BY <1>1
<1> QED BY <1>2, <1>3 DEF Numbered

\* A call that is over leaves its number: the others fit into one less.
LEMMA NumberedDone ==
    ASSUME NEW S, NEW T, NEW x \in S, NEW k \in Nat, NEW m \in Nat, Numbered(S, k, m),
           T \subseteq S, x \notin T
    PROVE  Numbered(T, k + 1, m) /\ k + 1 <= m
<1>1. PICK n \in [S -> k + 1 .. m] : \A u, z \in S : n[u] = n[z] => u = z BY DEF Numbered
<1> DEFINE g == [o \in T |-> IF n[o] = k + 1 THEN n[x] ELSE n[o]]
<1>2. \A o \in S : n[o] \in k + 1 .. m BY <1>1
<1>3. k + 1 <= m BY <1>2, SMT
<1>4. \A o \in S : n[o] # k + 1 => n[o] \in k + 1 + 1 .. m BY <1>2, SMT
<1>5. \A o \in T : n[o] = k + 1 => n[x] # k + 1 BY <1>1
<1>6. g \in [T -> k + 1 + 1 .. m] BY <1>4, <1>5
<1>7. \A u, z \in T : g[u] = g[z] => u = z BY <1>1
<1> QED BY <1>3, <1>6, <1>7 DEF Numbered

(***************************************************************************)
(* Every step of the broker is one of Exchange's, or none.                 *)
(***************************************************************************)
\* The next channel's number is an answer.
NextNumber == Len(chan) + 1 \in Channels

\* The next channel has a number an answer can carry.
LEMMA NumberAnswers == NextNumber => Len(chan) + 1 \in Answers
BY BrokerAssumption, SMT DEF BrokerAssumption, NextNumber, Channels

\* So has a refusal.
LEMMA DeniedAnswers == Denied \in Answers
BY BrokerAssumption, SMT DEF BrokerAssumption, Denied

\* A slot that is cleared: for the clients agentd hangs up.
LEMMA ClearImplements == ASSUME NEW a \in Agents, Clear(a) PROVE [ENext]_evars
BY DEF Clear, ENext

\* Polling, reaping and sorting out events change nothing the clients see, but for a
\* channel that ends.
LEMMA LoopImplements == Poll \/ Reap \/ Serve \/ Events \/ RecvZero => [ENext]_evars
BY ClearImplements DEF Poll, Reap, Serve, Events, RecvZero

\* A stop of an agent kills it and then hangs up, a start is Spawn of Exchange.
LEMMA CommandsImplement == LoopInv /\ (Stop \/ Start) => [ENext]_evars
BY ClearImplements DEF LoopInv, Stop, Start, ENext

\* recvmsg takes the request that Exchange's agentd takes.
LEMMA RecvImplements == LoopInv /\ Recv => [ENext]_evars
BY DEF LoopInv, Recv, ENext

\* A refusal answers the request in hand.
LEMMA DecideImplements == LoopInv /\ Decide => [ENext]_evars
BY DeniedAnswers DEF LoopInv, Decide, ENext

\* Issue reaches the target and answers with the new channel or a denial, or does
\* not reach it.
LEMMA IssueCases ==
    ASSUME LoopInv, Issue
    PROVE  /\ loop.pc = "issue" /\ loop.to \in Agents /\ loop.at \in Agents \cup {Operator}
           /\ loop' = EventsLeft(loop.fired)
           /\ UNCHANGED <<managed, slot, reader, calls, faults>>
           /\ \/ /\ Len(inbox[loop.to]) < INBOX_CAP
                 /\ \E m \in {None, loop.to} :
                       chan' = Append(chan, [from |-> loop.at, to |-> loop.to, msg |-> m,
                                             gone |-> FALSE])
                 /\ inbox' = [inbox EXCEPT ![loop.to] = Append(@, Len(chan) + 1)]
              \/ UNCHANGED <<chan, inbox>>
           /\ \/ loop.at = Operator /\ UNCHANGED evars
              \/ loop.at # Operator /\ Answer(loop.at, Denied)
              \/ /\ loop.at # Operator /\ Answer(loop.at, Len(chan) + 1)
                 /\ \E m \in {None, loop.to} :
                       chan' = Append(chan, [from |-> loop.at, to |-> loop.to, msg |-> m,
                                             gone |-> FALSE])
BY DEF LoopInv, Issue

\* An issued channel answers it too.
LEMMA IssueImplements == LoopInv /\ NextNumber /\ Issue => [ENext]_evars
<1> SUFFICES ASSUME LoopInv, NextNumber, Issue PROVE [ENext]_evars OBVIOUS
<1>1. CASE UNCHANGED evars BY <1>1
<1>2. CASE loop.at # Operator /\ \E x \in Answers : Answer(loop.at, x)
  <2>1. loop.at \in Agents BY <1>2, IssueCases
  <2> QED BY <1>2, <2>1 DEF ENext
<1> QED BY <1>1, <1>2, IssueCases, NumberAnswers, DeniedAnswers

\* The threads are those of Exchange.
LEMMA ThreadsImplement ==
    ASSUME NEW t \in Threads, Client(t) \/ Connect(t) PROVE [ENext]_evars
BY BrokerAssumption DEF BrokerAssumption, Client, Connect, UseChannel, ENext

\* What an agent does with its inbox is not seen by Exchange.
LEMMA AgentsImplement ==
    ASSUME NEW a \in Agents, Accept(a) \/ Read(a) \/ ReadTimeout(a) \/ Crash(a)
    PROVE  [ENext]_evars
BY DEF Accept, Read, ReadTimeout, Crash, ENext

\* Every step of the broker is a step of Exchange or a stutter.
LEMMA StepImplements == LoopInv /\ (Issue => NextNumber) /\ [Next]_vars => [ENext]_evars
<1>1. UNCHANGED vars => UNCHANGED evars BY DEF vars
<1>2. ForkOrDie => [ENext]_evars BY DEF ForkOrDie, ENext
<1> QED BY <1>1, <1>2, LoopImplements, CommandsImplement, RecvImplements, DecideImplements,
           IssueImplements, ThreadsImplement, AgentsImplement
        DEF Next, Agentd

(***************************************************************************)
(* agentd's place in its loop.                                             *)
(***************************************************************************)
LoopOK == loop \in LoopState /\ LoopInv

\* The next event is of an agent.
LEMMA EventsLeftOK ==
    ASSUME NEW fired \in SUBSET Agents, loop' = EventsLeft(fired) PROVE LoopOK'
<1>1. PICK pc \in {"poll", "events"} :
         loop' = [pc |-> pc, fired |-> fired, command |-> NoCommand, at |-> None, to |-> None]
  BY DEF EventsLeft, AtLoop
<1>2. NoCommand \in Commands BY DEF NoCommand, Commands
<1>3. loop' \in LoopState BY <1>1, <1>2, SMT DEF LoopState
<1>4. loop'.pc \in {"poll", "events"} BY <1>1, SMT
<1>5. LoopInv' BY <1>4, SMT DEF LoopInv
<1> QED BY <1>3, <1>5 DEF LoopOK

\* Only channels of agents fire.
LEMMA FiredAgents == LoopOK => loop.fired \in SUBSET Agents
BY DEF LoopOK, LoopState

\* poll(): what fired and the command are about agents.
LEMMA LoopPoll == ASSUME LoopOK, Poll PROVE LoopOK'
<1>1. PICK command \in Commands :
         /\ command.do = "none" <=> command.to = None
         /\ loop' = AtLoop("reap", {a \in Agents : Readable(a)}, command)
  BY DEF Poll
<1>2. loop' = [pc |-> "reap", fired |-> {a \in Agents : Readable(a)}, command |-> command,
               at |-> None, to |-> None]
  BY <1>1 DEF AtLoop
<1>3. command.to \in Agents \cup {None} BY DEF Commands
<1>4. loop' \in LoopState BY <1>2 DEF LoopState
<1>5. loop'.pc = "reap" /\ loop'.command = command BY <1>2
<1>6. LoopInv' BY <1>1, <1>3, <1>5 DEF LoopInv
<1> QED BY <1>4, <1>6 DEF LoopOK

\* A command names an agent.
LEMMA LoopServe == ASSUME LoopOK, Serve PROVE LoopOK'
<1> DEFINE to == loop.command.to
<1>1. loop.pc = "reap" /\ loop \in LoopState BY DEF Serve, LoopOK
<1>2. CASE loop' = EventsLeft(loop.fired) BY <1>2, EventsLeftOK, FiredAgents
<1>3. CASE loop' = [loop EXCEPT !.pc = "issue", !.at = Operator, !.to = to] /\ to \in Agents
  <2>1. loop' \in LoopState BY <1>1, <1>3 DEF LoopState
  <2>2. loop'.pc = "issue" /\ loop'.at = Operator /\ loop'.to \in Agents
    BY <1>1, <1>3 DEF LoopState
  <2> QED BY <2>1, <2>2 DEF LoopOK, LoopInv
<1>4. ASSUME NEW do \in {"stop", "start"}, loop' = [loop EXCEPT !.pc = do, !.at = to],
             to \in Agents
      PROVE  LoopOK'
  <2>1. loop' \in LoopState BY <1>1, <1>4 DEF LoopState
  <2>2. loop'.pc \in {"stop", "start"} /\ loop'.at \in Agents BY <1>1, <1>4 DEF LoopState
  <2> QED BY <2>1, <2>2 DEF LoopOK, LoopInv
<1>5. loop.command.do # "none" => to \in Agents BY <1>1 DEF LoopOK, LoopInv
<1>6. CASE loop.command.do = "issue" /\ managed[to] BY <1>3, <1>5, <1>6 DEF Serve
<1>7. CASE loop.command.do \in {"stop", "restart"} BY <1>4, <1>5, <1>7 DEF Serve
<1>8. CASE loop.command.do = "start" /\ ~up[Leader[to]] BY <1>4, <1>5, <1>8 DEF Serve
<1>9. CASE /\ ~(loop.command.do = "issue" /\ managed[to])
           /\ loop.command.do \notin {"stop", "restart"}
           /\ ~(loop.command.do = "start" /\ ~up[Leader[to]])
  BY <1>2, <1>9 DEF Serve
<1> QED BY <1>6, <1>7, <1>8, <1>9

\* A stop goes on to the events that are left, or to a start.
LEMMA LoopStop == ASSUME LoopOK, Stop PROVE LoopOK'
<1>1. loop \in LoopState /\ loop.pc = "stop" /\ loop.at \in Agents
  BY DEF LoopOK, LoopInv, Stop
<1>2. CASE UNCHANGED loop BY <1>1, <1>2 DEF LoopOK, LoopInv
<1>3. CASE loop' = [loop EXCEPT !.pc = "start"]
  <2>1. loop' \in LoopState BY <1>1, <1>3 DEF LoopState
  <2>2. loop'.pc = "start" /\ loop'.at \in Agents BY <1>1, <1>3 DEF LoopState
  <2> QED BY <2>1, <2>2 DEF LoopOK, LoopInv
<1>4. CASE loop' = EventsLeft(loop.fired) BY <1>4, EventsLeftOK, FiredAgents
<1> QED BY <1>2, <1>3, <1>4 DEF Stop

\* A channel that fired is received from, descriptor 0 in its place, or passed over.
LEMMA EventsCases ==
    ASSUME Events
    PROVE  \E a \in loop.fired :
             \/ \E pc \in {"recv", "zero"} :
                   loop' = [loop EXCEPT !.pc = pc, !.fired = @ \ {a}, !.at = a]
             \/ loop' = EventsLeft(loop.fired \ {a})
<1>1. PICK a \in loop.fired :
        loop' = CASE open[a] -> [loop EXCEPT !.pc = "recv", !.fired = @ \ {a}, !.at = a]
                  [] ~open[a] /\ slot[a] = "zeroed" ->
                       [loop EXCEPT !.pc = "zero", !.fired = @ \ {a}, !.at = a]
                  [] OTHER -> EventsLeft(loop.fired \ {a})
  BY DEF Events
<1>2. CASE open[a] BY <1>1, <1>2
<1>3. CASE ~open[a] /\ slot[a] = "zeroed" BY <1>1, <1>3
<1>4. CASE ~open[a] /\ slot[a] # "zeroed" BY <1>1, <1>4
<1> QED BY <1>2, <1>3, <1>4

\* The next channel that fired is handled.
LEMMA LoopEvents == ASSUME LoopOK, Events PROVE LoopOK'
<1>0. loop \in LoopState /\ loop.fired \in SUBSET Agents BY FiredAgents DEF LoopOK
<1>1. PICK a \in loop.fired :
        \/ \E pc \in {"recv", "zero"} :
              loop' = [loop EXCEPT !.pc = pc, !.fired = @ \ {a}, !.at = a]
        \/ loop' = EventsLeft(loop.fired \ {a})
  BY EventsCases
<1>2. ASSUME NEW pc \in {"recv", "zero"},
             loop' = [loop EXCEPT !.pc = pc, !.fired = loop.fired \ {a}, !.at = a]
      PROVE  LoopOK'
  <2>1. loop.fired \ {a} \in SUBSET Agents BY <1>0
  <2>2. loop' \in LoopState BY <1>0, <1>2, <2>1 DEF LoopState
  <2>3. loop'.pc = pc /\ loop'.at \in Agents BY <1>0, <1>2 DEF LoopState
  <2> QED BY <2>2, <2>3 DEF LoopOK, LoopInv
<1>3. CASE loop' = EventsLeft(loop.fired \ {a})
  <2>1. loop.fired \ {a} \in SUBSET Agents BY <1>0
  <2> QED BY <1>3, <2>1, EventsLeftOK
<1> QED BY <1>1, <1>2, <1>3

\* What was received is decided for the same agent.
LEMMA LoopRecv == ASSUME LoopOK, Recv PROVE LoopOK'
<1>1. loop \in LoopState /\ loop.at \in Agents BY DEF LoopOK, LoopInv, Recv
<1>2. CASE loop' = [loop EXCEPT !.pc = "decide"]
  <2>1. loop' \in LoopState BY <1>1, <1>2 DEF LoopState
  <2>2. loop'.pc = "decide" /\ loop'.at \in Agents BY <1>1, <1>2 DEF LoopState
  <2> QED BY <2>1, <2>2 DEF LoopOK, LoopInv
<1>3. CASE loop' = EventsLeft(loop.fired) BY <1>3, EventsLeftOK, FiredAgents
<1> QED BY <1>2, <1>3 DEF Recv

\* Decide answers, hangs up, or goes on to issue a channel to the target.
LEMMA DecideCases ==
    ASSUME LoopOK, Decide
    PROVE  /\ loop.pc = "decide" /\ loop.at \in Agents
           /\ UNCHANGED <<managed, slot, inbox, reader, chan, calls, faults>>
           /\ \/ /\ loop' = EventsLeft(loop.fired)
                 /\ HangUp(loop.at) \/ Answer(loop.at, Denied)
              \/ /\ UNCHANGED evars
                 /\ Target(held[loop.at].is) \in Agents
                 /\ loop' = [loop EXCEPT !.pc = "issue", !.to = Target(held[loop.at].is)]
BY DEF LoopOK, LoopInv, Decide, Target

\* What is issued goes to the target the request names.
LEMMA LoopDecide == ASSUME LoopOK, Decide PROVE LoopOK'
<1>1. loop \in LoopState /\ loop.at \in Agents BY DecideCases DEF LoopOK
<1>2. CASE loop' = EventsLeft(loop.fired) BY <1>2, EventsLeftOK, FiredAgents
<1>3. CASE /\ UNCHANGED evars
           /\ Target(held[loop.at].is) \in Agents
           /\ loop' = [loop EXCEPT !.pc = "issue", !.to = Target(held[loop.at].is)]
  <2>1. loop' \in LoopState BY <1>1, <1>3 DEF LoopState
  <2>2. loop'.pc = "issue" /\ loop'.at = loop.at /\ loop'.to = Target(held[loop.at].is)
    BY <1>1, <1>3 DEF LoopState
  <2>3. held' = held BY <1>3 DEF evars
  <2>4. Target(held'[loop'.at].is) = Target(held[loop.at].is) BY <2>2, <2>3
  <2> QED BY <1>1, <1>3, <2>1, <2>2, <2>4 DEF LoopOK, LoopInv, Target
<1> QED BY <1>2, <1>3, DecideCases

\* Nobody but agentd touches the request it holds.
LEMMA LoopElsewhere == ASSUME LoopOK, UNCHANGED <<loop, held>> PROVE LoopOK'
BY DEF LoopOK, LoopInv, Target, ValueOf, Lines

\* The loop's invariant is inductive.
LEMMA LoopNext == LoopOK /\ [Next]_vars => LoopOK'
<1> SUFFICES ASSUME LoopOK, [Next]_vars PROVE LoopOK' OBVIOUS
<1>1. CASE Reap
  <2>1. UNCHANGED loop /\ loop.pc = "reap" BY <1>1 DEF Reap
  <2> QED BY <2>1 DEF LoopOK, LoopInv
<1>2. CASE Start BY <1>2, EventsLeftOK, FiredAgents DEF Start
<1>3. CASE Issue BY <1>3, EventsLeftOK, FiredAgents DEF Issue
<1>4. CASE UNCHANGED vars BY <1>4, LoopElsewhere DEF vars, bvars, evars
<1>5. ASSUME NEW t \in Threads, Client(t) \/ Connect(t) PROVE LoopOK'
  BY <1>5, LoopElsewhere
  DEF Client, Connect, UseChannel, ThreadStep, Spin, Lock, LockFails, Send, Receive,
      Unlock, Release, Return, Call, Queues, bvars
<1>6. ASSUME NEW a \in Agents, Accept(a) \/ Read(a) \/ ReadTimeout(a) \/ Crash(a)
      PROVE  LoopOK'
  BY <1>6, LoopElsewhere DEF Accept, Read, ReadTimeout, Crash, Kill, evars
<1>7. CASE ForkOrDie BY <1>7, LoopElsewhere DEF ForkOrDie, Fork, Die, Queues
<1>8. CASE RecvZero BY <1>8, EventsLeftOK, FiredAgents DEF RecvZero
<1> QED BY <1>1, <1>2, <1>3, <1>4, <1>5, <1>6, <1>7, <1>8, LoopPoll, LoopServe, LoopStop,
           LoopEvents, LoopRecv, LoopDecide
        DEF Next, Agentd

(***************************************************************************)
(* The types of agentd's and the agents' own state. What was issued stays: *)
(* a channel keeps its two ends.                                           *)
(***************************************************************************)
LEMMA AppendFacts ==
    ASSUME NEW S, NEW s \in Seq(S), NEW e \in S
    PROVE  /\ Append(s, e) \in Seq(S)
           /\ Len(s) \in Nat /\ Len(Append(s, e)) = Len(s) + 1
           /\ \A i \in DOMAIN s : i \in DOMAIN Append(s, e) /\ Append(s, e)[i] = s[i]
           /\ Len(s) + 1 \in DOMAIN Append(s, e) /\ Append(s, e)[Len(s) + 1] = e
BY SMT

\* What Head and Tail take from a sequence.
LEMMA TailFacts ==
    ASSUME NEW S, NEW s \in Seq(S), s # <<>>
    PROVE  /\ Head(s) \in S /\ Tail(s) \in Seq(S)
           /\ Len(s) \in Nat /\ Len(Tail(s)) = Len(s) - 1
           /\ \A i \in DOMAIN Tail(s) : i + 1 \in DOMAIN s /\ Tail(s)[i] = s[i + 1]
           /\ 1 \in DOMAIN s /\ Head(s) = s[1]
BY SMT

\* An element of a sequence is replaced.
LEMMA SetFacts ==
    ASSUME NEW S, NEW s \in Seq(S), NEW i, NEW e, i \in DOMAIN s => e \in S
    PROVE  [s EXCEPT ![i] = e] \in Seq(S) /\ Len([s EXCEPT ![i] = e]) = Len(s)
<1> DEFINE r == [s EXCEPT ![i] = e]
<1>1. s \in [1 .. Len(s) -> S] /\ Len(s) \in Nat BY SMT
<1>2. r \in [1 .. Len(s) -> S] BY <1>1
<1>3. ASSUME NEW n \in Nat, NEW f \in [1 .. n -> S] PROVE f \in Seq(S) /\ Len(f) = n BY SMT
<1> HIDE DEF r
<1>4. r \in Seq(S) /\ Len(r) = Len(s) BY <1>1, <1>2, <1>3
<1> QED BY <1>4 DEF r

\* A channel that is used or abandoned keeps its ends.
LEMMA ChannelFields ==
    ASSUME NEW c \in Channel
    PROVE  /\ LET r == [c EXCEPT !.gone = TRUE]
              IN  r \in Channel /\ r.from = c.from /\ r.to = c.to /\ r.msg = c.msg
           /\ \A m \in Targets : LET r == [c EXCEPT !.msg = m]
              IN  r \in Channel /\ r.from = c.from /\ r.to = c.to /\ r.msg = m
BY DEF Channel

\* A new channel is one.
LEMMA ChannelNew ==
    ASSUME NEW a \in Agents \cup {Operator}, NEW b \in Agents, NEW m \in {None, b}
    PROVE  [from |-> a, to |-> b, msg |-> m, gone |-> FALSE] \in Channel
BY DEF Channel

\* What a step may do to the channels issued.
Kept == \A i \in DOMAIN chan : /\ i \in DOMAIN chan'
                               /\ chan'[i].from = chan[i].from /\ chan'[i].to = chan[i].to

ChanOK == chan \in Seq(Channel)

\* No channel changes.
LEMMA ChanSame == ASSUME ChanOK, UNCHANGED chan PROVE ChanOK' /\ Len(chan') = Len(chan) /\ Kept
BY DEF ChanOK, Kept

\* A channel is added at the end.
LEMMA ChanGrows ==
    ASSUME ChanOK, NEW e \in Channel, chan' = Append(chan, e)
    PROVE  /\ ChanOK' /\ Kept /\ Len(chan) \in Nat /\ Len(chan') = Len(chan) + 1
           /\ Len(chan) + 1 \in DOMAIN chan' /\ chan'[Len(chan) + 1] = e
<1>1. chan \in Seq(Channel) BY DEF ChanOK
<1>2. /\ chan' \in Seq(Channel) /\ Len(chan) \in Nat /\ Len(chan') = Len(chan) + 1
      /\ Len(chan) + 1 \in DOMAIN chan' /\ chan'[Len(chan) + 1] = e
  BY <1>1, AppendFacts, SMT
<1>3. \A i \in DOMAIN chan : i \in DOMAIN chan' /\ chan'[i] = chan[i] BY <1>1, AppendFacts, SMT
<1>4. Kept BY <1>3 DEF Kept
<1> QED BY <1>2, <1>4 DEF ChanOK

\* A channel changes and keeps its ends.
LEMMA ChanSets ==
    ASSUME ChanOK, NEW i, NEW e, chan' = [chan EXCEPT ![i] = e],
           i \in DOMAIN chan => e \in Channel /\ e.from = chan[i].from /\ e.to = chan[i].to
    PROVE  ChanOK' /\ Kept /\ Len(chan') = Len(chan)
<1>1. chan \in Seq(Channel) BY DEF ChanOK
<1>2. Kept
  <2> SUFFICES ASSUME NEW j \in DOMAIN chan
               PROVE  /\ j \in DOMAIN chan'
                      /\ chan'[j].from = chan[j].from /\ chan'[j].to = chan[j].to
    BY DEF Kept
  <2>1. j \in DOMAIN chan' /\ chan'[j] = IF j = i THEN e ELSE chan[j] OBVIOUS
  <2> QED BY <2>1
<1> QED BY <1>1, <1>2, SetFacts, SMT DEF ChanOK

\* A channel that was issued is one.
LEMMA ElementOK == ASSUME ChanOK, NEW i \in DOMAIN chan PROVE chan[i] \in Channel
<1>1. \A S : chan \in Seq(S) => chan[i] \in S BY SMT
<1> QED BY <1>1 DEF ChanOK

\* The reader of an inbox keeps the ends.
LEMMA ChanRead ==
    ASSUME ChanOK, NEW a \in Agents, Read(a) \/ ReadTimeout(a)
    PROVE  ChanOK' /\ Kept /\ Len(chan') = Len(chan)
<1> DEFINE i == reader[a]
           e == [chan[i] EXCEPT !.gone = TRUE]
<1>1. chan' = [chan EXCEPT ![i] = e] BY DEF Read, ReadTimeout
<1>2. i \in DOMAIN chan => e \in Channel /\ e.from = chan[i].from /\ e.to = chan[i].to
  BY ElementOK, ChannelFields
<1> HIDE DEF i, e
<1> QED BY <1>1, <1>2, ChanSets

\* The message a thread sends is for the agent its request named.
LEMMA UseChannelCases ==
    ASSUME Asked, NEW t \in Threads, UseChannel(t)
    PROVE  \/ UNCHANGED chan
           \/ /\ thread[t].answer # None /\ thread[t].answer.is # Denied
              /\ Target(thread[t].request) \in Targets
              /\ chan' = [chan EXCEPT ![thread[t].answer.is].msg = Target(thread[t].request)]
<1>1. thread[t].request \in Requests BY DEF Asked, UseChannel, Return
<1>2. broker_parse(thread[t].request) => Target(thread[t].request) \in Targets
  BY <1>1 DEF Targets
<1> QED BY <1>2 DEF UseChannel

\* The thread that uses a channel keeps its ends.
LEMMA ChanUse ==
    ASSUME ChanOK, Asked, NEW t \in Threads, UseChannel(t)
    PROVE  ChanOK' /\ Kept /\ Len(chan') = Len(chan)
<1>1. CASE UNCHANGED chan BY <1>1, ChanSame
<1>2. CASE ~UNCHANGED chan
  <2> DEFINE i == thread[t].answer.is
             m == Target(thread[t].request)
             e == [chan[i] EXCEPT !.msg = m]
  <2>1. chan' = [chan EXCEPT ![i] = e] /\ m \in Targets BY <1>2, UseChannelCases
  <2>2. i \in DOMAIN chan => e \in Channel /\ e.from = chan[i].from /\ e.to = chan[i].to
    BY <2>1, ElementOK, ChannelFields
  <2> HIDE DEF i, e
  <2> QED BY <2>1, <2>2, ChanSets
<1> QED BY <1>1, <1>2

(***************************************************************************)
(* The calls in progress. What a step of Exchange does to them.            *)
(***************************************************************************)
Early == {"spin", "wait", "locked"}

CallingOf(t) == <<"calling", t, 0>>
TakenOf(a) == <<"taken", a, 0>>
QueuedOf(a, k) == <<"queued", a, k>>
CommandOf == <<"command", Operator, 0>>

\* The members of each kind, now and after a step.
LEMMA CallingMember ==
    /\ \A o : o \in Calling <=> \E t \in Threads : thread[t].pc \in Early /\ o = CallingOf(t)
    /\ \A o : o \in Calling' <=> \E t \in Threads : thread'[t].pc \in Early /\ o = CallingOf(t)
BY DEF Calling, CallingOf, Early

\* Which calls are in a channel of requests.
LEMMA QueuedMember ==
    /\ \A o : o \in Queued <=> \E a \in Agents : \E k \in DOMAIN req[a] : o = QueuedOf(a, k)
    /\ \A o : o \in Queued' <=> \E a \in Agents : \E k \in DOMAIN req'[a] : o = QueuedOf(a, k)
BY SMT DEF Queued, QueuedOf

\* Which calls are in agentd's hands.
LEMMA TakenMember ==
    /\ \A o : o \in Taken <=> \E a \in Agents : held[a] # None /\ o = TakenOf(a)
    /\ \A o : o \in Taken' <=> \E a \in Agents : held'[a] # None /\ o = TakenOf(a)
BY DEF Taken, TakenOf

\* Calls in different places are different.
LEMMA Tokens ==
    /\ \A t : CallingOf(t)[1] = "calling" /\ CallingOf(t)[2] = t
    /\ \A a : TakenOf(a)[1] = "taken" /\ TakenOf(a)[2] = a
    /\ \A a, k : QueuedOf(a, k)[1] = "queued" /\ QueuedOf(a, k)[2] = a /\ QueuedOf(a, k)[3] = k
    /\ CommandOf[1] = "command"
BY SMT DEF CallingOf, TakenOf, QueuedOf, CommandOf

\* No token is of two kinds.
LEMMA TokenKinds ==
    /\ \A o \in Calling' : o[1] = "calling"
    /\ \A o \in Queued' : o[1] = "queued"
    /\ \A o \in Taken' : o[1] = "taken"
    /\ \A o \in Command' : o[1] = "command"
<1>1. Command' \subseteq {CommandOf} BY DEF Command, CommandOf
<1>2. \A o \in Queued' : o[1] = "queued" BY Tokens, QueuedMember, SMT
<1> QED BY <1>1, <1>2, Tokens, CallingMember, TakenMember, SMT

\* A thread that moves on calls no more than before.
LEMMA CallingMoved ==
    ASSUME NEW t \in Threads, NEW pc, Moved(t, pc)
    PROVE  /\ Calling' \subseteq Calling \cup {CallingOf(t)}
           /\ (pc \in Early => thread[t].pc \in Early) => Calling' \subseteq Calling
           /\ pc \notin Early => CallingOf(t) \notin Calling'
<1>2. \A u \in Threads : u # t => thread'[u] = thread[u] BY DEF Moved
<1>3. thread'[t].pc = pc BY DEF Moved
<1>4. \A u \in Threads : CallingOf(u) = CallingOf(t) => u = t BY Tokens, SMT
<1> QED BY <1>2, <1>3, <1>4, CallingMember

\* Queues that shrink hold fewer calls.
LEMMA QueuedShrinks ==
    ASSUME \A a \in Agents : DOMAIN req'[a] \subseteq DOMAIN req[a] PROVE Queued' \subseteq Queued
BY QueuedMember

\* agentd holds no more calls.
LEMMA TakenShrinks ==
    ASSUME \A a \in Agents : held'[a] # None => held[a] # None PROVE Taken' \subseteq Taken
BY DEF Taken

Shrinks == Calling' \subseteq Calling /\ Queued' \subseteq Queued /\ Taken' \subseteq Taken

\* No call moves.
LEMMA ShrinksSame == ASSUME UNCHANGED evars PROVE Shrinks
<1>1. \A a \in Agents : DOMAIN req'[a] \subseteq DOMAIN req[a] BY DEF evars
<1> QED BY <1>1, QueuedShrinks DEF evars, Shrinks, Calling, Taken

\* Steps of a thread other than entering and sending.
LEMMA ShrinksThread ==
    ASSUME ETypeOK, NEW t \in Threads,
           Spin(t) \/ Lock(t) \/ LockFails(t) \/ Receive(t) \/ Unlock(t) \/ Release(t) \/ Return(t)
    PROVE  Shrinks
<1>1. req' = req /\ held' = held
  BY DEF Spin, Lock, LockFails, Receive, Unlock, Release, Return, Queues
<1>2. Queued' \subseteq Queued /\ Taken' \subseteq Taken
  BY <1>1, QueuedShrinks, TakenShrinks
<1>3. ASSUME NEW pc, Moved(t, pc), pc \in Early => thread[t].pc \in Early PROVE Shrinks
  BY <1>2, <1>3, CallingMoved DEF Shrinks
<1>4. ASSUME NEW pc \in Places, Goto(t, pc), pc \in Early => thread[t].pc \in Early PROVE Shrinks
  BY <1>3, <1>4, GotoMoves
<1>5. CASE Spin(t) BY <1>4, <1>5 DEF Spin, Early, Places
<1>6. CASE Lock(t) BY <1>4, <1>6 DEF Lock, Early, Places
<1>7. CASE LockFails(t) BY <1>4, <1>7 DEF LockFails, Early, Places
<1>8. CASE Unlock(t) BY <1>4, <1>8 DEF Unlock, Early, Places
<1>9. CASE Release(t) BY <1>4, <1>9 DEF Release, Early, Places
<1>10. CASE Receive(t)
  <2>1. CASE Goto(t, "unlock") BY <1>4, <2>1 DEF Early, Places
  <2>2. CASE thread' = [thread EXCEPT ![t] = At("unlock", @.request, Head(ans[Of(t)]))]
    <3>1. \A u \in Threads : u # t => thread'[u] = thread[u] BY <2>2 DEF ETypeOK
    <3>2. thread'[t].pc = "unlock" BY <2>2 DEF ETypeOK, At
    <3>3. Calling' \subseteq Calling BY <3>1, <3>2 DEF Calling
    <3> QED BY <1>2, <3>3 DEF Shrinks
  <2> QED BY <1>10, <2>1, <2>2 DEF Receive
<1>11. CASE Return(t)
  <2>1. \A u \in Threads : u # t => thread'[u] = thread[u] BY <1>11 DEF Return, ETypeOK
  <2>2. thread'[t].pc = "idle" BY <1>11 DEF Return, ETypeOK, Idle, At
  <2>3. Calling' \subseteq Calling BY <2>1, <2>2 DEF Calling
  <2> QED BY <1>2, <2>3 DEF Shrinks
<1> QED BY <1>5, <1>6, <1>7, <1>8, <1>9, <1>10, <1>11

\* Forks, deaths and restarts make no call.
LEMMA ShrinksProcesses ==
    ASSUME ETypeOK,
           \/ \E p, q \in Procs : Fork(p, q)
           \/ \E q \in Procs : Die(q)
           \/ \E a \in Agents : Kill(a) \/ Spawn(a) \/ HangUp(a)
    PROVE  Shrinks
<1>1. \A t \in Threads : thread'[t] = thread[t] \/ thread'[t] = Idle
  <2>1. CASE thread' = thread BY <2>1
  <2>2. CASE \E q \in Procs : Die(q) BY <2>2 DEF Die
  <2>3. ASSUME NEW a \in Agents, Kill(a)
        PROVE  \A t \in Threads : thread'[t] = thread[t] \/ thread'[t] = Idle
    <3>1. thread' = [t \in Threads |-> IF Of(t) = a THEN Idle ELSE thread[t]] BY <2>3 DEF Kill
    <3> QED BY <3>1
  <2> QED BY <2>1, <2>2, <2>3 DEF Fork, Spawn, HangUp
<1>0. Idle.pc \notin Early BY SMT DEF Idle, At, Early
<1>2. \A t \in Threads : thread'[t].pc \in Early => thread[t].pc \in Early
  BY <1>0, <1>1
<1>3. Calling' \subseteq Calling BY <1>2 DEF Calling, Early
<1>4. \A a \in Agents : req'[a] = req[a] \/ req'[a] = <<>>
  BY DEF Fork, Die, Kill, Spawn, HangUp, Queues, ETypeOK, QueuesTypeOK
<1>5. \A a \in Agents : DOMAIN req'[a] \subseteq DOMAIN req[a]
  <2>1. DOMAIN <<>> = {} BY SMT
  <2> QED BY <1>4, <2>1
<1>6. \A a \in Agents : held'[a] = held[a] \/ held'[a] = None
  BY DEF Fork, Die, Kill, Spawn, HangUp, Queues, ETypeOK, QueuesTypeOK
<1> QED BY <1>3, <1>5, <1>6, QueuedShrinks, TakenShrinks DEF Shrinks

\* A sent request moves from the thread to the queue.
LEMMA QueuedSend ==
    ASSUME ETypeOK, NEW t \in Threads, Send(t), open[Of(t)]
    PROVE  /\ Calling' \subseteq Calling /\ CallingOf(t) \in Calling /\ CallingOf(t) \notin Calling'
           /\ Queued' \subseteq Queued \cup {QueuedOf(Of(t), Len(req[Of(t)]) + 1)}
           /\ Taken' \subseteq Taken
<1> DEFINE a == Of(t)
           S == Tagged(Requests \cup {None})
           e == [by |-> t, is |-> thread[t].request]
<1>0. a \in Agents BY OfAgent
<1>1. thread[t].pc = "locked" /\ Goto(t, "sent") BY DEF Send
<1>2. req' = [req EXCEPT ![a] = Append(req[a], e)] /\ held' = held BY DEF Send
<1>3. Moved(t, "sent") BY <1>1, GotoMoves DEF Places
<1>4. Calling' \subseteq Calling /\ CallingOf(t) \notin Calling'
  <2>1. "sent" \notin Early BY DEF Early
  <2> QED BY <1>3, <2>1, CallingMoved
<1>5. CallingOf(t) \in Calling BY <1>1, CallingMember DEF Early
<1>6. Taken' \subseteq Taken BY <1>2, TakenShrinks
<1>7. DOMAIN Append(req[a], e) \subseteq DOMAIN req[a] \cup {Len(req[a]) + 1}
  <2>1. thread[t].request \in Requests \cup {None} BY DEF ETypeOK, ThreadState
  <2>2. e \in S BY <2>1 DEF Tagged
  <2>3. req[a] \in Seq(S) BY <1>0 DEF ETypeOK, QueuesTypeOK
  <2> HIDE DEF S, e
  <2> QED BY <2>2, <2>3, SMT
<1>8. \A b \in Agents : req'[b] = IF b = a THEN Append(req[a], e) ELSE req[b]
  BY <1>2 DEF ETypeOK, QueuesTypeOK
<1> HIDE DEF e, a
<1>9. \A b \in Agents : \A k \in DOMAIN req'[b] :
         k \in DOMAIN req[b] \/ (b = a /\ k = Len(req[a]) + 1)
  BY <1>7, <1>8
<1>10. Queued' \subseteq Queued \cup {QueuedOf(a, Len(req[a]) + 1)} BY <1>9, QueuedMember
<1> QED BY <1>4, <1>5, <1>6, <1>10 DEF a

\* A request to a closed channel is over.
LEMMA ShrinksSend ==
    ASSUME ETypeOK, NEW t \in Threads, Send(t), ~open[Of(t)] PROVE Shrinks
<1>1. Goto(t, "unlock") /\ req' = req /\ held' = held BY DEF Send
<1>2. Moved(t, "unlock") BY <1>1, GotoMoves DEF Places
<1>3. "unlock" \notin Early BY DEF Early
<1> QED BY <1>1, <1>2, <1>3, CallingMoved, QueuedShrinks, TakenShrinks DEF Shrinks

\* A request that is taken moves from the queue to agentd's hands.
LEMMA QueuedTake ==
    ASSUME ETypeOK, NEW a \in Agents, Take(a)
    PROVE  /\ Calling' \subseteq Calling /\ Queued' \subseteq Queued
           /\ QueuedOf(a, Len(req[a])) \in Queued /\ QueuedOf(a, Len(req[a])) \notin Queued'
           /\ Taken' \subseteq Taken \cup {TakenOf(a)}
<1> DEFINE S == Tagged(Requests \cup {None})
           n == Len(req[a])
<1>1. req[a] \in Seq(S) /\ req[a] # <<>> BY DEF ETypeOK, QueuesTypeOK, Take
<1> HIDE DEF S
<1>2. /\ n \in DOMAIN req[a] /\ n \notin DOMAIN Tail(req[a])
      /\ DOMAIN Tail(req[a]) \subseteq DOMAIN req[a]
  BY <1>1, SMT
<1>3. \A b \in Agents : req'[b] = IF b = a THEN Tail(req[a]) ELSE req[b]
  BY DEF Take, ETypeOK, QueuesTypeOK
<1>4. Queued' \subseteq Queued BY <1>2, <1>3, QueuedShrinks
<1>5. QueuedOf(a, n) \in Queued BY <1>2, QueuedMember
<1>6. QueuedOf(a, n) \notin Queued'
  <2>1. \A b, k : QueuedOf(b, k) = QueuedOf(a, n) => b = a /\ k = n BY Tokens, SMT
  <2>2. ASSUME QueuedOf(a, n) \in Queued' PROVE FALSE
    <3>1. PICK b \in Agents : \E k \in DOMAIN req'[b] : QueuedOf(a, n) = QueuedOf(b, k)
      BY <2>2, QueuedMember
    <3>2. PICK k \in DOMAIN req'[b] : QueuedOf(a, n) = QueuedOf(b, k) BY <3>1
    <3>3. b = a /\ k = n BY <2>1, <3>2
    <3> QED BY <1>2, <1>3, <3>3
  <2> QED BY <2>2
<1>7. Calling' \subseteq Calling BY DEF Take, Calling
<1>8. \A b \in Agents : b # a => held'[b] = held[b] BY DEF Take, ETypeOK, QueuesTypeOK
<1>9. Taken' \subseteq Taken \cup {TakenOf(a)} BY <1>8, TakenMember
<1> QED BY <1>4, <1>5, <1>6, <1>7, <1>9

\* An answered request is over.
LEMMA TakenAnswer ==
    ASSUME ETypeOK, NEW a \in Agents, NEW x, Answer(a, x)
    PROVE  Shrinks /\ TakenOf(a) \in Taken /\ TakenOf(a) \notin Taken'
<1>1. req' = req /\ thread' = thread BY DEF Answer
<1>2. \A b \in Agents : held'[b] = IF b = a THEN None ELSE held[b]
  BY DEF Answer, ETypeOK, QueuesTypeOK
<1>3. Shrinks BY <1>1, <1>2, QueuedShrinks, TakenShrinks DEF Shrinks, Calling
<1>4. TakenOf(a) \in Taken BY TakenMember DEF Answer
<1>5. \A b : TakenOf(b) = TakenOf(a) => b = a BY Tokens, SMT
<1>6. TakenOf(a) \notin Taken' BY <1>2, <1>5, TakenMember
<1> QED BY <1>3, <1>4, <1>6

\* A call makes one token.
LEMMA CallingCall ==
    ASSUME ETypeOK, NEW t \in Threads, NEW r \in Requests, Call(t, r)
    PROVE  /\ Calling' \subseteq Calling \cup {CallingOf(t)}
           /\ Queued' \subseteq Queued /\ Taken' \subseteq Taken
<1>1. req' = req /\ held' = held BY DEF Call, Queues
<1>2. Moved(t, "spin")
  BY SetMoves DEF Call, Places
<1> QED BY <1>1, <1>2, CallingMoved, QueuedShrinks, TakenShrinks

\* The command in progress.
LEMMA CommandSame == UNCHANGED loop => Command' = Command
BY DEF Command

\* agentd is past its command.
LEMMA CommandOver ==
    loop'.pc \notin {"reap", "issue"} \/ (loop'.pc = "issue" /\ loop'.at # Operator) => Command' = {}
BY DEF Command

\* Once events are handled, there is no command left.
LEMMA EventsLeftCommand == ASSUME NEW fired, loop' = EventsLeft(fired) PROVE Command' = {}
<1>1. loop'.pc \in {"poll", "events"} BY SMT DEF EventsLeft, AtLoop
<1> QED BY <1>1, CommandOver

\* A command is served once.
LEMMA CommandServe == ASSUME LoopOK, Serve PROVE Command' \subseteq Command
<1>1. loop.pc = "reap" /\ loop \in LoopState BY DEF Serve, LoopOK
<1>2. CASE loop' = EventsLeft(loop.fired) BY <1>2, EventsLeftCommand
<1>3. CASE loop.command.do = "issue"
  <2>1. Command = {CommandOf} BY <1>1, <1>3 DEF Command, CommandOf
  <2>2. Command' \subseteq {CommandOf} BY DEF Command, CommandOf
  <2> QED BY <2>1, <2>2
<1>4. ASSUME NEW do \in {"stop", "start"}, loop'.pc = do PROVE Command' = {}
  BY <1>4, CommandOver
<1>5. CASE loop.command.do # "issue" /\ loop' # EventsLeft(loop.fired)
  <2>1. PICK do \in {"stop", "start"} : loop' = [loop EXCEPT !.pc = do, !.at = loop.command.to]
    BY <1>5 DEF Serve
  <2>2. loop'.pc = do BY <1>1, <2>1 DEF LoopState
  <2> QED BY <1>4, <2>2
<1> QED BY <1>2, <1>3, <1>5

\* Nor does any other step but poll() make one.
LEMMA CommandShrinks ==
    ASSUME LoopOK, Reap \/ Serve \/ Stop \/ Start \/ Events \/ RecvZero \/ Recv \/ Decide
    PROVE  Command' \subseteq Command
<1>0. loop \in LoopState BY DEF LoopOK
<1>1. CASE Reap BY <1>1, CommandSame DEF Reap
<1>2. CASE Serve BY <1>2, CommandServe
<1>3. CASE UNCHANGED loop BY <1>3, CommandSame
<1>4. CASE \E fired : loop' = EventsLeft(fired) BY <1>4, EventsLeftCommand
<1>5. CASE Stop
  <2>1. CASE loop' = [loop EXCEPT !.pc = "start"]
    <3>1. loop'.pc = "start" BY <1>0, <2>1 DEF LoopState
    <3> QED BY <3>1, CommandOver
  <2> QED BY <1>3, <1>4, <1>5, <2>1 DEF Stop
<1>6. CASE Start BY <1>4, <1>6 DEF Start
<1>7. CASE Events
  <2>1. ASSUME NEW a, NEW pc \in {"recv", "zero"},
               loop' = [loop EXCEPT !.pc = pc, !.fired = @ \ {a}, !.at = a]
        PROVE  Command' = {}
    <3>1. loop'.pc = pc BY <1>0, <2>1 DEF LoopState
    <3> QED BY <3>1, CommandOver
  <2> QED BY <1>4, <1>7, <2>1, EventsCases
<1>8. CASE Recv
  <2>1. CASE loop' = [loop EXCEPT !.pc = "decide"]
    <3>1. loop'.pc = "decide" BY <1>0, <2>1 DEF LoopState
    <3> QED BY <3>1, CommandOver
  <2> QED BY <1>4, <1>8, <2>1 DEF Recv
<1>9. CASE Decide
  <2>1. ASSUME NEW b, loop' = [loop EXCEPT !.pc = "issue", !.to = b] PROVE Command' = {}
    <3>1. loop'.pc = "issue" /\ loop'.at = loop.at BY <1>0, <2>1 DEF LoopState
    <3>2. loop.at # Operator BY <1>9, DecideCases, BrokerAssumption DEF BrokerAssumption
    <3> QED BY <3>1, <3>2, CommandOver
  <2> QED BY <1>4, <1>9, <2>1, DecideCases
<1>10. CASE RecvZero BY <1>4, <1>10 DEF RecvZero
<1> QED BY <1>1, <1>2, <1>5, <1>6, <1>7, <1>8, <1>9, <1>10

(***************************************************************************)
(* No call is issued two channels.                                         *)
(***************************************************************************)
Limits == /\ ChanOK /\ Len(chan) <= calls
          /\ calls \in 0 .. MaxCalls /\ faults \in 0 .. MaxFaults

\* The counters are numbers.
LEMMA LimitsNat == Limits => calls \in Nat /\ Len(chan) \in Nat
<1>1. \A S : chan \in Seq(S) => Len(chan) \in Nat BY SMT
<1>2. calls \in 0 .. MaxCalls => calls \in Nat BY BrokerAssumption, SMT DEF BrokerAssumption
<1> QED BY <1>1, <1>2 DEF Limits, ChanOK

\* Fewer calls are in progress.
LEMMA CountedShrinks ==
    ASSUME Counted, Limits, Shrinks, Command' \subseteq Command,
           Len(chan') = Len(chan), calls' = calls
    PROVE  Counted'
<1>1. InProgress' \subseteq InProgress BY DEF InProgress, Shrinks
<1>2. Numbered(InProgress', Len(chan), calls)
  BY <1>1, LimitsNat, NumberedFewer DEF Counted
<1> QED BY <1>2 DEF Counted

\* A call in progress moves on.
LEMMA CountedMoved ==
    ASSUME Counted, Limits, NEW x \in InProgress, NEW y,
           InProgress' \subseteq InProgress \cup {y}, x \notin InProgress',
           Len(chan') = Len(chan), calls' = calls
    PROVE  Counted'
<1>1. Numbered(InProgress', Len(chan), calls) BY LimitsNat, NumberedMoved DEF Counted
<1> QED BY <1>1 DEF Counted

\* A call is made and counted.
LEMMA CountedMore ==
    ASSUME Counted, Limits, NEW y, InProgress' \subseteq InProgress \cup {y},
           Len(chan') = Len(chan), calls' = calls + 1
    PROVE  Counted'
<1>1. Numbered(InProgress', Len(chan), calls + 1)
  BY LimitsNat, NumberedMore DEF Counted, Limits
<1> QED BY <1>1 DEF Counted

\* A thread sends its request.
LEMMA CountedSend ==
    ASSUME Counted, Limits, ETypeOK, NEW t \in Threads, Send(t), UNCHANGED <<loop, chan, calls>>
    PROVE  Counted'
<1>1. Command' = Command BY CommandSame
<1>2. CASE ~open[Of(t)] BY <1>1, <1>2, ShrinksSend, CountedShrinks
<1>3. CASE open[Of(t)]
  <2> DEFINE y == QueuedOf(Of(t), Len(req[Of(t)]) + 1)
             x == CallingOf(t)
  <2>1. /\ Calling' \subseteq Calling /\ x \in Calling /\ x \notin Calling'
        /\ Queued' \subseteq Queued \cup {y}
        /\ Taken' \subseteq Taken
    BY <1>3, QueuedSend
  <2>2. x[1] = "calling" BY Tokens
  <2>3. x \notin Queued' /\ x \notin Taken' /\ x \notin Command' BY <2>2, TokenKinds
  <2> HIDE DEF x, y
  <2>4. x \in InProgress BY <2>1 DEF InProgress
  <2>5. x \notin InProgress' BY <2>1, <2>3 DEF InProgress
  <2>6. InProgress' \subseteq InProgress \cup {y} BY <1>1, <2>1 DEF InProgress
  <2> QED BY <2>4, <2>5, <2>6, CountedMoved
<1> QED BY <1>2, <1>3

\* agentd takes a request.
LEMMA CountedTake ==
    ASSUME Counted, Limits, ETypeOK, NEW a \in Agents, Take(a), Command' \subseteq Command,
           UNCHANGED <<chan, calls>>
    PROVE  Counted'
<1> DEFINE x == QueuedOf(a, Len(req[a]))
           y == TakenOf(a)
<1>1. /\ Calling' \subseteq Calling /\ Queued' \subseteq Queued
      /\ x \in Queued /\ x \notin Queued'
      /\ Taken' \subseteq Taken \cup {y}
  BY QueuedTake
<1>2. x[1] = "queued" BY Tokens, SMT
<1>3. x \notin Calling' /\ x \notin Taken' /\ x \notin Command' BY <1>2, TokenKinds
<1> HIDE DEF x, y
<1>4. x \in InProgress BY <1>1 DEF InProgress
<1>5. x \notin InProgress' BY <1>1, <1>3 DEF InProgress
<1>6. InProgress' \subseteq InProgress \cup {y} BY <1>1 DEF InProgress
<1> QED BY <1>4, <1>5, <1>6, CountedMoved

\* A thread calls ipc_connect.
LEMMA CountedConnect ==
    ASSUME Counted, Limits, ETypeOK, NEW t \in Threads, Connect(t)
    PROVE  Counted'
<1>1. PICK r \in Requests : Call(t, r) BY BrokerAssumption DEF BrokerAssumption, Connect
<1>2. Command' = Command BY CommandSame DEF Connect
<1>3. InProgress' \subseteq InProgress \cup {CallingOf(t)}
  BY <1>1, <1>2, CallingCall DEF InProgress
<1> QED BY <1>3, CountedMore DEF Connect

\* A command of agentctl is counted when poll() reports it.
LEMMA CountedPoll == ASSUME Counted, Limits, Poll PROVE Counted'
<1>1. PICK command \in Commands :
        /\ calls' = calls + (IF command.do = "issue" THEN 1 ELSE 0)
        /\ loop' = AtLoop("reap", {a \in Agents : Readable(a)}, command)
  BY DEF Poll
<1>2. Shrinks /\ chan' = chan BY ShrinksSame DEF Poll
<1>3. loop'.pc = "reap" /\ loop'.command = command BY <1>1 DEF AtLoop
<1>4. CASE command.do = "issue"
  <2>1. Command' \subseteq {CommandOf} BY DEF Command, CommandOf
  <2>2. InProgress' \subseteq InProgress \cup {CommandOf} BY <1>2, <2>1 DEF InProgress, Shrinks
  <2>3. calls' = calls + 1 BY <1>1, <1>4
  <2> QED BY <1>2, <2>2, <2>3, CountedMore
<1>5. CASE command.do # "issue"
  <2>1. Command' = {} BY <1>3, <1>5 DEF Command
  <2>2. calls' = calls BY <1>1, <1>5, LimitsNat, SMT
  <2> QED BY <1>2, <2>1, <2>2, CountedShrinks
<1> QED BY <1>4, <1>5

\* A channel is issued: its call is over, and there was a number left for it.
LEMMA CountedIssue ==
    ASSUME Counted, Limits, LoopOK, ETypeOK, Issue
    PROVE  Counted' /\ Len(chan) + 1 <= calls
<1>0. LoopInv BY DEF LoopOK
<1>1. Command' = {} /\ calls' = calls BY <1>0, IssueCases, EventsLeftCommand
<1>2. ASSUME NEW x \in InProgress, InProgress' \subseteq InProgress, x \notin InProgress'
      PROVE  Counted' /\ Len(chan) + 1 <= calls
  <2>1. Numbered(InProgress', Len(chan) + 1, calls) /\ Len(chan) + 1 <= calls
    BY <1>2, LimitsNat, NumberedDone DEF Counted
  <2>2. CASE UNCHANGED chan
    <3>1. Numbered(InProgress', Len(chan), calls) BY <1>2, LimitsNat, NumberedFewer DEF Counted
    <3> QED BY <1>1, <2>1, <2>2, <3>1 DEF Counted
  <2>3. ASSUME NEW m \in {None, loop.to},
               chan' = Append(chan, [from |-> loop.at, to |-> loop.to, msg |-> m,
                                     gone |-> FALSE])
        PROVE  Counted'
    <3>1. [from |-> loop.at, to |-> loop.to, msg |-> m, gone |-> FALSE] \in Channel
      BY <1>0, IssueCases, ChannelNew
    <3>2. Len(chan') = Len(chan) + 1 BY <2>3, <3>1, ChanGrows DEF Limits
    <3> QED BY <1>1, <2>1, <3>2 DEF Counted
  <2> QED BY <1>0, <2>1, <2>2, <2>3, IssueCases
<1>3. CASE loop.at = Operator
  <2>1. Shrinks BY <1>0, <1>3, IssueCases, ShrinksSame
  <2>2. CommandOf \in Command BY <1>0, <1>3, IssueCases DEF Command, CommandOf
  <2>3. CommandOf[1] = "command" BY Tokens
  <2>4. CommandOf \notin Calling' /\ CommandOf \notin Queued' /\ CommandOf \notin Taken'
    BY <2>3, TokenKinds
  <2>5. CommandOf \in InProgress /\ CommandOf \notin InProgress'
    BY <1>1, <2>2, <2>4 DEF InProgress
  <2>6. InProgress' \subseteq InProgress BY <1>1, <2>1 DEF InProgress, Shrinks
  <2> QED BY <1>2, <2>5, <2>6
<1>4. CASE loop.at # Operator
  <2> DEFINE x == TakenOf(loop.at)
  <2>1. loop.at \in Agents /\ \E y : Answer(loop.at, y) BY <1>0, <1>4, IssueCases
  <2>2. Shrinks /\ x \in Taken /\ x \notin Taken' BY <2>1, TakenAnswer
  <2>3. x[1] = "taken" BY Tokens
  <2>4. x \notin Calling' /\ x \notin Queued' BY <2>3, TokenKinds
  <2> HIDE DEF x
  <2>5. x \in InProgress /\ x \notin InProgress' BY <1>1, <2>2, <2>4 DEF InProgress
  <2>6. InProgress' \subseteq InProgress BY <1>1, <2>2 DEF InProgress, Shrinks
  <2> QED BY <1>2, <2>5, <2>6
<1> QED BY <1>3, <1>4

\* A cleared slot ends calls.
LEMMA ClearShrinks == ASSUME ETypeOK, NEW a \in Agents, Clear(a) PROVE Shrinks
BY ShrinksSame, ShrinksProcesses DEF Clear

\* The count is kept by every step.
LEMMA CountedNext ==
    ASSUME Counted, Limits, LoopOK, ETypeOK, Asked, [Next]_vars PROVE Counted'
<1>0. ChanOK /\ LoopInv BY DEF Limits, LoopOK
<1>1. ASSUME Shrinks, UNCHANGED <<chan, calls>>, Command' \subseteq Command PROVE Counted'
  BY <1>1, CountedShrinks
<1>2. CASE Reap BY <1>1, <1>2, ClearShrinks, CommandShrinks DEF Reap
<1>3. CASE Serve BY <1>1, <1>3, ShrinksSame, CommandShrinks DEF Serve
<1>4. CASE Stop
  <2>1. loop.at \in Agents BY <1>0, <1>4 DEF LoopInv, Stop
  <2>2. Kill(loop.at) \/ Clear(loop.at) BY <1>4 DEF Stop
  <2>3. Shrinks BY <2>1, <2>2, ClearShrinks, ShrinksProcesses
  <2> QED BY <1>1, <1>4, <2>3, CommandShrinks DEF Stop
<1>5. CASE Start
  <2>1. loop.at \in Agents BY <1>0, <1>5 DEF LoopInv, Start
  <2>2. Shrinks BY <1>5, <2>1, ShrinksProcesses DEF Start
  <2> QED BY <1>1, <1>5, <2>2, CommandShrinks DEF Start
<1>6. CASE Events \/ RecvZero
  BY <1>1, <1>6, ShrinksSame, CommandShrinks DEF Events, RecvZero
<1>7. CASE Recv
  <2>1. loop.at \in Agents BY <1>0, <1>7 DEF LoopInv, Recv
  <2>2. CASE Take(loop.at) BY <1>7, <2>1, <2>2, CountedTake, CommandShrinks DEF Recv
  <2>3. CASE HangUp(loop.at)
    <3>1. Shrinks BY <2>1, <2>3, ShrinksProcesses
    <3> QED BY <1>1, <1>7, <3>1, CommandShrinks DEF Recv
  <2> QED BY <1>7, <2>2, <2>3 DEF Recv
<1>8. CASE Decide
  <2>1. loop.at \in Agents /\ UNCHANGED <<chan, calls>> BY <1>8, DecideCases
  <2>2. HangUp(loop.at) \/ Answer(loop.at, Denied) \/ UNCHANGED evars BY <1>8, DecideCases
  <2>3. Shrinks BY <2>1, <2>2, ShrinksSame, ShrinksProcesses, TakenAnswer
  <2> QED BY <1>1, <1>8, <2>1, <2>3, CommandShrinks
<1>9. ASSUME NEW t \in Threads, Client(t) PROVE Counted'
  <2>1. CASE ThreadStep(t) /\ UNCHANGED bvars
    <3>1. UNCHANGED <<loop, chan, calls>> BY <2>1 DEF bvars
    <3>2. CASE Send(t) BY <3>1, <3>2, CountedSend
    <3>3. CASE ~Send(t)
      <4>1. Shrinks BY <2>1, <3>3, ShrinksThread DEF ThreadStep
      <4> QED BY <1>1, <3>1, <4>1, CommandSame
    <3> QED BY <3>2, <3>3
  <2>2. CASE UseChannel(t)
    <3>1. Shrinks /\ UNCHANGED <<loop, calls>> BY <2>2, ShrinksThread DEF UseChannel
    <3>2. Len(chan') = Len(chan) BY <1>0, <2>2, ChanUse
    <3>3. Command' \subseteq Command BY <3>1, CommandSame
    <3> QED BY <3>1, <3>2, <3>3, CountedShrinks
  <2> QED BY <1>9, <2>1, <2>2 DEF Client
<1>10. ASSUME NEW a \in Agents, Accept(a) \/ Read(a) \/ ReadTimeout(a) \/ Crash(a)
       PROVE  Counted'
  <2>1. CASE Accept(a) BY <1>1, <2>1, ShrinksSame, CommandSame DEF Accept
  <2>2. CASE Read(a) \/ ReadTimeout(a)
    <3>1. Shrinks /\ UNCHANGED <<loop, calls>> BY <2>2, ShrinksSame DEF Read, ReadTimeout
    <3>2. Len(chan') = Len(chan) BY <1>0, <2>2, ChanRead
    <3>3. Command' \subseteq Command BY <3>1, CommandSame
    <3> QED BY <3>1, <3>2, <3>3, CountedShrinks
  <2>3. CASE Crash(a) BY <1>1, <2>3, ShrinksProcesses, CommandSame DEF Crash
  <2> QED BY <1>10, <2>1, <2>2, <2>3
<1>11. CASE ForkOrDie BY <1>1, <1>11, ShrinksProcesses, CommandSame DEF ForkOrDie
<1>12. CASE UNCHANGED vars BY <1>1, <1>12, ShrinksSame, CommandSame DEF vars, bvars
<1> QED BY <1>2, <1>3, <1>4, <1>5, <1>6, <1>7, <1>8, <1>9, <1>10, <1>11, <1>12, CountedPoll,
           CountedConnect, CountedIssue
        DEF Next, Agentd

\* What the counters and the channels issued have to do with each other.
LEMMA LimitsNext ==
    ASSUME Limits, Counted, LoopOK, ETypeOK, Asked, [Next]_vars PROVE Limits'
<1>0. ChanOK /\ LoopInv BY DEF Limits, LoopOK
<1>1. ASSUME ChanOK', Len(chan') = Len(chan), UNCHANGED <<calls, faults>> PROVE Limits'
  BY <1>1 DEF Limits
<1>2. CASE UNCHANGED <<chan, calls, faults>> BY <1>0, <1>1, <1>2, ChanSame
<1>3. ASSUME UNCHANGED chan, calls' = calls \/ (calls' = calls + 1 /\ calls < MaxCalls),
             faults' = faults \/ (faults' = faults + 1 /\ faults < MaxFaults)
      PROVE  Limits'
  <2>1. Len(chan') <= calls'
    <3>1. Len(chan') = Len(chan) /\ Len(chan) <= calls BY <1>3 DEF Limits
    <3> QED BY <1>3, <3>1, LimitsNat, SMT
  <2>2. calls' \in 0 .. MaxCalls
    <3>1. calls \in 0 .. MaxCalls BY DEF Limits
    <3> QED BY <1>3, <3>1, BrokerAssumption, SMT DEF BrokerAssumption
  <2>3. faults' \in 0 .. MaxFaults
    <3>1. faults \in 0 .. MaxFaults BY DEF Limits
    <3> QED BY <1>3, <3>1, BrokerAssumption, SMT DEF BrokerAssumption
  <2> QED BY <1>0, <1>3, <2>1, <2>2, <2>3, ChanSame DEF Limits
<1>4. CASE Poll
  <2>1. PICK command \in Commands :
          /\ command.do \in {"stop", "restart"} => faults < MaxFaults
          /\ command.do = "issue" => calls < MaxCalls
          /\ faults' = faults + (IF command.do \in {"stop", "restart"} THEN 1 ELSE 0)
          /\ calls' = calls + (IF command.do = "issue" THEN 1 ELSE 0)
    BY <1>4 DEF Poll
  <2>2. calls' = calls \/ (calls' = calls + 1 /\ calls < MaxCalls)
    <3>1. calls \in Nat BY LimitsNat
    <3> QED BY <2>1, <3>1, SMT
  <2>3. faults' = faults \/ (faults' = faults + 1 /\ faults < MaxFaults)
    <3>1. faults \in 0 .. MaxFaults BY DEF Limits
    <3> QED BY <2>1, <3>1, BrokerAssumption, SMT DEF BrokerAssumption
  <2> QED BY <1>3, <1>4, <2>2, <2>3 DEF Poll
<1>5. CASE Issue
  <2>1. Len(chan) + 1 <= calls BY <1>5, CountedIssue
  <2>2. ASSUME NEW m \in {None, loop.to},
               chan' = Append(chan, [from |-> loop.at, to |-> loop.to, msg |-> m,
                                     gone |-> FALSE])
        PROVE  Limits'
    <3>1. [from |-> loop.at, to |-> loop.to, msg |-> m, gone |-> FALSE] \in Channel
      BY <1>0, <1>5, IssueCases, ChannelNew
    <3>2. ChanOK' /\ Len(chan') = Len(chan) + 1 BY <1>0, <2>2, <3>1, ChanGrows
    <3> QED BY <1>0, <1>5, <2>1, <3>2, IssueCases DEF Limits
  <2> QED BY <1>0, <1>2, <1>5, <2>2, IssueCases
<1>6. ASSUME NEW t \in Threads, Client(t) \/ Connect(t) PROVE Limits'
  <2>1. CASE ThreadStep(t) /\ UNCHANGED bvars BY <1>2, <2>1 DEF bvars
  <2>2. CASE UseChannel(t) BY <1>0, <1>1, <2>2, ChanUse DEF UseChannel
  <2>3. CASE Connect(t) BY <1>3, <2>3 DEF Connect
  <2> QED BY <1>6, <2>1, <2>2, <2>3 DEF Client
<1>7. ASSUME NEW a \in Agents, Accept(a) \/ Read(a) \/ ReadTimeout(a) \/ Crash(a)
      PROVE  Limits'
  <2>1. CASE Accept(a) BY <1>2, <2>1 DEF Accept
  <2>2. CASE Read(a) \/ ReadTimeout(a)
    BY <1>0, <1>1, <2>2, ChanRead DEF Read, ReadTimeout
  <2>3. CASE Crash(a) BY <1>3, <2>3 DEF Crash
  <2> QED BY <1>7, <2>1, <2>2, <2>3
<1>8. CASE ForkOrDie BY <1>3, <1>8 DEF ForkOrDie
<1>9. CASE UNCHANGED vars BY <1>2, <1>9 DEF vars, bvars
<1>10. CASE Reap \/ Serve \/ Stop \/ Start \/ Events \/ RecvZero \/ Recv \/ Decide
  BY <1>2, <1>10 DEF Reap, Serve, Stop, Start, Events, RecvZero, Recv, Decide
<1> QED BY <1>4, <1>5, <1>6, <1>7, <1>8, <1>9, <1>10 DEF Next, Agentd

\* So a channel is issued only while a number is left.
LEMMA IssueNumber == ASSUME Counted, Limits, LoopOK, ETypeOK, Issue PROVE NextNumber
<1>1. Len(chan) + 1 <= calls BY CountedIssue
<1>2. calls \in 0 .. MaxCalls BY DEF Limits
<1> QED BY <1>1, <1>2, LimitsNat, BrokerAssumption, SMT DEF BrokerAssumption, NextNumber, Channels

SlotsOK == /\ managed \in [Agents -> BOOLEAN]
           /\ slot \in [Agents -> {"used", "zeroed", "dropped"}]
           /\ inbox \in [Agents -> Seq(Channels)]
           /\ \A a \in Agents : Len(inbox[a]) <= INBOX_CAP
           /\ reader \in [Agents -> Channels \cup {0}]

\* A slot whose inbox starts anew.
LEMMA SlotsEmpty ==
    ASSUME SlotsOK, NEW a \in Agents, NEW b \in BOOLEAN,
           managed' = [managed EXCEPT ![a] = b], inbox' = [inbox EXCEPT ![a] = <<>>],
           reader' = [reader EXCEPT ![a] = 0],
           slot' = slot \/ \E x \in {"used", "zeroed", "dropped"} : slot' = [slot EXCEPT ![a] = x]
    PROVE  SlotsOK'
<1>1. \A S : <<>> \in Seq(S) BY SMT
<1>2. Len(<<>>) <= INBOX_CAP BY BrokerAssumption, SMT DEF BrokerAssumption
<1>3. slot' \in [Agents -> {"used", "zeroed", "dropped"}] BY DEF SlotsOK
<1> QED BY <1>1, <1>2, <1>3 DEF SlotsOK

\* Slots and inboxes keep their types and limits.
LEMMA SlotsNext ==
    ASSUME SlotsOK, Counted, Limits, LoopOK, ETypeOK, [Next]_vars PROVE SlotsOK'
<1>0. LoopInv BY DEF LoopOK
<1>1. CASE UNCHANGED <<managed, slot, inbox, reader>> BY <1>1 DEF SlotsOK
<1>2. ASSUME NEW a \in Agents, Clear(a),
             slot' = slot \/ \E x \in {"used", "zeroed", "dropped"} : slot' = [slot EXCEPT ![a] = x]
      PROVE  SlotsOK'
  BY <1>2, SlotsEmpty DEF Clear
<1>3. CASE Reap BY <1>2, <1>3 DEF Reap
<1>4. CASE Stop
  <2>1. loop.at \in Agents BY <1>0, <1>4 DEF LoopInv, Stop
  <2>2. slot[loop.at] \in {"used", "zeroed", "dropped"} BY <2>1 DEF SlotsOK
  <2>3. CASE UNCHANGED slot BY <1>1, <1>2, <1>4, <2>1, <2>3 DEF Stop
  <2>4. CASE slot' = [slot EXCEPT ![loop.at] = IF @ = "used" THEN "zeroed" ELSE @]
    <3>1. \E x \in {"used", "zeroed", "dropped"} : slot' = [slot EXCEPT ![loop.at] = x]
      BY <2>2, <2>4
    <3> QED BY <1>1, <1>2, <1>4, <2>1, <3>1 DEF Stop
  <2> QED BY <1>4, <2>3, <2>4 DEF Stop
<1>5. CASE Start
  <2>1. loop.at \in Agents BY <1>0, <1>5 DEF LoopInv, Start
  <2> QED BY <1>5, <2>1, SlotsEmpty DEF Start
<1>6. CASE Issue
  <2>1. Len(chan) + 1 \in Channels BY <1>6, IssueNumber DEF NextNumber
  <2>2. CASE /\ Len(inbox[loop.to]) < INBOX_CAP
             /\ inbox' = [inbox EXCEPT ![loop.to] = Append(@, Len(chan) + 1)]
    <3> DEFINE b == loop.to
    <3>1. b \in Agents /\ UNCHANGED <<managed, slot, reader>> BY <1>0, <1>6, IssueCases
    <3>2. inbox[b] \in Seq(Channels) BY <3>1 DEF SlotsOK
    <3>3. /\ Append(inbox[b], Len(chan) + 1) \in Seq(Channels)
          /\ Len(Append(inbox[b], Len(chan) + 1)) = Len(inbox[b]) + 1 /\ Len(inbox[b]) \in Nat
      BY <2>1, <3>2, AppendFacts, SMT
    <3>4. Len(Append(inbox[b], Len(chan) + 1)) <= INBOX_CAP
      BY <2>2, <3>3, BrokerAssumption, SMT DEF BrokerAssumption
    <3> HIDE DEF b
    <3> QED BY <2>2, <3>1, <3>3, <3>4 DEF SlotsOK, b
  <2> QED BY <1>0, <1>1, <1>6, <2>2, IssueCases
<1>7. ASSUME NEW a \in Agents, Accept(a) PROVE SlotsOK'
  <2>1. inbox[a] \in Seq(Channels) /\ inbox[a] # <<>> /\ Len(inbox[a]) <= INBOX_CAP
    BY <1>7 DEF SlotsOK, Accept
  <2>2. /\ Head(inbox[a]) \in Channels /\ Tail(inbox[a]) \in Seq(Channels)
        /\ Len(inbox[a]) \in Nat /\ Len(Tail(inbox[a])) = Len(inbox[a]) - 1
    BY <2>1, TailFacts, SMT
  <2>3. Len(Tail(inbox[a])) <= INBOX_CAP
    BY <2>1, <2>2, BrokerAssumption, SMT DEF BrokerAssumption
  <2> QED BY <1>7, <2>2, <2>3 DEF SlotsOK, Accept
<1>8. ASSUME NEW a \in Agents, Read(a) \/ ReadTimeout(a) PROVE SlotsOK'
  BY <1>8 DEF SlotsOK, Read, ReadTimeout
<1>9. ASSUME NEW t \in Threads, Client(t) \/ Connect(t) PROVE SlotsOK'
  BY <1>1, <1>9 DEF Client, Connect, UseChannel, bvars
<1>10. ASSUME NEW a \in Agents, Crash(a) PROVE SlotsOK' BY <1>1, <1>10 DEF Crash
<1>11. CASE ForkOrDie BY <1>1, <1>11 DEF ForkOrDie
<1>12. CASE UNCHANGED vars BY <1>1, <1>12 DEF vars, bvars
<1>13. CASE Poll \/ Serve \/ Events \/ Recv \/ Decide
  BY <1>1, <1>13 DEF Poll, Serve, Events, Recv, Decide
<1>14. CASE RecvZero
  <2>1. loop.at \in Agents BY <1>0, <1>14 DEF LoopInv, RecvZero
  <2> QED BY <1>14, <2>1 DEF SlotsOK, RecvZero
<1> QED BY <1>3, <1>4, <1>5, <1>6, <1>7, <1>8, <1>9, <1>10, <1>11, <1>12, <1>13, <1>14
    DEF Next, Agentd

(***************************************************************************)
(* The threads keep what they ask for while they ask.                      *)
(***************************************************************************)
LEMMA GotoKeeps ==
    ASSUME ETypeOK, NEW t \in Threads, NEW pc, Goto(t, pc)
    PROVE  /\ \A u \in Threads : u # t => thread'[u] = thread[u]
           /\ thread'[t].pc = pc /\ thread'[t].request = thread[t].request
           /\ thread'[t].answer = thread[t].answer
<1>1. thread \in [Threads -> ThreadState] /\ thread[t] \in ThreadState BY DEF ETypeOK
<1> DEFINE r == [thread[t] EXCEPT !.pc = pc]
<1>2. r.pc = pc /\ r.request = thread[t].request /\ r.answer = thread[t].answer
  BY <1>1 DEF ThreadState
<1>3. thread' = [thread EXCEPT ![t] = r] BY DEF Goto
<1> HIDE DEF r
<1> QED BY <1>1, <1>2, <1>3

\* A thread is set, the others are left alone.
LEMMA SetKeeps ==
    ASSUME ETypeOK, NEW t \in Threads, NEW pc, NEW r, NEW x,
           thread' = [thread EXCEPT ![t] = At(pc, r, x)]
    PROVE  /\ \A u \in Threads : u # t => thread'[u] = thread[u]
           /\ thread'[t].pc = pc /\ thread'[t].request = r /\ thread'[t].answer = x
BY DEF ETypeOK, At

\* A thread outside ipc_connect has no request and no answer.
LEMMA IdleFields == Idle.pc = "idle" /\ Idle.request = None /\ Idle.answer = None
BY DEF Idle, At

\* What a thread asks for is a request, and a step that takes it neither into an
\* exchange nor to an answer leaves that as it is.
Asks(t) ==
    thread'[t].pc # "idle" =>
       \/ thread'[t].request \in Requests
       \/ thread[t].pc # "idle" /\ thread'[t].request = thread[t].request

Calm(t) ==
    /\ Asks(t)
    /\ thread'[t].pc = "sent" => thread[t].pc = "sent" /\ thread'[t].request = thread[t].request
    /\ thread'[t].answer # None => /\ thread'[t].answer = thread[t].answer
                                   /\ thread'[t].request = thread[t].request

\* A thread that did nothing or was reset.
LEMMA CalmSame == ASSUME NEW t, thread'[t] = thread[t] \/ thread'[t] = Idle PROVE Calm(t)
<1>1. CASE thread'[t] = thread[t] BY <1>1 DEF Calm, Asks
<1>2. CASE thread'[t] = Idle BY <1>2, IdleFields DEF Calm, Asks
<1> QED BY <1>1, <1>2

\* A thread that moves on with what it has.
LEMMA CalmGoto ==
    ASSUME ETypeOK, NEW t \in Threads, NEW pc, Goto(t, pc), pc # "sent", thread[t].pc # "idle"
    PROVE  \A u \in Threads : Calm(u)
<1>1. Calm(t) BY GotoKeeps DEF Calm, Asks
<1> QED BY <1>1, GotoKeeps, CalmSame

\* Steps of a thread that neither send nor read.
LEMMA CalmThread ==
    ASSUME ETypeOK, NEW t \in Threads,
           \/ Spin(t) \/ Lock(t) \/ LockFails(t) \/ Unlock(t) \/ Release(t)
           \/ Send(t) /\ ~open[Of(t)]
           \/ Receive(t) /\ ans[Of(t)] = <<>>
    PROVE  (\A u \in Threads : Calm(u)) /\ UNCHANGED <<req, held, ans, orphaned>>
<1>1. \/ thread[t].pc = "spin" /\ Goto(t, "wait")
      \/ thread[t].pc = "wait" /\ Goto(t, "locked")
      \/ thread[t].pc = "wait" /\ Goto(t, "release")
      \/ thread[t].pc = "unlock" /\ Goto(t, "release")
      \/ thread[t].pc = "release" /\ Goto(t, "done")
      \/ thread[t].pc = "locked" /\ Goto(t, "unlock")
      \/ thread[t].pc = "sent" /\ Goto(t, "unlock")
  BY DEF Spin, Lock, LockFails, Unlock, Release, Send, Receive
<1>2. PICK pc \in {"wait", "locked", "release", "done", "unlock"} :
         Goto(t, pc) /\ thread[t].pc # "idle" /\ pc # "sent"
  BY <1>1
<1>3. \A u \in Threads : Calm(u) BY <1>2, CalmGoto
<1>4. UNCHANGED <<req, held, ans, orphaned>>
  BY DEF Spin, Lock, LockFails, Unlock, Release, Send, Receive, Queues
<1> QED BY <1>3, <1>4

\* A thread enters or leaves ipc_connect.
LEMMA CalmCall ==
    ASSUME ETypeOK, NEW t \in Threads, Return(t) \/ \E r \in Requests : Call(t, r)
    PROVE  (\A u \in Threads : Calm(u)) /\ UNCHANGED <<req, held, ans, orphaned>>
<1>1. UNCHANGED <<req, held, ans, orphaned>> BY DEF Return, Call, Queues
<1>2. CASE Return(t)
  <2>1. \A u \in Threads : thread'[u] = thread[u] \/ thread'[u] = Idle
    BY <1>2 DEF Return, ETypeOK
  <2> QED BY <1>1, <2>1, CalmSame
<1>3. ASSUME NEW r \in Requests, Call(t, r) PROVE \A u \in Threads : Calm(u)
  <2>1. thread' = [thread EXCEPT ![t] = At("spin", r, None)] BY <1>3 DEF Call
  <2>2. thread'[t].pc = "spin" /\ thread'[t].request = r /\ thread'[t].answer = None
    BY <2>1 DEF ETypeOK, At
  <2>3. Calm(t) BY <2>2 DEF Calm, Asks
  <2> QED BY <2>1, <2>3, SetKeeps, CalmSame
<1> QED BY <1>1, <1>2, <1>3

\* What processes and agentd do leaves the threads' requests and answers alone.
LEMMA CalmProcesses ==
    ASSUME ETypeOK,
           \/ UNCHANGED evars
           \/ \E p, q \in Procs : Fork(p, q)
           \/ \E q \in Procs : Die(q)
           \/ \E a \in Agents : Kill(a) \/ Spawn(a) \/ HangUp(a) \/ Take(a) \/ \E x : Answer(a, x)
    PROVE  \A u \in Threads : Calm(u)
<1>1. CASE thread' = thread BY <1>1, CalmSame
<1>2. ASSUME NEW q \in Procs, Die(q) PROVE \A u \in Threads : Calm(u)
  <2>1. thread' = [t \in Threads |-> IF ProcOf[t] = q THEN Idle ELSE thread[t]]
    BY <1>2 DEF Die
  <2> QED BY <2>1, CalmSame
<1>3. ASSUME NEW a \in Agents, Kill(a) PROVE \A u \in Threads : Calm(u)
  <2>1. thread' = [t \in Threads |-> IF Of(t) = a THEN Idle ELSE thread[t]]
    BY <1>3 DEF Kill
  <2> QED BY <2>1, CalmSame
<1> QED BY <1>1, <1>2, <1>3 DEF evars, Fork, Spawn, HangUp, Take, Answer

\* A thread reads its answer.
LEMMA ReceiveFields ==
    ASSUME ETypeOK, NEW t \in Threads, Receive(t), ans[Of(t)] # <<>>
    PROVE  /\ \A u \in Threads : u # t => thread'[u] = thread[u]
           /\ thread'[t].pc = "unlock" /\ thread'[t].request = thread[t].request
           /\ thread'[t].answer = Head(ans[Of(t)])
<1>1. thread' = [thread EXCEPT ![t] = At("unlock", thread[t].request, Head(ans[Of(t)]))]
  BY DEF Receive
<1> QED BY <1>1 DEF ETypeOK, At

\* Threads ask what they may ask.
LEMMA AskedNext == ASSUME ETypeOK, Asked, [ENext]_evars PROVE Asked'
<1>1. ASSUME \A u \in Threads : Asks(u) PROVE Asked' BY <1>1 DEF Asks, Asked
<1>2. ASSUME \A u \in Threads : Calm(u) PROVE Asked' BY <1>1, <1>2 DEF Calm
<1>3. ASSUME NEW t \in Threads, Send(t), open[Of(t)] PROVE Asked'
  <2>1. thread[t].pc = "locked" /\ Goto(t, "sent") BY <1>3 DEF Send
  <2>2. \A u \in Threads : Asks(u) BY <2>1, GotoKeeps DEF Asks
  <2> QED BY <1>1, <2>2
<1>4. ASSUME NEW t \in Threads, Receive(t), ans[Of(t)] # <<>> PROVE Asked'
  <2>1. thread[t].pc = "sent" BY <1>4 DEF Receive
  <2>2. \A u \in Threads : Asks(u) BY <1>4, <2>1, ReceiveFields DEF Asks
  <2> QED BY <1>1, <2>2
<1>5. ASSUME NEW t \in Threads, ThreadStep(t) PROVE Asked'
  BY <1>2, <1>3, <1>4, <1>5, CalmThread DEF ThreadStep
<1>6. ASSUME NEW t \in Threads, Return(t) \/ \E r \in Requests : Call(t, r) PROVE Asked'
  BY <1>2, <1>6, CalmCall
<1>7. CASE \/ UNCHANGED evars
           \/ \E p, q \in Procs : Fork(p, q)
           \/ \E q \in Procs : Die(q)
           \/ \E a \in Agents : Kill(a) \/ Spawn(a) \/ HangUp(a) \/ Take(a) \/ \E x : Answer(a, x)
  BY <1>2, <1>7, CalmProcesses
<1> QED BY <1>5, <1>6, <1>7 DEF ENext

(***************************************************************************)
(* The answers lead where the request named. The state after a step, with  *)
(* the channels it leaves.                                                 *)
(***************************************************************************)
IssuedAfter(a, i) == i # Denied => i \in DOMAIN chan' /\ chan'[i].from = a
LeadsAfter(i, frame) == i # Denied => chan'[i].to = Target(frame)

UnderwayAfter(a, frame) ==
    /\ req'[a] # <<>> => Head(req'[a]).is = frame
    /\ held'[a] # None => held'[a].is = frame
    /\ ans'[a] # <<>> => LeadsAfter(Head(ans'[a]).is, frame)

\* A channel once issued stays issued.
LEMMA IssuedKept == ASSUME Kept, NEW a, NEW i, Issued(a, i) PROVE IssuedAfter(a, i)
BY DEF Kept, Issued, IssuedAfter

\* And leads to the same agent.
LEMMA LeadsKept ==
    ASSUME Kept, NEW a, NEW i, NEW frame, Issued(a, i), LeadsTo(i, frame)
    PROVE  LeadsAfter(i, frame)
BY DEF Kept, Issued, LeadsTo, LeadsAfter

\* Origins in the next state, in terms of the next channels.
LEMMA OriginsAfter ==
    ASSUME \A a \in Agents : \A k \in DOMAIN ans'[a] : IssuedAfter(a, ans'[a][k].is),
           \A t \in Threads : thread'[t].answer # None => IssuedAfter(Of(t), thread'[t].answer.is)
    PROVE  Origins'
BY DEF Origins, Issued, IssuedAfter, Of

ThreadAfter(t) ==
    ~orphaned'[Of(t)] =>
       /\ thread'[t].pc = "sent" => UnderwayAfter(Of(t), thread'[t].request)
       /\ thread'[t].answer # None => LeadsAfter(thread'[t].answer.is, thread'[t].request)

\* Addressed in the next state, likewise.
LEMMA AddressedAfter == ASSUME \A t \in Threads : ThreadAfter(t) PROVE Addressed'
BY DEF Addressed, ThreadAfter, Underway, UnderwayAfter, LeadsTo, LeadsAfter, Of, Target, ValueOf,
       Lines

\* The first answer in an agent's channel.
LEMMA FirstAnswer ==
    ASSUME ETypeOK, NEW a \in Agents, ans[a] # <<>>
    PROVE  1 \in DOMAIN ans[a] /\ Head(ans[a]) = ans[a][1] /\ Head(ans[a]) \in Tagged(Answers)
<1>1. ans[a] \in Seq(Tagged(Answers)) BY DEF ETypeOK, QueuesTypeOK
<1> QED BY <1>1, TailFacts, SMT

\* What is underway for a request stays so while queues stay or are emptied.
LEMMA UnderwayKept ==
    ASSUME ETypeOK, Origins, Kept, NEW a \in Agents, NEW frame, Underway(a, frame),
           req'[a] = req[a] \/ req'[a] = <<>>, held'[a] = held[a] \/ held'[a] = None,
           ans'[a] = ans[a] \/ ans'[a] = <<>>
    PROVE  UnderwayAfter(a, frame)
<1>1. CASE ans'[a] = <<>> BY <1>1 DEF Underway, UnderwayAfter
<1>2. CASE ans'[a] = ans[a] /\ ans[a] # <<>>
  <2>1. Issued(a, Head(ans[a]).is) BY <1>2, FirstAnswer DEF Origins
  <2>2. LeadsTo(Head(ans[a]).is, frame) BY <1>2 DEF Underway
  <2>3. LeadsAfter(Head(ans[a]).is, frame) BY <2>1, <2>2, LeadsKept
  <2> QED BY <1>2, <2>3 DEF Underway, UnderwayAfter
<1> QED BY <1>1, <1>2

\* An answer a thread has read stays for its request.
LEMMA AnswerKept ==
    ASSUME Origins, Addressed, Kept, NEW t \in Threads, thread[t].answer # None,
           thread'[t].answer = thread[t].answer, thread'[t].request = thread[t].request
    PROVE  /\ IssuedAfter(Of(t), thread'[t].answer.is)
           /\ ~orphaned[Of(t)] => LeadsAfter(thread'[t].answer.is, thread'[t].request)
<1>1. Issued(Of(t), thread[t].answer.is) BY DEF Origins
<1>2. ~orphaned[Of(t)] => LeadsTo(thread[t].answer.is, thread[t].request) BY DEF Addressed
<1>3. IssuedAfter(Of(t), thread[t].answer.is) BY <1>1, IssuedKept
<1>4. ~orphaned[Of(t)] => LeadsAfter(thread[t].answer.is, thread[t].request)
  BY <1>1, <1>2, LeadsKept
<1> QED BY <1>3, <1>4

\* A step that only removes from the channels and takes no thread into an exchange.
LEMMA QuietAddressed ==
    ASSUME ETypeOK, Origins, Addressed, Kept,
           \A t \in Threads : Calm(t),
           \A a \in Agents : req'[a] = req[a] \/ req'[a] = <<>>,
           \A a \in Agents : held'[a] = held[a] \/ held'[a] = None,
           \A a \in Agents : ans'[a] = ans[a] \/ ans'[a] = <<>>,
           \A t \in Threads : ~orphaned'[Of(t)] => ~orphaned[Of(t)] \/ thread'[t] = Idle
    PROVE  Origins' /\ Addressed'
<1>1. \A t \in Threads : thread'[t].answer # None =>
         /\ thread[t].answer # None
         /\ thread'[t].answer = thread[t].answer /\ thread'[t].request = thread[t].request
  BY DEF Calm
<1>2. \A t \in Threads : thread'[t].answer # None => IssuedAfter(Of(t), thread'[t].answer.is)
  BY <1>1, AnswerKept
<1>3. ASSUME NEW a \in Agents, NEW k \in DOMAIN ans'[a] PROVE IssuedAfter(a, ans'[a][k].is)
  <2>1. DOMAIN <<>> = {} BY SMT
  <2>2. ans'[a] = ans[a] /\ k \in DOMAIN ans[a] BY <2>1
  <2>3. Issued(a, ans[a][k].is) BY <2>2 DEF Origins
  <2> QED BY <2>2, <2>3, IssuedKept
<1>4. Origins' BY <1>2, <1>3, OriginsAfter
<1>5. ASSUME NEW t \in Threads PROVE ThreadAfter(t)
  <2>1. CASE thread'[t] = Idle BY <2>1, IdleFields DEF ThreadAfter
  <2>2. CASE ~orphaned[Of(t)]
    <3>1. ASSUME thread'[t].pc = "sent" PROVE UnderwayAfter(Of(t), thread'[t].request)
      <4>1. thread[t].pc = "sent" /\ thread'[t].request = thread[t].request BY <3>1 DEF Calm
      <4>2. Underway(Of(t), thread[t].request) BY <2>2, <4>1 DEF Addressed
      <4> QED BY <4>1, <4>2, OfAgent, UnderwayKept
    <3>2. thread'[t].answer # None => LeadsAfter(thread'[t].answer.is, thread'[t].request)
      BY <1>1, <2>2, AnswerKept
    <3> QED BY <3>1, <3>2 DEF ThreadAfter
  <2> QED BY <2>1, <2>2 DEF ThreadAfter
<1> QED BY <1>4, <1>5, AddressedAfter

\* Steps of a thread that neither send nor read.
LEMMA ThreadAddressed ==
    ASSUME ETypeOK, Origins, Addressed, Kept, NEW t \in Threads,
           \/ Spin(t) \/ Lock(t) \/ LockFails(t) \/ Unlock(t) \/ Release(t) \/ Return(t)
           \/ Send(t) /\ ~open[Of(t)]
           \/ Receive(t) /\ ans[Of(t)] = <<>>
           \/ \E r \in Requests : Call(t, r)
    PROVE  Origins' /\ Addressed'
<1>1. (\A u \in Threads : Calm(u)) /\ UNCHANGED <<req, held, ans, orphaned>>
  BY CalmThread, CalmCall
<1> QED BY <1>1, QuietAddressed

\* Forks, deaths and restarts.
LEMMA ProcessesAddressed ==
    ASSUME AnswerInv, Origins, Addressed, Kept,
           \/ UNCHANGED evars
           \/ \E p, q \in Procs : Fork(p, q)
           \/ \E q \in Procs : Die(q)
           \/ \E a \in Agents : Kill(a) \/ Spawn(a) \/ HangUp(a)
    PROVE  Origins' /\ Addressed'
<1>0. ETypeOK BY DEF AnswerInv, LockInv
<1>1. \A t \in Threads : Calm(t) BY <1>0, CalmProcesses
<1>2. \A a \in Agents : req'[a] = req[a] \/ req'[a] = <<>>
  BY <1>0 DEF evars, Fork, Die, Kill, Spawn, HangUp, Queues, ETypeOK, QueuesTypeOK
<1>3. \A a \in Agents : held'[a] = held[a] \/ held'[a] = None
  BY <1>0 DEF evars, Fork, Die, Kill, Spawn, HangUp, Queues, ETypeOK, QueuesTypeOK
<1>4. \A a \in Agents : ans'[a] = ans[a] \/ ans'[a] = <<>>
  BY <1>0 DEF evars, Fork, Die, Kill, Spawn, HangUp, Queues, ETypeOK, QueuesTypeOK
<1>5. \A t \in Threads : ~orphaned'[Of(t)] => ~orphaned[Of(t)] \/ thread'[t] = Idle
  <2>1. CASE orphaned' = orphaned BY <2>1
  <2>2. ASSUME NEW q \in Procs, Die(q), NEW a \in Agents PROVE ~orphaned'[a] => ~orphaned[a]
    BY <1>0, <2>2 DEF Die, ETypeOK
  <2>3. ASSUME NEW a \in Agents, Spawn(a), NEW t \in Threads
        PROVE  ~orphaned'[Of(t)] => ~orphaned[Of(t)] \/ thread'[t] = Idle
    <3>1. CASE Of(t) = a
      <4>1. ~up[ProcOf[t]]
        BY <2>3, <3>1, ExchangeAssumption DEF ExchangeAssumption, AnswerInv, LockInv, Down, Spawn, Of
      <4> QED BY <2>3, <4>1 DEF AnswerInv, LockInv, Down, Spawn
    <3>2. CASE Of(t) # a BY <1>0, <2>3, <3>2, OfAgent DEF Spawn, ETypeOK
    <3> QED BY <3>1, <3>2
  <2> QED BY <2>1, <2>2, <2>3, OfAgent DEF evars, Fork, Kill, HangUp
<1> QED BY <1>0, <1>1, <1>2, <1>3, <1>4, <1>5, QuietAddressed

\* A thread in an exchange is alone in it, and its agent runs.
LEMMA InsideAlone ==
    ASSUME AnswerInv, NEW t \in Threads, thread[t].pc \in {"locked", "sent"}
    PROVE  /\ up[Leader[Of(t)]]
           /\ \A u \in Threads : Waits(Of(t), u) => u = t
           /\ ~orphaned[Of(t)] => ChannelOK(Of(t))
<1>0. LockInv /\ Of(t) \in Agents BY OfAgent DEF AnswerInv
<1>1. thread[t] # Idle BY IdleFields
<1>2. up[ProcOf[t]] BY <1>0, <1>1 DEF LockInv, Down
<1>3. up[Leader[Of(t)]]
  BY <1>0, <1>2, ExchangeAssumption DEF ExchangeAssumption, LockInv, Down, Of
<1>4. \A u \in Threads : Waits(Of(t), u) => u = t BY <1>0, OnlyWaiter DEF Inside
<1>5. ~orphaned[Of(t)] => ChannelOK(Of(t)) BY <1>0, <1>3 DEF AnswerInv, ChannelInv
<1> QED BY <1>3, <1>4, <1>5

\* The request or the answer a waiting thread's channel holds.
LEMMA WaiterPending ==
    ASSUME AnswerInv, NEW t \in Threads, thread[t].pc = "sent", ~orphaned[Of(t)]
    PROVE  /\ up[Leader[Of(t)]] /\ Pending(Of(t), t)
           /\ req[Of(t)] # <<>> => Len(req[Of(t)]) = 1 /\ ans[Of(t)] = <<>>
           /\ held[Of(t)] # None => ans[Of(t)] = <<>>
<1>1. up[Leader[Of(t)]] /\ ChannelOK(Of(t)) BY InsideAlone
<1>2. Waits(Of(t), t) BY DEF Waits
<1>3. Pending(Of(t), t) BY <1>1, <1>2 DEF ChannelOK
<1> QED BY <1>1, <1>3 DEF Pending, Empty

\* The other threads of a step that changes one thread and one agent's channel.
LEMMA OthersAddressed ==
    ASSUME ETypeOK, Origins, Addressed, Kept, NEW t \in Threads, thread'[t] = thread[t],
           req'[Of(t)] = req[Of(t)], held'[Of(t)] = held[Of(t)], ans'[Of(t)] = ans[Of(t)],
           orphaned' = orphaned
    PROVE  ThreadAfter(t)
<1>1. CASE orphaned[Of(t)] BY <1>1 DEF ThreadAfter
<1>2. CASE ~orphaned[Of(t)]
  <2>1. ASSUME thread[t].pc = "sent" PROVE UnderwayAfter(Of(t), thread[t].request)
    <3>1. Underway(Of(t), thread[t].request) BY <1>2, <2>1 DEF Addressed
    <3> QED BY <3>1, OfAgent, UnderwayKept
  <2>2. thread'[t].answer # None => LeadsAfter(thread'[t].answer.is, thread'[t].request)
    BY <1>2, AnswerKept
  <2> QED BY <2>1, <2>2 DEF ThreadAfter
<1> QED BY <1>1, <1>2

\* The same for a thread of the agent that is in no exchange.
LEMMA OutsideAddressed ==
    ASSUME Origins, Addressed, Kept, NEW t \in Threads, thread[t].pc # "sent",
           thread'[t] = thread[t], orphaned' = orphaned
    PROVE  ThreadAfter(t)
<1>1. thread'[t].pc # "sent" OBVIOUS
<1>2. ~orphaned[Of(t)] /\ thread'[t].answer # None
         => LeadsAfter(thread'[t].answer.is, thread'[t].request)
  BY AnswerKept
<1> QED BY <1>1, <1>2 DEF ThreadAfter

\* Answers that stay are still issued to their agent.
LEMMA OriginsSame ==
    ASSUME Origins, Addressed, Kept, UNCHANGED ans,
           \A t \in Threads : /\ thread'[t].answer = thread[t].answer
                              /\ thread'[t].request = thread[t].request
    PROVE  Origins'
<1>1. ASSUME NEW a \in Agents, NEW k \in DOMAIN ans'[a] PROVE IssuedAfter(a, ans'[a][k].is)
  <2>1. Issued(a, ans[a][k].is) BY DEF Origins
  <2> QED BY <2>1, IssuedKept
<1>2. ASSUME NEW t \in Threads, thread'[t].answer # None
      PROVE  IssuedAfter(Of(t), thread'[t].answer.is)
  BY <1>2, AnswerKept
<1> QED BY <1>1, <1>2, OriginsAfter

\* A request is sent into an empty channel.
LEMMA SendAddressed ==
    ASSUME AnswerInv, Origins, Addressed, Kept, NEW t \in Threads, Send(t), open[Of(t)]
    PROVE  Origins' /\ Addressed'
<1> DEFINE a == Of(t)
           e == [by |-> t, is |-> thread[t].request]
<1>0. ETypeOK /\ LockInv /\ a \in Agents BY OfAgent DEF AnswerInv, LockInv
<1>1. /\ thread[t].pc = "locked" /\ Goto(t, "sent")
      /\ req' = [req EXCEPT ![a] = Append(req[a], e)]
      /\ UNCHANGED <<held, ans, orphaned>>
  BY DEF Send
<1>2. /\ \A u \in Threads : u # t => thread'[u] = thread[u]
      /\ thread'[t].pc = "sent" /\ thread'[t].request = thread[t].request
      /\ thread'[t].answer = thread[t].answer
  BY <1>0, <1>1, GotoKeeps
<1>3. Origins' BY <1>1, <1>2, OriginsSame
<1>4. req'[a] = Append(req[a], e) /\ \A b \in Agents : b # a => req'[b] = req[b]
  BY <1>0, <1>1 DEF ETypeOK, QueuesTypeOK
<1>5. \A u \in Threads : ~Waits(a, u) BY <1>1, InsideAlone DEF Waits
<1>6. ThreadAfter(t)
  <2>1. ASSUME ~orphaned[a] PROVE UnderwayAfter(a, thread[t].request)
    <3>1. Empty(a) BY <1>1, <1>5, <2>1, InsideAlone DEF ChannelOK
    <3>2. Head(Append(<<>>, e)) = e BY SMT
    <3>3. Head(req'[a]) = e BY <1>4, <3>1, <3>2 DEF Empty
    <3>4. e.is = thread[t].request OBVIOUS
    <3> QED BY <1>1, <3>1, <3>3, <3>4 DEF Empty, UnderwayAfter
  <2>2. ~orphaned[a] /\ thread'[t].answer # None
           => LeadsAfter(thread'[t].answer.is, thread'[t].request)
    BY <1>2, AnswerKept
  <2> QED BY <1>1, <1>2, <2>1, <2>2 DEF ThreadAfter
<1>7. ASSUME NEW u \in Threads, u # t PROVE ThreadAfter(u)
  <2>1. thread'[u] = thread[u] BY <1>2, <1>7
  <2>2. CASE Of(u) = a
    <3>1. thread[u].pc # "sent" BY <1>5, <2>2 DEF Waits
    <3> QED BY <1>1, <2>1, <3>1, OutsideAddressed
  <2>3. CASE Of(u) # a
    <3>1. req'[Of(u)] = req[Of(u)] BY <1>4, <2>3, OfAgent
    <3> QED BY <1>0, <1>1, <2>1, <3>1, OthersAddressed
  <2> QED BY <2>2, <2>3
<1> QED BY <1>3, <1>6, <1>7, AddressedAfter

\* The answer that is read is the one to this thread's request.
LEMMA ReceiveAddressed ==
    ASSUME AnswerInv, Origins, Addressed, Kept, NEW t \in Threads, Receive(t), ans[Of(t)] # <<>>
    PROVE  Origins' /\ Addressed'
<1> DEFINE a == Of(t)
           x == Head(ans[a]).is
<1>0. ETypeOK /\ LockInv /\ a \in Agents BY OfAgent DEF AnswerInv, LockInv
<1>1. thread[t].pc = "sent" /\ UNCHANGED <<req, held, orphaned>> BY DEF Receive
<1>2. /\ \A u \in Threads : u # t => thread'[u] = thread[u]
      /\ thread'[t].pc = "unlock" /\ thread'[t].request = thread[t].request
      /\ thread'[t].answer = Head(ans[a])
  BY <1>0, ReceiveFields
<1>3. ans'[a] = Tail(ans[a]) /\ \A b \in Agents : b # a => ans'[b] = ans[b]
  BY <1>0 DEF Receive, ETypeOK, QueuesTypeOK
<1>4. Issued(a, x) BY <1>0, FirstAnswer DEF Origins
<1>5. ASSUME NEW b \in Agents, NEW k \in DOMAIN ans'[b] PROVE IssuedAfter(b, ans'[b][k].is)
  <2>1. PICK j \in DOMAIN ans[b] : ans'[b][k] = ans[b][j]
    <3>1. CASE b = a
      <4>1. ans[a] \in Seq(Tagged(Answers)) BY <1>0 DEF ETypeOK, QueuesTypeOK
      <4>2. \A i \in DOMAIN Tail(ans[a]) : i + 1 \in DOMAIN ans[a] /\ Tail(ans[a])[i] = ans[a][i + 1]
        BY <4>1, TailFacts, SMT
      <4> QED BY <1>3, <3>1, <4>2
    <3>2. CASE b # a BY <1>3, <3>2
    <3> QED BY <3>1, <3>2
  <2>2. Issued(b, ans[b][j].is) BY DEF Origins
  <2> QED BY <2>1, <2>2, IssuedKept
<1>6. ASSUME NEW u \in Threads, thread'[u].answer # None
      PROVE  IssuedAfter(Of(u), thread'[u].answer.is)
  <2>1. CASE u = t BY <1>2, <1>4, <2>1, IssuedKept
  <2>2. CASE u # t BY <1>2, <1>6, <2>2, AnswerKept
  <2> QED BY <2>1, <2>2
<1>7. Origins' BY <1>5, <1>6, OriginsAfter
<1>8. ThreadAfter(t)
  <2>1. ASSUME ~orphaned[a] PROVE LeadsAfter(x, thread[t].request)
    <3>1. Underway(a, thread[t].request) BY <1>1, <2>1 DEF Addressed
    <3>2. LeadsTo(x, thread[t].request) BY <3>1 DEF Underway
    <3> QED BY <1>4, <3>2, LeadsKept
  <2> QED BY <1>1, <1>2, <2>1 DEF ThreadAfter
<1>9. ASSUME NEW u \in Threads, u # t PROVE ThreadAfter(u)
  <2>1. thread'[u] = thread[u] BY <1>2, <1>9
  <2>2. CASE Of(u) = a
    <3>1. thread[u].pc # "sent" BY <1>1, <1>9, <2>2, InsideAlone DEF Waits
    <3> QED BY <1>1, <2>1, <3>1, OutsideAddressed
  <2>3. CASE Of(u) # a
    <3>1. ans'[Of(u)] = ans[Of(u)] BY <1>3, <2>3, OfAgent
    <3> QED BY <1>0, <1>1, <2>1, <3>1, OthersAddressed
  <2> QED BY <2>2, <2>3
<1> QED BY <1>7, <1>8, <1>9, AddressedAfter

\* agentd takes the request.
LEMMA TakeAddressed ==
    ASSUME AnswerInv, Origins, Addressed, Kept, NEW a \in Agents, Take(a)
    PROVE  Origins' /\ Addressed'
<1>0. ETypeOK BY DEF AnswerInv, LockInv
<1>1. UNCHANGED <<thread, ans, orphaned>> /\ req[a] # <<>> BY DEF Take
<1>2. Origins' BY <1>1, OriginsSame
<1>3. /\ held'[a] = Head(req[a]) /\ req'[a] = Tail(req[a])
      /\ \A b \in Agents : b # a => held'[b] = held[b] /\ req'[b] = req[b]
  BY <1>0 DEF Take, ETypeOK, QueuesTypeOK
<1>4. ASSUME NEW t \in Threads PROVE ThreadAfter(t)
  <2>1. CASE Of(t) # a
    <3>1. req'[Of(t)] = req[Of(t)] /\ held'[Of(t)] = held[Of(t)] BY <1>3, <2>1, OfAgent
    <3> QED BY <1>0, <1>1, <3>1, OthersAddressed
  <2>2. CASE thread[t].pc # "sent" BY <1>1, <2>2, OutsideAddressed
  <2>3. CASE orphaned[Of(t)] BY <1>1, <2>3 DEF ThreadAfter
  <2>4. CASE Of(t) = a /\ thread[t].pc = "sent" /\ ~orphaned[a]
    <3>1. Len(req[a]) = 1 /\ ans[a] = <<>> BY <1>1, <2>4, WaiterPending
    <3>2. req[a] \in Seq(Tagged(Requests \cup {None})) BY <1>0 DEF ETypeOK, QueuesTypeOK
    <3>3. Tail(req[a]) = <<>> BY <3>1, <3>2, SingleFacts
    <3>4. Underway(a, thread[t].request) BY <2>4 DEF Addressed
    <3>5. held'[a].is = thread[t].request BY <1>1, <1>3, <3>4 DEF Underway
    <3>6. UnderwayAfter(a, thread[t].request) BY <1>1, <1>3, <3>1, <3>3, <3>5 DEF UnderwayAfter
    <3>7. thread'[t].answer # None => LeadsAfter(thread'[t].answer.is, thread'[t].request)
      BY <1>1, <2>4, AnswerKept
    <3> QED BY <1>1, <2>4, <3>6, <3>7 DEF ThreadAfter
  <2> QED BY <2>1, <2>2, <2>3, <2>4
<1> QED BY <1>2, <1>4, AddressedAfter

\* agentd answers the request it has in hand.
LEMMA AnswerAddressed ==
    ASSUME AnswerInv, Origins, Addressed, Kept, NEW a \in Agents, NEW x \in Answers, Answer(a, x),
           IssuedAfter(a, x), LeadsAfter(x, held[a].is)
    PROVE  Origins' /\ Addressed'
<1> DEFINE e == [by |-> held[a].by, is |-> x]
           S == Tagged(Answers)
<1>0. ETypeOK BY DEF AnswerInv, LockInv
<1>1. UNCHANGED <<thread, req, orphaned>> /\ held[a] # None BY DEF Answer
<1>2. /\ held'[a] = None /\ (ans'[a] = IF up[Leader[a]] THEN Append(ans[a], e) ELSE ans[a])
      /\ \A b \in Agents : b # a => held'[b] = held[b] /\ ans'[b] = ans[b]
  BY <1>0 DEF Answer, ETypeOK, QueuesTypeOK
<1>3. ans[a] \in Seq(S) /\ e \in S /\ e.is = x
  <2>1. held[a] \in Tagged(Requests \cup {None}) BY <1>0, <1>1 DEF ETypeOK, QueuesTypeOK
  <2> QED BY <1>0, <2>1 DEF Tagged, ETypeOK, QueuesTypeOK
<1>4. ASSUME NEW b \in Agents, NEW k \in DOMAIN ans'[b] PROVE IssuedAfter(b, ans'[b][k].is)
  <2>1. ASSUME k \in DOMAIN ans[b], ans'[b][k] = ans[b][k] PROVE IssuedAfter(b, ans'[b][k].is)
    <3>1. Issued(b, ans[b][k].is) BY <2>1 DEF Origins
    <3> QED BY <2>1, <3>1, IssuedKept
  <2>2. CASE ans'[b] = ans[b] BY <2>1, <2>2
  <2>3. CASE b = a /\ ans'[a] = Append(ans[a], e)
    <3> HIDE DEF e, S
    <3>1. \/ k \in DOMAIN ans[a] /\ Append(ans[a], e)[k] = ans[a][k]
          \/ Append(ans[a], e)[k] = e
      BY <1>3, <2>3, SMT
    <3> QED BY <1>3, <2>1, <2>3, <3>1
  <2> QED BY <1>2, <2>2, <2>3
<1>5. ASSUME NEW t \in Threads, thread'[t].answer # None
      PROVE  IssuedAfter(Of(t), thread'[t].answer.is)
  BY <1>1, <1>5, AnswerKept
<1>6. Origins' BY <1>4, <1>5, OriginsAfter
<1>7. ASSUME NEW t \in Threads PROVE ThreadAfter(t)
  <2>1. CASE Of(t) # a
    <3>1. held'[Of(t)] = held[Of(t)] /\ ans'[Of(t)] = ans[Of(t)] BY <1>2, <2>1, OfAgent
    <3> QED BY <1>0, <1>1, <3>1, OthersAddressed
  <2>2. CASE thread[t].pc # "sent" BY <1>1, <2>2, OutsideAddressed
  <2>3. CASE orphaned[Of(t)] BY <1>1, <2>3 DEF ThreadAfter
  <2>4. CASE Of(t) = a /\ thread[t].pc = "sent" /\ ~orphaned[a]
    <3>1. up[Leader[a]] /\ ans[a] = <<>> BY <1>1, <2>4, WaiterPending
    <3>2. Head(Append(<<>>, e)) = e BY SMT
    <3>3. Head(ans'[a]) = e BY <1>2, <3>1, <3>2
    <3>4. Underway(a, thread[t].request) BY <2>4 DEF Addressed
    <3>5. held[a].is = thread[t].request BY <1>1, <3>4 DEF Underway
    <3>6. LeadsAfter(Head(ans'[a]).is, thread[t].request) BY <1>3, <3>3, <3>5
    <3>7. UnderwayAfter(a, thread[t].request) BY <1>1, <1>2, <3>4, <3>6 DEF Underway, UnderwayAfter
    <3>8. thread'[t].answer # None => LeadsAfter(thread'[t].answer.is, thread'[t].request)
      BY <1>1, <2>4, AnswerKept
    <3> QED BY <1>1, <2>4, <3>7, <3>8 DEF ThreadAfter
  <2> QED BY <2>1, <2>2, <2>3, <2>4
<1> QED BY <1>6, <1>7, AddressedAfter

(***************************************************************************)
(* The invariant, and what follows from it.                                *)
(***************************************************************************)
Inv == BrokerInv /\ AnswerInv

\* The conjuncts the proofs work with.
LEMMA InvParts ==
    Inv <=> /\ LoopOK /\ Limits /\ SlotsOK /\ Counted /\ Origins /\ Addressed /\ Asked
            /\ AnswerInv
BY DEF Inv, BrokerInv, TypeOK, LoopOK, Limits, SlotsOK, ChanOK, AnswerInv, LockInv

\* The same for the next state.
LEMMA InvPartsNext ==
    ASSUME LoopOK', Limits', SlotsOK', Counted', Origins', Addressed', Asked', AnswerInv'
    PROVE  Inv'
BY DEF Inv, BrokerInv, TypeOK, LoopOK, Limits, SlotsOK, ChanOK, AnswerInv, LockInv

\* They hold at first.
LEMMA InvInit == Init => Inv
<1> SUFFICES ASSUME Init PROVE Inv OBVIOUS
<1>0. EInit BY DEF Init
<1>1. AnswerInv BY <1>0, AnswerInvInit
<1>2. loop = [pc |-> "poll", fired |-> {}, command |-> NoCommand, at |-> None, to |-> None]
  BY DEF Init, EventsLeft, AtLoop
<1>3. LoopOK
  <2>1. NoCommand \in Commands BY DEF NoCommand, Commands
  <2>2. loop \in LoopState BY <1>2, <2>1, SMT DEF LoopState
  <2>3. loop.pc = "poll" BY <1>2
  <2> QED BY <2>2, <2>3 DEF LoopOK, LoopInv
<1>4. Limits
  <2>1. \A S : <<>> \in Seq(S) BY SMT
  <2>2. Len(<<>>) <= 0 /\ 0 \in 0 .. MaxCalls /\ 0 \in 0 .. MaxFaults
    BY BrokerAssumption, SMT DEF BrokerAssumption
  <2> QED BY <2>1, <2>2 DEF Init, Limits, ChanOK
<1>5. SlotsOK
  <2>1. \A S : <<>> \in Seq(S) BY SMT
  <2>2. Len(<<>>) <= INBOX_CAP BY BrokerAssumption, SMT DEF BrokerAssumption
  <2> QED BY <2>1, <2>2 DEF Init, SlotsOK
<1>6. \A t \in Threads : thread[t] = Idle BY <1>0 DEF EInit
<1>7. DOMAIN <<>> = {} BY SMT
<1>8. Counted
  <2>1. Calling = {}
    <3>1. Idle.pc \notin {"spin", "wait", "locked"} BY IdleFields
    <3> QED BY <1>6, <3>1 DEF Calling
  <2>2. \A a \in Agents : DOMAIN req[a] = {} BY <1>0, <1>7 DEF EInit
  <2>3. Queued = {} BY <2>2, QueuedMember
  <2>4. Taken = {} BY <1>0 DEF EInit, Taken
  <2>5. loop.pc = "poll" BY <1>2
  <2>6. Command = {} BY <2>5 DEF Command
  <2>7. InProgress = {} BY <2>1, <2>3, <2>4, <2>6 DEF InProgress
  <2>8. ASSUME NEW k, NEW m PROVE Numbered({}, k, m)
    <3>1. [x \in {} |-> 0] \in [{} -> k + 1 .. m] OBVIOUS
    <3> QED BY <3>1 DEF Numbered
  <2> QED BY <2>7, <2>8 DEF Counted
<1>9. Origins /\ Addressed /\ Asked
  <2>1. \A a \in Agents : DOMAIN ans[a] = {} BY <1>0, <1>7 DEF EInit
  <2> QED BY <1>6, <2>1, IdleFields DEF Origins, Addressed, Asked
<1> QED BY <1>1, <1>3, <1>4, <1>5, <1>8, <1>9, InvParts

\* No step changes the ends of a channel.
LEMMA KeptNext == ASSUME Inv, [Next]_vars PROVE Kept
<1>0. ChanOK /\ Asked /\ LoopInv BY InvParts DEF Limits, LoopOK
<1>1. CASE UNCHANGED chan BY <1>0, <1>1, ChanSame
<1>2. CASE Issue
  <2>1. ASSUME NEW m \in {None, loop.to},
               chan' = Append(chan, [from |-> loop.at, to |-> loop.to, msg |-> m,
                                     gone |-> FALSE])
        PROVE  Kept
    <3>1. [from |-> loop.at, to |-> loop.to, msg |-> m, gone |-> FALSE] \in Channel
      BY <1>0, <1>2, IssueCases, ChannelNew
    <3> QED BY <1>0, <2>1, <3>1, ChanGrows
  <2> QED BY <1>0, <1>1, <1>2, <2>1, IssueCases
<1>3. ASSUME NEW t \in Threads, Client(t) \/ Connect(t) PROVE Kept
  BY <1>0, <1>1, <1>3, ChanUse DEF Client, Connect, bvars
<1>4. ASSUME NEW a \in Agents, Accept(a) \/ Read(a) \/ ReadTimeout(a) \/ Crash(a) PROVE Kept
  BY <1>0, <1>1, <1>4, ChanRead DEF Accept, Crash
<1>5. CASE ForkOrDie BY <1>1, <1>5 DEF ForkOrDie
<1>6. CASE UNCHANGED vars BY <1>1, <1>6 DEF vars, bvars
<1>7. CASE Poll \/ Reap \/ Serve \/ Stop \/ Start \/ Events \/ RecvZero \/ Recv \/ Decide
  BY <1>1, <1>7 DEF Poll, Reap, Serve, Stop, Start, Events, RecvZero, Recv, Decide
<1> QED BY <1>2, <1>3, <1>4, <1>5, <1>6, <1>7 DEF Next, Agentd

\* The answer Issue gives leads to the target of the request in hand.
LEMMA IssueAddressed == ASSUME Inv, Issue, Kept PROVE Origins' /\ Addressed'
<1>0. /\ AnswerInv /\ Origins /\ Addressed /\ Limits /\ LoopOK /\ Counted /\ ETypeOK
      /\ ChanOK /\ LoopInv
  BY InvParts DEF Limits, LoopOK, AnswerInv, LockInv
<1>1. CASE UNCHANGED evars BY <1>0, <1>1, ProcessesAddressed
<1>2. CASE loop.at # Operator /\ Answer(loop.at, Denied)
  <2>1. loop.at \in Agents BY <1>0, <1>2, IssueCases
  <2>2. IssuedAfter(loop.at, Denied) /\ LeadsAfter(Denied, held[loop.at].is)
    BY DEF IssuedAfter, LeadsAfter
  <2> QED BY <1>0, <1>2, <2>1, <2>2, DeniedAnswers, AnswerAddressed
<1>3. ASSUME loop.at # Operator, Answer(loop.at, Len(chan) + 1), NEW m \in {None, loop.to},
             chan' = Append(chan, [from |-> loop.at, to |-> loop.to, msg |-> m, gone |-> FALSE])
      PROVE  Origins' /\ Addressed'
  <2> DEFINE e == [from |-> loop.at, to |-> loop.to, msg |-> m, gone |-> FALSE]
             x == Len(chan) + 1
  <2>1. loop.at \in Agents /\ loop.pc = "issue" BY <1>0, <1>3, IssueCases
  <2>2. e \in Channel BY <1>0, IssueCases, ChannelNew
  <2>3. x \in DOMAIN chan' /\ chan'[x] = e BY <1>0, <1>3, <2>2, ChanGrows
  <2>4. e.from = loop.at /\ e.to = loop.to OBVIOUS
  <2>5. loop.to = Target(held[loop.at].is) BY <1>0, <1>3, <2>1 DEF LoopInv
  <2>6. IssuedAfter(loop.at, x) BY <2>3, <2>4 DEF IssuedAfter
  <2>7. LeadsAfter(x, held[loop.at].is) BY <2>3, <2>4, <2>5 DEF LeadsAfter
  <2>8. x \in Answers BY <1>0, IssueNumber, NumberAnswers
  <2> HIDE DEF x, e
  <2>9. Answer(loop.at, x) BY <1>3 DEF x
  <2> QED BY <1>0, <2>1, <2>6, <2>7, <2>8, <2>9, AnswerAddressed
<1> QED BY <1>0, <1>1, <1>2, <1>3, IssueCases

\* Every answer stays on the way to the request it is for.
LEMMA AddressedNext == ASSUME Inv, [Next]_vars PROVE Origins' /\ Addressed'
<1>0. /\ AnswerInv /\ Origins /\ Addressed /\ LoopOK /\ LoopInv /\ ETypeOK /\ Kept
  BY InvParts, KeptNext DEF LoopOK, AnswerInv, LockInv
<1>1. CASE UNCHANGED evars BY <1>0, <1>1, ProcessesAddressed
<1>2. ASSUME NEW a \in Agents, Kill(a) \/ Spawn(a) \/ HangUp(a) PROVE Origins' /\ Addressed'
  BY <1>0, <1>2, ProcessesAddressed
<1>3. CASE Poll \/ Serve \/ Events \/ RecvZero
  BY <1>1, <1>3 DEF Poll, Serve, Events, RecvZero
<1>4. CASE Reap BY <1>1, <1>2, <1>4 DEF Reap, Clear
<1>5. CASE Stop \/ Start
  <2>1. loop.at \in Agents BY <1>0, <1>5 DEF LoopInv, Stop, Start
  <2> QED BY <1>1, <1>2, <1>5, <2>1 DEF Stop, Start, Clear
<1>6. CASE Recv
  <2>1. loop.at \in Agents BY <1>0, <1>6 DEF LoopInv, Recv
  <2> QED BY <1>0, <1>2, <1>6, <2>1, TakeAddressed DEF Recv
<1>7. CASE Decide
  <2>1. loop.at \in Agents BY <1>0, <1>7, DecideCases
  <2>2. CASE Answer(loop.at, Denied)
    <3>1. IssuedAfter(loop.at, Denied) /\ LeadsAfter(Denied, held[loop.at].is)
      BY DEF IssuedAfter, LeadsAfter
    <3> QED BY <1>0, <2>1, <2>2, <3>1, DeniedAnswers, AnswerAddressed
  <2> QED BY <1>0, <1>1, <1>2, <1>7, <2>1, <2>2, DecideCases
<1>8. ASSUME NEW t \in Threads, Client(t) \/ Connect(t) PROVE Origins' /\ Addressed'
  <2>1. CASE ThreadStep(t)
    BY <1>0, <2>1, ThreadAddressed, SendAddressed, ReceiveAddressed DEF ThreadStep
  <2>2. CASE Return(t) BY <1>0, <2>2, ThreadAddressed
  <2>3. CASE \E r \in Requests : Call(t, r) BY <1>0, <2>3, ThreadAddressed
  <2> QED BY <1>8, <2>1, <2>2, <2>3, BrokerAssumption
      DEF BrokerAssumption, Client, Connect, UseChannel
<1>9. ASSUME NEW a \in Agents, Accept(a) \/ Read(a) \/ ReadTimeout(a) \/ Crash(a)
      PROVE  Origins' /\ Addressed'
  BY <1>1, <1>2, <1>9 DEF Accept, Read, ReadTimeout, Crash
<1>10. CASE ForkOrDie BY <1>0, <1>10, ProcessesAddressed DEF ForkOrDie
<1>11. CASE UNCHANGED vars BY <1>1, <1>11 DEF vars
<1> QED BY <1>0, <1>3, <1>4, <1>5, <1>6, <1>7, <1>8, <1>9, <1>10, <1>11, IssueAddressed
    DEF Next, Agentd

\* Every step is a step of Exchange.
LEMMA InvImplements == ASSUME Inv, [Next]_vars PROVE [ENext]_evars
<1>1. LoopInv /\ (Issue => NextNumber)
  BY InvParts, IssueNumber DEF LoopOK, AnswerInv, LockInv
<1> QED BY <1>1, StepImplements

\* The invariant is inductive.
LEMMA InvNext == Inv /\ [Next]_vars => Inv'
<1> SUFFICES ASSUME Inv, [Next]_vars PROVE Inv' OBVIOUS
<1>0. /\ LoopOK /\ Limits /\ SlotsOK /\ Counted /\ Origins /\ Addressed /\ Asked
      /\ AnswerInv /\ ETypeOK
  BY InvParts DEF AnswerInv, LockInv
<1>1. [ENext]_evars BY InvImplements
<1>2. AnswerInv' BY <1>0, <1>1, AnswerInvNext
<1>3. LoopOK' BY <1>0, LoopNext
<1>4. Limits' BY <1>0, LimitsNext
<1>5. SlotsOK' BY <1>0, SlotsNext
<1>6. Counted' BY <1>0, CountedNext
<1>7. Origins' /\ Addressed' BY AddressedNext
<1>8. Asked' BY <1>0, <1>1, AskedNext
<1> QED BY <1>2, <1>3, <1>4, <1>5, <1>6, <1>7, <1>8, InvPartsNext

\* agentd's place in its loop, the calls it has yet to serve, the channels it has
\* issued and the answers on their way agree at all times.
THEOREM BrokerInvAlways == Spec => []BrokerInv
<1>1. Inv => BrokerInv BY DEF Inv
<1> QED BY <1>1, InvInit, InvNext, PTL DEF Spec

\* Whatever the agents ask for and however they die: agentd's tables, the inboxes
\* and the channels stay well formed, no inbox holds more than the kernel queues,
\* and agentd never issues more channels than it was asked for.
THEOREM BrokerTypeOK == Spec => []TypeOK
<1>1. BrokerInv => TypeOK BY DEF BrokerInv
<1> QED BY <1>1, BrokerInvAlways, PTL

\* agentd as it runs, its poll loop with the events it took before the commands,
\* its commands and its blocking handlers, keeps to what the clients of Exchange
\* rely on: it answers the request it took, once, or hangs up.
THEOREM BrokerImplementsExchange == Spec => ClientView
<1>1. Inv /\ [Next]_vars => [ENext]_evars BY InvImplements
<1>2. Init => EInit BY DEF Init
<1> QED BY <1>1, <1>2, InvInit, InvNext, PTL DEF Spec, ClientView, ESpec

\* So no two threads of an agent are in an exchange with the agentd that runs at
\* a time.
THEOREM BrokerExchangesExclude == Spec => []ExchangeExclusive
BY BrokerImplementsExchange, ExchangesExclude, PTL DEF ClientView

\* And every answer this agentd gives is read by the thread that asked for it,
\* until a process dies in an exchange.
THEOREM BrokerAnswersAreOwn == Spec => []OwnAnswer
BY BrokerImplementsExchange, AnswersAreOwn, PTL DEF ClientView

Reaches(i) == chan'[i].msg # chan[i].msg => chan'[i].msg = chan[i].to \/ orphaned[chan[i].from]

\* The channel a thread uses leads to the agent it asked for.
LEMMA ReachesUse ==
    ASSUME Inv, NEW t \in Threads, UseChannel(t), NEW i \in DOMAIN chan PROVE Reaches(i)
<1>0. ChanOK /\ Asked /\ Origins /\ Addressed BY InvParts DEF Limits
<1>1. CASE UNCHANGED chan BY <1>1 DEF Reaches
<1>2. CASE ~UNCHANGED chan
  <2> DEFINE j == thread[t].answer.is
             m == Target(thread[t].request)
             e == [chan[j] EXCEPT !.msg = m]
  <2>1. thread[t].answer # None /\ j # Denied /\ m \in Targets /\ chan' = [chan EXCEPT ![j] = e]
    BY <1>0, <1>2, UseChannelCases
  <2>2. j \in DOMAIN chan /\ chan[j].from = Of(t) BY <1>0, <2>1 DEF Origins, Issued
  <2>3. orphaned[Of(t)] \/ chan[j].to = m BY <1>0, <2>1 DEF Addressed, LeadsTo
  <2>4. e.msg = m BY <1>0, <2>1, <2>2, ElementOK, ChannelFields
  <2> HIDE DEF j, m, e
  <2>5. chan'[i] = IF i = j THEN e ELSE chan[i] BY <2>1
  <2> QED BY <2>2, <2>3, <2>4, <2>5 DEF Reaches
<1> QED BY <1>1, <1>2

\* No other step puts a message into a channel.
LEMMA ReachesNext == ASSUME Inv, [Next]_vars, NEW i \in DOMAIN chan PROVE Reaches(i)
<1>0. ChanOK /\ LoopInv BY InvParts DEF Limits, LoopOK
<1>1. CASE UNCHANGED chan BY <1>1 DEF Reaches
<1>2. CASE Issue
  <2>1. ASSUME NEW m \in {None, loop.to},
               chan' = Append(chan, [from |-> loop.at, to |-> loop.to, msg |-> m,
                                     gone |-> FALSE])
        PROVE  Reaches(i)
    <3>1. [from |-> loop.at, to |-> loop.to, msg |-> m, gone |-> FALSE] \in Channel
      BY <1>0, <1>2, IssueCases, ChannelNew
    <3>2. chan'[i] = chan[i]
      <4> DEFINE e == [from |-> loop.at, to |-> loop.to, msg |-> m, gone |-> FALSE]
      <4>1. chan \in Seq(Channel) /\ e \in Channel BY <1>0, <3>1 DEF ChanOK
      <4>2. chan' = Append(chan, e) BY <2>1
      <4> HIDE DEF e
      <4> QED BY <4>1, <4>2, AppendFacts, SMT
    <3> QED BY <3>2 DEF Reaches
  <2> QED BY <1>0, <1>1, <1>2, <2>1, IssueCases
<1>3. ASSUME NEW t \in Threads, Client(t) \/ Connect(t) PROVE Reaches(i)
  BY <1>1, <1>3, ReachesUse DEF Client, Connect, bvars
<1>4. ASSUME NEW a \in Agents, Read(a) \/ ReadTimeout(a) PROVE Reaches(i)
  <2> DEFINE j == reader[a]
             e == [chan[j] EXCEPT !.gone = TRUE]
  <2>1. chan' = [chan EXCEPT ![j] = e] BY <1>4 DEF Read, ReadTimeout
  <2>2. j \in DOMAIN chan => e.msg = chan[j].msg BY <1>0, ElementOK, ChannelFields
  <2> HIDE DEF j, e
  <2>3. chan'[i] = IF i = j THEN e ELSE chan[i] BY <2>1
  <2> QED BY <2>2, <2>3 DEF Reaches
<1>5. ASSUME NEW a \in Agents, Accept(a) \/ Crash(a) PROVE Reaches(i)
  BY <1>1, <1>5 DEF Accept, Crash
<1>6. CASE ForkOrDie BY <1>1, <1>6 DEF ForkOrDie
<1>7. CASE UNCHANGED vars BY <1>1, <1>7 DEF vars, bvars
<1>8. CASE Poll \/ Reap \/ Serve \/ Stop \/ Start \/ Events \/ RecvZero \/ Recv \/ Decide
  BY <1>1, <1>8 DEF Poll, Reap, Serve, Stop, Start, Events, RecvZero, Recv, Decide
<1> QED BY <1>2, <1>3, <1>4, <1>5, <1>6, <1>7, <1>8 DEF Next, Agentd

\* A message an agent sends on the channel it got from ipc_connect(target) goes to
\* the end agentd gave to target, whatever restarts, denials and late answers come
\* in between, until a process of the agent dies in an exchange.
THEOREM ReachesAddresseeAlways == Spec => ReachesAddressee
<1>1. Inv /\ [Next]_vars =>
        [\A i \in DOMAIN chan :
           chan'[i].msg # chan[i].msg =>
              chan'[i].msg = chan[i].to \/ orphaned[chan[i].from]]_vars
  BY ReachesNext DEF Reaches
<1> QED BY <1>1, InvInit, InvNext, PTL DEF Spec, ReachesAddressee
=============================================================================
