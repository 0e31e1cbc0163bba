----------------------------- MODULE Delegation -----------------------------
(***************************************************************************)
(* The agents that serve messages: the fan-out agent (src/fanout-agent.c), *)
(* which forwards what it receives to the targets its policy names and     *)
(* collects their results, and the workers, each a reviewer                *)
(* (src/reviewer-agent.c) or an agent built on the Python SDK              *)
(* (src/sdk/python/agent.py). Every agent is one thread around one message *)
(* at a time; a handler is split at each write to its task tree and at     *)
(* each message it sends, because it may be killed between any two.        *)
(*                                                                         *)
(* What survives a death is what is on disk: task trees and the pending    *)
(* table. The inbox, the id counter and the message being handled do not.  *)
(***************************************************************************)
EXTENDS Tasks, Sequences

CONSTANTS
    Fan,                 \* the fan-out agent
    Workers,             \* the downstream agents
    Operator,            \* sender of the requests agentctl makes
    Unknown,             \* "?", the sender no receiver can name
    Nobody,              \* no REPLY-TO header
    MAX_TARGETS,
    Deployments,         \* transport; which workers run the Python SDK; which
                         \* agents' profiles say dispatch=single-shot; full, the
                         \* agents whose writes to their task trees may fail;
                         \* contents the fan-out agent's policy file may have;
                         \* and load, a bound: the messages operators send
    Requests,            \* verbs an operator sends
    MaxCrashes           \* bound: agents killed

Agents == {Fan} \cup Workers
Names == Agents \cup {Operator, Unknown}
PolicyLine == [allow : BOOLEAN, op : {"send", "recv"}, name : Names \cup {"*"}]

\* The fan-out agent is the C program, and its policy lets it send to workers.
ASSUME DelegationAssumption ==
    /\ Fan \notin Workers
    /\ {Operator, Unknown, Nobody} \cap Agents = {}
    /\ MAX_TARGETS \in Nat /\ MaxCrashes \in Nat
    /\ \A d \in Deployments :
         /\ d.sdk \subseteq Workers
         /\ d.load \in Nat
         /\ d.policies \subseteq Seq(PolicyLine)
         /\ \A lines \in d.policies : \A i \in DOMAIN lines :
              lines[i].allow /\ lines[i].op = "send" => lines[i].name \in Workers \cup {"*"}

VARIABLES
    proc,                \* where each agent is in its code, and its locals
    inbox,               \* messages delivered to each agent and not yet read
    tree,                \* each agent's task tree
    pending,             \* the fan-out agent's pending table
    next,                \* g_seq: 0, or the last id the process allocated
    deployment,          \* the member of Deployments in use
    requests, crashes,   \* counters of the bounds
    tracked,             \* history: pending files ever written
    answered             \* history: results the fan-out agent has handled

vars == <<proc, inbox, tree, pending, next, deployment, requests, crashes,
          tracked, answered>>

Message == [verb : Requests \cup {"result"}, id : Ids \cup {NoId},
            from : Agents \cup {Operator}, reply : Agents \cup {Nobody}]

NoMessage == [verb |-> "none", id |-> NoId, from |-> Operator, reply |-> Nobody]

At(pc) == [pc |-> pc, msg |-> NoMessage, id |-> NoId, todo |-> {},
           targets |-> {}, sent |-> 0, ok |-> FALSE]

Places == {"down", "recover", "idle", "settle", "create", "queue", "run",
           "plan", "send", "track", "work", "told", "result", "finish", "reply", "close"}

Process == [pc : Places, msg : Message \cup {NoMessage}, id : Ids \cup {NoId},
            todo : SUBSET Ids, targets : SUBSET (Nat \X Workers),
            sent : 0 .. MAX_TARGETS, ok : BOOLEAN]

TypeOK ==
    /\ proc \in [Agents -> Process]
    /\ inbox \in [Agents -> Seq(Message)]
    /\ tree \in [Agents -> [Ids -> Task]]
    /\ next \in [Agents -> Ids \cup {0}]
    /\ pending \subseteq Ids \X Workers
    /\ tracked \subseteq Ids \X Workers
    /\ answered \subseteq Ids \X Workers
    /\ deployment \in Deployments
    /\ requests \in 0 .. deployment.load
    /\ crashes \in 0 .. MaxCrashes

Sdk(a) == a \in deployment.sdk
Full(a) == a \in deployment.full
Listening(a) == a \in Agents /\ proc[a].pc # "down"

-----------------------------------------------------------------------------
(* The policy file: a sequence of lines [allow, op, name]. *)

PolicyLines(lines, allow, op) ==
    {i \in DOMAIN lines :
       lines[i].allow = allow /\ lines[i].op = op /\ lines[i].name # "*"}

Has(lines, allow, op, name) ==
    \E i \in DOMAIN lines : lines[i] = [allow |-> allow, op |-> op, name |-> name]

NamesAt(lines, S) == {lines[i].name : i \in S}

collect_send_targets_uncut(lines) ==
    LET allows == PolicyLines(lines, TRUE, "send")
        denies == PolicyLines(lines, FALSE, "send")
    IN  IF Has(lines, FALSE, "send", "*") THEN {}
        ELSE {<<i, lines[i].name>> :
                i \in {k \in allows : lines[k].name \notin NamesAt(lines, denies)}}

\* Each array takes the first MAX_TARGETS names that come.
Collected(S) == {i \in S : Cardinality({j \in S : j < i}) < MAX_TARGETS}

\* The targets, each with the number of its line, which orders them. Both lists
\* are cut at MAX_TARGETS before the denied names are taken out.
collect_send_targets(lines) ==
    LET allows == Collected(PolicyLines(lines, TRUE, "send"))
        denies == Collected(PolicyLines(lines, FALSE, "send"))
    IN  IF Has(lines, FALSE, "send", "*") THEN {}
        ELSE {<<i, lines[i].name>> :
                i \in {k \in allows : lines[k].name \notin NamesAt(lines, denies)}}

recv_is_denied(lines, sender) ==
    \/ Has(lines, FALSE, "recv", "*")
    \/ Has(lines, FALSE, "recv", sender)

Sender_is_reply_to(m) == IF m.reply # Nobody THEN m.reply ELSE Unknown

\* Over agentfs the only sender a receiver knows is the REPLY-TO header; over
\* sockets it is the name agentd sent along with the channel.
Sender(m) == IF deployment.transport = "uds" THEN m.from
             ELSE IF m.reply # Nobody THEN m.reply ELSE Unknown

-----------------------------------------------------------------------------
(* Steps every agent takes *)

Done(a) == proc' = [proc EXCEPT ![a] = At("idle")]
Goto(a, pc) == proc' = [proc EXCEPT ![a].pc = pc]

\* The end of the process. Its inbox and its id counter go with it: a message
\* delivered after its last poll is lost.
Exit(a) == /\ proc' = [proc EXCEPT ![a] = At("down")]
           /\ inbox' = [inbox EXCEPT ![a] = <<>>]
           /\ next' = [next EXCEPT ![a] = 0]

\* A write of a C agent fails. Except in task_create its result is not looked at
\* and the agent goes on.
WriteFails(a, t) ==
    Full(a) /\ ~Sdk(a) /\ tree' = [tree EXCEPT ![a] = write_fails(@, t)]

SetState(a, s) ==
    \/ tree' = [tree EXCEPT ![a] = task_set_state(@, proc[a].id, s)]
    \/ WriteFails(a, proc[a].id)

Bounds == <<deployment, requests, crashes>>
Table == <<pending, tracked, answered>>

\* main() up to the scan of the interrupted tasks: the listener is there
\* before it.
Start(a) ==
    /\ proc[a].pc = "down" /\ ~Sdk(a)
    /\ \E ids \in task_iterate(tree[a]) :
         proc' = [proc EXCEPT ![a] = [At("recover") EXCEPT !.todo = ids]]
    /\ UNCHANGED <<inbox, tree, next, Table, Bounds>>

\* The SDK has no such scan.
StartSdk(a) ==
    /\ proc[a].pc = "down" /\ Sdk(a)
    /\ Done(a)
    /\ UNCHANGED <<inbox, tree, next, Table, Bounds>>

\* task_recover_interrupted, one task of the sorted list at a time.
Recover(a) ==
    /\ proc[a].pc = "recover"
    /\ IF proc[a].todo = {}
       THEN Done(a) /\ UNCHANGED tree
       ELSE \E t \in proc[a].todo :
              /\ \A u \in proc[a].todo : t <= u
              /\ proc' = [proc EXCEPT ![a].todo = @ \ {t}]
              /\ \/ tree' = [tree EXCEPT ![a] = recover_one(@, t)]
                 \/ tree[a][t].state \in Active /\ WriteFails(a, t)
    /\ UNCHANGED <<inbox, next, Table, Bounds>>

\* poll() returned 0: a single-shot agent leaves its loop.
IdleTimeout(a) ==
    /\ a \in deployment.single
    /\ proc[a].pc = "idle" /\ inbox[a] = <<>>
    /\ Goto(a, "close")
    /\ UNCHANGED <<inbox, tree, next, Table, Bounds>>

Close(a) ==
    /\ proc[a].pc = "close"
    /\ Exit(a)
    /\ UNCHANGED <<tree, Table, Bounds>>

\* The loop reads one message, and the policy file again for each one.
Arrived(a) ==
    IF proc[a].pc = "idle" /\ inbox[a] # <<>> THEN {Head(inbox[a])} ELSE {}

TakeFirst(a) == inbox' = [inbox EXCEPT ![a] = Tail(@)]

Policy(a) == IF a = Fan THEN deployment.policies ELSE {<<>>}

\* What is dropped without a task: a denied sender, a ping, a result that
\* names no task and, in the SDK, a verb without a handler.
Discard(a) ==
    /\ ~Sdk(a)
    /\ \E m \in Arrived(a), lines \in Policy(a) :
         /\ TakeFirst(a)
         /\ \/ recv_is_denied(lines, Sender(m))
            \/ m.verb = "ping"
            \/ m.verb = "result" /\ m.id = NoId /\ a = Fan
    /\ UNCHANGED <<proc, tree, next, Table, Bounds>>

DiscardSdk(a) ==
    /\ Sdk(a)
    /\ \E m \in Arrived(a) : TakeFirst(a) /\ m.verb # "review"
    /\ UNCHANGED <<proc, tree, next, Table, Bounds>>

\* Every other message becomes a task.
TakeWork(a) ==
    /\ ~Sdk(a)
    /\ \E m \in Arrived(a), lines \in Policy(a) :
         /\ TakeFirst(a)
         /\ ~recv_is_denied(lines, Sender(m))
         /\ m.verb # "ping"
         /\ a = Fan => m.verb # "result"
         /\ proc' = [proc EXCEPT ![a] = [At("create") EXCEPT !.msg = m,
                        !.targets = IF a = Fan THEN collect_send_targets(lines)
                                               ELSE {}]]
    /\ UNCHANGED <<tree, next, Table, Bounds>>

TakeWorkSdk(a) ==
    /\ Sdk(a)
    /\ \E m \in Arrived(a) :
         /\ TakeFirst(a)
         /\ m.verb = "review"
         /\ proc' = [proc EXCEPT ![a] = [At("create") EXCEPT !.msg = m]]
    /\ UNCHANGED <<tree, next, Table, Bounds>>

\* task_alloc_id and the mkdir of task_create; a message without a task is dropped.
Create(a) ==
    /\ proc[a].pc = "create" /\ ~Sdk(a)
    /\ LET t == get_next_seq(next[a], tree[a])
       IN  /\ t \in Ids
           /\ next' = [next EXCEPT ![a] = t]
           /\ \/ /\ t \in Dirs(tree[a]) \/ Full(a)
                 /\ Done(a) /\ UNCHANGED tree
              \/ /\ t \notin Dirs(tree[a])
                 /\ proc' = [proc EXCEPT ![a] = [@ EXCEPT !.pc = "queue", !.id = t]]
                 /\ tree' = [tree EXCEPT ![a] = task_create_dir(@, t, proc[a].msg.id)]
    /\ UNCHANGED <<inbox, Table, Bounds>>

\* The SDK keeps the id of the task it works for, and takes the directory over if
\* there is one.
CreateSdk(a) ==
    /\ proc[a].pc = "create" /\ Sdk(a)
    /\ LET t == proc[a].msg.id
       IN  /\ proc' = [proc EXCEPT ![a] = [@ EXCEPT !.pc = "queue", !.id = t]]
           /\ tree' = [tree EXCEPT ![a] =
                         IF t \in Dirs(@) THEN @ ELSE task_create_dir(@, t, t)]
    /\ UNCHANGED <<inbox, next, Table, Bounds>>

\* The rest of task_create.
Queue(a) ==
    /\ proc[a].pc = "queue"
    /\ \/ tree' = [tree EXCEPT ![a] = task_set_state(@, proc[a].id, "queued")] /\ Goto(a, "run")
       \/ WriteFails(a, proc[a].id) /\ Done(a)
    /\ UNCHANGED <<inbox, next, Table, Bounds>>

Run(a) ==
    /\ proc[a].pc = "run"
    /\ SetState(a, "running")
    /\ Goto(a, IF a = Fan THEN "plan" ELSE "work")
    /\ UNCHANGED <<inbox, next, Table, Bounds>>

-----------------------------------------------------------------------------
(* The fan-out agent *)

Plan ==
    /\ proc[Fan].pc = "plan"
    /\ IF proc[Fan].targets = {}
       THEN SetState(Fan, "failed") /\ Done(Fan)
       ELSE SetState(Fan, "delegated") /\ Goto(Fan, "send")
    /\ UNCHANGED <<inbox, next, Table, Bounds>>

\* The mailbox of a dead agent takes messages until agentfs notices the death.
Lost(to) == ~Listening(to) /\ deployment.transport = "agentfs"

Deliver(to, m) ==
    IF Listening(to) THEN [inbox EXCEPT ![to] = Append(@, m)] ELSE inbox

\* The target whose turn it is.
FirstTarget(targets) == {f \in targets : \A g \in targets : f[1] <= g[1]}

\* send_to_agent_ex: the target gets the message, or the send fails (no
\* listener, no channel from the broker, a full queue).
Send ==
    /\ proc[Fan].pc = "send"
    /\ \E f \in FirstTarget(proc[Fan].targets) :
         \/ /\ Listening(f[2]) \/ Lost(f[2])
            /\ inbox' = Deliver(f[2], [verb |-> proc[Fan].msg.verb, id |-> proc[Fan].id,
                                      from |-> Fan, reply |-> Fan])
            /\ Goto(Fan, "track")
         \/ /\ proc' = [proc EXCEPT ![Fan].targets = @ \ {f}]
            /\ UNCHANGED inbox
    /\ UNCHANGED <<tree, next, Table, Bounds>>

\* pending_add, after the message is gone. The delegation counts as sent either way.
Track ==
    /\ proc[Fan].pc = "track"
    /\ \E f \in FirstTarget(proc[Fan].targets) :
         /\ \/ /\ pending' = pending_add(pending, proc[Fan].id, f[2])
               /\ tracked' = tracked \cup {<<proc[Fan].id, f[2]>>}
               /\ UNCHANGED tree
            \/ WriteFails(Fan, proc[Fan].id) /\ UNCHANGED <<pending, tracked>>
         /\ proc' = [proc EXCEPT ![Fan] = [@ EXCEPT !.pc = "send",
                        !.targets = proc[Fan].targets \ {f}, !.sent = proc[Fan].sent + 1]]
    /\ UNCHANGED <<inbox, next, answered, Bounds>>

EndFanout_leaves_delegated ==
    /\ proc[Fan].pc = "send"
    /\ proc[Fan].targets = {}
    /\ Done(Fan)
    /\ UNCHANGED <<inbox, tree, next, Table, Bounds>>

EndFanout ==
    /\ proc[Fan].pc = "send"
    /\ proc[Fan].targets = {}
    /\ IF proc[Fan].sent = 0 THEN SetState(Fan, "failed") ELSE UNCHANGED tree
    /\ Done(Fan)
    /\ UNCHANGED <<inbox, next, Table, Bounds>>

\* A downstream's result: its pending file goes, and when none is left ...
TakeResult ==
    /\ \E m \in Arrived(Fan), lines \in deployment.policies :
         /\ TakeFirst(Fan)
         /\ ~recv_is_denied(lines, Sender(m))
         /\ m.verb = "result"
         /\ m.id # NoId
         /\ pending' = pending_remove(pending, m.id, Sender(m))
         /\ answered' = answered \cup {<<m.id, m.from>>}
         /\ proc' = [proc EXCEPT ![Fan] =
              IF pending_count_for_task(pending', m.id) = 0
              THEN [At("settle") EXCEPT !.id = m.id] ELSE At("idle")]
    /\ UNCHANGED <<tree, next, tracked, Bounds>>

\* ... the task is completed, whatever its state was.
Settle ==
    /\ proc[Fan].pc = "settle"
    /\ SetState(Fan, "completed")
    /\ Done(Fan)
    /\ UNCHANGED <<inbox, next, Table, Bounds>>

-----------------------------------------------------------------------------
(* The workers *)

\* handle_review writes three artifacts and stops at the first that fails;
\* other verbs fail.
Work(w) ==
    /\ proc[w].pc = "work" /\ ~Sdk(w)
    /\ LET t == proc[w].id
       IN  \/ /\ proc[w].msg.verb = "review" /\ tree[w][t].artifacts < 3
              /\ tree' = [tree EXCEPT ![w][t].artifacts = @ + 1]
              /\ UNCHANGED proc
           \/ /\ tree[w][t].artifacts = 3
              /\ proc' = [proc EXCEPT ![w] = [@ EXCEPT !.pc = "result", !.ok = TRUE]]
              /\ UNCHANGED tree
           \/ /\ tree[w][t].artifacts < 3
              /\ Goto(w, "result")
              /\ UNCHANGED tree
    /\ UNCHANGED <<inbox, next, Table, Bounds>>

\* The result goes to the agent REPLY-TO names, under the id it gave, if that
\* agent can be reached.
ResultMessage(w, reply) ==
    [verb |-> "result", from |-> w, reply |-> reply,
     id |-> IF proc[w].msg.id # NoId THEN proc[w].msg.id ELSE proc[w].id]

\* A handler returns, raises, or raises CapabilityError, which is taken to mean
\* that the task was failed already. Before that it may call Task.reply, once here.
WorkSdk(w) ==
    /\ proc[w].pc \in {"work", "told"} /\ Sdk(w)
    /\ \/ /\ \E ok \in BOOLEAN :
               proc' = [proc EXCEPT ![w] = [@ EXCEPT !.pc = "result", !.ok = ok]]
          /\ UNCHANGED inbox
       \/ Goto(w, "reply") /\ UNCHANGED inbox
       \/ /\ proc[w].pc = "work"
          /\ inbox' = Deliver(proc[w].msg.reply, ResultMessage(w, w))
          /\ Goto(w, "told")
    /\ UNCHANGED <<tree, next, Table, Bounds>>

\* A write of the SDK fails and raises. In complete() that makes it a failed task,
\* anywhere else it ends the agent.
WriteFailsSdk(w) ==
    /\ proc[w].pc \in {"create", "queue", "run", "result", "finish"} /\ Sdk(w) /\ Full(w)
    /\ proc' = [proc EXCEPT ![w] = IF proc[w].ok THEN [@ EXCEPT !.pc = "result", !.ok = FALSE]
                                                 ELSE At("close")]
    /\ UNCHANGED <<inbox, tree, next, Table, Bounds>>

Result_only_of_success(w) ==
    /\ proc[w].pc = "result"
    /\ tree' = [tree EXCEPT ![w][proc[w].id].result = proc[w].ok]
    /\ Goto(w, "finish")
    /\ UNCHANGED <<inbox, next, Table, Bounds>>

Result(w) ==
    /\ proc[w].pc = "result"
    /\ \/ tree' = [tree EXCEPT ![w][proc[w].id].result = TRUE]
       \/ WriteFails(w, proc[w].id)
    /\ Goto(w, "finish")
    /\ UNCHANGED <<inbox, next, Table, Bounds>>

Finish(w) ==
    /\ proc[w].pc = "finish"
    /\ SetState(w, IF proc[w].ok THEN "completed" ELSE "failed")
    /\ Goto(w, "reply")
    /\ UNCHANGED <<inbox, next, Table, Bounds>>

\* The C reviewer sends no REPLY-TO of its own, only logs a send that fails, and
\* leaves its loop when it is single-shot.
Reply(w) ==
    /\ proc[w].pc = "reply" /\ ~Sdk(w)
    /\ \/ inbox' = Deliver(proc[w].msg.reply, ResultMessage(w, Nobody))
       \/ UNCHANGED inbox
    /\ proc' = [proc EXCEPT ![w] = At(IF w \in deployment.single THEN "close" ELSE "idle")]
    /\ UNCHANGED <<tree, next, Table, Bounds>>

\* The SDK names itself, and an error from the send ends it.
ReplySdk(w) ==
    /\ proc[w].pc = "reply" /\ Sdk(w)
    /\ LET to == proc[w].msg.reply
       IN  \/ /\ inbox' = Deliver(to, ResultMessage(w, w))
              /\ Done(w)
           \/ /\ to # Nobody
              /\ proc' = [proc EXCEPT ![w] = At("close")]
              /\ UNCHANGED inbox
    /\ UNCHANGED <<tree, next, Table, Bounds>>

-----------------------------------------------------------------------------
(* The environment *)

\* An operator's agentctl send; SDK agents get their work from the fan-out
\* agent only.
Request(a) ==
    /\ requests < deployment.load
    /\ Listening(a) /\ ~Sdk(a)
    /\ \E v \in Requests :
         inbox' = [inbox EXCEPT ![a] = Append(@,
            [verb |-> v, id |-> NoId, from |-> Operator, reply |-> Nobody])]
    /\ requests' = requests + 1
    /\ UNCHANGED <<proc, tree, next, Table, deployment, crashes>>

\* An agent is killed, at any point of its code.
Crash(a) ==
    /\ crashes < MaxCrashes
    /\ proc[a].pc # "down"
    /\ Exit(a)
    /\ crashes' = crashes + 1
    /\ UNCHANGED <<tree, Table, deployment, requests>>

\* All agents are up, with no task and no message yet.
Init ==
    /\ proc = [a \in Agents |-> At("idle")]
    /\ inbox = [a \in Agents |-> <<>>]
    /\ tree = [a \in Agents |-> EmptyTree]
    /\ next = [a \in Agents |-> 0]
    /\ pending = {} /\ tracked = {} /\ answered = {}
    /\ deployment \in Deployments
    /\ requests = 0 /\ crashes = 0

AgentStep(a) ==
    \/ Start(a) \/ StartSdk(a) \/ Recover(a) \/ IdleTimeout(a) \/ Close(a)
    \/ Discard(a) \/ DiscardSdk(a) \/ TakeWork(a) \/ TakeWorkSdk(a)
    \/ Create(a) \/ CreateSdk(a) \/ Queue(a) \/ Run(a)

FanStep == Plan \/ Send \/ Track \/ EndFanout \/ TakeResult \/ Settle

WorkerStep(w) ==
    \/ Work(w) \/ WorkSdk(w) \/ WriteFailsSdk(w) \/ Result(w) \/ Finish(w)
    \/ Reply(w) \/ ReplySdk(w)

Next ==
    \/ \E a \in Agents : AgentStep(a) \/ Request(a) \/ Crash(a)
    \/ FanStep
    \/ \E w \in Workers : WorkerStep(w)

\* Every agent runs, and its supervisor starts it again when it is down.
Spec == /\ Init /\ [][Next]_vars
        /\ WF_vars(AgentStep(Fan) \/ FanStep)
        /\ \A w \in Workers : WF_vars(AgentStep(w) \/ WorkerStep(w))
-----------------------------------------------------------------------------
(* Properties *)

\* fanout-agent.c calls a task "completed (all downstreams replied)" once no
\* pending file of it is left: a completed task has the result of every
\* downstream whose delegation was recorded, in whatever order results, further
\* requests and restarts of either side came.
CompletedMeansAnswered ==
    \A t \in Ids, w \in Workers :
       tree[Fan][t].state = "completed" /\ <<t, w>> \in tracked
          => <<t, w>> \in answered

\* fanout-agent.c: "the kernel-verified sender_name identifies which downstream
\* replied". A downstream whose result was handled is no longer pending, although
\* a delegation is recorded only after its message left and a target may be named
\* twice.
RepliesAreCredited == answered \cap pending = {}

\* Recovery leaves no task behind that nobody works on: in an agent that is
\* serving, an active task is the one it is handling or, in the fan-out agent,
\* one that still waits for a result. task_recover_interrupted and the order in
\* which fanout-agent.c removes pending files and sets states are what this
\* depends on. A task a write to which failed is left out: no agent looks at what
\* task_set_state and pending_add return.
ActiveTasksAreOwned ==
    \A a \in Agents, t \in Ids :
       /\ ~Sdk(a) /\ proc[a].pc \notin {"down", "recover"}
       /\ tree[a][t].state \in Active /\ ~tree[a][t].unwritten
       => \/ t = proc[a].id
          \/ a = Fan /\ tree[a][t].state = "delegated" /\ \E w \in Workers : <<t, w>> \in pending

\* A worker answers only what it has on record: for every result on its way to
\* the fan-out agent, or handled by it, the worker's own tree holds a task made
\* for that id, through any restart of the worker. In a reviewer's tree that task
\* has a result file and has ended, with its artifacts if it completed, unless a
\* write to it failed: reviewer-agent.c replies without looking at what the writes
\* returned. Of an SDK agent no more can be said, as its handler may reply at any
\* time.
AnswersAreOnRecord ==
    \A w \in Workers, t \in Ids :
       \/ <<t, w>> \in answered
       \/ \E i \in DOMAIN inbox[Fan] : inbox[Fan][i].from = w /\ inbox[Fan][i].id = t
       => \E own \in Dirs(tree[w]) :
             /\ tree[w][own].incoming = t
             /\ \/ Sdk(w) \/ tree[w][own].unwritten
                \/ /\ tree[w][own].result
                   /\ \/ tree[w][own].state = "failed"
                      \/ tree[w][own].state = "completed" /\ tree[w][own].artifacts = 3

\* tasks.c says "Never reopen and overwrite an existing task": in the trees it
\* manages a task that ended stays ended under its own description, whatever id
\* a restarted process allocates next. The one change left is a late result
\* turning a failed fan-out task into a completed one.
EndedTasksStay ==
    [][\A a \in Agents, t \in Ids :
          ~Sdk(a) /\ tree[a][t].state \in Terminal =>
             \/ tree'[a][t] = tree[a][t]
             \/ /\ a = Fan /\ \E w \in Workers : <<t, w>> \in answered
                /\ tree'[a][t] = [tree[a][t] EXCEPT !.state = "completed"]]_vars

-----------------------------------------------------------------------------
(* The invariant behind them *)

\* Places where an agent has a task of its own in hand.
Busy == {"settle", "queue", "run", "plan", "send", "track", "work", "told", "result",
         "finish", "reply"}

\* Where an agent is in its code tells which task it has in hand ...
Located(a) ==
    /\ proc[a].pc \in {"settle", "plan", "send", "track"} => a = Fan
    /\ proc[a].pc \in {"work", "told", "result", "finish", "reply"} => a \in Workers
    /\ proc[a].pc = "told" => Sdk(a)
    /\ IF proc[a].pc \in Busy THEN proc[a].id \in Dirs(tree[a]) ELSE proc[a].id = NoId
    /\ IsFiniteSet(proc[a].targets)
    /\ Cardinality(proc[a].targets) + proc[a].sent <= MAX_TARGETS

\* ... and, in the trees tasks.c manages, the state that task is in. What was
\* reached is in the state file unless a write failed.
Reached(a, s) == tree[a][proc[a].id].state = s \/ tree[a][proc[a].id].unwritten

Staged(a) ==
    /\ proc[a].pc = "queue" => tree[a][proc[a].id].state = "unset"
    /\ proc[a].pc \in {"run", "plan", "work", "result", "finish", "send", "track"} =>
         tree[a][proc[a].id].state \in Active
    /\ proc[a].pc \in {"send", "track"} => Reached(a, "delegated")

Ended(w, own) ==
    \/ Sdk(w) \/ tree[w][own].unwritten
    \/ /\ tree[w][own].result
       /\ \/ tree[w][own].state = "failed"
          \/ tree[w][own].state = "completed" /\ tree[w][own].artifacts = 3

\* Task own of worker w is on record as its answer to t.
Recorded(w, own, t) ==
    own \in Dirs(tree[w]) /\ tree[w][own].incoming = t /\ Ended(w, own)

OnRecord(w, t) == \E own \in Ids : Recorded(w, own, t)

\* What a worker knows of the task in hand.
Prepared(w) ==
    /\ proc[w].pc \in Busy => tree[w][proc[w].id].incoming = proc[w].msg.id
    /\ proc[w].pc = "finish" =>
         Sdk(w) \/ tree[w][proc[w].id].unwritten \/ tree[w][proc[w].id].result
    /\ proc[w].ok => proc[w].pc \in {"result", "finish", "reply"}
    /\ proc[w].ok /\ proc[w].pc # "reply" => Sdk(w) \/ tree[w][proc[w].id].artifacts = 3
    /\ proc[w].pc = "reply" => Ended(w, proc[w].id)
    /\ Sdk(w) => \A t \in Dirs(tree[w]) : tree[w][t].incoming = t

InHand(a) == Located(a) /\ (Sdk(a) \/ Staged(a)) /\ (a \in Workers => Prepared(a))

FromOperator(m) == m.from = Operator /\ m.id = NoId /\ m.reply = Nobody
FromFan(m) == m.from = Fan /\ m.id \in Dirs(tree[Fan]) /\ m.reply = Fan
FromWorker(m) ==
    /\ m.from \in Workers /\ m.verb = "result"
    /\ m.id \in Dirs(tree[Fan]) /\ OnRecord(m.from, m.id)
    /\ m.reply = IF Sdk(m.from) THEN m.from ELSE Nobody

\* A worker gets work from the fan-out agent and, unless it is an SDK agent, from
\* operators; the fan-out agent gets requests and results.
Expected(a, m) ==
    \/ FromOperator(m) /\ ~Sdk(a)
    \/ FromFan(m) /\ a \in Workers
    \/ FromWorker(m) /\ a = Fan

Mail ==
    /\ \A a \in Agents : \A i \in DOMAIN inbox[a] : Expected(a, inbox[a][i])
    /\ \A w \in Workers : proc[w].pc \in Busy \cup {"create"} => Expected(w, proc[w].msg)

\* The pending table, the delegations ever recorded and the results handled.
Ledger ==
    /\ IsFiniteSet(pending)
    /\ tracked \subseteq pending \cup answered
    /\ \A t \in Ids, w \in Workers :
         /\ <<t, w>> \in tracked \cup pending \cup answered => t \in Dirs(tree[Fan])
         /\ <<t, w>> \in answered => OnRecord(w, t)
         /\ <<t, w>> \in pending => tree[Fan][t].state # "completed"

\* The same for the task the fan-out agent has in hand.
Posted ==
    /\ proc[Fan].pc \in {"queue", "run", "plan", "send", "track"} =>
         \A w \in Workers : <<proc[Fan].id, w>> \notin answered
    /\ proc[Fan].pc = "settle" =>
         /\ \E w \in Workers : <<proc[Fan].id, w>> \in answered
         /\ \A w \in Workers : <<proc[Fan].id, w>> \notin pending
    /\ proc[Fan].pc \in {"create", "queue", "run", "plan", "send", "track"} =>
         proc[Fan].msg \in Message
    /\ proc[Fan].pc \in {"create", "queue", "run", "plan"} => proc[Fan].sent = 0
    /\ proc[Fan].pc \in {"send", "track"} /\ proc[Fan].sent # 0 =>
         \/ tree[Fan][proc[Fan].id].unwritten
         \/ \E w \in Workers : <<proc[Fan].id, w>> \in pending

\* Where every agent is in its code, the trees, the messages on their way and the
\* pending table agree at all times, whatever is killed when.
DelegationInv == TypeOK /\ (\A a \in Agents : InHand(a)) /\ Mail /\ Ledger /\ Posted

\* What ActiveTasksAreOwned needs from a scan that is not over.
OwnedTask(a, t) ==
    ~Sdk(a) /\ proc[a].pc # "down" /\ tree[a][t].state \in Active /\ ~tree[a][t].unwritten =>
       \/ proc[a].pc = "recover" /\ t \in proc[a].todo
       \/ proc[a].pc \in Busy /\ t = proc[a].id
       \/ a = Fan /\ tree[a][t].state = "delegated" /\ \E w \in Workers : <<t, w>> \in pending

Owned == \A a \in Agents, t \in Ids : OwnedTask(a, t)

-----------------------------------------------------------------------------
(* Liveness *)

\* Something still carries the delegation of t to w: the message is in w's
\* inbox or being handled, or the result is in the fan-out agent's inbox.
Carried(t, w) ==
    \/ \E i \in DOMAIN inbox[w] : inbox[w][i].id = t
    \/ proc[w].msg.id = t
    \/ \E i \in DOMAIN inbox[Fan] : inbox[Fan][i].id = t /\ inbox[Fan][i].from = w

Stranded(t) == \E w \in Workers : <<t, w>> \in pending /\ ~Carried(t, w)

\* Tasks end: the agents always get back to a point where no task is active,
\* although each may be killed at any step or leave on its idle timeout. The
\* exception is a fan-out task whose message or result was lost, with the process
\* that held it or in a reply that failed, because nothing in fanout-agent.c gives
\* up on a result, and a task whose state or pending file could not be written.
TasksEnd ==
    []<>(\A a \in Agents, t \in Ids :
            tree[a][t].state \in Active =>
               Sdk(a) \/ tree[a][t].unwritten \/ (a = Fan /\ Stranded(t)))
=============================================================================
