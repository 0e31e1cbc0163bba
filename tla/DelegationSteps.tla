-------------------------- MODULE DelegationSteps ---------------------------
(***************************************************************************)
(* What a step of one agent may change without disturbing DelegationInv,   *)
(* the ended tasks and the owners of active ones, and the steps that all   *)
(* agents take: start, recovery, death, taking a message, creating a task. *)
(***************************************************************************)
EXTENDS Delegation, FiniteSetTheorems, TLAPS

USE Zenon

(***************************************************************************)
(* What a step does to the process that takes it, field by field.          *)
(***************************************************************************)
ProcTo(a, pc, msg, id, todo, targets, sent, ok) ==
    /\ proc' \in [Agents -> Process]
    /\ \A b \in Agents \ {a} : proc'[b] = proc[b]
    /\ proc'[a].pc = pc /\ proc'[a].msg = msg /\ proc'[a].id = id
    /\ proc'[a].todo = todo /\ proc'[a].targets = targets /\ proc'[a].sent = sent
    /\ proc'[a].ok = ok

ProcIs(r, pc, msg, id, todo, targets, sent, ok) ==
    /\ r \in Process
    /\ r.pc = pc /\ r.msg = msg /\ r.id = id /\ r.todo = todo
    /\ r.targets = targets /\ r.sent = sent /\ r.ok = ok

\* A process record that is replaced has the fields of the new one.
LEMMA ProcSet ==
    ASSUME proc \in [Agents -> Process], NEW a \in Agents, NEW r,
           NEW pc, NEW msg, NEW id, NEW todo, NEW targets, NEW sent, NEW ok,
           ProcIs(r, pc, msg, id, todo, targets, sent, ok), proc' = [proc EXCEPT ![a] = r]
    PROVE  ProcTo(a, pc, msg, id, todo, targets, sent, ok)
BY DEF ProcTo, ProcIs

\* The types of a process's fields.
LEMMA ProcFields ==
    ASSUME NEW r \in Process
    PROVE  /\ r.pc \in Places /\ r.msg \in Message \cup {NoMessage} /\ r.id \in Ids \cup {NoId}
           /\ r.todo \in SUBSET Ids /\ r.targets \in SUBSET (Nat \X Workers)
           /\ r.sent \in 0 .. MAX_TARGETS /\ r.ok \in BOOLEAN
BY DEF Process

\* At(pc): a place with nothing in hand.
LEMMA AtIs ==
    ASSUME NEW pc \in Places
    PROVE  ProcIs(At(pc), pc, NoMessage, NoId, {}, {}, 0, FALSE)
<1>1. 0 \in 0 .. MAX_TARGETS BY DelegationAssumption, SMT DEF DelegationAssumption
<1>2. At(pc) \in Process BY <1>1 DEF At, Process
<1> QED BY <1>2 DEF ProcIs, At

\* A record that changes only its place.
LEMMA PcIs ==
    ASSUME NEW r \in Process, NEW pc \in Places
    PROVE  ProcIs([r EXCEPT !.pc = pc], pc, r.msg, r.id, r.todo, r.targets, r.sent, r.ok)
BY DEF ProcIs, Process

\* Goto changes the place only.
LEMMA GotoTo ==
    ASSUME proc \in [Agents -> Process], NEW a \in Agents, NEW pc \in Places, Goto(a, pc)
    PROVE  ProcTo(a, pc, proc[a].msg, proc[a].id, proc[a].todo, proc[a].targets, proc[a].sent,
                  proc[a].ok)
<1>1. proc' = [proc EXCEPT ![a] = [proc[a] EXCEPT !.pc = pc]] BY DEF Goto
<1>2. proc[a] \in Process OBVIOUS
<1> QED BY <1>1, <1>2, PcIs, ProcSet

\* A scan changes what is left to visit only.
LEMMA TodoTo ==
    ASSUME proc \in [Agents -> Process], NEW a \in Agents, NEW S \in SUBSET Ids,
           proc' = [proc EXCEPT ![a].todo = S]
    PROVE  ProcTo(a, proc[a].pc, proc[a].msg, proc[a].id, S, proc[a].targets, proc[a].sent,
                  proc[a].ok)
<1> DEFINE r == [proc[a] EXCEPT !.todo = S]
<1>1. proc' = [proc EXCEPT ![a] = r] OBVIOUS
<1>2. proc[a] \in Process OBVIOUS
<1>3. ProcIs(r, proc[a].pc, proc[a].msg, proc[a].id, S, proc[a].targets, proc[a].sent,
             proc[a].ok)
  BY <1>2 DEF ProcIs, Process
<1> HIDE DEF r
<1> QED BY <1>1, <1>3, ProcSet

\* A fan-out that drops a target changes the targets only.
LEMMA TargetsTo ==
    ASSUME proc \in [Agents -> Process], NEW a \in Agents, NEW S \in SUBSET (Nat \X Workers),
           proc' = [proc EXCEPT ![a].targets = S]
    PROVE  ProcTo(a, proc[a].pc, proc[a].msg, proc[a].id, proc[a].todo, S, proc[a].sent,
                  proc[a].ok)
<1> DEFINE r == [proc[a] EXCEPT !.targets = S]
<1>1. proc' = [proc EXCEPT ![a] = r] OBVIOUS
<1>2. proc[a] \in Process OBVIOUS
<1>3. ProcIs(r, proc[a].pc, proc[a].msg, proc[a].id, proc[a].todo, S, proc[a].sent, proc[a].ok)
  BY <1>2 DEF ProcIs, Process
<1> HIDE DEF r
<1> QED BY <1>1, <1>3, ProcSet

\* A process that goes to a place with nothing in hand.
LEMMA AtTo ==
    ASSUME proc \in [Agents -> Process], NEW a \in Agents, NEW pc \in Places,
           proc' = [proc EXCEPT ![a] = At(pc)]
    PROVE  ProcTo(a, pc, NoMessage, NoId, {}, {}, 0, FALSE)
BY AtIs, ProcSet

\* A process that starts a scan.
LEMMA AtTodoTo ==
    ASSUME proc \in [Agents -> Process], NEW a \in Agents, NEW pc \in Places,
           NEW S \in SUBSET Ids, proc' = [proc EXCEPT ![a] = [At(pc) EXCEPT !.todo = S]]
    PROVE  ProcTo(a, pc, NoMessage, NoId, S, {}, 0, FALSE)
<1>1. At(pc) \in Process BY AtIs DEF ProcIs
<1>2. ProcIs([At(pc) EXCEPT !.todo = S], pc, NoMessage, NoId, S, {}, 0, FALSE)
  BY <1>1, AtIs DEF ProcIs, Process
<1> QED BY <1>2, ProcSet

\* A process that goes to a place with a task and no message.
LEMMA AtIdTo ==
    ASSUME proc \in [Agents -> Process], NEW a \in Agents, NEW pc \in Places,
           NEW t \in Ids, proc' = [proc EXCEPT ![a] = [At(pc) EXCEPT !.id = t]]
    PROVE  ProcTo(a, pc, NoMessage, t, {}, {}, 0, FALSE)
<1>1. At(pc) \in Process BY AtIs DEF ProcIs
<1>2. ProcIs([At(pc) EXCEPT !.id = t], pc, NoMessage, t, {}, {}, 0, FALSE)
  BY <1>1, AtIs DEF ProcIs, Process
<1> QED BY <1>2, ProcSet

\* A process that goes to a place with a message.
LEMMA AtMsgTo ==
    ASSUME proc \in [Agents -> Process], NEW a \in Agents, NEW pc \in Places,
           NEW m \in Message, proc' = [proc EXCEPT ![a] = [At(pc) EXCEPT !.msg = m]]
    PROVE  ProcTo(a, pc, m, NoId, {}, {}, 0, FALSE)
<1>1. At(pc) \in Process BY AtIs DEF ProcIs
<1>2. ProcIs([At(pc) EXCEPT !.msg = m], pc, m, NoId, {}, {}, 0, FALSE)
  BY <1>1, AtIs DEF ProcIs, Process
<1> QED BY <1>2, ProcSet

\* A process that takes work, with the targets it collected.
LEMMA AtWorkTo ==
    ASSUME proc \in [Agents -> Process], NEW a \in Agents, NEW pc \in Places,
           NEW m \in Message, NEW S \in SUBSET (Nat \X Workers),
           proc' = [proc EXCEPT ![a] = [At(pc) EXCEPT !.msg = m, !.targets = S]]
    PROVE  ProcTo(a, pc, m, NoId, {}, S, 0, FALSE)
<1>1. At(pc) \in Process BY AtIs DEF ProcIs
<1>2. ProcIs([At(pc) EXCEPT !.msg = m, !.targets = S], pc, m, NoId, {}, S, 0, FALSE)
  BY <1>1, AtIs DEF ProcIs, Process
<1> QED BY <1>2, ProcSet

\* A process that has created its task.
LEMMA IdTo ==
    ASSUME proc \in [Agents -> Process], NEW a \in Agents, NEW pc \in Places, NEW t \in Ids,
           proc' = [proc EXCEPT ![a] = [@ EXCEPT !.pc = pc, !.id = t]]
    PROVE  ProcTo(a, pc, proc[a].msg, t, proc[a].todo, proc[a].targets, proc[a].sent, proc[a].ok)
<1> DEFINE r == [proc[a] EXCEPT !.pc = pc, !.id = t]
<1>1. proc' = [proc EXCEPT ![a] = r] OBVIOUS
<1>2. proc[a] \in Process OBVIOUS
<1>3. ProcIs(r, pc, proc[a].msg, t, proc[a].todo, proc[a].targets, proc[a].sent, proc[a].ok)
  BY <1>2 DEF ProcIs, Process
<1> HIDE DEF r
<1> QED BY <1>1, <1>3, ProcSet

\* A worker that knows whether its work went well.
LEMMA OkTo ==
    ASSUME proc \in [Agents -> Process], NEW a \in Agents, NEW pc \in Places, NEW ok \in BOOLEAN,
           proc' = [proc EXCEPT ![a] = [@ EXCEPT !.pc = pc, !.ok = ok]]
    PROVE  ProcTo(a, pc, proc[a].msg, proc[a].id, proc[a].todo, proc[a].targets, proc[a].sent, ok)
<1> DEFINE r == [proc[a] EXCEPT !.pc = pc, !.ok = ok]
<1>1. proc' = [proc EXCEPT ![a] = r] OBVIOUS
<1>2. proc[a] \in Process OBVIOUS
<1>3. ProcIs(r, pc, proc[a].msg, proc[a].id, proc[a].todo, proc[a].targets, proc[a].sent, ok)
  BY <1>2 DEF ProcIs, Process
<1> HIDE DEF r
<1> QED BY <1>1, <1>3, ProcSet

\* A fan-out that has recorded a delegation.
LEMMA TrackTo ==
    ASSUME proc \in [Agents -> Process], NEW a \in Agents, NEW pc \in Places,
           NEW f, proc[a].sent + 1 \in 0 .. MAX_TARGETS,
           proc' = [proc EXCEPT ![a] = [@ EXCEPT !.pc = pc,
                      !.targets = proc[a].targets \ {f}, !.sent = proc[a].sent + 1]]
    PROVE  ProcTo(a, pc, proc[a].msg, proc[a].id, proc[a].todo, proc[a].targets \ {f},
                  proc[a].sent + 1, proc[a].ok)
<1> DEFINE n == proc[a].sent + 1
           S == proc[a].targets \ {f}
<1> DEFINE r == [proc[a] EXCEPT !.pc = pc, !.targets = S, !.sent = n]
<1>1. proc' = [proc EXCEPT ![a] = r] OBVIOUS
<1>2. proc[a] \in Process OBVIOUS
<1>3. n \in 0 .. MAX_TARGETS /\ S \in SUBSET (Nat \X Workers) BY <1>2, ProcFields
<1> HIDE DEF n, S
<1>4. ProcIs(r, pc, proc[a].msg, proc[a].id, proc[a].todo, S, n, proc[a].ok)
  BY <1>2, <1>3 DEF ProcIs, Process
<1> HIDE DEF r
<1> QED BY <1>1, <1>4, ProcSet DEF n, S

(***************************************************************************)
(* What a step does to the tree it writes to.                              *)
(***************************************************************************)
Trees == [Agents -> [Ids -> Task]]

TreeTo(a, t, state, incoming, artifacts, result) ==
    /\ tree' \in Trees
    /\ \A b \in Agents \ {a} : tree'[b] = tree[b]
    /\ \A u \in Ids \ {t} : tree'[a][u] = tree[a][u]
    /\ tree'[a][t].state = state /\ tree'[a][t].incoming = incoming
    /\ tree'[a][t].artifacts = artifacts /\ tree'[a][t].result = result
    /\ t \in Dirs(tree[a]) /\ tree[a][t].unwritten => tree'[a][t].unwritten

StateTo(a, t, s) ==
    TreeTo(a, t, s, tree[a][t].incoming, tree[a][t].artifacts, tree[a][t].result)

\* A task directory that is replaced has the fields of the new one.
LEMMA TreeSet ==
    ASSUME tree \in Trees, NEW a \in Agents, NEW t \in Ids, NEW r \in Task,
           t \in Dirs(tree[a]) /\ tree[a][t].unwritten => r.unwritten,
           tree' = [tree EXCEPT ![a] = [tree[a] EXCEPT ![t] = r]]
    PROVE  TreeTo(a, t, r.state, r.incoming, r.artifacts, r.result)
<1> DEFINE tr == [tree[a] EXCEPT ![t] = r]
<1>1. tree[a] \in [Ids -> Task] BY DEF Trees
<1>2. tr \in [Ids -> Task] /\ tr[t] = r /\ \A u \in Ids \ {t} : tr[u] = tree[a][u]
  BY <1>1
<1>3. tree' = [tree EXCEPT ![a] = tr] OBVIOUS
<1> HIDE DEF tr
<1>4. tree' \in Trees /\ tree'[a] = tr /\ \A b \in Agents \ {a} : tree'[b] = tree[b]
  BY <1>2, <1>3 DEF Trees
<1> QED BY <1>2, <1>4 DEF TreeTo

\* The types of a task's fields.
LEMMA TaskFields ==
    ASSUME tree \in Trees, NEW a \in Agents, NEW t \in Ids
    PROVE  /\ tree[a] \in [Ids -> Task] /\ tree[a][t] \in Task
           /\ tree[a][t].state \in task_state_t \cup {"none", "unset"}
           /\ tree[a][t].incoming \in Ids \cup {NoId} /\ tree[a][t].artifacts \in 0 .. 3
           /\ tree[a][t].result \in BOOLEAN /\ tree[a][t].unwritten \in BOOLEAN
BY DEF Trees, Task

\* task_set_state changes the state of an existing task and nothing else.
LEMMA StateSet ==
    ASSUME tree \in Trees, NEW a \in Agents, NEW t \in Ids, NEW s \in task_state_t,
           t \in Dirs(tree[a]), tree' = [tree EXCEPT ![a] = task_set_state(tree[a], t, s)]
    PROVE  StateTo(a, t, s)
<1> DEFINE r == [tree[a][t] EXCEPT !.state = s]
<1>1. tree[a] \in [Ids -> Task] /\ tree[a][t] \in Task BY TaskFields
<1>2. r \in Task /\ r.state = s /\ r.incoming = tree[a][t].incoming
      /\ r.artifacts = tree[a][t].artifacts /\ r.result = tree[a][t].result
      /\ r.unwritten = tree[a][t].unwritten
  BY <1>1 DEF Task
<1>3. task_set_state(tree[a], t, s) = [tree[a] EXCEPT ![t] = r] BY DEF task_set_state
<1> HIDE DEF r
<1>4. tree' = [tree EXCEPT ![a] = [tree[a] EXCEPT ![t] = r]] BY <1>3
<1>5. TreeTo(a, t, r.state, r.incoming, r.artifacts, r.result) BY <1>2, <1>4, TreeSet
<1> QED BY <1>2, <1>5 DEF StateTo

\* A write of a C agent that fails leaves a note on a task that has not ended.
LEMMA WriteFailsTo ==
    ASSUME tree \in Trees, NEW a \in Agents, NEW t \in Dirs(tree[a]), WriteFails(a, t)
    PROVE  /\ ~Sdk(a)
           /\ \/ tree[a][t].state \in Terminal /\ tree' = tree
              \/ /\ tree[a][t].state \notin Terminal
                 /\ StateTo(a, t, tree[a][t].state) /\ tree'[a][t].unwritten
<1>0. t \in Ids BY DEF Dirs
<1>1. ~Sdk(a) /\ tree' = [tree EXCEPT ![a] = write_fails(tree[a], t)] BY DEF WriteFails, Trees
<1>2. CASE tree[a][t].state \in Terminal
  <2>1. write_fails(tree[a], t) = tree[a] BY <1>2 DEF write_fails
  <2> QED BY <1>1, <1>2, <2>1 DEF Trees
<1>3. CASE tree[a][t].state \notin Terminal
  <2> DEFINE r == [tree[a][t] EXCEPT !.unwritten = TRUE]
  <2>1. tree[a] \in [Ids -> Task] /\ tree[a][t] \in Task BY <1>0, TaskFields
  <2>2. r \in Task /\ r.state = tree[a][t].state /\ r.incoming = tree[a][t].incoming
        /\ r.artifacts = tree[a][t].artifacts /\ r.result = tree[a][t].result /\ r.unwritten
    BY <2>1 DEF Task
  <2>3. write_fails(tree[a], t) = [tree[a] EXCEPT ![t] = r] BY <1>3 DEF write_fails
  <2> HIDE DEF r
  <2>4. tree' = [tree EXCEPT ![a] = [tree[a] EXCEPT ![t] = r]] BY <1>1, <2>3
  <2>5. TreeTo(a, t, r.state, r.incoming, r.artifacts, r.result) BY <1>0, <2>2, <2>4, TreeSet
  <2>6. tree'[a][t] = r BY <1>0, <2>1, <2>4 DEF Trees
  <2> QED BY <1>1, <1>3, <2>2, <2>5, <2>6 DEF StateTo
<1> QED BY <1>2, <1>3

\* The same for the task in hand, when the write succeeds.
LEMMA SetStateTo ==
    ASSUME tree \in Trees, NEW a \in Agents, NEW s \in task_state_t,
           proc[a].id \in Dirs(tree[a]), SetState(a, s)
    PROVE  StateTo(a, proc[a].id, s) \/ WriteFails(a, proc[a].id)
<1>1. proc[a].id \in Ids BY DEF Dirs
<1>2. CASE tree' = [tree EXCEPT ![a] = task_set_state(@, proc[a].id, s)]
  <2>1. tree' = [tree EXCEPT ![a] = task_set_state(tree[a], proc[a].id, s)] BY <1>2 DEF Trees
  <2> QED BY <1>1, <2>1, StateSet
<1> QED BY <1>2 DEF SetState

\* task_recover_interrupted fails an active task and leaves the others alone.
LEMMA RecoverOneTo ==
    ASSUME tree \in Trees, NEW a \in Agents, NEW t \in Ids,
           \/ tree' = [tree EXCEPT ![a] = recover_one(@, t)]
           \/ tree[a][t].state \in Active /\ WriteFails(a, t)
    PROVE  \/ tree' = tree /\ tree[a][t].state \notin Active
           \/ tree[a][t].state \in Active /\ StateTo(a, t, "failed")
           \/ /\ tree[a][t].state \in Active /\ StateTo(a, t, tree[a][t].state)
              /\ tree'[a][t].unwritten
<1>1. CASE tree[a][t].state \in Active /\ tree' = [tree EXCEPT ![a] = recover_one(@, t)]
  <2>1. t \in Dirs(tree[a]) BY <1>1 DEF Dirs, Active
  <2>2. tree' = [tree EXCEPT ![a] = task_set_state(tree[a], t, "failed")]
    BY <1>1 DEF recover_one, Trees
  <2> QED BY <1>1, <2>1, <2>2, StateSet DEF task_state_t
<1>2. CASE tree[a][t].state \notin Active /\ tree' = [tree EXCEPT ![a] = recover_one(@, t)]
  BY <1>2 DEF recover_one, Trees
<1>3. CASE tree[a][t].state \in Active /\ WriteFails(a, t)
  <2>1. t \in Dirs(tree[a]) /\ tree[a][t].state \notin Terminal BY <1>3 DEF Dirs, Active, Terminal
  <2> QED BY <1>3, <2>1, WriteFailsTo
<1> QED BY <1>1, <1>2, <1>3

\* task_create makes a task with no state, artifact or result.
LEMMA CreateTo ==
    ASSUME tree \in Trees, NEW a \in Agents, NEW t \in Ids, t \notin Dirs(tree[a]),
           NEW i \in Ids \cup {NoId}, tree' = [tree EXCEPT ![a] = task_create_dir(tree[a], t, i)]
    PROVE  TreeTo(a, t, "unset", i, 0, FALSE)
<1>1. 0 \in 0 .. 3 BY SMT
<1>2. NewTask(i) \in Task /\ NewTask(i).state = "unset" /\ NewTask(i).incoming = i
      /\ NewTask(i).artifacts = 0 /\ NewTask(i).result = FALSE
  BY <1>1 DEF NewTask, Task
<1>3. tree' = [tree EXCEPT ![a] = [tree[a] EXCEPT ![t] = NewTask(i)]] BY DEF task_create_dir
<1>4. TreeTo(a, t, NewTask(i).state, NewTask(i).incoming, NewTask(i).artifacts,
             NewTask(i).result)
  BY <1>2, <1>3, TreeSet
<1> QED BY <1>2, <1>4

\* One artifact more.
LEMMA ArtifactTo ==
    ASSUME tree \in Trees, NEW a \in Agents, NEW t \in Ids, tree[a][t].artifacts < 3,
           tree' = [tree EXCEPT ![a][t].artifacts = @ + 1]
    PROVE  TreeTo(a, t, tree[a][t].state, tree[a][t].incoming, tree[a][t].artifacts + 1,
                  tree[a][t].result)
<1> DEFINE n == tree[a][t].artifacts + 1
           r == [tree[a][t] EXCEPT !.artifacts = n]
<1>1. tree[a] \in [Ids -> Task] /\ tree[a][t] \in Task BY TaskFields
<1>2. n \in 0 .. 3 BY TaskFields, SMT
<1>3. tree' = [tree EXCEPT ![a] = [tree[a] EXCEPT ![t] = r]] OBVIOUS
<1> HIDE DEF n
<1>4. r \in Task /\ r.state = tree[a][t].state /\ r.incoming = tree[a][t].incoming
      /\ r.artifacts = n /\ r.result = tree[a][t].result /\ r.unwritten = tree[a][t].unwritten
  BY <1>1, <1>2 DEF Task
<1> HIDE DEF r
<1>5. TreeTo(a, t, r.state, r.incoming, r.artifacts, r.result) BY <1>3, <1>4, TreeSet
<1> QED BY <1>4, <1>5 DEF n

\* The result file of a task is written.
LEMMA ResultTo ==
    ASSUME tree \in Trees, NEW a \in Agents, NEW t \in Ids,
           tree' = [tree EXCEPT ![a][t].result = TRUE]
    PROVE  TreeTo(a, t, tree[a][t].state, tree[a][t].incoming, tree[a][t].artifacts, TRUE)
<1> DEFINE r == [tree[a][t] EXCEPT !.result = TRUE]
<1>1. tree[a] \in [Ids -> Task] /\ tree[a][t] \in Task BY TaskFields
<1>2. tree' = [tree EXCEPT ![a] = [tree[a] EXCEPT ![t] = r]] OBVIOUS
<1>3. r \in Task /\ r.state = tree[a][t].state /\ r.incoming = tree[a][t].incoming
      /\ r.artifacts = tree[a][t].artifacts /\ r.result = TRUE
      /\ r.unwritten = tree[a][t].unwritten
  BY <1>1 DEF Task
<1> HIDE DEF r
<1>4. TreeTo(a, t, r.state, r.incoming, r.artifacts, r.result) BY <1>2, <1>3, TreeSet
<1> QED BY <1>3, <1>4

(***************************************************************************)
(* What a step does to the inboxes: every message in one was there before  *)
(* or is one of the messages M sent in the step.                           *)
(***************************************************************************)
Inboxes == [Agents -> Seq(Message)]

MailTo(M) ==
    /\ inbox' \in Inboxes
    /\ \A b \in Agents : \A i \in DOMAIN inbox'[b] :
         \/ <<b, inbox'[b][i]>> \in M
         \/ \E j \in DOMAIN inbox[b] : inbox'[b][i] = inbox[b][j]

\* What Append adds to a sequence.
LEMMA AppendFacts ==
    ASSUME NEW S, NEW s \in Seq(S), NEW e \in S
    PROVE  /\ Append(s, e) \in Seq(S)
           /\ \A i \in DOMAIN Append(s, e) :
                Append(s, e)[i] = e \/ \E j \in DOMAIN s : Append(s, e)[i] = s[j]
BY SMT

\* What Head and Tail take from a sequence.
LEMMA TailFacts ==
    ASSUME NEW S, NEW s \in Seq(S), s # <<>>
    PROVE  /\ Tail(s) \in Seq(S) /\ Head(s) \in S
           /\ \E j \in DOMAIN s : Head(s) = s[j]
           /\ \A i \in DOMAIN Tail(s) : \E j \in DOMAIN s : Tail(s)[i] = s[j]
<1>1. Tail(s) \in Seq(S) /\ Head(s) \in S /\ 1 \in DOMAIN s /\ Head(s) = s[1] BY SMT
<1>2. ASSUME NEW i \in DOMAIN Tail(s) PROVE \E j \in DOMAIN s : Tail(s)[i] = s[j]
  <2>1. i + 1 \in DOMAIN s /\ Tail(s)[i] = s[i + 1] BY SMT
  <2> QED BY <2>1
<1> QED BY <1>1, <1>2

\* No inbox changes.
LEMMA MailSame == ASSUME inbox \in Inboxes, UNCHANGED inbox PROVE MailTo({})
BY DEF MailTo

\* An inbox is replaced by one with old messages and those of M.
LEMMA MailSet ==
    ASSUME inbox \in Inboxes, NEW a \in Agents, NEW s \in Seq(Message), NEW M,
           inbox' = [inbox EXCEPT ![a] = s],
           \A i \in DOMAIN s : <<a, s[i]>> \in M \/ \E j \in DOMAIN inbox[a] : s[i] = inbox[a][j]
    PROVE  MailTo(M)
<1>1. inbox' \in Inboxes BY DEF Inboxes
<1>2. ASSUME NEW b \in Agents, NEW i \in DOMAIN inbox'[b]
      PROVE  <<b, inbox'[b][i]>> \in M \/ \E j \in DOMAIN inbox[b] : inbox'[b][i] = inbox[b][j]
  <2>1. CASE b = a
    <3>1. inbox'[b] = s BY <2>1 DEF Inboxes
    <3> QED BY <2>1, <3>1
  <2>2. CASE b # a
    <3>1. inbox'[b] = inbox[b] BY <2>2 DEF Inboxes
    <3> QED BY <3>1
  <2> QED BY <2>1, <2>2
<1> QED BY <1>1, <1>2 DEF MailTo

\* An inbox is lost with its process.
LEMMA MailClear ==
    ASSUME inbox \in Inboxes, NEW a \in Agents, inbox' = [inbox EXCEPT ![a] = <<>>]
    PROVE  MailTo({})
<1>1. <<>> \in Seq(Message) /\ DOMAIN <<>> = {} BY SMT
<1> QED BY <1>1, MailSet

\* The first message is taken.
LEMMA MailTake ==
    ASSUME inbox \in Inboxes, NEW a \in Agents, NEW m \in Arrived(a), TakeFirst(a)
    PROVE  /\ MailTo({}) /\ m \in Message /\ proc[a].pc = "idle"
           /\ \E j \in DOMAIN inbox[a] : m = inbox[a][j]
<1>1. proc[a].pc = "idle" /\ inbox[a] # <<>> /\ m = Head(inbox[a]) BY DEF Arrived
<1>2. inbox[a] \in Seq(Message) BY DEF Inboxes
<1>3. /\ Tail(inbox[a]) \in Seq(Message) /\ Head(inbox[a]) \in Message
      /\ \E j \in DOMAIN inbox[a] : Head(inbox[a]) = inbox[a][j]
      /\ \A i \in DOMAIN Tail(inbox[a]) :
           \E j \in DOMAIN inbox[a] : Tail(inbox[a])[i] = inbox[a][j]
  BY <1>1, <1>2, TailFacts, SMT
<1>4. inbox' = [inbox EXCEPT ![a] = Tail(inbox[a])] BY DEF TakeFirst, Inboxes
<1>5. MailTo({}) BY <1>3, <1>4, MailSet
<1> QED BY <1>1, <1>3, <1>5

\* A message arrives.
LEMMA MailAppend ==
    ASSUME inbox \in Inboxes, NEW a \in Agents, NEW m \in Message,
           inbox' = [inbox EXCEPT ![a] = Append(@, m)]
    PROVE  MailTo({<<a, m>>})
<1>1. inbox[a] \in Seq(Message) BY DEF Inboxes
<1>2. /\ Append(inbox[a], m) \in Seq(Message)
      /\ \A i \in DOMAIN Append(inbox[a], m) :
           Append(inbox[a], m)[i] = m \/ \E j \in DOMAIN inbox[a] : Append(inbox[a], m)[i] = inbox[a][j]
  BY <1>1, AppendFacts, SMT
<1> DEFINE s == Append(inbox[a], m)
<1>3. inbox' = [inbox EXCEPT ![a] = s] BY DEF Inboxes
<1>4. s \in Seq(Message) BY <1>2
<1>5. \A i \in DOMAIN s : s[i] = m \/ \E j \in DOMAIN inbox[a] : s[i] = inbox[a][j] BY <1>2
<1> HIDE DEF s
<1> DEFINE M == {<<a, m>>}
<1>6. \A i \in DOMAIN s : <<a, s[i]>> \in M \/ \E j \in DOMAIN inbox[a] : s[i] = inbox[a][j]
  BY <1>5
<1> HIDE DEF M
<1>7. MailTo(M) BY ONLY inbox \in Inboxes, a \in Agents, <1>3, <1>4, <1>6, MailSet
<1> QED BY <1>7 DEF M

\* A delivery adds the message or, over agentfs to nobody, loses it.
LEMMA MailDeliver ==
    ASSUME inbox \in Inboxes, NEW to, NEW m \in Message, inbox' = Deliver(to, m)
    PROVE  \/ MailTo({})
           \/ to \in Agents /\ MailTo({<<to, m>>})
<1>1. CASE Listening(to)
  <2>1. to \in Agents BY <1>1 DEF Listening
  <2>2. inbox' = [inbox EXCEPT ![to] = Append(@, m)] BY <1>1 DEF Deliver
  <2> QED BY <2>1, <2>2, MailAppend
<1>2. CASE ~Listening(to)
  BY <1>2, MailSame DEF Deliver
<1> QED BY <1>1, <1>2

(***************************************************************************)
(* The targets a message goes to: at most MAX_TARGETS of them, all workers. *)
(***************************************************************************)
Rank(S, i) == Cardinality({j \in S : j < i})

\* Of two lines the later one has more before it.
LEMMA RankGrows ==
    ASSUME NEW n \in Nat, NEW S \in SUBSET (1 .. n), NEW i \in S, NEW k \in S, i < k
    PROVE  Rank(S, i) \in Nat /\ Rank(S, k) \in Nat /\ Rank(S, i) < Rank(S, k)
<1> DEFINE A == {j \in S : j < i}
           B == {j \in S : j < k}
<1>1. IsFiniteSet(1 .. n) BY FS_Interval, SMT
<1>2. IsFiniteSet(S) BY <1>1, FS_Subset
<1>3. A \in SUBSET S /\ B \in SUBSET S OBVIOUS
<1>4. IsFiniteSet(A) /\ IsFiniteSet(B) BY <1>2, <1>3, FS_Subset
<1>5. i \notin A /\ A \cup {i} \in SUBSET B
  <2>1. i \in 1 .. n /\ k \in 1 .. n OBVIOUS
  <2>2. i \in Nat /\ k \in Nat BY <2>1, SMT
  <2>3. ASSUME NEW j \in A PROVE j \in B
    <3>1. j \in S /\ j \in 1 .. n /\ j < i OBVIOUS
    <3>2. j < k BY <2>2, <3>1, SMT
    <3> QED BY <3>1, <3>2
  <2>4. ~(i < i) BY <2>2, SMT
  <2> QED BY <2>3, <2>4
<1>6. Cardinality(A) \in Nat /\ Cardinality(B) \in Nat BY <1>4, FS_CardinalityType
<1>7. Rank(S, i) = Cardinality(A) /\ Rank(S, k) = Cardinality(B) BY DEF Rank
<1> HIDE DEF A, B
<1>8. Cardinality(A \cup {i}) = Cardinality(A) + 1 BY <1>4, <1>5, FS_AddElement
<1>9. Cardinality(A \cup {i}) <= Cardinality(B) BY <1>4, <1>5, FS_Subset
<1>10. Cardinality(A) < Cardinality(B) BY <1>6, <1>8, <1>9, SMT
<1> QED BY <1>6, <1>7, <1>10

\* collect_send_targets stops at MAX_TARGETS: the lines it takes have distinct ranks.
LEMMA CollectedSize ==
    ASSUME NEW n \in Nat, NEW S \in SUBSET (1 .. n)
    PROVE  IsFiniteSet(Collected(S)) /\ Cardinality(Collected(S)) <= MAX_TARGETS
<1> DEFINE C == Collected(S)
           T == 0 .. MAX_TARGETS - 1
           f == [i \in C |-> Rank(S, i)]
<1>0. MAX_TARGETS \in Nat BY DelegationAssumption DEF DelegationAssumption
<1>1. IsFiniteSet(T) /\ Cardinality(T) = MAX_TARGETS
  <2>1. 0 \in Int /\ MAX_TARGETS - 1 \in Int BY <1>0, SMT
  <2>2. IsFiniteSet(T) /\ Cardinality(T) = IF 0 > MAX_TARGETS - 1 THEN 0 ELSE MAX_TARGETS - 1 - 0 + 1
    BY <2>1, FS_Interval
  <2> HIDE DEF T
  <2> QED BY <1>0, <2>2, SMT
<1>2. ASSUME NEW i \in C PROVE i \in S /\ Rank(S, i) \in T
  <2>1. i \in S /\ Rank(S, i) < MAX_TARGETS BY DEF Collected, Rank
  <2>2. IsFiniteSet(1 .. n) BY FS_Interval, SMT
  <2>3. {j \in S : j < i} \in SUBSET (1 .. n) OBVIOUS
  <2>4. IsFiniteSet({j \in S : j < i}) BY <2>2, <2>3, FS_Subset
  <2>5. Rank(S, i) \in Nat BY <2>4, FS_CardinalityType DEF Rank
  <2> QED BY <1>0, <2>1, <2>5, SMT
<1>3. f \in [C -> T] BY <1>2
<1>4. ASSUME NEW i \in C, NEW k \in C, Rank(S, i) = Rank(S, k) PROVE i = k
  <2>0. i \in S /\ k \in S /\ i \in 1 .. n /\ k \in 1 .. n BY <1>2
  <2>1. i \in S /\ k \in S /\ i \in Nat /\ k \in Nat BY <2>0, SMT
  <2>2. i < k \/ k < i \/ i = k BY <2>1, SMT
  <2>3. ~(i < k) BY <1>4, <2>1, RankGrows, SMT
  <2>4. ~(k < i) BY <1>4, <2>1, RankGrows, SMT
  <2> QED BY <2>2, <2>3, <2>4
<1>5. f \in Injection(C, T)
  <2>1. \A i, k \in DOMAIN f : f[i] = f[k] => i = k BY <1>3, <1>4
  <2> QED BY <1>3, <2>1 DEF Injection, IsInjective
<1> HIDE DEF f, T, C
<1>6. IsFiniteSet(C) /\ Cardinality(C) <= Cardinality(T) BY <1>1, <1>5, FS_Injection
<1> QED BY <1>1, <1>6 DEF C

\* So what a policy file yields, denied targets taken out, fits into targets[].
LEMMA TargetsSize ==
    ASSUME deployment \in Deployments, NEW lines \in deployment.policies
    PROVE  LET S == collect_send_targets(lines)
           IN  S \in SUBSET (Nat \X Workers) /\ IsFiniteSet(S) /\ Cardinality(S) <= MAX_TARGETS
<1> DEFINE P == PolicyLines(lines, TRUE, "send")
           S == collect_send_targets(lines)
<1>0. MAX_TARGETS \in Nat BY DelegationAssumption DEF DelegationAssumption
<1>1. /\ lines \in Seq(PolicyLine)
      /\ \A i \in DOMAIN lines :
           lines[i].allow /\ lines[i].op = "send" => lines[i].name \in Workers \cup {"*"}
  BY DelegationAssumption DEF DelegationAssumption
<1>2. Len(lines) \in Nat /\ DOMAIN lines = 1 .. Len(lines) BY <1>1, SMT
<1>3. P \in SUBSET (1 .. Len(lines)) BY <1>2 DEF PolicyLines
<1>4. IsFiniteSet(Collected(P)) /\ Cardinality(Collected(P)) <= MAX_TARGETS
  BY <1>2, <1>3, CollectedSize
<1>5. ASSUME NEW i \in Collected(P) PROVE i \in Nat /\ lines[i].name \in Workers
  <2>1. i \in P BY DEF Collected
  <2>2. i \in Nat
    <3>1. i \in 1 .. Len(lines) BY <1>3, <2>1
    <3> QED BY <1>2, <3>1, SMT
  <2>3. i \in DOMAIN lines /\ lines[i].allow = TRUE /\ lines[i].op = "send" /\ lines[i].name # "*"
    BY <2>1 DEF PolicyLines
  <2> QED BY <1>1, <2>2, <2>3
<1>6. ASSUME NEW f \in S
      PROVE \E i \in Collected(P) : f = <<i, lines[i].name>>
  BY DEF collect_send_targets
<1>7. S \in SUBSET (Nat \X Workers)
  <2>1. ASSUME NEW f \in S PROVE f \in Nat \X Workers
    <3>1. PICK i \in Collected(P) : f = <<i, lines[i].name>> BY <1>6
    <3>2. i \in Nat /\ lines[i].name \in Workers BY <1>5
    <3> QED BY <3>1, <3>2
  <2> QED BY <2>1
<1> DEFINE g == [f \in S |-> f[1]]
<1>8. g \in [S -> Collected(P)]
  <2>1. ASSUME NEW f \in S PROVE f[1] \in Collected(P)
    <3>1. PICK i \in Collected(P) : f = <<i, lines[i].name>> BY <1>6
    <3>2. f[1] = i BY <3>1
    <3> QED BY <3>2
  <2> QED BY <2>1
<1>9. ASSUME NEW f \in S, NEW h \in S, f[1] = h[1] PROVE f = h
  <2>1. PICK i \in Collected(P) : f = <<i, lines[i].name>> BY <1>6
  <2>2. PICK k \in Collected(P) : h = <<k, lines[k].name>> BY <1>6
  <2>3. f[1] = i /\ h[1] = k BY <2>1, <2>2
  <2> QED BY <1>9, <2>1, <2>2, <2>3
<1>10. g \in Injection(S, Collected(P))
  <2>1. \A f, h \in DOMAIN g : g[f] = g[h] => f = h BY <1>8, <1>9
  <2> QED BY <1>8, <2>1 DEF Injection, IsInjective
<1> HIDE DEF g, S
<1>11. IsFiniteSet(S) /\ Cardinality(S) <= Cardinality(Collected(P))
  BY <1>4, <1>10, FS_Injection
<1>12. Cardinality(S) \in Nat /\ Cardinality(Collected(P)) \in Nat
  BY <1>4, <1>11, FS_CardinalityType
<1>13. \A x, y \in Nat : x <= y /\ y <= MAX_TARGETS => x <= MAX_TARGETS BY <1>0, SMT
<1>14. Cardinality(S) <= MAX_TARGETS BY <1>4, <1>11, <1>12, <1>13
<1> QED BY <1>7, <1>11, <1>14 DEF S

\* One target less, whether it was sent to or not.
LEMMA TargetsLess ==
    ASSUME NEW S, IsFiniteSet(S), NEW f \in S, NEW n \in Nat, Cardinality(S) + n <= MAX_TARGETS
    PROVE  /\ IsFiniteSet(S \ {f}) /\ Cardinality(S \ {f}) + n <= MAX_TARGETS
           /\ Cardinality(S \ {f}) + (n + 1) <= MAX_TARGETS /\ n + 1 \in 0 .. MAX_TARGETS
<1>0. MAX_TARGETS \in Nat BY DelegationAssumption DEF DelegationAssumption
<1>1. IsFiniteSet(S \ {f}) /\ Cardinality(S \ {f}) = Cardinality(S) - 1 BY FS_RemoveElement
<1>2. Cardinality(S) \in Nat /\ Cardinality(S \ {f}) \in Nat BY <1>1, FS_CardinalityType
<1> QED BY <1>0, <1>1, <1>2, SMT

\* No target is within the limit.
LEMMA NoTargets == IsFiniteSet({}) /\ Cardinality({}) + 0 <= MAX_TARGETS
<1>0. MAX_TARGETS \in Nat BY DelegationAssumption DEF DelegationAssumption
<1>1. IsFiniteSet({}) /\ Cardinality({}) = 0 BY FS_EmptySet
<1> QED BY <1>0, <1>1, SMT

\* A count of zero means that nobody is pending.
LEMMA NonePending ==
    ASSUME NEW P, IsFiniteSet(P), NEW t, NEW w, pending_count_for_task(P, t) = 0
    PROVE  <<t, w>> \notin P
<1> DEFINE F == {f \in P : f[1] = t}
<1>1. F \in SUBSET P OBVIOUS
<1>2. IsFiniteSet(F) BY <1>1, FS_Subset
<1>3. Cardinality(F) = 0 BY DEF pending_count_for_task
<1>4. F = {} BY <1>2, <1>3, FS_EmptySet
<1>5. <<t, w>>[1] = t OBVIOUS
<1> QED BY <1>4, <1>5

\* The scan of a restarted agent finds every task, if they are no more than CAP.
LEMMA AllVisited ==
    ASSUME MaxTask <= CAP, NEW tr \in [Ids -> Task], NEW ids \in task_iterate(tr)
    PROVE  ids = Dirs(tr)
<1>0. MaxTask \in Nat /\ CAP \in Nat BY TasksAssumption DEF TasksAssumption
<1>1. Dirs(tr) \in SUBSET (1 .. MaxTask) BY DEF Dirs, Ids
<1>2. IsFiniteSet(1 .. MaxTask) /\ Cardinality(1 .. MaxTask) = MaxTask
  <2>1. 1 \in Int /\ MaxTask \in Int BY <1>0, SMT
  <2>2. /\ IsFiniteSet(1 .. MaxTask)
        /\ Cardinality(1 .. MaxTask) = IF 1 > MaxTask THEN 0 ELSE MaxTask - 1 + 1
    BY <2>1, FS_Interval
  <2> QED BY <1>0, <2>2, SMT
<1>3. IsFiniteSet(Dirs(tr)) /\ Cardinality(Dirs(tr)) <= MaxTask BY <1>1, <1>2, FS_Subset
<1>4. Cardinality(Dirs(tr)) \in Nat BY <1>3, FS_CardinalityType
<1>5. Cardinality(Dirs(tr)) <= CAP BY <1>0, <1>3, <1>4, SMT
<1> QED BY <1>5 DEF task_iterate

\* task_iterate visits tasks.
LEMMA Visited == ASSUME NEW tr, NEW ids \in task_iterate(tr) PROVE ids \in SUBSET Ids
BY DEF task_iterate, Dirs

(***************************************************************************)
(* Who is who.                                                             *)
(***************************************************************************)
LEMMA Who ==
    /\ Fan \in Agents /\ Workers \subseteq Agents /\ Fan \notin Workers
    /\ \A a \in Agents : a # Fan => a \in Workers
    /\ Operator \notin Agents /\ Unknown \notin Agents /\ Nobody \notin Agents
BY DelegationAssumption DEF DelegationAssumption, Agents

\* The fan-out agent is fanout-agent.c.
LEMMA FanIsC == ASSUME deployment \in Deployments PROVE ~Sdk(Fan)
BY DelegationAssumption DEF DelegationAssumption, Sdk

\* What TypeOK says of the variables, by name.
LEMMA Typed ==
    ASSUME TypeOK
    PROVE  /\ proc \in [Agents -> Process] /\ inbox \in Inboxes /\ tree \in Trees
           /\ deployment \in Deployments
BY DEF TypeOK, Inboxes, Trees

\* A step that leaves table and bounds alone and keeps the other types keeps TypeOK.
LEMMA TypedNext ==
    ASSUME TypeOK, proc' \in [Agents -> Process], inbox' \in Inboxes, tree' \in Trees,
           next' \in [Agents -> Ids \cup {0}], UNCHANGED <<Table, Bounds>>
    PROVE  TypeOK'
<1>1. /\ pending' = pending /\ tracked' = tracked /\ answered' = answered
      /\ deployment' = deployment /\ requests' = requests /\ crashes' = crashes
  BY DEF Table, Bounds
<1> QED BY <1>1 DEF TypeOK, Inboxes, Trees

(***************************************************************************)
(* What a step leaves in the trees: no directory goes, no task changes the *)
(* message it came from, and in a reviewer's tree a task that ended with   *)
(* all it should have, or that a write to failed, stays one.               *)
(***************************************************************************)
KeptTask(a, t) ==
    t \in Dirs(tree[a]) =>
       /\ t \in Dirs(tree'[a]) /\ tree'[a][t].incoming = tree[a][t].incoming
       /\ a \in Workers /\ Ended(a, t) => Ended(a, t)'

Kept == deployment' = deployment /\ \A a \in Agents, t \in Ids : KeptTask(a, t)

\* A step that leaves the trees alone takes nothing off record.
LEMMA KeptSame == ASSUME UNCHANGED <<tree, deployment>> PROVE Kept
BY DEF Kept, KeptTask, Ended, Sdk

\* A deployment does not change.
LEMMA SdkSame == ASSUME deployment' = deployment, NEW a PROVE Sdk(a)' <=> Sdk(a)
BY DEF Sdk

\* A step on one task takes nothing off record, if it keeps the incoming id and does
\* not touch an ended reviewer's task.
LEMMA KeptTree ==
    ASSUME tree \in Trees, NEW a \in Agents, NEW t \in Ids, NEW s, NEW i, NEW n, NEW r,
           TreeTo(a, t, s, i, n, r), deployment' = deployment, s # "none",
           t \in Dirs(tree[a]) =>
              /\ i = tree[a][t].incoming
              /\ a \in Workers => Sdk(a) \/ tree[a][t].state \notin Terminal
    PROVE  Kept
<1>1. ASSUME NEW b \in Agents, NEW u \in Ids, b # a \/ u # t PROVE KeptTask(b, u)
  <2>1. tree'[b][u] = tree[b][u] BY <1>1 DEF TreeTo
  <2> QED BY <2>1 DEF KeptTask, Ended, Sdk, Dirs
<1>2. KeptTask(a, t)
  <2> SUFFICES ASSUME t \in Dirs(tree[a])
               PROVE  /\ t \in Dirs(tree'[a]) /\ tree'[a][t].incoming = tree[a][t].incoming
                      /\ a \in Workers /\ Ended(a, t) => Ended(a, t)'
    BY DEF KeptTask
  <2>1. /\ tree'[a][t].state = s /\ tree'[a][t].incoming = i
        /\ tree[a][t].unwritten => tree'[a][t].unwritten
    BY DEF TreeTo
  <2>2. t \in Dirs(tree'[a]) BY <2>1 DEF Dirs
  <2>3. ASSUME a \in Workers, Ended(a, t) PROVE Ended(a, t)'
    <3>1. Sdk(a) \/ tree[a][t].unwritten BY <2>3 DEF Ended, Terminal
    <3> QED BY <2>1, <3>1 DEF Ended, Sdk
  <2> QED BY <2>1, <2>2, <2>3
<1> QED BY <1>1, <1>2 DEF Kept

\* An answer on record stays on record.
LEMMA RecordKept ==
    ASSUME Kept, NEW w \in Workers, NEW t, OnRecord(w, t) PROVE OnRecord(w, t)'
<1>1. PICK own \in Ids : Recorded(w, own, t) BY DEF OnRecord
<1>2. w \in Agents BY Who
<1>3. KeptTask(w, own) BY <1>2 DEF Kept
<1>4. Recorded(w, own, t)' BY <1>1, <1>3 DEF Recorded, KeptTask
<1> QED BY <1>4 DEF OnRecord

\* A task directory is not removed.
LEMMA DirKept ==
    ASSUME Kept, NEW a \in Agents, NEW t \in Dirs(tree[a]) PROVE t \in Dirs(tree'[a])
<1>1. t \in Ids BY DEF Dirs
<1> QED BY <1>1 DEF Kept, KeptTask

\* What may be on its way to an agent may be so later.
LEMMA ExpectedKept ==
    ASSUME Kept, NEW a, NEW m, Expected(a, m) PROVE Expected(a, m)'
<1>0. deployment' = deployment BY DEF Kept
<1>1. CASE FromOperator(m) /\ ~Sdk(a) BY <1>0, <1>1 DEF Expected, FromOperator, Sdk
<1>2. CASE FromFan(m) /\ a \in Workers
  BY <1>2, DirKept, Who DEF Expected, FromFan
<1>3. CASE FromWorker(m) /\ a = Fan
  <2>1. m.id \in Dirs(tree'[Fan]) BY <1>3, DirKept, Who DEF FromWorker
  <2>2. OnRecord(m.from, m.id)' BY <1>3, RecordKept DEF FromWorker
  <2>3. FromWorker(m)' BY <1>0, <1>3, <2>1, <2>2 DEF FromWorker, Sdk
  <2> QED BY <1>3, <2>3 DEF Expected
<1> QED BY <1>1, <1>2, <1>3 DEF Expected

(***************************************************************************)
(* What it takes to preserve the parts of the invariant.                   *)
(***************************************************************************)
Agree == (\A a \in Agents : InHand(a)) /\ Mail /\ Ledger /\ Posted

\* An agent that does nothing still has in hand what it had.
LEMMA InHandSame ==
    ASSUME deployment' = deployment, NEW b \in Agents, proc'[b] = proc[b], tree'[b] = tree[b],
           InHand(b)
    PROVE  InHand(b)'
BY DEF InHand, Located, Staged, Reached, Prepared, Ended, Sdk

\* So only the agent that steps has to be looked at.
LEMMA InHandOthers ==
    ASSUME deployment' = deployment, NEW a \in Agents,
           \A b \in Agents \ {a} : proc'[b] = proc[b] /\ tree'[b] = tree[b],
           \A b \in Agents : InHand(b), InHand(a)'
    PROVE  \A b \in Agents : InHand(b)'
BY InHandSame

\* The inboxes and the messages in hand stay as expected, if the new messages are.
LEMMA MailNext ==
    ASSUME Mail, Kept, NEW a \in Agents, NEW M, MailTo(M),
           \A b \in Agents, m \in Message : <<b, m>> \in M => Expected(b, m)',
           \A b \in Agents \ {a} : proc'[b] = proc[b],
           a \in Workers /\ proc'[a].pc \in Busy \cup {"create"} => Expected(a, proc[a].msg)'
    PROVE  Mail'
<1>1. ASSUME NEW b \in Agents, NEW i \in DOMAIN inbox'[b], NEW m, m = inbox'[b][i]
      PROVE  Expected(b, m)'
  <2>1. m \in Message
    <3>1. inbox'[b] \in Seq(Message) BY DEF MailTo, Inboxes
    <3> QED BY <1>1, <3>1, SMT
  <2>2. CASE <<b, m>> \in M BY <2>1, <2>2
  <2>3. ASSUME NEW j \in DOMAIN inbox[b], m = inbox[b][j] PROVE Expected(b, m)'
    <3>1. Expected(b, m) BY <2>3 DEF Mail
    <3> QED BY <3>1, ExpectedKept
  <2> QED BY <1>1, <2>2, <2>3 DEF MailTo
<1>2. ASSUME NEW w \in Workers, proc'[w].pc \in Busy \cup {"create"}, NEW m, m = proc'[w].msg
      PROVE  Expected(w, m)'
  <2>1. CASE w = a BY <1>2, <2>1
  <2>2. CASE w # a
    <3>1. proc'[w] = proc[w] BY <2>2, Who
    <3>2. Expected(w, m) BY <1>2, <3>1 DEF Mail
    <3> QED BY <3>2, ExpectedKept
  <2> QED BY <2>1, <2>2
<1>3. ASSUME NEW b \in Agents, NEW i \in DOMAIN inbox'[b] PROVE Expected(b, inbox[b][i])'
  BY <1>1, <1>3
<1>4. ASSUME NEW w \in Workers, proc'[w].pc \in Busy \cup {"create"} PROVE Expected(w, proc[w].msg)'
  BY <1>2, <1>4
<1> QED BY <1>3, <1>4 DEF Mail

\* The table's invariant holds after a step that neither touches it nor completes a
\* task of the fan-out agent.
LEMMA LedgerSame ==
    ASSUME Ledger, Kept, UNCHANGED Table,
           \A t \in Ids : tree'[Fan][t].state = "completed" => tree[Fan][t].state = "completed"
    PROVE  Ledger'
<1>1. pending' = pending /\ tracked' = tracked /\ answered' = answered BY DEF Table
<1>2. ASSUME NEW t \in Ids, NEW w \in Workers
      PROVE  /\ <<t, w>> \in tracked \cup pending \cup answered => t \in Dirs(tree'[Fan])
             /\ <<t, w>> \in answered => OnRecord(w, t)'
             /\ <<t, w>> \in pending => tree'[Fan][t].state # "completed"
  <2>1. /\ <<t, w>> \in tracked \cup pending \cup answered => t \in Dirs(tree[Fan])
        /\ <<t, w>> \in answered => OnRecord(w, t)
        /\ <<t, w>> \in pending => tree[Fan][t].state # "completed"
    BY DEF Ledger
  <2> QED BY <2>1, DirKept, RecordKept, Who
<1> QED BY <1>1, <1>2 DEF Ledger

\* The fan-out agent did nothing.
LEMMA PostedSame ==
    ASSUME Posted, UNCHANGED Table, proc'[Fan] = proc[Fan], tree'[Fan] = tree[Fan]
    PROVE  Posted'
BY DEF Posted, Table

\* The fan-out agent is not in the middle of a task.
LEMMA PostedQuiet ==
    ASSUME proc'[Fan].pc \notin {"settle", "create", "queue", "run", "plan", "send", "track"} PROVE Posted'
BY DEF Posted

(***************************************************************************)
(* One step of one agent: what it must show for the whole system.          *)
(***************************************************************************)
OneStep(a, M) ==
    /\ proc' \in [Agents -> Process] /\ tree' \in Trees /\ MailTo(M)
    /\ \A b \in Agents \ {a} : proc'[b] = proc[b] /\ tree'[b] = tree[b]

Counters == next' \in [Agents -> Ids \cup {0}]

\* A step of one agent that does not touch the table: what is left to show is about
\* that agent and what it sent.
LEMMA StepNext ==
    ASSUME DelegationInv, NEW a \in Agents, NEW M, OneStep(a, M), Kept, UNCHANGED Table,
           \A b \in Agents, m \in Message : <<b, m>> \in M => Expected(b, m)',
           a \in Workers /\ proc'[a].pc \in Busy \cup {"create"} => Expected(a, proc[a].msg)',
           InHand(a)',
           a = Fan => /\ Posted'
                      /\ \A t \in Ids : tree'[Fan][t].state = "completed" =>
                                          tree[Fan][t].state = "completed"
    PROVE  Agree'
<1>0. deployment' = deployment BY DEF Kept
<1>1. \A b \in Agents : InHand(b)' BY <1>0, InHandOthers DEF DelegationInv, OneStep
<1>2. Mail' BY MailNext DEF DelegationInv, OneStep
<1>3. Ledger'
  <2>1. \A t \in Ids : tree'[Fan][t].state = "completed" => tree[Fan][t].state = "completed"
    BY Who DEF OneStep
  <2> QED BY <2>1, LedgerSame DEF DelegationInv
<1>4. Posted'
  <2>1. CASE a # Fan
    <3>1. proc'[Fan] = proc[Fan] /\ tree'[Fan] = tree[Fan] BY <2>1, Who DEF OneStep
    <3> QED BY <3>1, PostedSame DEF DelegationInv
  <2> QED BY <2>1
<1> QED BY <1>1, <1>2, <1>3, <1>4 DEF Agree

\* The same with types and counters.
LEMMA InvNext ==
    ASSUME DelegationInv, Agree', NEW a, NEW M, OneStep(a, M), Counters,
           UNCHANGED <<Table, Bounds>>
    PROVE  DelegationInv'
<1>1. TypeOK' BY TypedNext DEF DelegationInv, OneStep, MailTo, Counters
<1> QED BY <1>1 DEF DelegationInv, Agree

\* No id was taken.
LEMMA NextSame == ASSUME TypeOK, UNCHANGED next PROVE Counters
BY DEF TypeOK, Counters

\* EndedTasksStay, for one step.
Stays ==
    \A a \in Agents, t \in Ids :
       ~Sdk(a) /\ tree[a][t].state \in Terminal =>
          \/ tree'[a][t] = tree[a][t]
          \/ /\ a = Fan /\ \E w \in Workers : <<t, w>> \in answered
             /\ tree'[a][t] = [tree[a][t] EXCEPT !.state = "completed"]

\* The scan visits every task unless there are more than CAP.
OwnedKept == MaxTask <= CAP /\ Owned => Owned'

StepOK == DelegationInv' /\ Stays /\ OwnedKept

\* No tree changes.
LEMMA StaysSame == ASSUME UNCHANGED tree PROVE Stays
BY DEF Stays

\* A step on a task that had not ended, or of an SDK agent, changes no ended task.
LEMMA StaysTree ==
    ASSUME NEW a \in Agents, NEW t \in Ids, NEW s, NEW i, NEW n, NEW r,
           TreeTo(a, t, s, i, n, r), Sdk(a) \/ tree[a][t].state \notin Terminal
    PROVE  Stays
<1> SUFFICES ASSUME NEW b \in Agents, NEW u \in Ids, ~Sdk(b), tree[b][u].state \in Terminal
             PROVE  tree'[b][u] = tree[b][u]
  BY DEF Stays
<1>1. b # a \/ u # t OBVIOUS
<1> QED BY <1>1 DEF TreeTo

\* The other agents own what they owned.
LEMMA OwnedOthers ==
    ASSUME NEW a \in Agents, deployment' = deployment, a = Fan \/ UNCHANGED Table,
           \A b \in Agents \ {a} : proc'[b] = proc[b] /\ tree'[b] = tree[b],
           Owned => \A t \in Ids : OwnedTask(a, t)'
    PROVE  OwnedKept
<1> SUFFICES ASSUME Owned, NEW b \in Agents, b # a, NEW t \in Ids PROVE OwnedTask(b, t)'
  BY DEF OwnedKept, Owned
<1>1. OwnedTask(b, t) BY DEF Owned
<1>2. proc'[b] = proc[b] /\ tree'[b] = tree[b] OBVIOUS
<1>3. b = Fan => pending' = pending BY DEF Table
<1> QED BY <1>1, <1>2, <1>3 DEF OwnedTask, Sdk

\* An agent that is down owns nothing.
LEMMA OwnedDown ==
    ASSUME NEW a \in Agents, deployment' = deployment, UNCHANGED Table, proc'[a].pc = "down",
           \A b \in Agents \ {a} : proc'[b] = proc[b] /\ tree'[b] = tree[b]
    PROVE  OwnedKept
<1>1. \A t \in Ids : OwnedTask(a, t)' BY DEF OwnedTask
<1> QED BY <1>1, OwnedOthers

\* A task an agent has dealt with when it turns to the next message.
Settled(a) ==
    \/ Sdk(a) \/ tree[a][proc[a].id].unwritten
    \/ tree[a][proc[a].id].state \notin Active
    \/ a = Fan /\ tree[a][proc[a].id].state = "delegated"
               /\ \E w \in Workers : <<proc[a].id, w>> \in pending

\* An agent that has nothing in hand, or nothing active, owns what it owned.
LEMMA OwnedRest ==
    ASSUME NEW a \in Agents, UNCHANGED <<tree, deployment, Table>>,
           proc[a].pc = "recover" => proc[a].todo = {}, proc[a].pc = "down" => Sdk(a),
           proc[a].pc \in Busy => Settled(a),
           \A b \in Agents \ {a} : proc'[b] = proc[b]
    PROVE  OwnedKept
<1>1. ASSUME Owned, NEW t \in Ids PROVE OwnedTask(a, t)'
  <2>1. OwnedTask(a, t) BY <1>1 DEF Owned
  <2>2. pending' = pending BY DEF Table
  <2> QED BY <2>1, <2>2 DEF OwnedTask, Settled, Sdk
<1> QED BY <1>1, OwnedOthers

(***************************************************************************)
(* Steps to a place without a task in hand.                                *)
(***************************************************************************)
Resting == {"down", "recover", "idle", "close"}

\* An agent without a task has in hand what its place says.
LEMMA RestInHand ==
    ASSUME NEW a \in Agents, UNCHANGED deployment,
           Sdk(a) => \A t \in Dirs(tree'[a]) : tree'[a][t].incoming = t,
           NEW pc \in Resting \cup {"create"}, NEW m, NEW todo, NEW targets, NEW sent,
           NEW ok, a \in Workers => ok = FALSE,
           ProcTo(a, pc, m, NoId, todo, targets, sent, ok),
           IsFiniteSet(targets), Cardinality(targets) + sent <= MAX_TARGETS
    PROVE  InHand(a)'
<1>1. pc \notin Busy BY DEF Resting, Busy
<1>2. Located(a)' BY <1>1 DEF ProcTo, Located, Busy
<1>3. Staged(a)' BY <1>1 DEF ProcTo, Staged, Busy
<1>4. a \in Workers => Prepared(a)' BY <1>1 DEF ProcTo, Prepared, Busy, Sdk
<1> QED BY <1>2, <1>3, <1>4 DEF InHand

\* A step of an agent that has no task after it, and changes no tree and no table.
LEMMA Rest ==
    ASSUME DelegationInv, NEW a \in Agents, UNCHANGED <<tree, Table, deployment>>,
           NEW pc \in Resting, NEW m, NEW todo, NEW targets, NEW sent,
           NEW ok, a \in Workers => ok = FALSE,
           ProcTo(a, pc, m, NoId, todo, targets, sent, ok),
           IsFiniteSet(targets), Cardinality(targets) + sent <= MAX_TARGETS,
           NEW M, MailTo(M), \A b \in Agents, k \in Message : <<b, k>> \in M => Expected(b, k)'
    PROVE  Agree' /\ Stays /\ OneStep(a, M)
<1>0. tree \in Trees BY Typed DEF DelegationInv
<1>1. Kept BY KeptSame
<1>2. InHand(a) BY DEF DelegationInv
<1>3. InHand(a)'
  <2>1. Sdk(a) => a \in Workers BY FanIsC, Who, Typed DEF DelegationInv
  <2>2. Sdk(a) => \A t \in Dirs(tree'[a]) : tree'[a][t].incoming = t
    BY <1>2, <2>1 DEF InHand, Prepared
  <2> QED BY <2>2, RestInHand
<1>4. OneStep(a, M) BY <1>0 DEF OneStep, ProcTo
<1>5. proc'[a].pc = pc /\ pc \notin Busy \cup {"create"} BY DEF ProcTo, Resting, Busy
<1>6. a = Fan => Posted' BY <1>5, PostedQuiet DEF Resting
<1>7. Agree' BY <1>1, <1>3, <1>4, <1>5, <1>6, StepNext
<1> QED BY <1>4, <1>7, StaysSame

\* The same for the usual record.
LEMMA RestAt ==
    ASSUME DelegationInv, NEW a \in Agents, UNCHANGED <<tree, Table, Bounds>>,
           NEW pc \in Resting, NEW todo,
           ProcTo(a, pc, NoMessage, NoId, todo, {}, 0, FALSE), Counters,
           NEW M, MailTo(M), \A b \in Agents, k \in Message : <<b, k>> \in M => Expected(b, k)',
           OwnedKept
    PROVE  StepOK
<1>1. UNCHANGED deployment BY DEF Bounds
<1>2. Agree' /\ Stays /\ OneStep(a, M) BY <1>1, NoTargets, Rest
<1>3. DelegationInv' BY <1>2, InvNext
<1> QED BY <1>2, <1>3 DEF StepOK

\* Start of a C agent: the scan is yet to come.
LEMMA StartOK == ASSUME DelegationInv, NEW a \in Agents, Start(a) PROVE StepOK
<1>0. proc \in [Agents -> Process] /\ inbox \in Inboxes /\ tree \in Trees
  BY Typed DEF DelegationInv
<1>1. UNCHANGED <<inbox, tree, next, Table, Bounds>> BY DEF Start
<1>2. PICK ids \in task_iterate(tree[a]) :
        proc' = [proc EXCEPT ![a] = [At("recover") EXCEPT !.todo = ids]]
  BY DEF Start
<1>3. ids \in SUBSET Ids BY Visited
<1>4. ProcTo(a, "recover", NoMessage, NoId, ids, {}, 0, FALSE)
  BY <1>0, <1>2, <1>3, AtTodoTo DEF Places
<1>5. MailTo({}) BY <1>0, <1>1, MailSame
<1>6. OwnedKept
  <2>1. ASSUME MaxTask <= CAP, NEW t \in Ids PROVE OwnedTask(a, t)'
    <3>1. tree[a] \in [Ids -> Task] BY <1>0 DEF Trees
    <3>2. ids = Dirs(tree[a]) BY <2>1, <3>1, AllVisited
    <3>3. tree[a][t].state \in Active => t \in ids BY <3>2 DEF Dirs, Active
    <3>4. tree'[a] = tree[a] /\ proc'[a].pc = "recover" /\ proc'[a].todo = ids
      BY <1>1, <1>4 DEF ProcTo
    <3> QED BY <3>3, <3>4 DEF OwnedTask
  <2>2. /\ deployment' = deployment /\ UNCHANGED Table
        /\ \A b \in Agents \ {a} : proc'[b] = proc[b] /\ tree'[b] = tree[b]
    BY <1>1, <1>4 DEF Bounds, ProcTo
  <2>3. CASE MaxTask <= CAP BY <2>1, <2>2, <2>3, OwnedOthers
  <2> QED BY <2>3 DEF OwnedKept
<1>7. Counters BY <1>1, NextSame DEF DelegationInv
<1> QED BY <1>1, <1>4, <1>5, <1>6, <1>7, RestAt DEF Resting

\* Start of an SDK agent, which scans nothing.
LEMMA StartSdkOK == ASSUME DelegationInv, NEW a \in Agents, StartSdk(a) PROVE StepOK
<1>0. proc \in [Agents -> Process] /\ inbox \in Inboxes BY Typed DEF DelegationInv
<1>1. /\ proc[a].pc = "down" /\ Sdk(a) /\ UNCHANGED <<inbox, tree, next, Table, Bounds>>
      /\ proc' = [proc EXCEPT ![a] = At("idle")]
  BY DEF StartSdk, Done
<1>2. ProcTo(a, "idle", NoMessage, NoId, {}, {}, 0, FALSE) BY <1>0, <1>1, AtTo DEF Places
<1>3. MailTo({}) BY <1>0, <1>1, MailSame
<1>4. OwnedKept BY <1>1, <1>2, OwnedRest DEF ProcTo, Bounds, Busy
<1>5. Counters BY <1>1, NextSame DEF DelegationInv
<1> QED BY <1>1, <1>2, <1>3, <1>4, <1>5, RestAt DEF Resting

\* An agent leaves: what it had in its inbox is lost.
LEMMA CloseOK == ASSUME DelegationInv, NEW a \in Agents, Close(a) PROVE StepOK
<1>0. proc \in [Agents -> Process] /\ inbox \in Inboxes BY Typed DEF DelegationInv
<1>1. /\ proc[a].pc = "close" /\ UNCHANGED <<tree, Table, Bounds>>
      /\ proc' = [proc EXCEPT ![a] = At("down")] /\ inbox' = [inbox EXCEPT ![a] = <<>>]
      /\ next' = [next EXCEPT ![a] = 0]
  BY DEF Close, Exit
<1>2. ProcTo(a, "down", NoMessage, NoId, {}, {}, 0, FALSE) BY <1>0, <1>1, AtTo DEF Places
<1>3. MailTo({}) BY <1>0, <1>1, MailClear
<1>4. OwnedKept BY <1>1, <1>2, OwnedDown DEF ProcTo, Bounds
<1>5. Counters BY <1>1 DEF DelegationInv, TypeOK, Counters
<1> QED BY <1>1, <1>2, <1>3, <1>4, <1>5, RestAt DEF Resting

\* An agent is killed anywhere: inbox, message and task in hand are forgotten, files
\* stay.
LEMMA CrashOK == ASSUME DelegationInv, NEW a \in Agents, Crash(a) PROVE StepOK
<1>0. proc \in [Agents -> Process] /\ inbox \in Inboxes BY Typed DEF DelegationInv
<1>1. /\ crashes < MaxCrashes /\ crashes' = crashes + 1
      /\ UNCHANGED <<tree, Table, deployment, requests>>
      /\ proc' = [proc EXCEPT ![a] = At("down")] /\ inbox' = [inbox EXCEPT ![a] = <<>>]
      /\ next' = [next EXCEPT ![a] = 0]
  BY DEF Crash, Exit
<1>2. ProcTo(a, "down", NoMessage, NoId, {}, {}, 0, FALSE) BY <1>0, <1>1, AtTo DEF Places
<1>3. MailTo({}) BY <1>0, <1>1, MailClear
<1>4. OwnedKept BY <1>1, <1>2, OwnedDown DEF ProcTo
<1>5. Agree' /\ Stays /\ OneStep(a, {}) BY <1>1, <1>2, <1>3, NoTargets, Rest DEF Resting
<1>6. TypeOK'
  <2>1. crashes' \in 0 .. MaxCrashes
    BY <1>1, DelegationAssumption, SMT DEF DelegationInv, TypeOK, DelegationAssumption
  <2>2. next' \in [Agents -> Ids \cup {0}] BY <1>1 DEF DelegationInv, TypeOK
  <2>3. pending' = pending /\ tracked' = tracked /\ answered' = answered BY <1>1 DEF Table
  <2> QED BY <1>1, <1>5, <2>1, <2>2, <2>3 DEF DelegationInv, TypeOK, OneStep, MailTo, Inboxes, Trees
<1> QED BY <1>4, <1>5, <1>6 DEF StepOK, DelegationInv, Agree

\* An agent leaves on its idle timeout.
LEMMA IdleTimeoutOK == ASSUME DelegationInv, NEW a \in Agents, IdleTimeout(a) PROVE StepOK
<1>0. proc \in [Agents -> Process] /\ inbox \in Inboxes BY Typed DEF DelegationInv
<1>1. proc[a].pc = "idle" /\ Goto(a, "close") /\ UNCHANGED <<inbox, tree, next, Table, Bounds>>
  BY DEF IdleTimeout
<1>2. ProcTo(a, "close", proc[a].msg, proc[a].id, proc[a].todo, proc[a].targets, proc[a].sent,
             proc[a].ok)
  BY <1>0, <1>1, GotoTo DEF Places
<1>3. MailTo({}) BY <1>0, <1>1, MailSame
<1>4. OwnedKept BY <1>1, <1>2, OwnedRest DEF ProcTo, Bounds, Busy
<1>5. Counters BY <1>1, NextSame DEF DelegationInv
<1>6. InHand(a) BY DEF DelegationInv
<1>7. /\ proc[a].id = NoId /\ IsFiniteSet(proc[a].targets)
      /\ Cardinality(proc[a].targets) + proc[a].sent <= MAX_TARGETS
  BY <1>1, <1>6 DEF InHand, Located, Busy
<1>8. a \in Workers => proc[a].ok = FALSE
  <2>1. proc[a].ok \in BOOLEAN BY <1>0, ProcFields
  <2> QED BY <1>1, <1>6, <2>1 DEF InHand, Prepared
<1>9. UNCHANGED deployment BY <1>1 DEF Bounds
<1>10. ProcTo(a, "close", proc[a].msg, NoId, proc[a].todo, proc[a].targets, proc[a].sent,
              proc[a].ok)
  BY <1>2, <1>7
<1>11. Agree' /\ Stays /\ OneStep(a, {})
  BY <1>1, <1>3, <1>7, <1>8, <1>9, <1>10, Rest DEF Resting
<1>12. DelegationInv' BY <1>1, <1>5, <1>11, InvNext
<1> QED BY <1>4, <1>11, <1>12 DEF StepOK

\* Only the inboxes change.
LEMMA Post ==
    ASSUME DelegationInv, NEW a \in Agents, NEW M, MailTo(M),
           UNCHANGED <<proc, tree, Table, deployment>>,
           \A b \in Agents, m \in Message : <<b, m>> \in M => Expected(b, m)'
    PROVE  Agree' /\ Stays /\ OwnedKept /\ OneStep(a, M)
<1>0. proc \in [Agents -> Process] /\ tree \in Trees BY Typed DEF DelegationInv
<1>1. proc' = proc /\ tree' = tree /\ UNCHANGED Table /\ deployment' = deployment OBVIOUS
<1>2. OneStep(a, M) BY <1>0 DEF OneStep
<1>3. Kept BY KeptSame
<1>4. InHand(a)' BY InHandSame DEF DelegationInv
<1>5. Posted' BY <1>1, PostedSame DEF DelegationInv
<1>6. ASSUME a \in Workers, proc'[a].pc \in Busy \cup {"create"}, NEW m, m = proc'[a].msg
      PROVE  Expected(a, m)'
  <2>1. Expected(a, m) BY <1>6 DEF DelegationInv, Mail
  <2> QED BY <1>3, <2>1, ExpectedKept
<1>7. a \in Workers /\ proc'[a].pc \in Busy \cup {"create"} => Expected(a, proc[a].msg)' BY <1>6
<1>8. \A t \in Ids : tree'[Fan][t].state = "completed" => tree[Fan][t].state = "completed"
  BY <1>1
<1>9. Agree' BY <1>1, <1>2, <1>3, <1>4, <1>5, <1>7, <1>8, StepNext
<1>10. OwnedKept
  <2>1. Owned => Owned' BY <1>1 DEF Owned, OwnedTask, Sdk, Table
  <2> QED BY <2>1 DEF OwnedKept
<1> QED BY <1>2, <1>9, <1>10, StaysSame DEF StepOK

\* A message is dropped.
LEMMA DiscardsOK ==
    ASSUME DelegationInv, NEW a \in Agents, MailTo({}), UNCHANGED <<proc, tree, next, Table, Bounds>>
    PROVE  StepOK
<1>1. UNCHANGED deployment BY DEF Bounds
<1>2. Agree' /\ Stays /\ OwnedKept /\ OneStep(a, {}) BY <1>1, Post
<1>3. DelegationInv' BY <1>2, InvNext, NextSame DEF DelegationInv
<1> QED BY <1>2, <1>3 DEF StepOK

\* An operator's request arrives.
LEMMA RequestOK == ASSUME DelegationInv, NEW a \in Agents, Request(a) PROVE StepOK
<1>0. inbox \in Inboxes /\ deployment \in Deployments BY Typed DEF DelegationInv
<1>1. /\ requests < deployment.load /\ requests' = requests + 1 /\ ~Sdk(a)
      /\ UNCHANGED <<proc, tree, next, Table, deployment, crashes>>
  BY DEF Request
<1>2. PICK v \in Requests : inbox' = [inbox EXCEPT ![a] = Append(@,
            [verb |-> v, id |-> NoId, from |-> Operator, reply |-> Nobody])]
  BY DEF Request
<1> DEFINE m == [verb |-> v, id |-> NoId, from |-> Operator, reply |-> Nobody]
           M == {<<a, m>>}
<1>3. m \in Message BY DEF Message
<1>4. FromOperator(m) BY DEF FromOperator
<1>5. inbox' = [inbox EXCEPT ![a] = Append(@, m)] BY <1>2
<1> HIDE DEF m
<1>6. MailTo(M) BY <1>0, <1>3, <1>5, MailAppend
<1>7. ASSUME NEW b \in Agents, NEW k \in Message, <<b, k>> \in M PROVE Expected(b, k)'
  <2>1. b = a /\ k = m BY <1>7
  <2>2. Expected(b, k) BY <1>1, <1>4, <2>1 DEF Expected
  <2>3. Kept BY <1>1, KeptSame
  <2> QED BY <2>2, <2>3, ExpectedKept
<1> HIDE DEF M
<1>8. Agree' /\ Stays /\ OwnedKept /\ OneStep(a, M) BY <1>1, <1>6, <1>7, Post
<1>9. TypeOK'
  <2>1. deployment.load \in Nat BY <1>0, DelegationAssumption DEF DelegationAssumption
  <2>2. requests' \in 0 .. deployment'.load
    BY <1>1, <2>1, SMT DEF DelegationInv, TypeOK
  <2>3. next' \in [Agents -> Ids \cup {0}] BY <1>1 DEF DelegationInv, TypeOK
  <2>4. pending' = pending /\ tracked' = tracked /\ answered' = answered BY <1>1 DEF Table
  <2> QED BY <1>1, <1>8, <2>2, <2>3, <2>4 DEF DelegationInv, TypeOK, OneStep, MailTo, Inboxes, Trees
<1> QED BY <1>8, <1>9 DEF StepOK, DelegationInv, Agree

\* A C agent drops a message that is no work for it.
LEMMA DiscardOK == ASSUME DelegationInv, NEW a \in Agents, Discard(a) PROVE StepOK
<1>1. inbox \in Inboxes BY Typed DEF DelegationInv
<1>2. PICK m \in Arrived(a) : TakeFirst(a) BY DEF Discard
<1>3. UNCHANGED <<proc, tree, next, Table, Bounds>> BY DEF Discard
<1> QED BY <1>1, <1>2, <1>3, MailTake, DiscardsOK

\* An SDK agent does.
LEMMA DiscardSdkOK == ASSUME DelegationInv, NEW a \in Agents, DiscardSdk(a) PROVE StepOK
<1>1. inbox \in Inboxes BY Typed DEF DelegationInv
<1>2. PICK m \in Arrived(a) : TakeFirst(a) BY DEF DiscardSdk
<1>3. UNCHANGED <<proc, tree, next, Table, Bounds>> BY DEF DiscardSdk
<1> QED BY <1>1, <1>2, <1>3, MailTake, DiscardsOK

(***************************************************************************)
(* The scan of the interrupted tasks, and taking a message.                *)
(***************************************************************************)
LEMMA StepSilent ==
    ASSUME DelegationInv, NEW a \in Agents, OneStep(a, {}), Kept, UNCHANGED Table,
           a \in Workers /\ proc'[a].pc \in Busy \cup {"create"} => Expected(a, proc[a].msg)',
           InHand(a)', a = Fan => Posted',
           \A t \in Ids : a = Fan /\ tree'[a][t].state = "completed" => tree[a][t].state = "completed"
    PROVE  Agree'
<1>1. a = Fan => /\ Posted'
                 /\ \A t \in Ids : tree'[Fan][t].state = "completed" =>
                                     tree[Fan][t].state = "completed"
  OBVIOUS
<1> DEFINE M == {}
<1>2. OneStep(a, M) /\ \A b \in Agents, m \in Message : <<b, m>> \in M => Expected(b, m)' OBVIOUS
<1> HIDE DEF M
<1> QED BY <1>1, <1>2, StepNext

\* An SDK agent's tasks keep the ids they came with.
LEMMA SdkIncoming ==
    ASSUME DelegationInv, NEW a \in Agents, NEW t \in Ids, NEW s, NEW i, NEW n, NEW r,
           TreeTo(a, t, s, i, n, r),
           i = t \/ (t \in Dirs(tree[a]) /\ i = tree[a][t].incoming), Sdk(a)
    PROVE  \A u \in Dirs(tree'[a]) : tree'[a][u].incoming = u
<1>1. a \in Workers BY FanIsC, Who, Typed DEF DelegationInv
<1>2. \A u \in Dirs(tree[a]) : tree[a][u].incoming = u BY <1>1 DEF DelegationInv, InHand, Prepared
<1>3. ASSUME NEW u \in Dirs(tree'[a]), u # t PROVE tree'[a][u].incoming = u
  <2>1. u \in Ids /\ tree'[a][u].state # "none" BY DEF Dirs
  <2>2. tree'[a][u] = tree[a][u] BY <1>3, <2>1 DEF TreeTo
  <2> QED BY <1>2, <2>1, <2>2 DEF Dirs
<1>4. tree'[a][t].incoming = i BY DEF TreeTo
<1> QED BY <1>2, <1>3, <1>4

\* An agent gives its task a last state and rests.
LEMMA RestTree ==
    ASSUME DelegationInv, NEW a \in Agents, UNCHANGED <<Table, Bounds>>, Counters,
           NEW pc \in Resting, NEW m, NEW todo, NEW targets, NEW sent,
           NEW ok, a \in Workers => ok = FALSE,
           ProcTo(a, pc, m, NoId, todo, targets, sent, ok),
           IsFiniteSet(targets), Cardinality(targets) + sent <= MAX_TARGETS,
           MailTo({}), NEW t \in Dirs(tree[a]), NEW s, s \notin {"none", "completed"},
           StateTo(a, t, s), tree[a][t].state \notin Terminal
    PROVE  DelegationInv' /\ Stays
<1>0. tree \in Trees /\ t \in Ids BY Typed DEF DelegationInv, Dirs
<1>1. TreeTo(a, t, s, tree[a][t].incoming, tree[a][t].artifacts, tree[a][t].result) BY DEF StateTo
<1>2. deployment' = deployment BY DEF Bounds
<1>3. Kept BY <1>0, <1>1, <1>2, KeptTree
<1>4. Sdk(a) => \A u \in Dirs(tree'[a]) : tree'[a][u].incoming = u BY <1>0, <1>1, SdkIncoming
<1>5. InHand(a)' BY <1>2, <1>4, RestInHand
<1>6. OneStep(a, {}) BY <1>1 DEF OneStep, ProcTo, TreeTo
<1>7. proc'[a].pc = pc /\ pc \notin Busy \cup {"create"} BY DEF ProcTo, Resting, Busy
<1>8. a = Fan => Posted' BY <1>7, PostedQuiet DEF Resting
<1>9. \A u \in Ids : a = Fan /\ tree'[a][u].state = "completed" => tree[a][u].state = "completed"
  BY <1>1 DEF TreeTo
<1>10. Agree'
  <2>1. UNCHANGED Table OBVIOUS
  <2> QED BY <1>3, <1>5, <1>6, <1>7, <1>8, <1>9, <2>1, StepSilent
<1>11. DelegationInv' BY <1>6, <1>10, InvNext
<1>12. Stays BY <1>0, <1>1, StaysTree
<1> QED BY <1>11, <1>12

\* Not even the order of the files decides what the scan does.
LEMMA RecoverOK == ASSUME DelegationInv, NEW a \in Agents, Recover(a) PROVE StepOK
<1>0. proc \in [Agents -> Process] /\ inbox \in Inboxes /\ tree \in Trees
  BY Typed DEF DelegationInv
<1>1. proc[a].pc = "recover" /\ UNCHANGED <<inbox, next, Table, Bounds>> BY DEF Recover
<1>2. MailTo({}) BY <1>0, <1>1, MailSame
<1>3. Counters BY <1>1, NextSame DEF DelegationInv
<1>4. CASE proc[a].todo = {}
  <2>1. proc' = [proc EXCEPT ![a] = At("idle")] /\ UNCHANGED tree BY <1>4 DEF Recover, Done
  <2>2. ProcTo(a, "idle", NoMessage, NoId, {}, {}, 0, FALSE) BY <1>0, <2>1, AtTo DEF Places
  <2>3. OwnedKept BY <1>1, <1>4, <2>1, <2>2, OwnedRest DEF ProcTo, Bounds, Busy
  <2> QED BY <1>1, <1>2, <1>3, <2>1, <2>2, <2>3, RestAt DEF Resting
<1>5. CASE proc[a].todo # {}
  <2>1. PICK t \in proc[a].todo : /\ proc' = [proc EXCEPT ![a].todo = @ \ {t}]
                                 /\ \/ tree' = [tree EXCEPT ![a] = recover_one(@, t)]
                                    \/ tree[a][t].state \in Active /\ WriteFails(a, t)
    BY <1>5 DEF Recover
  <2> DEFINE S == proc[a].todo \ {t}
  <2>2. t \in Ids /\ S \in SUBSET Ids BY <1>0, ProcFields
  <2>3. proc' = [proc EXCEPT ![a].todo = S] BY <2>1
  <2>4. ProcTo(a, proc[a].pc, proc[a].msg, proc[a].id, S, proc[a].targets, proc[a].sent, proc[a].ok)
    BY <1>0, <2>2, <2>3, TodoTo
  <2>5. InHand(a) BY DEF DelegationInv
  <2>6. /\ proc[a].id = NoId /\ IsFiniteSet(proc[a].targets)
        /\ Cardinality(proc[a].targets) + proc[a].sent <= MAX_TARGETS
    BY <1>1, <2>5 DEF InHand, Located, Busy
  <2>7. a \in Workers => proc[a].ok = FALSE
    <3>1. proc[a].ok \in BOOLEAN BY <1>0, ProcFields
    <3> QED BY <1>1, <2>5, <3>1 DEF InHand, Prepared
  <2>8. ProcTo(a, "recover", proc[a].msg, NoId, S, proc[a].targets, proc[a].sent, proc[a].ok)
    BY <1>1, <2>4, <2>6
  <2>9. deployment' = deployment BY <1>1 DEF Bounds
  <2>10. OwnedKept
    <3>1. /\ \A b \in Agents \ {a} : tree'[b] = tree[b]
          /\ \A u \in Ids \ {t} : tree'[a][u] = tree[a][u]
          /\ tree'[a][t].state \notin Active \/ tree'[a][t].unwritten
      <4>1. CASE tree' = tree /\ tree[a][t].state \notin Active BY <4>1
      <4>2. CASE StateTo(a, t, "failed") BY <4>2 DEF StateTo, TreeTo, Active
      <4>3. CASE StateTo(a, t, tree[a][t].state) /\ tree'[a][t].unwritten
        BY <4>3 DEF StateTo, TreeTo
      <4> QED BY <1>0, <2>1, <2>2, <4>1, <4>2, <4>3, RecoverOneTo
    <3>2. ASSUME Owned, NEW u \in Ids PROVE OwnedTask(a, u)'
      <4>1. CASE u = t BY <3>1, <4>1 DEF OwnedTask
      <4>2. CASE u # t
        <5>1. OwnedTask(a, u) BY <3>2 DEF Owned
        <5>2. proc'[a].pc = "recover" /\ proc'[a].todo = S BY <2>8 DEF ProcTo
        <5>3. pending' = pending BY <1>1 DEF Table
        <5>4. tree'[a][u] = tree[a][u] BY <3>1, <4>2
        <5> QED BY <1>1, <2>9, <4>2, <5>1, <5>2, <5>3, <5>4 DEF OwnedTask, Sdk, Busy
      <4> QED BY <4>1, <4>2
    <3> QED BY <1>1, <2>4, <2>9, <3>1, <3>2, OwnedOthers DEF ProcTo
  <2> HIDE DEF S
  <2>11. CASE tree' = tree
    <3>1. Agree' /\ Stays /\ OneStep(a, {})
      BY <1>1, <1>2, <2>6, <2>7, <2>8, <2>9, <2>11, Rest DEF Resting
    <3>2. DelegationInv' BY <1>1, <1>3, <3>1, InvNext
    <3> QED BY <2>10, <3>1, <3>2 DEF StepOK
  <2>12. ASSUME tree[a][t].state \in Active, NEW s, s \notin {"none", "completed"}, StateTo(a, t, s)
         PROVE  StepOK
    <3>1. t \in Dirs(tree[a]) BY <2>2, <2>12 DEF Dirs, Active
    <3>2. tree[a][t].state \notin Terminal BY <2>12 DEF Active, Terminal
    <3>3. DelegationInv' /\ Stays
      BY <1>1, <1>2, <1>3, <2>6, <2>7, <2>8, <2>12, <3>1, <3>2, RestTree DEF Resting
    <3> QED BY <2>10, <3>3 DEF StepOK
  <2>13. CASE tree[a][t].state \in Active /\ StateTo(a, t, "failed") BY <2>12, <2>13
  <2>14. CASE tree[a][t].state \in Active /\ StateTo(a, t, tree[a][t].state)
    <3>1. tree[a][t].state \notin {"none", "completed"} BY <2>14 DEF Active
    <3> QED BY <2>12, <2>14, <3>1
  <2> QED BY <1>0, <2>1, <2>2, <2>11, <2>13, <2>14, RecoverOneTo
<1> QED BY <1>4, <1>5

\* An agent takes work: the message was expected in its inbox and is now in hand.
LEMMA TakesOK ==
    ASSUME DelegationInv, NEW a \in Agents, NEW m \in Arrived(a), TakeFirst(a), NEW S,
           IsFiniteSet(S), Cardinality(S) + 0 <= MAX_TARGETS,
           ProcTo(a, "create", m, NoId, {}, S, 0, FALSE), UNCHANGED <<tree, next, Table, Bounds>>
    PROVE  StepOK
<1>0. tree \in Trees /\ inbox \in Inboxes BY Typed DEF DelegationInv
<1>1. deployment' = deployment /\ UNCHANGED Table /\ tree' = tree BY DEF Bounds
<1>2. /\ MailTo({}) /\ m \in Message /\ proc[a].pc = "idle"
      /\ \E j \in DOMAIN inbox[a] : m = inbox[a][j]
  BY <1>0, MailTake
<1>3. Kept BY <1>1, KeptSame
<1>4. Sdk(a) => \A t \in Dirs(tree'[a]) : tree'[a][t].incoming = t
  BY <1>1, FanIsC, Who, Typed DEF DelegationInv, InHand, Prepared
<1>5. InHand(a)' BY <1>1, <1>4, RestInHand
<1>6. OneStep(a, {}) BY <1>0, <1>1, <1>2 DEF OneStep, ProcTo
<1>7. proc'[a].pc = "create" /\ proc'[a].msg = m BY DEF ProcTo
<1>8. a = Fan => Posted' BY <1>2, <1>7 DEF Posted, ProcTo
<1>9. Expected(a, m) BY <1>2 DEF DelegationInv, Mail
<1>10. Expected(a, m)' BY <1>3, <1>9, ExpectedKept
<1>11. Expected(a, proc[a].msg)' BY <1>7, <1>10
<1>12. Agree'
  <2>1. \A t \in Ids : a = Fan /\ tree'[a][t].state = "completed" => tree[a][t].state = "completed"
    BY <1>1
  <2> QED BY <1>1, <1>3, <1>5, <1>6, <1>8, <1>11, <2>1, StepSilent
<1>13. DelegationInv' BY <1>6, <1>12, InvNext, NextSame DEF DelegationInv
<1>14. OwnedKept BY <1>1, <1>2, OwnedRest DEF ProcTo, Busy
<1> QED BY <1>1, <1>13, <1>14, StaysSame DEF StepOK

\* A C agent takes work.
LEMMA TakeWorkOK == ASSUME DelegationInv, NEW a \in Agents, TakeWork(a) PROVE StepOK
<1>0. proc \in [Agents -> Process] /\ inbox \in Inboxes /\ deployment \in Deployments
  BY Typed DEF DelegationInv
<1>1. UNCHANGED <<tree, next, Table, Bounds>> BY DEF TakeWork
<1>2. PICK m \in Arrived(a), lines \in Policy(a) :
        /\ TakeFirst(a)
        /\ proc' = [proc EXCEPT ![a] = [At("create") EXCEPT !.msg = m,
                      !.targets = IF a = Fan THEN collect_send_targets(lines) ELSE {}]]
  BY DEF TakeWork
<1> DEFINE S == IF a = Fan THEN collect_send_targets(lines) ELSE {}
<1>3. m \in Message BY <1>0, <1>2, MailTake
<1>4. S \in SUBSET (Nat \X Workers) /\ IsFiniteSet(S) /\ Cardinality(S) + 0 <= MAX_TARGETS
  <2>1. CASE a = Fan
    <3>1. lines \in deployment.policies BY <2>1 DEF Policy
    <3>2. S \in SUBSET (Nat \X Workers) /\ IsFiniteSet(S) /\ Cardinality(S) <= MAX_TARGETS
      BY <1>0, <2>1, <3>1, TargetsSize
    <3>3. Cardinality(S) \in Nat BY <3>2, FS_CardinalityType
    <3> HIDE DEF S
    <3>4. Cardinality(S) + 0 <= MAX_TARGETS BY <3>2, <3>3, SMT
    <3> QED BY <3>2, <3>4
  <2>2. CASE a # Fan BY <2>2, NoTargets
  <2> QED BY <2>1, <2>2
<1>5. proc' = [proc EXCEPT ![a] = [At("create") EXCEPT !.msg = m, !.targets = S]] BY <1>2
<1> HIDE DEF S
<1>6. ProcTo(a, "create", m, NoId, {}, S, 0, FALSE) BY <1>0, <1>3, <1>4, <1>5, AtWorkTo DEF Places
<1> QED BY <1>1, <1>2, <1>4, <1>6, TakesOK

\* An SDK agent takes work.
LEMMA TakeWorkSdkOK == ASSUME DelegationInv, NEW a \in Agents, TakeWorkSdk(a) PROVE StepOK
<1>0. proc \in [Agents -> Process] /\ inbox \in Inboxes BY Typed DEF DelegationInv
<1>1. UNCHANGED <<tree, next, Table, Bounds>> BY DEF TakeWorkSdk
<1>2. PICK m \in Arrived(a) :
        TakeFirst(a) /\ proc' = [proc EXCEPT ![a] = [At("create") EXCEPT !.msg = m]]
  BY DEF TakeWorkSdk
<1>3. m \in Message BY <1>0, <1>2, MailTake
<1>4. ProcTo(a, "create", m, NoId, {}, {}, 0, FALSE) BY <1>0, <1>2, <1>3, AtMsgTo DEF Places
<1> QED BY <1>1, <1>2, <1>4, NoTargets, TakesOK

(***************************************************************************)
(* Steps with a task in hand.                                              *)
(***************************************************************************)
LEMMA MsgKept ==
    ASSUME DelegationInv, Kept, NEW w \in Workers, proc[w].pc \in Busy \cup {"create"},
           proc'[w].msg = proc[w].msg
    PROVE  Expected(w, proc[w].msg)'
<1>1. ASSUME NEW m, m = proc[w].msg PROVE Expected(w, m)'
  <2>1. Expected(w, m) BY <1>1 DEF DelegationInv, Mail
  <2> QED BY <2>1, ExpectedKept
<1> QED BY <1>1

\* A task in hand stays owned while its agent works on it.
LEMMA OwnedMove ==
    ASSUME NEW a \in Agents, deployment' = deployment, UNCHANGED Table, NEW t \in Ids,
           proc'[a].pc \in Busy, proc'[a].id = t,
           proc[a].pc \in Busy => proc[a].id = t, proc[a].pc \notin {"recover", "down"},
           \A b \in Agents \ {a} : proc'[b] = proc[b] /\ tree'[b] = tree[b],
           \A u \in Ids \ {t} : tree'[a][u] = tree[a][u]
    PROVE  OwnedKept
<1>1. ASSUME Owned, NEW u \in Ids PROVE OwnedTask(a, u)'
  <2>1. CASE u = t BY <2>1 DEF OwnedTask
  <2>2. CASE u # t
    <3>1. OwnedTask(a, u) BY <1>1 DEF Owned
    <3>2. pending' = pending BY DEF Table
    <3>3. tree'[a][u] = tree[a][u] BY <2>2
    <3> QED BY <2>2, <3>1, <3>2, <3>3 DEF OwnedTask, Sdk
  <2> QED BY <2>1, <2>2
<1> QED BY <1>1, OwnedOthers

\* The task in hand gets a state that ends it, or a write to it fails.
LEMMA OwnedEnd ==
    ASSUME NEW a \in Agents, deployment' = deployment, UNCHANGED Table, proc[a].pc \in Busy,
           tree'[a][proc[a].id].state \notin Active \/ tree'[a][proc[a].id].unwritten,
           \A u \in Ids \ {proc[a].id} : tree'[a][u] = tree[a][u],
           \A b \in Agents \ {a} : proc'[b] = proc[b] /\ tree'[b] = tree[b]
    PROVE  OwnedKept
<1>1. ASSUME Owned, NEW u \in Ids PROVE OwnedTask(a, u)'
  <2>1. CASE u = proc[a].id BY <2>1 DEF OwnedTask
  <2>2. CASE u # proc[a].id
    <3>1. OwnedTask(a, u) BY <1>1 DEF Owned
    <3>2. pending' = pending BY DEF Table
    <3>3. tree'[a][u] = tree[a][u] BY <2>2
    <3>4. proc[a].pc \notin {"down", "recover"} BY DEF Busy
    <3> QED BY <2>2, <3>1, <3>2, <3>3, <3>4 DEF OwnedTask, Sdk
  <2> QED BY <2>1, <2>2
<1> QED BY <1>1, OwnedOthers

\* A step from one such place to another.
LEMMA MoveSend ==
    ASSUME DelegationInv, NEW a \in Agents, UNCHANGED <<Table, Bounds>>, Counters,
           NEW M, MailTo(M), \A b \in Agents, m \in Message : <<b, m>> \in M => Expected(b, m)',
           proc[a].pc \in Busy \cup {"create"},
           NEW pc \in Busy, NEW t \in Ids, NEW todo, NEW targets, NEW sent, NEW ok,
           proc[a].pc \in Busy => proc[a].id = t,
           ProcTo(a, pc, proc[a].msg, t, todo, targets, sent, ok),
           NEW s, NEW i, NEW n, NEW r, TreeTo(a, t, s, i, n, r), s # "none",
           a = Fan => s # "completed" /\ Posted',
           t \in Dirs(tree[a]) =>
              i = tree[a][t].incoming /\ (Sdk(a) \/ tree[a][t].state \notin Terminal),
           InHand(a)'
    PROVE  StepOK
<1>0. tree \in Trees BY Typed DEF DelegationInv
<1>1. deployment' = deployment /\ UNCHANGED Table BY DEF Bounds
<1>2. Kept BY <1>0, <1>1, KeptTree
<1>3. OneStep(a, M) BY DEF OneStep, ProcTo, TreeTo
<1>4. a \in Workers => Expected(a, proc[a].msg)' BY <1>2, MsgKept DEF ProcTo
<1>5. a = Fan => /\ Posted'
                 /\ \A u \in Ids : tree'[Fan][u].state = "completed" =>
                                     tree[Fan][u].state = "completed"
  BY DEF TreeTo
<1>6. Agree' BY <1>1, <1>2, <1>3, <1>4, <1>5, StepNext
<1>7. DelegationInv' BY <1>3, <1>6, InvNext
<1>8. Stays
  <2>1. CASE t \in Dirs(tree[a]) BY <2>1, StaysTree
  <2>2. CASE t \notin Dirs(tree[a])
    <3>1. tree[a][t].state \notin Terminal BY <2>2 DEF Dirs, Terminal
    <3> QED BY <3>1, StaysTree
  <2> QED BY <2>1, <2>2
<1>9. OwnedKept
  <2>1. proc'[a].pc \in Busy /\ proc'[a].id = t BY DEF ProcTo
  <2>2. proc[a].pc \notin {"recover", "down"} BY DEF Busy
  <2>3. \A b \in Agents \ {a} : proc'[b] = proc[b] /\ tree'[b] = tree[b] BY <1>3 DEF OneStep
  <2>4. \A u \in Ids \ {t} : tree'[a][u] = tree[a][u] BY DEF TreeTo
  <2> QED BY <1>1, <2>1, <2>2, <2>3, <2>4, OwnedMove
<1> QED BY <1>7, <1>8, <1>9 DEF StepOK

\* The same, when the step sends nothing.
LEMMA Move ==
    ASSUME DelegationInv, NEW a \in Agents, UNCHANGED <<Table, Bounds>>, Counters, MailTo({}),
           proc[a].pc \in Busy \cup {"create"},
           NEW pc \in Busy, NEW t \in Ids, NEW todo, NEW targets, NEW sent, NEW ok,
           proc[a].pc \in Busy => proc[a].id = t,
           ProcTo(a, pc, proc[a].msg, t, todo, targets, sent, ok),
           NEW s, NEW i, NEW n, NEW r, TreeTo(a, t, s, i, n, r), s # "none",
           a = Fan => s # "completed" /\ Posted',
           t \in Dirs(tree[a]) =>
              i = tree[a][t].incoming /\ (Sdk(a) \/ tree[a][t].state \notin Terminal),
           InHand(a)'
    PROVE  StepOK
<1> DEFINE M == {}
<1>1. MailTo(M) /\ \A b \in Agents, m \in Message : <<b, m>> \in M => Expected(b, m)' OBVIOUS
<1> HIDE DEF M
<1> QED BY <1>1, MoveSend

\* An agent writes to its task for the last time and turns to the next message.
LEMMA DropOK ==
    ASSUME DelegationInv, NEW a \in Agents, proc[a].pc \in Busy, Done(a),
           UNCHANGED <<inbox, next, Table, Bounds>>, tree[a][proc[a].id].state \notin Terminal,
           NEW s, s \notin {"none", "completed"}, StateTo(a, proc[a].id, s),
           s \notin Active \/ tree'[a][proc[a].id].unwritten
    PROVE  StepOK
<1>0. proc \in [Agents -> Process] /\ inbox \in Inboxes BY Typed DEF DelegationInv
<1>1. ProcTo(a, "idle", NoMessage, NoId, {}, {}, 0, FALSE) BY <1>0, AtTo DEF Places, Done
<1>2. proc[a].id \in Dirs(tree[a]) BY DEF DelegationInv, InHand, Located
<1>3. Counters BY NextSame DEF DelegationInv
<1>4. MailTo({}) BY <1>0, MailSame
<1>5. DelegationInv' /\ Stays
  <2>1. "idle" \in Resting BY DEF Resting
  <2>2. UNCHANGED <<Table, Bounds>> OBVIOUS
  <2>3. a \in Workers => FALSE = FALSE OBVIOUS
  <2> DEFINE t == proc[a].id
  <2>4. t \in Dirs(tree[a]) /\ tree[a][t].state \notin Terminal /\ StateTo(a, t, s) BY <1>2
  <2> HIDE DEF t
  <2> QED BY <1>1, <1>3, <1>4, <2>1, <2>2, <2>3, <2>4, NoTargets, RestTree
<1>6. OwnedKept
  <2>1. deployment' = deployment BY DEF Bounds
  <2>2. /\ tree'[a][proc[a].id].state = s
        /\ \A u \in Ids \ {proc[a].id} : tree'[a][u] = tree[a][u]
        /\ \A b \in Agents \ {a} : proc'[b] = proc[b] /\ tree'[b] = tree[b]
    BY <1>1 DEF ProcTo, StateTo, TreeTo
  <2> QED BY <2>1, <2>2, OwnedEnd
<1> QED BY <1>5, <1>6 DEF StepOK

\* The place "queue" after the directory was made.
LEMMA CreatedOK ==
    ASSUME DelegationInv, NEW a \in Agents, UNCHANGED <<Table, Bounds>>, Counters, MailTo({}),
           proc[a].pc = "create", NEW t \in Ids, t \notin Dirs(tree[a]),
           proc' = [proc EXCEPT ![a] = [@ EXCEPT !.pc = "queue", !.id = t]],
           tree' = [tree EXCEPT ![a] = task_create_dir(@, t, proc[a].msg.id)],
           Sdk(a) => proc[a].msg.id = t
    PROVE  StepOK
<1>0. proc \in [Agents -> Process] /\ tree \in Trees BY Typed DEF DelegationInv
<1> DEFINE i == proc[a].msg.id
<1>1. i \in Ids \cup {NoId}
  <2>1. proc[a].msg \in Message \cup {NoMessage} BY <1>0, ProcFields
  <2>2. CASE proc[a].msg \in Message BY <2>2 DEF Message
  <2>3. CASE proc[a].msg = NoMessage 
    <3>1. NoMessage.id = NoId BY DEF NoMessage
    <3> QED BY <2>3, <3>1
  <2> QED BY <2>1, <2>2, <2>3
<1>2. tree' = [tree EXCEPT ![a] = task_create_dir(tree[a], t, i)] BY <1>0 DEF Trees
<1>3. i = proc[a].msg.id OBVIOUS
<1> HIDE DEF i
<1>4. TreeTo(a, t, "unset", i, 0, FALSE) BY <1>0, <1>1, <1>2, CreateTo
<1>5. ProcTo(a, "queue", proc[a].msg, t, proc[a].todo, proc[a].targets, proc[a].sent, proc[a].ok)
  BY <1>0, IdTo DEF Places
<1>6. InHand(a) BY DEF DelegationInv
<1>7. /\ tree'[a][t].state = "unset" /\ tree'[a][t].incoming = i
      /\ proc'[a].pc = "queue" /\ proc'[a].id = t /\ proc'[a].msg = proc[a].msg
      /\ proc'[a].targets = proc[a].targets /\ proc'[a].sent = proc[a].sent
      /\ proc'[a].ok = proc[a].ok
  BY <1>4, <1>5 DEF TreeTo, ProcTo
<1>8. t \in Dirs(tree'[a]) BY <1>7 DEF Dirs
<1>9. Located(a)' BY <1>6, <1>7, <1>8 DEF InHand, Located, Busy
<1>10. Staged(a)' BY <1>7 DEF Staged
<1>11. Sdk(a) => \A u \in Dirs(tree'[a]) : tree'[a][u].incoming = u BY <1>3, <1>4, SdkIncoming
<1>12. ASSUME a \in Workers PROVE Prepared(a)'
  <2>1. ~proc[a].ok BY <1>6, <1>12 DEF InHand, Prepared
  <2>2. Sdk(a)' <=> Sdk(a) BY SdkSame DEF Bounds
  <2> QED BY <1>3, <1>7, <1>11, <2>1, <2>2 DEF Prepared
<1>13. InHand(a)' BY <1>9, <1>10, <1>12 DEF InHand
<1>14. ASSUME a = Fan PROVE Posted'
  <2>1. \A w \in Workers : <<t, w>> \notin answered BY <1>14 DEF DelegationInv, Ledger
  <2>2. answered' = answered BY DEF Table
  <2>3. proc'[Fan].pc = "queue" /\ proc'[Fan].id = t BY <1>7, <1>14
  <2>4. ASSUME NEW w \in Workers PROVE <<proc'[Fan].id, w>> \notin answered'
    <3>1. <<t, w>> \notin answered BY <2>1
    <3> QED BY <2>2, <2>3, <3>1, SMT
  <2>5. proc'[Fan].sent = 0 /\ proc'[Fan].msg \in Message BY <1>7, <1>14 DEF DelegationInv, Posted
  <2> QED BY <2>3, <2>4, <2>5 DEF Posted
<1> QED BY <1>4, <1>5, <1>13, <1>14, Move DEF Busy

\* task_create: the new directory has an id no other task had.
LEMMA CreateOK == ASSUME DelegationInv, NEW a \in Agents, Create(a) PROVE StepOK
<1>0. proc \in [Agents -> Process] /\ inbox \in Inboxes BY Typed DEF DelegationInv
<1> DEFINE t == get_next_seq(next[a], tree[a])
<1>1. /\ proc[a].pc = "create" /\ ~Sdk(a) /\ t \in Ids /\ next' = [next EXCEPT ![a] = t]
      /\ UNCHANGED <<inbox, Table, Bounds>>
  BY DEF Create
<1>2. Counters BY <1>1 DEF DelegationInv, TypeOK, Counters
<1>3. MailTo({}) BY <1>0, <1>1, MailSame
<1>4. CASE Done(a) /\ UNCHANGED tree
  <2>1. proc' = [proc EXCEPT ![a] = At("idle")] /\ UNCHANGED tree BY <1>4 DEF Done
  <2>2. ProcTo(a, "idle", NoMessage, NoId, {}, {}, 0, FALSE) BY <1>0, <2>1, AtTo DEF Places
  <2>3. OwnedKept BY <1>1, <2>1, <2>2, OwnedRest DEF ProcTo, Bounds, Busy
  <2> QED BY <1>1, <1>2, <1>3, <2>1, <2>2, <2>3, RestAt DEF Resting
<1>5. CASE /\ t \notin Dirs(tree[a])
           /\ proc' = [proc EXCEPT ![a] = [@ EXCEPT !.pc = "queue", !.id = t]]
           /\ tree' = [tree EXCEPT ![a] = task_create_dir(@, t, proc[a].msg.id)]
  <2> HIDE DEF t
  <2> QED BY <1>1, <1>2, <1>3, <1>5, CreatedOK
<1> QED BY <1>4, <1>5 DEF Create

\* An SDK agent gets its work from the fan-out agent, under an id of that agent.
LEMMA SdkMessage ==
    ASSUME DelegationInv, NEW a \in Agents, Sdk(a), proc[a].pc \in Busy \cup {"create"}
    PROVE  a \in Workers /\ proc[a].msg.id \in Ids
<1>1. a \in Workers BY FanIsC, Who, Typed DEF DelegationInv
<1>2. Expected(a, proc[a].msg) BY <1>1 DEF DelegationInv, Mail
<1>3. FromFan(proc[a].msg) BY <1>1, <1>2, Who DEF Expected
<1>4. proc[a].msg.id \in Dirs(tree[Fan]) BY <1>3 DEF FromFan
<1> QED BY <1>1, <1>4 DEF Dirs

\* The SDK creates, or takes over, the directory of the id it was sent.
LEMMA CreateSdkOK == ASSUME DelegationInv, NEW a \in Agents, CreateSdk(a) PROVE StepOK
<1>0. proc \in [Agents -> Process] /\ inbox \in Inboxes /\ tree \in Trees
  BY Typed DEF DelegationInv
<1>1. proc[a].pc = "create" /\ Sdk(a) /\ UNCHANGED <<inbox, next, Table, Bounds>>
  BY DEF CreateSdk
<1>2. Counters BY <1>1, NextSame DEF DelegationInv
<1>3. MailTo({}) BY <1>0, <1>1, MailSame
<1> DEFINE t == proc[a].msg.id
<1>4. a \in Workers /\ t \in Ids BY <1>1, SdkMessage
<1>5. proc' = [proc EXCEPT ![a] = [@ EXCEPT !.pc = "queue", !.id = t]] BY DEF CreateSdk
<1>6. CASE t \notin Dirs(tree[a])
  <2>1. tree' = [tree EXCEPT ![a] = IF t \in Dirs(tree[a]) THEN tree[a]
                                    ELSE task_create_dir(tree[a], t, t)]
    BY <1>0 DEF CreateSdk, Trees
  <2>2. tree' = [tree EXCEPT ![a] = task_create_dir(tree[a], t, t)] BY <1>6, <2>1
  <2>3. tree' = [tree EXCEPT ![a] = task_create_dir(@, t, proc[a].msg.id)] BY <1>0, <2>2 DEF Trees
  <2>4. t = proc[a].msg.id OBVIOUS
  <2> HIDE DEF t
  <2> QED BY <1>1, <1>2, <1>3, <1>4, <1>5, <1>6, <2>3, <2>4, CreatedOK
<1>7. CASE t \in Dirs(tree[a])
  <2>1. tree' = [tree EXCEPT ![a] = IF t \in Dirs(tree[a]) THEN tree[a]
                                    ELSE task_create_dir(tree[a], t, t)]
    BY <1>0 DEF CreateSdk, Trees
  <2>2. tree' = tree BY <1>0, <1>7, <2>1 DEF Trees
  <2>3. TreeTo(a, t, tree[a][t].state, tree[a][t].incoming, tree[a][t].artifacts, tree[a][t].result)
    BY <1>0, <2>2 DEF TreeTo
  <2>4. tree[a][t].state # "none" BY <1>7 DEF Dirs
  <2>5. t = proc[a].msg.id OBVIOUS
  <2> HIDE DEF t
  <2>6. ProcTo(a, "queue", proc[a].msg, t, proc[a].todo, proc[a].targets, proc[a].sent, proc[a].ok)
    BY <1>0, <1>4, <1>5, IdTo DEF Places
  <2>7. InHand(a) BY DEF DelegationInv
  <2>8. Sdk(a)' BY <1>1, SdkSame DEF Bounds
  <2>9. Located(a)' BY <1>7, <2>2, <2>6, <2>7 DEF InHand, Located, ProcTo, Busy
  <2>10. Prepared(a)'
    <3>1. ~proc[a].ok BY <1>1, <1>4, <2>7 DEF InHand, Prepared
    <3>2. \A u \in Dirs(tree[a]) : tree[a][u].incoming = u BY <1>1, <1>4, <2>7 DEF InHand, Prepared
    <3>3. proc'[a].pc = "queue" /\ ~proc'[a].ok /\ proc'[a].id = t /\ proc'[a].msg = proc[a].msg
      BY <2>6, <3>1 DEF ProcTo
    <3>4. tree'[a][t].incoming = proc'[a].msg.id BY <1>7, <2>2, <2>5, <3>2, <3>3
    <3> QED BY <2>2, <3>2, <3>3, <3>4 DEF Prepared
  <2>11. InHand(a)' BY <2>8, <2>9, <2>10 DEF InHand
  <2>12. a # Fan BY <1>4, Who
  <2> QED BY <1>1, <1>2, <1>3, <1>4, <2>3, <2>4, <2>6, <2>11, <2>12, Move DEF Busy
<1> QED BY <1>6, <1>7

\* The places reached by writing the state and going on.
LEMMA StateOK ==
    ASSUME DelegationInv, NEW a \in Agents, UNCHANGED <<inbox, next, Table, Bounds>>,
           NEW pc \in {"run", "plan", "work", "send", "reply"}, Goto(a, pc),
           NEW s, s # "none", StateTo(a, proc[a].id, s),
           proc[a].pc \in Busy, Sdk(a) \/ tree[a][proc[a].id].state \notin Terminal,
           pc \in {"plan", "send"} => a = Fan, pc \in {"work", "reply"} => a \in Workers,
           pc # "reply" => Sdk(a) \/ s \in Active,
           pc = "send" => s = "delegated" \/ tree'[a][proc[a].id].unwritten,
           a = Fan => s # "completed" /\ Posted',
           a \in Workers /\ pc = "reply" =>
              \/ Sdk(a) \/ tree'[a][proc[a].id].unwritten
              \/ /\ tree[a][proc[a].id].result
                 /\ s = "failed" \/ (s = "completed" /\ tree[a][proc[a].id].artifacts = 3),
           a \in Workers /\ pc # "reply" => ~proc[a].ok
    PROVE  StepOK
<1>0. proc \in [Agents -> Process] /\ inbox \in Inboxes /\ tree \in Trees
  BY Typed DEF DelegationInv
<1>1. pc \in Places /\ pc \in Busy BY DEF Places, Busy
<1>2. Counters BY NextSame DEF DelegationInv
<1>3. MailTo({}) BY <1>0, MailSame
<1>4. InHand(a) BY DEF DelegationInv
<1> DEFINE t == proc[a].id
<1>5. t \in Dirs(tree[a]) /\ t \in Ids BY <1>4 DEF InHand, Located, Dirs
<1>6. TreeTo(a, t, s, tree[a][t].incoming, tree[a][t].artifacts, tree[a][t].result) BY DEF StateTo
<1>7. ProcTo(a, pc, proc[a].msg, t, proc[a].todo, proc[a].targets, proc[a].sent, proc[a].ok)
  BY <1>0, <1>1, GotoTo
<1>9. /\ tree'[a][t].state = s /\ tree'[a][t].incoming = tree[a][t].incoming
      /\ tree'[a][t].artifacts = tree[a][t].artifacts /\ tree'[a][t].result = tree[a][t].result
      /\ proc'[a].pc = pc /\ proc'[a].id = t /\ proc'[a].msg = proc[a].msg
      /\ proc'[a].targets = proc[a].targets /\ proc'[a].sent = proc[a].sent
      /\ proc'[a].ok = proc[a].ok
  BY <1>6, <1>7 DEF TreeTo, ProcTo
<1>10. t \in Dirs(tree'[a]) BY <1>5, <1>9 DEF Dirs
<1>11. Located(a)' BY <1>1, <1>4, <1>9, <1>10 DEF InHand, Located
<1>12. Sdk(a)' <=> Sdk(a) BY SdkSame DEF Bounds
<1>13. Sdk(a)' \/ Staged(a)' BY <1>9, <1>12 DEF Staged, Reached
<1>14. Sdk(a) => \A u \in Dirs(tree'[a]) : tree'[a][u].incoming = u BY <1>5, <1>6, SdkIncoming
<1>15. ASSUME a \in Workers PROVE Prepared(a)'
  <2>1. tree'[a][proc'[a].id].incoming = proc'[a].msg.id
    BY <1>4, <1>9, <1>15 DEF InHand, Prepared
  <2>2. CASE pc = "reply"
    <3>1. Ended(a, proc[a].id)' BY <1>9, <1>12, <1>15, <2>2 DEF Ended
    <3> QED BY <1>9, <1>12, <1>14, <2>1, <2>2, <3>1 DEF Prepared
  <2>3. CASE pc # "reply"
    <3>1. proc'[a].pc \notin {"finish", "reply"} /\ ~proc'[a].ok BY <1>9, <1>15, <2>3
    <3> QED BY <1>12, <1>14, <2>1, <3>1 DEF Prepared
  <2> QED BY <2>2, <2>3
<1>16. InHand(a)' BY <1>11, <1>13, <1>15 DEF InHand
<1> HIDE DEF t
<1>17. proc[a].id = t BY DEF t
<1>18. UNCHANGED <<Table, Bounds>> OBVIOUS
<1> QED BY <1>1, <1>2, <1>3, <1>5, <1>6, <1>7, <1>16, <1>17, <1>18, Move

\* The same, when the write may fail.
LEMMA SetStateOK ==
    ASSUME DelegationInv, NEW a \in Agents, UNCHANGED <<inbox, next, Table, Bounds>>,
           NEW pc \in {"plan", "work", "send", "reply"}, Goto(a, pc),
           NEW s \in task_state_t, SetState(a, s),
           proc[a].pc \in Busy, Sdk(a) \/ tree[a][proc[a].id].state \in Active,
           pc \in {"plan", "send"} => a = Fan, pc \in {"work", "reply"} => a \in Workers,
           pc # "reply" => s \in Active, pc = "send" => s = "delegated",
           a = Fan => s # "completed" /\ Posted',
           a \in Workers /\ pc = "reply" =>
              \/ Sdk(a) \/ tree[a][proc[a].id].unwritten
              \/ /\ tree[a][proc[a].id].result
                 /\ s = "failed" \/ (s = "completed" /\ tree[a][proc[a].id].artifacts = 3),
           a \in Workers /\ pc # "reply" => ~proc[a].ok
    PROVE  StepOK
<1>0. tree \in Trees BY Typed DEF DelegationInv
<1>1. proc[a].id \in Dirs(tree[a]) BY DEF DelegationInv, InHand, Located
<1>2. Sdk(a) \/ tree[a][proc[a].id].state \notin Terminal BY DEF Active, Terminal
<1>3. CASE StateTo(a, proc[a].id, s)
  <2>1. s # "none" BY DEF task_state_t
  <2>2. tree[a][proc[a].id].unwritten => tree'[a][proc[a].id].unwritten
    BY <1>1, <1>3 DEF StateTo, TreeTo
  <2> QED BY <1>2, <1>3, <2>1, <2>2, StateOK
<1>4. CASE WriteFails(a, proc[a].id)
  <2>1. ~Sdk(a) BY <1>4 DEF WriteFails
  <2> DEFINE v == tree[a][proc[a].id].state
  <2>2. StateTo(a, proc[a].id, v) /\ tree'[a][proc[a].id].unwritten
    BY <1>0, <1>1, <1>2, <1>4, <2>1, WriteFailsTo
  <2>3. v \in Active /\ v # "none" /\ v # "completed" BY <2>1 DEF Active
  <2> HIDE DEF v
  <2> QED BY <1>2, <2>2, <2>3, StateOK
<1> QED BY <1>0, <1>1, <1>3, <1>4, SetStateTo

\* Nothing is answered or sent between create and the first delegation.
LEMMA PostedMove ==
    ASSUME Posted, UNCHANGED Table, proc'[Fan].id = proc[Fan].id, proc'[Fan].sent = proc[Fan].sent,
           proc'[Fan].msg = proc[Fan].msg,
           proc[Fan].pc \in {"queue", "run", "plan"}, proc'[Fan].pc \in {"run", "plan", "send"}
    PROVE  Posted'
<1>1. pending' = pending /\ answered' = answered BY DEF Table
<1>2. /\ proc'[Fan].sent = 0 /\ \A w \in Workers : <<proc[Fan].id, w>> \notin answered
      /\ proc'[Fan].msg \in Message
  BY DEF Posted
<1>3. \A w \in Workers : <<proc'[Fan].id, w>> \notin answered' BY <1>1, <1>2
<1> QED BY <1>2, <1>3 DEF Posted

\* A step of the fan-out agent that moves on keeps what it has in hand.
LEMMA GotoFan ==
    ASSUME DelegationInv, NEW pc \in Places, Goto(Fan, pc)
    PROVE  /\ proc'[Fan].id = proc[Fan].id /\ proc'[Fan].sent = proc[Fan].sent
           /\ proc'[Fan].msg = proc[Fan].msg /\ proc'[Fan].pc = pc
<1>1. proc \in [Agents -> Process] /\ Fan \in Agents BY Typed, Who DEF DelegationInv
<1> QED BY <1>1, GotoTo DEF ProcTo

\* The task in hand is queued.
LEMMA QueueOK == ASSUME DelegationInv, NEW a \in Agents, Queue(a) PROVE StepOK
<1>0. tree \in Trees BY Typed DEF DelegationInv
<1>1. proc[a].pc = "queue" /\ UNCHANGED <<inbox, next, Table, Bounds>> BY DEF Queue
<1>2. InHand(a) BY DEF DelegationInv
<1>3. Sdk(a) \/ tree[a][proc[a].id].state = "unset" BY <1>1, <1>2 DEF InHand, Staged
<1>4. proc[a].pc \in Busy /\ proc[a].id \in Dirs(tree[a]) BY <1>1, <1>2 DEF InHand, Located, Busy
<1>5. CASE /\ tree' = [tree EXCEPT ![a] = task_set_state(@, proc[a].id, "queued")]
           /\ Goto(a, "run")
  <2>1. StateTo(a, proc[a].id, "queued")
    <3>1. tree' = [tree EXCEPT ![a] = task_set_state(tree[a], proc[a].id, "queued")]
      BY <1>0, <1>5 DEF Trees
    <3> QED BY <1>0, <1>4, <3>1, StateSet DEF task_state_t, Dirs
  <2>2. Sdk(a) \/ tree[a][proc[a].id].state \notin Terminal BY <1>3 DEF Terminal
  <2>3. a \in Workers => ~proc[a].ok BY <1>1, <1>2 DEF InHand, Prepared
  <2>4. ASSUME a = Fan PROVE Posted'
    <3>1. /\ proc'[Fan].id = proc[Fan].id /\ proc'[Fan].sent = proc[Fan].sent
          /\ proc'[Fan].msg = proc[Fan].msg /\ proc'[Fan].pc = "run"
      BY <1>5, <2>4, GotoFan DEF Places
    <3> QED BY <1>1, <2>4, <3>1, PostedMove DEF DelegationInv
  <2> QED BY <1>1, <1>4, <1>5, <2>1, <2>2, <2>3, <2>4, StateOK DEF Active
<1>6. CASE WriteFails(a, proc[a].id) /\ Done(a)
  <2>1. ~Sdk(a) BY <1>6 DEF WriteFails
  <2>2. tree[a][proc[a].id].state = "unset" /\ tree[a][proc[a].id].state \notin Terminal
    BY <1>3, <2>1 DEF Terminal
  <2>3. StateTo(a, proc[a].id, "unset") /\ tree'[a][proc[a].id].unwritten
    BY <1>0, <1>4, <1>6, <2>2, WriteFailsTo
  <2> QED BY <1>1, <1>4, <1>6, <2>2, <2>3, DropOK
<1> QED BY <1>5, <1>6 DEF Queue

\* The task in hand runs.
LEMMA RunOK == ASSUME DelegationInv, NEW a \in Agents, Run(a) PROVE StepOK
<1> DEFINE pc == IF a = Fan THEN "plan" ELSE "work"
<1>1. /\ proc[a].pc = "run" /\ SetState(a, "running") /\ Goto(a, pc)
      /\ UNCHANGED <<inbox, next, Table, Bounds>>
  BY DEF Run
<1>2. /\ pc = "plan" \/ pc = "work"
      /\ pc = "plan" => a = Fan
      /\ pc = "work" => a \in Workers
  BY Who
<1>3. a = Fan => pc = "plan" OBVIOUS
<1> HIDE DEF pc
<1>4. InHand(a) BY DEF DelegationInv
<1>5. Sdk(a) \/ tree[a][proc[a].id].state \in Active BY <1>1, <1>4 DEF InHand, Staged
<1>6. a \in Workers => ~proc[a].ok BY <1>1, <1>4 DEF InHand, Prepared
<1>7. ASSUME a = Fan PROVE Posted'
  <2>1. Goto(Fan, "plan") BY <1>1, <1>3, <1>7
  <2>2. /\ proc'[Fan].id = proc[Fan].id /\ proc'[Fan].sent = proc[Fan].sent
        /\ proc'[Fan].msg = proc[Fan].msg /\ proc'[Fan].pc = "plan"
    BY <2>1, GotoFan DEF Places
  <2> QED BY <1>1, <1>7, <2>2, PostedMove DEF DelegationInv
<1>8. proc[a].pc \in Busy BY <1>1 DEF Busy
<1>9. pc \in {"plan", "work", "send", "reply"} BY <1>2
<1>10. pc \in {"plan", "send"} => a = Fan BY <1>2
<1>11. pc \in {"work", "reply"} => a \in Workers BY <1>2
<1>12. pc # "send" /\ pc # "reply" BY <1>2
<1>13. "running" \in task_state_t /\ "running" \in Active BY DEF task_state_t, Active
<1> QED BY <1>1, <1>5, <1>6, <1>7, <1>8, <1>9, <1>10, <1>11, <1>12, <1>13, SetStateOK

\* A worker ends its task after the result file was written.
LEMMA FinishOK == ASSUME DelegationInv, NEW w \in Workers, Finish(w) PROVE StepOK
<1> DEFINE s == IF proc[w].ok THEN "completed" ELSE "failed"
<1>0. w \in Agents /\ w # Fan BY Who
<1>1. /\ proc[w].pc = "finish" /\ SetState(w, s) /\ Goto(w, "reply")
      /\ UNCHANGED <<inbox, next, Table, Bounds>>
  BY DEF Finish
<1>2. InHand(w) BY <1>0 DEF DelegationInv
<1>3. Sdk(w) \/ tree[w][proc[w].id].state \in Active BY <1>1, <1>2 DEF InHand, Staged
<1>4. Sdk(w) \/ tree[w][proc[w].id].unwritten \/ tree[w][proc[w].id].result
  BY <1>1, <1>2 DEF InHand, Prepared
<1>5. Sdk(w) \/ s = "failed" \/ (s = "completed" /\ tree[w][proc[w].id].artifacts = 3)
  BY <1>1, <1>2 DEF InHand, Prepared
<1>6. s \in task_state_t BY DEF task_state_t
<1> HIDE DEF s
<1>7. proc[w].pc \in Busy BY <1>1 DEF Busy
<1> QED BY <1>0, <1>1, <1>3, <1>4, <1>5, <1>6, <1>7, SetStateOK
=============================================================================
