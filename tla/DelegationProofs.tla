-------------------------- MODULE DelegationProofs --------------------------
(***************************************************************************)
(* For every set of workers, every list of deployments and any numbers of  *)
(* tasks, targets, requests and deaths: DelegationInv holds at all times,  *)
(* and what follows from it about results, pending files and task trees.   *)
(***************************************************************************)
EXTENDS DelegationSteps

USE Zenon

(***************************************************************************)
(* The workers.                                                            *)
(***************************************************************************)
LEMMA WorkOK == ASSUME DelegationInv, NEW w \in Workers, Work(w) PROVE StepOK
<1>0. /\ proc \in [Agents -> Process] /\ inbox \in Inboxes /\ tree \in Trees
      /\ w \in Agents /\ w # Fan
  BY Typed, Who DEF DelegationInv
<1>1. proc[w].pc = "work" /\ ~Sdk(w) /\ UNCHANGED <<inbox, next, Table, Bounds>> BY DEF Work
<1>2. Counters BY <1>1, NextSame DEF DelegationInv
<1>3. MailTo({}) BY <1>0, <1>1, MailSame
<1>4. InHand(w) BY <1>0 DEF DelegationInv
<1> DEFINE t == proc[w].id
<1>5. /\ t \in Dirs(tree[w]) /\ t \in Ids /\ tree[w][t].state \in Active /\ ~proc[w].ok
      /\ tree[w][t].incoming = proc[w].msg.id
  BY <1>1, <1>4 DEF InHand, Located, Staged, Prepared, Busy, Dirs
<1>6. ~Sdk(w)' BY <1>1, SdkSame DEF Bounds
<1>7. CASE proc' = proc /\ tree[w][t].artifacts < 3 /\ tree' = [tree EXCEPT ![w][t].artifacts = @ + 1]
  <2> DEFINE n == tree[w][t].artifacts + 1
  <2>1. TreeTo(w, t, tree[w][t].state, tree[w][t].incoming, n, tree[w][t].result)
    BY <1>0, <1>5, <1>7, ArtifactTo
  <2> HIDE DEF n
  <2>2. ProcTo(w, "work", proc[w].msg, t, proc[w].todo, proc[w].targets, proc[w].sent, proc[w].ok)
    BY <1>0, <1>1, <1>7 DEF ProcTo
  <2>3. tree'[w][t].state \in Active /\ tree'[w][t].incoming = proc[w].msg.id
    BY <1>5, <2>1 DEF TreeTo
  <2>4. t \in Dirs(tree'[w]) BY <1>5, <2>3 DEF Dirs, Active
  <2>5. Located(w)' BY <1>1, <1>4, <1>7, <2>4 DEF InHand, Located, Busy
  <2>6. Staged(w)' BY <1>1, <1>7, <2>3 DEF Staged
  <2>7. Prepared(w)' BY <1>1, <1>5, <1>6, <1>7, <2>3 DEF Prepared
  <2>8. InHand(w)' BY <2>5, <2>6, <2>7 DEF InHand
  <2>9. tree[w][t].state \notin Terminal /\ tree[w][t].state # "none" BY <1>5 DEF Active, Terminal
  <2>10. proc[w].id = t OBVIOUS
  <2> HIDE DEF t
  <2> QED BY <1>0, <1>1, <1>2, <1>3, <1>5, <2>1, <2>2, <2>8, <2>9, <2>10, Move DEF Busy
<1>8. ASSUME NEW ok \in BOOLEAN, tree' = tree, ok => tree[w][t].artifacts = 3,
             ProcTo(w, "result", proc[w].msg, t, proc[w].todo, proc[w].targets, proc[w].sent, ok)
      PROVE  StepOK
  <2>1. TreeTo(w, t, tree[w][t].state, tree[w][t].incoming, tree[w][t].artifacts, tree[w][t].result)
    BY <1>0, <1>8 DEF TreeTo
  <2>2. /\ proc'[w].pc = "result" /\ proc'[w].id = t /\ proc'[w].msg = proc[w].msg
        /\ proc'[w].targets = proc[w].targets /\ proc'[w].sent = proc[w].sent /\ proc'[w].ok = ok
    BY <1>8 DEF ProcTo
  <2>3. Located(w)' BY <1>4, <1>5, <1>8, <2>2 DEF InHand, Located, Busy
  <2>4. Staged(w)' BY <1>5, <1>8, <2>2 DEF Staged
  <2>5. Prepared(w)' BY <1>5, <1>6, <1>8, <2>2 DEF Prepared
  <2>6. InHand(w)' BY <2>3, <2>4, <2>5 DEF InHand
  <2>7. tree[w][t].state \notin Terminal /\ tree[w][t].state # "none" BY <1>5 DEF Active, Terminal
  <2>8. proc[w].id = t OBVIOUS
  <2> HIDE DEF t
  <2> QED BY <1>0, <1>1, <1>2, <1>3, <1>5, <1>8, <2>1, <2>6, <2>7, <2>8, Move DEF Busy
<1>9. CASE /\ tree' = tree /\ tree[w][t].artifacts = 3
           /\ proc' = [proc EXCEPT ![w] = [@ EXCEPT !.pc = "result", !.ok = TRUE]]
  BY <1>0, <1>8, <1>9, OkTo DEF Places
<1>10. CASE tree' = tree /\ Goto(w, "result")
  <2>1. proc[w].ok \in BOOLEAN BY <1>0, ProcFields
  <2>2. ProcTo(w, "result", proc[w].msg, t, proc[w].todo, proc[w].targets, proc[w].sent, proc[w].ok)
    BY <1>0, <1>10, GotoTo DEF Places
  <2> QED BY <1>5, <1>8, <1>10, <2>1, <2>2
<1> QED BY <1>7, <1>9, <1>10 DEF Work

\* No task has the id that stands for none.
LEMMA NoIdIsNone == NoId \notin Ids
BY TasksAssumption, SMT DEF NoId, Ids, TasksAssumption

\* What a worker sends back: its record of the task it was given.
LEMMA ReplyMessage ==
    ASSUME DelegationInv, NEW w \in Workers, proc[w].pc \in Busy, Ended(w, proc[w].id),
           NEW reply, NEW m, reply = IF Sdk(w) THEN w ELSE Nobody, m = ResultMessage(w, reply)
    PROVE  /\ m \in Message
           /\ proc[w].msg.reply \in Agents => proc[w].msg.reply = Fan /\ Expected(Fan, m)
<1>0. proc \in [Agents -> Process] /\ w \in Agents /\ w # Fan BY Typed, Who DEF DelegationInv
<1>1. InHand(w) BY <1>0 DEF DelegationInv
<1>2. /\ proc[w].id \in Dirs(tree[w]) /\ proc[w].id \in Ids
      /\ tree[w][proc[w].id].incoming = proc[w].msg.id
  BY <1>1 DEF InHand, Located, Prepared, Dirs
<1>3. proc[w].msg.id \in Ids \cup {NoId}
  <2>1. proc[w].msg \in Message \cup {NoMessage} BY <1>0, ProcFields
  <2>2. CASE proc[w].msg \in Message BY <2>2 DEF Message
  <2>3. CASE proc[w].msg = NoMessage
    <3>1. NoMessage.id = NoId BY DEF NoMessage
    <3> QED BY <2>3, <3>1
  <2> QED BY <2>1, <2>2, <2>3
<1> DEFINE i == IF proc[w].msg.id # NoId THEN proc[w].msg.id ELSE proc[w].id
<1>4. m = [verb |-> "result", from |-> w, reply |-> reply, id |-> i] BY DEF ResultMessage
<1>5. i \in Ids BY <1>2, <1>3
<1>6. proc[w].msg.id \in Ids => i = proc[w].msg.id BY NoIdIsNone
<1> HIDE DEF i
<1>7. reply \in Agents \cup {Nobody} BY <1>0
<1>8. m \in Message BY <1>0, <1>4, <1>5, <1>7, SMT DEF Message
<1>9. ASSUME proc[w].msg.reply \in Agents PROVE proc[w].msg.reply = Fan /\ Expected(Fan, m)
  <2>1. Expected(w, proc[w].msg) BY DEF DelegationInv, Mail
  <2>2. FromFan(proc[w].msg) BY <1>0, <1>9, <2>1, Who DEF Expected, FromOperator
  <2>3. proc[w].msg.reply = Fan /\ proc[w].msg.id \in Dirs(tree[Fan]) BY <2>2 DEF FromFan
  <2>4. i = proc[w].msg.id BY <1>6, <2>3 DEF Dirs
  <2>5. Recorded(w, proc[w].id, i) BY <1>2, <2>4 DEF Recorded
  <2>6. OnRecord(w, i) BY <1>2, <2>5 DEF OnRecord
  <2>7. m.verb = "result" /\ m.from = w /\ m.reply = reply /\ m.id = i BY <1>4, SMT
  <2>8. i \in Dirs(tree[Fan]) BY <2>3, <2>4
  <2>9. FromWorker(m) BY <2>6, <2>7, <2>8 DEF FromWorker
  <2> QED BY <2>3, <2>9 DEF Expected
<1> QED BY <1>8, <1>9

\* A step of an SDK worker that keeps its task and leaves its tree alone.
LEMMA SdkMoves ==
    ASSUME DelegationInv, NEW w \in Workers, Sdk(w), proc[w].pc \in Busy,
           UNCHANGED <<tree, next, Table, Bounds>>,
           NEW pc \in {"told", "result", "reply"}, NEW ok \in BOOLEAN, pc = "told" => ~ok,
           ProcTo(w, pc, proc[w].msg, proc[w].id, proc[w].todo, proc[w].targets, proc[w].sent, ok),
           NEW M, MailTo(M), \A b \in Agents, m \in Message : <<b, m>> \in M => Expected(b, m)'
    PROVE  StepOK
<1>0. tree \in Trees /\ w \in Agents /\ w # Fan BY Typed, Who DEF DelegationInv
<1>1. tree' = tree /\ deployment' = deployment /\ UNCHANGED <<Table, Bounds>> BY DEF Bounds
<1>2. Counters BY NextSame DEF DelegationInv
<1>3. InHand(w) BY <1>0 DEF DelegationInv
<1> DEFINE t == proc[w].id
<1>4. t \in Dirs(tree[w]) /\ t \in Ids /\ tree[w][t].incoming = proc[w].msg.id
  BY <1>3 DEF InHand, Located, Prepared, Dirs
<1>5. Sdk(w)' BY <1>1, SdkSame
<1>6. TreeTo(w, t, tree[w][t].state, tree[w][t].incoming, tree[w][t].artifacts, tree[w][t].result)
  BY <1>0, <1>1 DEF TreeTo
<1>7. /\ proc'[w].pc = pc /\ proc'[w].id = t /\ proc'[w].msg = proc[w].msg /\ proc'[w].ok = ok
      /\ proc'[w].targets = proc[w].targets /\ proc'[w].sent = proc[w].sent
  BY DEF ProcTo
<1>8. Located(w)' BY <1>1, <1>3, <1>4, <1>5, <1>7 DEF InHand, Located, Busy
<1>9. Prepared(w)'
  <2>1. \A u \in Dirs(tree[w]) : tree[w][u].incoming = u BY <1>3 DEF InHand, Prepared
  <2>2. Ended(w, proc[w].id)' BY <1>5 DEF Ended
  <2> QED BY <1>1, <1>4, <1>5, <1>7, <2>1, <2>2 DEF Prepared
<1>10. InHand(w)' BY <1>5, <1>8, <1>9 DEF InHand
<1>11. tree[w][t].state # "none" BY <1>4 DEF Dirs
<1>12. pc \in Busy BY DEF Busy
<1>13. proc[w].id = t OBVIOUS
<1> HIDE DEF t
<1> QED BY <1>0, <1>1, <1>2, <1>4, <1>6, <1>10, <1>11, <1>12, <1>13, MoveSend

\* The same, when nothing is sent.
LEMMA SdkMovesSilently ==
    ASSUME DelegationInv, NEW w \in Workers, Sdk(w), proc[w].pc \in Busy,
           UNCHANGED <<inbox, tree, next, Table, Bounds>>,
           NEW pc \in {"result", "reply"}, NEW ok \in BOOLEAN,
           ProcTo(w, pc, proc[w].msg, proc[w].id, proc[w].todo, proc[w].targets, proc[w].sent, ok)
    PROVE  StepOK
<1> DEFINE M == {}
<1>1. MailTo(M) BY MailSame, Typed DEF DelegationInv
<1>2. \A b \in Agents, m \in Message : <<b, m>> \in M => Expected(b, m)' OBVIOUS
<1> HIDE DEF M
<1> QED BY <1>1, <1>2, SdkMoves

\* An SDK handler returns, raises, or replies by itself.
LEMMA WorkSdkOK == ASSUME DelegationInv, NEW w \in Workers, WorkSdk(w) PROVE StepOK
<1>0. /\ proc \in [Agents -> Process] /\ inbox \in Inboxes /\ w \in Agents
  BY Typed, Who DEF DelegationInv
<1>1. proc[w].pc \in {"work", "told"} /\ Sdk(w) /\ UNCHANGED <<tree, next, Table, Bounds>>
  BY DEF WorkSdk
<1>2. proc[w].pc \in Busy /\ proc[w].ok \in BOOLEAN BY <1>0, <1>1, ProcFields DEF Busy
<1>3. ASSUME UNCHANGED inbox, NEW ok \in BOOLEAN,
             proc' = [proc EXCEPT ![w] = [@ EXCEPT !.pc = "result", !.ok = ok]]
      PROVE  StepOK
  <2>1. ProcTo(w, "result", proc[w].msg, proc[w].id, proc[w].todo, proc[w].targets, proc[w].sent, ok)
    BY <1>0, <1>3, OkTo DEF Places
  <2> QED BY <1>1, <1>2, <1>3, <2>1, SdkMovesSilently
<1>4. CASE UNCHANGED inbox /\ Goto(w, "reply")
  <2>1. ProcTo(w, "reply", proc[w].msg, proc[w].id, proc[w].todo, proc[w].targets, proc[w].sent,
               proc[w].ok)
    BY <1>0, <1>4, GotoTo DEF Places
  <2> QED BY <1>1, <1>2, <1>4, <2>1, SdkMovesSilently
<1>5. CASE inbox' = Deliver(proc[w].msg.reply, ResultMessage(w, w)) /\ Goto(w, "told")
  <2> DEFINE m == ResultMessage(w, w)
             to == proc[w].msg.reply
             M  == {<<to, m>>}
  <2>1. Ended(w, proc[w].id) BY <1>1 DEF Ended
  <2>2. w = IF Sdk(w) THEN w ELSE Nobody BY <1>1
  <2>3. m \in Message /\ (to \in Agents => to = Fan /\ Expected(Fan, m))
    BY <1>2, <2>1, <2>2, ReplyMessage
  <2>4. inbox' = Deliver(to, m) BY <1>5
  <2>5. ~proc[w].ok BY <1>0, <1>1 DEF DelegationInv, InHand, Prepared
  <2>6. ProcTo(w, "told", proc[w].msg, proc[w].id, proc[w].todo, proc[w].targets, proc[w].sent,
               proc[w].ok)
    BY <1>0, <1>5, GotoTo DEF Places
  <2>7. Kept BY <1>1, KeptSame DEF Bounds
  <2> HIDE DEF m, to
  <2>8. MailTo({}) \/ (to \in Agents /\ MailTo(M)) BY <1>0, <2>3, <2>4, MailDeliver
  <2>9. ASSUME to \in Agents, NEW b \in Agents, NEW k \in Message, <<b, k>> \in M
        PROVE  Expected(b, k)'
    <3>1. b = to /\ k = m BY <2>9
    <3>2. Expected(b, k) BY <2>3, <2>9, <3>1
    <3> QED BY <2>7, <3>2, ExpectedKept
  <2> HIDE DEF M
  <2> DEFINE N == {}
  <2>10. \A b \in Agents, k \in Message : <<b, k>> \in N => Expected(b, k)' OBVIOUS
  <2>11. MailTo(N) \/ (to \in Agents /\ MailTo(M)) BY <2>8
  <2> HIDE DEF N
  <2> QED BY <1>1, <1>2, <2>5, <2>6, <2>9, <2>10, <2>11, SdkMoves
<1> QED BY <1>3, <1>4, <1>5 DEF WorkSdk

\* A write of the SDK raises: the task fails, or the agent ends.
LEMMA WriteFailsSdkOK == ASSUME DelegationInv, NEW w \in Workers, WriteFailsSdk(w) PROVE StepOK
<1>0. proc \in [Agents -> Process] /\ inbox \in Inboxes /\ w \in Agents
  BY Typed, Who DEF DelegationInv
<1>1. /\ proc[w].pc \in {"create", "queue", "run", "result", "finish"} /\ Sdk(w)
      /\ UNCHANGED <<inbox, tree, next, Table, Bounds>>
  BY DEF WriteFailsSdk
<1>2. CASE proc[w].ok
  <2>1. proc[w].pc \in Busy BY <1>0, <1>1, <1>2 DEF DelegationInv, InHand, Prepared, Busy
  <2>2. proc' = [proc EXCEPT ![w] = [proc[w] EXCEPT !.pc = "result", !.ok = FALSE]]
    BY <1>2 DEF WriteFailsSdk
  <2>3. ProcTo(w, "result", proc[w].msg, proc[w].id, proc[w].todo, proc[w].targets, proc[w].sent,
               FALSE)
    BY <1>0, <2>2, OkTo DEF Places
  <2> QED BY <1>1, <2>1, <2>3, SdkMovesSilently
<1>3. CASE ~proc[w].ok
  <2>1. proc' = [proc EXCEPT ![w] = At("close")] BY <1>3 DEF WriteFailsSdk
  <2>2. ProcTo(w, "close", NoMessage, NoId, {}, {}, 0, FALSE) BY <1>0, <2>1, AtTo DEF Places
  <2>3. MailTo({}) BY <1>0, <1>1, MailSame
  <2>4. OwnedKept BY <1>0, <1>1, <2>2, OwnedRest DEF ProcTo, Bounds, Settled
  <2>5. Counters BY <1>1, NextSame DEF DelegationInv
  <2> QED BY <1>0, <1>1, <2>2, <2>3, <2>4, <2>5, RestAt DEF Resting
<1> QED BY <1>2, <1>3

\* A worker writes the result file.
LEMMA ResultOK == ASSUME DelegationInv, NEW w \in Workers, Result(w) PROVE StepOK
<1>0. /\ proc \in [Agents -> Process] /\ inbox \in Inboxes /\ tree \in Trees
      /\ w \in Agents /\ w # Fan
  BY Typed, Who DEF DelegationInv
<1>1. proc[w].pc = "result" /\ Goto(w, "finish") /\ UNCHANGED <<inbox, next, Table, Bounds>>
  BY DEF Result
<1>2. Counters BY <1>1, NextSame DEF DelegationInv
<1>3. MailTo({}) BY <1>0, <1>1, MailSame
<1>4. InHand(w) BY <1>0 DEF DelegationInv
<1> DEFINE t == proc[w].id
<1>5. t \in Dirs(tree[w]) /\ t \in Ids /\ tree[w][t].incoming = proc[w].msg.id
  BY <1>1, <1>4 DEF InHand, Located, Prepared, Busy, Dirs
<1>6. Sdk(w) \/ tree[w][t].state \in Active BY <1>1, <1>4 DEF InHand, Staged
<1>7. PICK r : /\ TreeTo(w, t, tree[w][t].state, tree[w][t].incoming, tree[w][t].artifacts, r)
               /\ r = TRUE \/ tree'[w][t].unwritten
  <2>1. CASE tree' = [tree EXCEPT ![w][proc[w].id].result = TRUE]
    <3>1. TreeTo(w, t, tree[w][t].state, tree[w][t].incoming, tree[w][t].artifacts, TRUE)
      BY <1>0, <1>5, <2>1, ResultTo
    <3> QED BY <3>1
  <2>2. CASE WriteFails(w, t)
    <3>1. tree[w][t].state \notin Terminal BY <1>6, <2>2 DEF WriteFails, Active, Terminal
    <3> QED BY <1>0, <1>5, <2>2, <3>1, WriteFailsTo DEF StateTo
  <2> QED BY <2>1, <2>2 DEF Result
<1>8. ProcTo(w, "finish", proc[w].msg, t, proc[w].todo, proc[w].targets, proc[w].sent, proc[w].ok)
  BY <1>0, <1>1, GotoTo DEF Places
<1>9. /\ tree'[w][t].state = tree[w][t].state /\ tree'[w][t].incoming = tree[w][t].incoming
      /\ tree'[w][t].artifacts = tree[w][t].artifacts
      /\ tree'[w][t].result \/ tree'[w][t].unwritten
      /\ proc'[w].pc = "finish" /\ proc'[w].id = t /\ proc'[w].msg = proc[w].msg
      /\ proc'[w].targets = proc[w].targets /\ proc'[w].sent = proc[w].sent
      /\ proc'[w].ok = proc[w].ok
  BY <1>7, <1>8 DEF TreeTo, ProcTo
<1>10. t \in Dirs(tree'[w]) /\ tree[w][t].state # "none" BY <1>5, <1>9 DEF Dirs
<1>11. Located(w)' BY <1>4, <1>9, <1>10 DEF InHand, Located, Busy
<1>12. Sdk(w)' <=> Sdk(w) BY <1>1, SdkSame DEF Bounds
<1>13. Sdk(w)' \/ Staged(w)' BY <1>6, <1>9, <1>12 DEF Staged
<1>14. Sdk(w) => \A u \in Dirs(tree'[w]) : tree'[w][u].incoming = u BY <1>0, <1>5, <1>7, SdkIncoming
<1>15. Prepared(w)'
  <2>1. proc[w].ok => Sdk(w) \/ tree[w][t].artifacts = 3 BY <1>1, <1>4 DEF InHand, Prepared
  <2> QED BY <1>5, <1>9, <1>12, <1>14, <2>1 DEF Prepared
<1>16. InHand(w)' BY <1>11, <1>13, <1>15 DEF InHand
<1>17. proc[w].id = t OBVIOUS
<1>18. Sdk(w) \/ tree[w][t].state \notin Terminal BY <1>6 DEF Active, Terminal
<1> HIDE DEF t
<1> QED BY <1>0, <1>1, <1>2, <1>3, <1>5, <1>7, <1>8, <1>10, <1>16, <1>17, <1>18, Move DEF Busy

\* A count other than zero means that somebody is pending.
LEMMA SomePending ==
    ASSUME NEW P, P \subseteq Ids \X Workers, NEW t, pending_count_for_task(P, t) # 0
    PROVE  \E w \in Workers : <<t, w>> \in P
<1> DEFINE F == {f \in P : f[1] = t}
<1>1. Cardinality(F) # 0 BY DEF pending_count_for_task
<1>2. F # {} BY <1>1, FS_EmptySet
<1>3. PICK f \in P : f[1] = t BY <1>2
<1>4. PICK u \in Ids, w \in Workers : f = <<u, w>> BY <1>3, SMT
<1>5. u = t BY <1>3, <1>4
<1> QED BY <1>3, <1>4, <1>5

\* The end of a worker's task, with the reply on its way or not.
LEMMA RepliedOK ==
    ASSUME DelegationInv, NEW w \in Workers, proc[w].pc = "reply", NEW reply,
           reply = IF Sdk(w) THEN w ELSE Nobody,
           UNCHANGED inbox \/ inbox' = Deliver(proc[w].msg.reply, ResultMessage(w, reply)),
           NEW pc \in {"idle", "close"}, proc' = [proc EXCEPT ![w] = At(pc)],
           UNCHANGED <<tree, next, Table, Bounds>>
    PROVE  StepOK
<1>0. proc \in [Agents -> Process] /\ inbox \in Inboxes /\ w \in Agents
  BY Typed, Who DEF DelegationInv
<1>1. ProcTo(w, pc, NoMessage, NoId, {}, {}, 0, FALSE) BY <1>0, AtTo DEF Places
<1>2. deployment' = deployment BY DEF Bounds
<1>3. OwnedKept
  <2>1. Ended(w, proc[w].id) BY <1>0 DEF DelegationInv, InHand, Prepared
  <2>2. Settled(w) BY <2>1 DEF Ended, Settled, Active
  <2> QED BY <1>0, <1>1, <1>2, <2>2, OwnedRest DEF ProcTo
<1>4. Counters BY NextSame DEF DelegationInv
<1> DEFINE m == ResultMessage(w, reply)
           to == proc[w].msg.reply
<1>5. m \in Message /\ (to \in Agents => to = Fan /\ Expected(Fan, m))
  <2>1. Ended(w, proc[w].id) /\ proc[w].pc \in Busy
    BY <1>0 DEF DelegationInv, InHand, Prepared, Busy
  <2> QED BY <2>1, ReplyMessage
<1>6. inbox' = inbox \/ inbox' = Deliver(to, m) OBVIOUS
<1> HIDE DEF m, to
<1>7. MailTo({}) \/ (to \in Agents /\ MailTo({<<to, m>>})) BY <1>0, <1>5, <1>6, MailSame, MailDeliver
<1>8. CASE MailTo({}) BY <1>0, <1>1, <1>3, <1>4, <1>8, RestAt DEF Resting
<1>9. CASE to \in Agents /\ MailTo({<<to, m>>})
  <2> DEFINE M == {<<to, m>>}
  <2>1. ASSUME NEW b \in Agents, NEW k \in Message, <<b, k>> \in M PROVE Expected(b, k)'
    <3>1. b = to /\ k = m BY <2>1
    <3>2. Expected(b, k) BY <1>5, <1>9, <3>1
    <3>3. Kept BY <1>2, KeptSame
    <3> QED BY <3>2, <3>3, ExpectedKept
  <2>2. MailTo(M) BY <1>9
  <2> HIDE DEF M
  <2> QED BY <1>0, <1>1, <1>3, <1>4, <2>1, <2>2, RestAt DEF Resting
<1> QED BY <1>7, <1>8, <1>9

\* A reviewer replies, after its task ended.
LEMMA ReplyOK == ASSUME DelegationInv, NEW w \in Workers, Reply(w) PROVE StepOK
<1> DEFINE pc == IF w \in deployment.single THEN "close" ELSE "idle"
<1>1. /\ proc[w].pc = "reply" /\ ~Sdk(w) /\ proc' = [proc EXCEPT ![w] = At(pc)]
      /\ UNCHANGED inbox \/ inbox' = Deliver(proc[w].msg.reply, ResultMessage(w, Nobody))
      /\ UNCHANGED <<tree, next, Table, Bounds>>
  BY DEF Reply
<1>2. pc \in {"idle", "close"} OBVIOUS
<1> HIDE DEF pc
<1>3. Nobody = IF Sdk(w) THEN w ELSE Nobody BY <1>1
<1> QED BY <1>1, <1>2, <1>3, RepliedOK

\* An SDK agent replies.
LEMMA ReplySdkOK == ASSUME DelegationInv, NEW w \in Workers, ReplySdk(w) PROVE StepOK
<1>1. proc[w].pc = "reply" /\ Sdk(w) /\ UNCHANGED <<tree, next, Table, Bounds>> BY DEF ReplySdk
<1>2. \/ /\ inbox' = Deliver(proc[w].msg.reply, ResultMessage(w, w))
         /\ proc' = [proc EXCEPT ![w] = At("idle")]
      \/ proc' = [proc EXCEPT ![w] = At("close")] /\ UNCHANGED inbox
  BY DEF ReplySdk, Done
<1>3. w = IF Sdk(w) THEN w ELSE Nobody BY <1>1
<1> QED BY <1>1, <1>2, <1>3, RepliedOK

(***************************************************************************)
(* The fan-out agent.                                                      *)
(***************************************************************************)
\* The fan-out agent fails a task for which it has sent nothing.
LEMMA FailedOK ==
    ASSUME DelegationInv, proc[Fan].pc \in {"plan", "send"}, SetState(Fan, "failed"), Done(Fan),
           UNCHANGED <<inbox, next, Table, Bounds>>
    PROVE  StepOK
<1>0. tree \in Trees /\ Fan \in Agents /\ ~Sdk(Fan) BY Typed, Who, FanIsC DEF DelegationInv
<1>1. InHand(Fan) BY <1>0 DEF DelegationInv
<1>2. proc[Fan].id \in Dirs(tree[Fan]) /\ proc[Fan].pc \in Busy BY <1>1 DEF InHand, Located, Busy
<1> DEFINE v == tree[Fan][proc[Fan].id].state
<1>3. v \in Active BY <1>0, <1>1 DEF InHand, Staged
<1>4. v \notin Terminal /\ v \notin {"none", "completed"} BY <1>3 DEF Active, Terminal
<1>5. CASE StateTo(Fan, proc[Fan].id, "failed")
  <2>1. "failed" \notin Active BY DEF Active
  <2>2. "failed" \notin {"none", "completed"} OBVIOUS
  <2>3. tree[Fan][proc[Fan].id].state \notin Terminal BY <1>4
  <2> HIDE DEF v
  <2> QED BY <1>0, <1>2, <1>5, <2>1, <2>2, <2>3, DropOK
<1>6. CASE WriteFails(Fan, proc[Fan].id)
  <2>1. StateTo(Fan, proc[Fan].id, v) /\ tree'[Fan][proc[Fan].id].unwritten
    BY <1>0, <1>2, <1>4, <1>6, WriteFailsTo
  <2> QED BY <1>0, <1>2, <1>4, <2>1, DropOK
<1> QED BY <1>0, <1>2, <1>5, <1>6, SetStateTo DEF task_state_t

\* The fan-out agent has targets and delegates, or has none and fails the task.
LEMMA PlanOK == ASSUME DelegationInv, Plan PROVE StepOK
<1>0. Fan \in Agents /\ Fan \notin Workers BY Who
<1>1. proc[Fan].pc = "plan" /\ UNCHANGED <<inbox, next, Table, Bounds>> BY DEF Plan
<1>2. CASE SetState(Fan, "failed") /\ Done(Fan) BY <1>1, <1>2, FailedOK
<1>3. CASE SetState(Fan, "delegated") /\ Goto(Fan, "send")
  <2>1. /\ proc'[Fan].id = proc[Fan].id /\ proc'[Fan].sent = proc[Fan].sent
        /\ proc'[Fan].msg = proc[Fan].msg /\ proc'[Fan].pc = "send"
    BY <1>3, GotoFan DEF Places
  <2>2. Posted' BY <1>1, <2>1, PostedMove DEF DelegationInv
  <2>3. Sdk(Fan) \/ tree[Fan][proc[Fan].id].state \in Active
    BY <1>0, <1>1 DEF DelegationInv, InHand, Staged
  <2>4. proc[Fan].pc \in Busy BY <1>1 DEF Busy
  <2>5. "delegated" \in task_state_t /\ "delegated" \in Active BY DEF task_state_t, Active
  <2> QED BY <1>0, <1>1, <1>3, <2>2, <2>3, <2>4, <2>5, SetStateOK
<1> QED BY <1>2, <1>3 DEF Plan

\* The fan-out ends: with delegations sent, or with none and a failed task.
LEMMA EndFanoutOK == ASSUME DelegationInv, EndFanout PROVE StepOK
<1>0. /\ proc \in [Agents -> Process] /\ inbox \in Inboxes /\ Fan \in Agents /\ ~Sdk(Fan)
  BY Typed, Who, FanIsC DEF DelegationInv
<1>1. proc[Fan].pc = "send" /\ Done(Fan) /\ UNCHANGED <<inbox, next, Table, Bounds>> BY DEF EndFanout
<1>2. CASE proc[Fan].sent = 0 BY <1>1, <1>2, FailedOK DEF EndFanout
<1>3. CASE proc[Fan].sent # 0
  <2>1. UNCHANGED tree BY <1>3 DEF EndFanout
  <2>2. ProcTo(Fan, "idle", NoMessage, NoId, {}, {}, 0, FALSE) BY <1>0, <1>1, AtTo DEF Places, Done
  <2>3. \/ tree[Fan][proc[Fan].id].unwritten
        \/ \E w \in Workers : <<proc[Fan].id, w>> \in pending
    BY <1>1, <1>3 DEF DelegationInv, Posted
  <2>4. tree[Fan][proc[Fan].id].state = "delegated" \/ tree[Fan][proc[Fan].id].unwritten
    BY <1>0, <1>1 DEF DelegationInv, InHand, Staged, Reached
  <2>5. Settled(Fan) BY <2>3, <2>4 DEF Settled
  <2>6. OwnedKept BY <1>0, <1>1, <2>1, <2>2, <2>5, OwnedRest DEF ProcTo, Bounds
  <2>7. Counters BY <1>1, NextSame DEF DelegationInv
  <2>8. MailTo({}) BY <1>0, <1>1, MailSame
  <2> QED BY <1>0, <1>1, <2>1, <2>2, <2>6, <2>7, <2>8, RestAt DEF Resting
<1> QED BY <1>2, <1>3

\* The fan-out agent stays with its task, whatever it sends.
LEMMA SendingOK ==
    ASSUME DelegationInv, proc[Fan].pc = "send", NEW pc \in {"send", "track"},
           NEW S, IsFiniteSet(S), Cardinality(S) + proc[Fan].sent <= MAX_TARGETS,
           ProcTo(Fan, pc, proc[Fan].msg, proc[Fan].id, proc[Fan].todo, S, proc[Fan].sent,
                  proc[Fan].ok),
           NEW M, MailTo(M), \A b \in Agents, m \in Message : <<b, m>> \in M => Expected(b, m)',
           UNCHANGED <<tree, next, Table, Bounds>>
    PROVE  StepOK
<1>0. tree \in Trees /\ Fan \in Agents /\ Fan \notin Workers BY Typed, Who DEF DelegationInv
<1>1. deployment' = deployment /\ UNCHANGED Table /\ tree' = tree BY DEF Bounds
<1>2. Kept BY <1>1, KeptSame
<1>3. OneStep(Fan, M) BY <1>0, <1>1 DEF OneStep, ProcTo
<1>4. InHand(Fan) /\ Posted BY <1>0 DEF DelegationInv
<1>5. /\ proc'[Fan].pc = pc /\ proc'[Fan].id = proc[Fan].id /\ proc'[Fan].msg = proc[Fan].msg
      /\ proc'[Fan].targets = S /\ proc'[Fan].sent = proc[Fan].sent
  BY DEF ProcTo
<1>6. proc[Fan].id \in Dirs(tree[Fan]) BY <1>4 DEF InHand, Located, Busy
<1>7. Located(Fan)' BY <1>1, <1>5, <1>6 DEF Located, Busy
<1>8. Sdk(Fan)' \/ Staged(Fan)' BY <1>1, <1>4, <1>5 DEF InHand, Staged, Reached, Sdk
<1>9. InHand(Fan)' BY <1>0, <1>7, <1>8 DEF InHand
<1>10. Posted'
  <2>1. pending' = pending /\ answered' = answered BY DEF Table
  <2>2. /\ \A w \in Workers : <<proc[Fan].id, w>> \notin answered
        /\ proc[Fan].msg \in Message
        /\ proc[Fan].sent # 0 => \/ tree[Fan][proc[Fan].id].unwritten
                                 \/ \E w \in Workers : <<proc[Fan].id, w>> \in pending
    BY <1>4 DEF Posted
  <2> QED BY <1>1, <1>5, <2>1, <2>2 DEF Posted
<1>11. Agree'
  <2>1. Fan = Fan => /\ Posted'
                     /\ \A t \in Ids : tree'[Fan][t].state = "completed" =>
                                         tree[Fan][t].state = "completed"
    BY <1>1, <1>10
  <2> QED BY <1>0, <1>1, <1>2, <1>3, <1>9, <2>1, StepNext
<1>12. DelegationInv' BY <1>3, <1>11, InvNext, NextSame DEF DelegationInv
<1>13. OwnedKept
  <2>1. proc[Fan].id \in Ids BY <1>6 DEF Dirs
  <2>2. proc'[Fan].pc \in Busy BY <1>5 DEF Busy
  <2>3. \A b \in Agents \ {Fan} : proc'[b] = proc[b] /\ tree'[b] = tree[b] BY <1>3 DEF OneStep
  <2> QED BY <1>0, <1>1, <1>5, <2>1, <2>2, <2>3, OwnedMove
<1> QED BY <1>1, <1>12, <1>13, StaysSame DEF StepOK

\* A delegation is sent, or its target dropped.
LEMMA SendOK == ASSUME DelegationInv, Send PROVE StepOK
<1>0. /\ proc \in [Agents -> Process] /\ inbox \in Inboxes
      /\ Fan \in Agents /\ Workers \subseteq Agents /\ proc[Fan] \in Process
  BY Typed, Who DEF DelegationInv
<1>1. proc[Fan].pc = "send" /\ UNCHANGED <<tree, next, Table, Bounds>> BY DEF Send
<1>2. InHand(Fan) /\ Posted BY <1>0 DEF DelegationInv
<1>3. /\ proc[Fan].id \in Dirs(tree[Fan]) /\ IsFiniteSet(proc[Fan].targets)
      /\ Cardinality(proc[Fan].targets) + proc[Fan].sent <= MAX_TARGETS
  BY <1>1, <1>2 DEF InHand, Located, Busy
<1>4. proc[Fan].targets \in SUBSET (Nat \X Workers) /\ proc[Fan].sent \in 0 .. MAX_TARGETS
  BY <1>0, ProcFields
<1> DEFINE m == [verb |-> proc[Fan].msg.verb, id |-> proc[Fan].id, from |-> Fan, reply |-> Fan]
<1>5. PICK f \in FirstTarget(proc[Fan].targets) :
        \/ inbox' = Deliver(f[2], m) /\ Goto(Fan, "track")
        \/ proc' = [proc EXCEPT ![Fan].targets = @ \ {f}] /\ UNCHANGED inbox
  BY DEF Send
<1>6. f \in proc[Fan].targets BY DEF FirstTarget
<1>7. f[2] \in Workers BY <1>4, <1>6
<1>8. CASE inbox' = Deliver(f[2], m) /\ Goto(Fan, "track")
  <2>1. ProcTo(Fan, "track", proc[Fan].msg, proc[Fan].id, proc[Fan].todo, proc[Fan].targets,
               proc[Fan].sent, proc[Fan].ok)
    BY <1>0, <1>8, GotoTo DEF Places
  <2>2. m \in Message
    <3>1. proc[Fan].msg \in Message BY <1>1, <1>2 DEF Posted
    <3>2. proc[Fan].msg.verb \in Requests \cup {"result"} BY <3>1 DEF Message
    <3>3. proc[Fan].id \in Ids BY <1>3 DEF Dirs
    <3> QED BY <1>0, <3>2, <3>3 DEF Message
  <2>3. m.from = Fan /\ m.id = proc[Fan].id /\ m.reply = Fan OBVIOUS
  <2> HIDE DEF m
  <2>4. Expected(f[2], m) BY <1>3, <1>7, <2>3 DEF Expected, FromFan
  <2>5. Kept BY <1>1, KeptSame DEF Bounds
  <2>6. MailTo({}) \/ MailTo({<<f[2], m>>}) BY <1>8, <1>0, <2>2, MailDeliver
  <2>7. CASE MailTo({}) BY <1>1, <1>3, <2>1, <2>7, SendingOK
  <2>8. CASE MailTo({<<f[2], m>>})
    <3> DEFINE M == {<<f[2], m>>}
    <3>1. ASSUME NEW b \in Agents, NEW k \in Message, <<b, k>> \in M PROVE Expected(b, k)'
      <4>1. b = f[2] /\ k = m BY <3>1
      <4>2. Expected(b, k) BY <2>4, <4>1
      <4> QED BY <2>5, <4>2, ExpectedKept
    <3>2. MailTo(M) BY <2>8
    <3> HIDE DEF M
    <3> QED BY <1>1, <1>3, <2>1, <3>1, <3>2, SendingOK
  <2> QED BY <2>6, <2>7, <2>8
<1>9. CASE proc' = [proc EXCEPT ![Fan].targets = @ \ {f}] /\ UNCHANGED inbox
  <2> DEFINE S == proc[Fan].targets \ {f}
  <2>1. S \in SUBSET (Nat \X Workers) BY <1>4
  <2>2. proc' = [proc EXCEPT ![Fan].targets = S] BY <1>9
  <2>3. proc[Fan].sent \in Nat BY <1>4, DelegationAssumption, SMT DEF DelegationAssumption
  <2>4. IsFiniteSet(S) /\ Cardinality(S) + proc[Fan].sent <= MAX_TARGETS
    BY <1>3, <1>6, <2>3, TargetsLess
  <2> HIDE DEF S
  <2>5. ProcTo(Fan, "send", proc[Fan].msg, proc[Fan].id, proc[Fan].todo, S, proc[Fan].sent,
               proc[Fan].ok)
    BY <1>0, <1>1, <2>1, <2>2, TargetsTo
  <2>6. MailTo({}) BY <1>0, <1>9, MailSame
  <2> QED BY <1>1, <2>4, <2>5, <2>6, SendingOK
<1> QED BY <1>5, <1>8, <1>9

\* Steps that change the table.
LEMMA TypedTable ==
    ASSUME TypeOK, proc' \in [Agents -> Process], inbox' \in Inboxes, tree' \in Trees,
           pending' \subseteq Ids \X Workers, tracked' \subseteq Ids \X Workers,
           answered' \subseteq Ids \X Workers, UNCHANGED <<next, Bounds>>
    PROVE  TypeOK'
<1>1. /\ next' = next /\ deployment' = deployment /\ requests' = requests /\ crashes' = crashes
  BY DEF Bounds
<1> QED BY <1>1 DEF TypeOK, Inboxes, Trees

\* The delegation is recorded after it was sent, if the file can be written; no
\* answer to it was handled in between, because the same process handles answers.
LEMMA TrackOK == ASSUME DelegationInv, Track PROVE StepOK
<1>0. /\ proc \in [Agents -> Process] /\ inbox \in Inboxes /\ tree \in Trees
      /\ Fan \in Agents /\ Fan \notin Workers /\ proc[Fan] \in Process /\ ~Sdk(Fan)
  BY Typed, Who, FanIsC DEF DelegationInv
<1>1. proc[Fan].pc = "track" /\ UNCHANGED <<inbox, next, answered, Bounds>> BY DEF Track
<1>2. InHand(Fan) /\ Posted /\ Ledger /\ Mail BY <1>0 DEF DelegationInv
<1>3. PICK f \in FirstTarget(proc[Fan].targets) :
        /\ \/ /\ pending' = pending_add(pending, proc[Fan].id, f[2])
              /\ tracked' = tracked \cup {<<proc[Fan].id, f[2]>>}
              /\ UNCHANGED tree
           \/ WriteFails(Fan, proc[Fan].id) /\ UNCHANGED <<pending, tracked>>
        /\ proc' = [proc EXCEPT ![Fan] = [@ EXCEPT !.pc = "send",
                      !.targets = proc[Fan].targets \ {f}, !.sent = proc[Fan].sent + 1]]
  BY DEF Track
<1> DEFINE t == proc[Fan].id
           v == f[2]
           n == proc[Fan].sent + 1
           S == proc[Fan].targets \ {f}
<1>4. proc[Fan].targets \in SUBSET (Nat \X Workers) /\ proc[Fan].sent \in 0 .. MAX_TARGETS
  BY <1>0, ProcFields
<1>5. f \in proc[Fan].targets BY DEF FirstTarget
<1>6. v \in Workers BY <1>4, <1>5
<1>7. /\ t \in Dirs(tree[Fan]) /\ t \in Ids /\ IsFiniteSet(proc[Fan].targets)
      /\ Cardinality(proc[Fan].targets) + proc[Fan].sent <= MAX_TARGETS
      /\ tree[Fan][t].state \in Active /\ tree[Fan][t].state \notin Terminal
      /\ tree[Fan][t].state = "delegated" \/ tree[Fan][t].unwritten
  BY <1>0, <1>1, <1>2 DEF InHand, Located, Staged, Reached, Busy, Dirs, Active, Terminal
<1>8. proc[Fan].sent \in Nat BY <1>4, DelegationAssumption, SMT DEF DelegationAssumption
<1>9. IsFiniteSet(S) /\ Cardinality(S) + n <= MAX_TARGETS /\ n \in 0 .. MAX_TARGETS
  BY <1>5, <1>7, <1>8, TargetsLess
<1>10. ProcTo(Fan, "send", proc[Fan].msg, t, proc[Fan].todo, S, n, proc[Fan].ok)
  BY <1>0, <1>3, <1>9, TrackTo DEF Places
<1>11. /\ TreeTo(Fan, t, tree[Fan][t].state, tree[Fan][t].incoming, tree[Fan][t].artifacts,
                 tree[Fan][t].result)
       /\ \/ pending' = pending \cup {<<t, v>>} /\ tracked' = tracked \cup {<<t, v>>}
          \/ pending' = pending /\ tracked' = tracked /\ tree'[Fan][t].unwritten
       /\ answered' = answered
  <2>1. CASE UNCHANGED tree /\ pending' = pending_add(pending, proc[Fan].id, f[2])
                            /\ tracked' = tracked \cup {<<proc[Fan].id, f[2]>>}
    BY <1>0, <1>1, <2>1 DEF pending_add, TreeTo
  <2>2. CASE WriteFails(Fan, t) /\ UNCHANGED <<pending, tracked>>
    BY <1>0, <1>1, <1>7, <2>2, WriteFailsTo DEF StateTo
  <2> QED BY <1>3, <2>1, <2>2
<1>12. /\ proc'[Fan].pc = "send" /\ proc'[Fan].id = t /\ proc'[Fan].msg = proc[Fan].msg
       /\ proc'[Fan].targets = S /\ proc'[Fan].sent = n
       /\ \A b \in Agents \ {Fan} : proc'[b] = proc[b]
       /\ proc' \in [Agents -> Process]
  BY <1>10 DEF ProcTo
<1> HIDE DEF t, v, n, S
<1>13. /\ deployment' = deployment /\ tree' \in Trees
       /\ \A b \in Agents \ {Fan} : tree'[b] = tree[b]
       /\ \A u \in Ids \ {t} : tree'[Fan][u] = tree[Fan][u]
       /\ \A u \in Ids : tree'[Fan][u].state = tree[Fan][u].state
       /\ tree[Fan][t].unwritten => tree'[Fan][t].unwritten
  BY <1>1, <1>7, <1>11 DEF Bounds, TreeTo
<1>14. Kept
  <2>1. tree[Fan][t].state # "none" BY <1>7 DEF Dirs
  <2> QED BY <1>0, <1>7, <1>11, <1>13, <2>1, KeptTree
<1>15. MailTo({}) BY <1>0, <1>1, MailSame
<1>16. InHand(Fan)'
  <2>1. t \in Dirs(tree'[Fan]) BY <1>0, <1>7, <1>14, DirKept
  <2>2. Located(Fan)' BY <1>0, <1>9, <1>12, <2>1 DEF Located, Busy
  <2>3. Staged(Fan)' BY <1>7, <1>12, <1>13 DEF Staged, Reached
  <2> QED BY <1>0, <2>2, <2>3 DEF InHand
<1>17. \A b \in Agents : InHand(b)' BY <1>0, <1>12, <1>13, <1>16, InHandOthers DEF DelegationInv
<1>18. Mail'
  <2> DEFINE M == {}
  <2>1. MailTo(M) /\ \A b \in Agents, m \in Message : <<b, m>> \in M => Expected(b, m)' BY <1>15
  <2> HIDE DEF M
  <2> QED BY <1>0, <1>2, <1>12, <1>14, <2>1, MailNext
<1>19. Ledger'
  <2>1. IsFiniteSet(pending')
    <3>1. IsFiniteSet(pending) BY <1>2 DEF Ledger
    <3>2. IsFiniteSet(pending \cup {<<t, v>>}) BY <3>1, FS_AddElement
    <3>3. pending' = pending \/ pending' = pending \cup {<<t, v>>} BY <1>11
    <3> QED BY <3>1, <3>2, <3>3
  <2>2. tracked' \subseteq pending' \cup answered' BY <1>2, <1>11 DEF Ledger
  <2>3. ASSUME NEW u \in Ids, NEW w \in Workers
        PROVE  /\ <<u, w>> \in tracked' \cup pending' \cup answered' => u \in Dirs(tree'[Fan])
               /\ <<u, w>> \in answered' => OnRecord(w, u)'
               /\ <<u, w>> \in pending' => tree'[Fan][u].state # "completed"
    <3>1. /\ <<u, w>> \in tracked \cup pending \cup answered => u \in Dirs(tree[Fan])
          /\ <<u, w>> \in answered => OnRecord(w, u)
          /\ <<u, w>> \in pending => tree[Fan][u].state # "completed"
      BY <1>2 DEF Ledger
    <3>2. <<u, w>> \in answered' => OnRecord(w, u)' BY <1>11, <1>14, <3>1, RecordKept
    <3>3. CASE u = t
      <4>1. u \in Dirs(tree'[Fan]) BY <1>0, <1>7, <1>14, <3>3, DirKept
      <4>2. tree'[Fan][u].state # "completed" BY <1>7, <1>13, <3>3 DEF Terminal
      <4> QED BY <3>2, <4>1, <4>2
    <3>4. CASE u # t
      <4>1. <<u, w>> # <<t, v>> BY <3>4
      <4> QED BY <1>0, <1>11, <1>13, <1>14, <3>1, <3>2, <4>1, DirKept
    <3> QED BY <3>3, <3>4
  <2> QED BY <2>1, <2>2, <2>3 DEF Ledger
<1>20. Posted'
  <2>1. \A w \in Workers : <<t, w>> \notin answered BY <1>1, <1>2 DEF Posted, t
  <2>2. tree'[Fan][t].unwritten \/ <<t, v>> \in pending' BY <1>11
  <2>3. proc[Fan].msg \in Message BY <1>1, <1>2 DEF Posted
  <2> QED BY <1>6, <1>11, <1>12, <2>1, <2>2, <2>3 DEF Posted
<1>21. TypeOK'
  <2>1. pending \subseteq Ids \X Workers /\ tracked \subseteq Ids \X Workers
        /\ answered \subseteq Ids \X Workers
    BY DEF DelegationInv, TypeOK
  <2>2. <<t, v>> \in Ids \X Workers BY <1>6, <1>7
  <2>3. /\ pending' \subseteq Ids \X Workers /\ tracked' \subseteq Ids \X Workers
        /\ answered' \subseteq Ids \X Workers
    BY <1>11, <2>1, <2>2
  <2> QED BY <1>0, <1>1, <1>12, <1>13, <2>3, TypedTable DEF DelegationInv
<1>22. OwnedKept
  <2>1. ASSUME Owned, NEW u \in Ids PROVE OwnedTask(Fan, u)'
    <3>1. OwnedTask(Fan, u) BY <1>0, <2>1 DEF Owned
    <3>2. CASE u = t BY <1>12, <3>2 DEF OwnedTask, Busy
    <3>3. CASE u # t
      <4>1. tree'[Fan][u] = tree[Fan][u] /\ pending \subseteq pending' BY <1>11, <1>13, <3>3
      <4> QED BY <1>1, <1>13, <3>1, <3>3, <4>1 DEF OwnedTask, Busy, Sdk, t
    <3> QED BY <3>2, <3>3
  <2> QED BY <1>0, <1>12, <1>13, <2>1, OwnedOthers
<1>23. Stays BY <1>0, <1>7, <1>11, StaysTree
<1> QED BY <1>17, <1>18, <1>19, <1>20, <1>21, <1>22, <1>23 DEF StepOK, DelegationInv

\* What the fan-out agent may take for a result, and whom it credits.
LEMMA ResultTaken ==
    ASSUME DelegationInv, NEW m, Expected(Fan, m), m.verb = "result", m.id # NoId
    PROVE  /\ m.from \in Workers /\ m.id \in Dirs(tree[Fan]) /\ OnRecord(m.from, m.id)
           /\ m.reply = IF Sdk(m.from) THEN m.from ELSE Nobody
           /\ Sender(m) \in {m.from, Unknown}
<1>1. FromWorker(m) BY Who DEF Expected, FromOperator
<1>2. /\ m.from \in Workers /\ m.id \in Dirs(tree[Fan]) /\ OnRecord(m.from, m.id)
      /\ m.reply = IF Sdk(m.from) THEN m.from ELSE Nobody
  BY <1>1 DEF FromWorker
<1>3. Sender(m) \in {m.from, Unknown} BY <1>2 DEF Sender
<1> QED BY <1>2, <1>3

\* A result is handled: whoever sent it has it on record, and the table loses an
\* entry at most.
LEMMA TakeResultOK == ASSUME DelegationInv, TakeResult PROVE StepOK
<1>0. /\ proc \in [Agents -> Process] /\ inbox \in Inboxes /\ tree \in Trees
      /\ Fan \in Agents /\ Fan \notin Workers /\ ~Sdk(Fan)
  BY Typed, Who, FanIsC DEF DelegationInv
<1>1. UNCHANGED <<tree, next, tracked, Bounds>> BY DEF TakeResult
<1>2. PICK m \in Arrived(Fan) :
        /\ TakeFirst(Fan) /\ m.verb = "result" /\ m.id # NoId
        /\ pending' = pending_remove(pending, m.id, Sender(m))
        /\ answered' = answered \cup {<<m.id, m.from>>}
        /\ proc' = [proc EXCEPT ![Fan] =
             IF pending_count_for_task(pending', m.id) = 0
             THEN [At("settle") EXCEPT !.id = m.id] ELSE At("idle")]
  BY DEF TakeResult
<1>3. MailTo({}) /\ proc[Fan].pc = "idle" /\ \E j \in DOMAIN inbox[Fan] : m = inbox[Fan][j]
  BY <1>0, <1>2, MailTake
<1>4. Expected(Fan, m) BY <1>0, <1>3 DEF DelegationInv, Mail
<1> DEFINE t == m.id
           v == m.from
<1>5. v \in Workers /\ t \in Dirs(tree[Fan]) /\ t \in Ids /\ OnRecord(v, t)
      /\ Sender(m) \in {v, Unknown}
  BY <1>2, <1>4, ResultTaken DEF Dirs
<1>6. /\ pending \subseteq Ids \X Workers /\ tracked \subseteq Ids \X Workers
      /\ answered \subseteq Ids \X Workers /\ Ledger
  BY DEF DelegationInv, TypeOK
<1>7. /\ pending' \subseteq pending
      /\ \A x \in pending : x = <<t, v>> \/ x \in pending'
      /\ tracked' = tracked /\ answered' = answered \cup {<<t, v>>}
  <2>1. pending' = pending \ {<<t, Sender(m)>>} BY <1>2 DEF pending_remove
  <2>2. ASSUME NEW x \in pending, x = <<t, Sender(m)>> PROVE x = <<t, v>>
    <3>1. x \in Ids \X Workers BY <1>6, <2>2
    <3>2. Sender(m) \in Workers BY <2>2, <3>1
    <3>3. Sender(m) # Unknown BY <3>2, Who
    <3> QED BY <1>5, <2>2, <3>3
  <2> QED BY <1>1, <1>2, <2>1, <2>2
<1>8. \/ /\ pending_count_for_task(pending', t) = 0
         /\ ProcTo(Fan, "settle", NoMessage, t, {}, {}, 0, FALSE)
      \/ /\ pending_count_for_task(pending', t) # 0
         /\ ProcTo(Fan, "idle", NoMessage, NoId, {}, {}, 0, FALSE)
  <2>1. CASE pending_count_for_task(pending', t) = 0
    <3>1. proc' = [proc EXCEPT ![Fan] = [At("settle") EXCEPT !.id = t]] BY <1>2, <2>1
    <3> HIDE DEF t
    <3> QED BY <1>0, <1>5, <2>1, <3>1, AtIdTo DEF Places
  <2>2. CASE pending_count_for_task(pending', t) # 0
    <3>1. proc' = [proc EXCEPT ![Fan] = At("idle")] BY <1>2, <2>2
    <3> QED BY <1>0, <2>2, <3>1, AtTo DEF Places
  <2> QED BY <2>1, <2>2
<1> HIDE DEF t, v
<1>9. deployment' = deployment /\ tree' = tree BY <1>1 DEF Bounds
<1>10. Kept BY <1>9, KeptSame
<1>11. proc' \in [Agents -> Process] /\ \A b \in Agents \ {Fan} : proc'[b] = proc[b]
  BY <1>8 DEF ProcTo
<1>12. InHand(Fan)'
  <2>1. CASE ProcTo(Fan, "settle", NoMessage, t, {}, {}, 0, FALSE)
    <3>1. /\ proc'[Fan].pc = "settle" /\ proc'[Fan].id = t /\ proc'[Fan].targets = {}
          /\ proc'[Fan].sent = 0
      BY <2>1 DEF ProcTo
    <3>2. Located(Fan)' BY <1>5, <1>9, <3>1, NoTargets DEF Located, Busy
    <3>3. Staged(Fan)' BY <3>1 DEF Staged
    <3> QED BY <1>0, <3>2, <3>3 DEF InHand
  <2>2. CASE ProcTo(Fan, "idle", NoMessage, NoId, {}, {}, 0, FALSE)
    BY <1>0, <1>9, <2>2, NoTargets, RestInHand DEF Resting
  <2> QED BY <1>8, <2>1, <2>2
<1>13. \A b \in Agents : InHand(b)' BY <1>0, <1>9, <1>11, <1>12, InHandOthers DEF DelegationInv
<1>14. Mail'
  <2> DEFINE M == {}
  <2>1. MailTo(M) /\ \A b \in Agents, k \in Message : <<b, k>> \in M => Expected(b, k)' BY <1>3
  <2> HIDE DEF M
  <2> QED BY <1>0, <1>10, <1>11, <2>1, MailNext DEF DelegationInv
<1>15. IsFiniteSet(pending') BY <1>6, <1>7, FS_Subset DEF Ledger
<1>16. Ledger'
  <2>1. tracked' \subseteq pending' \cup answered' BY <1>6, <1>7 DEF Ledger
  <2>2. ASSUME NEW u \in Ids, NEW w \in Workers
        PROVE  /\ <<u, w>> \in tracked' \cup pending' \cup answered' => u \in Dirs(tree'[Fan])
               /\ <<u, w>> \in answered' => OnRecord(w, u)'
               /\ <<u, w>> \in pending' => tree'[Fan][u].state # "completed"
    <3>1. /\ <<u, w>> \in tracked \cup pending \cup answered => u \in Dirs(tree[Fan])
          /\ <<u, w>> \in answered => OnRecord(w, u)
          /\ <<u, w>> \in pending => tree[Fan][u].state # "completed"
      BY <1>6 DEF Ledger
    <3>2. <<u, w>> \in answered' => OnRecord(w, u)
      <4>1. CASE <<u, w>> = <<t, v>> BY <1>5, <4>1
      <4> QED BY <1>7, <3>1, <4>1
    <3>3. <<u, w>> = <<t, v>> => u \in Dirs(tree[Fan]) BY <1>5
    <3> QED BY <1>7, <1>9, <1>10, <3>1, <3>2, <3>3, RecordKept
  <2> QED BY <1>15, <2>1, <2>2 DEF Ledger
<1>17. Posted'
  <2>1. CASE /\ pending_count_for_task(pending', t) = 0
             /\ ProcTo(Fan, "settle", NoMessage, t, {}, {}, 0, FALSE)
    <3>1. proc'[Fan].pc = "settle" /\ proc'[Fan].id = t BY <2>1 DEF ProcTo
    <3>2. <<t, v>> \in answered' BY <1>7
    <3>3. \A w \in Workers : <<t, w>> \notin pending' BY <1>15, <2>1, NonePending
    <3> QED BY <1>5, <3>1, <3>2, <3>3 DEF Posted
  <2>2. CASE ProcTo(Fan, "idle", NoMessage, NoId, {}, {}, 0, FALSE)
    BY <2>2, PostedQuiet DEF ProcTo
  <2> QED BY <1>8, <2>1, <2>2
<1>18. TypeOK'
  <2>1. <<t, v>> \in Ids \X Workers BY <1>5
  <2>2. /\ pending' \subseteq Ids \X Workers /\ tracked' \subseteq Ids \X Workers
        /\ answered' \subseteq Ids \X Workers
    BY <1>6, <1>7, <2>1
  <2> QED BY <1>0, <1>1, <1>3, <1>9, <1>11, <2>2, TypedTable DEF DelegationInv, MailTo
<1>19. OwnedKept
  <2>1. ASSUME Owned, NEW u \in Ids PROVE OwnedTask(Fan, u)'
    <3>1. OwnedTask(Fan, u) BY <1>0, <2>1 DEF Owned
    <3>2. ASSUME tree[Fan][u].state \in Active, ~tree[Fan][u].unwritten
          PROVE  tree[Fan][u].state = "delegated" /\ \E w \in Workers : <<u, w>> \in pending
      BY <1>0, <1>3, <3>1, <3>2 DEF OwnedTask, Busy
    <3>3. CASE u = t /\ ProcTo(Fan, "settle", NoMessage, t, {}, {}, 0, FALSE)
      BY <3>3 DEF OwnedTask, ProcTo, Busy
    <3>4. CASE u = t /\ pending_count_for_task(pending', t) # 0
      <4>1. \E w \in Workers : <<u, w>> \in pending' BY <1>6, <1>7, <3>4, SomePending
      <4> QED BY <1>9, <3>2, <4>1 DEF OwnedTask
    <3>5. CASE u # t
      <4>1. ASSUME NEW w \in Workers, <<u, w>> \in pending PROVE <<u, w>> \in pending'
        <5>1. <<u, w>> # <<t, v>> BY <3>5
        <5> QED BY <1>7, <4>1, <5>1
      <4> QED BY <1>9, <3>2, <4>1 DEF OwnedTask
    <3> QED BY <1>8, <3>3, <3>4, <3>5
  <2> QED BY <1>0, <1>9, <1>11, <2>1, OwnedOthers
<1> QED BY <1>9, <1>13, <1>14, <1>16, <1>17, <1>18, <1>19, StaysSame DEF StepOK, DelegationInv

\* The last result came: the task in hand, of which nobody is pending, is completed.
LEMMA SettledOK ==
    ASSUME DelegationInv, proc[Fan].pc = "settle", Done(Fan),
           tree' = [tree EXCEPT ![Fan] = task_set_state(@, proc[Fan].id, "completed")],
           UNCHANGED <<inbox, next, Table, Bounds>>
    PROVE  StepOK
<1>0. /\ proc \in [Agents -> Process] /\ inbox \in Inboxes /\ tree \in Trees
      /\ Fan \in Agents /\ Fan \notin Workers /\ ~Sdk(Fan)
  BY Typed, Who, FanIsC DEF DelegationInv
<1>1. /\ proc[Fan].pc = "settle" /\ Done(Fan) /\ UNCHANGED <<inbox, next, Table, Bounds>>
      /\ tree' = [tree EXCEPT ![Fan] = task_set_state(tree[Fan], proc[Fan].id, "completed")]
  BY <1>0 DEF Trees
<1> DEFINE t == proc[Fan].id
<1>2. t \in Dirs(tree[Fan]) /\ t \in Ids /\ proc[Fan].pc \in Busy
  BY <1>0, <1>1 DEF DelegationInv, InHand, Located, Busy, Dirs
<1>3. /\ \E w \in Workers : <<t, w>> \in answered
      /\ \A w \in Workers : <<t, w>> \notin pending
  BY <1>1 DEF DelegationInv, Posted
<1>4. TreeTo(Fan, t, "completed", tree[Fan][t].incoming, tree[Fan][t].artifacts, tree[Fan][t].result)
  BY <1>0, <1>1, <1>2, StateSet DEF task_state_t, StateTo
<1>5. ProcTo(Fan, "idle", NoMessage, NoId, {}, {}, 0, FALSE) BY <1>0, <1>1, AtTo DEF Places, Done
<1>6. tree'[Fan][t] = [tree[Fan][t] EXCEPT !.state = "completed"]
  <2>1. tree' = [tree EXCEPT ![Fan] = task_set_state(tree[Fan], t, "completed")]
    BY <1>1
  <2>2. task_set_state(tree[Fan], t, "completed")
          = [tree[Fan] EXCEPT ![t] = [tree[Fan][t] EXCEPT !.state = "completed"]]
    BY <1>0, <1>2 DEF task_set_state, Trees
  <2>3. tree'[Fan] = [tree[Fan] EXCEPT ![t] = [tree[Fan][t] EXCEPT !.state = "completed"]]
    BY <1>0, <2>1, <2>2 DEF Trees
  <2>4. tree[Fan] \in [Ids -> Task] BY <1>0 DEF Trees
  <2> DEFINE r == [tree[Fan][t] EXCEPT !.state = "completed"]
  <2>5. tree'[Fan] = [tree[Fan] EXCEPT ![t] = r] BY <2>3
  <2> HIDE DEF r
  <2>6. tree'[Fan][t] = r BY <1>2, <2>4, <2>5
  <2> QED BY <2>6 DEF r
<1>7. deployment' = deployment /\ UNCHANGED Table BY <1>1 DEF Bounds
<1>8. /\ \A b \in Agents \ {Fan} : proc'[b] = proc[b] /\ tree'[b] = tree[b]
      /\ \A u \in Ids \ {t} : tree'[Fan][u] = tree[Fan][u]
      /\ tree'[Fan][t].state = "completed"
      /\ proc' \in [Agents -> Process] /\ tree' \in Trees /\ proc'[Fan].pc = "idle"
  BY <1>4, <1>5 DEF ProcTo, TreeTo
<1>9. MailTo({}) BY <1>0, <1>1, MailSame
<1>10. Kept BY <1>0, <1>2, <1>4, <1>7, KeptTree
<1>11. InHand(Fan)' BY <1>0, <1>5, <1>7, NoTargets, RestInHand DEF Resting
<1>12. \A b \in Agents : InHand(b)' BY <1>0, <1>7, <1>8, <1>11, InHandOthers DEF DelegationInv
<1>13. Mail'
  <2> DEFINE M == {}
  <2>1. MailTo(M) /\ \A b \in Agents, k \in Message : <<b, k>> \in M => Expected(b, k)' BY <1>9
  <2> HIDE DEF M
  <2> QED BY <1>0, <1>8, <1>10, <2>1, MailNext DEF DelegationInv
<1>14. Ledger'
  <2>1. pending' = pending /\ tracked' = tracked /\ answered' = answered BY <1>7 DEF Table
  <2>2. IsFiniteSet(pending) /\ tracked \subseteq pending \cup answered BY DEF DelegationInv, Ledger
  <2>3. ASSUME NEW u \in Ids, NEW w \in Workers
        PROVE  /\ <<u, w>> \in tracked \cup pending \cup answered => u \in Dirs(tree'[Fan])
               /\ <<u, w>> \in answered => OnRecord(w, u)'
               /\ <<u, w>> \in pending => tree'[Fan][u].state # "completed"
    <3>1. /\ <<u, w>> \in tracked \cup pending \cup answered => u \in Dirs(tree[Fan])
          /\ <<u, w>> \in answered => OnRecord(w, u)
          /\ <<u, w>> \in pending => tree[Fan][u].state # "completed"
      BY DEF DelegationInv, Ledger
    <3>2. <<u, w>> \in pending => u # t BY <1>3
    <3> QED BY <1>0, <1>8, <1>10, <3>1, <3>2, DirKept, RecordKept
  <2> QED BY <2>1, <2>2, <2>3 DEF Ledger
<1>15. Posted' BY <1>8, PostedQuiet
<1>16. TypeOK'
  <2>1. Counters BY <1>1, NextSame DEF DelegationInv
  <2> QED BY <1>1, <1>8, <1>9, <2>1, TypedNext DEF DelegationInv, MailTo, Counters
<1>17. OwnedKept
  <2>1. tree'[Fan][proc[Fan].id].state \notin Active BY <1>8 DEF Active
  <2> QED BY <1>0, <1>2, <1>7, <1>8, <2>1, OwnedEnd
<1>18. Stays
  <2> SUFFICES ASSUME NEW b \in Agents, NEW u \in Ids, b # Fan \/ u # t
               PROVE  tree'[b][u] = tree[b][u]
    BY <1>3, <1>6 DEF Stays
  <2> QED BY <1>8
<1> QED BY <1>12, <1>13, <1>14, <1>15, <1>16, <1>17, <1>18 DEF StepOK, DelegationInv

\* The state is written, or the write fails and the task keeps the state it has.
LEMMA SettleOK == ASSUME DelegationInv, Settle PROVE StepOK
<1>0. /\ proc \in [Agents -> Process] /\ inbox \in Inboxes /\ tree \in Trees /\ Fan \in Agents
  BY Typed, Who DEF DelegationInv
<1>1. /\ proc[Fan].pc = "settle" /\ SetState(Fan, "completed") /\ Done(Fan)
      /\ UNCHANGED <<inbox, next, Table, Bounds>>
  BY DEF Settle
<1>2. proc[Fan].id \in Dirs(tree[Fan]) /\ proc[Fan].pc \in Busy
  BY <1>0, <1>1 DEF DelegationInv, InHand, Located, Busy
<1>3. CASE tree' = [tree EXCEPT ![Fan] = task_set_state(@, proc[Fan].id, "completed")]
  BY <1>1, <1>3, SettledOK
<1> DEFINE v == tree[Fan][proc[Fan].id].state
<1>4. CASE v \in Terminal /\ tree' = tree
  <2>1. ProcTo(Fan, "idle", NoMessage, NoId, {}, {}, 0, FALSE) BY <1>0, <1>1, AtTo DEF Places, Done
  <2>2. Settled(Fan) BY <1>4 DEF Settled, Active, Terminal
  <2>3. OwnedKept BY <1>0, <1>1, <1>4, <2>1, <2>2, OwnedRest DEF ProcTo, Bounds
  <2>4. Counters BY <1>1, NextSame DEF DelegationInv
  <2>5. MailTo({}) BY <1>0, <1>1, MailSame
  <2> QED BY <1>0, <1>1, <1>4, <2>1, <2>3, <2>4, <2>5, RestAt DEF Resting
<1>5. CASE v \notin Terminal /\ StateTo(Fan, proc[Fan].id, v) /\ tree'[Fan][proc[Fan].id].unwritten
  <2>1. v \notin {"none", "completed"} BY <1>2, <1>5 DEF Dirs, Terminal
  <2> QED BY <1>0, <1>1, <1>2, <1>5, <2>1, DropOK
<1> QED BY <1>0, <1>1, <1>2, <1>3, <1>4, <1>5, WriteFailsTo DEF SetState

(***************************************************************************)
(* The whole system.                                                       *)
(***************************************************************************)
LEMMA InitInv == Init => DelegationInv /\ Owned
<1> SUFFICES ASSUME Init PROVE DelegationInv /\ Owned OBVIOUS
<1>0. MAX_TARGETS \in Nat /\ MaxCrashes \in Nat /\ deployment \in Deployments
      /\ deployment.load \in Nat
  BY DelegationAssumption DEF DelegationAssumption, Init
<1>1. ASSUME NEW a \in Agents
      PROVE  /\ proc[a].pc = "idle" /\ proc[a].id = NoId /\ proc[a].targets = {}
             /\ proc[a].sent = 0 /\ proc[a].ok = FALSE /\ proc[a] \in Process
             /\ inbox[a] = <<>> /\ tree[a] = EmptyTree
  <2>1. ProcIs(At("idle"), "idle", NoMessage, NoId, {}, {}, 0, FALSE) BY AtIs DEF Places
  <2>2. proc[a] = At("idle") BY DEF Init
  <2> QED BY <2>1, <2>2 DEF Init, ProcIs
<1>2. EmptyTree \in [Ids -> Task] /\ \A t \in Ids : EmptyTree[t].state = "none"
  <2>1. 0 \in 0 .. 3 BY SMT
  <2> DEFINE r == [NewTask(NoId) EXCEPT !.state = "none"]
  <2>2. NewTask(NoId) \in Task BY <2>1 DEF NewTask, Task
  <2>3. r \in Task /\ r.state = "none" BY <2>2 DEF Task
  <2>4. EmptyTree = [t \in Ids |-> r] BY DEF EmptyTree
  <2> HIDE DEF r
  <2> QED BY <2>3, <2>4
<1>3. Dirs(EmptyTree) = {} BY <1>2 DEF Dirs
<1>4. TypeOK
  <2>1. proc \in [Agents -> Process]
    <3>1. proc = [a \in Agents |-> At("idle")] BY DEF Init
    <3>2. At("idle") \in Process BY AtIs DEF Places, ProcIs
    <3> QED BY <3>1, <3>2
  <2>2. inbox \in [Agents -> Seq(Message)]
    <3>1. <<>> \in Seq(Message) BY SMT
    <3> QED BY <3>1 DEF Init
  <2>3. tree \in [Agents -> [Ids -> Task]] BY <1>2 DEF Init
  <2>4. requests \in 0 .. deployment.load /\ crashes \in 0 .. MaxCrashes BY <1>0, SMT DEF Init
  <2> QED BY <1>0, <2>1, <2>2, <2>3, <2>4 DEF TypeOK, Init
<1>5. \A a \in Agents : InHand(a)
  <2> SUFFICES ASSUME NEW a \in Agents PROVE InHand(a) OBVIOUS
  <2>1. Located(a) BY <1>1, NoTargets DEF Located, Busy
  <2>2. Staged(a) BY <1>1 DEF Staged
  <2>3. Prepared(a) BY <1>1, <1>3 DEF Prepared, Busy
  <2> QED BY <2>1, <2>2, <2>3 DEF InHand
<1>6. Mail
  <2>1. DOMAIN <<>> = {} BY SMT
  <2> QED BY <1>1, <2>1, Who DEF Mail, Busy
<1>7. Ledger BY FS_EmptySet DEF Ledger, Init
<1>8. Posted BY <1>1, Who DEF Posted
<1>9. Owned BY <1>1, <1>2 DEF Owned, OwnedTask, Active
<1> QED BY <1>4, <1>5, <1>6, <1>7, <1>8, <1>9 DEF DelegationInv

\* Every step keeps the invariant, the ended tasks and the owners.
LEMMA NextOK == ASSUME DelegationInv, Next PROVE StepOK
<1>1. ASSUME NEW a \in Agents, AgentStep(a) PROVE StepOK
  BY <1>1, StartOK, StartSdkOK, RecoverOK, IdleTimeoutOK, CloseOK, DiscardOK, DiscardSdkOK,
     TakeWorkOK, TakeWorkSdkOK, CreateOK, CreateSdkOK, QueueOK, RunOK DEF AgentStep
<1>2. ASSUME NEW a \in Agents, Request(a) PROVE StepOK BY <1>2, RequestOK
<1>3. ASSUME NEW a \in Agents, Crash(a) PROVE StepOK BY <1>3, CrashOK
<1>4. CASE FanStep
  BY <1>4, PlanOK, SendOK, TrackOK, EndFanoutOK, TakeResultOK, SettleOK DEF FanStep
<1>5. ASSUME NEW w \in Workers, WorkerStep(w) PROVE StepOK
  BY <1>5, WorkOK, WorkSdkOK, WriteFailsSdkOK, ResultOK, FinishOK, ReplyOK, ReplySdkOK DEF WorkerStep
<1> QED BY <1>1, <1>2, <1>3, <1>4, <1>5 DEF Next

\* So does a step of somebody else.
LEMMA Stutter == ASSUME DelegationInv, UNCHANGED vars PROVE StepOK
<1>1. /\ proc' = proc /\ inbox' = inbox /\ tree' = tree /\ next' = next /\ pending' = pending
      /\ tracked' = tracked /\ answered' = answered /\ deployment' = deployment
      /\ requests' = requests /\ crashes' = crashes
  BY DEF vars
<1>2. inbox \in Inboxes /\ Fan \in Agents BY Typed, Who DEF DelegationInv
<1>3. MailTo({}) BY <1>1, <1>2, MailSame
<1> QED BY <1>1, <1>2, <1>3, DiscardsOK DEF Table, Bounds

\* The invariant is inductive.
LEMMA InvNextStep == DelegationInv /\ [Next]_vars => DelegationInv'
BY NextOK, Stutter DEF StepOK

\* The invariant behind the others, for any number of workers, tasks, crashes and
\* requests, any policies and any mix of C and SDK workers: where each agent is in
\* its code, what is in the task trees, what is on its way and what the pending
\* table holds agree at every moment, whatever is killed when.
THEOREM DelegationInvAlways == Spec => []DelegationInv
<1>1. Init => DelegationInv BY InitInv
<1>2. DelegationInv /\ [Next]_vars => DelegationInv' BY InvNextStep
<1> QED BY <1>1, <1>2, PTL DEF Spec

\* The variables keep their types; in particular the fan-out agent never has more
\* than MAX_TARGETS targets to serve, however long the policy file is.
THEOREM DelegationTypeOK == Spec => []TypeOK
<1>1. DelegationInv => TypeOK BY DEF DelegationInv
<1> QED BY <1>1, DelegationInvAlways, PTL

\* fanout-agent.c: a task is "completed (all downstreams replied)" only if every
\* downstream whose delegation was recorded replied.
THEOREM CompletedMeansAnsweredAlways == Spec => []CompletedMeansAnswered
<1>1. DelegationInv => CompletedMeansAnswered
  <2> SUFFICES ASSUME DelegationInv, NEW t \in Ids, NEW w \in Workers,
                      tree[Fan][t].state = "completed", <<t, w>> \in tracked
               PROVE  <<t, w>> \in answered
    BY DEF CompletedMeansAnswered
  <2>1. <<t, w>> \in pending \cup answered /\ <<t, w>> \notin pending BY DEF DelegationInv, Ledger
  <2> QED BY <2>1
<1> QED BY <1>1, DelegationInvAlways, PTL

\* A worker answers only what it has on record: a task of its own for that id and,
\* in a reviewer's tree, with its result file and ended, unless a write to it failed.
THEOREM AnswersAreOnRecordAlways == Spec => []AnswersAreOnRecord
<1>1. DelegationInv => AnswersAreOnRecord
  <2> SUFFICES ASSUME DelegationInv, NEW w \in Workers, NEW t \in Ids,
                      \/ <<t, w>> \in answered
                      \/ \E i \in DOMAIN inbox[Fan] :
                           inbox[Fan][i].from = w /\ inbox[Fan][i].id = t
               PROVE  \E own \in Dirs(tree[w]) :
                        /\ tree[w][own].incoming = t
                        /\ \/ Sdk(w) \/ tree[w][own].unwritten
                           \/ /\ tree[w][own].result
                              /\ \/ tree[w][own].state = "failed"
                                 \/ tree[w][own].state = "completed" /\ tree[w][own].artifacts = 3
    BY DEF AnswersAreOnRecord
  <2>1. OnRecord(w, t)
    <3>1. CASE <<t, w>> \in answered BY <3>1 DEF DelegationInv, Ledger
    <3>2. ASSUME NEW i \in DOMAIN inbox[Fan], inbox[Fan][i].from = w, inbox[Fan][i].id = t
          PROVE  OnRecord(w, t)
      <4>1. Expected(Fan, inbox[Fan][i]) BY Who DEF DelegationInv, Mail
      <4>2. FromWorker(inbox[Fan][i]) BY <3>2, <4>1, Who DEF Expected, FromOperator
      <4> QED BY <3>2, <4>2 DEF FromWorker
    <3> QED BY <3>1, <3>2
  <2>2. PICK own \in Ids : Recorded(w, own, t) BY <2>1 DEF OnRecord
  <2> QED BY <2>2 DEF Recorded, Ended
<1> QED BY <1>1, DelegationInvAlways, PTL

\* tasks.c: "Never reopen and overwrite an existing task". A task that ended stays
\* as it is, but for a failed fan-out task that a late result completes.
THEOREM EndedTasksStayAlways == Spec => EndedTasksStay
<1>1. DelegationInv /\ [Next]_vars =>
        [\A a \in Agents, t \in Ids :
           ~Sdk(a) /\ tree[a][t].state \in Terminal =>
              \/ tree'[a][t] = tree[a][t]
              \/ /\ a = Fan /\ \E w \in Workers : <<t, w>> \in answered
                 /\ tree'[a][t] = [tree[a][t] EXCEPT !.state = "completed"]]_vars
  BY NextOK DEF StepOK, Stays
<1> QED BY <1>1, DelegationInvAlways, PTL DEF Spec, EndedTasksStay

\* After a restart no task is left behind that nobody works on: an active task is
\* in hand or waits for a result. One scan must be able to visit every task there
\* is, which is what MaxTask <= CAP says.
THEOREM ActiveTasksAreOwnedAlways ==
    ASSUME MaxTask <= CAP PROVE Spec => []ActiveTasksAreOwned
<1>1. Init => DelegationInv /\ Owned BY InitInv
<1>2. DelegationInv /\ Owned /\ [Next]_vars => (DelegationInv /\ Owned)'
  BY NextOK, Stutter DEF StepOK, OwnedKept
<1>3. DelegationInv /\ Owned => ActiveTasksAreOwned
  BY DEF ActiveTasksAreOwned, Owned, OwnedTask
<1> QED BY <1>1, <1>2, <1>3, PTL DEF Spec

\* Where a result names its sender, the entry removed is that of the worker that
\* answered; and a delegation is recorded before its answer is handled.
LEMMA Credited ==
    ASSUME \A d \in Deployments : d.transport = "uds" \/ Workers \subseteq d.sdk,
           DelegationInv, RepliesAreCredited, Next
    PROVE  RepliesAreCredited'
<1>1. CASE UNCHANGED Table BY <1>1 DEF RepliesAreCredited, Table
<1>2. CASE Track
  <2>1. PICK f \in FirstTarget(proc[Fan].targets) :
          \/ pending' = pending_add(pending, proc[Fan].id, f[2])
          \/ pending' = pending
    BY <1>2 DEF Track
  <2>2. proc[Fan].pc = "track" /\ answered' = answered BY <1>2 DEF Track
  <2>3. f[2] \in Workers
    <3>1. proc[Fan] \in Process BY Typed, Who DEF DelegationInv
    <3>2. proc[Fan].targets \in SUBSET (Nat \X Workers) BY <3>1, ProcFields
    <3>3. f \in Nat \X Workers BY <3>2 DEF FirstTarget
    <3> QED BY <3>3
  <2>4. <<proc[Fan].id, f[2]>> \notin answered BY <2>2, <2>3 DEF DelegationInv, Posted
  <2> QED BY <2>1, <2>2, <2>4 DEF RepliesAreCredited, pending_add
<1>3. CASE TakeResult
  <2>1. PICK m \in Arrived(Fan) :
          /\ TakeFirst(Fan) /\ m.verb = "result" /\ m.id # NoId
          /\ pending' = pending_remove(pending, m.id, Sender(m))
          /\ answered' = answered \cup {<<m.id, m.from>>}
    BY <1>3 DEF TakeResult
  <2>2. \E j \in DOMAIN inbox[Fan] : m = inbox[Fan][j]
    BY <2>1, Typed, Who, MailTake DEF DelegationInv
  <2>3. Expected(Fan, m) BY <2>2, Who DEF DelegationInv, Mail
  <2>4. m.from \in Workers /\ m.reply = IF Sdk(m.from) THEN m.from ELSE Nobody
    BY <2>1, <2>3, ResultTaken
  <2>5. deployment.transport = "uds" \/ Workers \subseteq deployment.sdk
    BY Typed DEF DelegationInv
  <2>6. m.from # Nobody BY <2>4, Who
  <2>7. Sender(m) = m.from
    <3>1. CASE deployment.transport = "uds" BY <3>1 DEF Sender
    <3>2. CASE deployment.transport # "uds"
      <4>1. Sdk(m.from) BY <2>4, <2>5, <3>2 DEF Sdk
      <4>2. m.reply = m.from /\ m.reply # Nobody BY <2>4, <2>6, <4>1
      <4> QED BY <3>2, <4>2 DEF Sender
    <3> QED BY <3>1, <3>2
  <2>8. pending' = pending \ {<<m.id, m.from>>} BY <2>1, <2>7 DEF pending_remove
  <2> QED BY <2>1, <2>8 DEF RepliesAreCredited
<1>4. UNCHANGED Table \/ Track \/ TakeResult
  <2>1. ASSUME NEW a \in Agents, AgentStep(a) PROVE UNCHANGED Table
    BY <2>1 DEF AgentStep, Start, StartSdk, Recover, IdleTimeout, Close, Discard, DiscardSdk,
                TakeWork, TakeWorkSdk, Create, CreateSdk, Queue, Run
  <2>2. ASSUME NEW a \in Agents, Request(a) \/ Crash(a) PROVE UNCHANGED Table
    BY <2>2 DEF Request, Crash
  <2>3. FanStep => UNCHANGED Table \/ Track \/ TakeResult
    BY DEF FanStep, Plan, Send, EndFanout, Settle
  <2>4. ASSUME NEW w \in Workers, WorkerStep(w) PROVE UNCHANGED Table
    BY <2>4 DEF WorkerStep, Work, WorkSdk, WriteFailsSdk, Result, Finish, Reply, ReplySdk
  <2> QED BY <2>1, <2>2, <2>3, <2>4 DEF Next
<1> QED BY <1>1, <1>2, <1>3, <1>4

\* fanout-agent.c: "the kernel-verified sender_name identifies which downstream
\* replied". A downstream whose result was handled is no longer pending, where
\* results name their sender: over sockets, or from SDK workers, which send a
\* REPLY-TO. C reviewers over agentfs send none and are not credited, which the run
\* agentfs_reply shows.
THEOREM RepliesAreCreditedAlways ==
    ASSUME \A d \in Deployments : d.transport = "uds" \/ Workers \subseteq d.sdk
    PROVE  Spec => []RepliesAreCredited
<1>1. Init => DelegationInv /\ RepliesAreCredited
  BY InitInv DEF Init, RepliesAreCredited
<1>2. DelegationInv /\ RepliesAreCredited /\ [Next]_vars => (DelegationInv /\ RepliesAreCredited)'
  BY Credited, InvNextStep DEF vars, RepliesAreCredited
<1> QED BY <1>1, <1>2, PTL DEF Spec
=============================================================================
