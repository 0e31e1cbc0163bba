------------------------------- MODULE Tasks -------------------------------
(***************************************************************************)
(* An agent's task tree, <root>/agents/<name>/tasks/, and its pending      *)
(* table, <root>/agents/<name>/pending/ (src/tasks.c), as operators on     *)
(* values: a tree maps every task id to its directory, a pending table is  *)
(* a set of <<task, downstream>> files.                                    *)
(*                                                                         *)
(* An id is a timestamp and a sequence number; the number alone orders and *)
(* distinguishes the ids of one tree, so an id is its number.              *)
(***************************************************************************)
EXTENDS Integers, FiniteSets, FiniteSetsExt

CONSTANTS
    MaxTask,             \* bound: ids an agent may allocate
    CAP                  \* task_iterate collects at most this many ids

ASSUME TasksAssumption == MaxTask \in Nat /\ CAP \in Nat

Ids == 1 .. MaxTask
NoId == 0                \* no TASK-ID header

task_state_t == {"queued", "running", "delegated", "completed", "failed"}
Active == {"queued", "running", "delegated"}
Terminal == {"completed", "failed"}

\* A task directory. Its state is "none" where the directory does not exist
\* and "unset" where it does but no state file was written yet. incoming is the
\* id in the message it was made for; unwritten is history: a write to it failed
\* before it had ended.
Task == [state : task_state_t \cup {"none", "unset"}, incoming : Ids \cup {NoId},
         artifacts : 0 .. 3, result : BOOLEAN, unwritten : BOOLEAN]

NewTask(incoming) == [state |-> "unset", incoming |-> incoming,
                      artifacts |-> 0, result |-> FALSE, unwritten |-> FALSE]

EmptyTree == [t \in Ids |-> [NewTask(NoId) EXCEPT !.state = "none"]]

Dirs(tree) == {t \in Ids : tree[t].state # "none"}

load_max_seq(tree) == IF Dirs(tree) = {} THEN 0 ELSE Max(Dirs(tree))

\* The process counts from the highest number it found when it first asked;
\* next is 0 until then.
get_next_seq(next, tree) == (IF next = 0 THEN load_max_seq(tree) ELSE next) + 1

\* task_create as far as the mkdir that refuses an existing directory.
task_create_dir(tree, t, incoming) == [tree EXCEPT ![t] = NewTask(incoming)]

task_set_state(tree, t, s) ==
    IF t \in Dirs(tree) THEN [tree EXCEPT ![t].state = s] ELSE tree

\* The same, or the write of a result file, when it fails: the files stay as they
\* were.
write_fails(tree, t) ==
    IF tree[t].state \in Terminal THEN tree ELSE [tree EXCEPT ![t].unwritten = TRUE]

\* The ids one task_iterate visits: readdir() order decides which CAP of them.
task_iterate(tree) ==
    IF Cardinality(Dirs(tree)) <= CAP THEN {Dirs(tree)}
    ELSE {s \in SUBSET Dirs(tree) : Cardinality(s) = CAP}

recover_one_skips_delegated(tree, t) ==
    IF tree[t].state \in {"queued", "running"}
    THEN task_set_state(tree, t, "failed") ELSE tree

recover_one_unconditional(tree, t) == task_set_state(tree, t, "failed")

\* A task whose state cannot be read is skipped.
recover_one(tree, t) ==
    IF tree[t].state \in Active THEN task_set_state(tree, t, "failed") ELSE tree

pending_add(pending, t, downstream) == pending \cup {<<t, downstream>>}

pending_remove_whole_task(pending, t, downstream) == {f \in pending : f[1] # t}

\* The name of a downstream that is not a valid agent name names no file.
pending_remove(pending, t, downstream) == pending \ {<<t, downstream>>}

pending_count_for_task(pending, t) == Cardinality({f \in pending : f[1] = t})
=============================================================================
