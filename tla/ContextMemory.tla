----------------------------- MODULE ContextMemory -----------------------------
(***************************************************************************)
(* The durable memory of one session: the numbered entries of its global   *)
(* context and the numbered snapshots later executions start from.         *)
(*                                                                         *)
(* Executions of the session may run at the same time, in one or several   *)
(* runners, and the tool calls of one execution finish concurrently.  Each *)
(* write is a transaction of its own, which takes the row lock of the      *)
(* session, reads the highest number and inserts the next.  A snapshot is  *)
(* made of the latest one, read before the summary is written and without  *)
(* the lock.                                                               *)
(***************************************************************************)
EXTENDS Naturals, FiniteSets

CONSTANTS
    Executions,     \* executions the session may be asked for
    Calls,          \* identifiers of the tool calls of an execution
    Program,        \* the task of the agent program itself
    MaxCompactions, \* bound: budget compactions of one execution
    MaxFaults       \* bound: errors raised and runners killed

ASSUME ConstantsAssumption ==
    /\ Program \notin Calls
    /\ MaxCompactions \in Nat
    /\ MaxFaults \in Nat

VARIABLES
    session,    \* the session row: "live", "deleting" (checked, not yet gone), "deleted"
    row,        \* status of each execution row
    pc,         \* where the agent program of each execution stands
    call,       \* its tool calls: "idle", "working" or "recorded"
    held,       \* executions whose work its working messages carry
    base,       \* executions the previous snapshot was told of
    since,      \* history: the number of that snapshot
    tx,         \* each task's transaction: "none" or "open"
    number,     \* the number its insert is going to use
    entries,    \* rows of global_context_entries
    snapshots,  \* rows of context_snapshots
    faults      \* history: faults injected so far

tables  == <<entries, snapshots>>
writing == <<tx, number>>
program == <<pc, call, held, base, since>>
vars    == <<session, row, program, writing, tables, faults>>

-----------------------------------------------------------------------------
Terminal == {"completed", "cancelled", "failed"}
Active   == {"pending", "running", "cancel_requested"}
Tasks    == Executions \X (Calls \cup {Program})

Alive(e) == pc[e] \notin {"queued", "ended"}

(* The writes of the program, by the place it awaits them. *)
Asks     == {"question", "answer"}
Saves    == {"compaction", "conclusion"}

Places == {"queued", "loading", "thinking", "reasoning", "acting", "compacting",
           "concluding", "finalising", "ended"} \cup Asks \cup Saves

(* The row with the highest number, the answer of ORDER BY sequence DESC   *)
(* LIMIT 1; MAX(sequence), or 0 for an empty table.                        *)
Latest(table)     == CHOOSE r \in table : \A q \in table : q.sequence <= r.sequence
LastNumber(table) == IF table = {} THEN 0 ELSE Latest(table).sequence

(* What a reader of the latest snapshot learns of. *)
Continuity == IF snapshots = {} THEN {} ELSE Latest(snapshots).tells

(* Seeded fault: the summary is made of the working messages alone. *)
Previous_None == {}

(* create_snapshot reads the snapshot it is going to replace. *)
Previous == Continuity

Kept(e, reason) == {s \in snapshots : s.by = e /\ s.reason = reason}

-----------------------------------------------------------------------------
(* The write transactions. *)

Wants(w) == IF w[2] = Program THEN pc[w[1]] \in Asks \cup Saves
                              ELSE call[w[1]][w[2]] = "working"

Table(w) == IF w[2] = Program /\ pc[w[1]] \in Saves THEN snapshots ELSE entries

(* Seeded fault: the session row is read without FOR UPDATE. *)
Unlocked_Always == TRUE

(* Nobody holds the session row. *)
Unlocked == \A w \in Tasks : tx[w] = "none"

(* Whoever has the lock reads MAX(sequence). *)
Lock(w) ==
    /\ Wants(w) /\ tx[w] = "none"
    /\ Unlocked
    /\ session # "deleted"
    /\ tx' = [tx EXCEPT ![w] = "open"]
    /\ number' = [number EXCEPT ![w] = LastNumber(Table(w)) + 1]
    /\ UNCHANGED <<session, row, program, tables, faults>>

(* The unique constraint on session and sequence. *)
Free(w) == \A r \in Table(w) : r.sequence # number[w]

(* The transactions of these tasks are over, by a commit or a rollback. *)
Closed(tasks) ==
    /\ tx' = [w \in Tasks |-> IF w \in tasks THEN "none" ELSE tx[w]]
    /\ number' = [w \in Tasks |-> IF w \in tasks THEN 0 ELSE number[w]]

Entry(w, kind) == [by |-> w[1], kind |-> kind, sequence |-> number[w]]

(* record_tool_observation of a call whose tool has answered or raised:    *)
(* either way there is an observation.                                     *)
RecordObservation(e, c) ==
    LET w == <<e, c>> IN
    /\ tx[w] = "open" /\ Free(w)
    /\ Closed({w})
    /\ entries' = entries \cup {Entry(w, "observation")}
    /\ call' = [call EXCEPT ![e][c] = "recorded"]
    /\ UNCHANGED <<session, row, pc, held, base, since, snapshots, faults>>

(* The question in load_context, the answer in finalize_execution. *)
Say(e, kind, next) ==
    LET w == <<e, Program>> IN
    /\ pc[e] = kind
    /\ tx[w] = "open" /\ Free(w)
    /\ Closed({w})
    /\ entries' = entries \cup {Entry(w, kind)}
    /\ pc' = [pc EXCEPT ![e] = next]
    /\ UNCHANGED <<session, row, call, held, base, since, snapshots, faults>>

Told(e) == base[e] \cup held[e]

Summarised(e) ==
    /\ base' = [base EXCEPT ![e] = {}]
    /\ since' = [since EXCEPT ![e] = 0]

(* ContextSnapshotRepository.create commits; a compaction replaces the     *)
(* working messages by the snapshot.                                       *)
SaveSnapshot(e, reason, next) ==
    LET w == <<e, Program>> IN
    /\ pc[e] = reason
    /\ tx[w] = "open" /\ Free(w)
    /\ Closed({w})
    /\ snapshots' = snapshots \cup {[by |-> e, reason |-> reason, sequence |-> number[w],
                                     tells |-> Told(e), since |-> since[e]]}
    /\ held' = [held EXCEPT ![e] = IF reason = "compaction" THEN Told(e) ELSE @]
    /\ pc' = [pc EXCEPT ![e] = next]
    /\ Summarised(e)
    /\ UNCHANGED <<session, row, call, entries, faults>>

-----------------------------------------------------------------------------
(* The agent program, as far as its memory goes. *)

Moves(e, from, to) == pc[e] = from /\ pc' = [pc EXCEPT ![e] = to]

(* load_context builds the working messages on the latest snapshot. *)
Load(e) ==
    /\ Moves(e, "loading", "question")
    /\ held' = [held EXCEPT ![e] = Continuity \cup {e}]
    /\ UNCHANGED <<session, row, call, base, since, writing, tables, faults>>

(* prepare_reasoning finds the working messages over the budget. *)
Compact(e) ==
    /\ Moves(e, "thinking", "compacting")
    /\ Cardinality(Kept(e, "compaction")) < MaxCompactions
    /\ UNCHANGED <<session, row, call, held, base, since, writing, tables, faults>>

(* create_snapshot reads the latest snapshot and goes on to summarise. *)
ReadPrevious(e, place, reason) ==
    /\ Moves(e, place, reason)
    /\ base' = [base EXCEPT ![e] = Previous]
    /\ since' = [since EXCEPT ![e] = LastNumber(snapshots)]
    /\ UNCHANGED <<session, row, call, held, writing, tables, faults>>

Act(e) ==
    \E calls \in SUBSET {c \in Calls : call[e][c] = "idle"} :
        /\ calls # {}
        /\ \E place \in {"thinking", "reasoning"} : Moves(e, place, "acting")
        /\ call' = [call EXCEPT ![e] = [c \in Calls |-> IF c \in calls THEN "working" ELSE @[c]]]
        /\ UNCHANGED <<session, row, held, base, since, writing, tables, faults>>

(* Seeded fault: the loop goes on with the first result. *)
Gathered_First(e) == \E c \in Calls : call[e][c] = "recorded"

(* asyncio.gather returns the results of all calls. *)
Gathered(e) == \A c \in Calls : call[e][c] \in {"idle", "recorded"}

Resume(e) ==
    /\ Gathered(e)
    /\ Moves(e, "acting", "thinking")
    /\ UNCHANGED <<session, row, call, held, base, since, writing, tables, faults>>

(* No tool is asked for, or the last iteration is over. *)
Answer(e) ==
    /\ \E place \in {"thinking", "reasoning"} : Moves(e, place, "answer")
    /\ UNCHANGED <<session, row, call, held, base, since, writing, tables, faults>>

(* Seeded fault: the result is returned as soon as the answer is stored. *)
AfterAnswer_Finalise == "finalising"

(* finalize_execution: the answer first, then the snapshot. *)
AfterAnswer == "concluding"

AgentStep(e) ==
    \/ Load(e)
    \/ Say(e, "question", "thinking")
    \/ Compact(e)
    \/ ReadPrevious(e, "compacting", "compaction")
    \/ SaveSnapshot(e, "compaction", "reasoning")
    \/ Act(e) \/ Resume(e) \/ Answer(e)
    \/ Say(e, "answer", AfterAnswer)
    \/ ReadPrevious(e, "concluding", "conclusion")
    \/ SaveSnapshot(e, "conclusion", "finalising")

-----------------------------------------------------------------------------
(* The runner and its ways to end. *)

(* The row as the consumer leaves it for an outcome. *)
Ended(e, outcome) ==
    row' = [row EXCEPT ![e] = CASE @ = "running"          -> outcome
                                [] @ = "cancel_requested" -> "cancelled"
                                [] OTHER                  -> @]

TasksOf(e)     == {w \in Tasks : w[1] = e}

Begin(e) ==
    /\ pc[e] = "queued"
    /\ \/ /\ row[e] = "pending"
          /\ row' = [row EXCEPT ![e] = "running"]
          /\ pc' = [pc EXCEPT ![e] = "loading"]
       \/ /\ row[e] = "cancel_requested"
          /\ row' = [row EXCEPT ![e] = "cancelled"]
          /\ pc' = [pc EXCEPT ![e] = "ended"]
    /\ UNCHANGED <<session, call, held, base, since, writing, tables, faults>>

Finalise(e) ==
    /\ Moves(e, "finalising", "ended")
    /\ Ended(e, "completed")
    /\ UNCHANGED <<session, call, held, base, since, writing, tables, faults>>

(* The requested cancellation is noticed: the program and its calls are    *)
(* cancelled, open transactions roll back.                                 *)
Stop(e) ==
    /\ row[e] = "cancel_requested"
    /\ Alive(e)
    /\ pc' = [pc EXCEPT ![e] = "ended"]
    /\ Ended(e, "cancelled")
    /\ call' = [call EXCEPT ![e] = [c \in Calls |-> "idle"]]
    /\ Closed(TasksOf(e))
    /\ UNCHANGED <<session, held, base, since, tables, faults>>

(* A task raises.  The program ends with it, the other calls of the same   *)
(* gather run on.                                                          *)
Raise(w) ==
    LET e == w[1] IN
    /\ pc' = [pc EXCEPT ![e] = "ended"]
    /\ IF Alive(e) THEN Ended(e, "failed") ELSE UNCHANGED row
    /\ call' = IF w[2] = Program THEN call ELSE [call EXCEPT ![e][w[2]] = "idle"]
    /\ Closed({w})
    /\ UNCHANGED <<session, held, base, since, tables>>

(* _lock_session finds no row. *)
SessionMissing(w) ==
    /\ Wants(w)
    /\ tx[w] = "none"
    /\ session = "deleted"
    /\ Raise(w)
    /\ UNCHANGED faults

Fault == faults < MaxFaults /\ faults' = faults + 1

Fail(w) ==
    /\ IF w[2] = Program THEN Alive(w[1]) /\ pc[w[1]] \notin {"acting", "finalising"}
                         ELSE call[w[1]][w[2]] = "working"
    /\ Raise(w)
    /\ Fault

(* The watcher raises: the handler settles the execution and loses the     *)
(* program, which goes on.                                                 *)
Abandon(e) ==
    /\ Alive(e)
    /\ row[e] \in {"running", "cancel_requested"}
    /\ Ended(e, "failed")
    /\ Fault
    /\ UNCHANGED <<session, program, writing, tables>>

(* The runner dies: nothing is written back, PostgreSQL rolls back. *)
Crash(e) ==
    /\ Alive(e) \/ ~Gathered(e)
    /\ pc' = [pc EXCEPT ![e] = "ended"]
    /\ call' = [call EXCEPT ![e] = [c \in Calls |-> "idle"]]
    /\ Closed(TasksOf(e))
    /\ Fault
    /\ UNCHANGED <<session, row, held, base, since, tables>>

-----------------------------------------------------------------------------
(* The API. *)

(* The foreign key of the new row waits for the row lock of the session. *)
Accept(e) ==
    /\ row[e] = "none"
    /\ session # "deleted"
    /\ Unlocked
    /\ row' = [row EXCEPT ![e] = "pending"]
    /\ UNCHANGED <<session, program, writing, tables, faults>>

Cancel(e) ==
    /\ row[e] \in {"pending", "running"}
    /\ row' = [row EXCEPT ![e] = "cancel_requested"]
    /\ UNCHANGED <<session, program, writing, tables, faults>>

CheckDelete ==
    /\ session = "live"
    /\ \A e \in Executions : row[e] \notin Active
    /\ session' = "deleting"
    /\ UNCHANGED <<row, program, writing, tables, faults>>

(* Executions, entries and snapshots go with the row. *)
Delete ==
    /\ session = "deleting"
    /\ Unlocked
    /\ session' = "deleted"
    /\ row' = [e \in Executions |-> IF row[e] = "none" THEN "none" ELSE "deleted"]
    /\ entries' = {} /\ snapshots' = {}
    /\ UNCHANGED <<program, writing, faults>>

-----------------------------------------------------------------------------
Init ==
    /\ session = "live"
    /\ row = [e \in Executions |-> "none"]
    /\ pc = [e \in Executions |-> "queued"]
    /\ call = [e \in Executions |-> [c \in Calls |-> "idle"]]
    /\ held = [e \in Executions |-> {}]
    /\ base = [e \in Executions |-> {}]
    /\ since = [e \in Executions |-> 0]
    /\ tx = [w \in Tasks |-> "none"]
    /\ number = [w \in Tasks |-> 0]
    /\ entries = {}
    /\ snapshots = {}
    /\ faults = 0

TaskStep(w) ==
    \/ Lock(w) \/ SessionMissing(w)
    \/ \E c \in Calls : w[2] = c /\ RecordObservation(w[1], c)

RunnerStep(e) == AgentStep(e) \/ Begin(e) \/ Finalise(e) \/ Stop(e)

ApiStep(e) == Accept(e) \/ Cancel(e)

Next ==
    \/ \E e \in Executions : RunnerStep(e) \/ Abandon(e) \/ Crash(e) \/ ApiStep(e)
    \/ \E w \in Tasks : TaskStep(w) \/ Fail(w)
    \/ CheckDelete
    \/ Delete

Spec == Init /\ [][Next]_vars

-----------------------------------------------------------------------------
EntryRow    == [by : Executions, kind : Asks \cup {"observation"}, sequence : Nat \ {0}]
SnapshotRow == [by : Executions, reason : Saves, sequence : Nat \ {0},
                tells : SUBSET Executions, since : Nat]

(* Every variable keeps the shape its declaration announces. *)
TypeOK ==
    /\ session \in {"live", "deleting", "deleted"}
    /\ row \in [Executions -> Active \cup Terminal \cup {"none", "deleted"}]
    /\ pc \in [Executions -> Places]
    /\ call \in [Executions -> [Calls -> {"idle", "working", "recorded"}]]
    /\ held \in [Executions -> SUBSET Executions]
    /\ base \in [Executions -> SUBSET Executions]
    /\ since \in [Executions -> Nat]
    /\ tx \in [Tasks -> {"none", "open"}]
    /\ number \in [Tasks -> Nat]
    /\ entries \subseteq EntryRow
    /\ snapshots \subseteq SnapshotRow
    /\ faults \in 0 .. MaxFaults

Consecutive(table) ==
    /\ {r.sequence : r \in table} = 1 .. Cardinality(table)
    /\ \A q, r \in table : q.sequence = r.sequence => q = r

(* However many calls and executions write at once, the numbers of each    *)
(* table run without a gap or a repetition, and no insert is refused by    *)
(* the unique constraint (_lock_session).                                  *)
Numbering ==
    /\ Consecutive(entries) /\ Consecutive(snapshots)
    /\ \A w \in Tasks : tx[w] = "open" => Free(w)

(* A snapshot drops what an earlier one told of only when a snapshot in    *)
(* between, or this one, was begun before that earlier one was stored:     *)
(* memory is lost to overlapping executions, never to a sequence of them,  *)
(* nor by a compaction to the execution that makes it (create_snapshot).   *)
ForgottenOnlyByOverlap ==
    \A old, new \in snapshots :
        (old.sequence < new.sequence /\ ~ old.tells \subseteq new.tells) =>
            \E s \in snapshots :
                /\ s.since < old.sequence
                /\ old.sequence < s.sequence
                /\ s.sequence <= new.sequence

(* The answer of an execution is the last thing it says: its question came *)
(* first and no observation of it follows, not even one still under way.   *)
AnswerClosesTheRun ==
    \A a \in entries : a.kind = "answer" =>
        /\ \E q \in entries : q.by = a.by /\ q.kind = "question" /\ q.sequence < a.sequence
        /\ \A r \in entries : r.by = a.by => r.sequence <= a.sequence
        /\ \A c \in Calls : call[a.by][c] # "working"

(* An execution the runner committed as completed has its answer and its   *)
(* closing snapshot in the memory the next one starts from.                *)
CompletedIsRemembered ==
    \A e \in Executions : row[e] = "completed" =>
        /\ \E a \in entries : a.by = e /\ a.kind = "answer"
        /\ \E s \in Kept(e, "conclusion") : e \in s.tells

-----------------------------------------------------------------------------
(* The inductive invariant the theorems of ContextMemory_proofs rest on.   *)

(* Both tables are finite and numbered from one on. *)
Tables == /\ IsFiniteSet(entries) /\ IsFiniteSet(snapshots)
          /\ Consecutive(entries) /\ Consecutive(snapshots)

(* One transaction at a time, of a task that awaits its write, in a live   *)
(* session; the number it has taken is the next one.                       *)
Writers ==
    /\ \A v, w \in Tasks : tx[v] # "none" /\ tx[w] # "none" => v = w
    /\ \A w \in Tasks : tx[w] # "none" => Wants(w) /\ session # "deleted"
    /\ \A w \in Tasks : tx[w] = "open" => number[w] = LastNumber(Table(w)) + 1

(* Calls are under way only while the program waits for them, or after it  *)
(* has ended with an error of another call.                                *)
Busy == \A e \in Executions : ~ Gathered(e) => pc[e] \in {"acting", "ended"}

(* Nothing outlives the session. *)
Gone == session = "deleted" =>
    /\ entries = {} /\ snapshots = {}
    /\ \A e \in Executions : row[e] \in {"none", "deleted"}

(* A summary being written carries what the snapshot it replaces told of.  *)
Sourced ==
    \A e \in Executions : (session # "deleted" /\ pc[e] \in Saves) =>
        /\ since[e] <= LastNumber(snapshots)
        /\ since[e] = 0 \/ \E s \in snapshots : s.sequence = since[e] /\ s.tells \subseteq base[e]

Concluded == {"concluding", "conclusion", "finalising"}
Engaged   == {"thinking", "reasoning", "acting", "compacting", "compaction", "answer"} \cup Concluded

(* How far the program has come shows in the memory and in its messages.   *)
Spoken ==
    \A e \in Executions :
        /\ pc[e] \in Engaged \cup {"question"} => e \in held[e]
        /\ session # "deleted" =>
              /\ pc[e] \in Engaged => \E q \in entries : q.by = e /\ q.kind = "question"
              /\ pc[e] \in Concluded => \E a \in entries : a.by = e /\ a.kind = "answer"
              /\ pc[e] = "finalising" => \E s \in Kept(e, "conclusion") : e \in s.tells

(* After its answer an execution only concludes. *)
Closing == \A a \in entries : a.kind = "answer" => pc[a.by] \in Concluded \cup {"ended"} /\ Gathered(a.by)

IInv == /\ TypeOK /\ Tables /\ Writers /\ Busy /\ Gone /\ Sourced /\ Spoken /\ Closing
        /\ ForgottenOnlyByOverlap /\ AnswerClosesTheRun /\ CompletedIsRemembered

=============================================================================
