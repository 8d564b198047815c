------------------------- MODULE ContextMemory_proofs -------------------------
(***************************************************************************)
(* Proofs about ContextMemory for every value of its constants: any number *)
(* of executions of a session, of tool calls, of compactions and faults.   *)
(* IInv, stated in ContextMemory, is the inductive invariant; the lemmas   *)
(* below say what a numbered table is and how one more row extends it.     *)
(***************************************************************************)
EXTENDS ContextMemory, FiniteSetTheorems, TLAPS

(* The last number of a consecutively numbered table is its size.          *)
LEMMA LastNumberIsSize ==
  ASSUME NEW table, IsFiniteSet(table), Consecutive(table)
  PROVE  /\ LastNumber(table) \in Nat
         /\ LastNumber(table) = Cardinality(table)
         /\ \A r \in table : r.sequence \in 1 .. LastNumber(table)
         /\ table # {} => Latest(table) \in table /\ Latest(table).sequence = LastNumber(table)
<1>1. Cardinality(table) \in Nat
  BY FS_CardinalityType
<1>2. CASE table = {}
  BY <1>2, FS_EmptySet DEF LastNumber
<1>3. CASE table # {}
  <2>1. \A r \in table : r.sequence \in 1 .. Cardinality(table)
    BY DEF Consecutive
  <2>2. Cardinality(table) \in 1 .. Cardinality(table)
    BY <1>1, <1>3, <2>1
  <2>3. PICK r \in table : r.sequence = Cardinality(table)
    BY <2>2 DEF Consecutive
  <2>4. \A q \in table : q.sequence <= r.sequence
    BY <1>1, <2>1, <2>3
  <2>5. Latest(table) \in table /\ \A q \in table : q.sequence <= Latest(table).sequence
    BY <2>4 DEF Latest
  <2>6. Latest(table).sequence = Cardinality(table)
    BY <1>1, <2>1, <2>3, <2>5
  <2>7. QED
    BY <1>1, <1>3, <2>1, <2>5, <2>6 DEF LastNumber
<1>4. QED
  BY <1>2, <1>3

(* A row that takes the next number keeps the table consecutive.           *)
LEMMA NextRow ==
  ASSUME NEW table, IsFiniteSet(table), Consecutive(table),
         NEW new, new.sequence = LastNumber(table) + 1
  PROVE  /\ IsFiniteSet(table \cup {new})
         /\ Consecutive(table \cup {new})
         /\ LastNumber(table \cup {new}) = new.sequence
<1> DEFINE more == table \cup {new}
           n == Cardinality(table)
<1>1. n \in Nat /\ LastNumber(table) = n /\ \A r \in table : r.sequence \in 1 .. n
  BY LastNumberIsSize
<1>2. new \notin table
  BY <1>1
<1>3. IsFiniteSet(more) /\ Cardinality(more) = n + 1
  BY <1>2, FS_AddElement
<1>4. {r.sequence : r \in more} = 1 .. n + 1
  <2>1. {r.sequence : r \in table} = 1 .. n
    BY DEF Consecutive
  <2>2. {r.sequence : r \in more} = {r.sequence : r \in table} \cup {n + 1}
    BY <1>1
  <2>3. (1 .. n) \cup {n + 1} = 1 .. n + 1
    BY <1>1
  <2>4. QED
    BY <2>1, <2>2, <2>3
<1>5. \A q, r \in more : q.sequence = r.sequence => q = r
  <2> SUFFICES ASSUME NEW q \in more, NEW r \in more, q.sequence = r.sequence PROVE q = r
    OBVIOUS
  <2>1. \A p \in table : p.sequence # n + 1
    BY <1>1
  <2>2. CASE q \in table /\ r \in table
    BY <2>2 DEF Consecutive
  <2>3. CASE q = new \/ r = new
    BY <1>1, <2>1, <2>3
  <2>4. QED
    BY <2>2, <2>3
<1>6. Consecutive(more)
  BY <1>3, <1>4, <1>5 DEF Consecutive
<1>7. LastNumber(more) = n + 1
  BY <1>3, <1>6, LastNumberIsSize
<1>8. QED
  BY <1>1, <1>3, <1>6, <1>7

(* A task is an execution and one of its calls or its program.             *)
LEMMA TaskPair ==
  ASSUME NEW w \in Tasks
  PROVE  /\ w[1] \in Executions /\ w[2] \in Calls \cup {Program}
         /\ w = <<w[1], w[2]>>
BY DEF Tasks

(* The initial state satisfies the inductive invariant. *)
LEMMA InitIInv == Init => IInv
<1> SUFFICES ASSUME Init PROVE IInv
  OBVIOUS
<1>1. TypeOK
  BY ConstantsAssumption DEF Init, TypeOK, Active, Places
<1>2. Tables
  <2>1. {r.sequence : r \in {}} = {} /\ 1 .. 0 = {}
    OBVIOUS
  <2>2. QED
    BY <2>1, FS_EmptySet DEF Init, Tables, Consecutive
<1>3. Writers /\ Busy /\ Gone /\ Sourced /\ Spoken /\ Closing
  BY DEF Init, Writers, Busy, Gathered, Gone, Sourced, Spoken, Closing, Saves, Engaged, Concluded
<1>4. ForgottenOnlyByOverlap /\ AnswerClosesTheRun /\ CompletedIsRemembered
  BY DEF Init, ForgottenOnlyByOverlap, AnswerClosesTheRun, CompletedIsRemembered
<1>5. QED
  BY <1>1, <1>2, <1>3, <1>4 DEF IInv

(* A move of a program that awaits no write leaves the transactions of all *)
(* tasks as they were.                                                     *)
LEMMA MoveKeepsWriters ==
  ASSUME TypeOK, Writers, NEW e \in Executions, pc[e] \notin Asks \cup Saves,
         \A f \in Executions : f # e => pc'[f] = pc[f],
         \A f \in Executions, c \in Calls : call[f][c] = "working" => call'[f][c] = "working",
         session' = session \/ session' # "deleted",
         UNCHANGED <<tx, number, entries, snapshots>>
  PROVE  Writers'
<1>1. \A w \in Tasks : tx[w] # "none" => Wants(w)' /\ Table(w)' = Table(w)
  <2> SUFFICES ASSUME NEW w \in Tasks, tx[w] # "none" PROVE Wants(w)' /\ Table(w)' = Table(w)
    OBVIOUS
  <2>1. Wants(w)
    BY DEF Writers
  <2>2. CASE w[2] = Program
    <3>1. w[1] # e
      BY <2>1, <2>2 DEF Wants
    <3>2. QED
      BY <2>1, <2>2, <3>1, TaskPair DEF Wants, Table
  <2>3. CASE w[2] # Program
    BY <2>1, <2>3, TaskPair DEF Wants, Table
  <2>4. QED
    BY <2>2, <2>3
<1>2. QED
  BY <1>1 DEF Writers

(* Closing transactions leaves the others in order, if those still await   *)
(* the write they are for.                                                 *)
LEMMA CloseKeepsWriters ==
  ASSUME TypeOK, Writers, NEW tasks \in SUBSET Tasks, Closed(tasks),
         \A w \in Tasks \ tasks : tx[w] # "none" => Wants(w)' /\ Table(w)' = Table(w),
         session' = session
  PROVE  Writers'
<1>1. \A w \in Tasks : w \in tasks => tx'[w] = "none"
  BY DEF Closed
<1>2. \A w \in Tasks : w \notin tasks => tx'[w] = tx[w] /\ number'[w] = number[w]
  BY DEF Closed
<1>3. QED
  BY <1>1, <1>2 DEF Writers

(* Whoever has a transaction open is the only one.                         *)
LEMMA OnlyWriter ==
  ASSUME Writers, NEW w \in Tasks, tx[w] # "none"
  PROVE  /\ Wants(w) /\ session # "deleted"
         /\ \A v \in Tasks \ {w} : tx[v] = "none"
BY DEF Writers

(* The tables and what was remembered of an execution do not change.       *)
LEMMA SpokenKept ==
  ASSUME Spoken, NEW e \in Executions, UNCHANGED <<session, entries, snapshots>>,
         \A f \in Executions : f # e => pc'[f] = pc[f] /\ held'[f] = held[f],
         pc'[e] \in Engaged \cup {"question"} => e \in held'[e],
         pc'[e] \in Engaged => pc[e] \in Engaged,
         pc'[e] \in Concluded => pc[e] \in Concluded,
         pc'[e] = "finalising" => pc[e] = "finalising"
  PROVE  Spoken'
<1> SUFFICES ASSUME NEW f \in Executions
             PROVE  (/\ pc[f] \in Engaged \cup {"question"} => f \in held[f]
                     /\ session # "deleted" =>
                          /\ pc[f] \in Engaged => \E q \in entries : q.by = f /\ q.kind = "question"
                          /\ pc[f] \in Concluded => \E a \in entries : a.by = f /\ a.kind = "answer"
                          /\ pc[f] = "finalising" => \E s \in Kept(f, "conclusion") : f \in s.tells)'
  BY DEF Spoken, Engaged, Concluded
<1>1. Kept(f, "conclusion")' = Kept(f, "conclusion")
  BY DEF Kept
<1>2. CASE f = e
  BY <1>1, <1>2 DEF Spoken, Engaged, Concluded
<1>3. CASE f # e
  BY <1>1, <1>3 DEF Spoken, Engaged, Concluded
<1>4. QED
  BY <1>2, <1>3

(* Properties of the tables alone. *)
LEMMA UnchangedTables ==
  ASSUME IInv, UNCHANGED <<entries, snapshots>>
  PROVE  Tables' /\ ForgottenOnlyByOverlap' /\ LastNumber(snapshots)' = LastNumber(snapshots)
BY DEF IInv, Tables, Consecutive, ForgottenOnlyByOverlap

(* What the program of one execution does between two writes.              *)
LEMMA ProgramStep ==
  ASSUME IInv, NEW e \in Executions,
         \/ Load(e) \/ Compact(e) \/ Act(e) \/ Resume(e) \/ Answer(e)
         \/ ReadPrevious(e, "compacting", "compaction")
         \/ ReadPrevious(e, "concluding", "conclusion")
  PROVE  IInv'
<1> TypeOK /\ Tables /\ Writers /\ Busy /\ Gone /\ Sourced /\ Spoken /\ Closing
    /\ ForgottenOnlyByOverlap /\ AnswerClosesTheRun /\ CompletedIsRemembered
  BY DEF IInv
<1> USE DEF writing, tables
<1>a. /\ pc[e] \in {"loading", "thinking", "reasoning", "acting", "compacting", "concluding"}
      /\ pc' = [pc EXCEPT ![e] = pc'[e]]
      /\ pc'[e] \in {"question", "compacting", "acting", "thinking", "answer", "compaction", "conclusion"}
      /\ UNCHANGED <<session, row, tx, number, entries, snapshots, faults>>
  BY DEF Load, Compact, Act, Resume, Answer, ReadPrevious, Moves, TypeOK
<1>b. /\ Continuity \subseteq Executions
      /\ LastNumber(snapshots) \in Nat
      /\ snapshots # {} => Latest(snapshots) \in snapshots /\ Latest(snapshots).sequence = LastNumber(snapshots)
  BY LastNumberIsSize DEF Continuity, Tables, TypeOK, SnapshotRow
<1>c. \A f \in Executions : f # e => pc'[f] = pc[f]
  BY <1>a DEF TypeOK
<1>f. /\ pc[e] = "loading" <=> pc'[e] = "question"
      /\ pc[e] = "concluding" <=> pc'[e] = "conclusion"
  BY DEF Load, Compact, Act, Resume, Answer, ReadPrevious, Moves, TypeOK
<1>d. /\ \A f \in Executions, c \in Calls : f # e => call'[f][c] = call[f][c]
      /\ \A c \in Calls : call[e][c] \in {"working", "recorded"} => call'[e][c] = call[e][c]
      /\ call' \in [Executions -> [Calls -> {"idle", "working", "recorded"}]]
      /\ pc'[e] # "acting" => call' = call
  <2>1. CASE Act(e)
    <3>1. PICK calls \in SUBSET {c \in Calls : call[e][c] = "idle"} :
             /\ call' = [call EXCEPT ![e] = [c \in Calls |-> IF c \in calls THEN "working" ELSE call[e][c]]]
             /\ pc' = [pc EXCEPT ![e] = "acting"]
      BY <2>1 DEF Act, Moves
    <3>2. pc'[e] = "acting"
      BY <3>1 DEF TypeOK
    <3>3. call'[e] = [c \in Calls |-> IF c \in calls THEN "working" ELSE call[e][c]]
      BY <3>1 DEF TypeOK
    <3>4. \A f \in Executions : f # e => call'[f] = call[f]
      BY <3>1 DEF TypeOK
    <3>5. call'[e] \in [Calls -> {"idle", "working", "recorded"}]
      BY <3>3 DEF TypeOK
    <3>6. call' \in [Executions -> [Calls -> {"idle", "working", "recorded"}]]
      BY <3>1, <3>3, <3>5 DEF TypeOK
    <3>7. QED
      BY <3>2, <3>3, <3>4, <3>6
  <2>2. CASE ~ Act(e)
    <3>1. call' = call
      BY <2>2 DEF Load, Compact, Resume, Answer, ReadPrevious
    <3>2. QED
      BY <3>1 DEF TypeOK
  <2>3. QED
    BY <2>1, <2>2
<1>e. /\ \A f \in Executions : f # e => held'[f] = held[f] /\ base'[f] = base[f] /\ since'[f] = since[f]
      /\ held' \in [Executions -> SUBSET Executions]
      /\ base' \in [Executions -> SUBSET Executions]
      /\ since' \in [Executions -> Nat]
      /\ pc[e] = "loading" => held'[e] = Continuity \cup {e}
      /\ pc[e] # "loading" => held' = held
  <2>1. CASE Load(e)
    BY <2>1, <1>b DEF Load, Moves, TypeOK
  <2>2. CASE ReadPrevious(e, "compacting", "compaction") \/ ReadPrevious(e, "concluding", "conclusion")
    <3>1. /\ pc[e] # "loading" /\ held' = held
          /\ base' = [base EXCEPT ![e] = Continuity]
          /\ since' = [since EXCEPT ![e] = LastNumber(snapshots)]
      BY <2>2 DEF ReadPrevious, Moves, Previous
    <3>2. QED
      BY <1>b, <3>1 DEF TypeOK
  <2>3. CASE Compact(e) \/ Act(e) \/ Resume(e) \/ Answer(e)
    BY <2>3 DEF Compact, Act, Resume, Answer, Moves, TypeOK
  <2>4. QED
    BY <2>1, <2>2, <2>3
<1>1. TypeOK'
  <2>1. pc' \in [Executions -> Places]
    BY <1>a DEF TypeOK, Places, Asks, Saves
  <2>2. QED
    BY <1>a, <1>d, <1>e, <2>1 DEF TypeOK, EntryRow, SnapshotRow
<1>2. Writers'
  BY <1>a, <1>c, <1>d, MoveKeepsWriters DEF Asks, Saves
<1>3. Busy'
  <2>1. CASE pc'[e] = "acting"
    BY <1>c, <1>d, <2>1 DEF Busy, Gathered
  <2>2. CASE pc'[e] # "acting"
    <3>1. Gathered(e)
      BY <1>a, <2>2 DEF Busy, Resume, Load, Compact, Act, Answer, ReadPrevious, Moves
    <3>2. QED
      BY <1>c, <1>d, <2>2, <3>1 DEF Busy, Gathered
  <2>3. QED
    BY <2>1, <2>2
<1>4. Gone'
  BY <1>a DEF Gone
<1>5. Sourced'
  <2>1. CASE pc'[e] \in Saves
    <3>1. base'[e] = Continuity /\ since'[e] = LastNumber(snapshots)
      BY <2>1 DEF Saves, Load, Compact, Act, Resume, Answer, ReadPrevious, Moves, TypeOK, Previous
    <3>2. since'[e] = 0 \/ \E s \in snapshots : s.sequence = since'[e] /\ s.tells \subseteq base'[e]
      BY <1>b, <3>1 DEF Continuity, LastNumber
    <3>3. QED
      BY <1>a, <1>b, <1>c, <1>e, <3>1, <3>2, UnchangedTables DEF Sourced
  <2>2. CASE pc'[e] \notin Saves
    BY <1>a, <1>c, <1>e, <2>2, UnchangedTables DEF Sourced
  <2>3. QED
    BY <2>1, <2>2
<1>6. Spoken'
  <2>1. pc'[e] \in Engaged \cup {"question"} => e \in held'[e]
    BY <1>a, <1>e, <1>f DEF Spoken, Engaged, Concluded
  <2>2. /\ pc'[e] \in Engaged => pc[e] \in Engaged
        /\ pc'[e] \in Concluded => pc[e] \in Concluded
        /\ pc'[e] = "finalising" => pc[e] = "finalising"
    BY <1>a, <1>f DEF Engaged, Concluded
  <2>3. QED
    BY <1>a, <1>c, <1>e, <2>1, <2>2, SpokenKept
<1>7. Closing'
  <2> SUFFICES ASSUME NEW a \in entries, a.kind = "answer"
               PROVE  pc'[a.by] \in Concluded \cup {"ended"} /\ Gathered(a.by)'
    BY <1>a DEF Closing
  <2>1. pc[a.by] \in Concluded \cup {"ended"} /\ Gathered(a.by) /\ a.by \in Executions
    BY DEF Closing, TypeOK, EntryRow
  <2>2. CASE a.by = e
    <3>1. pc'[e] = "conclusion"
      BY <1>a, <1>f, <2>1, <2>2 DEF Concluded
    <3>2. QED
      BY <1>d, <2>1, <2>2, <3>1 DEF Concluded, Gathered
  <2>3. CASE a.by # e
    BY <1>c, <1>d, <2>1, <2>3 DEF Gathered
  <2>4. QED
    BY <2>2, <2>3
<1>8. AnswerClosesTheRun'
  BY <1>a, <1>7 DEF AnswerClosesTheRun, Closing, Gathered
<1>9. CompletedIsRemembered'
  BY <1>a DEF CompletedIsRemembered, Kept
<1>10. QED
  BY <1>1, <1>2, <1>3, <1>4, <1>5, <1>6, <1>7, <1>8, <1>9, <1>a, UnchangedTables DEF IInv

(* A task locks the session row and takes the next number. *)
LEMMA LockStep ==
  ASSUME IInv, NEW w \in Tasks, Lock(w)
  PROVE  IInv'
<1> TypeOK /\ Tables /\ Writers /\ Busy /\ Gone /\ Sourced /\ Spoken /\ Closing
    /\ ForgottenOnlyByOverlap /\ AnswerClosesTheRun /\ CompletedIsRemembered
  BY DEF IInv
<1> USE DEF program, tables
<1>a. LastNumber(entries) \in Nat /\ LastNumber(snapshots) \in Nat
  BY LastNumberIsSize DEF Tables
<1>b. UNCHANGED <<session, row, pc, call, held, base, since, entries, snapshots, faults>>
  BY DEF Lock
<1>c. /\ tx' = [tx EXCEPT ![w] = "open"]
      /\ number' = [number EXCEPT ![w] = LastNumber(Table(w)) + 1]
      /\ \A v \in Tasks : tx[v] = "none"
      /\ Wants(w) /\ session # "deleted"
  BY DEF Lock, Unlocked
<1>1. TypeOK'
  <2>1. LastNumber(Table(w)) + 1 \in Nat
    BY <1>a DEF Table
  <2>2. tx' \in [Tasks -> {"none", "open"}] /\ number' \in [Tasks -> Nat]
    BY <1>c, <2>1 DEF TypeOK
  <2>3. QED
    BY <1>b, <2>2 DEF TypeOK, EntryRow, SnapshotRow
<1>2. Writers'
  <2>1. \A v \in Tasks : Wants(v)' = Wants(v) /\ Table(v)' = Table(v)
    BY <1>b DEF Wants, Table
  <2>2. /\ \A v \in Tasks : v # w => tx'[v] = "none"
        /\ tx'[w] = "open" /\ number'[w] = LastNumber(Table(w)) + 1
    BY <1>c DEF TypeOK
  <2>3. QED
    BY <1>b, <1>c, <2>1, <2>2 DEF Writers
<1>3. (Busy /\ Gone /\ Closing /\ AnswerClosesTheRun /\ CompletedIsRemembered)'
  BY <1>b DEF Busy, Gathered, Gone, Closing, AnswerClosesTheRun, CompletedIsRemembered, Kept
<1>4. Sourced' /\ Spoken'
  BY <1>b, UnchangedTables DEF Sourced, Spoken, Kept
<1>5. QED
  BY <1>1, <1>2, <1>3, <1>4, <1>b, UnchangedTables DEF IInv

(* The API writes rows, and deletes the session while nobody has locked it. *)
LEMMA ApiSteps ==
  ASSUME IInv, CheckDelete \/ Delete \/ \E e \in Executions : ApiStep(e)
  PROVE  IInv'
<1> TypeOK /\ Tables /\ Writers /\ Busy /\ Gone /\ Sourced /\ Spoken /\ Closing
    /\ ForgottenOnlyByOverlap /\ AnswerClosesTheRun /\ CompletedIsRemembered
  BY DEF IInv
<1> USE DEF program, writing, tables
<1>1. CASE Delete
  <2>0. /\ session' = "deleted" /\ entries' = {} /\ snapshots' = {}
        /\ \A w \in Tasks : tx'[w] = "none"
        /\ UNCHANGED <<pc, call, held, base, since, tx, number, faults>>
        /\ \A e \in Executions : row'[e] \in {"none", "deleted"}
    BY <1>1 DEF Delete, Unlocked, TypeOK
  <2>1. TypeOK'
    BY <1>1, <2>0 DEF TypeOK, Delete
  <2>2. Tables'
    <3>1. {r.sequence : r \in {}} = {} /\ 1 .. 0 = {}
      OBVIOUS
    <3>2. QED
      BY <2>0, <3>1, FS_EmptySet DEF Tables, Consecutive
  <2>3. (Writers /\ Gone /\ Sourced /\ Closing /\ ForgottenOnlyByOverlap /\ AnswerClosesTheRun)'
    BY <2>0 DEF Writers, Gone, Sourced, Closing, ForgottenOnlyByOverlap, AnswerClosesTheRun
  <2>4. Busy' /\ Spoken' /\ CompletedIsRemembered'
    BY <2>0 DEF Busy, Gathered, Spoken, CompletedIsRemembered
  <2>5. QED
    BY <2>1, <2>2, <2>3, <2>4 DEF IInv
<1>2. CASE CheckDelete \/ \E e \in Executions : ApiStep(e)
  <2>1. /\ row' \in [Executions -> Active \cup Terminal \cup {"none", "deleted"}]
        /\ \A e \in Executions : row'[e] = row[e] \/ row'[e] \in Active
        /\ session = "deleted" => \A e \in Executions : row[e] \in {"none", "deleted"} => row'[e] = row[e]
    <3>1. CASE CheckDelete
      BY <3>1 DEF CheckDelete, TypeOK
    <3>2. ASSUME NEW e \in Executions, ApiStep(e)
          PROVE  /\ row' \in [Executions -> Active \cup Terminal \cup {"none", "deleted"}]
                 /\ \A f \in Executions : row'[f] = row[f] \/ row'[f] \in Active
                 /\ session = "deleted" =>
                       \A f \in Executions : row[f] \in {"none", "deleted"} => row'[f] = row[f]
      BY <3>2 DEF ApiStep, Accept, Cancel, TypeOK, Active
    <3>3. QED
      BY <1>2, <3>1, <3>2
  <2>2. /\ UNCHANGED <<pc, call, held, base, since, tx, number, entries, snapshots, faults>>
        /\ session' \in {"live", "deleting", "deleted"}
        /\ session' = "deleted" <=> session = "deleted"
    BY <1>2 DEF CheckDelete, ApiStep, Accept, Cancel, TypeOK
  <2>3. TypeOK'
    BY <2>1, <2>2 DEF TypeOK, EntryRow, SnapshotRow
  <2>4. Writers' /\ Gone'
    BY <2>1, <2>2 DEF Writers, Wants, Table, Gone
  <2>5. Sourced' /\ Spoken'
    BY <2>2, UnchangedTables DEF Sourced, Spoken, Kept
  <2>6. (Busy /\ Closing /\ AnswerClosesTheRun)'
    BY <2>2 DEF Busy, Gathered, Closing, AnswerClosesTheRun
  <2>7. CompletedIsRemembered'
    BY <2>1, <2>2 DEF CompletedIsRemembered, Kept, Active
  <2>8. QED
    BY <2>2, <2>3, <2>4, <2>5, <2>6, <2>7, UnchangedTables DEF IInv
<1>3. QED
  BY <1>1, <1>2

(* Ways for the program of an execution to end leave the tables alone; the *)
(* row says completed only after the closing snapshot.                     *)
LEMMA Ending ==
  ASSUME IInv, NEW e \in Executions, NEW tasks \in SUBSET Tasks,
         pc' = [pc EXCEPT ![e] = "ended"],
         UNCHANGED <<session, held, base, since, entries, snapshots>>,
         faults' \in 0 .. MaxFaults,
         call' \in [Executions -> [Calls -> {"idle", "working", "recorded"}]],
         \A f \in Executions, c \in Calls : call'[f][c] # call[f][c] => f = e /\ call'[f][c] = "idle",
         row' \in [Executions -> Active \cup Terminal \cup {"none", "deleted"}],
         \A f \in Executions : row'[f] # row[f] =>
             /\ f = e /\ row[f] \notin {"none", "deleted"}
             /\ row'[f] = "completed" => pc[f] = "finalising",
         Closed(tasks),
         \A w \in Tasks \ tasks : tx[w] # "none" =>
             IF w[2] = Program THEN w[1] # e ELSE call'[w[1]][w[2]] = call[w[1]][w[2]]
  PROVE  IInv'
<1> TypeOK /\ Tables /\ Writers /\ Busy /\ Gone /\ Sourced /\ Spoken /\ Closing
    /\ ForgottenOnlyByOverlap /\ AnswerClosesTheRun /\ CompletedIsRemembered
  BY DEF IInv
<1>a. pc'[e] = "ended" /\ \A f \in Executions : f # e => pc'[f] = pc[f]
  BY DEF TypeOK
<1>b. \A f \in Executions : Gathered(f) => Gathered(f)'
  BY DEF Gathered
<1>1. TypeOK'
  <2>1. pc' \in [Executions -> Places]
    BY DEF TypeOK, Places
  <2>2. tx' \in [Tasks -> {"none", "open"}] /\ number' \in [Tasks -> Nat]
    BY DEF TypeOK, Closed
  <2>3. QED
    BY <2>1, <2>2 DEF TypeOK, EntryRow, SnapshotRow
<1>2. Writers'
  <2>1. ASSUME NEW w \in Tasks \ tasks, tx[w] # "none" PROVE Wants(w)' /\ Table(w)' = Table(w)
    <3>1. Wants(w)
      BY <2>1 DEF Writers
    <3>2. CASE w[2] = Program
      BY <1>a, <2>1, <3>1, <3>2, TaskPair DEF Wants, Table
    <3>3. CASE w[2] # Program
      BY <2>1, <3>1, <3>3, TaskPair DEF Wants, Table
    <3>4. QED
      BY <3>2, <3>3
  <2>2. QED
    BY <2>1, CloseKeepsWriters
<1>3. Busy'
  BY <1>a, <1>b DEF Busy
<1>4. Gone'
  BY DEF Gone
<1>5. Sourced'
  BY <1>a, UnchangedTables DEF Sourced, Saves
<1>6. Spoken'
  BY <1>a, SpokenKept DEF Engaged, Concluded
<1>7. Closing'
  BY <1>a, <1>b DEF Closing, TypeOK, EntryRow
<1>8. AnswerClosesTheRun'
  BY <1>7 DEF AnswerClosesTheRun, Closing, Gathered
<1>9. CompletedIsRemembered'
  <2> SUFFICES ASSUME NEW f \in Executions, row'[f] = "completed"
               PROVE  /\ \E a \in entries : a.by = f /\ a.kind = "answer"
                      /\ \E s \in Kept(f, "conclusion") : f \in s.tells
    BY DEF CompletedIsRemembered, Kept
  <2>1. CASE row[f] = "completed"
    BY <2>1 DEF CompletedIsRemembered
  <2>2. CASE row[f] # "completed"
    <3>1. pc[f] = "finalising" /\ session # "deleted"
      BY <2>2 DEF Gone
    <3>2. QED
      BY <3>1 DEF Spoken, Concluded
  <2>3. QED
    BY <2>1, <2>2
<1>10. QED
  BY <1>1, <1>2, <1>3, <1>4, <1>5, <1>6, <1>7, <1>8, <1>9, UnchangedTables DEF IInv

(* What the consumer may write for an outcome. *)
LEMMA EndedRow ==
  ASSUME TypeOK, NEW e \in Executions, NEW outcome \in Terminal, Ended(e, outcome)
  PROVE  /\ row' \in [Executions -> Active \cup Terminal \cup {"none", "deleted"}]
         /\ \A f \in Executions : row'[f] # row[f] =>
               /\ f = e /\ row[f] \notin {"none", "deleted"}
               /\ row'[f] \in {outcome, "cancelled"}
BY DEF TypeOK, Ended, Terminal

(* Tasks that are not closed are no longer the program's nor a reset call's. *)
LEMMA EndSteps ==
  ASSUME IInv, NEW e \in Executions, Finalise(e) \/ Stop(e) \/ Crash(e)
  PROVE  IInv'
<1> TypeOK /\ Writers
  BY DEF IInv
<1> USE DEF writing, tables
<1>1. CASE Finalise(e)
  <2>1. pc[e] = "finalising" /\ pc' = [pc EXCEPT ![e] = "ended"]
    BY <1>1 DEF Finalise, Moves
  <2>2. /\ row' \in [Executions -> Active \cup Terminal \cup {"none", "deleted"}]
        /\ \A f \in Executions : row'[f] # row[f] => f = e /\ row[f] \notin {"none", "deleted"}
    BY <1>1, EndedRow DEF Finalise, Terminal
  <2>3. Closed({})
    BY <1>1 DEF Finalise, Closed, TypeOK
  <2>4. \A w \in Tasks : tx[w] # "none" => ~ (w[2] = Program /\ w[1] = e)
    BY <2>1 DEF Writers, Wants, Asks, Saves
  <2>5. UNCHANGED <<session, call, held, base, since, entries, snapshots, faults>>
    BY <1>1 DEF Finalise
  <2>6. QED
    BY <2>1, <2>2, <2>3, <2>4, <2>5, Ending DEF TypeOK
<1>2. CASE Stop(e) \/ Crash(e)
  <2>1. /\ pc' = [pc EXCEPT ![e] = "ended"]
        /\ call' = [call EXCEPT ![e] = [c \in Calls |-> "idle"]]
        /\ Closed(TasksOf(e))
        /\ faults' \in 0 .. MaxFaults
        /\ UNCHANGED <<session, held, base, since, entries, snapshots>>
    BY <1>2, ConstantsAssumption DEF Stop, Crash, Fault, TypeOK
  <2>2. /\ row' \in [Executions -> Active \cup Terminal \cup {"none", "deleted"}]
        /\ \A f \in Executions : row'[f] # row[f] =>
               f = e /\ row[f] \notin {"none", "deleted"} /\ row'[f] # "completed"
    <3>1. CASE Stop(e)
      BY <3>1, EndedRow DEF Stop, Terminal
    <3>2. CASE Crash(e)
      BY <3>2 DEF Crash, TypeOK
    <3>3. QED
      BY <1>2, <3>1, <3>2
  <2>3. /\ call' \in [Executions -> [Calls -> {"idle", "working", "recorded"}]]
        /\ \A f \in Executions, c \in Calls : call'[f][c] # call[f][c] => f = e /\ call'[f][c] = "idle"
        /\ \A f \in Executions : f # e => call'[f] = call[f]
    BY <2>1 DEF TypeOK
  <2>4. \A w \in Tasks \ TasksOf(e) : w[1] # e /\ w[1] \in Executions
    BY TaskPair DEF TasksOf
  <2>5. TasksOf(e) \in SUBSET Tasks
    BY DEF TasksOf
  <2>6. \A w \in Tasks \ TasksOf(e) : tx[w] # "none" =>
             IF w[2] = Program THEN w[1] # e ELSE call'[w[1]][w[2]] = call[w[1]][w[2]]
    BY <2>3, <2>4
  <2>7. \A f \in Executions : row'[f] # row[f] =>
             /\ f = e /\ row[f] \notin {"none", "deleted"}
             /\ row'[f] = "completed" => pc[f] = "finalising"
    BY <2>2
  <2>8. QED
    <3> HIDE DEF writing, tables
    <3>1. QED
      BY <2>1, <2>2, <2>3, <2>5, <2>6, <2>7, Ending
<1>3. QED
  BY <1>1, <1>2

(* The row alone changes, and not to "completed". *)
LEMMA AbandonStep ==
  ASSUME IInv, NEW e \in Executions, Abandon(e)
  PROVE  IInv'
<1> TypeOK
  BY DEF IInv
<1> USE DEF tables, program, writing
<1>1. /\ UNCHANGED <<session, pc, call, held, base, since, tx, number, entries, snapshots>>
      /\ Ended(e, "failed")
      /\ faults' \in 0 .. MaxFaults
  BY ConstantsAssumption DEF Abandon, Fault, TypeOK
<1>2. /\ row' \in [Executions -> Active \cup Terminal \cup {"none", "deleted"}]
      /\ \A f \in Executions : row'[f] # row[f] =>
            row[f] \notin {"none", "deleted"} /\ row'[f] # "completed"
  BY <1>1, EndedRow DEF Terminal
<1>3. (Tables /\ ForgottenOnlyByOverlap)' /\ LastNumber(snapshots)' = LastNumber(snapshots)
  BY <1>1, UnchangedTables
<1>4. (TypeOK /\ Writers /\ Busy)'
  BY <1>1, <1>2 DEF IInv, TypeOK, Writers, Wants, Table, Busy, Gathered, EntryRow, SnapshotRow
<1>5. (Sourced /\ Spoken /\ Closing /\ AnswerClosesTheRun)'
  BY <1>1, <1>3 DEF IInv, Sourced, Spoken, Closing, Gathered, AnswerClosesTheRun, Kept
<1>6. Gone'
  BY <1>1, <1>2 DEF IInv, Gone
<1>7. CompletedIsRemembered'
  BY <1>1, <1>2 DEF IInv, CompletedIsRemembered, Kept
<1>8. QED
  BY <1>3, <1>4, <1>5, <1>6, <1>7 DEF IInv

(* A write that fails ends the run and commits nothing. *)
LEMMA RaiseSteps ==
  ASSUME IInv, NEW w \in Tasks, SessionMissing(w) \/ Fail(w)
  PROVE  IInv'
<1> TypeOK /\ Writers /\ Busy
  BY DEF IInv
<1> DEFINE e == w[1]
<1> USE DEF tables
<1>1. e \in Executions /\ w[2] \in Calls \cup {Program} /\ w = <<e, w[2]>>
  BY TaskPair
<1>2. Raise(w)
  BY DEF SessionMissing, Fail
<1>3. /\ pc' = [pc EXCEPT ![e] = "ended"]
      /\ UNCHANGED <<session, held, base, since, entries, snapshots>>
      /\ Closed({w})
  BY <1>2 DEF Raise
<1>4. faults' \in 0 .. MaxFaults
  BY ConstantsAssumption DEF SessionMissing, Fail, Fault, TypeOK
<1>5. /\ row' \in [Executions -> Active \cup Terminal \cup {"none", "deleted"}]
      /\ \A f \in Executions : row'[f] # row[f] =>
             f = e /\ row[f] \notin {"none", "deleted"} /\ row'[f] # "completed"
  <2>1. CASE Alive(e)
    BY <1>1, <1>2, <2>1, EndedRow DEF Raise, Terminal
  <2>2. CASE ~ Alive(e)
    BY <1>2, <2>2 DEF Raise, TypeOK
  <2>3. QED
    BY <2>1, <2>2
<1>6. /\ call' \in [Executions -> [Calls -> {"idle", "working", "recorded"}]]
      /\ \A f \in Executions, c \in Calls : call'[f][c] # call[f][c] =>
            f = e /\ c = w[2] /\ call'[f][c] = "idle"
  <2>1. CASE w[2] = Program
    BY <1>2, <2>1 DEF Raise, TypeOK
  <2>2. CASE w[2] # Program
    BY <1>1, <1>2, <2>2 DEF Raise, TypeOK
  <2>3. QED
    BY <2>1, <2>2
<1>7. ASSUME NEW v \in Tasks \ {w}, tx[v] # "none"
      PROVE  IF v[2] = Program THEN v[1] # e ELSE call'[v[1]][v[2]] = call[v[1]][v[2]]
  <2>1. v[1] \in Executions /\ v[2] \in Calls \cup {Program} /\ v = <<v[1], v[2]>>
    BY TaskPair
  <2>2. Wants(v)
    BY <1>7 DEF Writers
  <2>3. CASE v[2] = Program /\ v[1] = e
    <3>1. w[2] # Program
      BY <1>1, <1>7, <2>1, <2>3
    <3>2. call[e][w[2]] = "working"
      BY <3>1 DEF SessionMissing, Fail, Wants
    <3>3. pc[e] \in {"acting", "ended"}
      BY <1>1, <3>1, <3>2 DEF Busy, Gathered
    <3>4. QED
      BY <2>2, <2>3, <3>3 DEF Wants, Asks, Saves
  <2>4. CASE v[2] # Program
    BY <1>1, <1>6, <1>7, <2>1, <2>4
  <2>5. QED
    BY <2>3, <2>4
<1>8. {w} \in SUBSET Tasks
  OBVIOUS
<1>9. /\ \A f \in Executions : row'[f] # row[f] =>
            /\ f = e /\ row[f] \notin {"none", "deleted"}
            /\ row'[f] = "completed" => pc[f] = "finalising"
      /\ \A f \in Executions, c \in Calls : call'[f][c] # call[f][c] => f = e /\ call'[f][c] = "idle"
  BY <1>5, <1>6
<1> HIDE DEF e, tables
<1>10. QED
  BY <1>1, <1>3, <1>4, <1>5, <1>6, <1>7, <1>8, <1>9, Ending

-----------------------------------------------------------------------------
(* The three writes. *)

(* What a task whose insert is accepted knows: it is the only writer and   *)
(* holds the next number of its table.                                     *)
LEMMA Insert ==
  ASSUME IInv, NEW w \in Tasks, tx[w] = "open"
  PROVE  /\ Wants(w) /\ session # "deleted"
         /\ \A v \in Tasks \ {w} : tx[v] = "none"
         /\ number[w] = LastNumber(Table(w)) + 1
         /\ number[w] \in Nat \ {0}
         /\ \A r \in entries : r.sequence <= LastNumber(entries)
         /\ \A r \in snapshots : r.sequence <= LastNumber(snapshots)
         /\ LastNumber(entries) \in Nat /\ LastNumber(snapshots) \in Nat
<1>1. /\ LastNumber(entries) \in Nat /\ \A r \in entries : r.sequence \in 1 .. LastNumber(entries)
      /\ LastNumber(snapshots) \in Nat /\ \A r \in snapshots : r.sequence \in 1 .. LastNumber(snapshots)
  BY LastNumberIsSize DEF IInv, Tables
<1>2. Writers
  BY DEF IInv
<1>3. Wants(w) /\ session # "deleted" /\ \A v \in Tasks \ {w} : tx[v] = "none"
  BY <1>2, OnlyWriter
<1>4. number[w] = LastNumber(Table(w)) + 1
  BY <1>2 DEF Writers
<1>5. QED
  BY <1>1, <1>3, <1>4 DEF Table

(* After a commit nobody has a transaction open. *)
LEMMA CommitKeepsWriters ==
  ASSUME IInv, NEW w \in Tasks, tx[w] = "open", Closed({w}), session' = session
  PROVE  Writers' /\ tx' \in [Tasks -> {"none", "open"}] /\ number' \in [Tasks -> Nat]
<1>1. \A v \in Tasks : tx'[v] = "none"
  BY Insert DEF Closed
<1>2. QED
  BY <1>1 DEF Writers, Closed, IInv, TypeOK

(* Recording an observation keeps the invariant. *)
LEMMA ObservationStep ==
  ASSUME IInv, NEW e \in Executions, NEW c \in Calls, RecordObservation(e, c)
  PROVE  IInv'
<1> TypeOK /\ Tables /\ Writers /\ Busy /\ Gone /\ Sourced /\ Spoken /\ Closing
    /\ ForgottenOnlyByOverlap /\ AnswerClosesTheRun /\ CompletedIsRemembered
  BY DEF IInv
<1> DEFINE w == <<e, c>>
           new == Entry(w, "observation")
<1>1. w \in Tasks /\ c # Program
  BY ConstantsAssumption DEF Tasks
<1>2. /\ tx[w] = "open" /\ Closed({w})
      /\ entries' = entries \cup {new}
      /\ call' = [call EXCEPT ![e][c] = "recorded"]
      /\ UNCHANGED <<session, row, pc, held, base, since, snapshots, faults>>
  BY DEF RecordObservation
<1>3. /\ call[e][c] = "working" /\ session # "deleted"
      /\ number[w] = LastNumber(entries) + 1 /\ number[w] \in Nat \ {0}
      /\ \A r \in entries : r.sequence <= LastNumber(entries)
      /\ LastNumber(entries) \in Nat
  BY <1>1, <1>2, Insert DEF Wants, Table
<1>4. new.by = e /\ new.kind = "observation" /\ new.sequence = number[w] /\ new \in EntryRow
  BY <1>3 DEF Entry, EntryRow
<1>5. ~ Gathered(e) /\ \A f \in Executions : Gathered(f) => Gathered(f)'
  BY <1>2, <1>3 DEF Gathered, TypeOK
<1> HIDE DEF new, w
<1>6. TypeOK'
  BY <1>1, <1>2, <1>4, CommitKeepsWriters DEF TypeOK, SnapshotRow
<1>7. Tables'
  BY <1>2, <1>3, <1>4, NextRow DEF Tables
<1>8. Busy'
  BY <1>2, <1>5 DEF Busy
<1>9. (Gone /\ Sourced /\ ForgottenOnlyByOverlap)'
  BY <1>2, <1>3 DEF Gone, Sourced, ForgottenOnlyByOverlap
<1>10. Spoken' /\ CompletedIsRemembered'
  BY <1>2 DEF Spoken, CompletedIsRemembered, Kept
<1>11. Closing'
  BY <1>2, <1>4, <1>5 DEF Closing, TypeOK, EntryRow
<1>12. AnswerClosesTheRun'
  <2> SUFFICES ASSUME NEW a \in entries', a.kind = "answer"
               PROVE  /\ \E q \in entries' : q.by = a.by /\ q.kind = "question" /\ q.sequence < a.sequence
                      /\ \A r \in entries' : r.by = a.by => r.sequence <= a.sequence
                      /\ \A d \in Calls : call'[a.by][d] # "working"
    BY DEF AnswerClosesTheRun
  <2>1. a \in entries
    BY <1>2, <1>4
  <2>2. a.by # e
    BY <1>5, <2>1 DEF Closing
  <2>3. Gathered(a.by)'
    BY <1>11 DEF Closing
  <2>4. QED
    BY <1>2, <1>4, <2>1, <2>2, <2>3 DEF AnswerClosesTheRun, Gathered
<1>13. QED
  BY <1>1, <1>2, <1>6, <1>7, <1>8, <1>9, <1>10, <1>11, <1>12, CommitKeepsWriters DEF IInv

(* Recording the question or the answer keeps the invariant. *)
LEMMA SayStep ==
  ASSUME IInv, NEW e \in Executions,
         NEW kind, NEW next,
         \/ kind = "question" /\ next = "thinking"
         \/ kind = "answer" /\ next = "concluding",
         Say(e, kind, next)
  PROVE  IInv'
<1> TypeOK /\ Tables /\ Writers /\ Busy /\ Gone /\ Sourced /\ Spoken /\ Closing
    /\ ForgottenOnlyByOverlap /\ AnswerClosesTheRun /\ CompletedIsRemembered
  BY DEF IInv
<1> DEFINE w == <<e, Program>>
           new == Entry(w, kind)
<1>1. w \in Tasks
  BY DEF Tasks
<1>2. /\ tx[w] = "open" /\ Closed({w}) /\ pc[e] = kind
      /\ entries' = entries \cup {new}
      /\ pc' = [pc EXCEPT ![e] = next]
      /\ UNCHANGED <<session, row, call, held, base, since, snapshots, faults>>
  BY DEF Say
<1>3. /\ session # "deleted"
      /\ number[w] = LastNumber(entries) + 1 /\ number[w] \in Nat \ {0}
      /\ \A r \in entries : r.sequence <= LastNumber(entries)
      /\ LastNumber(entries) \in Nat
  BY <1>1, <1>2, Insert DEF Table, Saves
<1>4. new.by = e /\ new.kind = kind /\ new.sequence = number[w] /\ new \in EntryRow
  BY <1>3 DEF Entry, EntryRow, Asks
<1>5. Gathered(e) /\ \A f \in Executions : Gathered(f)' <=> Gathered(f)
  BY <1>2 DEF Gathered, Busy
<1>6. pc'[e] = next /\ \A f \in Executions : f # e => pc'[f] = pc[f]
  BY <1>2 DEF TypeOK
<1> HIDE DEF new, w
<1>7. TypeOK'
  <2>1. pc' \in [Executions -> Places]
    BY <1>2 DEF TypeOK, Places
  <2>2. QED
    BY <1>1, <1>2, <1>4, <2>1, CommitKeepsWriters DEF TypeOK, SnapshotRow
<1>8. Tables'
  BY <1>2, <1>3, <1>4, NextRow DEF Tables
<1>9. Busy'
  BY <1>5, <1>6 DEF Busy
<1>10. (Gone /\ Sourced /\ ForgottenOnlyByOverlap)'
  BY <1>2, <1>3, <1>6 DEF Gone, Sourced, ForgottenOnlyByOverlap, Saves
<1>11. Spoken'
  <2> SUFFICES ASSUME NEW f \in Executions
               PROVE  /\ pc'[f] \in Engaged \cup {"question"} => f \in held[f]
                      /\ pc'[f] \in Engaged => \E q \in entries' : q.by = f /\ q.kind = "question"
                      /\ pc'[f] \in Concluded => \E a \in entries' : a.by = f /\ a.kind = "answer"
                      /\ pc'[f] = "finalising" => \E s \in Kept(f, "conclusion")' : f \in s.tells
    BY <1>2 DEF Spoken, Engaged, Concluded
  <2>1. Kept(f, "conclusion")' = Kept(f, "conclusion")
    BY <1>2 DEF Kept
  <2>2. CASE f = e
    BY <1>2, <1>3, <1>4, <1>6, <2>2 DEF Spoken, Engaged, Concluded
  <2>3. CASE f # e
    BY <1>2, <1>3, <1>6, <2>1, <2>3 DEF Spoken
  <2>4. QED
    BY <2>2, <2>3
<1>12. ASSUME NEW a \in entries, a.kind = "answer" PROVE a.by # e /\ a.by \in Executions
  BY <1>2, <1>12 DEF Closing, Concluded, TypeOK, EntryRow
<1>13. Closing'
  BY <1>2, <1>4, <1>5, <1>6, <1>12 DEF Closing, Concluded
<1>14. AnswerClosesTheRun'
  <2> SUFFICES ASSUME NEW a \in entries', a.kind = "answer"
               PROVE  /\ \E q \in entries' : q.by = a.by /\ q.kind = "question" /\ q.sequence < a.sequence
                      /\ \A r \in entries' : r.by = a.by => r.sequence <= a.sequence
                      /\ \A d \in Calls : call'[a.by][d] # "working"
    BY DEF AnswerClosesTheRun
  <2>1. Gathered(a.by)'
    BY <1>13 DEF Closing
  <2>2. CASE a \in entries
    BY <1>2, <1>4, <1>12, <2>1, <2>2 DEF AnswerClosesTheRun, Gathered
  <2>3. CASE a = new
    <3>1. PICK q \in entries : q.by = e /\ q.kind = "question"
      BY <1>2, <1>3, <1>4, <2>3 DEF Spoken, Engaged
    <3>2. \A r \in entries : r.sequence < new.sequence /\ r.sequence \in Nat
      BY <1>3, <1>4 DEF TypeOK, EntryRow
    <3>3. new.sequence \in Nat
      BY <1>3, <1>4
    <3>4. QED
      BY <1>2, <1>4, <2>1, <2>3, <3>1, <3>2, <3>3 DEF Gathered
  <2>4. QED
    BY <1>2, <2>2, <2>3
<1>15. CompletedIsRemembered'
  BY <1>2 DEF CompletedIsRemembered, Kept
<1>16. QED
  BY <1>1, <1>2, <1>7, <1>8, <1>9, <1>10, <1>11, <1>13, <1>14, <1>15, CommitKeepsWriters DEF IInv

(* Committing a snapshot keeps the invariant. *)
LEMMA SnapshotStep ==
  ASSUME IInv, NEW e \in Executions,
         NEW reason, NEW next,
         \/ reason = "compaction" /\ next = "reasoning"
         \/ reason = "conclusion" /\ next = "finalising",
         SaveSnapshot(e, reason, next)
  PROVE  IInv'
<1> TypeOK /\ Tables /\ Writers /\ Busy /\ Gone /\ Sourced /\ Spoken /\ Closing
    /\ ForgottenOnlyByOverlap /\ AnswerClosesTheRun /\ CompletedIsRemembered
  BY DEF IInv
<1> DEFINE w == <<e, Program>>
           new == [by |-> e, reason |-> reason, sequence |-> number[w], tells |-> Told(e), since |-> since[e]]
<1>1. w \in Tasks
  BY DEF Tasks
<1>2. /\ tx[w] = "open" /\ Closed({w}) /\ pc[e] = reason
      /\ snapshots' = snapshots \cup {new}
      /\ held' = [held EXCEPT ![e] = IF reason = "compaction" THEN Told(e) ELSE held[e]]
      /\ pc' = [pc EXCEPT ![e] = next]
      /\ base' = [base EXCEPT ![e] = {}]
      /\ since' = [since EXCEPT ![e] = 0]
      /\ UNCHANGED <<session, row, call, entries, faults>>
  BY DEF SaveSnapshot, Summarised
<1>3. /\ session # "deleted"
      /\ number[w] = LastNumber(snapshots) + 1 /\ number[w] \in Nat \ {0}
      /\ \A r \in snapshots : r.sequence <= LastNumber(snapshots)
      /\ LastNumber(snapshots) \in Nat
  BY <1>1, <1>2, Insert DEF Table, Saves
<1>4. Told(e) = base[e] \cup held[e] /\ Told(e) \in SUBSET Executions
  BY DEF Told, TypeOK
<1>5. /\ new.by = e /\ new.reason = reason /\ new.sequence = number[w]
      /\ new.tells = Told(e) /\ new.since = since[e] /\ new \in SnapshotRow
  BY <1>3, <1>4 DEF SnapshotRow, Saves, TypeOK
<1>6. /\ pc'[e] = next /\ \A f \in Executions : f # e => pc'[f] = pc[f]
      /\ held[e] \subseteq held'[e] /\ \A f \in Executions : f # e => held'[f] = held[f]
      /\ \A f \in Executions : f # e => base'[f] = base[f] /\ since'[f] = since[f]
  BY <1>2, <1>4 DEF TypeOK
<1>7. e \in held[e] /\ e \in Told(e)
  BY <1>2, <1>4 DEF Spoken, Engaged, Concluded
<1>8. LastNumber(snapshots') = number[w]
  BY <1>2, <1>3, <1>5, NextRow DEF Tables
<1> HIDE DEF new, w
<1>9. TypeOK'
  <2>1. pc' \in [Executions -> Places]
    BY <1>2 DEF TypeOK, Places
  <2>2. held' \in [Executions -> SUBSET Executions]
    BY <1>2, <1>4 DEF TypeOK
  <2>3. base' \in [Executions -> SUBSET Executions] /\ since' \in [Executions -> Nat]
    BY <1>2 DEF TypeOK
  <2>4. QED
    BY <1>1, <1>2, <1>5, <2>1, <2>2, <2>3, CommitKeepsWriters DEF TypeOK, EntryRow
<1>10. Tables'
  BY <1>2, <1>3, <1>5, NextRow DEF Tables
<1>11. (Busy /\ Gone)'
  BY <1>2, <1>3, <1>6 DEF Busy, Gathered, Gone
<1>12. Sourced'
  <2> SUFFICES ASSUME NEW f \in Executions, pc'[f] \in Saves
               PROVE  /\ since'[f] <= LastNumber(snapshots')
                      /\ \/ since'[f] = 0
                         \/ \E s \in snapshots' : s.sequence = since'[f] /\ s.tells \subseteq base'[f]
    BY <1>2 DEF Sourced
  <2>1. f # e
    BY <1>6 DEF Saves
  <2>2. /\ since[f] <= LastNumber(snapshots)
        /\ since[f] = 0 \/ \E s \in snapshots : s.sequence = since[f] /\ s.tells \subseteq base[f]
    BY <1>3, <1>6, <2>1 DEF Sourced
  <2>3. since[f] \in Nat
    BY DEF TypeOK
  <2>4. QED
    BY <1>2, <1>3, <1>6, <1>8, <2>1, <2>2, <2>3
<1>13. Spoken'
  <2> SUFFICES ASSUME NEW f \in Executions
               PROVE  /\ pc'[f] \in Engaged \cup {"question"} => f \in held'[f]
                      /\ pc'[f] \in Engaged => \E q \in entries : q.by = f /\ q.kind = "question"
                      /\ pc'[f] \in Concluded => \E a \in entries : a.by = f /\ a.kind = "answer"
                      /\ pc'[f] = "finalising" => \E s \in Kept(f, "conclusion")' : f \in s.tells
    BY <1>2 DEF Spoken, Engaged, Concluded
  <2>1. \A s \in Kept(f, "conclusion") : s \in Kept(f, "conclusion")'
    BY <1>2 DEF Kept
  <2>2. CASE f = e
    <3>1. next = "finalising" => \E s \in Kept(e, "conclusion")' : e \in s.tells
      BY <1>2, <1>5, <1>7 DEF Kept
    <3>2. QED
      BY <1>2, <1>3, <1>6, <1>7, <2>2, <3>1 DEF Spoken, Engaged, Concluded
  <2>3. CASE f # e
    BY <1>3, <1>6, <2>1, <2>3 DEF Spoken
  <2>4. QED
    BY <2>2, <2>3
<1>14. Closing'
  BY <1>2, <1>6 DEF Closing, Concluded, Gathered, TypeOK, EntryRow
<1>15. AnswerClosesTheRun'
  BY <1>2 DEF AnswerClosesTheRun
<1>16. CompletedIsRemembered'
  <2>1. \A f \in Executions : \A s \in Kept(f, "conclusion") : s \in Kept(f, "conclusion")'
    BY <1>2 DEF Kept
  <2>2. QED
    BY <1>2, <2>1 DEF CompletedIsRemembered
<1>17. ForgottenOnlyByOverlap'
  <2> SUFFICES ASSUME NEW old \in snapshots', NEW nw \in snapshots',
                      old.sequence < nw.sequence, ~ old.tells \subseteq nw.tells
               PROVE  \E s \in snapshots' :
                         s.since < old.sequence /\ old.sequence < s.sequence /\ s.sequence <= nw.sequence
    BY DEF ForgottenOnlyByOverlap
  <2>1. \A r \in snapshots' : r.sequence \in Nat /\ r.since \in Nat /\ r.sequence <= new.sequence
    BY <1>2, <1>3, <1>5 DEF TypeOK, SnapshotRow
  <2>2. old \in snapshots
    BY <1>2, <2>1
  <2>3. CASE nw \in snapshots
    BY <1>2, <2>2, <2>3 DEF ForgottenOnlyByOverlap
  <2>4. CASE nw = new
    <3>1. CASE since[e] < old.sequence
      BY <1>2, <1>5, <2>1, <2>4, <3>1
    <3>2. CASE ~ since[e] < old.sequence
      <4>1. old.sequence <= since[e] /\ since[e] \in Nat /\ since[e] # 0
        BY <2>1, <2>2, <3>2 DEF TypeOK, SnapshotRow
      <4>2. PICK s \in snapshots : s.sequence = since[e] /\ s.tells \subseteq base[e]
        BY <1>2, <1>3, <4>1 DEF Sourced, Saves
      <4>3. ~ old.tells \subseteq s.tells
        BY <1>4, <1>5, <2>4, <4>2
      <4>4. old.sequence # s.sequence
        BY <2>2, <4>3 DEF Tables, Consecutive
      <4>5. old.sequence < s.sequence
        BY <1>2, <2>1, <4>1, <4>2, <4>4
      <4>6. PICK k \in snapshots :
               k.since < old.sequence /\ old.sequence < k.sequence /\ k.sequence <= s.sequence
        BY <2>2, <4>3, <4>5 DEF ForgottenOnlyByOverlap
      <4>7. k.sequence <= nw.sequence
        BY <1>2, <2>1, <2>4, <4>6
      <4>8. QED
        BY <1>2, <4>6, <4>7
    <3>3. QED
      BY <3>1, <3>2
  <2>5. QED
    BY <1>2, <2>3, <2>4
<1>18. QED
  BY <1>1, <1>2, <1>9, <1>10, <1>11, <1>12, <1>13, <1>14, <1>15, <1>16, <1>17, CommitKeepsWriters DEF IInv

(* Taking an execution up, or finding it cancelled before it began. *)
LEMMA BeginStep ==
  ASSUME IInv, NEW e \in Executions, Begin(e)
  PROVE  IInv'
<1> TypeOK /\ Tables /\ Writers /\ Busy /\ Gone /\ Sourced /\ Spoken /\ Closing
    /\ ForgottenOnlyByOverlap /\ AnswerClosesTheRun /\ CompletedIsRemembered
  BY DEF IInv
<1> USE DEF writing, tables
<1>1. /\ pc[e] = "queued" /\ pc' = [pc EXCEPT ![e] = pc'[e]] /\ pc'[e] \in {"loading", "ended"}
      /\ UNCHANGED <<session, call, held, base, since, tx, number, entries, snapshots, faults>>
      /\ row[e] \in {"pending", "cancel_requested"}
      /\ row' = [row EXCEPT ![e] = row'[e]] /\ row'[e] \in {"running", "cancelled"}
  BY DEF Begin, TypeOK
<1>2. /\ \A f \in Executions : f # e => pc'[f] = pc[f] /\ row'[f] = row[f]
  BY <1>1 DEF TypeOK
<1>3. TypeOK'
  <2>1. pc' \in [Executions -> Places]
    BY <1>1 DEF TypeOK, Places
  <2>2. row' \in [Executions -> Active \cup Terminal \cup {"none", "deleted"}]
    BY <1>1 DEF TypeOK, Active, Terminal
  <2>3. QED
    BY <1>1, <2>1, <2>2 DEF TypeOK, EntryRow, SnapshotRow
<1>4. Writers'
  BY <1>1, <1>2, MoveKeepsWriters DEF Asks, Saves
<1>5. Busy' /\ Gone'
  BY <1>1, <1>2 DEF Busy, Gathered, Gone
<1>6. Sourced' /\ Spoken'
  BY <1>1, <1>2, UnchangedTables, SpokenKept DEF Sourced, Saves, Engaged, Concluded
<1>7. Closing'
  BY <1>1, <1>2 DEF Closing, Concluded, Gathered, TypeOK, EntryRow
<1>8. AnswerClosesTheRun' /\ CompletedIsRemembered'
  BY <1>1, <1>2 DEF AnswerClosesTheRun, CompletedIsRemembered, Kept
<1>9. QED
  BY <1>1, <1>3, <1>4, <1>5, <1>6, <1>7, <1>8, UnchangedTables DEF IInv

(* Every step preserves the inductive invariant. *)
LEMMA StepIInv == IInv /\ [Next]_vars => IInv'
<1> SUFFICES ASSUME IInv, [Next]_vars PROVE IInv'
  OBVIOUS
<1>1. ASSUME NEW e \in Executions, AgentStep(e) PROVE IInv'
  BY <1>1, ProgramStep, SayStep, SnapshotStep DEF AgentStep, AfterAnswer
<1>2. ASSUME NEW e \in Executions, RunnerStep(e) \/ Abandon(e) \/ Crash(e) PROVE IInv'
  BY <1>1, <1>2, BeginStep, EndSteps, AbandonStep DEF RunnerStep
<1>3. ASSUME NEW w \in Tasks, TaskStep(w) \/ Fail(w) PROVE IInv'
  <2>1. CASE Lock(w)
    BY <2>1, LockStep
  <2>2. CASE SessionMissing(w) \/ Fail(w)
    BY <2>2, RaiseSteps
  <2>3. ASSUME NEW c \in Calls, RecordObservation(w[1], c) PROVE IInv'
    BY <2>3, TaskPair, ObservationStep
  <2>4. QED
    BY <1>3, <2>1, <2>2, <2>3 DEF TaskStep
<1>4. ASSUME CheckDelete \/ Delete \/ \E e \in Executions : ApiStep(e) PROVE IInv'
  BY <1>4, ApiSteps
<1>5. CASE UNCHANGED vars
  <2>1. (Tables /\ ForgottenOnlyByOverlap)' /\ LastNumber(snapshots)' = LastNumber(snapshots)
    BY <1>5, UnchangedTables DEF vars, tables
  <2>2. (TypeOK /\ Writers /\ Busy /\ Gone /\ Sourced /\ Spoken /\ Closing
          /\ AnswerClosesTheRun /\ CompletedIsRemembered)'
    BY <1>5, <2>1
    DEF vars, tables, program, writing, IInv, TypeOK, Writers, Wants, Table, Busy, Gathered, Gone,
        Sourced, Spoken, Closing, AnswerClosesTheRun, CompletedIsRemembered, Kept
  <2>3. QED
    BY <2>1, <2>2 DEF IInv
<1>6. QED
  BY <1>2, <1>3, <1>4, <1>5 DEF Next

(* The invariant holds in every reachable state. *)
LEMMA Invariance == Spec => []IInv
BY InitIInv, StepIInv, PTL DEF Spec

(* Every reachable state is well typed. *)
THEOREM TypeCorrect == Spec => []TypeOK
<1>1. IInv => TypeOK
  BY DEF IInv
<1>2. QED
  BY <1>1, Invariance, PTL

(* For any number of executions and parallel calls, the row lock of the    *)
(* session is enough: both tables are numbered without gap or repetition   *)
(* and the unique constraint never refuses an insert (_lock_session).      *)
THEOREM LockMakesNumbersUnique == Spec => []Numbering
<1>1. IInv => Numbering
  <2> SUFFICES ASSUME IInv, NEW w \in Tasks, tx[w] = "open" PROVE Free(w)
    BY DEF IInv, Tables, Numbering
  <2>1. number[w] = LastNumber(Table(w)) + 1 /\ number[w] \in Nat
    BY Insert
  <2>2. LastNumber(Table(w)) \in Nat /\ \A r \in Table(w) : r.sequence \in 1 .. LastNumber(Table(w))
    BY LastNumberIsSize DEF Table, IInv, Tables
  <2>3. QED
    BY <2>1, <2>2 DEF Free
<1>2. QED
  BY <1>1, Invariance, PTL

(* However many executions share a session, a snapshot loses what an       *)
(* earlier one told of only to an overlap (create_snapshot).               *)
THEOREM OnlyOverlapForgets == Spec => []ForgottenOnlyByOverlap
<1>1. IInv => ForgottenOnlyByOverlap
  BY DEF IInv
<1>2. QED
  BY <1>1, Invariance, PTL

(* An answer is stored after the question and every observation of its     *)
(* execution, and nothing of it follows (finalize_execution).              *)
THEOREM AnswerIsLast == Spec => []AnswerClosesTheRun
<1>1. IInv => AnswerClosesTheRun
  BY DEF IInv
<1>2. QED
  BY <1>1, Invariance, PTL

(* No execution is committed as completed before its answer and its        *)
(* closing snapshot are stored (LangGraphAgentProgram.execute).            *)
THEOREM CompletionIsRemembered == Spec => []CompletedIsRemembered
<1>1. IInv => CompletedIsRemembered
  BY DEF IInv
<1>2. QED
  BY <1>1, Invariance, PTL

=============================================================================
