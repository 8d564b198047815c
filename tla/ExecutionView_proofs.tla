------------------------- MODULE ExecutionView_proofs -------------------------
(***************************************************************************)
(* Proofs about what is shown of an execution, for any number of calls and *)
(* iterations and wherever an emission raises: an end stands in the        *)
(* projection (EndStands), calls and skills are shown while they are at    *)
(* work (AtWorkShown), and a page takes nothing of an answer back          *)
(* (ResponseLatch).  The first holds by who may say what: Spoken; the      *)
(* others by the order in which each thread says it: Story.                *)
(***************************************************************************)
EXTENDS ExecutionView, SequenceTheorems, TLAPS

(* What the program and the calls publish: neither the beginning nor an    *)
(* end, not even as a phase.                                               *)
Working ==
    {e \in [type : Types \ (Ends \cup {"started"}), of : Phases \cup Calls \cup {None}] :
        /\ e.type = "execution.phase.changed" => e.of \in Phases \ Ends
        /\ e.type \in ToolEvents => e.of \in Calls \cup {None}}

(* Only the handler says more, the end only when it is the row's.          *)
Spoken ==
    /\ DOMAIN script = Threads
    /\ \A t \in Threads \ {"handler"} : script[t] \in Seq(Working)
    /\ \/ script["handler"] = <<>>
       \/ script["handler"] = <<Event("started")>> /\ place = "ready"
       \/ /\ row.status \in Ends
          /\ \E answer \in BOOLEAN : script["handler"] = <<End(row.status, answer)>>

(* Before the program begins nothing is under way that could end its run.  *)
Begun ==
    /\ DOMAIN calls = Calls
    /\ row.status = "pending" => place = "queued"
    /\ place \in {"queued", "ready"} =>
          /\ outcome = "none" /\ row.status \notin Ends
          /\ \A c \in Calls : calls[c] = "idle"
          /\ \A t \in Threads \ {"handler"} : script[t] = <<>>
          /\ saving["runtime"] = None
    /\ place = "queued" => script["handler"] = <<>> /\ saving["lifecycle"] = None

(* Each sink saves what its own thread has published. *)
Saved ==
    /\ DOMAIN saving = Sinks
    /\ saving["lifecycle"] # None =>
          saving["lifecycle"].by = "handler" /\ saving["lifecycle"].type # "skill.requested"
    /\ saving["runtime"] # None => saving["runtime"].by \in Threads \ {"handler"}

RowKnown     == row \in [status : Status, answer : BOOLEAN]
OutcomeKnown == outcome \in Ends \cup {"none"}

IInv == RowKnown /\ OutcomeKnown /\ Spoken /\ Begun /\ Saved /\ EndStands

-----------------------------------------------------------------------------
(* Events of the program are Working ones. *)
LEMMA ProgramWords ==
  /\ \A type \in Types \ (Ends \cup {"started", "execution.phase.changed"}) : Event(type) \in Working
  /\ \A p \in Phases \ Ends : Phase(p) \in Working
  /\ \A type \in ToolEvents, c \in Calls \cup {None} : Tool(type, c) \in Working
<1>1. ToolEvents \subseteq Types \ (Ends \cup {"started", "execution.phase.changed"})
  BY DEF ToolEvents, Types, Ends
<1>2. "execution.phase.changed" \in Types \ (Ends \cup {"started"})
  BY DEF Types, Ends
<1>3. QED
  BY <1>1, <1>2 DEF Working, Event, Phase, Tool

(* What an iteration says is of the program. *)
LEMMA ReasoningWords ==
  \A n : Reasoning(n) \in Seq(Working)
<1> DEFINE E(type) == Event(type)
<1>1. /\ \A type \in {"agent.iteration.started", "context.budget.exceeded",
                      "context.snapshot.created", "skill.context.loaded", "llm.started"} :
            Event(type) \in Working
      /\ Phase("reasoning") \in Working /\ Phase("skill") \in Working
  <2>1. {"agent.iteration.started", "context.budget.exceeded", "context.snapshot.created",
         "skill.context.loaded", "llm.started"}
          \subseteq Types \ (Ends \cup {"started", "execution.phase.changed"})
    BY DEF Types, Ends
  <2>2. {"reasoning", "skill"} \subseteq Phases \ Ends
    BY DEF Phases, Ends
  <2>3. QED
    BY <2>1, <2>2, ProgramWords
<1>2. QED
  BY <1>1 DEF Reasoning, If

(* So is what an answer says. *)
LEMMA AnsweringWords ==
  /\ Answering \in Seq(Working)
  /\ <<Event("agent.max_iterations_reached")>> \o Answering \in Seq(Working)
<1>1. {"agent.max_iterations_reached", "answer.started", "assistant.delta"}
          \subseteq Types \ (Ends \cup {"started", "execution.phase.changed"})
  BY DEF Types, Ends
<1>2. {"response_preparing", "response_streaming"} \subseteq Phases \ Ends
  BY DEF Phases, Ends
<1>3. QED
  BY <1>1, <1>2, ProgramWords DEF Answering

(* So is what the other steps of the program say. *)
LEMMA OtherWords ==
  /\ Released \in Seq(Working)
  /\ Released \o <<Event("llm.completed"), Event("agent.decision")>> \in Seq(Working)
  /\ <<Phase("context"), Event("context.loaded")>> \in Seq(Working)
  /\ <<Event("skill.requested")>> \in Seq(Working)
  /\ <<Tool("tool.failed", None)>> \in Seq(Working)
  /\ <<Event("answer.generated"), Event("answer.completed"), Phase("finalizing"),
       Phase("finalizing"), Event("context.snapshot.created")>> \in Seq(Working)
<1>1. {"skill.context.released", "llm.completed", "agent.decision", "context.loaded",
       "skill.requested", "answer.generated", "answer.completed", "context.snapshot.created"}
          \subseteq Types \ (Ends \cup {"started", "execution.phase.changed"})
  BY DEF Types, Ends
<1>2. {"context", "finalizing"} \subseteq Phases \ Ends
  BY DEF Phases, Ends
<1>3. "tool.failed" \in ToolEvents
  BY DEF ToolEvents
<1>4. QED
  BY <1>1, <1>2, <1>3, ProgramWords DEF Released, If

(* So is what a call says. *)
LEMMA CallWords ==
  ASSUME NEW c \in Calls
  PROVE  /\ <<Phase("tool"), Tool("tool.started", c)>> \in Seq(Working)
         /\ <<Tool("tool.failed", c)>> \in Seq(Working)
         /\ If(c \in Searches, <<Event("context.retrieved")>>) \o <<Tool("tool.completed", c)>>
              \in Seq(Working)
<1>1. "context.retrieved" \in Types \ (Ends \cup {"started", "execution.phase.changed"})
  BY DEF Types, Ends
<1>2. "tool" \in Phases \ Ends
  BY DEF Phases, Ends
<1>3. ToolEvents = {"tool.started", "tool.completed", "tool.failed"}
  BY DEF ToolEvents
<1>4. QED
  BY <1>1, <1>2, <1>3, ProgramWords DEF If

-----------------------------------------------------------------------------
(* An event of the program leaves an end that is shown alone, and shows    *)
(* none.                                                                   *)
LEMMA WorkShowsNoEnd ==
  ASSUME NEW e \in Working
  PROVE  LET p == Projected(e) IN
         p.status \in Ends =>
           /\ hot # None /\ p.status = hot.status
           /\ hot.phase \in Ends => p.phase = hot.phase
<1>1. e.type \notin Ends /\ e.type # "started"
  BY DEF Working
<1>2. \A s : StatusAfter(s, e) = s
  BY <1>1 DEF StatusAfter
<1>3. PhaseOf(e) \notin Ends
  BY <1>1, NoneAssumption DEF PhaseOf, Working, Ends, Phases, Status
<1>4. \A present \in Ends : NextPhase(present, PhaseOf(e)) = present
  BY <1>3 DEF NextPhase
<1>5. InitialProjection("pending", FALSE).status \notin Ends
  BY DEF InitialProjection, Ends
<1>6. QED
  BY <1>2, <1>4, <1>5 DEF Projected, Reduce

(* The end shows itself, in status and phase. *)
LEMMA EndShows ==
  ASSUME NEW s \in Ends, NEW answer
  PROVE  LET p == Projected(End(s, answer)) IN p.status = s /\ p.phase = s
<1> DEFINE e == End(s, answer)
<1>1. e.type = s
  BY DEF End
<1>2. \A x : StatusAfter(x, e) = s
  BY <1>1 DEF StatusAfter, Ends
<1>3. PhaseOf(e) = s
  BY <1>1 DEF PhaseOf, Ends
<1>4. s # None /\ s # "response_preparing"
  BY NoneAssumption DEF Ends, Phases, Status
<1>5. \A present : NextPhase(present, s) = s
  BY <1>4 DEF NextPhase
<1>6. QED
  BY <1>2, <1>3, <1>5 DEF Projected, Reduce

(* The beginning shows no end. *)
LEMMA BeginningShows ==
  Projected(Event("started")).status \notin Ends
BY DEF Projected, Reduce, StatusAfter, Event, Ends

-----------------------------------------------------------------------------
(* The invariant holds at the beginning. *)
LEMMA InitIInv ==
  Init => IInv
BY DEF Init, IInv, RowKnown, OutcomeKnown, Spoken, Begun, Saved, EndStands, Threads, Sinks, Status, Ends

(* Threads are told apart. *)
LEMMA ThreadsDiffer ==
  /\ "handler" \in Threads /\ "program" \in Threads \ {"handler"}
  /\ \A c \in Calls : c \in Threads \ {"handler"} /\ c # "program"
  /\ Sink("handler") = "lifecycle"
  /\ \A t \in Threads \ {"handler"} : Sink(t) = "runtime"
BY ConstantsAssumption DEF Threads, Sink

(* Publishing the next event, the one step that changes the projection. *)
LEMMA PublishStep ==
  ASSUME IInv, NEW t \in Threads, Publish(t)
  PROVE  IInv'
<1> DEFINE e == Head(script[t])
<1> USE DEF IInv
<1>1. /\ script[t] # <<>>
      /\ script' = [script EXCEPT ![t] = Tail(@)]
      /\ hot' = Projected(e)
      /\ saving' = [saving EXCEPT ![Sink(t)] =
            IF Traceable(e.type) THEN [by |-> t, type |-> e.type, row |-> Told(hot'.seq, e)]
                                 ELSE None]
      /\ UNCHANGED <<row, place, outcome, calls>>
  BY DEF Publish, MayPublish, program
<1>2. RowKnown' /\ OutcomeKnown'
  BY <1>1 DEF RowKnown, OutcomeKnown
<1>3. CASE t = "handler"
  <2>1. script'["handler"] = <<>> /\ \A x \in Threads \ {"handler"} : script'[x] = script[x]
    <3>1. \A x : Tail(<<x>>) = <<>>
      OBVIOUS
    <3>2. Tail(script["handler"]) = <<>>
      BY <1>1, <1>3, <3>1 DEF Spoken
    <3>3. QED
      BY <1>1, <1>3, <3>2, ThreadsDiffer DEF Spoken
  <2>2. Spoken'
    BY <1>1, <2>1 DEF Spoken
  <2>3. e.type # "skill.requested"
    BY <1>1, <1>3 DEF Spoken, Event, End, Ends
  <2>4. Saved' /\ saving'["runtime"] = saving["runtime"]
    BY <1>1, <1>3, <2>3, ThreadsDiffer DEF Saved, Sinks
  <2>5. Begun'
    BY <1>1, <1>3, <2>1, <2>4 DEF Begun
  <2>6. EndStands'
    <3>1. CASE script["handler"] = <<Event("started")>>
      <4>1. e = Event("started")
        BY <1>3, <3>1
      <4>2. QED
        BY <1>1, <4>1, BeginningShows DEF EndStands
    <3>2. CASE row.status \in Ends /\ \E answer \in BOOLEAN : script["handler"] = <<End(row.status, answer)>>
      <4>1. PICK answer \in BOOLEAN : script["handler"] = <<End(row.status, answer)>>
        BY <3>2
      <4>2. e = End(row.status, answer)
        BY <1>3, <4>1
      <4>3. hot'.status = row.status /\ hot'.phase = row.status
        BY <1>1, <3>2, <4>2, EndShows
      <4>4. QED
        BY <1>1, <4>3 DEF EndStands
    <3>3. QED
      BY <1>1, <1>3, <3>1, <3>2 DEF Spoken
  <2>7. QED
    BY <1>2, <2>2, <2>4, <2>5, <2>6
<1>4. CASE t # "handler"
  <2>1. script[t] \in Seq(Working) /\ e \in Working /\ Tail(script[t]) \in Seq(Working)
    BY <1>1, <1>4 DEF Spoken
  <2>2. /\ script'["handler"] = script["handler"] /\ DOMAIN script' = Threads
        /\ script'[t] = Tail(script[t])
        /\ \A x \in Threads \ {t} : script'[x] = script[x]
    BY <1>1, <1>4, ThreadsDiffer DEF Spoken
  <2>3. Spoken'
    BY <1>1, <2>1, <2>2 DEF Spoken
  <2>4. Saved' /\ saving'["lifecycle"] = saving["lifecycle"]
    BY <1>1, <1>4, ThreadsDiffer DEF Saved, Sinks
  <2>5. place \notin {"queued", "ready"}
    BY <1>1, <1>4 DEF Begun
  <2>6. Begun'
    BY <1>1, <2>5 DEF Begun
  <2>7. EndStands'
    BY <1>1, <2>1, WorkShowsNoEnd DEF EndStands
  <2>8. QED
    BY <1>2, <2>3, <2>4, <2>6, <2>7
<1>5. QED
  BY <1>3, <1>4

(* A trace row is committed. *)
LEMMA RecordStep ==
  ASSUME IInv, NEW s \in Sinks, Record(s)
  PROVE  IInv'
BY DEF IInv, Record, RowKnown, OutcomeKnown, Spoken, Begun, Saved, EndStands, Sinks, program

(* Whatever thread raises, what is left to say is said by the same.        *)
LEMMA RaiseStep ==
  ASSUME IInv, NEW t \in Threads, NEW type, Raise(t, type),
         t = "handler" => type # "skill.requested",
         t # "handler" => place \notin {"queued", "ready"},
         UNCHANGED <<row, hot>>,
         \A s \in Sinks : saving'[s] = saving[s] \/ saving'[s] = None,
         DOMAIN saving' = Sinks
  PROVE  IInv'
<1> USE DEF IInv
<1>1. RowKnown' /\ OutcomeKnown' /\ EndStands'
  BY DEF RowKnown, OutcomeKnown, EndStands, Raise, GoesOn, RunFails, Ends
<1>2. Saved'
  BY DEF Saved, Sinks
<1>3. CASE t = "handler"
  <2>1. /\ script' = [script EXCEPT ![t] = <<>>] /\ UNCHANGED <<place, outcome, calls>>
    BY <1>3, ThreadsDiffer DEF Raise, GoesOn
  <2>2. DOMAIN script' = Threads /\ script'["handler"] = <<>>
        /\ \A x \in Threads \ {"handler"} : script'[x] = script[x]
    BY <1>3, <2>1, ThreadsDiffer DEF Spoken
  <2>3. Spoken'
    BY <2>2 DEF Spoken
  <2>4. Begun'
    BY <2>1, <2>2 DEF Begun, Sinks
  <2>5. QED
    BY <1>1, <1>2, <2>3, <2>4
<1>4. CASE t # "handler"
  <2>1. /\ place' = place \/ place' = "over"
        /\ DOMAIN calls' = Calls
    BY <1>4 DEF Raise, GoesOn, RunFails, Begun
  <2>2. Begun'
    BY <1>4, <2>1 DEF Begun
  <2>3. /\ DOMAIN script' = Threads
        /\ script'["handler"] = script["handler"]
        /\ \A x \in Threads \ {"handler"} : script'[x] \in Seq(Working)
    <3>1. <<>> \in Seq(Working) /\ <<Tool("tool.failed", None)>> \in Seq(Working)
      BY OtherWords
    <3>2. \A c \in Calls : <<Tool("tool.failed", c)>> \in Seq(Working)
      BY CallWords
    <3>3. /\ DOMAIN script = Threads
          /\ \A x \in Threads \ {"handler"} : script[x] \in Seq(Working)
      BY DEF Spoken
    <3>4. CASE t \in Calls /\ script' = [script EXCEPT ![t] = <<Tool("tool.failed", t)>>]
      BY <1>4, <3>2, <3>3, <3>4, ThreadsDiffer
    <3>5. CASE script' = [script EXCEPT ![t] = <<Tool("tool.failed", None)>>]
      BY <1>4, <3>1, <3>3, <3>5, ThreadsDiffer
    <3>6. CASE t \in Calls /\ type \notin {"tool.completed", "context.retrieved"}
               /\ \E over \in SUBSET Calls :
                     script' = [x \in Threads |-> IF x \in over THEN <<>> ELSE script[x]]
      BY <3>1, <3>3, <3>6, ThreadsDiffer
    <3>7. CASE script' = [x \in Threads |-> IF x = "handler" THEN script[x] ELSE <<>>]
      BY <3>1, <3>3, <3>7, ThreadsDiffer
    <3>8. CASE t \in Calls /\ type \notin {"tool.completed", "context.retrieved"}
      BY <1>4, <3>5, <3>6, <3>8, ThreadsDiffer DEF Raise
    <3>9. QED
      BY <1>4, <3>4, <3>5, <3>7, <3>8 DEF Raise
  <2>4. Spoken'
    BY <1>4, <2>1, <2>3 DEF Spoken, Begun
  <2>5. QED
    BY <1>1, <1>2, <2>2, <2>4
<1>5. QED
  BY <1>3, <1>4

(* An emission is refused. *)
LEMMA EmitRefusedStep ==
  ASSUME IInv, NEW t \in Threads, EmitRefused(t)
  PROVE  IInv'
<1>1. script[t] # <<>> /\ Raise(t, Head(script[t]).type) /\ UNCHANGED <<row, hot, saving>>
  BY DEF EmitRefused, MayPublish
<1>2. t = "handler" => Head(script[t]).type # "skill.requested"
  BY <1>1 DEF IInv, Spoken, Event, End, Ends
<1>3. t # "handler" => place \notin {"queued", "ready"}
  BY <1>1 DEF IInv, Begun
<1>4. QED
  BY <1>1, <1>2, <1>3, RaiseStep DEF IInv, Saved

(* A trace row cannot be committed. *)
LEMMA RecordFailsStep ==
  ASSUME IInv, NEW s \in Sinks, RecordFails(s)
  PROVE  IInv'
<1> DEFINE t == saving[s].by
<1>1. /\ saving[s] # None /\ Raise(t, saving[s].type) /\ UNCHANGED <<row, hot>>
      /\ saving' = [saving EXCEPT ![s] = None]
  BY DEF RecordFails
<1>2. /\ t \in Threads
      /\ t = "handler" => saving[s].type # "skill.requested"
      /\ t # "handler" => s = "runtime"
  BY <1>1, ThreadsDiffer DEF IInv, Saved, Sinks
<1>3. t # "handler" => place \notin {"queued", "ready"}
  BY <1>1, <1>2 DEF IInv, Begun
<1>4. \A x \in Sinks : saving'[x] = saving[x] \/ saving'[x] = None
  BY <1>1 DEF IInv, Saved
<1>5. DOMAIN saving' = Sinks
  BY <1>1 DEF IInv, Saved
<1>6. QED
  BY <1>1, <1>2, <1>3, <1>4, <1>5, RaiseStep

-----------------------------------------------------------------------------
(* The handler begins the run. *)
LEMMA BeginStep ==
  ASSUME IInv, Begin
  PROVE  IInv'
<1> USE DEF IInv
<1>1. /\ row.status = "pending" /\ row' = [row EXCEPT !.status = "running"]
      /\ place = "queued" /\ place' = "ready"
      /\ script' = [script EXCEPT !["handler"] = <<Event("started")>>]
      /\ UNCHANGED <<calls, outcome, hot, saving>>
  BY DEF Begin, Says, Begun
<1>2. row'.status = "running" /\ RowKnown' /\ OutcomeKnown'
  BY <1>1 DEF RowKnown, OutcomeKnown, Status
<1>3. /\ DOMAIN script' = Threads /\ script'["handler"] = <<Event("started")>>
      /\ \A t \in Threads \ {"handler"} : script'[t] = script[t]
  BY <1>1, ThreadsDiffer DEF Spoken
<1>4. Spoken'
  BY <1>1, <1>3 DEF Spoken
<1>5. Begun'
  BY <1>1, <1>2, <1>3 DEF Begun, Ends
<1>6. Saved' /\ EndStands'
  BY <1>1 DEF Saved, EndStands, Ends
<1>7. QED
  BY <1>2, <1>4, <1>5, <1>6

(* The row takes its end, and the handler has that to announce.            *)
LEMMA EndStep ==
  ASSUME IInv, NEW s \in Ends, NEW answer \in BOOLEAN,
         row.status \in {"running", "cancel_requested"},
         row' = [status |-> s, answer |-> answer] \/ row' = [row EXCEPT !.status = s],
         script' = [script EXCEPT !["handler"] = <<End(s, answer)>>],
         place' \notin {"queued", "ready"}, OutcomeKnown', UNCHANGED <<calls, hot, saving>>
  PROVE  IInv'
<1> USE DEF IInv
<1>1. row'.status = s /\ RowKnown'
  BY DEF RowKnown, Status
<1>2. /\ DOMAIN script' = Threads /\ script'["handler"] = <<End(s, answer)>>
      /\ \A t \in Threads \ {"handler"} : script'[t] = script[t]
  BY ThreadsDiffer DEF Spoken
<1>3. Spoken'
  BY <1>1, <1>2 DEF Spoken
<1>4. Begun'
  BY <1>1 DEF Begun, Ends
<1>5. Saved' /\ EndStands'
  BY DEF Saved, EndStands, Ends
<1>6. QED
  BY <1>1, <1>3, <1>4, <1>5

(* A cancelled execution ends where it would begin. *)
LEMMA BeginCancelledStep ==
  ASSUME IInv, BeginCancelled
  PROVE  IInv'
<1>1. "cancelled" \in Ends
  BY DEF Ends
<1>2. OutcomeKnown'
  BY <1>1 DEF BeginCancelled, OutcomeKnown
<1>3. QED
  BY <1>1, <1>2, EndStep DEF BeginCancelled, Says

(* The row takes the outcome of the run. *)
LEMMA SettleStep ==
  ASSUME IInv, Settle
  PROVE  IInv'
<1> DEFINE end == IF row.status = "cancel_requested" THEN "cancelled" ELSE outcome
           answer == outcome = "completed"
<1>1. /\ outcome # "none" /\ row.status \in {"running", "cancel_requested"}
      /\ row' = [status |-> end, answer |-> answer]
      /\ script' = [script EXCEPT !["handler"] = <<End(end, answer)>>]
      /\ UNCHANGED <<place, outcome, calls, hot, saving>>
  BY DEF Settle, Says, program
<1>2. end \in Ends
  BY <1>1 DEF IInv, OutcomeKnown, Ends
<1>3. place' \notin {"queued", "ready"}
  BY <1>1 DEF IInv, Begun
<1>4. QED
  BY <1>1, <1>2, <1>3, EndStep DEF IInv, OutcomeKnown

(* The handler gives the run up. *)
LEMMA AbandonStep ==
  ASSUME IInv, Abandon
  PROVE  IInv'
BY ConstantsAssumption DEF IInv, Abandon, program, RowKnown, OutcomeKnown, Spoken, Begun, Saved, EndStands, Ends

(* A stop is requested. *)
LEMMA RequestStep ==
  ASSUME IInv, row.status \in {"pending", "running"},
         row' = [row EXCEPT !.status = "cancel_requested"],
         UNCHANGED <<place, outcome, calls, script, hot, saving>>
  PROVE  IInv'
<1>1. row'.status = "cancel_requested" /\ RowKnown'
  BY DEF IInv, RowKnown, Status
<1>2. OutcomeKnown' /\ Spoken' /\ Begun' /\ Saved' /\ EndStands'
  BY <1>1 DEF IInv, OutcomeKnown, Spoken, Begun, Saved, EndStands, Ends
<1>3. QED
  BY <1>1, <1>2 DEF IInv

(* The projection expires. *)
LEMMA ExpireStep ==
  ASSUME IInv, Expire
  PROVE  IInv'
BY DEF IInv, Expire, program, RowKnown, OutcomeKnown, Spoken, Begun, Saved, EndStands

(* What happens on the page leaves all but the row alone, and that only a  *)
(* stop changes.                                                           *)
LEMMA PageStep ==
  ASSUME IInv, Page
  PROVE  IInv'
<1> DEFINE Same == UNCHANGED <<row, place, outcome, calls, script, hot, saving>>
<1>1. Same => IInv'
  BY DEF IInv, RowKnown, OutcomeKnown, Spoken, Begun, Saved, EndStands
<1>2. CASE Stop
  <2>1. row' = [row EXCEPT !.status = IF @ \in {"pending", "running"} THEN "cancel_requested" ELSE @]
        /\ UNCHANGED <<place, outcome, calls, script, hot, saving>>
    BY <1>2 DEF Stop, program
  <2>2. CASE row.status \in {"pending", "running"}
    BY <2>1, <2>2, RequestStep
  <2>3. CASE row.status \notin {"pending", "running"}
    <3>1. row' = row
      BY <2>1, <2>3 DEF IInv, RowKnown
    <3>2. QED
      BY <1>1, <2>1, <3>1
  <2>4. QED
    BY <2>2, <2>3
<1>3. CASE Connect \/ Drop \/ Check \/ Close \/ Reload
  BY <1>1, <1>3 DEF Connect, Drop, Check, Close, Reload, Backend, program
<1>4. QED
  BY <1>2, <1>3 DEF Page

-----------------------------------------------------------------------------
(* The program. *)

(* A step of the program once it has begun, that gives thread t the words  *)
(* s to say.                                                               *)
LEMMA ProgramSays ==
  ASSUME IInv, NEW t \in Threads \ {"handler"}, NEW s \in Seq(Working),
         script' = [script EXCEPT ![t] = s],
         place = "ready" => script["handler"] = <<>>,
         place' \notin {"queued", "ready"}, place # "queued",
         outcome' \in {outcome, "failed", "cancelled"}, DOMAIN calls' = Calls,
         UNCHANGED <<row, hot, saving>>
  PROVE  IInv'
<1> USE DEF IInv
<1>1. RowKnown' /\ OutcomeKnown' /\ Saved' /\ EndStands'
  BY DEF RowKnown, OutcomeKnown, Saved, EndStands, Ends
<1>2. /\ DOMAIN script' = Threads /\ script'["handler"] = script["handler"]
      /\ \A x \in Threads \ {"handler"} : script'[x] \in Seq(Working)
  BY ThreadsDiffer DEF Spoken
<1>3. Spoken'
  BY <1>2 DEF Spoken
<1>4. Begun'
  BY DEF Begun
<1>5. QED
  BY <1>1, <1>3, <1>4

(* One that says nothing new. *)
LEMMA ProgramSilent ==
  ASSUME IInv, place \notin {"queued", "ready"}, place' \notin {"queued", "ready"},
         outcome' \in {outcome} \cup Ends, DOMAIN calls' = Calls,
         UNCHANGED <<row, script, hot, saving>>
  PROVE  IInv'
BY DEF IInv, RowKnown, OutcomeKnown, Spoken, Begun, Saved, EndStands

(* The program loads its context. *)
LEMMA StartStep ==
  ASSUME IInv, Start
  PROVE  IInv'
<1>1. script["handler"] = <<>>
  BY DEF Start, Idle
<1>2. QED
  BY <1>1, ThreadsDiffer, OtherWords, ProgramSays
     DEF Start, GoTo, Says, KeepProgram, IInv, Begun

(* An iteration begins. *)
LEMMA IterateStep ==
  ASSUME IInv, Iterate
  PROVE  IInv'
<1>1. PICK s \in Seq(Working) : script' = [script EXCEPT !["program"] = s]
  BY ReasoningWords, AnsweringWords DEF Iterate, GoTo, Says
<1>2. /\ place = "deciding" /\ place' \in {"thinking", "answering"}
      /\ UNCHANGED <<row, outcome, calls, hot, saving>>
  BY DEF Iterate, At, GoTo, KeepProgram
<1>3. QED
  BY <1>1, <1>2, ThreadsDiffer, ProgramSays DEF IInv, Begun

(* The model responds. *)
LEMMA ThinkStep ==
  ASSUME IInv, Think
  PROVE  IInv'
BY ThreadsDiffer, OtherWords, ProgramSays DEF Think, At, GoTo, Says, KeepProgram, IInv, Begun

(* The answer begins. *)
LEMMA AnswerStep ==
  ASSUME IInv, Answer
  PROVE  IInv'
BY ThreadsDiffer, AnsweringWords, ProgramSays DEF Answer, At, GoTo, Says, KeepProgram, IInv, Begun

(* The calls begin. *)
LEMMA ActStep ==
  ASSUME IInv, Act
  PROVE  IInv'
<1> USE DEF IInv
<1>1. /\ place = "thought" /\ place' = "acting"
      /\ DOMAIN calls' = Calls /\ UNCHANGED <<row, outcome, hot, saving>>
  BY DEF Act, At, KeepProgram
<1>2. PICK T \in SUBSET Calls, request \in {"none"} \cup Requests :
        script' = [t \in Threads |->
                CASE t \in T -> <<Phase("tool"), Tool("tool.started", t)>>
                  [] t = "program" /\ request = "granted" -> <<Event("skill.requested")>>
                  [] t = "program" /\ request = "refused" -> <<Tool("tool.failed", None)>>
                  [] OTHER -> script[t]]
  BY DEF Act
<1>3. /\ DOMAIN script' = Threads /\ script'["handler"] = script["handler"]
      /\ \A x \in Threads \ {"handler"} : script'[x] \in Seq(Working)
  BY <1>2, ThreadsDiffer, OtherWords, CallWords DEF Spoken
<1>4. Spoken'
  BY <1>1, <1>3 DEF Spoken
<1>5. RowKnown' /\ OutcomeKnown' /\ Begun' /\ Saved' /\ EndStands'
  BY <1>1 DEF RowKnown, OutcomeKnown, Begun, Saved, EndStands
<1>6. QED
  BY <1>4, <1>5

(* A tool responds. *)
LEMMA RespondStep ==
  ASSUME IInv, NEW c \in Calls, Respond(c)
  PROVE  IInv'
<1>1. PICK s \in Seq(Working) : script' = [script EXCEPT ![c] = s]
  BY CallWords DEF Respond, Says
<1>2. /\ calls[c] = "opening" /\ calls' = [calls EXCEPT ![c] = "closing"]
      /\ UNCHANGED <<row, outcome, place, hot, saving>>
  BY DEF Respond, KeepProgram
<1>3. place \notin {"queued", "ready"} /\ DOMAIN calls' = Calls
  BY <1>2 DEF IInv, Begun
<1>4. QED
  BY <1>1, <1>2, <1>3, ThreadsDiffer, ProgramSays

(* A call is over. *)
LEMMA ReturnStep ==
  ASSUME IInv, NEW c \in Calls, Return(c)
  PROVE  IInv'
<1>1. /\ calls[c] = "closing" /\ calls' = [calls EXCEPT ![c] = "idle"]
      /\ place' \in {place, "over"} /\ outcome' \in {outcome, "failed"}
      /\ UNCHANGED <<row, script, hot, saving>>
  BY DEF Return, RunFails, KeepProgram
<1>2. place \notin {"queued", "ready"} /\ DOMAIN calls' = Calls
  BY <1>1 DEF IInv, Begun
<1>3. QED
  BY <1>1, <1>2, ProgramSilent DEF Ends

(* All calls are over. *)
LEMMA ActedStep ==
  ASSUME IInv, Acted
  PROVE  IInv'
<1>1. <<>> \in Seq(Working)
  OBVIOUS
<1>2. QED
  BY <1>1, ThreadsDiffer, ProgramSays DEF Acted, At, GoTo, Says, KeepProgram, IInv, Begun

(* The answer is complete. *)
LEMMA ConcludeStep ==
  ASSUME IInv, Conclude
  PROVE  IInv'
BY ThreadsDiffer, OtherWords, ProgramSays DEF Conclude, At, GoTo, Says, KeepProgram, IInv, Begun

(* The program returns. *)
LEMMA FinishStep ==
  ASSUME IInv, Finish
  PROVE  IInv'
BY ProgramSilent DEF Finish, At, KeepProgram, IInv, Begun, Ends

(* The program raises. *)
LEMMA ProgramRaisesStep ==
  ASSUME IInv, ProgramRaises
  PROVE  IInv'
<1>1. <<>> \in Seq(Working)
  OBVIOUS
<1>2. PICK s \in Seq(Working) : script' = [script EXCEPT !["program"] = s]
  BY <1>1, OtherWords DEF ProgramRaises, GoTo, Says
<1>3. /\ place \notin {"queued", "ready"} /\ place' \in {"raising", "over"}
      /\ outcome' \in {outcome, "failed"} /\ UNCHANGED <<row, calls, hot, saving>>
  BY DEF ProgramRaises, GoTo, RunFails, KeepProgram
<1>4. QED
  BY <1>2, <1>3, ThreadsDiffer, ProgramSays DEF IInv, Begun

(* The run is cancelled, and its calls with it. *)
LEMMA CancelStep ==
  ASSUME IInv, Cancel
  PROVE  IInv'
<1> USE DEF IInv
<1>1. /\ place \notin {"queued", "ready"} /\ place' \in {"cancelling", "over"}
      /\ outcome' \in {outcome, "cancelled"}
      /\ calls' = [c \in Calls |-> "idle"]
      /\ saving' = [saving EXCEPT !["runtime"] = None]
      /\ UNCHANGED <<row, hot>>
  BY DEF Cancel, GoTo
<1>2. \/ script' = [script EXCEPT !["program"] = Released]
      \/ script' = [t \in Threads |-> IF t = "handler" THEN script[t] ELSE <<>>]
  BY DEF Cancel, GoTo, Says
<1>3. <<>> \in Seq(Working)
  OBVIOUS
<1>4. /\ DOMAIN script' = Threads /\ script'["handler"] = script["handler"]
      /\ \A x \in Threads \ {"handler"} : script'[x] \in Seq(Working)
  BY <1>2, <1>3, ThreadsDiffer, OtherWords DEF Spoken
<1>5. Spoken'
  BY <1>1, <1>4 DEF Spoken
<1>6. RowKnown' /\ OutcomeKnown' /\ Begun' /\ EndStands'
  BY <1>1 DEF RowKnown, OutcomeKnown, Begun, EndStands, Ends
<1>7. Saved'
  BY <1>1 DEF Saved, Sinks
<1>8. QED
  BY <1>5, <1>6, <1>7

(* What the program raised ends the run. *)
LEMMA RaisedStep ==
  ASSUME IInv, Raised
  PROVE  IInv'
BY ProgramSilent DEF Raised, At, KeepProgram, IInv, Begun, Ends

-----------------------------------------------------------------------------
(* Every step keeps the invariant. *)
LEMMA NextIInv ==
  IInv /\ [Next]_vars => IInv'
<1> SUFFICES ASSUME IInv, [Next]_vars PROVE IInv'
  OBVIOUS
<1>1. CASE Emissions
  BY <1>1, PublishStep, EmitRefusedStep, RecordStep, RecordFailsStep DEF Emissions
<1>2. CASE Handler
  <2>1. CASE RequestCancel
    BY <2>1, RequestStep DEF RequestCancel, program
  <2>2. QED
    BY <1>2, <2>1, BeginStep, BeginCancelledStep, AbandonStep, SettleStep, ExpireStep
       DEF Handler
<1>3. CASE Program
  BY <1>3, StartStep, IterateStep, ThinkStep, AnswerStep, ActStep, ActedStep, ConcludeStep,
     FinishStep, ProgramRaisesStep, CancelStep, RaisedStep, RespondStep, ReturnStep DEF Program
<1>4. CASE Page
  BY <1>4, PageStep
<1>5. CASE UNCHANGED vars
  BY <1>5 DEF vars, program, IInv, RowKnown, OutcomeKnown, Spoken, Begun, Saved, EndStands
<1>6. QED
  BY <1>1, <1>2, <1>3, <1>4, <1>5 DEF Next

(* A projection that shows an end shows the row's, in status and phase,    *)
(* whatever calls and programs that outlived their handler still publish   *)
(* and wherever an emission raises.                                        *)
THEOREM EndIsFinal ==
  Spec => []EndStands
<1>1. IInv => EndStands
  BY DEF IInv
<1>2. QED
  BY <1>1, InitIInv, NextIInv, PTL DEF Spec

-----------------------------------------------------------------------------
(* What the page shows and which calls are shown at work depends on the    *)
(* order in which the program and its calls speak.                         *)
Said(t) == {script[t][i] : i \in 1..Len(script[t])}

HasText   == hot # None /\ hot.text
HasSkills == hot # None /\ hot.skills
Shows(c)  == hot # None /\ c \in hot.tools
Ended     == hot # None /\ hot.status \in Ends

Formed == hot # None => hot \in Projection /\ hot.tools \subseteq Calls

(* The program says what belongs to the place it is at, and nothing about  *)
(* a call.                                                                 *)
Timely ==
    /\ \A e \in Said("program") :
          /\ PhaseOf(e) = "finalizing" => place = "finalizing"
          /\ e.type = "skill.context.loaded" => place = "thinking"
          /\ e.type = "skill.requested" => place \in {"acting", "over"}
          /\ e.type \in ToolEvents => e.type = "tool.failed" /\ e.of = None
    /\ saving["runtime"] # None /\ saving["runtime"].type = "skill.requested" =>
          saving["runtime"].by = "program" /\ place \in {"acting", "over"}

(* Nothing is final before there is an answer. *)
Answered ==
    /\ hot # None /\ hot.phase = "finalizing" => hot.text
    /\ place = "finalizing" => HasText
    /\ place = "answering" =>
          \/ HasText
          \/ /\ script["program"] # <<>>
             /\ script["program"][Len(script["program"])].type = "assistant.delta"

(* A skill is shown when it is in use, or about to be released.            *)
SkillsInUse ==
    /\ place = "thinking"
         /\ (HasSkills \/ \E e \in Said("program") : e.type = "skill.context.loaded") => skills
    /\ place = "thought" /\ HasSkills =>
          \E e \in Said("program") : e.type = "skill.context.released"
    /\ HasSkills => place \in {"thinking", "thought", "raising", "cancelling", "over"}

(* A call has told of its beginning, or its end, when it is shown so.      *)
CallStands(c) ==
    /\ \/ /\ calls[c] = "idle" /\ script[c] = <<>>
          /\ place = "over" \/ Ended \/ ~Shows(c)
       \/ /\ calls[c] = "opening"
          /\ script[c] \in {<<Phase("tool"), Tool("tool.started", c)>>, <<Tool("tool.started", c)>>, <<>>}
          /\ script[c] = <<>> => place = "over" \/ Ended \/ Shows(c)
       \/ /\ calls[c] = "closing"
          /\ script[c] \in {<<Event("context.retrieved"), Tool("tool.completed", c)>>,
                            <<Tool("tool.completed", c)>>, <<Tool("tool.failed", c)>>, <<>>}
          /\ script[c] = <<>> => place = "over" \/ Ended \/ ~Shows(c)
    /\ place \notin {"acting", "over"} => calls[c] = "idle"
    /\ saving["runtime"] # None /\ saving["runtime"].by = c =>
          /\ calls[c] # "idle"
          /\ saving["runtime"].type \in {"tool.completed", "context.retrieved"} => calls[c] = "closing"

AtWork == \A c \in Calls : CallStands(c)

(* The page has the fields it is read by. *)
PageKnown == DOMAIN page = {"phase", "text", "started", "completed", "panel"}

Story == Formed /\ Timely /\ Answered /\ SkillsInUse /\ AtWork /\ PageKnown

(* What is left to say after the first event has been said before. *)
LEMMA SaidOnce ==
  ASSUME NEW s \in Seq(Working), s # <<>>
  PROVE  LET all(q) == {q[i] : i \in 1..Len(q)} IN
         /\ Head(s) \in all(s) /\ Head(s) \in Working
         /\ all(Tail(s)) \subseteq all(s)
         /\ all(s) \subseteq all(Tail(s)) \cup {Head(s)}
         /\ Tail(s) \in Seq(Working)
         /\ Tail(s) # <<>> => Tail(s)[Len(Tail(s))] = s[Len(s)]
         /\ Tail(s) = <<>> => s[Len(s)] = Head(s)
<1> DEFINE t == Tail(s)
<1>1. /\ Len(s) \in Nat /\ Len(s) >= 1 /\ Head(s) = s[1] /\ Head(s) \in Working
      /\ t \in Seq(Working) /\ Len(t) = Len(s) - 1
      /\ \A i \in 1..Len(t) : t[i] = s[i + 1]
  OBVIOUS
<1>2. t # <<>> => Len(t) \in 1..Len(t) /\ Len(t) + 1 = Len(s)
  BY <1>1
<1> HIDE DEF t
<1>3. t = <<>> => Len(s) = 1
  <2>1. t = <<>> => Len(t) = 0
    OBVIOUS
  <2>2. QED BY <1>1, <2>1
<1>4. ASSUME NEW i \in 1..Len(t) PROVE i + 1 \in 1..Len(s)
  BY <1>1
<1>5. ASSUME NEW i \in 1..Len(s), i # 1 PROVE \E j \in 1..Len(t) : s[i] = t[j]
  <2>1. i - 1 \in 1..Len(t) /\ (i - 1) + 1 = i
    BY <1>1, <1>5
  <2>2. t[i - 1] = s[i]
    BY <1>1, <2>1
  <2>3. QED BY <2>1, <2>2
<1>6. 1 \in 1..Len(s)
  BY <1>1
<1> DEFINE all(q) == {q[i] : i \in 1..Len(q)}
<1>7. all(t) \subseteq all(s)
  BY <1>1, <1>4
<1>8. all(s) \subseteq all(t) \cup {Head(s)}
  BY <1>1, <1>5
<1>9. Head(s) \in all(s)
  BY <1>1, <1>6
<1>10. t # <<>> => t[Len(t)] = s[Len(s)]
  BY <1>1, <1>2
<1>11. QED BY <1>1, <1>3, <1>7, <1>8, <1>9, <1>10 DEF t

(* What the handler says. *)
HandlerWords == {Event("started")} \cup {End(s, answer) : s \in Ends, answer \in BOOLEAN}

(* What folding an event makes of the projection. *)
LEMMA Folds ==
  ASSUME Formed, NEW e \in Working \cup HandlerWords
  PROVE  LET p == Projected(e)
             status == IF hot = None THEN "pending" ELSE hot.status
             phase  == IF hot = None THEN "pending" ELSE hot.phase
             tools  == IF hot = None THEN {} ELSE hot.tools
         IN  /\ p \in Projection /\ p # None
             /\ p.text <=> HasText \/ e.type = "assistant.delta" \/ e.of = "answer"
             /\ p.skills <=> SkillsAfter(HasSkills, e)
             /\ p.tools = ToolsAfter(tools, e)
             /\ p.status = StatusAfter(status, e)
             /\ p.phase = NextPhase(phase, PhaseOf(e))
<1> DEFINE q == IF hot = None THEN InitialProjection("pending", FALSE) ELSE hot
           n == q.seq + 1
           p == Projected(e)
<1>1. InitialProjection("pending", FALSE) \in Projection
  BY DEF InitialProjection, Projection, PhaseFromStatus, Status, Phases
<1>2. q \in Projection /\ n \in Nat
  <2>1. q \in Projection
    BY <1>1 DEF Formed
  <2> HIDE DEF q
  <2>2. QED BY <2>1 DEF Projection
<1>3. p = Reduce(q, n, e)
  BY DEF Projected
<1>4. StatusAfter(q.status, e) \in Status
  <2>1. q.status \in Status
    BY <1>2 DEF Projection
  <2>2. QED BY <2>1 DEF StatusAfter, Status, Ends
<1>5. PhaseOf(e) \in Phases \cup {None}
  <2>1. CASE e \in Working
    BY <2>1 DEF PhaseOf, Working, Phases, Status, Ends
  <2>2. CASE e \in HandlerWords
    BY <2>2 DEF HandlerWords, PhaseOf, Event, End, Phases, Status, Ends
  <2>3. QED BY <2>1, <2>2
<1>6. NextPhase(q.phase, PhaseOf(e)) \in Phases
  <2>1. q.phase \in Phases
    BY <1>2 DEF Projection
  <2>2. QED BY <1>5, <2>1 DEF NextPhase
<1>7. ToolsAfter(q.tools, e) \in SUBSET (Calls \cup {None})
  <2>1. q.tools \in SUBSET (Calls \cup {None})
    BY <1>2 DEF Projection
  <2>2. e.type = "tool.started" => e.of \in Calls \cup {None}
    BY DEF Working, HandlerWords, ToolEvents, Event, End, Ends
  <2>3. QED BY <2>1, <2>2 DEF ToolsAfter
<1>8. Newest(q.activities \o Activities(n, e)) \in Seq(Activity)
  <2>1. q.activities \in Seq(Activity)
    BY <1>2 DEF Projection
  <2>2. Activities(n, e) \in Seq(Activity)
    <3>1. Told(n, e) \in Activity
      <4> HIDE DEF n
      <4>1. (e.type \in {"llm.started", "llm.completed"}) \in BOOLEAN
        OBVIOUS
      <4>2. QED BY <1>2, <4>1 DEF Told, Activity
    <3>2. \A x \in Activity : <<x>> \in Seq(Activity)
      OBVIOUS
    <3>3. <<>> \in Seq(Activity)
      OBVIOUS
    <3> HIDE DEF n
    <3>4. QED BY <3>1, <3>2, <3>3 DEF Activities
  <2> DEFINE a == q.activities \o Activities(n, e)
  <2>3. a \in Seq(Activity)
    <3> HIDE DEF q
    <3>1. QED BY <2>1, <2>2, ConcatProperties
  <2> HIDE DEF a
  <2>4. Newest(a) \in Seq(Activity)
    BY <2>3, ConstantsAssumption DEF Newest
  <2>5. QED BY <2>4 DEF a
<1>9. q.text \in BOOLEAN /\ SkillsAfter(q.skills, e) \in BOOLEAN
  BY <1>2 DEF Projection, SkillsAfter
<1>10. p = [seq |-> n, status |-> StatusAfter(q.status, e), phase |-> NextPhase(q.phase, PhaseOf(e)),
            text |-> q.text \/ e.type = "assistant.delta" \/ e.of = "answer",
            skills |-> SkillsAfter(q.skills, e), tools |-> ToolsAfter(q.tools, e),
            activities |-> Newest(q.activities \o Activities(n, e))]
  BY <1>3 DEF Reduce
<1>11. p \in Projection
  <2> DEFINE S == StatusAfter(q.status, e)
             P == NextPhase(q.phase, PhaseOf(e))
             X == q.text \/ e.type = "assistant.delta" \/ e.of = "answer"
             K == SkillsAfter(q.skills, e)
             T == ToolsAfter(q.tools, e)
             A == Newest(q.activities \o Activities(n, e))
  <2>1. p = [seq |-> n, status |-> S, phase |-> P, text |-> X, skills |-> K, tools |-> T, activities |-> A]
    BY <1>10
  <2>2. /\ n \in Nat /\ S \in Status /\ P \in Phases /\ X \in BOOLEAN /\ K \in BOOLEAN
        /\ T \in SUBSET (Calls \cup {None}) /\ A \in Seq(Activity)
    BY <1>2, <1>4, <1>6, <1>7, <1>8, <1>9
  <2> HIDE DEF S, P, X, K, T, A, n, p
  <2>3. QED BY <2>1, <2>2 DEF Projection
<1>12. p # None
  BY <1>11, NoneAssumption
<1>13. (q.text <=> HasText) /\ (q.skills <=> HasSkills)
  BY <1>2 DEF InitialProjection, HasText, HasSkills, Projection
<1>14. /\ q.status = IF hot = None THEN "pending" ELSE hot.status
       /\ q.phase = IF hot = None THEN "pending" ELSE hot.phase
       /\ q.tools = IF hot = None THEN {} ELSE hot.tools
  BY DEF InitialProjection, PhaseFromStatus
<1>15. SkillsAfter(q.skills, e) <=> SkillsAfter(HasSkills, e)
  BY <1>13 DEF SkillsAfter
<1> DEFINE X == q.text \/ e.type = "assistant.delta" \/ e.of = "answer"
           K == SkillsAfter(q.skills, e)
<1> HIDE DEF q, n, X, K
<1>16. /\ p.text = X
       /\ p.skills = K
       /\ p.tools = ToolsAfter(q.tools, e)
       /\ p.status = StatusAfter(q.status, e)
       /\ p.phase = NextPhase(q.phase, PhaseOf(e))
  BY <1>10 DEF X, K
<1> HIDE DEF p
<1>17. /\ p.text <=> HasText \/ e.type = "assistant.delta" \/ e.of = "answer"
       /\ p.skills <=> SkillsAfter(HasSkills, e)
  BY <1>13, <1>15, <1>16 DEF X, K
<1>18. QED BY <1>11, <1>12, <1>14, <1>16, <1>17 DEF p

(* Nothing has been said at first. *)
LEMMA InitStory == Init => Story
<1> SUFFICES ASSUME Init PROVE Story
  OBVIOUS
<1>1. \A t \in Threads : script[t] = <<>> /\ Len(script[t]) = 0
  BY DEF Init
<1>2. Said("program") = {}
  BY <1>1, ThreadsDiffer DEF Said
<1>3. Timely /\ Answered /\ SkillsInUse
  BY <1>2 DEF Init, Timely, Answered, SkillsInUse, HasText, HasSkills, Sinks
<1>4. AtWork
  BY <1>1, ThreadsDiffer DEF Init, AtWork, CallStands, Shows, Sinks
<1>5. Formed /\ PageKnown
  BY DEF Init, Formed, PageKnown, NewPage
<1>6. QED BY <1>3, <1>4, <1>5 DEF Story

(* Words of the program and the calls leave status and phase to it. *)
LEMMA WorkFolds ==
  ASSUME Formed, NEW e \in Working, hot' = Projected(e)
  PROVE  /\ Formed' \/ e.type = "tool.started"
         /\ hot' # None
         /\ Ended' <=> Ended
         /\ HasText => HasText'
         /\ e.type = "assistant.delta" => HasText'
         /\ HasSkills' <=> SkillsAfter(HasSkills, e)
         /\ hot'.phase = "finalizing" =>
               PhaseOf(e) = "finalizing" \/ (hot # None /\ hot.phase = "finalizing")
<1>1. e.type \notin Ends /\ e.type # "started"
  BY DEF Working
<1>2. /\ hot' \in Projection /\ hot' # None
      /\ hot'.text <=> HasText \/ e.type = "assistant.delta" \/ e.of = "answer"
      /\ hot'.skills <=> SkillsAfter(HasSkills, e)
      /\ hot'.tools = ToolsAfter(IF hot = None THEN {} ELSE hot.tools, e)
      /\ hot'.status = StatusAfter(IF hot = None THEN "pending" ELSE hot.status, e)
      /\ hot'.phase = NextPhase(IF hot = None THEN "pending" ELSE hot.phase, PhaseOf(e))
  BY Folds
<1>3. hot'.status = IF hot = None THEN "pending" ELSE hot.status
  BY <1>1, <1>2 DEF StatusAfter
<1>4. Ended' <=> Ended
  BY <1>2, <1>3 DEF Ended, Ends
<1>5. e.type # "tool.started" => hot'.tools \subseteq Calls
  BY <1>2 DEF ToolsAfter, Formed
<1>6. (HasText \/ e.type = "assistant.delta" => HasText') /\ (HasSkills' <=> SkillsAfter(HasSkills, e))
  <2>1. HasText' <=> hot'.text
    BY <1>2 DEF HasText
  <2>2. HasSkills' <=> hot'.skills
    BY <1>2 DEF HasSkills
  <2>3. QED BY <1>2, <2>1, <2>2
<1>7. hot'.phase = "finalizing" => PhaseOf(e) = "finalizing" \/ (hot # None /\ hot.phase = "finalizing")
  <2>1. \A x, y : NextPhase(x, y) \in {x, y}
    BY DEF NextPhase
  <2>2. hot'.phase \in {IF hot = None THEN "pending" ELSE hot.phase, PhaseOf(e)}
    BY <1>2, <2>1
  <2>3. QED BY <2>2
<1>8. QED BY <1>2, <1>4, <1>5, <1>6, <1>7 DEF Formed

(* The handler tells of the beginning or the end. *)
LEMMA HandlerSpeaks ==
  ASSUME IInv, Story, Publish("handler")
  PROVE  Story'
<1> DEFINE e == Head(script["handler"])
<1>1. /\ hot' = Projected(e)
      /\ script' = [script EXCEPT !["handler"] = Tail(@)]
      /\ saving' = [saving EXCEPT !["lifecycle"] =
            IF Traceable(e.type) THEN [by |-> "handler", type |-> e.type, row |-> Told(hot'.seq, e)]
                                 ELSE None]
      /\ Deliver(e)
      /\ script["handler"] # <<>>
      /\ UNCHANGED <<row, place, round, skills, calls>>
  BY ThreadsDiffer DEF Publish, MayPublish, program
<1>2. \/ e = Event("started") /\ place = "ready"
      \/ row.status \in Ends /\ \E answer \in BOOLEAN : e = End(row.status, answer)
  BY <1>1 DEF IInv, Spoken
<1>3. e \in HandlerWords
  BY <1>2 DEF HandlerWords
<1> HIDE DEF e
<1>4. Formed
  BY DEF Story
<1>5. /\ hot' \in Projection /\ hot' # None
      /\ hot'.text <=> HasText \/ e.type = "assistant.delta" \/ e.of = "answer"
      /\ hot'.skills <=> SkillsAfter(HasSkills, e)
      /\ hot'.tools = ToolsAfter(IF hot = None THEN {} ELSE hot.tools, e)
      /\ hot'.status = StatusAfter(IF hot = None THEN "pending" ELSE hot.status, e)
      /\ hot'.phase = NextPhase(IF hot = None THEN "pending" ELSE hot.phase, PhaseOf(e))
  BY <1>1, <1>3, <1>4, Folds
<1>6. e.type = "started" \/ e.type \in Ends
  BY <1>2 DEF Event, End
<1>7. Formed' /\ hot'.tools \subseteq IF hot = None THEN {} ELSE hot.tools
  BY <1>4, <1>5, <1>6 DEF Formed, ToolsAfter, Ends
<1>8. (HasText => HasText') /\ (HasSkills' => HasSkills)
  <2>1. (HasText' <=> hot'.text) /\ (HasSkills' <=> hot'.skills)
    BY <1>5 DEF HasText, HasSkills
  <2>2. SkillsAfter(HasSkills, e) => HasSkills
    BY <1>6 DEF SkillsAfter, Ends
  <2>3. QED BY <1>5, <2>1, <2>2
<1>9. Ended => Ended'
  <2>1. CASE e.type \in Ends
    BY <1>5, <2>1 DEF Ended, StatusAfter, Ends
  <2>2. CASE e.type \notin Ends
    <3>1. place = "ready"
      BY <1>2, <2>2 DEF End
    <3>2. row.status \notin Ends
      BY <3>1 DEF IInv, Begun
    <3>3. QED BY <3>2 DEF IInv, EndStands, Ended
  <2>3. QED BY <2>1, <2>2
<1>10. \A c \in Calls : Ended' \/ (Shows(c)' <=> Shows(c))
  <2>1. CASE e.type \in Ends
    BY <1>5, <2>1 DEF Ended, StatusAfter, Ends
  <2>2. CASE e.type = "started"
    BY <1>5, <2>2 DEF Shows, ToolsAfter, Ends
  <2>3. QED BY <1>6, <2>1, <2>2
<1>11. hot'.phase # "finalizing" \/ hot'.phase = (IF hot = None THEN "pending" ELSE hot.phase)
  <2>1. PhaseOf(e) # "finalizing"
    BY <1>6 DEF PhaseOf, Ends
  <2>2. \A x, y : NextPhase(x, y) \in {x, y}
    BY DEF NextPhase
  <2>3. hot'.phase \in {IF hot = None THEN "pending" ELSE hot.phase, PhaseOf(e)}
    BY <1>5, <2>2
  <2>4. QED BY <2>1, <2>3
<1>12. /\ \A t \in Threads \ {"handler"} : script'[t] = script[t]
       /\ saving'["runtime"] = saving["runtime"]
  BY <1>1, ThreadsDiffer DEF IInv, Spoken, Saved, Sinks
<1>13. script'["program"] = script["program"] /\ Said("program")' = Said("program")
  BY <1>12, ThreadsDiffer DEF Said
<1>14. Timely'
  BY <1>1, <1>12, <1>13 DEF Story, Timely
<1>15. Answered'
  <2>1. Answered
    BY DEF Story
  <2>2. hot'.phase = "finalizing" => HasText
    BY <1>11, <2>1 DEF Answered, HasText
  <2>3. HasText' <=> hot'.text
    BY <1>5 DEF HasText
  <2>4. QED BY <1>1, <1>8, <1>13, <2>1, <2>2, <2>3 DEF Answered
<1>16. SkillsInUse'
  BY <1>1, <1>8, <1>13 DEF Story, SkillsInUse
<1>17. AtWork'
  <2>1. ASSUME NEW c \in Calls PROVE CallStands(c)'
    <3>1. script'[c] = script[c]
      BY <1>12, ThreadsDiffer
    <3>2. CallStands(c)
      BY DEF Story, AtWork
    <3>3. (Ended => Ended') /\ (Ended' \/ (Shows(c)' <=> Shows(c)))
      BY <1>9, <1>10
    <3>4. QED BY <1>1, <1>12, <3>1, <3>2, <3>3 DEF CallStands
  <2>2. QED BY <2>1 DEF AtWork
<1>18. PageKnown'
  BY <1>1 DEF Story, PageKnown, Deliver, SeeEvent
<1>19. QED BY <1>7, <1>14, <1>15, <1>16, <1>17, <1>18 DEF Story

(* The program tells the next of its events. *)
LEMMA ProgramSpeaks ==
  ASSUME IInv, Story, Publish("program")
  PROVE  Story'
<1> DEFINE s == script["program"]
           e == Head(s)
<1>1. /\ hot' = Projected(e)
      /\ script' = [script EXCEPT !["program"] = Tail(@)]
      /\ saving' = [saving EXCEPT !["runtime"] =
            IF Traceable(e.type) THEN [by |-> "program", type |-> e.type, row |-> Told(hot'.seq, e)]
                                 ELSE None]
      /\ Deliver(e)
      /\ s # <<>>
      /\ UNCHANGED <<row, place, round, skills, calls>>
  BY ThreadsDiffer DEF Publish, MayPublish, program
<1>2. s \in Seq(Working) /\ DOMAIN script = Threads
  BY ThreadsDiffer DEF IInv, Spoken
<1>3. /\ script'["program"] = Tail(s)
      /\ \A c \in Calls : script'[c] = script[c]
  BY <1>1, <1>2, ThreadsDiffer
<1>4. /\ e \in Working /\ e \in Said("program")
      /\ Said("program")' \subseteq Said("program")
      /\ Said("program") \subseteq Said("program")' \cup {e}
      /\ Tail(s) # <<>> => Tail(s)[Len(Tail(s))] = s[Len(s)]
      /\ Tail(s) = <<>> => s[Len(s)] = e
  <2>1. Said("program") = {s[i] : i \in 1..Len(s)}
    BY DEF Said
  <2>2. Said("program")' = {Tail(s)[i] : i \in 1..Len(Tail(s))}
    BY <1>3 DEF Said
  <2> HIDE DEF s
  <2>3. QED BY <1>1, <1>2, <2>1, <2>2, SaidOnce
<1> HIDE DEF e
<1>5. Formed
  BY DEF Story
<1>6. /\ Formed' \/ e.type = "tool.started"
      /\ hot' # None
      /\ Ended' <=> Ended
      /\ HasText => HasText'
      /\ e.type = "assistant.delta" => HasText'
      /\ HasSkills' <=> SkillsAfter(HasSkills, e)
      /\ hot'.phase = "finalizing" => PhaseOf(e) = "finalizing" \/ (hot # None /\ hot.phase = "finalizing")
  BY <1>1, <1>4, <1>5, WorkFolds
<1>7. /\ PhaseOf(e) = "finalizing" => place = "finalizing"
      /\ e.type = "skill.context.loaded" => place = "thinking"
      /\ e.type = "skill.requested" => place \in {"acting", "over"}
      /\ e.type \in ToolEvents => e.type = "tool.failed" /\ e.of = None
  BY <1>4 DEF Story, Timely
<1>8. Formed'
  BY <1>6, <1>7 DEF ToolEvents
<1>9. \A c \in Calls : Shows(c)' <=> Shows(c)
  <2>1. hot'.tools = ToolsAfter(IF hot = None THEN {} ELSE hot.tools, e)
    BY <1>1, <1>4, <1>5, Folds
  <2>2. e.type \notin Ends
    BY <1>4 DEF Working
  <2>3. ASSUME NEW c \in Calls PROVE c # None
    BY NoneAssumption
  <2>4. QED BY <1>6, <1>7, <2>1, <2>2, <2>3 DEF Shows, ToolsAfter, ToolEvents
<1>10. saving'["runtime"] # None => saving'["runtime"].by = "program" /\ saving'["runtime"].type = e.type
  BY <1>1 DEF IInv, Saved, Sinks
<1>11. Timely'
  BY <1>1, <1>4, <1>7, <1>10 DEF Story, Timely
<1>12. Answered'
  <2>1. hot # None /\ hot.phase = "finalizing" => HasText
    BY DEF Story, Answered, HasText
  <2>2. place = "finalizing" => HasText
    BY DEF Story, Answered
  <2>3. hot'.phase = "finalizing" => HasText'
    BY <1>6, <1>7, <2>1, <2>2
  <2>4. HasText' => hot'.text
    BY DEF HasText
  <2>5. place = "answering" => HasText \/ (s # <<>> /\ s[Len(s)].type = "assistant.delta")
    BY DEF Story, Answered
  <2>6. place = "answering" =>
          HasText' \/ (Tail(s) # <<>> /\ Tail(s)[Len(Tail(s))].type = "assistant.delta")
    BY <1>4, <1>6, <2>5
  <2> HIDE DEF s
  <2>7. QED BY <1>1, <1>3, <1>6, <2>2, <2>3, <2>4, <2>6 DEF Answered
<1>13. SkillsInUse'
  <2>1. HasSkills' => e.type = "skill.context.loaded" \/ (HasSkills /\ e.type # "skill.context.released")
    BY <1>6 DEF SkillsAfter
  <2>2. SkillsInUse
    BY DEF Story
  <2>3. (place = "thinking"
          /\ (HasSkills' \/ \E x \in Said("program")' : x.type = "skill.context.loaded")) => skills
    BY <1>4, <2>1, <2>2 DEF SkillsInUse
  <2>4. place = "thought" /\ HasSkills' => \E x \in Said("program")' : x.type = "skill.context.released"
    BY <1>4, <1>7, <2>1, <2>2 DEF SkillsInUse
  <2>5. HasSkills' => place \in {"thinking", "thought", "raising", "cancelling", "over"}
    BY <1>7, <2>1, <2>2 DEF SkillsInUse
  <2>6. QED BY <1>1, <2>3, <2>4, <2>5 DEF SkillsInUse
<1>14. AtWork'
  <2>1. ASSUME NEW c \in Calls PROVE CallStands(c)'
    <3>1. script'[c] = script[c] /\ c # "program"
      BY <1>3, ThreadsDiffer
    <3>2. CallStands(c)
      BY DEF Story, AtWork
    <3>3. (Ended <=> Ended') /\ (Shows(c)' <=> Shows(c))
      BY <1>6, <1>9
    <3>4. QED BY <1>1, <1>10, <3>1, <3>2, <3>3 DEF CallStands
  <2>2. QED BY <2>1 DEF AtWork
<1>15. PageKnown'
  BY <1>1 DEF Story, PageKnown, Deliver, SeeEvent
<1>16. QED BY <1>8, <1>11, <1>12, <1>13, <1>14, <1>15 DEF Story

(* A call tells the next of its events. *)
LEMMA CallSpeaks ==
  ASSUME IInv, Story, NEW c \in Calls, Publish(c)
  PROVE  Story'
<1> DEFINE e == Head(script[c])
           begin == <<Phase("tool"), Tool("tool.started", c)>>
           found == <<Event("context.retrieved"), Tool("tool.completed", c)>>
<1>c. c \in Threads \ {"handler"} /\ c # "program" /\ Sink(c) = "runtime"
  BY ThreadsDiffer
<1>1. /\ hot' = Projected(e)
      /\ script' = [script EXCEPT ![c] = Tail(@)]
      /\ saving' = [saving EXCEPT !["runtime"] =
            IF Traceable(e.type) THEN [by |-> c, type |-> e.type, row |-> Told(hot'.seq, e)]
                                 ELSE None]
      /\ Deliver(e)
      /\ script[c] # <<>>
      /\ UNCHANGED <<row, place, round, skills, calls>>
  BY <1>c DEF Publish, MayPublish, program
<1>2. script[c] \in Seq(Working) /\ DOMAIN script = Threads
  BY <1>c DEF IInv, Spoken
<1>3. /\ script'[c] = Tail(script[c]) /\ script'["program"] = script["program"]
      /\ \A d \in Calls \ {c} : script'[d] = script[d]
  BY <1>1, <1>2, <1>c, ThreadsDiffer
<1>4. e \in Working
  BY <1>1, <1>2
<1>5. \/ /\ calls[c] = "opening" /\ script[c] = begin
         /\ e = Phase("tool") /\ Tail(script[c]) = <<Tool("tool.started", c)>>
      \/ /\ calls[c] = "opening" /\ script[c] = <<Tool("tool.started", c)>>
         /\ e = Tool("tool.started", c) /\ Tail(script[c]) = <<>>
      \/ /\ calls[c] = "closing" /\ script[c] = found
         /\ e = Event("context.retrieved") /\ Tail(script[c]) = <<Tool("tool.completed", c)>>
      \/ /\ calls[c] = "closing"
         /\ \E type \in {"tool.completed", "tool.failed"} :
              script[c] = <<Tool(type, c)>> /\ e = Tool(type, c)
         /\ Tail(script[c]) = <<>>
  <2>1. \A x : Tail(<<x>>) = <<>> /\ Head(<<x>>) = x
    OBVIOUS
  <2>2. \A x, y : Tail(<<x, y>>) = <<y>> /\ Head(<<x, y>>) = x
    OBVIOUS
  <2>3. CallStands(c)
    BY DEF Story, AtWork
  <2>4. QED BY <1>1, <2>1, <2>2, <2>3 DEF CallStands
<1> HIDE DEF e, begin, found
<1>6. Formed
  BY DEF Story
<1>7. /\ Formed' \/ e.type = "tool.started"
      /\ hot' # None
      /\ Ended' <=> Ended
      /\ HasText => HasText'
      /\ HasSkills' <=> SkillsAfter(HasSkills, e)
      /\ hot'.phase = "finalizing" => PhaseOf(e) = "finalizing" \/ (hot # None /\ hot.phase = "finalizing")
  BY <1>1, <1>4, <1>6, WorkFolds
<1>8. /\ PhaseOf(e) # "finalizing"
      /\ e.type \notin {"skill.context.loaded", "skill.requested"} \cup Ends
  BY <1>5, NoneAssumption DEF PhaseOf, Phase, Tool, Event, Phases, Ends
<1>9. /\ hot' \in Projection
      /\ hot'.tools = ToolsAfter(IF hot = None THEN {} ELSE hot.tools, e)
  BY <1>1, <1>4, <1>6, Folds
<1>10. Formed'
  <2>1. e.type = "tool.started" => e.of = c
    BY <1>5 DEF Phase, Tool, Event
  <2>2. hot'.tools \subseteq Calls
    BY <1>6, <1>9, <2>1 DEF Formed, ToolsAfter
  <2>3. QED BY <1>9, <2>2 DEF Formed
<1>11. \A d \in Calls \ {c} : Shows(d)' <=> Shows(d)
  BY <1>5, <1>7, <1>8, <1>9 DEF Shows, ToolsAfter, Phase, Tool, Event
<1>12. /\ e = Tool("tool.started", c) => Shows(c)'
       /\ \A type \in {"tool.completed", "tool.failed"} : e = Tool(type, c) => ~Shows(c)'
       /\ e \in {Phase("tool"), Event("context.retrieved")} => (Shows(c)' <=> Shows(c))
  BY <1>7, <1>9 DEF Shows, ToolsAfter, Phase, Tool, Event, Ends
<1>13. saving'["runtime"] # None => saving'["runtime"].by = c /\ saving'["runtime"].type = e.type
  BY <1>1 DEF IInv, Saved, Sinks
<1>14. Said("program")' = Said("program")
  BY <1>3 DEF Said
<1>15. Timely'
  BY <1>1, <1>8, <1>13, <1>14 DEF Story, Timely
<1>16. Answered'
  <2>1. Answered
    BY DEF Story
  <2>2. hot'.phase = "finalizing" => HasText
    BY <1>7, <1>8, <2>1 DEF Answered, HasText
  <2>3. HasText' => hot'.text
    BY DEF HasText
  <2>4. QED BY <1>1, <1>3, <1>7, <2>1, <2>2, <2>3 DEF Answered
<1>17. SkillsInUse'
  <2>1. HasSkills' => HasSkills
    BY <1>7, <1>8 DEF SkillsAfter
  <2>2. QED BY <1>1, <1>14, <2>1 DEF Story, SkillsInUse
<1>18. AtWork'
  <2>1. ASSUME NEW d \in Calls \ {c} PROVE CallStands(d)'
    <3>1. CallStands(d)
      BY DEF Story, AtWork
    <3>2. (Ended <=> Ended') /\ (Shows(d)' <=> Shows(d)) /\ script'[d] = script[d]
      BY <1>3, <1>7, <1>11
    <3>3. QED BY <1>1, <1>13, <3>1, <3>2 DEF CallStands
  <2>2. CallStands(c)'
    <3>1. CallStands(c)
      BY DEF Story, AtWork
    <3>2. calls[c] \in {"opening", "closing"} /\ place \in {"acting", "over"}
      BY <1>5, <3>1 DEF CallStands
    <3>3. saving'["runtime"] # None /\ saving'["runtime"].type \in {"tool.completed", "context.retrieved"}
            => calls[c] = "closing"
      BY <1>5, <1>13 DEF Phase, Tool, Event
    <3>x. \A x : <<x>> # <<>>
      OBVIOUS
    <3>4. CASE e = Phase("tool") /\ calls[c] = "opening" /\ Tail(script[c]) = <<Tool("tool.started", c)>>
      BY <1>1, <1>3, <3>2, <3>3, <3>4, <3>x DEF CallStands
    <3>5. CASE e = Tool("tool.started", c) /\ calls[c] = "opening" /\ Tail(script[c]) = <<>>
      BY <1>1, <1>3, <1>12, <3>2, <3>3, <3>5 DEF CallStands
    <3>6. CASE /\ e = Event("context.retrieved") /\ calls[c] = "closing"
               /\ Tail(script[c]) = <<Tool("tool.completed", c)>>
      BY <1>1, <1>3, <3>2, <3>3, <3>6, <3>x DEF CallStands
    <3>7. CASE /\ \E type \in {"tool.completed", "tool.failed"} : e = Tool(type, c)
               /\ calls[c] = "closing" /\ Tail(script[c]) = <<>>
      BY <1>1, <1>3, <1>12, <3>2, <3>3, <3>7 DEF CallStands
    <3>8. QED BY <1>5, <3>4, <3>5, <3>6, <3>7
  <2>3. QED BY <2>1, <2>2 DEF AtWork
<1>19. PageKnown'
  BY <1>1 DEF Story, PageKnown, Deliver, SeeEvent
<1>20. QED BY <1>10, <1>15, <1>16, <1>17, <1>18, <1>19 DEF Story

-----------------------------------------------------------------------------
(* A step that neither tells nor does anything of the program.             *)
LEMMA Quiet ==
  ASSUME IInv, Story, UNCHANGED <<hot, calls, skills>>,
         \A t \in Threads \ {"handler"} : script'[t] = script[t],
         place' = place \/ (place = "queued" /\ place' \in {"ready", "over"}),
         saving'["runtime"] \in {saving["runtime"], None}, PageKnown'
  PROVE  Story'
<1>1. Formed' /\ (Ended' <=> Ended) /\ (HasText' <=> HasText) /\ (HasSkills' <=> HasSkills)
  BY DEF Story, Formed, Ended, HasText, HasSkills
<1>2. script'["program"] = script["program"] /\ Said("program")' = Said("program")
  BY ThreadsDiffer DEF Said
<1>3. place = "queued" => script["program"] = <<>> /\ saving["runtime"] = None
  BY ThreadsDiffer DEF IInv, Begun
<1>4. place = "queued" => Said("program") = {}
  BY <1>3 DEF Said
<1>5. Timely'
  BY <1>2, <1>3, <1>4 DEF Story, Timely
<1>6. Answered' /\ SkillsInUse'
  BY <1>1, <1>2, <1>3, <1>4 DEF Story, Answered, SkillsInUse
<1>7. ASSUME NEW c \in Calls PROVE CallStands(c)'
  <2>1. CallStands(c)
    BY DEF Story, AtWork
  <2>2. script'[c] = script[c] /\ (Shows(c)' <=> Shows(c))
    BY ThreadsDiffer DEF Shows
  <2>3. QED BY <1>1, <1>3, <2>1, <2>2 DEF CallStands
<1>8. QED BY <1>1, <1>5, <1>6, <1>7 DEF Story, AtWork

(* The program is over, and calls with it or not.                          *)
LEMMA ProgramEnds ==
  ASSUME IInv, Story, UNCHANGED <<hot, skills, page>>, place' = "over",
         script'["program"] = <<>>
           \/ (script'["program"] = script["program"] /\ place \in {"acting", "over"}),
         \A c \in Calls : \/ calls'[c] = calls[c] /\ script'[c] = script[c]
                          \/ calls'[c] = "idle" /\ script'[c] = <<>>,
         saving'["runtime"] # None => /\ saving'["runtime"] = saving["runtime"]
                                      /\ \A c \in Calls : calls'[c] # calls[c] => saving["runtime"].by # c
  PROVE  Story'
<1>1. Formed' /\ PageKnown' /\ (HasText' <=> HasText) /\ (HasSkills' <=> HasSkills)
  BY DEF Story, Formed, PageKnown, HasText, HasSkills
<1>2. Said("program")' = {} \/ (Said("program")' = Said("program") /\ place \in {"acting", "over"})
  BY DEF Said
<1>3. Timely'
  BY <1>2 DEF Story, Timely
<1>4. Answered' /\ SkillsInUse'
  BY <1>1 DEF Story, Answered, SkillsInUse
<1>5. ASSUME NEW c \in Calls PROVE CallStands(c)'
  <2>1. CallStands(c)
    BY DEF Story, AtWork
  <2>2. QED BY <2>1 DEF CallStands
<1>6. QED BY <1>1, <1>3, <1>4, <1>5 DEF Story, AtWork

(* Whatever thread an emission raises in. *)
LEMMA RaiseStory ==
  ASSUME IInv, Story, NEW t \in Threads, NEW type, Raise(t, type), UNCHANGED <<hot, skills, page>>,
         type = "skill.requested" => t = "program" /\ place \in {"acting", "over"},
         t \in Calls => calls[t] # "idle",
         t \in Calls /\ type \in {"tool.completed", "context.retrieved"} => calls[t] = "closing",
         saving'["runtime"] = saving["runtime"] \/ saving'["runtime"] = None,
         t # "handler" => saving'["runtime"] = None
  PROVE  Story'
<1>0. DOMAIN script = Threads /\ PageKnown'
  BY DEF IInv, Spoken, Story, PageKnown
<1>1. CASE t = "handler"
  <2>1. script' = [script EXCEPT ![t] = <<>>] /\ UNCHANGED <<place, outcome, calls>>
    BY <1>1, ThreadsDiffer DEF Raise, GoesOn
  <2>2. \A x \in Threads \ {"handler"} : script'[x] = script[x]
    BY <1>1, <1>0, <2>1
  <2>3. QED BY <1>0, <2>1, <2>2, Quiet
<1>2. CASE t \in Calls /\ type \in {"tool.completed", "context.retrieved"}
  <2>1. script' = [script EXCEPT ![t] = <<Tool("tool.failed", t)>>] /\ UNCHANGED <<place, calls>>
    BY <1>2, ThreadsDiffer DEF Raise, GoesOn
  <2>2. /\ script'["program"] = script["program"]
        /\ script'[t] = <<Tool("tool.failed", t)>>
        /\ \A d \in Calls \ {t} : script'[d] = script[d]
    BY <1>2, <1>0, <2>1, ThreadsDiffer
  <2>3. saving'["runtime"] = None /\ calls[t] = "closing"
    BY <1>2, ThreadsDiffer
  <2>4. Said("program")' = Said("program") /\ (HasText' <=> HasText) /\ (HasSkills' <=> HasSkills)
    BY <2>2 DEF Said, HasText, HasSkills
  <2>5. Formed' /\ Timely' /\ Answered' /\ SkillsInUse'
    BY <2>1, <2>2, <2>3, <2>4 DEF Story, Formed, Timely, Answered, SkillsInUse
  <2>6. ASSUME NEW c \in Calls PROVE CallStands(c)'
    <3>1. CallStands(c)
      BY DEF Story, AtWork
    <3>2. <<Tool("tool.failed", t)>> # <<>>
      OBVIOUS
    <3>3. (Ended' <=> Ended) /\ (Shows(c)' <=> Shows(c))
      BY DEF Ended, Shows
    <3>4. QED BY <2>1, <2>2, <2>3, <3>1, <3>2, <3>3 DEF CallStands
  <2>7. QED BY <1>0, <2>5, <2>6 DEF Story, AtWork
<1>3. CASE t = "program" /\ type = "skill.requested"
  <2>1. script' = [script EXCEPT ![t] = <<Tool("tool.failed", None)>>] /\ UNCHANGED <<place, calls>>
    BY <1>3, ThreadsDiffer DEF Raise, GoesOn
  <2>2. /\ script'["program"] = <<Tool("tool.failed", None)>>
        /\ \A d \in Calls : script'[d] = script[d]
        /\ place \in {"acting", "over"} /\ saving'["runtime"] = None
    BY <1>3, <1>0, <2>1, ThreadsDiffer
  <2>3. Said("program")' \subseteq {Tool("tool.failed", None)}
    BY <2>2 DEF Said
  <2>4. Timely'
    BY <2>2, <2>3, NoneAssumption DEF Timely, Tool, ToolEvents, PhaseOf
  <2>5. Formed' /\ Answered' /\ SkillsInUse'
    BY <2>1, <2>2 DEF Story, Formed, Answered, SkillsInUse, HasText, HasSkills
  <2>6. ASSUME NEW c \in Calls PROVE CallStands(c)'
    <3>1. CallStands(c) /\ (Ended' <=> Ended) /\ (Shows(c)' <=> Shows(c))
      BY DEF Story, AtWork, Ended, Shows
    <3>2. QED BY <2>1, <2>2, <3>1 DEF CallStands
  <2>7. QED BY <1>0, <2>4, <2>5, <2>6 DEF Story, AtWork
<1>4. CASE t \in Calls /\ type \notin {"tool.completed", "context.retrieved"}
  <2>1. PICK over \in SUBSET Calls :
           /\ script' = [x \in Threads |-> IF x \in over THEN <<>> ELSE script[x]]
           /\ calls' = [c \in Calls |-> IF c \in over THEN "idle" ELSE calls[c]]
           /\ place' = "over"
    BY <1>4, ThreadsDiffer DEF Raise, RunFails
  <2>2. CallStands(t) /\ calls[t] # "idle"
    BY <1>4 DEF Story, AtWork
  <2>3. place \in {"acting", "over"} /\ saving'["runtime"] = None
    BY <1>4, <2>2, ThreadsDiffer DEF CallStands
  <2>4. /\ script'["program"] = script["program"]
        /\ \A c \in Calls : \/ calls'[c] = calls[c] /\ script'[c] = script[c]
                            \/ calls'[c] = "idle" /\ script'[c] = <<>>
    BY <2>1, ThreadsDiffer
  <2>5. QED BY <2>1, <2>3, <2>4, ProgramEnds
<1>5. CASE t = "program" /\ type # "skill.requested"
  <2>1. /\ script' = [x \in Threads |-> IF x = "handler" THEN script[x] ELSE <<>>]
        /\ calls' = [c \in Calls |-> "idle"]
        /\ place' = "over"
    BY <1>5, ThreadsDiffer DEF Raise, RunFails
  <2>2. /\ script'["program"] = <<>> /\ saving'["runtime"] = None
        /\ \A c \in Calls : calls'[c] = "idle" /\ script'[c] = <<>>
    BY <1>5, <2>1, ThreadsDiffer
  <2>3. QED BY <2>1, <2>2, ProgramEnds
<1>6. QED BY <1>1, <1>2, <1>3, <1>4, <1>5 DEF Threads

(* An emission is refused. *)
LEMMA EmitRefusedStory ==
  ASSUME IInv, Story, NEW t \in Threads, EmitRefused(t)
  PROVE  Story'
<1> DEFINE type == Head(script[t]).type
<1>1. /\ script[t] # <<>> /\ saving[Sink(t)] = None /\ Raise(t, type)
      /\ UNCHANGED <<row, hot, skills, saving, page>>
  BY DEF EmitRefused, MayPublish, ui
<1>2. t # "handler" => saving'["runtime"] = None
  BY <1>1, ThreadsDiffer
<1>3. t = "handler" => type # "skill.requested"
  BY <1>1 DEF IInv, Spoken, Event, End, Ends
<1>4. t = "program" => (type = "skill.requested" => place \in {"acting", "over"})
  <2>1. script["program"] \in Seq(Working)
    BY ThreadsDiffer DEF IInv, Spoken
  <2>2. t = "program" => Head(script[t]) \in Said("program")
    BY <1>1, <2>1, SaidOnce DEF Said
  <2>3. QED BY <2>2 DEF Story, Timely
<1>5. t \in Calls => /\ calls[t] # "idle" /\ type # "skill.requested"
                     /\ type \in {"tool.completed", "context.retrieved"} => calls[t] = "closing"
  <2>1. ASSUME t \in Calls PROVE CallStands(t)
    BY <2>1 DEF Story, AtWork
  <2>2. \A x, y : Head(<<x>>) = x /\ Head(<<x, y>>) = x
    OBVIOUS
  <2>3. QED BY <1>1, <2>1, <2>2 DEF CallStands, Phase, Tool, Event
<1> HIDE DEF type
<1>6. QED BY <1>1, <1>2, <1>3, <1>4, <1>5, RaiseStory DEF Threads

(* A trace row cannot be committed. *)
LEMMA RecordFailsStory ==
  ASSUME IInv, Story, NEW s \in Sinks, RecordFails(s)
  PROVE  Story'
<1> DEFINE t == saving[s].by
           type == saving[s].type
<1>1. /\ saving[s] # None /\ Raise(t, type)
      /\ saving' = [saving EXCEPT ![s] = None]
      /\ UNCHANGED <<row, hot, skills, page>>
  BY DEF RecordFails, ui
<1>2. /\ s = "lifecycle" => t = "handler" /\ type # "skill.requested"
      /\ s = "runtime" => t \in Threads \ {"handler"}
      /\ DOMAIN saving = Sinks
  BY <1>1 DEF IInv, Saved
<1>3. t \in Threads /\ (t # "handler" => s = "runtime" /\ saving'["runtime"] = None)
  BY <1>1, <1>2, ThreadsDiffer DEF Sinks
<1>4. saving'["runtime"] = saving["runtime"] \/ saving'["runtime"] = None
  BY <1>1, <1>2 DEF Sinks
<1>5. type = "skill.requested" => t = "program" /\ place \in {"acting", "over"}
  BY <1>1, <1>2 DEF Story, Timely, Sinks
<1>6. t \in Calls => /\ calls[t] # "idle"
                     /\ type \in {"tool.completed", "context.retrieved"} => calls[t] = "closing"
  <2>1. ASSUME t \in Calls PROVE CallStands(t) /\ s = "runtime"
    BY <1>3, <2>1, ThreadsDiffer DEF Story, AtWork
  <2>2. QED BY <1>1, <2>1 DEF CallStands
<1> HIDE DEF t, type
<1>7. QED BY <1>1, <1>3, <1>4, <1>5, <1>6, RaiseStory

(* A trace row is committed. *)
LEMMA RecordStory ==
  ASSUME IInv, Story, NEW s \in Sinks, Record(s)
  PROVE  Story'
<1>1. /\ saving' = [saving EXCEPT ![s] = None]
      /\ UNCHANGED <<hot, calls, skills, script, place, page>>
  BY DEF Record, program, ui
<1>2. saving'["runtime"] \in {saving["runtime"], None}
  BY <1>1 DEF IInv, Saved, Sinks
<1>3. QED BY <1>1, <1>2, Quiet DEF Story, PageKnown

-----------------------------------------------------------------------------
(* The words that belong to a place, without those about calls but for a   *)
(* refused skill request.                                                  *)
Fitting(p, using) ==
    {e \in Working :
        /\ PhaseOf(e) = "finalizing" => p = "finalizing"
        /\ e.type = "skill.context.loaded" => p = "thinking" /\ using
        /\ e.type = "skill.requested" => p \in {"acting", "over"}
        /\ e.type \notin ToolEvents}

(* The program, with no call under way, goes on to another place with what *)
(* fits there to tell.                                                     *)
LEMMA ProgramTells ==
  ASSUME IInv, Story, UNCHANGED <<hot, page>>, place # "over",
         \A c \in Calls : calls[c] = "idle" /\ calls'[c] = "idle",
         saving'["runtime"] = None
           \/ (saving'["runtime"] = saving["runtime"] /\ saving["runtime"].type # "skill.requested"),
         NEW s \in Seq(Working), script' = [script EXCEPT !["program"] = s],
         {s[i] : i \in 1..Len(s)} \subseteq Fitting(place', skills'),
         place' = "finalizing" => HasText,
         place' = "answering" => s # <<>> /\ s[Len(s)].type = "assistant.delta",
         place' = "thinking" /\ HasSkills => skills',
         place' = "thought" /\ HasSkills => \E i \in 1..Len(s) : s[i].type = "skill.context.released",
         HasSkills => place' \in {"thinking", "thought", "raising", "cancelling", "over"}
  PROVE  Story'
<1>1. DOMAIN script = Threads
  BY DEF IInv, Spoken
<1>2. script'["program"] = s /\ \A c \in Calls : script'[c] = script[c]
  BY <1>1, ThreadsDiffer
<1>3. /\ Said("program")' \subseteq Fitting(place', skills')
      /\ Said("program")' = {s[i] : i \in 1..Len(s)}
  BY <1>2 DEF Said
<1>4. Formed' /\ PageKnown' /\ (Ended' <=> Ended) /\ (HasText' <=> HasText) /\ (HasSkills' <=> HasSkills)
  BY DEF Story, Formed, PageKnown, Ended, HasText, HasSkills
<1>5. Timely'
  BY <1>3 DEF Story, Timely, Fitting
<1>6. Answered'
  BY <1>2, <1>4 DEF Story, Answered
<1>7. SkillsInUse'
  <2>1. (\E e \in Said("program")' : e.type = "skill.context.loaded") => place' = "thinking" /\ skills'
    BY <1>3 DEF Fitting
  <2>2. place' = "thought" /\ HasSkills => \E e \in Said("program")' : e.type = "skill.context.released"
    BY <1>3
  <2>3. QED BY <1>4, <2>1, <2>2 DEF SkillsInUse
<1>8. ASSUME NEW c \in Calls PROVE CallStands(c)'
  <2>1. CallStands(c) /\ (Shows(c)' <=> Shows(c))
    BY DEF Story, AtWork, Shows
  <2>2. QED BY <1>2, <1>4, <2>1 DEF CallStands
<1>9. QED BY <1>4, <1>5, <1>6, <1>7, <1>8 DEF Story, AtWork

(* Where the program is alone, its sink saves nothing that asks for a skill. *)
LEMMA ProgramAlone ==
  ASSUME IInv, Story, place \notin {"acting", "over"}
  PROVE  /\ \A c \in Calls : calls[c] = "idle"
         /\ saving["runtime"] = None \/ saving["runtime"].type # "skill.requested"
<1>1. ASSUME NEW c \in Calls PROVE CallStands(c)
  BY DEF Story, AtWork
<1>2. QED BY <1>1 DEF CallStands, Story, Timely

(* The words of a sequence over S are in S. *)
LEMMA WordsOf ==
  ASSUME NEW S, NEW s \in Seq(S)
  PROVE  {s[i] : i \in 1..Len(s)} \subseteq S
<1>1. ASSUME NEW i \in 1..Len(s) PROVE s[i] \in S
  OBVIOUS
<1>2. QED BY <1>1

(* Events that fit anywhere. *)
LEMMA PlainWords ==
  ASSUME NEW p, NEW using
  PROVE  /\ \A type \in {"context.loaded", "agent.iteration.started", "context.budget.exceeded",
                         "context.snapshot.created", "llm.started", "llm.completed", "agent.decision",
                         "skill.context.released", "agent.max_iterations_reached", "answer.started",
                         "assistant.delta", "answer.generated"} : Event(type) \in Fitting(p, using)
         /\ \A q \in {"context", "reasoning", "skill", "response_preparing", "response_streaming"} :
              Phase(q) \in Fitting(p, using)
         /\ p = "thinking" /\ using => Event("skill.context.loaded") \in Fitting(p, using)
         /\ p = "finalizing" => /\ Phase("finalizing") \in Fitting(p, using)
                                /\ Event("answer.completed") \in Fitting(p, using)
<1>1. ToolEvents = {"tool.started", "tool.completed", "tool.failed"}
  BY DEF ToolEvents
<1>2. ASSUME NEW type \in Types \ (Ends \cup ToolEvents
                     \cup {"started", "execution.phase.changed", "skill.requested"}),
             type = "answer.completed" => p = "finalizing",
             type = "skill.context.loaded" => p = "thinking" /\ using
      PROVE  Event(type) \in Fitting(p, using)
  <2>1. Event(type) \in Working /\ Event(type).type = type
    BY <1>2, ProgramWords DEF Event
  <2>2. PhaseOf(Event(type)) = "finalizing" => type = "answer.completed"
    BY <1>2, <2>1, NoneAssumption DEF PhaseOf, Phases, Ends
  <2>3. QED BY <1>2, <2>1, <2>2 DEF Fitting
<1>3. ASSUME NEW q \in Phases \ Ends, q = "finalizing" => p = "finalizing"
      PROVE  Phase(q) \in Fitting(p, using)
  <2>1. /\ Phase(q).type = "execution.phase.changed" /\ Phase(q).of = q
        /\ Phase(q) \in Working
    BY <1>3, ProgramWords DEF Phase
  <2>2. PhaseOf(Phase(q)) = q
    BY <2>1 DEF PhaseOf, Ends
  <2>3. QED BY <1>1, <1>3, <2>1, <2>2 DEF Fitting
<1>4. {"context.loaded", "agent.iteration.started", "context.budget.exceeded",
       "context.snapshot.created", "llm.started", "llm.completed", "agent.decision",
       "skill.context.released", "agent.max_iterations_reached", "answer.started",
       "assistant.delta", "answer.generated", "skill.context.loaded", "answer.completed"}
        \subseteq Types \ (Ends \cup ToolEvents \cup {"started", "execution.phase.changed", "skill.requested"})
  BY <1>1 DEF Types, Ends
<1>5. {"context", "reasoning", "skill", "response_preparing", "response_streaming", "finalizing"}
        \subseteq Phases \ Ends
  BY DEF Phases, Ends
<1>6. \A type \in {"context.loaded", "agent.iteration.started", "context.budget.exceeded",
                   "context.snapshot.created", "llm.started", "llm.completed", "agent.decision",
                   "skill.context.released", "agent.max_iterations_reached", "answer.started",
                   "assistant.delta", "answer.generated"} :
          type # "answer.completed" /\ type # "skill.context.loaded"
  OBVIOUS
<1>7. QED BY <1>2, <1>3, <1>4, <1>5, <1>6

(* Nothing but the program loads the context, and it is told so.           *)
LEMMA StartStory ==
  ASSUME IInv, Story, Start
  PROVE  Story'
<1> DEFINE s == <<Phase("context"), Event("context.loaded")>>
<1>1. /\ place = "ready" /\ place' = "deciding" /\ script' = [script EXCEPT !["program"] = s]
      /\ UNCHANGED <<calls, skills, hot, saving, page>>
  BY DEF Start, GoTo, Says, KeepProgram, ui
<1>2. s \in Seq(Fitting(place', skills'))
  BY PlainWords
<1>3. /\ s \in Seq(Working) /\ {s[i] : i \in 1..Len(s)} \subseteq Fitting(place', skills')
      /\ ~HasSkills
  BY <1>1, <1>2, OtherWords, WordsOf DEF Story, SkillsInUse
<1> HIDE DEF s
<1>4. QED BY <1>1, <1>3, ProgramAlone, ProgramTells

(* An answer ends with its words. *)
LEMMA AnsweringFits ==
  ASSUME NEW s \in {Answering, <<Event("agent.max_iterations_reached")>> \o Answering},
         NEW using
  PROVE  /\ s \in Seq(Fitting("answering", using))
         /\ s # <<>> /\ s[Len(s)].type = "assistant.delta"
<1> DEFINE F == Fitting("answering", using)
<1>1. /\ \A type \in {"agent.max_iterations_reached", "answer.started", "assistant.delta"} : Event(type) \in F
      /\ Phase("response_preparing") \in F /\ Phase("response_streaming") \in F
  BY PlainWords
<1> HIDE DEF F
<1> DEFINE u == Event("agent.max_iterations_reached")
           v == Phase("response_preparing")
           x == Event("answer.started")
           y == Phase("response_streaming")
           z == Event("assistant.delta")
<1>2. Answering = <<v, x, y, z>> /\ {u, v, x, y, z} \subseteq F /\ z.type = "assistant.delta"
  BY <1>1 DEF Answering, Event
<1>3. s \in {<<v, x, y, z>>, <<u>> \o <<v, x, y, z>>}
  BY <1>2
<1> HIDE DEF u, v, x, y, z
<1>4. CASE s = <<v, x, y, z>>
  <2>1. <<v, x, y, z>> \in Seq(F) /\ <<v, x, y, z>> # <<>> /\ <<v, x, y, z>>[Len(<<v, x, y, z>>)] = z
    BY <1>2
  <2>2. QED BY <1>2, <1>4, <2>1 DEF F
<1>5. CASE s = <<u>> \o <<v, x, y, z>>
  <2> DEFINE q == <<u>> \o <<v, x, y, z>>
  <2>1. q \in Seq(F) /\ q # <<>> /\ q[Len(q)] = z
    BY <1>2
  <2> HIDE DEF q
  <2>2. QED BY <1>2, <1>5, <2>1 DEF F, q
<1>6. QED BY <1>3, <1>4, <1>5

(* An iteration tells of the skills in use. *)
LEMMA ReasoningFits ==
  ASSUME NEW n
  PROVE  Reasoning(n) \in Seq(Fitting("thinking", skills))
<1> DEFINE F == Fitting("thinking", skills)
<1>1. /\ \A type \in {"agent.iteration.started", "context.budget.exceeded",
                      "context.snapshot.created", "llm.started"} : Event(type) \in F
      /\ Phase("reasoning") \in F /\ Phase("skill") \in F
      /\ skills => Event("skill.context.loaded") \in F
  BY PlainWords
<1> HIDE DEF F
<1>2. Reasoning(n) \in Seq(F)
  BY <1>1 DEF Reasoning, If
<1>3. QED BY <1>2 DEF F

(* An iteration begins, or the limit is reached. *)
LEMMA IterateStory ==
  ASSUME IInv, Story, Iterate
  PROVE  Story'
<1>1. /\ place = "deciding"
      /\ UNCHANGED <<calls, skills, hot, saving, page>>
  BY DEF Iterate, At, KeepProgram, ui
<1>2. ~HasSkills
  BY <1>1 DEF Story, SkillsInUse
<1>3. CASE place' = "thinking" /\ script' = [script EXCEPT !["program"] = Reasoning(round')]
  <2> DEFINE s == Reasoning(round')
  <2>1. s \in Seq(Working) /\ {s[i] : i \in 1..Len(s)} \subseteq Fitting(place', skills')
    BY <1>1, <1>3, ReasoningWords, ReasoningFits, WordsOf
  <2> HIDE DEF s
  <2>2. script' = [script EXCEPT !["program"] = s]
    BY <1>3 DEF s
  <2>3. QED BY <1>1, <1>2, <1>3, <2>1, <2>2, ProgramAlone, ProgramTells
<1>4. CASE place' = "answering"
           /\ script' = [script EXCEPT !["program"] =
                            <<Event("agent.max_iterations_reached")>> \o Answering]
  <2> DEFINE s == <<Event("agent.max_iterations_reached")>> \o Answering
  <2>1. /\ s \in Seq(Working) /\ {s[i] : i \in 1..Len(s)} \subseteq Fitting(place', skills')
        /\ s # <<>> /\ s[Len(s)].type = "assistant.delta"
    BY <1>1, <1>4, AnsweringWords, AnsweringFits, WordsOf
  <2> HIDE DEF s
  <2>2. script' = [script EXCEPT !["program"] = s]
    BY <1>4 DEF s
  <2>3. QED BY <1>1, <1>2, <1>4, <2>1, <2>2, ProgramAlone, ProgramTells
<1>5. QED BY <1>3, <1>4 DEF Iterate, GoTo, Says

(* The answer begins. *)
LEMMA AnswerStory ==
  ASSUME IInv, Story, Answer
  PROVE  Story'
<1>1. /\ place = "thought" /\ place' = "answering" /\ script["program"] = <<>>
      /\ script' = [script EXCEPT !["program"] = Answering]
      /\ UNCHANGED <<calls, skills, hot, saving, page>>
  BY DEF Answer, At, Idle, GoTo, Says, KeepProgram, ui
<1>2. ~HasSkills
  <2>1. Said("program") = {}
    BY <1>1 DEF Said
  <2>2. QED BY <1>1, <2>1 DEF Story, SkillsInUse
<1> DEFINE s == Answering
<1>3. /\ s \in Seq(Working) /\ {s[i] : i \in 1..Len(s)} \subseteq Fitting(place', skills')
      /\ s # <<>> /\ s[Len(s)].type = "assistant.delta"
  BY <1>1, AnsweringWords, AnsweringFits, WordsOf
<1>4. script' = [script EXCEPT !["program"] = s]
  BY <1>1
<1> HIDE DEF s
<1>5. QED BY <1>1, <1>2, <1>3, <1>4, ProgramAlone, ProgramTells

(* What is released is said so before anything else. *)
LEMMA ReleasedFits ==
  ASSUME NEW p, NEW using, NEW s \in {Released, Released \o <<Event("llm.completed"), Event("agent.decision")>>}
  PROVE  /\ s \in Seq(Fitting(p, using))
         /\ skills => \E i \in 1..Len(s) : s[i].type = "skill.context.released"
<1> DEFINE F == Fitting(p, using)
<1>1. /\ Event("skill.context.released") \in F /\ Event("llm.completed") \in F /\ Event("agent.decision") \in F
  BY PlainWords
<1> HIDE DEF F
<1>2. \A x, y, z \in F : /\ <<>> \in Seq(F) /\ <<x>> \in Seq(F)
                         /\ <<>> \o <<y, z>> \in Seq(F) /\ <<x>> \o <<y, z>> \in Seq(F)
  OBVIOUS
<1>3. \A x, y, z : /\ 1 \in 1..Len(<<x>>) /\ <<x>>[1] = x
                   /\ 1 \in 1..Len(<<x>> \o <<y, z>>) /\ (<<x>> \o <<y, z>>)[1] = x
  OBVIOUS
<1> DEFINE x == Event("skill.context.released")
           y == Event("llm.completed")
           z == Event("agent.decision")
           r == IF skills THEN <<x>> ELSE <<>>
<1>4. s \in {r, r \o <<y, z>>} /\ x.type = "skill.context.released" /\ {x, y, z} \subseteq F
  BY <1>1 DEF Released, If, Event
<1> HIDE DEF x, y, z
<1>5. s \in Seq(F)
  BY <1>2, <1>4
<1>6. skills => 1 \in 1..Len(s) /\ s[1] = x
  BY <1>3, <1>4
<1>7. QED BY <1>4, <1>5, <1>6 DEF F

(* The model responds. *)
LEMMA ThinkStory ==
  ASSUME IInv, Story, Think
  PROVE  Story'
<1> DEFINE s == Released \o <<Event("llm.completed"), Event("agent.decision")>>
<1>1. /\ place = "thinking" /\ place' = "thought"
      /\ script' = [script EXCEPT !["program"] = s]
      /\ UNCHANGED <<calls, hot, saving, page>>
  BY DEF Think, At, GoTo, Says, KeepProgram, ui
<1>2. HasSkills => skills
  BY <1>1 DEF Story, SkillsInUse
<1>3. /\ s \in Seq(Working) /\ {s[i] : i \in 1..Len(s)} \subseteq Fitting(place', skills')
      /\ skills => \E i \in 1..Len(s) : s[i].type = "skill.context.released"
  BY OtherWords, ReleasedFits, WordsOf
<1> HIDE DEF s
<1>4. QED BY <1>1, <1>2, <1>3, ProgramAlone, ProgramTells

(* The answer is complete. *)
LEMMA ConcludeStory ==
  ASSUME IInv, Story, Conclude
  PROVE  Story'
<1> DEFINE s == <<Event("answer.generated"), Event("answer.completed"), Phase("finalizing"),
                  Phase("finalizing"), Event("context.snapshot.created")>>
<1>1. /\ place = "answering" /\ place' = "finalizing" /\ script["program"] = <<>>
      /\ script' = [script EXCEPT !["program"] = s]
      /\ UNCHANGED <<calls, skills, hot, saving, page>>
  BY DEF Conclude, At, Idle, GoTo, Says, KeepProgram, ui
<1>2. HasText /\ ~HasSkills
  BY <1>1 DEF Story, Answered, SkillsInUse
<1>3. s \in Seq(Fitting("finalizing", skills))
  <2> DEFINE F == Fitting("finalizing", skills)
  <2>1. /\ Event("answer.generated") \in F /\ Event("answer.completed") \in F
        /\ Phase("finalizing") \in F /\ Event("context.snapshot.created") \in F
    BY PlainWords
  <2> HIDE DEF F
  <2>2. s \in Seq(F)
    BY <2>1
  <2>3. QED BY <2>2 DEF F
<1>4. s \in Seq(Working) /\ {s[i] : i \in 1..Len(s)} \subseteq Fitting(place', skills')
  BY <1>1, <1>3, OtherWords, WordsOf
<1> HIDE DEF s
<1>5. QED BY <1>1, <1>2, <1>4, ProgramAlone, ProgramTells

(* All calls are over. *)
LEMMA ActedStory ==
  ASSUME IInv, Story, Acted
  PROVE  Story'
<1> DEFINE s == <<>>
<1>1. /\ place = "acting" /\ place' = "deciding" /\ Idle("program")
      /\ \A c \in Calls : calls[c] = "idle" /\ calls'[c] = "idle"
      /\ script' = [script EXCEPT !["program"] = s]
      /\ UNCHANGED <<skills, hot, saving, page>>
  BY DEF Acted, At, Returned, GoTo, Says, KeepProgram, ui
<1>2. saving["runtime"] = None \/ saving["runtime"].type # "skill.requested"
  BY <1>1, ThreadsDiffer DEF Idle, Story, Timely
<1>3. ~HasSkills
  BY <1>1 DEF Story, SkillsInUse
<1>4. s \in Seq(Working) /\ {s[i] : i \in 1..Len(s)} \subseteq Fitting(place', skills')
  OBVIOUS
<1> HIDE DEF s
<1>5. QED BY <1>1, <1>2, <1>3, <1>4, ProgramTells

(* The calls begin. *)
LEMMA ActStory ==
  ASSUME IInv, Story, Act
  PROVE  Story'
<1>1. /\ place = "thought" /\ place' = "acting" /\ script["program"] = <<>>
      /\ UNCHANGED <<hot, saving, page>>
  BY DEF Act, At, Idle, KeepProgram, ui
<1>2. PICK T \in SUBSET Calls, request \in {"none"} \cup Requests :
        /\ calls' = [c \in Calls |-> IF c \in T THEN "opening" ELSE "idle"]
        /\ script' = [t \in Threads |->
                CASE t \in T -> <<Phase("tool"), Tool("tool.started", t)>>
                  [] t = "program" /\ request = "granted" -> <<Event("skill.requested")>>
                  [] t = "program" /\ request = "refused" -> <<Tool("tool.failed", None)>>
                  [] OTHER -> script[t]]
  BY DEF Act
<1>3. /\ \A c \in Calls : calls[c] = "idle"
      /\ saving["runtime"] = None \/ saving["runtime"].type # "skill.requested"
  BY <1>1, ProgramAlone
<1>4. ~HasSkills
  <2>1. Said("program") = {}
    BY <1>1 DEF Said
  <2>2. QED BY <1>1, <2>1 DEF Story, SkillsInUse
<1>5. Formed' /\ PageKnown' /\ (HasText' <=> HasText) /\ ~HasSkills'
  BY <1>1, <1>4 DEF Story, Formed, PageKnown, HasText, HasSkills
<1>6. script'["program"] \in {<<Event("skill.requested")>>, <<Tool("tool.failed", None)>>, <<>>}
  BY <1>1, <1>2, ThreadsDiffer
<1>7. Said("program")' \subseteq {Event("skill.requested"), Tool("tool.failed", None)}
  BY <1>6 DEF Said
<1>8. Timely'
  BY <1>1, <1>3, <1>7, NoneAssumption DEF Timely, Event, Tool, ToolEvents, PhaseOf, Phases, Ends
<1>9. Answered' /\ SkillsInUse'
  BY <1>1, <1>5 DEF Story, Answered, SkillsInUse
<1>10. ASSUME NEW c \in Calls PROVE CallStands(c)'
  <2>1. CallStands(c) /\ (Shows(c)' <=> Shows(c)) /\ (Ended' <=> Ended)
    BY <1>1 DEF Story, AtWork, Shows, Ended
  <2>2. calls[c] = "idle" /\ script[c] = <<>> /\ (Ended \/ ~Shows(c))
        /\ (saving["runtime"] # None => saving["runtime"].by # c)
    BY <1>1, <1>3, <2>1 DEF CallStands
  <2>3. CASE c \in T
    <3>1. calls'[c] = "opening" /\ script'[c] = <<Phase("tool"), Tool("tool.started", c)>>
      BY <1>2, <2>3, ThreadsDiffer
    <3>2. \A x, y : <<x, y>> # <<>>
      OBVIOUS
    <3>3. QED BY <1>1, <2>1, <2>2, <3>1, <3>2 DEF CallStands
  <2>4. CASE c \notin T
    <3>1. calls'[c] = "idle" /\ script'[c] = <<>>
      BY <1>2, <2>2, <2>4, ThreadsDiffer
    <3>2. QED BY <1>1, <2>1, <2>2, <3>1 DEF CallStands
  <2>5. QED BY <2>3, <2>4
<1>11. QED BY <1>5, <1>8, <1>9, <1>10 DEF Story, AtWork

(* A step of one call, while nothing is told. *)
LEMMA CallSteps ==
  ASSUME IInv, Story, NEW c \in Calls, UNCHANGED <<hot, skills, saving, place, page>>,
         calls[c] # "idle",
         \A t \in Threads \ {"handler", c} : script'[t] = script[t],
         calls' = [calls EXCEPT ![c] = calls'[c]],
         CallStands(c)'
  PROVE  Story'
<1>1. script'["program"] = script["program"] /\ Said("program")' = Said("program")
  BY ThreadsDiffer DEF Said
<1>2. Formed' /\ PageKnown' /\ (HasText' <=> HasText) /\ (HasSkills' <=> HasSkills)
  BY DEF Story, Formed, PageKnown, HasText, HasSkills
<1>3. Timely' /\ Answered' /\ SkillsInUse'
  BY <1>1, <1>2 DEF Story, Timely, Answered, SkillsInUse
<1>4. ASSUME NEW d \in Calls \ {c} PROVE CallStands(d)'
  <2>1. CallStands(d) /\ (Shows(d)' <=> Shows(d)) /\ (Ended' <=> Ended)
    BY DEF Story, AtWork, Shows, Ended
  <2>2. script'[d] = script[d] /\ calls'[d] = calls[d]
    BY ThreadsDiffer DEF IInv, Begun
  <2>3. QED BY <2>1, <2>2 DEF CallStands
<1>5. QED BY <1>2, <1>3, <1>4 DEF Story, AtWork

(* A word after none, or after another. *)
LEMMA JoinOne ==
  ASSUME NEW x, NEW y
  PROVE  <<>> \o <<y>> = <<y>> /\ <<x>> \o <<y>> = <<x, y>>
<1> DEFINE S == {x, y}
<1>1. /\ <<x>> \in Seq(S) /\ <<y>> \in Seq(S) /\ <<x, y>> \in Seq(S)
      /\ <<x>> \o <<y>> \in Seq(S)
  OBVIOUS
<1>2. Len(<<x>> \o <<y>>) = 2 /\ \A i \in 1..2 : (<<x>> \o <<y>>)[i] = <<x, y>>[i]
  OBVIOUS
<1>3. Len(<<x, y>>) = 2
  OBVIOUS
<1>4. QED BY <1>1, <1>2, <1>3, SeqEqual, ConcatEmptySeq

(* A tool responds. *)
LEMMA RespondStory ==
  ASSUME IInv, Story, NEW c \in Calls, Respond(c)
  PROVE  Story'
<1>1. /\ calls[c] = "opening" /\ calls' = [calls EXCEPT ![c] = "closing"]
      /\ script[c] = <<>> /\ (saving["runtime"] # None => saving["runtime"].by # c)
      /\ UNCHANGED <<place, skills, hot, saving, page>>
  BY ThreadsDiffer DEF Respond, Idle, KeepProgram, ui
<1>2. PICK s \in {<<Event("context.retrieved"), Tool("tool.completed", c)>>,
                  <<Tool("tool.completed", c)>>, <<Tool("tool.failed", c)>>} :
        script' = [script EXCEPT ![c] = s]
  BY JoinOne DEF Respond, Says, If
<1>3. s # <<>>
  <2>1. \A x, y : <<x>> # <<>> /\ <<x, y>> # <<>>
    OBVIOUS
  <2>2. QED BY <1>2, <2>1
<1>4. /\ \A t \in Threads \ {"handler", c} : script'[t] = script[t]
      /\ script'[c] = s /\ calls'[c] = "closing"
  BY <1>1, <1>2, ThreadsDiffer DEF IInv, Spoken, Begun
<1>5. CallStands(c)'
  <2>1. CallStands(c)
    BY DEF Story, AtWork
  <2>2. QED BY <1>1, <1>2, <1>3, <1>4, <2>1 DEF CallStands
<1>6. QED BY <1>1, <1>4, <1>5, CallSteps

(* A call is over, and the run with it when it cannot be recorded. *)
LEMMA ReturnStory ==
  ASSUME IInv, Story, NEW c \in Calls, Return(c)
  PROVE  Story'
<1>1. /\ calls[c] = "closing" /\ calls' = [calls EXCEPT ![c] = "idle"]
      /\ script[c] = <<>> /\ (saving["runtime"] # None => saving["runtime"].by # c)
      /\ place' = place \/ place' = "over"
      /\ UNCHANGED <<skills, hot, saving, script, page>>
  BY ThreadsDiffer DEF Return, Idle, RunFails, KeepProgram, ui
<1>2. CallStands(c) /\ calls'[c] = "idle" /\ \A d \in Calls \ {c} : calls'[d] = calls[d]
  BY <1>1 DEF Story, AtWork, IInv, Begun
<1>3. place \in {"acting", "over"}
  BY <1>1, <1>2 DEF CallStands
<1>4. CASE place' = place
  <2>1. (Shows(c)' <=> Shows(c)) /\ (Ended' <=> Ended)
    BY <1>1 DEF Shows, Ended
  <2>2. CallStands(c)'
    BY <1>1, <1>2, <1>4, <2>1 DEF CallStands
  <2>3. QED BY <1>1, <1>2, <1>4, <2>2, CallSteps
<1>5. CASE place' = "over"
  BY <1>1, <1>2, <1>3, <1>5, ProgramEnds
<1>6. QED BY <1>1, <1>4, <1>5

(* The program returns, or what it raised ends the run. *)
LEMMA FinishStory ==
  ASSUME IInv, Story, Finish \/ Raised
  PROVE  Story'
<1>1. /\ place' = "over" /\ script["program"] = <<>>
      /\ UNCHANGED <<script, skills, calls, hot, saving, page>>
  BY DEF Finish, Raised, At, Idle, KeepProgram, ui
<1>2. QED BY <1>1, ProgramEnds

(* The program raises. *)
LEMMA ProgramRaisesStory ==
  ASSUME IInv, Story, ProgramRaises
  PROVE  Story'
<1>1. /\ place \in {"deciding", "thinking", "answering", "finalizing"} /\ saving["runtime"] = None
      /\ UNCHANGED <<skills, calls, hot, saving, page>>
      /\ DOMAIN script = Threads
  BY DEF ProgramRaises, KeepProgram, ui, IInv, Spoken
<1>2. CASE place' = "raising" /\ script' = [script EXCEPT !["program"] = Released]
  <2> DEFINE s == Released
  <2>1. s \in Seq(Working) /\ {s[i] : i \in 1..Len(s)} \subseteq Fitting(place', skills')
    BY OtherWords, ReleasedFits, WordsOf
  <2>2. script' = [script EXCEPT !["program"] = s]
    BY <1>2
  <2> HIDE DEF s
  <2>3. \A c \in Calls : calls[c] = "idle"
    BY <1>1, ProgramAlone
  <2>4. QED BY <1>1, <1>2, <2>1, <2>2, <2>3, ProgramTells
<1>3. CASE place' = "over" /\ script' = [script EXCEPT !["program"] = <<>>]
  <2>1. script'["program"] = <<>> /\ \A c \in Calls : script'[c] = script[c]
    BY <1>1, <1>3, ThreadsDiffer
  <2>2. QED BY <1>1, <1>3, <2>1, ProgramEnds
<1>4. QED BY <1>2, <1>3 DEF ProgramRaises, GoTo, Says, RunFails

(* The run is cancelled. *)
LEMMA CancelStory ==
  ASSUME IInv, Story, Cancel
  PROVE  Story'
<1>1. /\ place # "over" /\ \A c \in Calls : calls'[c] = "idle"
      /\ saving'["runtime"] = None
      /\ UNCHANGED <<skills, hot, page>>
      /\ DOMAIN script = Threads
  BY DEF Cancel, ui, IInv, Spoken, Saved, Sinks
<1>2. CASE /\ place = "thinking" /\ place' = "cancelling"
           /\ script' = [script EXCEPT !["program"] = Released]
  <2> DEFINE s == Released
  <2>1. s \in Seq(Working) /\ {s[i] : i \in 1..Len(s)} \subseteq Fitting(place', skills')
    BY OtherWords, ReleasedFits, WordsOf
  <2>2. script' = [script EXCEPT !["program"] = s]
    BY <1>2
  <2> HIDE DEF s
  <2>3. \A c \in Calls : calls[c] = "idle"
    BY <1>2, ProgramAlone
  <2>4. QED BY <1>1, <1>2, <2>1, <2>2, <2>3, ProgramTells
<1>3. CASE /\ place' = "over"
           /\ script' = [t \in Threads |-> IF t = "handler" THEN script[t] ELSE <<>>]
  <2>1. script'["program"] = <<>> /\ \A c \in Calls : script'[c] = <<>>
    BY <1>3, ThreadsDiffer
  <2>2. QED BY <1>1, <1>3, <2>1, ProgramEnds
<1>4. QED BY <1>2, <1>3 DEF Cancel, At, GoTo, Says

(* What the handler does, or is asked to, changes nothing that is shown    *)
(* until it is told.                                                       *)
LEMMA HandlerStory ==
  ASSUME IInv, Story, Begin \/ BeginCancelled \/ Abandon \/ Settle \/ RequestCancel
  PROVE  Story'
<1>1. /\ DOMAIN script = Threads /\ (row.status = "pending" => place = "queued")
      /\ PageKnown
  BY DEF IInv, Spoken, Begun, Story
<1>2. /\ UNCHANGED <<hot, calls, skills, saving, page>>
      /\ \A t \in Threads \ {"handler"} : script'[t] = script[t]
  BY <1>1 DEF Begin, BeginCancelled, Abandon, Settle, RequestCancel, Says, program, ui
<1>3. place' = place \/ (place = "queued" /\ place' \in {"ready", "over"})
  BY <1>1 DEF Begin, BeginCancelled, Abandon, Settle, RequestCancel, program
<1>4. PageKnown'
  BY <1>1, <1>2 DEF PageKnown
<1>5. QED BY <1>2, <1>3, <1>4, Quiet

(* The projection expires when all is told. *)
LEMMA ExpireStory ==
  ASSUME IInv, Story, Expire
  PROVE  Story'
<1>1. /\ place = "over" /\ hot' = None
      /\ UNCHANGED <<place, skills, calls, script, saving, page>>
  BY DEF Expire, program, ui
<1>2. Said("program")' = Said("program")
  BY <1>1 DEF Said
<1>3. Timely' /\ Answered' /\ SkillsInUse' /\ Formed' /\ PageKnown'
  BY <1>1, <1>2 DEF Story, Timely, Answered, SkillsInUse, Formed, PageKnown, HasText, HasSkills
<1>4. ASSUME NEW c \in Calls PROVE CallStands(c)'
  <2>1. CallStands(c)
    BY DEF Story, AtWork
  <2>2. QED BY <1>1, <2>1 DEF CallStands
<1>5. QED BY <1>3, <1>4 DEF Story, AtWork

(* What the page does. *)
LEMMA PageStory ==
  ASSUME IInv, Story, Page
  PROVE  Story'
<1>1. PageKnown
  BY DEF Story
<1>2. PageKnown'
  <2>1. CASE Stop
    BY <1>1, <2>1 DEF Stop, PageKnown
  <2>2. CASE Check
    BY <1>1, <2>2 DEF Check, SeeRow, PageKnown
  <2>3. CASE Connect \/ Drop \/ Close \/ Reload
    BY <1>1, <2>3 DEF Connect, Drop, Close, Reload, SeeDurable, SeeState, NewPage, PageKnown
  <2>4. QED BY <2>1, <2>2, <2>3 DEF Page
<1>3. UNCHANGED <<hot, calls, skills, place, script, saving>>
  BY DEF Page, Connect, Drop, Check, Stop, Close, Reload, Backend, program
<1>4. QED BY <1>2, <1>3, Quiet

-----------------------------------------------------------------------------
(* Every step keeps the order in which things are told. *)
LEMMA NextStory ==
  IInv /\ Story /\ [Next]_vars => Story'
<1> SUFFICES ASSUME IInv, Story, [Next]_vars PROVE Story'
  OBVIOUS
<1>1. CASE Emissions
  <2>1. ASSUME NEW t \in Threads, Publish(t) PROVE Story'
    BY <2>1, HandlerSpeaks, ProgramSpeaks, CallSpeaks DEF Threads
  <2>2. QED BY <1>1, <2>1, EmitRefusedStory, RecordStory, RecordFailsStory DEF Emissions
<1>2. CASE Handler
  BY <1>2, HandlerStory, ExpireStory DEF Handler
<1>3. CASE Program
  BY <1>3, StartStory, IterateStory, ThinkStory, AnswerStory, ActStory, ActedStory, ConcludeStory,
     FinishStory, ProgramRaisesStory, CancelStory, RespondStory, ReturnStory DEF Program
<1>4. CASE Page
  BY <1>4, PageStory
<1>5. CASE UNCHANGED vars
  <2>1. PageKnown
    BY DEF Story
  <2>2. PageKnown' /\ UNCHANGED <<hot, calls, skills, place, script, saving>>
    BY <1>5, <2>1 DEF vars, program, ui, PageKnown
  <2>3. QED BY <2>2, Quiet
<1>6. QED BY <1>1, <1>2, <1>3, <1>4, <1>5 DEF Next

(* While the program runs, the calls shown as active are those at work, and *)
(* a skill is shown only while it is in use, however the events of parallel *)
(* calls mix and wherever an emission raises.                               *)
THEOREM WorkIsShown ==
  Spec => []AtWorkShown
<1>1. IInv /\ Story => AtWorkShown
  <2> SUFFICES ASSUME IInv, Story, hot # None, hot.status \notin Ends, place \notin {"over", "queued"}
               PROVE  /\ {c \in Calls : calls[c] = "opening" /\ Idle(c)} \subseteq hot.tools
                      /\ hot.tools \subseteq {c \in Calls : calls[c] = "opening" \/ ~Idle(c)}
                      /\ hot.skills => place \in {"thinking", "thought", "raising", "cancelling"}
    BY DEF AtWorkShown
  <2>1. ASSUME NEW c \in Calls
        PROVE  /\ calls[c] = "opening" /\ Idle(c) => c \in hot.tools
               /\ c \in hot.tools => calls[c] = "opening" \/ ~Idle(c)
    <3>1. CallStands(c)
      BY DEF Story, AtWork
    <3>2. QED BY <3>1 DEF CallStands, Shows, Ended, Idle
  <2>2. hot.tools \subseteq Calls
    BY DEF Story, Formed
  <2>3. hot.skills => place \in {"thinking", "thought", "raising", "cancelling"}
    BY DEF Story, SkillsInUse, HasSkills
  <2>4. QED BY <2>1, <2>2, <2>3
<1>2. QED
  BY <1>1, InitIInv, NextIInv, InitStory, NextStory, PTL DEF Spec

-----------------------------------------------------------------------------
(* A state frame takes nothing of the answer back. *)
LEMMA FrameLatches ==
  ASSUME NEW v, NEW p, p.phase = "finalizing" => p.text
  PROVE  LET w == SeeState(v, p) IN
         (v.started => w.started) /\ (v.completed => w.completed)
BY DEF SeeState

(* Nor does a live event, the row or the stop button. *)
LEMMA NothingTakenBack ==
  ASSUME IInv, Story, Next, page' # NewPage
  PROVE  (page.started => page'.started) /\ (page.completed => page'.completed)
<1>1. PageKnown /\ Answered
  BY DEF Story
<1>2. CASE UNCHANGED page
  BY <1>2
<1>3. ASSUME NEW t \in Threads, Publish(t)
      PROVE  (page.started => page'.started) /\ (page.completed => page'.completed)
  <2>1. \A v, n, e : LET w == SeeEvent(v, n, e) IN
           (v.started => w.started) /\ (v.completed => w.completed)
    BY DEF SeeEvent
  <2>2. Deliver(Head(script[t]))
    BY <1>3 DEF Publish
  <2>3. QED BY <2>1, <2>2 DEF Deliver
<1>4. CASE Connect
  <2>1. CASE hot # None /\ page' = SeeState(page, hot)
    BY <1>1, <2>1, FrameLatches DEF Answered
  <2>2. CASE page' = SeeDurable
    <3>1. row.status \in Status
      BY DEF IInv, RowKnown
    <3>2. InitialProjection(row.status, row.answer).phase # "finalizing"
      BY <3>1 DEF InitialProjection, PhaseFromStatus, Status, Ends
    <3>3. QED BY <2>2, <3>2, FrameLatches DEF SeeDurable
  <2>3. QED BY <1>2, <1>4, <2>1, <2>2 DEF Connect
<1>5. CASE Check
  BY <1>1, <1>5 DEF Check, SeeRow, PageKnown
<1>6. CASE Stop
  BY <1>1, <1>6 DEF Stop, PageKnown
<1>7. CASE Close \/ Reload
  BY <1>7 DEF Close, Reload
<1>8. CASE Drop
  BY <1>8 DEF Drop
<1>9. CASE Handler \/ Program
  BY <1>9 DEF Handler, Program, Begin, BeginCancelled, Abandon, Settle, RequestCancel, Expire,
     Start, Iterate, Think, Answer, Act, Acted, Conclude, Finish, ProgramRaises, Cancel, Raised,
     Respond, Return, KeepProgram, ui
<1>10. CASE Emissions
  BY <1>3, <1>10 DEF Emissions, EmitRefused, Record, RecordFails, ui
<1>11. QED BY <1>4, <1>5, <1>6, <1>7, <1>8, <1>9, <1>10 DEF Next, Page

(* A page that has said that the answer began, or is complete, does not    *)
(* take it back: no frame, event or row it is shown would, in whatever     *)
(* order they come.                                                        *)
THEOREM AnswerIsLatched ==
  Spec => ResponseLatch
<1>1. IInv /\ Story /\ [Next]_vars
        => [page' # NewPage => /\ page.started => page'.started
                               /\ page.completed => page'.completed]_vars
  BY NothingTakenBack
<1>2. QED
  BY <1>1, InitIInv, NextIInv, InitStory, NextStory, PTL DEF Spec, ResponseLatch

===============================================================================
