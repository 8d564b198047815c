----------------------------- MODULE ExecutionView -----------------------------
(***************************************************************************)
(* What an execution looks like while it runs and after: the events the    *)
(* program, its parallel tool calls and the handler publish in the order   *)
(* of their code, the projection every event is folded into, the trace     *)
(* rows written behind it, and one page of the UI that builds phase,       *)
(* response and activity panel from state frames and live events, through  *)
(* reconnects, reloads and the durable fallback.                           *)
(*                                                                         *)
(* An event is published, folded and delivered in one step: what happens   *)
(* between those is checked in Observation.  Of the texts only whether     *)
(* there is one matters here; ConversationPage has the rest.               *)
(***************************************************************************)
EXTENDS Naturals, FiniteSets, Sequences

CONSTANTS
    Calls,          \* ids of tool calls
    Requests,       \* bound: what may become of a skill request
    Searches,       \* those of the global context search
    MaxRounds,      \* policy.max_iterations
    Overflows,      \* the iterations whose context is over its budget
    Abandons,       \* bound: how a handler may end before its runtime
    MaxActivities,  \* settings.projection_max_activities
    MaxVisits,      \* bound: connections and reloads of the page
    MaxFaults,      \* bound: emissions that raise
    None            \* no value

ASSUME ConstantsAssumption ==
    /\ MaxRounds \in Nat \ {0} /\ MaxActivities \in Nat \ {0}
    /\ MaxVisits \in Nat /\ MaxFaults \in Nat
    /\ Searches \subseteq Calls
    /\ Requests \subseteq {"granted", "refused"}
    /\ Abandons \subseteq {"failed", "cancelled"}
    /\ None \notin Nat \cup {"answer"} /\ {"handler", "program", "answer"} \cap Calls = {}

VARIABLES
    row,        \* the execution row: status, and whether it has an answer
    place,      \* where the program stands
    outcome,    \* how the run went, for the handler
    round,      \* state["iteration"]
    skills,     \* state["active_skill_names"] is not empty
    calls,      \* where each tool call stands
    script,     \* of each thread: what it publishes before its next choice
    hot,        \* Redis: the projection, or None
    saving,     \* of each event sink: the trace row its emit is writing
    trace,      \* execution_traces
    page,       \* active_response
    link,       \* the page's connection
    history,    \* execution_trace_cache: the panel of the ended execution
    visits,     \* connections and reloads so far
    faults,     \* emissions that raised so far
    lost        \* history: activities whose trace row was not written

program == <<place, round, skills, calls>>
ui      == <<page, link, history, visits>>
vars    == <<row, program, outcome, script, hot, saving, trace, ui, faults, lost>>

-----------------------------------------------------------------------------
Ends     == {"completed", "failed", "cancelled"}
Status   == {"pending", "running", "cancel_requested"} \cup Ends
Phases   == {"context", "reasoning", "skill", "tool", "response_preparing",
             "response_streaming", "finalizing"} \cup (Status \ {"running"})

Threads  == {"handler", "program"} \cup Calls
Sinks    == {"lifecycle", "runtime"}
Sink(t)  == IF t = "handler" THEN "lifecycle" ELSE "runtime"

(* Event types, without "execution." in those of the handler. *)
ToolEvents == {"tool.started", "tool.completed", "tool.failed"}
Types ==
    {"execution.phase.changed", "context.loaded", "context.budget.exceeded",
     "context.snapshot.created", "context.retrieved", "agent.iteration.started",
     "agent.max_iterations_reached", "agent.decision", "skill.requested",
     "skill.context.loaded", "skill.context.released", "llm.started", "llm.completed",
     "answer.started", "assistant.delta", "answer.generated", "answer.completed"}
    \cup {"started"} \cup Ends \cup ToolEvents

(* Seeded fault: the end of a tool call leaves no row. *)
Traceable_NoToolEnds(type) ==
    type \notin {"llm.started", "llm.completed", "assistant.delta", "tool.completed"}

(* TRACEABLE_EVENT_TYPES *)
Traceable(type) == type \notin {"llm.started", "llm.completed", "assistant.delta"}

(* An event with what it is about: a phase, a call, or the answer it has.  *)
Event(type)   == [type |-> type, of |-> None]
Phase(p)      == [type |-> "execution.phase.changed", of |-> p]
Tool(type, c) == [type |-> type, of |-> c]
End(status, answer) == [type |-> status, of |-> IF answer THEN "answer" ELSE None]

(* Of an activity it matters whether it tells of a call of the model.      *)
Activity == [seq : Nat, model : BOOLEAN]

Told(seq, e) == [seq |-> seq, model |-> e.type \in {"llm.started", "llm.completed"}]

-----------------------------------------------------------------------------
(* The projection. *)

PhaseFromStatus(status) == IF status = "running" THEN "reasoning" ELSE status

InitialProjection(status, answer) ==
    [seq |-> 0, status |-> status, phase |-> PhaseFromStatus(status), text |-> answer,
     skills |-> FALSE, tools |-> {}, activities |-> <<>>]

(* Seeded fault: nothing is cut off. *)
Newest_All(s) == s

(* The last MaxActivities. *)
Newest(s) ==
    SubSeq(s, IF Len(s) > MaxActivities THEN Len(s) - MaxActivities + 1 ELSE 1, Len(s))

(* Seeded fault: a phase is taken over whatever the present one is. *)
NextPhase_Any(present, p) == IF p = None THEN present ELSE p

(* _set_phase *)
NextPhase(present, p) ==
    IF \/ p = None
       \/ present \in Ends /\ p \notin Ends
       \/ present = "response_streaming" /\ p = "response_preparing"
      THEN present ELSE p

(* The phase an event brings with it. *)
PhaseOf(e) ==
    CASE e.type = "execution.phase.changed" -> e.of
      [] e.type = "started" -> "context"
      [] e.type \in {"context.loaded", "agent.iteration.started", "llm.started",
                     "skill.context.released", "tool.completed", "tool.failed"} -> "reasoning"
      [] e.type \in {"skill.requested", "skill.context.loaded"} -> "skill"
      [] e.type = "tool.started" -> "tool"
      [] e.type \in {"answer.started", "assistant.delta"} -> "response_streaming"
      [] e.type = "answer.completed" -> "finalizing"
      [] e.type \in Ends -> e.type
      [] OTHER -> None

(* Seeded fault: the end of one call clears them all. *)
ToolsAfter_OneClearsAll(tools, e) ==
    CASE e.type = "tool.started" -> tools \cup {e.of}
      [] e.type \in {"tool.completed", "tool.failed"} \cup Ends -> {}
      [] OTHER -> tools

(* _mark_tool_started, _mark_tool_finished, and an end clears the list.    *)
ToolsAfter(tools, e) ==
    CASE e.type = "tool.started" -> tools \cup {e.of}
      [] e.type \in {"tool.completed", "tool.failed"} -> tools \ {e.of}
      [] e.type \in Ends -> {}
      [] OTHER -> tools

SkillsAfter(active, e) ==
    \/ e.type = "skill.context.loaded"
    \/ active /\ e.type \notin {"skill.context.released"} \cup Ends

StatusAfter(status, e) ==
    CASE e.type = "started" -> "running"
      [] e.type \in Ends -> e.type
      [] OTHER -> status

(* Every event but a delta is an activity. *)
Activities(seq, e) ==
    IF e.type = "assistant.delta" THEN <<>> ELSE <<Told(seq, e)>>

(* reduce_projection *)
Reduce(p, seq, e) ==
    [seq        |-> seq,
     status     |-> StatusAfter(p.status, e),
     phase      |-> NextPhase(p.phase, PhaseOf(e)),
     text       |-> p.text \/ e.type = "assistant.delta" \/ e.of = "answer",
     skills     |-> SkillsAfter(p.skills, e),
     tools      |-> ToolsAfter(p.tools, e),
     activities |-> Newest(p.activities \o Activities(seq, e))]

-----------------------------------------------------------------------------
(* The page: new_observation_state, apply_observed_frame. *)

NewPage ==
    [phase |-> "pending", text |-> FALSE, started |-> FALSE, completed |-> FALSE, panel |-> <<>>]

Seqs(panel) == {panel[i].seq : i \in DOMAIN panel}

(* Seeded fault: what the panel already has is added again. *)
Remember_Again(panel, activities) == panel \o activities

(* Seeded fault: several at once are taken only into an empty panel. *)
Remember_IfEmpty(panel, activities) ==
    IF panel = <<>> THEN activities
    ELSE IF Len(activities) = 1 /\ activities[1].seq \notin Seqs(panel)
           THEN Append(panel, activities[1]) ELSE panel

(* _remember_activity for one after the other. *)
Remember(panel, activities) ==
    LET after[n \in 0..Len(activities)] ==
          IF n = 0 THEN panel
          ELSE IF activities[n].seq \in Seqs(after[n - 1])
                 THEN after[n - 1] ELSE Append(after[n - 1], activities[n])
    IN  after[Len(activities)]

(* Seeded fault: a state frame decides anew whether the answer began. *)
SeeState_Unlatched(v, p) ==
    LET text == v.text \/ p.text
    IN  [phase     |-> p.phase,
         text      |-> text,
         started   |-> text \/ p.phase \in {"response_streaming", "finalizing", "completed"},
         completed |-> IF p.phase \in {"finalizing", "completed"}
                         THEN text \/ p.phase = "completed" ELSE v.completed,
         panel     |-> Remember(v.panel, p.activities)]

(* An execution.state frame with projection p. *)
SeeState(v, p) ==
    LET text == v.text \/ p.text
    IN  [phase     |-> p.phase,
         text      |-> text,
         started   |-> v.started \/ text
                         \/ p.phase \in {"response_streaming", "finalizing", "completed"},
         completed |-> IF p.phase \in {"finalizing", "completed"}
                         THEN text \/ p.phase = "completed" ELSE v.completed,
         panel     |-> Remember(v.panel, p.activities)]

(* Seeded fault: only phase events and ends change the phase. *)
PhaseShown_NotAnswer(e) ==
    CASE e.type = "execution.phase.changed" -> e.of
      [] e.type \in Ends -> e.type
      [] OTHER -> None

(* The phase a live event puts on the page: fewer events than in the       *)
(* projection do.                                                          *)
PhaseShown(e) ==
    CASE e.type = "execution.phase.changed" -> e.of
      [] e.type \in {"answer.started", "assistant.delta"} -> "response_streaming"
      [] e.type = "answer.completed" -> "finalizing"
      [] e.type \in Ends -> e.type
      [] OTHER -> None

(* A live event. *)
SeeEvent(v, seq, e) ==
    LET over == e.type \in {"answer.completed", "completed"}
                  \/ (e = Phase("finalizing") /\ v.text)
    IN  [phase     |-> IF PhaseShown(e) = None THEN v.phase ELSE PhaseShown(e),
         text      |-> v.text \/ e.type = "assistant.delta" \/ e.of = "answer",
         started   |-> v.started \/ over \/ e = Phase("response_streaming")
                         \/ e.type \in {"answer.started", "assistant.delta", "answer.generated"},
         completed |-> v.completed \/ over,
         panel     |-> Remember(v.panel, Activities(seq, e))]

(* _refresh_durable_result, _apply_durable_result: the row, and while the  *)
(* execution runs the text of its projection.                              *)
SeeRow(v) ==
    LET done == row.status = "completed"
        live == row.status \in {"running", "cancel_requested"} /\ hot # None /\ hot.text
    IN  [v EXCEPT !.phase = row.status,
                  !.text = @ \/ row.answer \/ live,
                  !.started = @ \/ done,
                  !.completed = @ \/ done]

-----------------------------------------------------------------------------
(* Publication: RedisExecutionEventSink.emit, one emission at a time in    *)
(* each sink.                                                              *)

Projected(e) ==
    LET p == IF hot = None THEN InitialProjection("pending", FALSE) ELSE hot
    IN  Reduce(p, p.seq + 1, e)

(* The frame reaches a page that is connected; an end disconnects it.      *)
Deliver(e) ==
    IF link = "live"
      THEN /\ page' = SeeEvent(page, hot'.seq, e)
           /\ link' = IF StatusAfter("running", e) \in Ends THEN "over" ELSE "live"
      ELSE UNCHANGED <<page, link>>

(* Thread t awaits something else than an emit of its own. *)
Idle(t) == script[t] = <<>> /\ (saving[Sink(t)] # None => saving[Sink(t)].by # t)

(* The searches of a response start when its skill requests are published, *)
(* its other calls when the searches have returned.                        *)
MayPublish(t) ==
    /\ script[t] # <<>> /\ saving[Sink(t)] = None
    /\ t \in Calls => Idle("program")
    /\ t \in Calls \ Searches => \A c \in Searches : calls[c] = "idle"

Publish(t) ==
    /\ MayPublish(t)
    /\ LET e == Head(script[t])
       IN  /\ hot' = Projected(e)
           /\ Deliver(e)
           /\ script' = [script EXCEPT ![t] = Tail(@)]
           /\ saving' = [saving EXCEPT ![Sink(t)] =
                 IF Traceable(e.type) THEN [by |-> t, type |-> e.type, row |-> Told(hot'.seq, e)]
                                      ELSE None]
    /\ UNCHANGED <<row, program, outcome, trace, history, visits, faults, lost>>

Record(s) ==
    /\ saving[s] # None
    /\ trace' = trace \cup {saving[s].row}
    /\ saving' = [saving EXCEPT ![s] = None]
    /\ UNCHANGED <<row, program, outcome, script, hot, ui, faults, lost>>

(* What an emission that raises leaves thread t with: the handler logs it, *)
(* a call whose result is being told tells a failure, a skill request is   *)
(* answered as a failed call, and any other ends the run as failed.        *)
RunFails ==
    /\ place' = "over"
    /\ outcome' = IF outcome = "none" THEN "failed" ELSE outcome

GoesOn == UNCHANGED <<place, outcome, calls>>

Raise(t, type) ==
    \/ /\ t = "handler"
       /\ script' = [script EXCEPT ![t] = <<>>] /\ GoesOn
    \/ /\ t \in Calls /\ type \in {"tool.completed", "context.retrieved"}
       /\ script' = [script EXCEPT ![t] = <<Tool("tool.failed", t)>>] /\ GoesOn
    \/ /\ type = "skill.requested"
       /\ script' = [script EXCEPT ![t] = <<Tool("tool.failed", None)>>] /\ GoesOn
    \/ /\ t \in Calls /\ type \notin {"tool.completed", "context.retrieved"}
       /\ LET over == {t} \cup IF t \in Searches THEN Calls \ Searches ELSE {}
          IN  /\ script' = [x \in Threads |-> IF x \in over THEN <<>> ELSE script[x]]
              /\ calls' = [c \in Calls |-> IF c \in over THEN "idle" ELSE calls[c]]
       /\ RunFails
    \/ /\ t = "program" /\ type # "skill.requested"
       /\ script' = [x \in Threads |-> IF x = "handler" THEN script[x] ELSE <<>>]
       /\ calls' = [c \in Calls |-> "idle"]
       /\ RunFails

(* Redis refuses the first command. *)
EmitRefused(t) ==
    /\ MayPublish(t) /\ faults < MaxFaults
    /\ Raise(t, Head(script[t]).type)
    /\ faults' = faults + 1
    /\ UNCHANGED <<row, round, skills, hot, saving, trace, ui, lost>>

(* The insert of the trace row raises. *)
RecordFails(s) ==
    /\ saving[s] # None /\ faults < MaxFaults
    /\ Raise(saving[s].by, saving[s].type)
    /\ saving' = [saving EXCEPT ![s] = None]
    /\ lost' = lost \cup {saving[s].row}
    /\ faults' = faults + 1
    /\ UNCHANGED <<row, round, skills, hot, trace, ui>>

-----------------------------------------------------------------------------
(* The handler: ExecutionConsumer._handle_message. *)

Says(t, s) == script' = [script EXCEPT ![t] = s]

Begin ==
    /\ row.status = "pending"
    /\ row' = [row EXCEPT !.status = "running"]
    /\ place' = "ready"
    /\ Says("handler", <<Event("started")>>)
    /\ UNCHANGED <<round, skills, calls, outcome, hot, saving, trace, ui, faults, lost>>

BeginCancelled ==
    /\ row.status = "cancel_requested" /\ place = "queued"
    /\ row' = [row EXCEPT !.status = "cancelled"]
    /\ place' = "over" /\ outcome' = "cancelled"
    /\ Says("handler", <<End("cancelled", FALSE)>>)
    /\ UNCHANGED <<round, skills, calls, hot, saving, trace, ui, faults, lost>>

(* The watcher raises, or the handler is cancelled: it closes the          *)
(* execution while the runtime goes on.                                    *)
Abandon ==
    /\ place \notin {"queued", "ready", "over"} /\ outcome = "none"
    /\ outcome' \in Abandons
    /\ UNCHANGED <<row, program, script, hot, saving, trace, ui, faults, lost>>

(* The final transaction, and the end it announces. *)
Settle ==
    /\ outcome # "none" /\ row.status \in {"running", "cancel_requested"}
    /\ LET end == IF row.status = "cancel_requested" THEN "cancelled" ELSE outcome
       IN  /\ row' = [status |-> end, answer |-> outcome = "completed"]
           /\ Says("handler", <<End(end, outcome = "completed")>>)
    /\ UNCHANGED <<program, outcome, hot, saving, trace, ui, faults, lost>>

(* request_cancel, from this page or another. *)
RequestCancel ==
    /\ row.status \in {"pending", "running"}
    /\ row' = [row EXCEPT !.status = "cancel_requested"]
    /\ UNCHANGED <<program, outcome, script, hot, saving, trace, ui, faults, lost>>

-----------------------------------------------------------------------------
(* The program: LangGraphAgentProgram, by what it publishes. *)

If(b, s) == IF b THEN s ELSE <<>>

(* Program step: from place p, when nothing of its own is under way, to q. *)
At(p)         == place = p /\ Idle("program")
GoTo(q, s)    == place' = q /\ Says("program", s)
KeepProgram   == UNCHANGED <<row, hot, saving, trace, ui, faults, lost>>

Start ==
    /\ place = "ready" /\ Idle("handler")
    /\ GoTo("deciding", <<Phase("context"), Event("context.loaded")>>)
    /\ UNCHANGED <<outcome, round, skills, calls>> /\ KeepProgram

Reasoning(n) ==
    <<Phase("reasoning"), Event("agent.iteration.started"),
      Phase(IF skills THEN "skill" ELSE "reasoning")>>
    \o If(n \in Overflows, <<Event("context.budget.exceeded"), Event("context.snapshot.created")>>)
    \o If(skills, <<Event("skill.context.loaded")>>)
    \o <<Phase("reasoning"), Event("llm.started")>>

(* One delta stands for all of an answer. *)
Answering ==
    <<Phase("response_preparing"), Event("answer.started"), Phase("response_streaming"),
      Event("assistant.delta")>>

Iterate ==
    /\ At("deciding")
    /\ \/ /\ round < MaxRounds
          /\ round' = round + 1
          /\ GoTo("thinking", Reasoning(round'))
       \/ /\ round = MaxRounds
          /\ GoTo("answering", <<Event("agent.max_iterations_reached")>> \o Answering)
          /\ UNCHANGED round
    /\ UNCHANGED <<outcome, skills, calls>> /\ KeepProgram

Released == If(skills, <<Event("skill.context.released")>>)

(* The model responds. *)
Think ==
    /\ At("thinking")
    /\ GoTo("thought", Released \o <<Event("llm.completed"), Event("agent.decision")>>)
    /\ skills' = FALSE
    /\ UNCHANGED <<outcome, round, calls>> /\ KeepProgram

Answer ==
    /\ At("thought")
    /\ GoTo("answering", Answering)
    /\ UNCHANGED <<outcome, round, skills, calls>> /\ KeepProgram

(* Tool calls and at most one skill request, granted or refused.           *)
Act ==
    /\ At("thought")
    /\ \E T \in SUBSET Calls, request \in {"none"} \cup Requests :
          /\ T # {} \/ request # "none"
          /\ calls' = [c \in Calls |-> IF c \in T THEN "opening" ELSE "idle"]
          /\ skills' = (request = "granted")
          /\ place' = "acting"
          /\ script' = [t \in Threads |->
                CASE t \in T -> <<Phase("tool"), Tool("tool.started", t)>>
                  [] t = "program" /\ request = "granted" -> <<Event("skill.requested")>>
                  [] t = "program" /\ request = "refused" -> <<Tool("tool.failed", None)>>
                  [] OTHER -> script[t]]
    /\ UNCHANGED <<outcome, round>> /\ KeepProgram

(* The tool answers or raises; a search tells how much it found.           *)
Respond(c) ==
    /\ calls[c] = "opening" /\ Idle(c)
    /\ calls' = [calls EXCEPT ![c] = "closing"]
    /\ \/ Says(c, <<Tool("tool.failed", c)>>)
       \/ Says(c, If(c \in Searches, <<Event("context.retrieved")>>)
                    \o <<Tool("tool.completed", c)>>)
    /\ UNCHANGED <<outcome, place, round, skills>> /\ KeepProgram

(* Recording the observation of a tool may raise: the run fails, the other *)
(* calls are not cancelled.                                                *)
Return(c) ==
    /\ calls[c] = "closing" /\ Idle(c)
    /\ calls' = [calls EXCEPT ![c] = "idle"]
    /\ \/ c \notin Searches /\ RunFails
       \/ UNCHANGED <<place, outcome>>
    /\ UNCHANGED <<script, round, skills>> /\ KeepProgram

(* asyncio.gather *)
Returned == \A c \in Calls : calls[c] = "idle"

Acted ==
    /\ At("acting") /\ Returned
    /\ GoTo("deciding", <<>>)
    /\ UNCHANGED <<outcome, round, skills, calls>> /\ KeepProgram

Conclude ==
    /\ At("answering")
    /\ GoTo("finalizing",
            <<Event("answer.generated"), Event("answer.completed"), Phase("finalizing"),
              Phase("finalizing"), Event("context.snapshot.created")>>)
    /\ UNCHANGED <<outcome, round, skills, calls>> /\ KeepProgram

Finish ==
    /\ At("finalizing")
    /\ place' = "over"
    /\ outcome' = IF outcome = "none" THEN "completed" ELSE outcome
    /\ UNCHANGED <<script, round, skills, calls>> /\ KeepProgram

(* The model, the memory or the limits raise; a call of the model releases *)
(* the skills on its way out.                                              *)
ProgramRaises ==
    /\ place \in {"deciding", "thinking", "answering", "finalizing"}
    /\ saving["runtime"] = None
    /\ IF At("thinking") /\ skills
         THEN GoTo("raising", Released) /\ UNCHANGED outcome
         ELSE RunFails /\ Says("program", <<>>)
    /\ UNCHANGED <<round, skills, calls>> /\ KeepProgram

(* The runtime task is cancelled, wherever it awaits. *)
Cancel ==
    /\ row.status = "cancel_requested" /\ outcome = "none"
    /\ place \notin {"queued", "ready", "over", "cancelling"}
    /\ IF At("thinking") /\ skills
         THEN GoTo("cancelling", Released) /\ UNCHANGED outcome
         ELSE /\ place' = "over" /\ outcome' = "cancelled"
              /\ script' = [t \in Threads |-> IF t = "handler" THEN script[t] ELSE <<>>]
    /\ calls' = [c \in Calls |-> "idle"]
    /\ saving' = [saving EXCEPT !["runtime"] = None]
    /\ lost' = lost \cup IF saving["runtime"] = None THEN {} ELSE {saving["runtime"].row}
    /\ UNCHANGED <<row, round, skills, hot, trace, ui, faults>>

Raised ==
    /\ At("raising") \/ At("cancelling")
    /\ place' = "over"
    /\ outcome' = IF outcome # "none" THEN outcome
                  ELSE IF place = "raising" THEN "failed" ELSE "cancelled"
    /\ UNCHANGED <<script, round, skills, calls>> /\ KeepProgram

(* The TTL of the projection runs out.  Each event sets it anew, so that   *)
(* nothing is under way any more.                                          *)
Expire ==
    /\ hot # None /\ row.status \in Ends /\ place = "over" /\ link # "live"
    /\ Returned /\ \A t \in Threads : Idle(t)
    /\ hot' = None
    /\ UNCHANGED <<row, program, outcome, script, saving, trace, ui, faults, lost>>

-----------------------------------------------------------------------------
(* The page: main, _observe_execution, _historical_activities. *)

Backend == <<row, program, outcome, script, hot, saving, trace, faults, lost>>

SeeDurable == SeeState(page, InitialProjection(row.status, row.answer))

(* The first frame: the projection, or the row when there is none, or when *)
(* Redis does not answer.                                                  *)
Connect ==
    /\ link = "away" /\ visits < MaxVisits
    /\ visits' = visits + 1
    /\ \/ /\ hot # None
          /\ page' = SeeState(page, hot)
          /\ link' \in IF hot.status \in Ends THEN {"over"} ELSE {"live", "checking"}
       \/ /\ page' = SeeDurable
          /\ link' = IF row.status \in Ends THEN "over" ELSE "checking"
       \/ link' = "checking" /\ UNCHANGED page
    /\ UNCHANGED <<Backend, history>>

Drop ==
    /\ link = "live" /\ visits < MaxVisits
    /\ link' = "checking"
    /\ UNCHANGED <<Backend, page, history, visits>>

(* The durable fallback; asking may fail. *)
Check ==
    /\ link = "checking"
    /\ \/ page' = SeeRow(page) /\ link' = IF row.status \in Ends THEN "over" ELSE "away"
       \/ link' = "away" /\ UNCHANGED page
    /\ UNCHANGED <<Backend, history, visits>>

(* The stop button: the script runs again. *)
Stop ==
    /\ link = "live" /\ visits < MaxVisits
    /\ row' = [row EXCEPT !.status = IF @ \in {"pending", "running"} THEN "cancel_requested" ELSE @]
    /\ page' = [page EXCEPT !.phase = "cancel_requested"]
    /\ link' = "away"
    /\ UNCHANGED <<program, outcome, script, hot, saving, trace, history, visits, faults, lost>>

(* The answer joins the history, its panel stays cached. *)
Close ==
    /\ link = "over"
    /\ link' = "done" /\ history' = page.panel /\ page' = NewPage
    /\ UNCHANGED <<Backend, visits>>

(* GET /executions/{id}/trace, in the order of the sequence numbers.       *)
Rows ==
    [n \in 1..Cardinality(trace) |->
        CHOOSE a \in trace : Cardinality({b \in trace : b.seq <= a.seq}) = n]

(* The page is loaded anew: an ended execution shows its trace, or, when   *)
(* that cannot be had, nothing.                                            *)
Reload ==
    /\ visits < MaxVisits
    /\ visits' = visits + 1
    /\ page' = NewPage
    /\ IF row.status \in Ends
         THEN link' = "done" /\ history' \in {Rows, <<>>}
         ELSE link' = "away" /\ history' = None
    /\ UNCHANGED Backend

-----------------------------------------------------------------------------
Init ==
    /\ row = [status |-> "pending", answer |-> FALSE]
    /\ place = "queued" /\ outcome = "none" /\ round = 0 /\ skills = FALSE
    /\ calls = [c \in Calls |-> "idle"]
    /\ script = [t \in Threads |-> <<>>]
    /\ hot = None /\ saving = [s \in Sinks |-> None] /\ trace = {}
    /\ page = NewPage /\ link = "away" /\ history = None
    /\ visits = 0 /\ faults = 0 /\ lost = {}

Emissions ==
    \/ \E t \in Threads : Publish(t) \/ EmitRefused(t)
    \/ \E s \in Sinks : Record(s) \/ RecordFails(s)

Handler == Begin \/ BeginCancelled \/ Abandon \/ Settle \/ RequestCancel \/ Expire

Program ==
    \/ Start \/ Iterate \/ Think \/ Answer \/ Act \/ Acted \/ Conclude \/ Finish
    \/ ProgramRaises \/ Cancel \/ Raised
    \/ \E c \in Calls : Respond(c) \/ Return(c)

Page == Connect \/ Drop \/ Check \/ Stop \/ Close \/ Reload

Next == Emissions \/ Handler \/ Program \/ Page

Spec == Init /\ [][Next]_vars

-----------------------------------------------------------------------------
View ==
    [phase : Phases \cup Status, text : BOOLEAN, started : BOOLEAN, completed : BOOLEAN,
     panel : Seq(Activity)]

Projection ==
    [seq : Nat, status : Status, phase : Phases, text : BOOLEAN, skills : BOOLEAN,
     tools : SUBSET (Calls \cup {None}), activities : Seq(Activity)]

Emission == [by : Threads, type : Types, row : Activity]

ASSUME NoneAssumption ==
    /\ None \notin Phases /\ None \notin Calls /\ None \notin Projection
    /\ None \notin Emission

(* Every variable keeps to its type: the projection keeps within its       *)
(* window of activities, and a page's phase is one of the projection's or  *)
(* the status of a row.                                                    *)
TypeOK ==
    /\ row \in [status : Status, answer : BOOLEAN]
    /\ hot # None => hot \in Projection /\ Len(hot.activities) <= MaxActivities
    /\ page \in View
    /\ history # None => history \in Seq(Activity)
    /\ saving \in [Sinks -> Emission \cup {None}]
    /\ trace \subseteq Activity /\ lost \subseteq Activity
    /\ link \in {"away", "live", "checking", "over", "done"}

(* A projection that shows an end shows it in status and phase, and it is  *)
(* the row's: calls and a program that outlive their handler go on         *)
(* publishing, and none of it takes the execution up again.                *)
EndStands ==
    hot # None /\ hot.status \in Ends => hot.phase = hot.status /\ row.status = hot.status

(* While the program runs, the calls shown as active are those that have   *)
(* started and whose result is not yet told, however their events mix, and *)
(* a skill is shown only from its loading to its release.                  *)
AtWorkShown ==
    hot # None /\ hot.status \notin Ends /\ place \notin {"over", "queued"} =>
        /\ {c \in Calls : calls[c] = "opening" /\ Idle(c)} \subseteq hot.tools
        /\ hot.tools \subseteq {c \in Calls : calls[c] = "opening" \/ ~Idle(c)}
        /\ hot.skills => place \in {"thinking", "thought", "raising", "cancelling"}

(* A page that has followed from anywhere, through drops, reloads and the  *)
(* row, shows as its newest activities what a page opened now would show.  *)
PanelIsCurrent == link = "live" => Newest(page.panel) = hot.activities

(* It also agrees with it on whether the answer began and is complete, and *)
(* from then on about the phase.                                           *)
ResponseIsCurrent ==
    link = "live" =>
        LET fresh == SeeState(NewPage, hot)
        IN  /\ page.text = fresh.text
            /\ page.started = fresh.started /\ page.completed = fresh.completed
            /\ page.started => page.phase = fresh.phase

Increasing(s) == \A i, j \in DOMAIN s : i < j => s[i].seq < s[j].seq

(* A panel, live or of the history, tells each activity once and in order. *)
PanelInOrder ==
    /\ Increasing(page.panel)
    /\ history # None => Increasing(history)

(* A page that has said that the answer began, or is complete, does not    *)
(* take it back, unless it is loaded anew.                                 *)
ResponseLatch ==
    [][page' # NewPage =>
          /\ page.started => page'.started
          /\ page.completed => page'.completed]_vars

(* What the panel of an ended execution has shown a reload shows again:    *)
(* all but the calls of the model, and rows not written or not yet; unless *)
(* the trace cannot be had.                                                *)
ReloadKeepsTheStory ==
    [][history # None /\ history' \notin {None, <<>>} =>
          \A i \in DOMAIN history :
              \/ history[i].model
              \/ history[i] \in lost \/ \E s \in Sinks : saving[s] # None /\ saving[s].row = history[i]
              \/ \E j \in DOMAIN history' : history'[j] = history[i]]_vars

=============================================================================
