---------------------------- MODULE AgentProgram ----------------------------
(***************************************************************************)
(* The program the runtime runs for one execution: a graph of four nodes   *)
(* (agent, reasoning, action, answer) that asks the model, runs the tool   *)
(* calls of its response in parallel, tells it their results and, within   *)
(* a limit of iterations, streams the answer; and the records of the       *)
(* session's memory it writes on the way.                                  *)
(*                                                                         *)
(* Texts are sequences of chunks.  What the model answers, which calls     *)
(* fail and whether the context is over its budget are choices; so is      *)
(* every failure of Redis (an emit), of the database (a record) and of the *)
(* model, and a cancel request at any time.                                *)
(***************************************************************************)
EXTENDS Naturals, FiniteSets, Sequences, SequencesExt

CONSTANTS
    Tools,          \* names of external tools
    MaxIterations,  \* policy.max_iterations
    MaxParallel,    \* policy.max_parallel_tool_calls_per_tool
    MaxCalls,       \* bound: tool calls in one response
    MaxChunks       \* bound: chunks of the streamed answer

SkillTool  == "use_skill"
SearchTool == "search_global_context"
Callable   == Tools \cup {SkillTool, SearchTool}

ASSUME ConstantsAssumption ==
    /\ MaxIterations \in Nat \ {0}
    /\ MaxParallel \in Nat \ {0}
    /\ MaxCalls \in Nat
    /\ MaxChunks \in Nat
    /\ Tools \cap {SkillTool, SearchTool} = {}

VARIABLES
    place,      \* where execute stands
    iteration,  \* state["iteration"]
    steps,      \* nodes the graph has run
    stopReason, \* state["stop_reason"]
    messages,   \* state["messages"]
    calls,      \* the tool calls of the last response and their tasks
    skills,     \* state["active_skill_names"] is not empty
    answer,     \* state["answer"]
    shown,      \* the assistant.delta events published
    entries,    \* global context entries this execution has appended
    snapshot    \* the session has a context snapshot

graph == <<iteration, steps, stopReason, messages, skills, answer>>
vars  == <<place, graph, calls, shown, entries, snapshot>>

-----------------------------------------------------------------------------
Ended  == {"returned", "raised", "cancelled"}
Places == {"load", "agent", "reasoning", "thinking", "action", "searching", "calling",
           "answer", "streaming", "finalizing", "summarizing"} \cup Ended

(* Chunks: a tool's outcome, texts of the model, and the texts the program *)
(* uses where the model gave none.  Blank is white space only.             *)
Blank == "blank"
Chunks == {Blank, "text", "draft", "ok", "error", "question", "snapshot", "skill",
           "instruction", "limit reached", "no answer"}

Roles  == {"system", "developer", "user", "assistant", "tool"}
CallId == Nat \X Nat
NoCall == <<0, 0>>

Message == [role : Roles, content : Seq(Chunks), calls : Seq(CallId), call : CallId]

Text(role, content) == [role |-> role, content |-> content, calls |-> <<>>, call |-> NoCall]

Prompt       == Text("system", <<>>)
Snapshot     == Text("developer", <<"snapshot">>)
Question     == Text("user", <<"question">>)
Skill        == Text("developer", <<"skill">>)
Instruction  == Text("developer", <<"instruction">>)
Assistant(s) == Text("assistant", s)

(* A call task: not created, waiting for its semaphore, at the tool, with  *)
(* an outcome to publish, to be recorded, and how it ended.                *)
AtWork == {"queued", "invoking", "succeeded", "failed", "recording"}
Stages == {"idle", "done", "raised", "cancelled"} \cup AtWork
Call   == [tool : Callable, stage : Stages, told : {"none", "ok", "error"},
           shown : SUBSET {"completed", "failed"}]

Kinds == {"user_message", "tool_result", "tool_error", "assistant_message"}
Entry == [kind : Kinds, call : CallId]

(* str.strip over the joined chunks. *)
Stripped(s) ==
    LET text == {i \in DOMAIN s : s[i] # Blank}
    IN  IF text = {} THEN <<>> ELSE SubSeq(s, Min(text), Max(text))

(* Seeded fault: two nodes per iteration, the action node is forgotten. *)
RecursionLimit_TwoNodes == MaxIterations * 2 + 2

RecursionLimit == Max({32, MaxIterations * 4 + 8})

-----------------------------------------------------------------------------
(* load_context and initial_messages. *)
LoadContext ==
    /\ place = "load"
    /\ entries' = Append(entries, [kind |-> "user_message", call |-> NoCall])
    /\ messages' = <<Prompt>> \o (IF snapshot THEN <<Snapshot>> ELSE <<>>) \o <<Question>>
    /\ place' = "agent"
    /\ UNCHANGED <<iteration, steps, stopReason, calls, skills, answer, shown, snapshot>>

(* _agent_node: one iteration more, or the end of them. *)
AgentNode ==
    /\ place = "agent"
    /\ steps' = steps + 1
    /\ \/ /\ iteration >= MaxIterations
          /\ answer' = IF Stripped(answer) # <<>> THEN Stripped(answer) ELSE <<"limit reached">>
          /\ stopReason' = "max_iterations"
          /\ place' = "answer"
          /\ UNCHANGED <<iteration, calls>>
       \/ /\ iteration < MaxIterations
          /\ iteration' = iteration + 1
          /\ calls' = <<>>
          /\ place' = "reasoning"
          /\ UNCHANGED <<answer, stopReason>>
    /\ UNCHANGED <<messages, skills, shown, entries, snapshot>>

(* Seeded fault: compaction keeps the newest message as well. *)
Compacted_KeepsLast == <<Head(messages), Snapshot, Last(messages)>>

(* _compact_messages. *)
Compacted == <<Head(messages), Snapshot, Question>>

(* _reasoning_node up to the model's response: prepare_reasoning leaves    *)
(* the messages alone, or saves a snapshot that takes their place and      *)
(* raises if even that is over the budget.                                 *)
PrepareReasoning ==
    /\ place = "reasoning"
    /\ steps' = steps + 1
    /\ \/ place' = "thinking" /\ UNCHANGED <<messages, snapshot>>
       \/ /\ snapshot' = TRUE
          /\ \/ place' = "thinking" /\ messages' = Compacted
             \/ place' = "raised" /\ UNCHANGED messages
    /\ UNCHANGED <<iteration, stopReason, calls, skills, answer, shown, entries>>

(* What llm.invoke or llm.stream is sent: skill instructions only in the   *)
(* one request, the instruction to answer only in the other.               *)
Request ==
    IF place = "streaming" THEN Append(messages, Instruction)
    ELSE IF skills THEN InsertAt(messages, 2, Skill) ELSE messages

NewCall(tool) == [tool |-> tool, stage |-> "idle", told |-> "none", shown |-> {}]

(* The rest of _reasoning_node: the model's response and its tool calls. *)
ModelResponds ==
    /\ place = "thinking"
    /\ \E tools \in SeqOf(Callable, MaxCalls), content \in {<<>>, <<"draft">>} :
        /\ calls' = [k \in DOMAIN tools |-> NewCall(tools[k])]
        /\ messages' = Append(messages, [Assistant(content) EXCEPT
                            !.calls = [k \in DOMAIN tools |-> <<iteration, k>>]])
        /\ \/ /\ tools # <<>>
              /\ place' = "action"
              /\ UNCHANGED <<answer, stopReason>>
           \/ /\ tools = <<>>
              /\ place' = "answer"
              /\ answer' = Stripped(content)
              /\ stopReason' = "answer"
    /\ skills' = FALSE
    /\ UNCHANGED <<iteration, steps, shown, entries, snapshot>>

-----------------------------------------------------------------------------
CallsOf(S) == {k \in DOMAIN calls : calls[k].tool \in S}

Gathered(S) == \A k \in CallsOf(S) : calls[k].stage = "done"

Queued(S) == [k \in DOMAIN calls |-> IF k \in CallsOf(S)
                                     THEN [calls[k] EXCEPT !.stage = "queued"] ELSE calls[k]]

(* The loop of _action_node over a response's skill requests: granted,     *)
(* refused, or granted but reported as failed because the event of the     *)
(* grant could not be published: the skill stays active.                   *)
SkillOutcomes ==
    {[told |-> "ok", shown |-> {"completed"}, active |-> TRUE],
     [told |-> "error", shown |-> {"failed"}, active |-> FALSE],
     [told |-> "error", shown |-> {"failed"}, active |-> TRUE],
     [told |-> "error", shown |-> {"completed", "failed"}, active |-> TRUE]}

RequestSkills ==
    /\ place = "action"
    /\ steps' = steps + 1
    /\ \E outcome \in [CallsOf({SkillTool}) -> SkillOutcomes] :
        /\ calls' = [k \in DOMAIN calls |->
                        CASE k \in DOMAIN outcome ->
                                [calls[k] EXCEPT !.stage = "done", !.told = outcome[k].told,
                                                 !.shown = outcome[k].shown]
                          [] calls[k].tool = SearchTool -> [calls[k] EXCEPT !.stage = "queued"]
                          [] OTHER -> calls[k]]
        /\ skills' = \E k \in DOMAIN outcome : outcome[k].active
    /\ place' = "searching"
    /\ UNCHANGED <<iteration, stopReason, messages, answer, shown, entries, snapshot>>

(* The gather over context searches has returned; _execute_external_calls. *)
SearchesDone ==
    /\ place = "searching"
    /\ Gathered({SearchTool})
    /\ calls' = Queued(Tools)
    /\ place' = "calling"
    /\ UNCHANGED <<graph, shown, entries, snapshot>>

(* The gather over external calls has returned: one tool message per call, *)
(* in the order of the response.                                           *)
ToolMessages == [k \in DOMAIN calls |->
    [Text("tool", <<calls[k].told>>) EXCEPT !.call = <<iteration, k>>]]

CollectResults ==
    /\ place = "calling"
    /\ Gathered(Tools)
    /\ messages' = messages \o ToolMessages
    /\ place' = "agent"
    /\ UNCHANGED <<iteration, steps, stopReason, calls, skills, answer, shown, entries, snapshot>>

-----------------------------------------------------------------------------
(* The call tasks: _execute_external_call and _execute_context_search_call *)
SetCall(k, stage, told, events) ==
    calls' = [calls EXCEPT ![k] = [tool |-> @.tool, stage |-> stage, told |-> told,
                                   shown |-> @.shown \cup events]]

(* An exception leaves the task: gather raises in the node that awaits it, *)
(* which ends the program, and leaves the other tasks alone.               *)
CallRaises(k, events) ==
    /\ SetCall(k, "raised", calls[k].told, events)
    /\ place' = IF place \in Ended THEN place ELSE "raised"
    /\ UNCHANGED <<graph, shown, entries, snapshot>>

(* Seeded faults: a semaphore per call; a semaphore that only exceptions   *)
(* release.                                                                *)
Holders_PerCall(tool) == {}

Holders_NotReleased(tool) ==
    {k \in DOMAIN calls : /\ calls[k].tool = tool
                          /\ calls[k].stage \in (AtWork \ {"queued"}) \cup {"done"}}

Holders(tool) ==
    {k \in DOMAIN calls : calls[k].tool = tool /\ calls[k].stage \in AtWork \ {"queued"}}

(* async with semaphore, TOOL_STARTED. *)
Start(k) ==
    /\ calls[k].stage = "queued"
    /\ calls[k].tool \in Tools => Cardinality(Holders(calls[k].tool)) < MaxParallel
    /\ \/ SetCall(k, "invoking", "none", {}) /\ UNCHANGED <<place, graph, shown, entries, snapshot>>
       \/ CallRaises(k, {})

Return(k) ==
    /\ calls[k].stage = "invoking"
    /\ \E stage \in {"succeeded", "failed"} : SetCall(k, stage, "none", {})
    /\ UNCHANGED <<place, graph, shown, entries, snapshot>>

AfterOutcome(k) == IF calls[k].tool \in Tools THEN "recording" ELSE "done"

(* TOOL_COMPLETED is emitted inside the try of the call: if the emit       *)
(* raises, whether or not the event is out, the call has failed.           *)
PublishCompleted(k) ==
    /\ calls[k].stage = "succeeded"
    /\ \/ SetCall(k, AfterOutcome(k), "ok", {"completed"})
       \/ \E events \in SUBSET {"completed"} : SetCall(k, "failed", "none", events)
    /\ UNCHANGED <<place, graph, shown, entries, snapshot>>

PublishFailed(k) ==
    /\ calls[k].stage = "failed"
    /\ \/ /\ SetCall(k, AfterOutcome(k), "error", {"failed"})
          /\ UNCHANGED <<place, graph, shown, entries, snapshot>>
       \/ \E events \in SUBSET {"failed"} : CallRaises(k, events)

(* Seeded fault: failed calls are recorded as results. *)
Observation_AlwaysResult(k) == [kind |-> "tool_result", call |-> <<iteration, k>>]

Observation(k) ==
    [kind |-> IF calls[k].told = "error" THEN "tool_error" ELSE "tool_result",
     call |-> <<iteration, k>>]

(* record_tool_observation. *)
Record(k) ==
    /\ calls[k].stage = "recording"
    /\ \/ /\ entries' = Append(entries, Observation(k))
          /\ SetCall(k, "done", calls[k].told, {})
          /\ UNCHANGED <<place, graph, shown, snapshot>>
       \/ CallRaises(k, {})

CallTask(k) ==
    /\ k \in DOMAIN calls
    /\ Start(k) \/ Return(k) \/ PublishCompleted(k) \/ PublishFailed(k) \/ Record(k)

-----------------------------------------------------------------------------
(* The end of _answer_node: the answer becomes the last message. *)
WithAnswer(text) ==
    IF Last(messages).role = "assistant" /\ Last(messages).calls = <<>>
    THEN [messages EXCEPT ![Len(messages)] = Assistant(text)]
    ELSE Append(messages, Assistant(text))

(* Seeded fault: no text of its own when stream and draft are empty. *)
Substitute_DraftOnly == Stripped(answer)

(* What _answer_node answers without a stream, or when the stream had      *)
(* nothing but white space.                                                *)
Substitute == IF Stripped(answer) # <<>> THEN Stripped(answer) ELSE <<"no answer">>

(* _answer_node: at the iteration limit the answer is published as it is,  *)
(* otherwise the model streams one.                                        *)
AnswerNode ==
    /\ place = "answer"
    /\ steps' = steps + 1
    /\ \/ /\ stopReason = "max_iterations"
          /\ answer' = Substitute
          /\ shown' = shown \o Substitute
          /\ messages' = WithAnswer(Substitute)
          /\ place' = "finalizing"
       \/ /\ stopReason # "max_iterations"
          /\ place' = "streaming"
          /\ UNCHANGED <<answer, shown, messages>>
    /\ UNCHANGED <<iteration, stopReason, calls, skills, entries, snapshot>>

Chunk ==
    /\ place = "streaming"
    /\ Len(shown) < MaxChunks
    /\ \E chunk \in {Blank, "text"} : shown' = Append(shown, chunk)
    /\ UNCHANGED <<place, graph, calls, entries, snapshot>>

StreamEnds ==
    /\ place = "streaming"
    /\ LET streamed == Stripped(shown)
       IN  /\ answer' = IF streamed # <<>> THEN streamed ELSE Substitute
           /\ shown' = IF streamed # <<>> THEN shown ELSE shown \o Substitute
    /\ messages' = WithAnswer(answer')
    /\ place' = "finalizing"
    /\ UNCHANGED <<iteration, steps, stopReason, calls, skills, entries, snapshot>>

(* finalize_execution: the answer first, then the snapshot. *)
RecordAnswer ==
    /\ place = "finalizing"
    /\ entries' = Append(entries, [kind |-> "assistant_message", call |-> NoCall])
    /\ place' = "summarizing"
    /\ UNCHANGED <<graph, calls, shown, snapshot>>

SaveSnapshot ==
    /\ place = "summarizing"
    /\ snapshot' = TRUE
    /\ place' \in {"returned", "raised"}
    /\ UNCHANGED <<graph, calls, shown, entries>>

(* An emit, a query or the model raises in a node that runs alone. *)
NodeRaises ==
    /\ place \notin Ended \cup {"searching", "calling"}
    /\ place' = "raised"
    /\ UNCHANGED <<graph, calls, shown, entries, snapshot>>

(* Seeded fault: the calls are shielded from the cancellation. *)
CancelCalls_Shielded == calls

(* The runner cancels the runtime's task; gather passes it on to the tasks *)
(* it waits for.                                                           *)
CancelCalls == [k \in DOMAIN calls |-> IF calls[k].stage \in AtWork
                    THEN [calls[k] EXCEPT !.stage = "cancelled"] ELSE calls[k]]

Cancel ==
    /\ place \notin Ended
    /\ place' = "cancelled"
    /\ calls' = CancelCalls
    /\ UNCHANGED <<graph, shown, entries, snapshot>>

-----------------------------------------------------------------------------
Init ==
    /\ place = "load" /\ iteration = 0 /\ steps = 0 /\ stopReason = "none"
    /\ messages = <<>> /\ calls = <<>> /\ skills = FALSE
    /\ answer = <<>> /\ shown = <<>> /\ entries = <<>>
    /\ snapshot \in BOOLEAN

Graph ==
    \/ LoadContext \/ AgentNode \/ PrepareReasoning \/ ModelResponds
    \/ RequestSkills \/ SearchesDone \/ CollectResults
    \/ AnswerNode \/ Chunk \/ StreamEnds \/ RecordAnswer \/ SaveSnapshot
    \/ NodeRaises

Next == Graph \/ Cancel \/ \E k \in 1..MaxCalls : CallTask(k)

(* Every task of the event loop gets its turn, the model and the tools     *)
(* answer within their timeouts, and a stream has an end.  Nobody has to   *)
(* cancel.                                                                 *)
Fairness == WF_vars(Graph) /\ \A k \in 1..MaxCalls : WF_vars(CallTask(k))

Spec == Init /\ [][Next]_vars /\ Fairness

-----------------------------------------------------------------------------
(* The variables hold values of their kind. *)
TypeOK ==
    /\ place \in Places
    /\ iteration \in Nat /\ steps \in Nat
    /\ stopReason \in {"none", "answer", "max_iterations"}
    /\ messages \in Seq(Message)
    /\ calls \in Seq(Call) /\ Len(calls) <= MaxCalls
    /\ skills \in BOOLEAN /\ snapshot \in BOOLEAN
    /\ answer \in Seq(Chunks) /\ shown \in Seq(Chunks)
    /\ entries \in Seq(Entry)

(* Every request to the model is a conversation its provider accepts: it   *)
(* starts with the only system message, the calls of an assistant message  *)
(* are answered right after it, each once and in order, also when calls    *)
(* failed or a snapshot took the place of older messages, no tool message  *)
(* answers anything else, and the model is not asked to follow itself.     *)
Answered(r, j) ==
    \A k \in DOMAIN r[j].calls :
        j + k \in DOMAIN r /\ r[j + k].role = "tool" /\ r[j + k].call = r[j].calls[k]

Answers(r, j) ==
    \E k \in 1..j - 1 : k \in DOMAIN r[j - k].calls /\ r[j - k].calls[k] = r[j].call

ConversationWellFormed ==
    place \in {"thinking", "streaming"} =>
        /\ \A j \in DOMAIN Request :
            /\ Request[j].role = "system" <=> j = 1
            /\ Answered(Request, j)
            /\ Request[j].role = "tool" => Answers(Request, j)
        /\ Last(Request).role # "assistant"

(* What the model is told of a call, what observers are told of it and     *)
(* what the memory says of it agree: a call reported as failed is a failed *)
(* one for all three, and the memory has exactly one entry for each        *)
(* finished external call, before the model goes on, and none for others.  *)
Noted(k) == {n \in DOMAIN entries : entries[n].call = <<iteration, k>>}

ObservationsAgree ==
    \A k \in DOMAIN calls :
        IF calls[k].stage = "done"
        THEN /\ calls[k].told = "error" <=> "failed" \in calls[k].shown
             /\ calls[k].told = "ok" => "completed" \in calls[k].shown
             /\ calls[k].tool \in Tools =>
                    \E n \in Noted(k) : /\ Noted(k) = {n}
                                        /\ entries[n].kind = "tool_error" <=> calls[k].told = "error"
        ELSE Noted(k) = {}

(* No tool works on more calls at a time than the policy allows, also when *)
(* the program has ended and left tasks behind.                            *)
ParallelismBounded ==
    \A tool \in Tools :
        Cardinality({k \in DOMAIN calls : calls[k].tool = tool /\ calls[k].stage = "invoking"})
            <= MaxParallel

(* The limit of iterations always stops the program before the graph's own *)
(* recursion limit would fail it.                                          *)
GraphStaysInLimit == steps <= RecursionLimit

(* The answer the execution stores is what observers were shown delta by   *)
(* delta, is not empty, ends the conversation the snapshot summarises, and *)
(* is in the memory exactly once when the program returns.                 *)
AnswerIsShown ==
    place \in {"finalizing", "summarizing", "returned"} =>
        /\ answer # <<>>
        /\ answer = Stripped(shown)
        /\ Last(messages) = Assistant(answer)
        /\ Cardinality({n \in DOMAIN entries : entries[n].kind = "assistant_message"})
             = IF place = "finalizing" THEN 0 ELSE 1

(* Unless an exception escaped from a parallel call, nothing of a program  *)
(* is at work after it has ended, a cancelled one included.                *)
QuietAfterEnd ==
    place \in Ended /\ (\A k \in DOMAIN calls : calls[k].stage # "raised") =>
        \A k \in DOMAIN calls : calls[k].stage \notin AtWork

(* Every program ends, and the tasks it may have left behind end too. *)
ProgramEnds ==
    <>(place \in Ended /\ \A k \in DOMAIN calls : calls[k].stage \notin AtWork)
=============================================================================
