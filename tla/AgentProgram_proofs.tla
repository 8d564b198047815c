------------------------ MODULE AgentProgram_proofs ------------------------
(***************************************************************************)
(* Proofs about AgentProgram for any tools, limits, bounds and length of   *)
(* the answer.  TypeIInv relates the place of the program to the stages of *)
(* the call tasks; it is what makes a gathered result always an outcome    *)
(* and lets nothing be at work once the program has ended.                 *)
(***************************************************************************)
EXTENDS AgentProgram, SequenceTheorems, FiniteSetTheorems, WellFoundedInduction, TLAPS

(* A set of numbers has a smallest element. *)
LEMMA SmallestExists ==
  ASSUME NEW S, S \subseteq Nat, S # {}
  PROVE  \E t \in S : \A u \in S : t <= u
<1> DEFINE R == OpToRel(<, Nat)
<1>1. PICK t \in S : \A u \in S : ~(<<u, t>> \in R)
  <2>1. IsWellFoundedOn(R, Nat)
    BY NatLessThanWellFounded
  <2> HIDE DEF R
  <2>2. QED BY <2>1, WFMin
<1>2. ASSUME NEW u \in S PROVE t <= u
  <2>1. u \in Nat /\ t \in Nat
    OBVIOUS
  <2>2. ~(u < t)
    BY <1>1, <2>1 DEF OpToRel
  <2>3. QED BY <2>1, <2>2
<1>3. QED BY <1>2

(* The least element of a set of numbers is one of them. *)
LEMMA MinIsMember ==
  ASSUME NEW S, S \subseteq Nat, S # {}
  PROVE  Min(S) \in S
BY SmallestExists DEF Min

(* A set of numbers up to n has a largest element. *)
LEMMA MaxIsMember ==
  ASSUME NEW S, S \subseteq Nat, S # {}, NEW n \in Nat, \A x \in S : x <= n
  PROVE  Max(S) \in S
<1> DEFINE T == {n - x : x \in S}
<1>1. T \subseteq Nat /\ T # {}
  <2>1. ASSUME NEW x \in S PROVE n - x \in Nat
    <3>1. x \in Nat /\ x <= n
      OBVIOUS
    <3>2. QED BY <3>1
  <2>2. QED BY <2>1
<1>2. \E m \in T : \A u \in T : m <= u
  <2> HIDE DEF T
  <2>1. QED BY <1>1, SmallestExists
<1>3. PICK y \in S : \A u \in T : n - y <= u
  BY <1>2
<1>4. ASSUME NEW u \in S PROVE y >= u
  <2>1. n - y <= n - u /\ u \in Nat /\ y \in Nat
    BY <1>3
  <2>2. QED BY <2>1
<1>5. QED BY <1>4 DEF Max

(* What is left of a text is a text. *)
LEMMA StrippedType ==
  ASSUME NEW s \in Seq(Chunks)
  PROVE  Stripped(s) \in Seq(Chunks)
<1> DEFINE T == {i \in DOMAIN s : s[i] # Blank}
<1>1. CASE T = {}
  BY <1>1 DEF Stripped
<1>2. CASE T # {}
  <2>1. T \subseteq Nat /\ \A x \in T : x <= Len(s)
    BY LenProperties
  <2>2. Min(T) \in T /\ Max(T) \in T
    <3> HIDE DEF T
    <3>1. QED BY <1>2, <2>1, MinIsMember, MaxIsMember, LenProperties
  <2>3. ASSUME NEW m \in T, NEW n \in T
        PROVE  m \in Int /\ n \in Int /\ \A i \in m..n : s[i] \in Chunks
    <3>1. m \in 1..Len(s) /\ n \in 1..Len(s) /\ Len(s) \in Nat
      BY LenProperties
    <3>2. ASSUME NEW i \in m..n PROVE i \in 1..Len(s)
      BY <3>1
    <3>3. QED BY <3>1, <3>2, ElementOfSeq
  <2>4. SubSeq(s, Min(T), Max(T)) \in Seq(Chunks)
    BY <2>2, <2>3, SubSeqProperties
  <2>5. QED BY <1>2, <2>4 DEF Stripped
<1>3. QED BY <1>1, <1>2

-----------------------------------------------------------------------------
(* The calls at each place: created when the action node begins, gathered  *)
(* when it ends, and not at work elsewhere.                                *)
CallsInPlace ==
    /\ place = "action" => \A k \in DOMAIN calls : calls[k].stage = "idle"
    /\ place = "searching" => \A k \in DOMAIN calls :
            /\ calls[k].tool \in Tools => calls[k].stage = "idle"
            /\ calls[k].tool = SkillTool => calls[k].stage = "done"
    /\ place = "calling" => \A k \in DOMAIN calls :
            calls[k].tool \notin Tools => calls[k].stage = "done"
    /\ place \notin {"searching", "calling", "raised"} =>
            \A k \in DOMAIN calls : calls[k].stage \notin AtWork

OutcomeKnown ==
    \A k \in DOMAIN calls :
        calls[k].stage \in {"recording", "done"} => calls[k].told \in {"ok", "error"}

TypeIInv ==
    /\ TypeOK
    /\ place \notin Ended \cup {"load"} => messages # <<>>
    /\ CallsInPlace
    /\ OutcomeKnown
    /\ QuietAfterEnd

(* What SetCall leaves of the calls. *)
LEMMA SetCallEffect ==
  ASSUME calls \in Seq(Call), NEW k \in DOMAIN calls, NEW stage \in Stages,
         NEW told \in {"none", "ok", "error"}, NEW events \in SUBSET {"completed", "failed"},
         SetCall(k, stage, told, events)
  PROVE  /\ calls' \in Seq(Call) /\ Len(calls') = Len(calls) /\ DOMAIN calls' = DOMAIN calls
         /\ calls'[k].tool = calls[k].tool
         /\ calls'[k].stage = stage /\ calls'[k].told = told
         /\ \A j \in DOMAIN calls : j # k => calls'[j] = calls[j]
<1> DEFINE c == [tool |-> calls[k].tool, stage |-> stage, told |-> told,
                 shown |-> calls[k].shown \cup events]
<1>1. k \in 1..Len(calls) /\ calls[k] \in Call
  BY LenProperties, ElementOfSeq
<1>2. c \in Call
  BY <1>1 DEF Call
<1>3. calls' = [calls EXCEPT ![k] = c]
  BY <1>1 DEF SetCall
<1>4. /\ calls' \in Seq(Call) /\ Len(calls') = Len(calls)
      /\ \A j \in 1..Len(calls) : calls'[j] = IF j = k THEN c ELSE calls[j]
  <2> HIDE DEF c
  <2>1. QED BY <1>1, <1>2, <1>3, ExceptSeq
<1>5. DOMAIN calls' = DOMAIN calls
  BY <1>4, LenProperties
<1>6. QED BY <1>1, <1>4, <1>5

(* A step of a call task, as far as the invariants are concerned. *)
LEMMA CallTaskEffect ==
  ASSUME TypeIInv, NEW k, CallTask(k)
  PROVE  /\ k \in DOMAIN calls /\ calls[k].stage \in AtWork
         /\ UNCHANGED <<graph, shown, snapshot>>
         /\ entries' \in Seq(Entry)
         /\ \E stage \in Stages \ {"idle", "queued", "cancelled"}, told \in {"none", "ok", "error"},
               events \in SUBSET {"completed", "failed"} :
              /\ SetCall(k, stage, told, events)
              /\ stage \in {"recording", "done"} => told \in {"ok", "error"}
              /\ place' = IF stage = "raised" /\ place \notin Ended THEN "raised" ELSE place
<1>1. k \in DOMAIN calls /\ calls[k] \in Call /\ entries \in Seq(Entry)
  BY LenProperties, ElementOfSeq DEF CallTask, TypeIInv, TypeOK
<1> USE DEF AtWork, Stages
<1>2. CASE Start(k)
  BY <1>1, <1>2 DEF Start, CallRaises, Call
<1>3. CASE Return(k)
  BY <1>1, <1>3 DEF Return, Call
<1>4. CASE PublishCompleted(k)
  BY <1>1, <1>4 DEF PublishCompleted, AfterOutcome, Call
<1>5. CASE PublishFailed(k)
  BY <1>1, <1>5 DEF PublishFailed, AfterOutcome, CallRaises, Call
<1>6. CASE Record(k)
  <2>1. iteration \in Nat /\ k \in Nat
    BY <1>1, LenProperties DEF TypeIInv, TypeOK
  <2>2. Append(entries, Observation(k)) \in Seq(Entry)
    <3>1. Observation(k) \in Entry
      BY <2>1 DEF Observation, Entry, Kinds, CallId
    <3>2. QED BY <1>1, <3>1, AppendProperties
  <2>3. calls[k].told \in {"ok", "error"}
    BY <1>1, <1>6 DEF Record, TypeIInv, OutcomeKnown
  <2>4. CASE CallRaises(k, {})
    BY <1>1, <1>6, <2>4 DEF Record, CallRaises, Call
  <2>5. CASE /\ entries' = Append(entries, Observation(k))
             /\ SetCall(k, "done", calls[k].told, {})
             /\ UNCHANGED <<place, graph, shown, snapshot>>
    BY <1>1, <1>6, <2>2, <2>3, <2>5 DEF Record
  <2>6. QED BY <1>6, <2>4, <2>5 DEF Record
<1>7. QED BY <1>2, <1>3, <1>4, <1>5, <1>6 DEF CallTask

(* The steps of call tasks preserve the invariant. *)
LEMMA CallTaskTypeIInv ==
  ASSUME TypeIInv, NEW k, CallTask(k)
  PROVE  TypeIInv'
<1>1. /\ k \in DOMAIN calls /\ calls[k].stage \in AtWork
      /\ UNCHANGED <<graph, shown, snapshot>> /\ entries' \in Seq(Entry)
  BY CallTaskEffect
<1>2. PICK stage \in Stages \ {"idle", "queued", "cancelled"}, told \in {"none", "ok", "error"},
           events \in SUBSET {"completed", "failed"} :
        /\ SetCall(k, stage, told, events)
        /\ stage \in {"recording", "done"} => told \in {"ok", "error"}
        /\ place' = IF stage = "raised" /\ place \notin Ended THEN "raised" ELSE place
  BY CallTaskEffect
<1>3. /\ calls' \in Seq(Call) /\ Len(calls') = Len(calls) /\ DOMAIN calls' = DOMAIN calls
      /\ calls'[k].tool = calls[k].tool /\ calls'[k].stage = stage /\ calls'[k].told = told
      /\ \A j \in DOMAIN calls : j # k => calls'[j] = calls[j]
  BY <1>1, <1>2, SetCallEffect DEF TypeIInv, TypeOK
<1>4. place \in {"searching", "calling", "raised"}
  BY <1>1 DEF TypeIInv, CallsInPlace
<1>5. TypeOK'
  BY <1>1, <1>2, <1>3 DEF TypeIInv, TypeOK, Places, Ended, graph
<1>6. CallsInPlace'
  <2>1. place' \in {place, "raised"}
    BY <1>2
  <2>2. place = "searching" => calls[k].tool \notin Tools /\ calls[k].tool # SkillTool
    BY <1>1 DEF TypeIInv, CallsInPlace, AtWork
  <2>3. place = "calling" => calls[k].tool \in Tools
    BY <1>1 DEF TypeIInv, CallsInPlace, AtWork
  <2>4. QED BY <1>3, <1>4, <2>1, <2>2, <2>3 DEF TypeIInv, CallsInPlace
<1>7. OutcomeKnown'
  BY <1>2, <1>3 DEF TypeIInv, OutcomeKnown
<1>8. QuietAfterEnd'
  <2>1. CASE stage = "raised"
    BY <1>1, <1>3, <2>1 DEF QuietAfterEnd
  <2>2. CASE stage # "raised" /\ place = "raised"
    <3>1. PICK j \in DOMAIN calls : calls[j].stage = "raised"
      BY <1>1, <2>2 DEF TypeIInv, QuietAfterEnd, Ended
    <3>2. j # k
      BY <1>1, <3>1 DEF AtWork
    <3>3. QED BY <1>3, <3>1, <3>2 DEF QuietAfterEnd
  <2>3. CASE stage # "raised" /\ place # "raised"
    BY <1>2, <1>4, <2>3 DEF QuietAfterEnd, Ended
  <2>4. QED BY <2>1, <2>2, <2>3
<1>9. QED BY <1>1, <1>2, <1>4, <1>5, <1>6, <1>7, <1>8 DEF TypeIInv, Ended, graph
-----------------------------------------------------------------------------
(* The messages the program composes are messages. *)
LEMMA MessagesAreTyped ==
  /\ \A s \in Seq(Chunks) : Assistant(s) \in Message
  /\ Prompt \in Message /\ Snapshot \in Message /\ Question \in Message
<1>1. <<>> \in Seq(CallId) /\ NoCall \in CallId
  BY EmptySeq DEF NoCall, CallId
<1>2. /\ <<>> \in Seq(Chunks) /\ <<"snapshot">> \in Seq(Chunks) /\ <<"question">> \in Seq(Chunks)
  BY EmptySeq DEF Chunks
<1>3. QED BY <1>1, <1>2 DEF Message, Text, Assistant, Prompt, Snapshot, Question, Roles

(* The text that stands in for an empty stream is a text. *)
LEMMA SubstituteType ==
  ASSUME TypeOK
  PROVE  Substitute \in Seq(Chunks)
<1>1. Stripped(answer) \in Seq(Chunks)
  BY StrippedType DEF TypeOK
<1>2. <<"no answer">> \in Seq(Chunks)
  BY DEF Chunks
<1>3. QED BY <1>1, <1>2 DEF Substitute

(* A conversation that ends with the answer is a conversation. *)
LEMMA WithAnswerType ==
  ASSUME TypeOK, messages # <<>>, NEW text \in Seq(Chunks)
  PROVE  WithAnswer(text) \in Seq(Message) /\ WithAnswer(text) # <<>>
<1>1. Assistant(text) \in Message /\ messages \in Seq(Message) /\ Len(messages) \in 1..Len(messages)
  BY MessagesAreTyped, EmptySeq, LenProperties DEF TypeOK
<1>2. CASE WithAnswer(text) = [messages EXCEPT ![Len(messages)] = Assistant(text)]
  <2>1. /\ WithAnswer(text) \in Seq(Message) /\ Len(WithAnswer(text)) = Len(messages)
    BY <1>1, <1>2, ExceptSeq
  <2>2. QED BY <1>1, <2>1, EmptySeq, LenProperties
<1>3. CASE WithAnswer(text) = Append(messages, Assistant(text))
  <2>1. WithAnswer(text) \in Seq(Message) /\ Len(WithAnswer(text)) = Len(messages) + 1
    BY <1>1, <1>3, AppendProperties
  <2>2. QED BY <1>1, <2>1, EmptySeq, LenProperties
<1>4. QED BY <1>2, <1>3 DEF WithAnswer

(* The initial state satisfies the invariant. *)
LEMMA InitTypeIInv ==
  Init => TypeIInv
<1> SUFFICES ASSUME Init PROVE TypeIInv
  OBVIOUS
<1>1. /\ <<>> \in Seq(Message) /\ <<>> \in Seq(Call) /\ Len(<<>>) = 0 /\ <<>> \in Seq(Chunks)
      /\ <<>> \in Seq(Entry)
  BY EmptySeq
<1>2. TypeOK
  <2>1. MaxCalls \in Nat
    BY ConstantsAssumption
  <2>2. messages \in Seq(Message) /\ calls \in Seq(Call) /\ Len(calls) <= MaxCalls
    BY <1>1, <2>1 DEF Init
  <2>3. answer \in Seq(Chunks) /\ shown \in Seq(Chunks) /\ entries \in Seq(Entry)
    BY <1>1 DEF Init
  <2>4. QED BY <2>2, <2>3 DEF Init, TypeOK, Places
<1>3. DOMAIN calls = {}
  BY <1>1 DEF Init
<1>4. QED BY <1>2, <1>3 DEF Init, TypeIInv, CallsInPlace, OutcomeKnown, QuietAfterEnd, Ended

(* A cancel puts every call at work to rest. *)
LEMMA CancelTypeIInv ==
  ASSUME TypeIInv, Cancel
  PROVE  TypeIInv'
<1> USE DEF Cancel
<1>1. calls \in Seq(Call) /\ Len(calls) \in Nat /\ DOMAIN calls = 1..Len(calls)
  BY LenProperties DEF TypeIInv, TypeOK
<1> DEFINE c(k) == IF calls[k].stage \in AtWork THEN [calls[k] EXCEPT !.stage = "cancelled"] ELSE calls[k]
<1>2. \A k \in 1..Len(calls) : c(k) \in Call
  <2>1. TAKE k \in 1..Len(calls)
  <2>2. calls[k] \in Call
    BY <1>1, ElementOfSeq
  <2>3. QED BY <2>2 DEF Call, Stages
<1>3. calls' = [k \in 1..Len(calls) |-> c(k)]
  BY <1>1 DEF CancelCalls
<1>4. calls' \in Seq(Call)
  <2> HIDE DEF c
  <2>1. QED BY <1>1, <1>2, <1>3, IsASeq
<1>5. Len(calls') = Len(calls) /\ DOMAIN calls' = DOMAIN calls
  BY <1>1, <1>3, <1>4, LenProperties
<1>6. \A k \in DOMAIN calls : calls'[k].stage \notin AtWork /\ calls'[k].told = calls[k].told
  <2>1. TAKE k \in DOMAIN calls
  <2>2. calls[k] \in Call
    BY <1>1, ElementOfSeq
  <2>3. QED BY <1>1, <1>3, <2>2 DEF Call, AtWork
<1>7. \A k \in DOMAIN calls : calls'[k].stage = "done" => calls[k].stage = "done"
  <2>1. TAKE k \in DOMAIN calls
  <2>2. calls[k] \in Call
    BY <1>1, ElementOfSeq
  <2>3. QED BY <1>1, <1>3, <2>2 DEF Call, AtWork
<1>8. TypeOK'
  BY <1>4, <1>5 DEF TypeIInv, TypeOK, Places, Ended, graph
<1>9. OutcomeKnown'
  BY <1>5, <1>6, <1>7 DEF TypeIInv, OutcomeKnown, AtWork
<1>10. CallsInPlace' /\ QuietAfterEnd'
  BY <1>5, <1>6 DEF CallsInPlace, QuietAfterEnd
<1>11. QED BY <1>8, <1>9, <1>10 DEF TypeIInv, Ended

(* The nodes of the graph, whose calls are all at rest. *)
LEMMA NodeTypeIInv ==
  ASSUME TypeIInv, UNCHANGED calls, place \notin {"action", "searching", "calling"} \cup Ended,
         TypeOK', messages' # <<>> \/ place' \in Ended,
         place' \notin {"action", "searching", "calling"}
  PROVE  TypeIInv'
<1>1. \A k \in DOMAIN calls : calls[k].stage \notin AtWork
  BY DEF TypeIInv, CallsInPlace, Ended
<1>2. CallsInPlace' /\ QuietAfterEnd'
  BY <1>1 DEF CallsInPlace, QuietAfterEnd
<1>3. OutcomeKnown'
  BY DEF TypeIInv, OutcomeKnown
<1>4. QED BY <1>2, <1>3 DEF TypeIInv

(* A node that raises is not one that waits for calls. *)
LEMMA RaiseTypeIInv ==
  ASSUME TypeIInv, NodeRaises
  PROVE  TypeIInv'
<1>1. \A k \in DOMAIN calls : calls[k].stage \notin AtWork
  BY DEF NodeRaises, TypeIInv, CallsInPlace, Ended
<1>2. TypeOK'
  BY DEF NodeRaises, TypeIInv, TypeOK, Places, Ended, graph
<1>3. CallsInPlace' /\ QuietAfterEnd'
  BY <1>1 DEF NodeRaises, CallsInPlace, QuietAfterEnd
<1>4. OutcomeKnown'
  BY DEF NodeRaises, TypeIInv, OutcomeKnown
<1>5. QED BY <1>2, <1>3, <1>4 DEF NodeRaises, TypeIInv, Ended

(* load_context preserves it. *)
LEMMA LoadTypeIInv ==
  ASSUME TypeIInv, LoadContext
  PROVE  TypeIInv'
<1> USE DEF LoadContext
<1>1. entries' \in Seq(Entry)
  <2>1. [kind |-> "user_message", call |-> NoCall] \in Entry
    BY DEF Entry, Kinds, NoCall, CallId
  <2>2. QED BY <2>1, AppendProperties DEF TypeIInv, TypeOK
<1>2. messages' \in Seq(Message) /\ messages' # <<>>
  <2>1. \/ messages' = <<Prompt>> \o <<Snapshot>> \o <<Question>>
        \/ messages' = <<Prompt>> \o <<>> \o <<Question>>
    OBVIOUS
  <2>2. Prompt \in Message /\ Snapshot \in Message /\ Question \in Message
    BY MessagesAreTyped
  <2>3. QED BY <2>1, <2>2
<1>3. TypeOK'
  BY <1>1, <1>2 DEF TypeIInv, TypeOK, Places
<1>4. QED BY <1>2, <1>3, NodeTypeIInv DEF Ended

(* So does _agent_node, at and below the limit. *)
LEMMA AgentTypeIInv ==
  ASSUME TypeIInv, AgentNode
  PROVE  TypeIInv'
<1>1. /\ place = "agent" /\ steps' = steps + 1
      /\ UNCHANGED <<messages, skills, shown, entries, snapshot>>
  BY DEF AgentNode
<1>2. iteration \in Nat /\ steps \in Nat
  BY DEF TypeIInv, TypeOK
<1>3. CASE /\ iteration >= MaxIterations
           /\ answer' = IF Stripped(answer) # <<>> THEN Stripped(answer) ELSE <<"limit reached">>
           /\ stopReason' = "max_iterations"
           /\ place' = "answer"
           /\ UNCHANGED <<iteration, calls>>
  <2>1. Stripped(answer) \in Seq(Chunks)
    BY StrippedType DEF TypeIInv, TypeOK
  <2>2. <<"limit reached">> \in Seq(Chunks)
    BY DEF Chunks
  <2>3. answer' \in Seq(Chunks)
    BY <1>3, <2>1, <2>2
  <2>4. TypeOK'
    <3>1. steps' \in Nat
      BY <1>1, <1>2
    <3>2. QED BY <1>1, <1>2, <1>3, <2>3, <3>1 DEF TypeIInv, TypeOK, Places
  <2>5. QED BY <1>1, <1>3, <2>4, NodeTypeIInv DEF TypeIInv, Ended
<1>4. CASE /\ iteration < MaxIterations
           /\ iteration' = iteration + 1
           /\ calls' = <<>>
           /\ place' = "reasoning"
           /\ UNCHANGED <<answer, stopReason>>
  <2>1. calls' \in Seq(Call) /\ Len(calls') = 0 /\ DOMAIN calls' = {}
    BY <1>4, EmptySeq
  <2>2. MaxCalls \in Nat
    BY ConstantsAssumption
  <2>3. TypeOK'
    BY <1>1, <1>2, <1>4, <2>1, <2>2 DEF TypeIInv, TypeOK, Places
  <2>4. QED BY <1>1, <1>4, <2>1, <2>3
            DEF TypeIInv, CallsInPlace, OutcomeKnown, QuietAfterEnd, Ended
<1>5. QED BY <1>3, <1>4 DEF AgentNode

(* So does the request, with or without a compaction. *)
LEMMA PrepareTypeIInv ==
  ASSUME TypeIInv, PrepareReasoning
  PROVE  TypeIInv'
<1>1. /\ place = "reasoning" /\ steps' = steps + 1 /\ place' \in {"thinking", "raised"}
      /\ UNCHANGED <<iteration, stopReason, calls, skills, answer, shown, entries>>
      /\ messages' \in {messages, Compacted} /\ snapshot' \in {snapshot, TRUE}
  BY DEF PrepareReasoning
<1>2. messages \in Seq(Message) /\ messages # <<>>
  BY <1>1 DEF TypeIInv, TypeOK, Ended
<1>3. Compacted \in Seq(Message) /\ Compacted # <<>>
  <2>1. Head(messages) \in Message
    BY <1>2, HeadTailProperties
  <2>2. QED BY <2>1, MessagesAreTyped DEF Compacted
<1>4. messages' \in Seq(Message) /\ messages' # <<>>
  BY <1>1, <1>2, <1>3
<1>5. TypeOK'
  <2>1. steps' \in Nat /\ place' \in Places
    BY <1>1 DEF TypeIInv, TypeOK, Places, Ended
  <2>2. snapshot' \in BOOLEAN
    BY <1>1, Zenon DEF TypeIInv, TypeOK
  <2>3. QED BY <1>1, <1>4, <2>1, <2>2 DEF TypeIInv, TypeOK
<1>6. QED BY <1>1, <1>4, <1>5, NodeTypeIInv DEF Ended

(* The model's response is a message. *)
LEMMA ResponseType ==
  ASSUME TypeOK, NEW tools \in SeqOf(Callable, MaxCalls), NEW content \in {<<>>, <<"draft">>}
  PROVE  [Assistant(content) EXCEPT !.calls = [k \in DOMAIN tools |-> <<iteration, k>>]] \in Message
<1> DEFINE ids == [k \in DOMAIN tools |-> <<iteration, k>>]
<1>1. PICK n \in 0..MaxCalls : tools \in [1..n -> Callable]
  BY DEF SeqOf
<1>2. n \in Nat /\ DOMAIN tools = 1..n
  BY <1>1, ConstantsAssumption
<1>3. [k \in 1..n |-> <<iteration, k>>] \in Seq(CallId)
  <2>1. \A k \in 1..n : <<iteration, k>> \in CallId
    BY <1>2 DEF CallId, TypeOK
  <2>2. QED BY <1>2, <2>1, IsASeq
<1>4. ids \in Seq(CallId)
  BY <1>2, <1>3
<1> HIDE DEF ids
<1>5. content \in Seq(Chunks)
  <2>1. <<"draft">> \in Seq(Chunks)
    BY DEF Chunks
  <2>2. QED BY <2>1, EmptySeq
<1>6. Assistant(content) \in Message
  BY <1>5, MessagesAreTyped
<1>7. [Assistant(content) EXCEPT !.calls = ids] \in Message
  BY <1>4, <1>6 DEF Message
<1>8. QED BY <1>7 DEF ids

(* So does a response: its calls are new ones. *)
LEMMA RespondTypeIInv ==
  ASSUME TypeIInv, ModelResponds
  PROVE  TypeIInv'
<1>1. PICK tools \in SeqOf(Callable, MaxCalls), content \in {<<>>, <<"draft">>} :
        /\ calls' = [k \in DOMAIN tools |-> NewCall(tools[k])]
        /\ messages' = Append(messages, [Assistant(content) EXCEPT
                            !.calls = [k \in DOMAIN tools |-> <<iteration, k>>]])
        /\ \/ /\ tools # <<>>
              /\ place' = "action"
              /\ UNCHANGED <<answer, stopReason>>
           \/ /\ tools = <<>>
              /\ place' = "answer"
              /\ answer' = Stripped(content)
              /\ stopReason' = "answer"
  BY DEF ModelResponds
<1>2. PICK n \in 0..MaxCalls : tools \in [1..n -> Callable]
  BY DEF SeqOf
<1>3. n \in Nat /\ n <= MaxCalls /\ DOMAIN tools = 1..n
  BY <1>2, ConstantsAssumption
<1>4. /\ calls' \in Seq(Call) /\ Len(calls') = n /\ DOMAIN calls' = 1..n
      /\ \A k \in 1..n : calls'[k].stage = "idle"
  <2>1. \A k \in 1..n : NewCall(tools[k]) \in Call
    BY <1>2 DEF NewCall, Call, Stages
  <2>2. [k \in 1..n |-> NewCall(tools[k])] \in Seq(Call)
    BY <1>3, <2>1, IsASeq
  <2>3. DOMAIN calls' = 1..n /\ calls' \in Seq(Call)
    BY <1>1, <1>3, <2>2
  <2>4. Len(calls') = n
    BY <1>3, <2>3, LenProperties
  <2>5. QED BY <1>1, <1>3, <2>3, <2>4 DEF NewCall
<1>5. content \in Seq(Chunks)
  <2>1. <<"draft">> \in Seq(Chunks)
    BY DEF Chunks
  <2>2. <<>> \in Seq(Chunks)
    BY EmptySeq
  <2>3. QED BY <1>1, <2>1, <2>2
<1>6. messages' \in Seq(Message) /\ messages' # <<>>
  <2> DEFINE e == [Assistant(content) EXCEPT !.calls = [k \in DOMAIN tools |-> <<iteration, k>>]]
  <2>1. e \in Message /\ messages \in Seq(Message)
    BY ResponseType DEF TypeIInv, TypeOK
  <2>2. messages' = Append(messages, e)
    BY <1>1
  <2> HIDE DEF e
  <2>3. messages' \in Seq(Message) /\ Len(messages') = Len(messages) + 1 /\ Len(messages) \in Nat
    BY <2>1, <2>2, AppendProperties, LenProperties
  <2>4. Len(<<>>) = 0
    OBVIOUS
  <2>5. QED BY <2>3, <2>4
<1>7. answer' \in Seq(Chunks) /\ stopReason' \in {"none", "answer", "max_iterations"}
  BY <1>1, <1>5, StrippedType DEF TypeIInv, TypeOK
<1>8. TypeOK'
  BY <1>1, <1>3, <1>4, <1>6, <1>7 DEF ModelResponds, TypeIInv, TypeOK, Places
<1>9. place' \in {"action", "answer"}
  BY <1>1
<1>10. CallsInPlace' /\ OutcomeKnown' /\ QuietAfterEnd'
  BY <1>4, <1>9 DEF CallsInPlace, OutcomeKnown, QuietAfterEnd, AtWork, Ended
<1>11. QED BY <1>6, <1>8, <1>10 DEF TypeIInv
-----------------------------------------------------------------------------
(* Skill requests are done before the searches are queued. *)
LEMMA SkillsTypeIInv ==
  ASSUME TypeIInv, RequestSkills
  PROVE  TypeIInv'
<1>1. PICK outcome \in [CallsOf({SkillTool}) -> SkillOutcomes] :
        /\ calls' = [k \in DOMAIN calls |->
                        CASE k \in DOMAIN outcome ->
                                [calls[k] EXCEPT !.stage = "done", !.told = outcome[k].told,
                                                 !.shown = outcome[k].shown]
                          [] calls[k].tool = SearchTool -> [calls[k] EXCEPT !.stage = "queued"]
                          [] OTHER -> calls[k]]
        /\ skills' = \E k \in DOMAIN outcome : outcome[k].active
  BY DEF RequestSkills
<1>2. /\ place = "action" /\ place' = "searching" /\ steps' = steps + 1
      /\ UNCHANGED <<iteration, stopReason, messages, answer, shown, entries, snapshot>>
  BY DEF RequestSkills
<1>3. calls \in Seq(Call) /\ Len(calls) \in Nat /\ DOMAIN calls = 1..Len(calls) /\ DOMAIN outcome = CallsOf({SkillTool})
  BY <1>1, LenProperties DEF TypeIInv, TypeOK
<1> DEFINE c(k) == CASE k \in DOMAIN outcome ->
                            [calls[k] EXCEPT !.stage = "done", !.told = outcome[k].told,
                                             !.shown = outcome[k].shown]
                     [] calls[k].tool = SearchTool -> [calls[k] EXCEPT !.stage = "queued"]
                     [] OTHER -> calls[k]
<1>4. ASSUME NEW k \in 1..Len(calls)
      PROVE  /\ c(k) \in Call
             /\ c(k).tool = calls[k].tool
             /\ c(k).tool \in Tools => c(k).stage = "idle"
             /\ c(k).tool = SkillTool => c(k).stage = "done"
             /\ c(k).stage \in {"recording", "done"} => c(k).told \in {"ok", "error"}
  <2>1. calls[k] \in Call /\ calls[k].stage = "idle"
    BY <1>2, <1>3, ElementOfSeq DEF TypeIInv, CallsInPlace
  <2>2. CASE k \in DOMAIN outcome
    <3>1. outcome[k] \in SkillOutcomes /\ calls[k].tool = SkillTool
      BY <1>1, <1>3, <2>2 DEF CallsOf
    <3>2. outcome[k].told \in {"ok", "error"} /\ outcome[k].shown \in SUBSET {"completed", "failed"}
      BY <3>1 DEF SkillOutcomes
    <3>3. c(k) = [calls[k] EXCEPT !.stage = "done", !.told = outcome[k].told, !.shown = outcome[k].shown]
      BY <2>2, <3>1 DEF SkillTool, SearchTool
    <3>4. SkillTool \notin Tools
      BY ConstantsAssumption
    <3> HIDE DEF c
    <3>5. QED BY <2>1, <3>1, <3>2, <3>3, <3>4 DEF Call, Stages
  <2>3. CASE k \notin DOMAIN outcome /\ calls[k].tool = SearchTool
    <3>1. c(k) = [calls[k] EXCEPT !.stage = "queued"]
      BY <2>3
    <3>2. SearchTool \notin Tools /\ SearchTool # SkillTool
      BY ConstantsAssumption DEF SearchTool, SkillTool
    <3> HIDE DEF c
    <3>3. QED BY <2>1, <2>3, <3>1, <3>2 DEF Call, Stages, AtWork
  <2>4. CASE k \notin DOMAIN outcome /\ calls[k].tool # SearchTool
    <3>1. c(k) = calls[k]
      BY <2>4
    <3>2. calls[k].tool # SkillTool
      BY <1>3, <2>4 DEF CallsOf
    <3> HIDE DEF c
    <3>3. QED BY <2>1, <3>1, <3>2
  <2>5. QED BY <2>2, <2>3, <2>4
<1>5. calls' = [k \in 1..Len(calls) |-> c(k)]
  BY <1>1, <1>3
<1> HIDE DEF c
<1>6. calls' \in Seq(Call)
  BY <1>3, <1>4, <1>5, IsASeq
<1>7. Len(calls') = Len(calls) /\ DOMAIN calls' = 1..Len(calls)
  BY <1>3, <1>5, <1>6, LenProperties
<1>8. skills' \in BOOLEAN
  BY <1>1, Zenon
<1>9. TypeOK'
  <2>1. steps' \in Nat /\ place' \in Places
    BY <1>2 DEF TypeIInv, TypeOK, Places
  <2>2. QED BY <1>2, <1>6, <1>7, <1>8, <2>1 DEF TypeIInv, TypeOK
<1>10. CallsInPlace' /\ OutcomeKnown'
  BY <1>2, <1>4, <1>5, <1>7 DEF CallsInPlace, OutcomeKnown
<1>11. QuietAfterEnd'
  BY <1>2 DEF QuietAfterEnd, Ended
<1>12. QED BY <1>2, <1>9, <1>10, <1>11 DEF TypeIInv, Ended

(* The external calls are queued when the searches are done. *)
LEMMA SearchedTypeIInv ==
  ASSUME TypeIInv, SearchesDone
  PROVE  TypeIInv'
<1>1. /\ place = "searching" /\ place' = "calling" /\ calls' = Queued(Tools)
      /\ UNCHANGED <<graph, shown, entries, snapshot>>
      /\ \A k \in CallsOf({SearchTool}) : calls[k].stage = "done"
  BY DEF SearchesDone, Gathered
<1>2. calls \in Seq(Call) /\ Len(calls) \in Nat /\ DOMAIN calls = 1..Len(calls)
  BY LenProperties DEF TypeIInv, TypeOK
<1> DEFINE c(k) == IF k \in CallsOf(Tools) THEN [calls[k] EXCEPT !.stage = "queued"] ELSE calls[k]
<1>3. ASSUME NEW k \in 1..Len(calls)
      PROVE  /\ c(k) \in Call
             /\ c(k).tool \notin Tools => c(k).stage = "done"
             /\ c(k).stage \in {"recording", "done"} => c(k).told \in {"ok", "error"}
  <2>1. calls[k] \in Call
    BY <1>2, ElementOfSeq
  <2>2. CASE calls[k].tool \in Tools
    BY <1>2, <2>1, <2>2 DEF CallsOf, Call, Stages, AtWork
  <2>3. CASE calls[k].tool \notin Tools
    <3>1. c(k) = calls[k]
      BY <2>3 DEF CallsOf
    <3>2. calls[k].tool \in {SearchTool, SkillTool}
      BY <2>1, <2>3 DEF Call, Callable
    <3>3. calls[k].stage = "done"
      BY <1>1, <1>2, <3>2 DEF CallsOf, TypeIInv, CallsInPlace
    <3>4. calls[k].told \in {"ok", "error"}
      BY <1>2, <3>3 DEF TypeIInv, OutcomeKnown
    <3> HIDE DEF c
    <3>5. QED BY <2>1, <3>1, <3>3, <3>4
  <2>4. QED BY <2>2, <2>3
<1>4. calls' = [k \in 1..Len(calls) |-> c(k)]
  BY <1>1, <1>2 DEF Queued
<1> HIDE DEF c
<1>5. calls' \in Seq(Call)
  BY <1>2, <1>3, <1>4, IsASeq
<1>6. Len(calls') = Len(calls) /\ DOMAIN calls' = 1..Len(calls)
  BY <1>2, <1>4, <1>5, LenProperties
<1>7. TypeOK'
  BY <1>1, <1>5, <1>6 DEF TypeIInv, TypeOK, Places, graph
<1>8. CallsInPlace' /\ OutcomeKnown'
  BY <1>1, <1>3, <1>4, <1>6 DEF CallsInPlace, OutcomeKnown
<1>9. QuietAfterEnd'
  BY <1>1 DEF QuietAfterEnd, Ended
<1>10. QED BY <1>1, <1>7, <1>8, <1>9 DEF TypeIInv, Ended, graph

(* One tool message for each call. *)
LEMMA ToolMessagesType ==
  ASSUME TypeOK, \A k \in DOMAIN calls : calls[k].told \in {"ok", "error"}
  PROVE  /\ ToolMessages \in Seq(Message) /\ Len(ToolMessages) = Len(calls)
         /\ \A k \in DOMAIN calls : /\ ToolMessages[k].role = "tool" /\ ToolMessages[k].calls = <<>>
                                    /\ ToolMessages[k].call = <<iteration, k>>
<1>1. Len(calls) \in Nat /\ DOMAIN calls = 1..Len(calls)
  BY LenProperties DEF TypeOK
<1> DEFINE t(k) == [Text("tool", <<calls[k].told>>) EXCEPT !.call = <<iteration, k>>]
<1>2. \A k \in 1..Len(calls) :
         t(k) = [role |-> "tool", content |-> <<calls[k].told>>, calls |-> <<>>, call |-> <<iteration, k>>]
  BY DEF Text
<1>3. ToolMessages = [k \in 1..Len(calls) |-> t(k)]
  BY <1>1 DEF ToolMessages
<1> HIDE DEF t
<1>4. \A k \in 1..Len(calls) : t(k) \in Message
  <2>1. TAKE k \in 1..Len(calls)
  <2>2. <<iteration, k>> \in CallId /\ <<>> \in Seq(CallId)
    BY <1>1, EmptySeq DEF CallId, TypeOK
  <2>3. calls[k].told \in Chunks
    BY <1>1 DEF Chunks
  <2>4. <<calls[k].told>> \in Seq(Chunks)
    BY <2>3
  <2>5. t(k) = [role |-> "tool", content |-> <<calls[k].told>>, calls |-> <<>>, call |-> <<iteration, k>>]
    BY <1>2
  <2>6. QED BY <2>2, <2>4, <2>5 DEF Message, Roles
<1>5. ToolMessages \in Seq(Message)
  BY <1>1, <1>3, <1>4, IsASeq
<1>6. Len(ToolMessages) = Len(calls)
  <2>1. DOMAIN ToolMessages = 1..Len(calls)
    BY <1>3
  <2>2. QED BY <1>1, <1>5, <2>1, LenProperties
<1>7. \A k \in DOMAIN calls : /\ ToolMessages[k].role = "tool" /\ ToolMessages[k].calls = <<>>
                             /\ ToolMessages[k].call = <<iteration, k>>
  BY <1>1, <1>2, <1>3
<1>8. QED BY <1>5, <1>6, <1>7

(* When results are collected every call is done and has one. *)
LEMMA CollectTypeIInv ==
  ASSUME TypeIInv, CollectResults
  PROVE  TypeIInv'
<1>1. /\ place = "calling" /\ place' = "agent" /\ messages' = messages \o ToolMessages
      /\ UNCHANGED <<iteration, steps, stopReason, calls, skills, answer, shown, entries, snapshot>>
      /\ \A k \in CallsOf(Tools) : calls[k].stage = "done"
  BY DEF CollectResults, Gathered
<1>2. Len(calls) \in Nat /\ DOMAIN calls = 1..Len(calls)
  BY LenProperties DEF TypeIInv, TypeOK
<1>3. \A k \in DOMAIN calls : calls[k].stage = "done" /\ calls[k].told \in {"ok", "error"}
  BY <1>1 DEF TypeIInv, CallsInPlace, OutcomeKnown, CallsOf
<1>6. ToolMessages \in Seq(Message)
  BY <1>3, ToolMessagesType DEF TypeIInv
<1>7. messages' \in Seq(Message) /\ messages' # <<>>
  <2>1. messages \in Seq(Message) /\ messages # <<>>
    BY <1>1 DEF TypeIInv, TypeOK, Ended
  <2>2. QED BY <1>1, <1>6, <2>1, ConcatProperties, ConcatEqualIffEmpty
<1>8. TypeOK'
  BY <1>1, <1>7 DEF TypeIInv, TypeOK, Places
<1>9. CallsInPlace' /\ OutcomeKnown' /\ QuietAfterEnd'
  BY <1>1, <1>3 DEF CallsInPlace, OutcomeKnown, QuietAfterEnd, Ended, AtWork
<1>10. QED BY <1>7, <1>8, <1>9 DEF TypeIInv
-----------------------------------------------------------------------------
(* _answer_node preserves it. *)
LEMMA AnswerTypeIInv ==
  ASSUME TypeIInv, AnswerNode
  PROVE  TypeIInv'
<1>1. /\ place = "answer" /\ steps' = steps + 1 /\ place' \in {"finalizing", "streaming"}
      /\ UNCHANGED <<iteration, stopReason, calls, skills, entries, snapshot>>
      /\ \/ UNCHANGED <<answer, shown, messages>>
         \/ answer' = Substitute /\ shown' = shown \o Substitute /\ messages' = WithAnswer(Substitute)
  BY DEF AnswerNode
<1>2. messages # <<>> /\ TypeOK
  BY <1>1 DEF TypeIInv, Ended
<1>3. Substitute \in Seq(Chunks)
  BY <1>2, SubstituteType
<1>4. WithAnswer(Substitute) \in Seq(Message) /\ WithAnswer(Substitute) # <<>>
  BY <1>2, <1>3, WithAnswerType
<1>5. shown \o Substitute \in Seq(Chunks)
  BY <1>2, <1>3, ConcatProperties DEF TypeOK
<1>6. steps' \in Nat /\ place' \in Places
  BY <1>1, <1>2 DEF TypeOK, Places
<1>7. messages' # <<>> /\ messages' \in Seq(Message)
  BY <1>1, <1>2, <1>4 DEF TypeOK
<1>8. TypeOK'
  BY <1>1, <1>2, <1>3, <1>5, <1>6, <1>7 DEF TypeOK
<1>9. QED BY <1>1, <1>7, <1>8, NodeTypeIInv DEF Ended

(* So does a streamed chunk. *)
LEMMA ChunkTypeIInv ==
  ASSUME TypeIInv, Chunk
  PROVE  TypeIInv'
<1>1. /\ place = "streaming" /\ UNCHANGED <<place, graph, calls, entries, snapshot>>
      /\ \E chunk \in {Blank, "text"} : shown' = Append(shown, chunk)
  BY DEF Chunk
<1>2. shown' \in Seq(Chunks)
  <2>1. Blank \in Chunks /\ "text" \in Chunks
    BY DEF Chunks
  <2>2. QED BY <1>1, <2>1, AppendProperties DEF TypeIInv, TypeOK
<1>3. TypeOK'
  BY <1>1, <1>2 DEF TypeIInv, TypeOK, graph
<1>4. messages' # <<>>
  BY <1>1 DEF TypeIInv, Ended, graph
<1>5. QED BY <1>1, <1>3, <1>4, NodeTypeIInv DEF Ended

(* So does the end of the stream. *)
LEMMA StreamedTypeIInv ==
  ASSUME TypeIInv, StreamEnds
  PROVE  TypeIInv'
<1>1. /\ place = "streaming" /\ place' = "finalizing" /\ messages' = WithAnswer(answer')
      /\ answer' \in {Stripped(shown), Substitute} /\ shown' \in {shown, shown \o Substitute}
      /\ UNCHANGED <<iteration, steps, stopReason, calls, skills, entries, snapshot>>
  BY DEF StreamEnds
<1>2. messages # <<>> /\ TypeOK
  BY <1>1 DEF TypeIInv, Ended
<1>3. Substitute \in Seq(Chunks) /\ shown \in Seq(Chunks)
  BY <1>2, SubstituteType DEF TypeOK
<1>4. answer' \in Seq(Chunks)
  BY <1>1, <1>3, StrippedType
<1>5. shown' \in Seq(Chunks)
  BY <1>1, <1>3, ConcatProperties
<1>6. WithAnswer(answer') \in Seq(Message) /\ WithAnswer(answer') # <<>>
  BY <1>2, <1>4, WithAnswerType
<1>7. TypeOK'
  BY <1>1, <1>2, <1>4, <1>5, <1>6 DEF TypeOK, Places
<1>8. QED BY <1>1, <1>6, <1>7, NodeTypeIInv DEF Ended

(* So do the steps of finalize_execution. *)
LEMMA FinalizeTypeIInv ==
  ASSUME TypeIInv, RecordAnswer \/ SaveSnapshot
  PROVE  TypeIInv'
<1>1. CASE RecordAnswer
  <2>1. entries' \in Seq(Entry)
    <3>1. [kind |-> "assistant_message", call |-> NoCall] \in Entry
      BY DEF Entry, Kinds, NoCall, CallId
    <3>2. QED BY <1>1, <3>1, AppendProperties DEF RecordAnswer, TypeIInv, TypeOK
  <2>2. TypeOK'
    BY <1>1, <2>1 DEF RecordAnswer, TypeIInv, TypeOK, Places, graph
  <2>3. messages' # <<>>
    BY <1>1 DEF RecordAnswer, TypeIInv, Ended, graph
  <2>4. QED BY <1>1, <2>2, <2>3, NodeTypeIInv DEF RecordAnswer, Ended
<1>2. CASE SaveSnapshot
  <2>1. /\ place = "summarizing" /\ place' \in {"returned", "raised"} /\ snapshot' = TRUE
        /\ UNCHANGED <<graph, calls, shown, entries>>
    BY <1>2 DEF SaveSnapshot
  <2>2. TypeOK'
    BY <2>1 DEF TypeIInv, TypeOK, Places, Ended, graph
  <2>3. QED BY <2>1, <2>2, NodeTypeIInv DEF Ended
<1>3. QED BY <1>1, <1>2

(* Every step preserves the invariant. *)
LEMMA StepTypeIInv ==
  TypeIInv /\ [Next]_vars => TypeIInv'
<1> SUFFICES ASSUME TypeIInv, [Next]_vars PROVE TypeIInv'
  OBVIOUS
<1>1. CASE Graph
  BY <1>1, LoadTypeIInv, AgentTypeIInv, PrepareTypeIInv, RespondTypeIInv, SkillsTypeIInv,
     SearchedTypeIInv, CollectTypeIInv, AnswerTypeIInv, ChunkTypeIInv, StreamedTypeIInv,
     FinalizeTypeIInv, RaiseTypeIInv, Zenon DEF Graph
<1>2. CASE Cancel
  BY <1>2, CancelTypeIInv
<1>3. CASE \E k \in 1..MaxCalls : CallTask(k)
  BY <1>3, CallTaskTypeIInv
<1>4. CASE UNCHANGED vars
  BY <1>4 DEF vars, graph, TypeIInv, TypeOK, CallsInPlace, OutcomeKnown, QuietAfterEnd
<1>5. QED BY <1>1, <1>2, <1>3, <1>4 DEF Next

(* The invariant holds throughout. *)
THEOREM InvariantHolds == Spec => []TypeIInv
BY InitTypeIInv, StepTypeIInv, PTL DEF Spec

(* The variables hold values of their kind; the results told to the model  *)
(* are outcomes, whatever order the tasks of a response end in.            *)
THEOREM TypeCorrect == Spec => []TypeOK
BY InvariantHolds, PTL DEF TypeIInv

(* After return, failure of a node or cancellation nothing of the program  *)
(* is at work: only an exception that escapes from a call leaves tasks.    *)
THEOREM NothingLeftAtWork == Spec => []QuietAfterEnd
BY InvariantHolds, PTL DEF TypeIInv

-----------------------------------------------------------------------------
(* How many nodes have run, by place: three per iteration, one for the     *)
(* iteration that is not begun, one for the answer.                        *)
Counted ==
    /\ iteration \in Nat /\ steps \in Nat /\ iteration <= MaxIterations
    /\ place = "load" => iteration = 0 /\ steps = 0
    /\ place = "agent" => steps = 3 * iteration
    /\ place = "reasoning" => steps + 2 = 3 * iteration
    /\ place \in {"thinking", "action"} => steps + 1 = 3 * iteration
    /\ place \in {"searching", "calling"} => steps = 3 * iteration
    /\ place = "answer" => steps <= 3 * iteration + 1
    /\ steps <= 3 * iteration + 2

(* Call tasks run no nodes. *)
LEMMA CallTaskCounts ==
  ASSUME Counted, NEW k, CallTask(k)
  PROVE  UNCHANGED <<iteration, steps>> /\ (place' = place \/ place' = "raised")
BY DEF CallTask, Start, Return, PublishCompleted, PublishFailed, Record, CallRaises, graph

(* An iteration has at most three nodes. *)
LEMMA StepCounted ==
  Counted /\ [Next]_vars => Counted'
<1> SUFFICES ASSUME Counted, [Next]_vars PROVE Counted'
  OBVIOUS
<1>1. CASE LoadContext
  BY <1>1 DEF LoadContext, Counted
<1>2. CASE AgentNode
  <2>1. MaxIterations \in Nat
    BY ConstantsAssumption
  <2>2. /\ place = "agent" /\ steps' = steps + 1
        /\ \/ place' = "answer" /\ UNCHANGED iteration
           \/ place' = "reasoning" /\ iteration < MaxIterations /\ iteration' = iteration + 1
    BY <1>2 DEF AgentNode
  <2>3. QED BY <2>1, <2>2 DEF Counted
<1>3. CASE PrepareReasoning
  BY <1>3 DEF PrepareReasoning, Counted
<1>4. CASE ModelResponds
  <2>1. place = "thinking" /\ place' \in {"action", "answer"} /\ UNCHANGED <<iteration, steps>>
    BY <1>4 DEF ModelResponds
  <2>2. QED BY <2>1 DEF Counted
<1>5. CASE RequestSkills
  <2>1. place = "action" /\ place' = "searching" /\ steps' = steps + 1 /\ UNCHANGED iteration
    BY <1>5 DEF RequestSkills
  <2>2. QED BY <2>1 DEF Counted
<1>6. CASE SearchesDone
  BY <1>6 DEF SearchesDone, Counted, graph
<1>7. CASE CollectResults
  BY <1>7 DEF CollectResults, Counted
<1>8. CASE AnswerNode
  <2>1. place = "answer" /\ place' \in {"finalizing", "streaming"} /\ steps' = steps + 1 /\ UNCHANGED iteration
    BY <1>8 DEF AnswerNode
  <2>2. QED BY <2>1 DEF Counted
<1>9. CASE Chunk \/ StreamEnds \/ RecordAnswer \/ SaveSnapshot \/ NodeRaises \/ Cancel
  <2>1. UNCHANGED <<iteration, steps>>
        /\ (place' = place \/ place' \in {"finalizing", "summarizing"} \cup Ended)
    BY <1>9 DEF Chunk, StreamEnds, RecordAnswer, SaveSnapshot, NodeRaises, Cancel, graph, Ended
  <2>2. QED BY <2>1 DEF Counted, Ended
<1>10. CASE \E k \in 1..MaxCalls : CallTask(k)
  <2>1. UNCHANGED <<iteration, steps>> /\ (place' = place \/ place' = "raised")
    BY <1>10, CallTaskCounts
  <2>2. QED BY <2>1 DEF Counted
<1>11. CASE UNCHANGED vars
  BY <1>11 DEF vars, graph, Counted
<1>12. QED BY <1>1, <1>2, <1>3, <1>4, <1>5, <1>6, <1>7, <1>8, <1>9, <1>10, <1>11 DEF Next, Graph

(* The recursion limit leaves room for all of them. *)
LEMMA LimitIsEnough ==
  RecursionLimit \in Nat /\ MaxIterations * 4 + 8 <= RecursionLimit
<1> DEFINE n == MaxIterations * 4 + 8
<1>1. n \in Nat
  BY ConstantsAssumption
<1> HIDE DEF n
<1>2. \E x \in {32, n} : \A y \in {32, n} : x >= y
  BY <1>1
<1>3. Max({32, n}) \in {32, n} /\ \A y \in {32, n} : Max({32, n}) >= y
  BY <1>2 DEF Max
<1>4. QED BY <1>1, <1>3 DEF RecursionLimit, n

(* For every limit of iterations the program is stopped by that limit and  *)
(* never by the graph's.                                                   *)
THEOREM IterationLimitComesFirst == Spec => []GraphStaysInLimit
<1>1. Init => Counted
  BY ConstantsAssumption DEF Init, Counted
<1>2. Counted => GraphStaysInLimit
  <2>1. MaxIterations \in Nat
    BY ConstantsAssumption
  <2>2. QED BY <2>1, LimitIsEnough DEF Counted, GraphStaysInLimit
<1>3. QED BY <1>1, <1>2, StepCounted, PTL DEF Spec
-----------------------------------------------------------------------------
(* No more tasks than MaxParallel hold the semaphore of a tool. *)
SemaphoresHold == \A tool \in Tools : Cardinality(Holders(tool)) <= MaxParallel

(* Only finitely many calls hold a semaphore. *)
LEMMA HoldersAreFinite ==
  ASSUME calls \in Seq(Call), NEW tool
  PROVE  IsFiniteSet(Holders(tool)) /\ Cardinality(Holders(tool)) \in Nat
<1>1. Len(calls) \in Nat /\ Holders(tool) \subseteq 1..Len(calls)
  BY LenProperties DEF Holders
<1>2. IsFiniteSet(1..Len(calls))
  BY <1>1, FS_Interval
<1>3. QED BY <1>1, <1>2, FS_Subset, FS_CardinalityType

(* A task begins to hold only where a place is free. *)
LEMMA CallTaskHolds ==
  ASSUME TypeIInv, SemaphoresHold, NEW k, CallTask(k), NEW tool \in Tools
  PROVE  Cardinality(Holders(tool)') <= MaxParallel
<1>1. k \in DOMAIN calls /\ calls[k].stage \in AtWork
  BY CallTaskEffect
<1>2. PICK stage \in Stages, told \in {"none", "ok", "error"}, events \in SUBSET {"completed", "failed"} :
        SetCall(k, stage, told, events)
  BY CallTaskEffect
<1>3. /\ calls' \in Seq(Call) /\ DOMAIN calls' = DOMAIN calls /\ calls'[k].tool = calls[k].tool
      /\ \A j \in DOMAIN calls : j # k => calls'[j] = calls[j]
  BY <1>1, <1>2, SetCallEffect DEF TypeIInv, TypeOK
<1>4. /\ IsFiniteSet(Holders(tool)) /\ Cardinality(Holders(tool)) \in Nat
      /\ Cardinality(Holders(tool)) <= MaxParallel /\ MaxParallel \in Nat
  BY HoldersAreFinite, ConstantsAssumption DEF TypeIInv, TypeOK, SemaphoresHold
<1>5. CASE k \in Holders(tool) \/ calls[k].tool # tool
  <2>1. Holders(tool)' \subseteq Holders(tool)
    BY <1>3, <1>5 DEF Holders
  <2>2. IsFiniteSet(Holders(tool)') /\ Cardinality(Holders(tool)') <= Cardinality(Holders(tool))
    BY <1>4, <2>1, FS_Subset
  <2>3. Cardinality(Holders(tool)') \in Nat
    BY <2>2, FS_CardinalityType
  <2>4. QED BY <1>4, <2>2, <2>3
<1>6. CASE k \notin Holders(tool) /\ calls[k].tool = tool
  <2>1. calls[k].stage = "queued"
    BY <1>1, <1>6 DEF Holders
  <2>2. Start(k)
    BY <2>1 DEF CallTask, Return, PublishCompleted, PublishFailed, Record
  <2>3. Cardinality(Holders(tool)) < MaxParallel
    BY <1>6, <2>2 DEF Start
  <2>4. Holders(tool)' \subseteq Holders(tool) \cup {k}
    BY <1>3 DEF Holders
  <2>5. /\ IsFiniteSet(Holders(tool) \cup {k})
        /\ Cardinality(Holders(tool) \cup {k}) = Cardinality(Holders(tool)) + 1
    BY <1>4, <1>6, FS_AddElement
  <2>6. /\ IsFiniteSet(Holders(tool)')
        /\ Cardinality(Holders(tool)') <= Cardinality(Holders(tool) \cup {k})
    BY <2>4, <2>5, FS_Subset
  <2>7. Cardinality(Holders(tool)') \in Nat
    BY <2>6, FS_CardinalityType
  <2>8. QED BY <1>4, <2>3, <2>5, <2>6, <2>7
<1>7. QED BY <1>5, <1>6

(* Every step respects the limit of each tool. *)
LEMMA StepHolds ==
  ASSUME TypeIInv, TypeIInv', SemaphoresHold, [Next]_vars
  PROVE  SemaphoresHold'
<1> SUFFICES ASSUME NEW tool \in Tools PROVE Cardinality(Holders(tool)') <= MaxParallel
  BY DEF SemaphoresHold
<1>1. Cardinality({}) = 0 /\ MaxParallel \in Nat
  BY FS_EmptySet, ConstantsAssumption
<1>2. CASE UNCHANGED calls
  BY <1>2 DEF SemaphoresHold, Holders
<1>3. CASE SearchesDone
  <2>1. ASSUME NEW k \in DOMAIN calls', calls'[k].tool = tool PROVE calls'[k].stage = "queued"
    <3>1. calls' = Queued(Tools) /\ k \in DOMAIN calls
      BY <1>3 DEF SearchesDone, Queued
    <3>2. calls[k] \in Call
      BY <3>1, LenProperties, ElementOfSeq DEF TypeIInv, TypeOK
    <3>3. CASE k \in CallsOf(Tools)
      BY <3>1, <3>2, <3>3 DEF Queued, Call
    <3>4. CASE k \notin CallsOf(Tools)
      BY <2>1, <3>1, <3>2, <3>4 DEF Queued, CallsOf
    <3>5. QED BY <3>3, <3>4
  <2>2. Holders(tool)' = {}
    BY <2>1 DEF Holders
  <2>3. QED BY <1>1, <2>2
<1>4. CASE place' \notin {"searching", "calling", "raised"}
  <2>1. Holders(tool)' = {}
    BY <1>4 DEF TypeIInv, CallsInPlace, Holders
  <2>2. QED BY <1>1, <2>1
<1>5. CASE place' = "searching" /\ RequestSkills
  <2>1. Holders(tool)' = {}
    BY <1>5 DEF TypeIInv, CallsInPlace, Holders, AtWork
  <2>2. QED BY <1>1, <2>1
<1>6. CASE \E k \in 1..MaxCalls : CallTask(k)
  BY <1>6, CallTaskHolds
<1>7. Graph \/ Cancel => \/ UNCHANGED calls
                         \/ SearchesDone
                         \/ place' \notin {"searching", "calling", "raised"}
                         \/ place' = "searching" /\ RequestSkills
  BY DEF Graph, Cancel, LoadContext, AgentNode, PrepareReasoning, ModelResponds, RequestSkills,
         CollectResults, AnswerNode, Chunk, StreamEnds, RecordAnswer, SaveSnapshot, NodeRaises
<1>8. QED BY <1>2, <1>3, <1>4, <1>5, <1>6, <1>7 DEF Next, vars

(* However many calls a response asks for, and with tasks of a failed      *)
(* program still running, no tool works on more than MaxParallel of them.  *)
THEOREM ToolsAreNotOverrun == Spec => []ParallelismBounded
<1>1. Init => SemaphoresHold
  <2> SUFFICES ASSUME Init, NEW tool \in Tools PROVE Cardinality(Holders(tool)) <= MaxParallel
    BY DEF SemaphoresHold
  <2>1. DOMAIN calls = {}
    BY DEF Init
  <2>2. Holders(tool) = {}
    BY <2>1 DEF Holders
  <2>3. QED BY <2>2, FS_EmptySet, ConstantsAssumption
<1>2. TypeIInv /\ SemaphoresHold => ParallelismBounded
  <2> SUFFICES ASSUME TypeIInv, SemaphoresHold, NEW tool \in Tools
               PROVE  Cardinality({k \in DOMAIN calls : calls[k].tool = tool /\ calls[k].stage = "invoking"})
                        <= MaxParallel
    BY DEF ParallelismBounded
  <2> DEFINE I == {k \in DOMAIN calls : calls[k].tool = tool /\ calls[k].stage = "invoking"}
  <2>1. I \subseteq Holders(tool)
    BY DEF Holders, AtWork
  <2>2. /\ IsFiniteSet(Holders(tool)) /\ Cardinality(Holders(tool)) \in Nat
        /\ Cardinality(Holders(tool)) <= MaxParallel /\ MaxParallel \in Nat
    BY HoldersAreFinite, ConstantsAssumption DEF TypeIInv, TypeOK, SemaphoresHold
  <2> HIDE DEF I
  <2>3. IsFiniteSet(I) /\ Cardinality(I) <= Cardinality(Holders(tool))
    BY <2>1, <2>2, FS_Subset
  <2>4. Cardinality(I) \in Nat
    BY <2>3, FS_CardinalityType
  <2>5. Cardinality(I) <= MaxParallel
    BY <2>2, <2>3, <2>4
  <2>6. QED BY <2>5 DEF I
<1>3. TypeIInv /\ TypeIInv' /\ SemaphoresHold /\ [Next]_vars => SemaphoresHold'
  BY StepHolds
<1>4. QED BY <1>1, <1>2, <1>3, InvariantHolds, PTL DEF Spec
-----------------------------------------------------------------------------
(* What a call has been told to the observers, by its stage. *)
Reported(c) ==
    /\ c.stage \in {"idle", "queued", "invoking", "succeeded"} => c.shown = {}
    /\ c.stage = "failed" => c.shown \subseteq {"completed"}
    /\ c.stage = "recording" => c.tool \in Tools
    /\ c.stage \in {"recording", "done"} =>
          /\ c.told = "error" <=> "failed" \in c.shown
          /\ c.told = "ok" => "completed" \in c.shown

(* What the memory has of it: one entry, of its kind, once it is done.     *)
Remembered(k) ==
    IF calls[k].stage = "done" /\ calls[k].tool \in Tools
    THEN \E n \in Noted(k) : /\ Noted(k) = {n}
                             /\ entries[n].kind = "tool_error" <=> calls[k].told = "error"
    ELSE Noted(k) = {}

(* An iteration begins without entries of its own. *)
Observed ==
    /\ \A k \in DOMAIN calls : Reported(calls[k]) /\ Remembered(k)
    /\ \A n \in DOMAIN entries : entries[n].call[1] <= iteration
    /\ place \in {"reasoning", "thinking"} =>
          \A n \in DOMAIN entries : entries[n].call[1] < iteration

(* One entry more notes the call it is about. *)
LEMMA EntryNotes ==
  ASSUME entries \in Seq(Entry), NEW e \in Entry, entries' = Append(entries, e),
         iteration' = iteration
  PROVE  /\ DOMAIN entries' = DOMAIN entries \cup {Len(entries) + 1}
         /\ Len(entries) + 1 \notin DOMAIN entries
         /\ \A n \in DOMAIN entries : entries'[n] = entries[n]
         /\ entries'[Len(entries) + 1] = e
         /\ \A k : Noted(k)' = Noted(k) \cup (IF e.call = <<iteration, k>>
                                                 THEN {Len(entries) + 1} ELSE {})
<1>1. /\ Len(entries) \in Nat /\ DOMAIN entries = 1..Len(entries)
      /\ entries' \in Seq(Entry) /\ Len(entries') = Len(entries) + 1
      /\ \A n \in 1..Len(entries) : entries'[n] = entries[n]
      /\ entries'[Len(entries) + 1] = e
  BY AppendProperties, LenProperties
<1>2. DOMAIN entries' = 1..Len(entries) + 1
  BY <1>1, LenProperties
<1>3. /\ DOMAIN entries' = DOMAIN entries \cup {Len(entries) + 1}
      /\ Len(entries) + 1 \notin DOMAIN entries
  BY <1>1, <1>2
<1>4. ASSUME NEW k
      PROVE  Noted(k)' = Noted(k) \cup (IF e.call = <<iteration, k>>
                                           THEN {Len(entries) + 1} ELSE {})
  BY <1>1, <1>3 DEF Noted
<1>5. QED BY <1>1, <1>3, <1>4

(* An entry about no call changes nothing for the calls. *)
LEMMA OtherEntry ==
  ASSUME TypeIInv, Observed, NEW kind \in Kinds,
         entries' = Append(entries, [kind |-> kind, call |-> NoCall]),
         UNCHANGED <<iteration, calls>>, place' \notin {"reasoning", "thinking"}
  PROVE  Observed'
<1> DEFINE e == [kind |-> kind, call |-> NoCall]
<1>1. e \in Entry /\ entries \in Seq(Entry) /\ iteration \in Nat /\ e.call[1] <= iteration
  BY DEF Entry, NoCall, CallId, TypeIInv, TypeOK
<1> HIDE DEF e
<1>2. /\ DOMAIN entries' = DOMAIN entries \cup {Len(entries) + 1}
      /\ \A n \in DOMAIN entries : entries'[n] = entries[n]
      /\ entries'[Len(entries) + 1] = e
      /\ \A k : Noted(k)' = Noted(k) \cup (IF e.call = <<iteration, k>>
                                              THEN {Len(entries) + 1} ELSE {})
  BY <1>1, EntryNotes DEF e
<1>3. ASSUME NEW k \in DOMAIN calls PROVE Noted(k)' = Noted(k)
  <2>1. k # 0
    BY LenProperties DEF TypeIInv, TypeOK
  <2>2. QED BY <1>2, <2>1 DEF e, NoCall
<1>4. ASSUME NEW k \in DOMAIN calls, Remembered(k) PROVE Remembered(k)'
  <2>1. Noted(k) \subseteq DOMAIN entries
    BY DEF Noted
  <2>2. QED BY <1>2, <1>3, <1>4, <2>1 DEF Remembered
<1>5. QED BY <1>1, <1>2, <1>4 DEF Observed

(* A step that leaves the memory alone and has every call keep its         *)
(* promises.                                                               *)
LEMMA SameEntries ==
  ASSUME Observed, UNCHANGED <<entries, iteration>>,
         place' \in {"reasoning", "thinking"} => place \in {"reasoning", "thinking"},
         DOMAIN calls' = DOMAIN calls,
         \A k \in DOMAIN calls :
            \/ calls'[k] = calls[k]
            \/ /\ Reported(calls'[k])
               /\ calls[k].stage # "done"
               /\ calls'[k].stage # "done" \/ calls'[k].tool \notin Tools
  PROVE  Observed'
<1>1. \A k : Noted(k)' = Noted(k)
  BY DEF Noted
<1>2. ASSUME NEW k \in DOMAIN calls PROVE Remembered(k)'
  BY <1>1 DEF Observed, Remembered
<1>3. QED BY <1>2 DEF Observed

(* A task publishes before it records, and records before it is done.      *)
LEMMA CallTaskObserved ==
  ASSUME TypeIInv, Observed, NEW k, CallTask(k)
  PROVE  Observed'
<1>1. /\ k \in DOMAIN calls /\ calls[k].stage \in AtWork /\ calls[k] \in Call
      /\ UNCHANGED graph /\ place' \in {place, "raised"}
  <2>1. calls[k].stage \in AtWork /\ k \in DOMAIN calls /\ UNCHANGED graph /\ place' \in {place, "raised"}
    BY CallTaskEffect
  <2>2. QED BY <2>1, LenProperties, ElementOfSeq DEF TypeIInv, TypeOK
<1>2. Reported(calls[k])
  BY <1>1 DEF Observed
<1>3. ASSUME NEW stage \in Stages, NEW told \in {"none", "ok", "error"},
             NEW events \in SUBSET {"completed", "failed"}, SetCall(k, stage, told, events)
      PROVE  /\ calls' \in Seq(Call) /\ DOMAIN calls' = DOMAIN calls
             /\ calls'[k] = [tool |-> calls[k].tool, stage |-> stage, told |-> told,
                             shown |-> calls[k].shown \cup events]
             /\ \A j \in DOMAIN calls : j # k => calls'[j] = calls[j]
  <2>1. /\ calls' \in Seq(Call) /\ DOMAIN calls' = DOMAIN calls
        /\ \A j \in DOMAIN calls : j # k => calls'[j] = calls[j]
    BY <1>1, <1>3, SetCallEffect DEF TypeIInv, TypeOK
  <2>2. QED BY <1>1, <1>3, <2>1 DEF SetCall
<1>4. ASSUME NEW stage \in Stages, NEW told \in {"none", "ok", "error"},
             NEW events \in SUBSET {"completed", "failed"}, SetCall(k, stage, told, events),
             Reported([tool |-> calls[k].tool, stage |-> stage, told |-> told,
                       shown |-> calls[k].shown \cup events]),
             stage # "done" \/ calls[k].tool \notin Tools,
             UNCHANGED entries
      PROVE  Observed'
  <2> DEFINE c == [tool |-> calls[k].tool, stage |-> stage, told |-> told,
                   shown |-> calls[k].shown \cup events]
  <2>1. c.stage = stage /\ c.tool = calls[k].tool
    OBVIOUS
  <2> HIDE DEF c
  <2>2. /\ DOMAIN calls' = DOMAIN calls /\ calls'[k] = c
        /\ \A j \in DOMAIN calls : j # k => calls'[j] = calls[j]
    BY <1>3, <1>4 DEF c
  <2>3. calls[k].stage # "done" /\ UNCHANGED iteration
    BY <1>1 DEF AtWork, graph
  <2>4. Reported(calls'[k])
    BY <1>4, <2>2 DEF c
  <2>5. place' \in {"reasoning", "thinking"} => place \in {"reasoning", "thinking"}
    BY <1>1
  <2>6. QED BY <1>4, <2>1, <2>2, <2>3, <2>4, <2>5, SameEntries
<1>5. ASSUME NEW events \in SUBSET {"completed", "failed"}, CallRaises(k, events) PROVE Observed'
  <2>1. "raised" \in Stages /\ calls[k].told \in {"none", "ok", "error"}
    BY <1>1 DEF Stages, Call
  <2>2. SetCall(k, "raised", calls[k].told, events) /\ UNCHANGED entries
    BY <1>5 DEF CallRaises
  <2>3. Reported([tool |-> calls[k].tool, stage |-> "raised", told |-> calls[k].told,
                  shown |-> calls[k].shown \cup events])
    BY DEF Reported
  <2>4. QED BY <1>4, <2>1, <2>2, <2>3
<1>6. CASE Start(k)
  <2>1. CASE CallRaises(k, {})
    BY <1>5, <2>1
  <2>2. CASE SetCall(k, "invoking", "none", {}) /\ UNCHANGED entries
    <3>1. Reported([tool |-> calls[k].tool, stage |-> "invoking", told |-> "none",
                    shown |-> calls[k].shown \cup {}])
      BY <1>2, <1>6 DEF Reported, Start
    <3>2. QED BY <1>4, <2>2, <3>1 DEF Stages, AtWork
  <2>3. QED BY <1>6, <2>1, <2>2 DEF Start
<1>7. CASE Return(k)
  <2>1. PICK stage \in {"succeeded", "failed"} : SetCall(k, stage, "none", {}) /\ UNCHANGED entries
    BY <1>7 DEF Return
  <2>2. Reported([tool |-> calls[k].tool, stage |-> stage, told |-> "none",
                  shown |-> calls[k].shown \cup {}])
    BY <1>2, <1>7 DEF Reported, Return
  <2>3. QED BY <1>4, <2>1, <2>2 DEF Stages, AtWork
<1>8. CASE PublishCompleted(k)
  <2>1. UNCHANGED entries /\ calls[k].shown = {}
    BY <1>2, <1>8 DEF PublishCompleted, Reported
  <2>2. CASE SetCall(k, AfterOutcome(k), "ok", {"completed"})
    <3>1. Reported([tool |-> calls[k].tool, stage |-> AfterOutcome(k), told |-> "ok",
                    shown |-> calls[k].shown \cup {"completed"}])
      BY <2>1 DEF Reported, AfterOutcome
    <3>2. AfterOutcome(k) \in Stages /\ (AfterOutcome(k) # "done" \/ calls[k].tool \notin Tools)
      BY DEF AfterOutcome, Stages, AtWork
    <3>3. QED BY <1>4, <2>1, <2>2, <3>1, <3>2
  <2>3. CASE \E events \in SUBSET {"completed"} : SetCall(k, "failed", "none", events)
    <3>1. PICK events \in SUBSET {"completed"} : SetCall(k, "failed", "none", events)
      BY <2>3
    <3>2. Reported([tool |-> calls[k].tool, stage |-> "failed", told |-> "none",
                    shown |-> calls[k].shown \cup events])
      BY <2>1 DEF Reported
    <3>3. QED BY <1>4, <2>1, <3>1, <3>2 DEF Stages, AtWork
  <2>4. QED BY <1>8, <2>2, <2>3 DEF PublishCompleted
<1>9. CASE PublishFailed(k)
  <2>1. CASE SetCall(k, AfterOutcome(k), "error", {"failed"}) /\ UNCHANGED entries
    <3>1. Reported([tool |-> calls[k].tool, stage |-> AfterOutcome(k), told |-> "error",
                    shown |-> calls[k].shown \cup {"failed"}])
      BY DEF Reported, AfterOutcome
    <3>2. AfterOutcome(k) \in Stages /\ (AfterOutcome(k) # "done" \/ calls[k].tool \notin Tools)
      BY DEF AfterOutcome, Stages, AtWork
    <3>3. QED BY <1>4, <2>1, <3>1, <3>2
  <2>2. CASE \E events \in SUBSET {"failed"} : CallRaises(k, events)
    BY <1>5, <2>2
  <2>3. QED BY <1>9, <2>1, <2>2 DEF PublishFailed
<1>10. CASE Record(k)
  <2>1. CASE CallRaises(k, {})
    BY <1>5, <2>1
  <2>2. CASE entries' = Append(entries, Observation(k)) /\ SetCall(k, "done", calls[k].told, {})
    <3>1. /\ Observation(k) \in Entry /\ Observation(k).call = <<iteration, k>>
          /\ Observation(k).kind = "tool_error" <=> calls[k].told = "error"
          /\ Observation(k).call[1] = iteration
          /\ entries \in Seq(Entry) /\ UNCHANGED iteration /\ iteration \in Nat
      <4>1. k \in Nat
        BY <1>1, LenProperties DEF TypeIInv, TypeOK
      <4>2. QED BY <4>1, <1>1 DEF TypeIInv, TypeOK, Observation, Entry, Kinds, CallId, graph
    <3>2. /\ DOMAIN entries' = DOMAIN entries \cup {Len(entries) + 1}
          /\ \A n \in DOMAIN entries : entries'[n] = entries[n]
          /\ entries'[Len(entries) + 1] = Observation(k)
          /\ \A j : Noted(j)' = Noted(j) \cup (IF Observation(k).call = <<iteration, j>>
                                                  THEN {Len(entries) + 1} ELSE {})
      BY <2>2, <3>1, EntryNotes
    <3>3. /\ DOMAIN calls' = DOMAIN calls
          /\ calls'[k] = [tool |-> calls[k].tool, stage |-> "done", told |-> calls[k].told,
                          shown |-> calls[k].shown \cup {}]
          /\ \A j \in DOMAIN calls : j # k => calls'[j] = calls[j]
      BY <1>1, <1>3, <2>2 DEF Stages, Call
    <3>4. Noted(k) = {} /\ calls[k].tool \in Tools /\ Reported(calls'[k])
      BY <1>1, <1>2, <1>10, <3>3 DEF Observed, Remembered, Reported, Record
    <3>5. Remembered(k)'
      <4>1. Noted(k)' = {Len(entries) + 1}
        BY <3>1, <3>2, <3>4
      <4>2. /\ entries'[Len(entries) + 1].kind = Observation(k).kind
            /\ calls'[k].stage = "done" /\ calls'[k].told = calls[k].told
            /\ calls'[k].tool \in Tools
        BY <3>2, <3>3, <3>4
      <4>3. entries'[Len(entries) + 1].kind = "tool_error" <=> calls'[k].told = "error"
        BY <3>1, <4>2
      <4>4. QED BY <4>1, <4>2, <4>3 DEF Remembered
    <3>6. ASSUME NEW j \in DOMAIN calls, j # k PROVE Remembered(j)'
      <4>1. Noted(j)' = Noted(j)
        <5>1. <<iteration, k>> # <<iteration, j>>
          BY <3>6
        <5>2. QED BY <3>1, <3>2, <5>1
      <4>2. Noted(j) \subseteq DOMAIN entries
        BY DEF Noted
      <4>3. QED BY <3>2, <3>3, <3>6, <4>1, <4>2 DEF Observed, Remembered
    <3>7. place' \notin {"reasoning", "thinking"}
      BY <1>1 DEF TypeIInv, CallsInPlace
    <3>8. \A n \in DOMAIN entries' : entries'[n].call[1] <= iteration'
      BY <3>1, <3>2 DEF Observed
    <3>9. QED BY <3>3, <3>4, <3>5, <3>6, <3>7, <3>8 DEF Observed
  <2>3. QED BY <1>10, <2>1, <2>2 DEF Record
<1>11. QED BY <1>6, <1>7, <1>8, <1>9, <1>10 DEF CallTask

(* Every step keeps the three in agreement. *)
LEMMA StepObserved ==
  ASSUME TypeIInv, Observed, [Next]_vars
  PROVE  Observed'
<1>1. /\ calls \in Seq(Call) /\ entries \in Seq(Entry) /\ iteration \in Nat
      /\ \A k \in DOMAIN calls : calls[k] \in Call
  BY LenProperties, ElementOfSeq DEF TypeIInv, TypeOK
<1>2. CASE UNCHANGED <<calls, entries, iteration>> /\ (place' = place \/ place' \notin {"reasoning", "thinking"})
  BY <1>2, SameEntries
<1>3. CASE LoadContext \/ RecordAnswer
  <2>1. PICK kind \in Kinds : entries' = Append(entries, [kind |-> kind, call |-> NoCall])
    BY <1>3 DEF LoadContext, RecordAnswer, Kinds
  <2>2. UNCHANGED <<iteration, calls>> /\ place' \notin {"reasoning", "thinking"}
    BY <1>3 DEF LoadContext, RecordAnswer, graph
  <2>3. QED BY <2>1, <2>2, OtherEntry
<1>4. CASE AgentNode
  <2>1. CASE UNCHANGED <<calls, entries, iteration>> /\ place' = "answer"
    BY <1>2, <2>1
  <2>2. CASE iteration' = iteration + 1 /\ calls' = <<>> /\ UNCHANGED entries
    <3>1. ASSUME NEW n \in DOMAIN entries PROVE entries[n].call[1] < iteration + 1 /\ entries[n].call[1] <= iteration + 1
      <4>1. entries[n] \in Entry
        BY <1>1, LenProperties, ElementOfSeq
      <4>2. entries[n].call[1] \in Nat
        BY <4>1 DEF Entry, CallId
      <4>3. QED BY <1>1, <4>2 DEF Observed
    <3>2. DOMAIN calls' = {}
      BY <2>2
    <3>3. QED BY <2>2, <3>1, <3>2 DEF Observed
  <2>3. QED BY <1>4, <2>1, <2>2 DEF AgentNode
<1>5. CASE PrepareReasoning
  BY <1>5, SameEntries DEF PrepareReasoning
<1>6. CASE ModelResponds
  <2>1. PICK tools \in SeqOf(Callable, MaxCalls) : calls' = [k \in DOMAIN tools |-> NewCall(tools[k])]
    BY <1>6 DEF ModelResponds
  <2>2. UNCHANGED <<entries, iteration>> /\ place = "thinking" /\ place' \in {"action", "answer"}
    BY <1>6 DEF ModelResponds
  <2>3. \A k : Noted(k)' = {}
    <3>1. \A n \in DOMAIN entries : entries[n].call[1] # iteration
      <4>1. ASSUME NEW n \in DOMAIN entries PROVE entries[n].call[1] # iteration
        <5>1. entries[n] \in Entry
          BY <1>1, LenProperties, ElementOfSeq
        <5>2. entries[n].call[1] \in Nat
          BY <5>1 DEF Entry, CallId
        <5>3. QED BY <1>1, <2>2, <5>2 DEF Observed
      <4>2. QED BY <4>1
    <3>2. QED BY <2>2, <3>1 DEF Noted
  <2>4. ASSUME NEW k \in DOMAIN calls' PROVE Reported(calls'[k]) /\ Remembered(k)'
    <3>1. calls'[k].stage = "idle" /\ calls'[k].shown = {}
      BY <2>1 DEF NewCall
    <3>2. QED BY <2>3, <3>1 DEF Reported, Remembered
  <2>5. QED BY <2>2, <2>4 DEF Observed
<1>7. CASE RequestSkills
  <2>1. PICK outcome \in [CallsOf({SkillTool}) -> SkillOutcomes] :
        calls' = [k \in DOMAIN calls |->
                        CASE k \in DOMAIN outcome ->
                                [calls[k] EXCEPT !.stage = "done", !.told = outcome[k].told,
                                                 !.shown = outcome[k].shown]
                          [] calls[k].tool = SearchTool -> [calls[k] EXCEPT !.stage = "queued"]
                          [] OTHER -> calls[k]]
    BY <1>7 DEF RequestSkills
  <2>2. UNCHANGED <<entries, iteration>> /\ place = "action" /\ place' = "searching"
    BY <1>7 DEF RequestSkills
  <2>3. ASSUME NEW k \in DOMAIN calls
        PROVE  \/ calls'[k] = calls[k]
               \/ /\ Reported(calls'[k])
                  /\ calls[k].stage # "done"
                  /\ calls'[k].stage # "done" \/ calls'[k].tool \notin Tools
    <3>1. calls[k] \in Call /\ calls[k].stage = "idle" /\ Reported(calls[k])
      BY <1>1, <2>2 DEF TypeIInv, CallsInPlace, Observed
    <3>2. CASE k \in DOMAIN outcome
      <4>1. calls[k].tool = SkillTool /\ outcome[k] \in SkillOutcomes
        BY <3>2 DEF CallsOf
      <4>2. /\ calls'[k].stage = "done" /\ calls'[k].told = outcome[k].told
            /\ calls'[k].shown = outcome[k].shown /\ calls'[k].tool = SkillTool
        <5>1. calls'[k] = [calls[k] EXCEPT !.stage = "done", !.told = outcome[k].told,
                                           !.shown = outcome[k].shown]
          BY <2>1, <3>2, <4>1 DEF SkillTool, SearchTool
        <5>2. QED BY <3>1, <4>1, <5>1 DEF Call
      <4>3. Reported(calls'[k])
        BY <4>1, <4>2 DEF Reported, SkillOutcomes
      <4>4. QED BY <3>1, <4>2, <4>3, ConstantsAssumption
    <3>3. CASE k \notin DOMAIN outcome /\ calls[k].tool = SearchTool
      <4>1. calls'[k].stage = "queued" /\ calls'[k].shown = calls[k].shown
        BY <2>1, <3>1, <3>3 DEF Call
      <4>2. QED BY <3>1, <4>1 DEF Reported
    <3>4. QED BY <2>1, <3>2, <3>3
  <2>4. DOMAIN calls' = DOMAIN calls
    BY <2>1
  <2>5. QED BY <2>2, <2>3, <2>4, SameEntries
<1>8. CASE SearchesDone
  <2>1. calls' = Queued(Tools) /\ UNCHANGED <<entries, iteration>> /\ place = "searching" /\ place' = "calling"
    BY <1>8 DEF SearchesDone, graph
  <2>2. ASSUME NEW k \in DOMAIN calls
        PROVE  \/ calls'[k] = calls[k]
               \/ /\ Reported(calls'[k])
                  /\ calls[k].stage # "done"
                  /\ calls'[k].stage # "done" \/ calls'[k].tool \notin Tools
    <3>1. calls[k] \in Call /\ Reported(calls[k])
      BY <1>1 DEF Observed
    <3>2. CASE k \in CallsOf(Tools)
      <4>1. calls[k].stage = "idle"
        BY <2>1, <3>2 DEF TypeIInv, CallsInPlace, CallsOf
      <4>2. calls'[k].stage = "queued" /\ calls'[k].shown = calls[k].shown
        BY <2>1, <3>1, <3>2 DEF Call, Queued
      <4>3. QED BY <3>1, <4>1, <4>2 DEF Reported
    <3>3. CASE k \notin CallsOf(Tools)
      BY <2>1, <3>3 DEF Queued
    <3>4. QED BY <3>2, <3>3
  <2>3. DOMAIN calls' = DOMAIN calls
    BY <2>1 DEF Queued
  <2>4. QED BY <2>1, <2>2, <2>3, SameEntries
<1>9. CASE Cancel
  <2>1. calls' = CancelCalls /\ UNCHANGED <<entries, iteration>> /\ place' = "cancelled"
    BY <1>9 DEF Cancel, graph
  <2>2. ASSUME NEW k \in DOMAIN calls, calls'[k] # calls[k]
        PROVE  /\ Reported(calls'[k])
               /\ calls[k].stage # "done" /\ calls'[k].stage # "done"
    <3>1. calls[k] \in Call /\ calls[k].stage \in AtWork /\ calls'[k].stage = "cancelled"
      BY <1>1, <2>1, <2>2 DEF CancelCalls, Call
    <3>2. QED BY <3>1 DEF Reported, AtWork
  <2>3. DOMAIN calls' = DOMAIN calls
    BY <2>1 DEF CancelCalls
  <2>4. QED BY <2>1, <2>2, <2>3, SameEntries
<1>10. CASE \E k \in 1..MaxCalls : CallTask(k)
  BY <1>10, CallTaskObserved
<1>11. CASE CollectResults \/ AnswerNode \/ Chunk \/ StreamEnds \/ SaveSnapshot \/ NodeRaises \/ UNCHANGED vars
  BY <1>2, <1>11 DEF CollectResults, AnswerNode, Chunk, StreamEnds, SaveSnapshot, NodeRaises, vars, graph
<1>12. QED
  BY <1>3, <1>4, <1>5, <1>6, <1>7, <1>8, <1>9, <1>10, <1>11 DEF Next, Graph

(* Of every call model, observers and memory have the same account, for    *)
(* any number of calls that end, fail and are cancelled in any order.      *)
THEOREM AccountsAgree == Spec => []ObservationsAgree
<1>1. Init => Observed
  <2> SUFFICES ASSUME Init PROVE Observed
    OBVIOUS
  <2>1. DOMAIN calls = {} /\ DOMAIN entries = {}
    BY DEF Init
  <2>2. QED BY <2>1 DEF Observed
<1>2. Observed => ObservationsAgree
  BY DEF Observed, Reported, Remembered, ObservationsAgree
<1>3. QED BY <1>1, <1>2, InitTypeIInv, StepTypeIInv, StepObserved, PTL DEF Spec

-----------------------------------------------------------------------------
(* A text that neither begins nor ends with a blank. *)
Tight(t) == t \in Seq(Chunks) /\ t # <<>> /\ t[1] # Blank /\ t[Len(t)] # Blank

(* Where the smallest and the largest are known, Min and Max find them.    *)
LEMMA MinIs ==
  ASSUME NEW S, S \subseteq Int, NEW m \in S, \A x \in S : m <= x
  PROVE  Min(S) = m
<1>1. Min(S) \in S /\ \A y \in S : Min(S) <= y
  BY DEF Min
<1>2. Min(S) \in Int /\ m \in Int /\ Min(S) <= m /\ m <= Min(S)
  BY <1>1
<1>3. QED BY <1>2

(* A member no other exceeds is the largest. *)
LEMMA MaxIs ==
  ASSUME NEW S, S \subseteq Int, NEW m \in S, \A x \in S : m >= x
  PROVE  Max(S) = m
<1>1. Max(S) \in S /\ \A y \in S : Max(S) >= y
  BY DEF Max
<1>2. Max(S) \in Int /\ m \in Int /\ Max(S) >= m /\ m >= Max(S)
  BY <1>1
<1>3. QED BY <1>2

(* What is left of a text is tight, or the text was blank. *)
LEMMA StrippedIsTight ==
  ASSUME NEW s \in Seq(Chunks), {i \in DOMAIN s : s[i] # Blank} # {}
  PROVE  Tight(Stripped(s))
<1> DEFINE T == {i \in DOMAIN s : s[i] # Blank}
           m == Min(T)
           n == Max(T)
<1>1. T # {} /\ Stripped(s) = SubSeq(s, m, n)
  BY DEF Stripped
<1>2. /\ T \subseteq Nat /\ Len(s) \in Nat /\ DOMAIN s = 1..Len(s)
      /\ \A x \in T : x \in 1..Len(s) /\ s[x] # Blank
  BY LenProperties
<1> HIDE DEF T
<1>3. m \in T /\ n \in T
  <2>1. \A x \in T : x <= Len(s)
    BY <1>2
  <2>2. QED BY <1>1, <1>2, <2>1, MinIsMember, MaxIsMember
<1>4. m <= n
  <2>1. \E y \in T : \A x \in T : y <= x
    BY <1>1, <1>2, SmallestExists
  <2>2. PICK y \in T : \A x \in T : y <= x
    BY <2>1
  <2>3. m = y
    <3>1. T \subseteq Int
      BY <1>2
    <3>2. QED BY <2>2, <3>1, MinIs DEF m
  <2>4. QED BY <1>3, <2>2, <2>3
<1>5. m \in 1..Len(s) /\ n \in 1..Len(s) /\ s[m] # Blank /\ s[n] # Blank
  BY <1>2, <1>3
<1>6. /\ Len(Stripped(s)) = n - m + 1
      /\ \A i \in 1..(n - m + 1) : Stripped(s)[i] = s[m + i - 1]
  <2>1. m \in Int /\ n \in Int /\ \A i \in m..n : s[i] \in Chunks
    <3>1. ASSUME NEW i \in m..n PROVE s[i] \in Chunks
      <4>1. i \in 1..Len(s)
        BY <1>2, <1>5
      <4>2. QED BY <4>1, ElementOfSeq
    <3>2. QED BY <1>2, <1>5, <3>1
  <2>2. QED BY <1>1, <1>4, <1>5, <2>1, SubSeqProperties
<1>7. Stripped(s)[1] = s[m] /\ Stripped(s)[n - m + 1] = s[n]
  <2>1. 1 \in 1..(n - m + 1) /\ n - m + 1 \in 1..(n - m + 1)
    BY <1>2, <1>4, <1>5
  <2>2. m + 1 - 1 = m /\ m + (n - m + 1) - 1 = n
    BY <1>2, <1>5
  <2>3. QED BY <1>6, <2>1, <2>2
<1>8. Stripped(s) \in Seq(Chunks)
  BY StrippedType
<1>9. Len(Stripped(s)) >= 1
  BY <1>2, <1>4, <1>5, <1>6
<1>10. Stripped(s) # <<>>
  BY <1>9, EmptySeq
<1>11. Stripped(s)[1] # Blank /\ Stripped(s)[Len(Stripped(s))] # Blank
  BY <1>5, <1>6, <1>7
<1>12. QED BY <1>8, <1>10, <1>11 DEF Tight

(* Blanks before a tight text are all that is stripped. *)
LEMMA BlanksGo ==
  ASSUME NEW s \in Seq(Chunks), Stripped(s) = <<>>, NEW t, Tight(t)
  PROVE  Stripped(s \o t) = t
<1> DEFINE w == s \o t
           T == {i \in DOMAIN w : w[i] # Blank}
           a == Len(s)
           b == Len(t)
<1>1. /\ t \in Seq(Chunks) /\ a \in Nat /\ b \in Nat /\ b >= 1
      /\ t[1] # Blank /\ t[b] # Blank
  BY LenProperties, EmptySeq DEF Tight
<1>2. \A i \in 1..a : s[i] = Blank
  <2>1. {i \in DOMAIN s : s[i] # Blank} = {}
    BY StrippedIsTight DEF Tight
  <2>2. QED BY <2>1, LenProperties
<1>3. /\ w \in Seq(Chunks) /\ Len(w) = a + b
      /\ \A i \in 1..a + b : w[i] = IF i <= a THEN s[i] ELSE t[i - a]
  BY <1>1, ConcatProperties
<1> HIDE DEF w
<1>4. DOMAIN w = 1..a + b
  BY <1>3, LenProperties
<1>5. a + 1 \in T /\ a + b \in T
  <2>1. a + 1 \in 1..a + b /\ a + b \in 1..a + b /\ ~(a + 1 <= a) /\ ~(a + b <= a)
        /\ a + 1 - a = 1 /\ a + b - a = b
    BY <1>1
  <2>2. QED BY <1>1, <1>3, <1>4, <2>1
<1>6. \A i \in T : a + 1 <= i /\ i <= a + b /\ i \in Nat
  BY <1>1, <1>2, <1>3, <1>4
<1>7. Min(T) = a + 1 /\ Max(T) = a + b
  <2> HIDE DEF T
  <2>1. T \subseteq Int /\ \A i \in T : a + b >= i
    BY <1>1, <1>6
  <2>2. QED BY <1>5, <1>6, <2>1, MinIs, MaxIs
<1>8. Stripped(w) = SubSeq(w, a + 1, a + b)
  BY <1>5, <1>7 DEF Stripped
<1>9. /\ SubSeq(w, a + 1, a + b) \in Seq(Chunks)
      /\ Len(SubSeq(w, a + 1, a + b)) = b
      /\ \A i \in 1..b : SubSeq(w, a + 1, a + b)[i] = w[a + i]
  <2>1. a + 1 \in Int /\ a + b \in Int /\ \A i \in a + 1..a + b : w[i] \in Chunks
    <3>1. ASSUME NEW i \in a + 1..a + b PROVE w[i] \in Chunks
      <4>1. i \in 1..Len(w)
        BY <1>1, <1>3
      <4>2. QED BY <1>3, <4>1, ElementOfSeq
    <3>2. QED BY <1>1, <3>1
  <2>2. a + 1 <= a + b + 1 /\ (a + b) - (a + 1) + 1 = b /\ \A i \in 1..b : (a + 1) + i - 1 = a + i
    BY <1>1
  <2>3. QED BY <2>1, <2>2, <1>1, SubSeqProperties
<1>10. ASSUME NEW i \in 1..b PROVE SubSeq(w, a + 1, a + b)[i] = t[i]
  <2>1. a + i \in 1..a + b /\ ~(a + i <= a) /\ a + i - a = i
    BY <1>1
  <2>2. w[a + i] = t[i]
    BY <1>3, <2>1
  <2>3. QED BY <1>9, <2>2
<1>11. SubSeq(w, a + 1, a + b) = t
  BY <1>1, <1>9, <1>10, SeqEqual
<1>12. QED BY <1>8, <1>11 DEF w

(* What stands in for an empty stream, or is left of one, is tight. *)
LEMMA AnswersAreTight ==
  ASSUME TypeOK
  PROVE  /\ Tight(Substitute)
         /\ Stripped(shown) # <<>> => Tight(Stripped(shown))
<1>1. \A s \in Seq(Chunks) : Stripped(s) # <<>> => Tight(Stripped(s))
  BY StrippedIsTight DEF Stripped
<1>2. Tight(<<"no answer">>)
  BY DEF Tight, Chunks, Blank
<1>3. QED BY <1>1, <1>2 DEF TypeOK, Substitute

(* The answer comes last. *)
LEMMA AnswerIsLast ==
  ASSUME TypeOK, messages # <<>>, NEW text \in Seq(Chunks)
  PROVE  Last(WithAnswer(text)) = Assistant(text)
<1>1. Assistant(text) \in Message /\ messages \in Seq(Message) /\ Len(messages) \in 1..Len(messages)
  BY MessagesAreTyped, EmptySeq, LenProperties DEF TypeOK
<1>2. CASE WithAnswer(text) = [messages EXCEPT ![Len(messages)] = Assistant(text)]
  BY <1>1, <1>2, ExceptSeq DEF Last
<1>3. CASE WithAnswer(text) = Append(messages, Assistant(text))
  BY <1>1, <1>3, AppendProperties DEF Last
<1>4. QED BY <1>2, <1>3 DEF WithAnswer

(* The entries that are answers: none until the answer is recorded. *)
AnswerEntries == {n \in DOMAIN entries : entries[n].kind = "assistant_message"}

Told ==
    /\ place \notin {"streaming", "finalizing", "summarizing"} \cup Ended => shown = <<>>
    /\ place \in {"finalizing", "summarizing", "returned"} =>
          /\ answer # <<>> /\ answer = Stripped(shown)
          /\ Last(messages) = Assistant(answer)
    /\ place \notin {"summarizing"} \cup Ended => AnswerEntries = {}
    /\ place \in {"summarizing", "returned"} => \E n \in DOMAIN entries : AnswerEntries = {n}

(* One entry more. *)
LEMMA EntryAdds ==
  ASSUME entries \in Seq(Entry), NEW e \in Entry, entries' = Append(entries, e)
  PROVE  /\ DOMAIN entries' = DOMAIN entries \cup {Len(entries) + 1}
         /\ AnswerEntries' = AnswerEntries \cup (IF e.kind = "assistant_message"
                                                    THEN {Len(entries) + 1} ELSE {})
<1>1. /\ Len(entries) \in Nat /\ DOMAIN entries = 1..Len(entries)
      /\ entries' \in Seq(Entry) /\ Len(entries') = Len(entries) + 1
      /\ \A n \in 1..Len(entries) : entries'[n] = entries[n]
      /\ entries'[Len(entries) + 1] = e
  BY AppendProperties, LenProperties
<1>2. DOMAIN entries' = DOMAIN entries \cup {Len(entries) + 1}
  <2>1. DOMAIN entries' = 1..Len(entries) + 1
    BY <1>1, LenProperties
  <2>2. QED BY <1>1, <2>1
<1>3. QED BY <1>1, <1>2 DEF AnswerEntries

(* A step that shows and answers nothing. *)
LEMMA SameAnswer ==
  ASSUME Told, UNCHANGED <<shown, entries>>,
         \/ place' \in {"raised", "cancelled"}
         \/ /\ place' = place /\ UNCHANGED <<answer, messages>>
         \/ /\ {place, place'} \cap ({"finalizing", "summarizing"} \cup Ended) = {}
            /\ place = "streaming" => place' = "streaming"
  PROVE  Told'
BY DEF Told, AnswerEntries, Ended

(* The steps of a call leave what is told and stored alone. *)
LEMMA CallTaskTold ==
  ASSUME TypeIInv, Told, NEW k, CallTask(k)
  PROVE  Told'
<1>1. /\ place \in {"searching", "calling", "raised"} /\ place' \in {place, "raised"}
      /\ UNCHANGED <<shown, answer, messages>>
  <2>1. k \in DOMAIN calls /\ calls[k].stage \in AtWork /\ UNCHANGED <<graph, shown>>
        /\ place' \in {place, "raised"}
    BY CallTaskEffect
  <2>2. QED BY <2>1 DEF graph, TypeIInv, CallsInPlace
<1>2. CASE UNCHANGED entries
  BY <1>1, <1>2, SameAnswer
<1>3. CASE entries' = Append(entries, Observation(k)) /\ Record(k)
  <2>1. Observation(k) \in Entry /\ Observation(k).kind # "assistant_message" /\ entries \in Seq(Entry)
    <3>1. k \in Nat /\ iteration \in Nat
      BY LenProperties DEF CallTask, TypeIInv, TypeOK
    <3>2. QED BY <3>1 DEF TypeIInv, TypeOK, Observation, Entry, Kinds, CallId
  <2>2. AnswerEntries' = AnswerEntries
    BY <1>3, <2>1, EntryAdds
  <2>3. QED BY <1>1, <2>2 DEF Told, Ended
<1>4. QED
  BY <1>2, <1>3 DEF CallTask, Start, Return, PublishCompleted, PublishFailed, Record, CallRaises

(* Every step keeps what is shown and what is stored in agreement. *)
LEMMA StepTold ==
  ASSUME TypeIInv, Told, [Next]_vars
  PROVE  Told'
<1>1. TypeOK /\ entries \in Seq(Entry) /\ (place \notin Ended \cup {"load"} => messages # <<>>)
  BY DEF TypeIInv, TypeOK
<1>2. CASE LoadContext
  <2>1. /\ entries' = Append(entries, [kind |-> "user_message", call |-> NoCall])
        /\ place = "load" /\ place' = "agent" /\ UNCHANGED shown
    BY <1>2 DEF LoadContext
  <2>2. [kind |-> "user_message", call |-> NoCall] \in Entry
    BY DEF Entry, Kinds, NoCall, CallId
  <2>3. AnswerEntries' = AnswerEntries
    BY <1>1, <2>1, <2>2, EntryAdds
  <2>4. QED BY <2>1, <2>3 DEF Told, Ended
<1>3. CASE AnswerNode
  <2>1. CASE /\ answer' = Substitute /\ shown' = shown \o Substitute
             /\ messages' = WithAnswer(Substitute) /\ place' = "finalizing"
    <3>1. place = "answer" /\ shown = <<>> /\ AnswerEntries = {} /\ UNCHANGED entries
      BY <1>3 DEF AnswerNode, Told, Ended
    <3>2. Tight(Substitute) /\ Substitute \in Seq(Chunks)
      BY <1>1, AnswersAreTight, SubstituteType
    <3>3. Stripped(<<>> \o Substitute) = Substitute
      <4>1. <<>> \in Seq(Chunks) /\ Stripped(<<>>) = <<>>
        BY DEF Stripped
      <4>2. QED BY <3>2, <4>1, BlanksGo
    <3>4. Last(messages') = Assistant(answer')
      BY <1>1, <2>1, <3>1, <3>2, AnswerIsLast DEF Ended
    <3>5. answer' # <<>> /\ answer' = Stripped(shown')
      BY <2>1, <3>1, <3>2, <3>3 DEF Tight
    <3>6. AnswerEntries' = {}
      BY <3>1 DEF AnswerEntries
    <3>7. QED BY <2>1, <3>4, <3>5, <3>6 DEF Told, Ended
  <2>2. CASE place' = "streaming" /\ UNCHANGED <<answer, shown, messages>>
    BY <1>3, <2>2, SameAnswer DEF AnswerNode, Ended
  <2>3. QED BY <1>3, <2>1, <2>2 DEF AnswerNode
<1>4. CASE Chunk
  BY <1>4 DEF Chunk, Told, AnswerEntries, Ended
<1>5. CASE StreamEnds
  <2>1. /\ place = "streaming" /\ place' = "finalizing" /\ UNCHANGED entries
        /\ messages' = WithAnswer(answer') /\ AnswerEntries' = {}
    BY <1>5 DEF StreamEnds, Told, AnswerEntries, Ended
  <2>2. Tight(Substitute) /\ shown \in Seq(Chunks)
    BY <1>1, AnswersAreTight DEF TypeOK
  <2>3. Tight(answer') /\ answer' = Stripped(shown')
    <3>1. CASE Stripped(shown) # <<>>
      <4>1. answer' = Stripped(shown) /\ shown' = shown
        BY <1>5, <3>1 DEF StreamEnds
      <4>2. QED BY <1>1, <3>1, <4>1, AnswersAreTight
    <3>2. CASE Stripped(shown) = <<>>
      <4>1. answer' = Substitute /\ shown' = shown \o Substitute
        BY <1>5, <3>2 DEF StreamEnds
      <4>2. QED BY <2>2, <3>2, <4>1, BlanksGo
    <3>3. QED BY <3>1, <3>2
  <2>4. Last(messages') = Assistant(answer')
    <3>1. answer' \in Seq(Chunks) /\ messages # <<>>
      BY <1>1, <2>1, <2>3 DEF Tight, Ended
    <3>2. \A text \in Seq(Chunks) : Last(WithAnswer(text)) = Assistant(text)
      BY <1>1, <3>1, AnswerIsLast
    <3>3. QED BY <2>1, <3>1, <3>2
  <2>5. QED BY <2>1, <2>3, <2>4 DEF Told, Tight, Ended
<1>6. CASE RecordAnswer
  <2>1. /\ entries' = Append(entries, [kind |-> "assistant_message", call |-> NoCall])
        /\ place = "finalizing" /\ place' = "summarizing" /\ UNCHANGED <<shown, answer, messages>>
    BY <1>6 DEF RecordAnswer, graph
  <2>2. [kind |-> "assistant_message", call |-> NoCall] \in Entry
    BY DEF Entry, Kinds, NoCall, CallId
  <2>3. /\ Len(entries) + 1 \in DOMAIN entries'
        /\ AnswerEntries' = AnswerEntries \cup {Len(entries) + 1}
    BY <1>1, <2>1, <2>2, EntryAdds
  <2>4. QED BY <2>1, <2>3 DEF Told, Ended
<1>7. CASE SaveSnapshot
  BY <1>7 DEF SaveSnapshot, graph, Told, AnswerEntries, Ended
<1>8. CASE NodeRaises \/ Cancel
  BY <1>8, SameAnswer DEF NodeRaises, Cancel
<1>9. CASE \/ AgentNode \/ PrepareReasoning \/ ModelResponds \/ RequestSkills \/ SearchesDone
           \/ CollectResults
  <2>1. UNCHANGED <<shown, entries>>
    BY <1>9 DEF AgentNode, PrepareReasoning, ModelResponds, RequestSkills, SearchesDone, CollectResults
  <2>2. /\ place \in {"agent", "reasoning", "thinking", "action", "searching", "calling"}
        /\ place' \in {"agent", "reasoning", "thinking", "action", "searching", "calling",
                       "answer", "raised"}
    BY <1>9 DEF AgentNode, PrepareReasoning, ModelResponds, RequestSkills, SearchesDone, CollectResults
  <2>3. QED BY <2>1, <2>2, SameAnswer DEF Ended
<1>10. CASE \E k \in 1..MaxCalls : CallTask(k)
  BY <1>10, CallTaskTold
<1>11. CASE UNCHANGED vars
  BY <1>11, SameAnswer DEF vars, graph
<1>12. QED
  BY <1>2, <1>3, <1>4, <1>5, <1>6, <1>7, <1>8, <1>9, <1>10, <1>11 DEF Next, Graph

(* What an execution stores as its answer is what was streamed, stripped,  *)
(* for texts of any length and blanks anywhere in them.                    *)
THEOREM StoredIsShown == Spec => []AnswerIsShown
<1>1. Init => Told
  BY DEF Init, Told, AnswerEntries, Ended
<1>2. Told => AnswerIsShown
  <2> SUFFICES ASSUME Told, place \in {"finalizing", "summarizing", "returned"} PROVE AnswerIsShown
    BY DEF AnswerIsShown
  <2>1. Cardinality(AnswerEntries) = IF place = "finalizing" THEN 0 ELSE 1
    BY FS_EmptySet, FS_Singleton DEF Told, Ended
  <2>2. QED BY <2>1 DEF Told, AnswerIsShown, AnswerEntries
<1>3. QED BY <1>1, <1>2, InitTypeIInv, StepTypeIInv, StepTold, PTL DEF Spec

-----------------------------------------------------------------------------
(* A conversation but for its last message: one system message, the first; *)
(* tool messages answer.                                                   *)
Composed(m) ==
    /\ m \in Seq(Message) /\ m # <<>> /\ m[1].calls = <<>>
    /\ \A j \in DOMAIN m : /\ m[j].role = "system" <=> j = 1
                           /\ m[j].role = "tool" => Answers(m, j)

Asking  == {"agent", "reasoning", "thinking"}
Calling == {"action", "searching", "calling"}

(* While calls are under way the last message has them and is the only one *)
(* that is not answered.                                                   *)
Conversing ==
    /\ place \in Asking \cup Calling \cup {"answer", "streaming"} =>
          /\ Composed(messages)
          /\ \A j \in DOMAIN messages :
                \/ place \in Calling /\ j = Len(messages)
                \/ Answered(messages, j)
    /\ place \in Asking => Last(messages).role # "assistant"
    /\ place \in Calling =>
          /\ calls # <<>>
          /\ messages[Len(messages)].calls = [k \in DOMAIN calls |-> <<iteration, k>>]

(* Messages that follow take nothing away. *)
LEMMA MoreMessages ==
  ASSUME NEW m \in Seq(Message), NEW w \in Seq(Message), Len(m) <= Len(w),
         \A i \in 1..Len(m) : w[i] = m[i], NEW j \in 1..Len(m)
  PROVE  /\ Answered(m, j) => Answered(w, j)
         /\ Answers(m, j) => Answers(w, j)
<1>1. /\ Len(m) \in Nat /\ Len(w) \in Nat /\ DOMAIN m = 1..Len(m) /\ DOMAIN w = 1..Len(w)
      /\ j \in Nat
  BY LenProperties
<1>2. w[j] = m[j] /\ \A i \in DOMAIN m : i \in DOMAIN w /\ w[i] = m[i]
  BY <1>1
<1>3. Answered(m, j) => Answered(w, j)
  BY <1>2 DEF Answered
<1>4. Answers(m, j) => Answers(w, j)
  <2> SUFFICES ASSUME NEW k \in 1..j - 1, k \in DOMAIN m[j - k].calls, m[j - k].calls[k] = m[j].call
               PROVE  Answers(w, j)
    BY DEF Answers
  <2>1. j - k \in 1..Len(m)
    BY <1>1
  <2>2. w[j - k] = m[j - k]
    BY <2>1
  <2>3. QED BY <1>2, <2>2 DEF Answers
<1>5. QED BY <1>3, <1>4

(* Neither does the skill message behind the first. *)
LEMMA SkillMessage ==
  ASSUME NEW m, Composed(m), \A j \in DOMAIN m : Answered(m, j), NEW w, w = InsertAt(m, 2, Skill)
  PROVE  /\ Last(m).role # "assistant" => Last(w).role # "assistant"
         /\ \A j \in DOMAIN w : /\ w[j].role = "system" <=> j = 1
                                /\ Answered(w, j)
                                /\ w[j].role = "tool" => Answers(w, j)
<1> DEFINE n == Len(m)
<1>1. m \in Seq(Message) /\ n \in Nat /\ n >= 1 /\ DOMAIN m = 1..n /\ \A j \in 1..n : m[j] \in Message
  BY LenProperties, EmptySeq, ElementOfSeq DEF Composed
<1>2. /\ Skill \in Message /\ Skill.role = "developer" /\ Skill.calls = <<>>
  <2>1. <<>> \in Seq(CallId) /\ NoCall \in CallId /\ <<"skill">> \in Seq(Chunks)
    BY EmptySeq DEF NoCall, CallId, Chunks
  <2>2. QED BY <2>1 DEF Skill, Text, Message, Roles
<1>3. /\ w \in Seq(Message) /\ Len(w) = n + 1
      /\ w[1] = m[1] /\ w[2] = Skill
      /\ \A j \in 2..n : w[j + 1] = m[j]
  <2> DEFINE a == SubSeq(m, 1, 2 - 1)
             c == SubSeq(m, 2, Len(m))
  <2>1. a \in Seq(Message) /\ Len(a) = 1 /\ a[1] = m[1]
    <3>1. \A i \in 1..1 : m[i] \in Message
      BY <1>1
    <3>2. 2 - 1 = 1 /\ 1 <= 1 /\ 1 - 1 + 1 = 1
      OBVIOUS
    <3>3. SubSeq(m, 1, 1) \in Seq(Message) /\ Len(SubSeq(m, 1, 1)) = 1 /\ SubSeq(m, 1, 1)[1] = m[1]
      BY <3>1, <3>2, SubSeqProperties
    <3>4. QED BY <3>2, <3>3
  <2>2. c \in Seq(Message) /\ Len(c) = n - 1 /\ \A i \in 1..n - 1 : c[i] = m[i + 1]
    <3>1. \A i \in 2..n : m[i] \in Message
      BY <1>1
    <3>2. /\ SubSeq(m, 2, n) \in Seq(Message)
          /\ Len(SubSeq(m, 2, n)) = IF 2 <= n THEN n - 2 + 1 ELSE 0
          /\ \A i \in 1 .. n - 2 + 1 : SubSeq(m, 2, n)[i] = m[2 + i - 1]
      BY <1>1, <3>1, SubSeqProperties
    <3>3. n - 2 + 1 = n - 1 /\ (IF 2 <= n THEN n - 2 + 1 ELSE 0) = n - 1
      BY <1>1
    <3>4. \A i \in 1..n - 1 : 2 + i - 1 = i + 1
      BY <1>1
    <3>5. QED BY <3>2, <3>3, <3>4
  <2>3. w = a \o <<Skill>> \o c
    BY DEF InsertAt
  <2> HIDE DEF a, c
  <2>4. /\ a \o <<Skill>> \in Seq(Message) /\ Len(a \o <<Skill>>) = 2
        /\ (a \o <<Skill>>)[1] = m[1] /\ (a \o <<Skill>>)[2] = Skill
    <3>1. <<Skill>> \in Seq(Message) /\ Len(<<Skill>>) = 1 /\ <<Skill>>[1] = Skill
      BY <1>2
    <3>2. QED BY <2>1, <3>1, ConcatProperties
  <2>5. /\ w \in Seq(Message) /\ Len(w) = 2 + (n - 1)
        /\ \A i \in 1..2 + (n - 1) : w[i] = IF i <= 2 THEN (a \o <<Skill>>)[i] ELSE c[i - 2]
    <3> DEFINE b == a \o <<Skill>>
    <3>1. b \in Seq(Message) /\ Len(b) = 2 /\ w = b \o c
      BY <2>3, <2>4
    <3> HIDE DEF b
    <3>2. /\ b \o c \in Seq(Message) /\ Len(b \o c) = Len(b) + Len(c)
          /\ \A i \in 1..Len(b) + Len(c) : (b \o c)[i] = IF i <= Len(b) THEN b[i] ELSE c[i - Len(b)]
      BY <2>2, <3>1, ConcatProperties
    <3>3. /\ w \in Seq(Message) /\ Len(w) = 2 + (n - 1)
          /\ \A i \in 1..2 + (n - 1) : w[i] = IF i <= 2 THEN b[i] ELSE c[i - 2]
      BY <2>2, <3>1, <3>2
    <3>4. QED BY <3>3 DEF b
  <2>6. ASSUME NEW j \in 2..n PROVE w[j + 1] = m[j]
    <3>1. j + 1 \in 1..2 + (n - 1) /\ ~(j + 1 <= 2) /\ j + 1 - 2 = j - 1 /\ j - 1 \in 1..n - 1 /\ j - 1 + 1 = j
      BY <1>1
    <3>2. QED BY <2>2, <2>5, <3>1
  <2>7. 1 \in 1..2 + (n - 1) /\ 2 \in 1..2 + (n - 1)
    BY <1>1
  <2>8. 2 + (n - 1) = n + 1
    BY <1>1
  <2>9. QED BY <2>4, <2>5, <2>6, <2>7, <2>8
<1>4. DOMAIN w = 1..n + 1
  BY <1>3, LenProperties
<1>5. Last(m).role # "assistant" => Last(w).role # "assistant"
  <2>1. CASE n = 1
    BY <1>2, <1>3, <2>1 DEF Last
  <2>2. CASE n >= 2
    BY <1>1, <1>3, <2>2 DEF Last
  <2>3. QED BY <1>1, <2>1, <2>2
<1>6. ASSUME NEW j \in DOMAIN w
      PROVE  /\ w[j].role = "system" <=> j = 1
             /\ Answered(w, j)
             /\ w[j].role = "tool" => Answers(w, j)
  <2>1. CASE j = 1
    <3>1. w[1].role = "system" /\ w[1].calls = <<>>
      BY <1>1, <1>3 DEF Composed
    <3>2. QED BY <2>1, <3>1 DEF Answered
  <2>2. CASE j = 2
    BY <1>2, <1>3, <2>2 DEF Answered
  <2>3. CASE j \in 3..n + 1
    <3> DEFINE i == j - 1
    <3>1. i \in 2..n /\ j = i + 1 /\ i # 1 /\ j # 1
      BY <1>1, <2>3
    <3> HIDE DEF i
    <3>2. w[j] = m[i] /\ i \in DOMAIN m
      BY <1>1, <1>3, <3>1
    <3>3. Answered(w, j)
      <4> SUFFICES ASSUME NEW k \in DOMAIN m[i].calls
                   PROVE  j + k \in DOMAIN w /\ w[j + k].role = "tool" /\ w[j + k].call = m[i].calls[k]
        BY <3>2 DEF Answered
      <4>1. i + k \in DOMAIN m /\ m[i + k].role = "tool" /\ m[i + k].call = m[i].calls[k]
        BY <3>2 DEF Answered
      <4>2. k \in Nat /\ k >= 1
        <5>1. m[i].calls \in Seq(CallId)
          BY <1>1, <3>2 DEF Message
        <5>2. QED BY <5>1, LenProperties
      <4>3. i + k \in 2..n /\ j + k = (i + k) + 1
        BY <1>1, <3>1, <4>1, <4>2
      <4>4. QED BY <1>3, <1>4, <4>1, <4>3, <1>1
    <3>4. ASSUME w[j].role = "tool" PROVE Answers(w, j)
      <4>1. Answers(m, i)
        BY <3>2, <3>4 DEF Composed
      <4>2. PICK k \in 1..i - 1 : k \in DOMAIN m[i - k].calls /\ m[i - k].calls[k] = m[i].call
        BY <4>1 DEF Answers
      <4>3. i - k # 1
        <5>1. m[1].calls = <<>>
          BY DEF Composed
        <5>2. ASSUME i - k = 1 PROVE FALSE
          BY <4>2, <5>1, <5>2
        <5>3. QED BY <5>2
      <4>4. i - k \in 2..n /\ j - k = (i - k) + 1 /\ k \in 1..j - 1
        BY <1>1, <3>1, <4>3
      <4>5. w[j - k] = m[i - k]
        BY <1>3, <4>4
      <4>6. QED BY <3>2, <4>2, <4>4, <4>5 DEF Answers
    <3>5. w[j].role # "system"
      BY <3>1, <3>2 DEF Composed
    <3>6. QED BY <3>1, <3>3, <3>4, <3>5
  <2>4. QED BY <1>1, <1>4, <2>1, <2>2, <2>3
<1>7. QED BY <1>5, <1>6

(* A message at the end that is neither the system's nor a tool's and has  *)
(* no calls, or calls of its own still to be answered.                     *)
LEMMA OneMessage ==
  ASSUME NEW m, Composed(m), \A j \in DOMAIN m : Answered(m, j),
         NEW e \in Message, e.role \notin {"system", "tool"}
  PROVE  LET w == Append(m, e) IN
         /\ Composed(w) /\ Len(w) = Len(m) + 1 /\ w[Len(w)] = e
         /\ \A j \in DOMAIN w : j # Len(w) \/ e.calls = <<>> => Answered(w, j)
<1> DEFINE w == Append(m, e)
<1>1. /\ m \in Seq(Message) /\ Len(m) \in Nat /\ Len(m) >= 1 /\ DOMAIN m = 1..Len(m)
  BY LenProperties, EmptySeq DEF Composed
<1>2. /\ w \in Seq(Message) /\ Len(w) = Len(m) + 1 /\ w[Len(m) + 1] = e
      /\ \A j \in 1..Len(m) : w[j] = m[j]
  BY <1>1, AppendProperties
<1> HIDE DEF w
<1>3. DOMAIN w = 1..Len(m) + 1 /\ w # <<>> /\ w[1].calls = <<>>
  BY <1>1, <1>2, LenProperties, EmptySeq DEF Composed
<1>4. ASSUME NEW j \in 1..Len(m)
      PROVE  /\ w[j].role = "system" <=> j = 1
             /\ w[j].role = "tool" => Answers(w, j)
             /\ Answered(w, j)
  <2>1. (Answered(m, j) => Answered(w, j)) /\ (Answers(m, j) => Answers(w, j))
    BY <1>1, <1>2, MoreMessages
  <2>2. QED BY <1>1, <1>2, <2>1 DEF Composed
<1>5. Composed(w)
  <2>1. ASSUME NEW j \in DOMAIN w PROVE (w[j].role = "system" <=> j = 1) /\ (w[j].role = "tool" => Answers(w, j))
    <3>1. CASE j \in 1..Len(m)
      BY <1>4, <3>1
    <3>2. CASE j = Len(m) + 1
      BY <1>1, <1>2, <3>2
    <3>3. QED BY <1>1, <1>3, <3>1, <3>2
  <2>2. QED BY <1>2, <1>3, <2>1 DEF Composed
<1>6. ASSUME NEW j \in DOMAIN w, j # Len(w) \/ e.calls = <<>> PROVE Answered(w, j)
  <2>1. CASE j \in 1..Len(m)
    BY <1>4, <2>1
  <2>2. CASE j = Len(m) + 1
    <3>1. w[j].calls = <<>>
      BY <1>2, <1>6, <2>2
    <3>2. QED BY <3>1 DEF Answered
  <2>3. QED BY <1>1, <1>3, <2>1, <2>2
<1>7. QED BY <1>2, <1>5, <1>6 DEF w

(* One answer for each call of the last message, in their order.           *)
LEMMA AllAnswers ==
  ASSUME TypeOK, Composed(messages), calls # <<>>,
         \A j \in DOMAIN messages : j = Len(messages) \/ Answered(messages, j),
         messages[Len(messages)].calls = [k \in DOMAIN calls |-> <<iteration, k>>],
         \A k \in DOMAIN calls : calls[k].told \in {"ok", "error"}
  PROVE  LET w == messages \o ToolMessages IN
         /\ Composed(w) /\ Last(w).role = "tool"
         /\ \A j \in DOMAIN w : Answered(w, j)
<1> DEFINE w == messages \o ToolMessages
           m == messages
           n == Len(messages)
           c == Len(calls)
<1>1. /\ m \in Seq(Message) /\ n \in Nat /\ n >= 1 /\ DOMAIN m = 1..n
      /\ c \in Nat /\ c >= 1 /\ DOMAIN calls = 1..c /\ m[1].calls = <<>>
  BY LenProperties, EmptySeq DEF Composed, TypeOK
<1>2. /\ ToolMessages \in Seq(Message) /\ Len(ToolMessages) = c
      /\ \A k \in 1..c : /\ ToolMessages[k].role = "tool" /\ ToolMessages[k].calls = <<>>
                         /\ ToolMessages[k].call = <<iteration, k>>
  BY <1>1, ToolMessagesType
<1>3. /\ w \in Seq(Message) /\ Len(w) = n + c
      /\ \A j \in 1..n + c : w[j] = IF j <= n THEN m[j] ELSE ToolMessages[j - n]
  <2>1. /\ w \in Seq(Message) /\ Len(w) = Len(m) + Len(ToolMessages)
        /\ \A j \in 1..Len(m) + Len(ToolMessages) :
              w[j] = IF j <= Len(m) THEN m[j] ELSE ToolMessages[j - Len(m)]
    BY <1>1, <1>2, ConcatProperties
  <2>2. Len(ToolMessages) = c /\ Len(m) = n
    BY <1>2
  <2> HIDE DEF w, m, n, c
  <2>3. QED BY <2>1, <2>2
<1> HIDE DEF w
<1>4. /\ DOMAIN w = 1..n + c
      /\ \A j \in 1..n : w[j] = m[j]
      /\ \A k \in 1..c : /\ n + k \in 1..n + c /\ w[n + k].role = "tool" /\ w[n + k].calls = <<>>
                         /\ w[n + k].call = <<iteration, k>>
  <2>1. DOMAIN w = 1..n + c /\ \A j \in 1..n : w[j] = m[j]
    BY <1>1, <1>3, LenProperties
  <2>2. ASSUME NEW k \in 1..c PROVE n + k \in 1..n + c /\ w[n + k] = ToolMessages[k]
    <3>1. n + k \in 1..n + c /\ ~(n + k <= n) /\ n + k - n = k
      BY <1>1
    <3>2. QED BY <1>3, <3>1
  <2>3. QED BY <1>2, <2>1, <2>2
<1>5. w[n].calls = [k \in DOMAIN calls |-> <<iteration, k>>]
  BY <1>1, <1>4
<1>6. ASSUME NEW j \in DOMAIN w
      PROVE  /\ w[j].role = "system" <=> j = 1
             /\ w[j].role = "tool" => Answers(w, j)
             /\ Answered(w, j)
  <2>1. CASE j \in 1..n
    <3>1. (Answered(m, j) => Answered(w, j)) /\ (Answers(m, j) => Answers(w, j))
      <4>1. Len(m) <= Len(w) /\ \A i \in 1..Len(m) : w[i] = m[i]
        BY <1>1, <1>3, <1>4
      <4>2. m \in Seq(Message) /\ w \in Seq(Message) /\ j \in 1..Len(m)
        BY <1>1, <1>3, <2>1
      <4> HIDE DEF m, n, c
      <4>3. QED BY <4>1, <4>2, MoreMessages
    <3>2. (w[j].role = "system" <=> j = 1) /\ (w[j].role = "tool" => Answers(w, j))
      BY <1>1, <1>4, <2>1, <3>1 DEF Composed
    <3>3. CASE j = n
      <4>1. DOMAIN w[j].calls = 1..c /\ \A k \in 1..c : w[j].calls[k] = <<iteration, k>>
        BY <1>1, <1>5, <3>3
      <4>2. \A k \in 1..c : j + k \in DOMAIN w /\ w[j + k].role = "tool" /\ w[j + k].call = <<iteration, k>>
        BY <1>4, <3>3
      <4>3. Answered(w, j)
        BY <4>1, <4>2 DEF Answered
      <4>4. QED BY <3>2, <4>3
    <3>4. CASE j # n
      <4>1. j \in DOMAIN messages
        BY <1>1, <2>1
      <4>2. Answered(messages, j)
        BY <3>4, <4>1
      <4>3. QED BY <3>1, <3>2, <4>2
    <3>5. QED BY <3>3, <3>4
  <2>2. CASE j \in n + 1..n + c
    <3> DEFINE k == j - n
    <3>1. k \in 1..c /\ j = n + k /\ j - k = n /\ k \in 1..j - 1 /\ j # 1
      BY <1>1, <2>2
    <3> HIDE DEF k
    <3>2. w[j].role = "tool" /\ w[j].calls = <<>> /\ w[j].call = <<iteration, k>>
      BY <1>4, <3>1
    <3>3. k \in DOMAIN w[j - k].calls /\ w[j - k].calls[k] = w[j].call
      BY <1>1, <1>5, <3>1, <3>2
    <3>4. Answers(w, j)
      BY <3>1, <3>3 DEF Answers
    <3>5. Answered(w, j)
      BY <3>2 DEF Answered
    <3>6. QED BY <3>1, <3>2, <3>4, <3>5
  <2>3. QED BY <1>1, <1>4, <2>1, <2>2
<1>7. w # <<>> /\ w[1].calls = <<>> /\ Last(w).role = "tool"
  <2>1. Len(w) # 0 /\ Len(w) = n + c /\ 1 \in 1..n
    BY <1>1, <1>3
  <2>2. Last(w) = w[n + c] /\ c \in 1..c
    BY <1>1, <2>1 DEF Last
  <2>3. QED BY <1>1, <1>4, <2>1, <2>2, EmptySeq
<1>8. QED BY <1>3, <1>6, <1>7 DEF Composed, w

(* The conversation an execution begins with, or goes on with after a      *)
(* compaction.                                                             *)
LEMMA FirstMessages ==
  ASSUME NEW m, NEW head \in Message, head.role = "system", head.calls = <<>>,
         m = <<head, Question>> \/ m = <<head, Snapshot, Question>>
  PROVE  /\ Composed(m) /\ Last(m).role # "assistant"
         /\ \A j \in DOMAIN m : Answered(m, j)
<1>1. /\ Question \in Message /\ Snapshot \in Message
      /\ Question.role = "user" /\ Snapshot.role = "developer"
      /\ Question.calls = <<>> /\ Snapshot.calls = <<>>
  BY MessagesAreTyped DEF Question, Snapshot, Text
<1>2. \A a, b, c \in Message : <<a, b>> \in Seq(Message) /\ <<a, b, c>> \in Seq(Message)
  OBVIOUS
<1>3. CASE m = <<head, Question>>
  <2>1. /\ DOMAIN m = {1, 2} /\ m[1] = head /\ m[2] = Question /\ Last(m) = Question
        /\ m \in Seq(Message) /\ m # <<>>
    BY <1>1, <1>2, <1>3 DEF Last
  <2>2. QED BY <1>1, <1>2, <2>1 DEF Composed, Answered
<1>4. CASE m = <<head, Snapshot, Question>>
  <2>1. /\ DOMAIN m = {1, 2, 3} /\ m[1] = head /\ m[2] = Snapshot /\ m[3] = Question
        /\ Last(m) = Question /\ m \in Seq(Message) /\ m # <<>>
    BY <1>1, <1>2, <1>4 DEF Last
  <2>2. QED BY <1>1, <1>2, <2>1 DEF Composed, Answered
<1>5. QED BY <1>3, <1>4

(* Conversations of two or of three messages are equal element by element. *)
LEMMA ShortSeqEqual ==
  ASSUME NEW s \in Seq(Message), NEW t \in Seq(Message), NEW n \in {2, 3},
         Len(s) = n, Len(t) = n, s[1] = t[1], s[2] = t[2], n = 3 => s[3] = t[3]
  PROVE  s = t
<1>1. \A i \in 1..n : i \in {1, 2, 3} /\ (i = 3 => n = 3)
  OBVIOUS
<1>2. \A i \in 1..Len(s) : s[i] = t[i]
  BY <1>1
<1>3. QED BY <1>2, SeqEqual

(* What concatenating messages one at a time gives. *)
LEMMA ShortConcat ==
  ASSUME NEW a \in Message, NEW b \in Message, NEW c \in Message
  PROVE  /\ <<a>> \o <<>> \o <<c>> = <<a, c>>
         /\ <<a>> \o <<b>> \o <<c>> = <<a, b, c>>
<1>1. /\ <<a>> \in Seq(Message) /\ <<b>> \in Seq(Message) /\ <<c>> \in Seq(Message)
      /\ Len(<<a>>) = 1 /\ Len(<<b>>) = 1 /\ Len(<<c>>) = 1
      /\ <<a>>[1] = a /\ <<b>>[1] = b /\ <<c>>[1] = c
  OBVIOUS
<1>2. /\ <<a, b>> \in Seq(Message) /\ Len(<<a, b>>) = 2 /\ <<a, b>>[1] = a /\ <<a, b>>[2] = b
      /\ <<a, c>> \in Seq(Message) /\ Len(<<a, c>>) = 2 /\ <<a, c>>[1] = a /\ <<a, c>>[2] = c
  OBVIOUS
<1>3. /\ <<a, b, c>> \in Seq(Message) /\ Len(<<a, b, c>>) = 3
      /\ <<a, b, c>>[1] = a /\ <<a, b, c>>[2] = b /\ <<a, b, c>>[3] = c
  OBVIOUS
<1>4. <<a>> \o <<>> = <<a>>
  BY <1>1, ConcatEmptySeq
<1>5. <<a>> \o <<c>> = <<a, c>>
  <2>1. <<a>> \o <<c>> \in Seq(Message) /\ Len(<<a>> \o <<c>>) = 2
        /\ (<<a>> \o <<c>>)[1] = a /\ (<<a>> \o <<c>>)[2] = c
    BY <1>1, ConcatProperties
  <2>2. QED BY <1>2, <2>1, ShortSeqEqual
<1>6. <<a>> \o <<b>> = <<a, b>>
  <2>1. <<a>> \o <<b>> \in Seq(Message) /\ Len(<<a>> \o <<b>>) = 2
        /\ (<<a>> \o <<b>>)[1] = a /\ (<<a>> \o <<b>>)[2] = b
    BY <1>1, ConcatProperties
  <2>2. QED BY <1>2, <2>1, ShortSeqEqual
<1>7. <<a, b>> \o <<c>> = <<a, b, c>>
  <2>1. <<a, b>> \o <<c>> \in Seq(Message) /\ Len(<<a, b>> \o <<c>>) = 3
        /\ (<<a, b>> \o <<c>>)[1] = a /\ (<<a, b>> \o <<c>>)[2] = b
        /\ (<<a, b>> \o <<c>>)[3] = c
    BY <1>1, <1>2, ConcatProperties
  <2>2. QED BY <1>3, <2>1, ShortSeqEqual
<1>8. QED BY <1>4, <1>5, <1>6, <1>7

(* Every step keeps the conversation in order. *)
LEMMA StepConversing ==
  ASSUME TypeIInv, TypeIInv', Conversing, [Next]_vars
  PROVE  Conversing'
<1> USE DEF Asking, Calling
<1>1. CASE LoadContext
  <2>1. messages' = <<Prompt, Question>> \/ messages' = <<Prompt, Snapshot, Question>>
    <3>1. messages' = <<Prompt>> \o (IF snapshot THEN <<Snapshot>> ELSE <<>>) \o <<Question>>
      BY <1>1 DEF LoadContext
    <3>2. /\ <<Prompt>> \o <<>> \o <<Question>> = <<Prompt, Question>>
          /\ <<Prompt>> \o <<Snapshot>> \o <<Question>> = <<Prompt, Snapshot, Question>>
      BY MessagesAreTyped, ShortConcat DEF Prompt, Snapshot, Question, Text
    <3>3. CASE snapshot
      BY <3>1, <3>2, <3>3
    <3>4. CASE ~snapshot
      BY <3>1, <3>2, <3>4
    <3>5. QED BY <3>3, <3>4
  <2>2. Prompt \in Message /\ Prompt.role = "system" /\ Prompt.calls = <<>> /\ place' = "agent"
    BY <1>1, MessagesAreTyped DEF Prompt, Text, LoadContext
  <2>3. /\ Composed(messages') /\ Last(messages').role # "assistant"
        /\ \A j \in DOMAIN messages' : Answered(messages', j)
    BY <2>1, <2>2, FirstMessages
  <2>4. QED BY <2>2, <2>3 DEF Conversing
<1>2. CASE PrepareReasoning
  <2>1. place = "reasoning" /\ place' \in {"thinking", "raised"} /\ messages' \in {messages, Compacted}
    BY <1>2 DEF PrepareReasoning
  <2>2. CASE messages' = messages
    BY <2>1, <2>2 DEF Conversing
  <2>3. CASE messages' = Compacted
    <3>1. Head(messages) \in Message /\ Head(messages).role = "system" /\ Head(messages).calls = <<>>
      <4>1. Composed(messages) /\ messages \in Seq(Message) /\ messages # <<>>
        BY <2>1 DEF Conversing, Composed
      <4>2. Head(messages) = messages[1] /\ 1 \in DOMAIN messages /\ messages[1] \in Message
        BY <4>1, LenProperties, EmptySeq, ElementOfSeq
      <4>3. QED BY <4>1, <4>2 DEF Composed
    <3>2. /\ Composed(messages') /\ Last(messages').role # "assistant"
          /\ \A j \in DOMAIN messages' : Answered(messages', j)
      BY <2>3, <3>1, FirstMessages DEF Compacted
    <3>3. QED BY <2>1, <3>2 DEF Conversing
  <2>4. QED BY <2>1, <2>2, <2>3
<1>3. CASE ModelResponds
  <2>1. PICK tools \in SeqOf(Callable, MaxCalls), content \in {<<>>, <<"draft">>} :
          /\ calls' = [k \in DOMAIN tools |-> NewCall(tools[k])]
          /\ messages' = Append(messages, [Assistant(content) EXCEPT
                              !.calls = [k \in DOMAIN tools |-> <<iteration, k>>]])
          /\ \/ tools # <<>> /\ place' = "action"
             \/ tools = <<>> /\ place' = "answer"
    BY <1>3 DEF ModelResponds
  <2> DEFINE e == [Assistant(content) EXCEPT !.calls = [k \in DOMAIN tools |-> <<iteration, k>>]]
  <2>2. e \in Message /\ e.role = "assistant" /\ e.calls = [k \in DOMAIN tools |-> <<iteration, k>>]
    BY ResponseType DEF Assistant, Text, TypeIInv
  <2>3. messages' = Append(messages, e) /\ place = "thinking" /\ iteration' = iteration
    BY <1>3, <2>1 DEF ModelResponds
  <2> HIDE DEF e
  <2>4. Composed(messages) /\ \A j \in DOMAIN messages : Answered(messages, j)
    BY <2>3 DEF Conversing
  <2>5. /\ Composed(messages') /\ messages'[Len(messages')] = e
        /\ \A j \in DOMAIN messages' : j # Len(messages') \/ e.calls = <<>> => Answered(messages', j)
    BY <2>2, <2>3, <2>4, OneMessage
  <2>6. CASE tools # <<>> /\ place' = "action"
    <3>1. calls' # <<>>
      <4>1. PICK n \in 0..MaxCalls : tools \in [1..n -> Callable]
        BY DEF SeqOf
      <4>2. n # 0
        BY <2>6, <4>1
      <4>3. 1 \in DOMAIN calls'
        BY <2>1, <4>1, <4>2, ConstantsAssumption
      <4>4. DOMAIN <<>> = {}
        OBVIOUS
      <4>5. QED BY <4>3, <4>4
    <3>2. e.calls = [k \in DOMAIN calls' |-> <<iteration', k>>]
      BY <2>1, <2>2, <2>3
    <3>3. QED BY <2>5, <2>6, <3>1, <3>2 DEF Conversing
  <2>7. CASE tools = <<>> /\ place' = "answer"
    <3>1. e.calls = <<>>
      BY <2>2, <2>7
    <3>2. QED BY <2>5, <2>7, <3>1 DEF Conversing
  <2>8. QED BY <2>1, <2>6, <2>7
<1>4. CASE CollectResults
  <2>1. place = "calling" /\ place' = "agent" /\ messages' = messages \o ToolMessages
    BY <1>4 DEF CollectResults
  <2>2. \A k \in DOMAIN calls : calls[k].told \in {"ok", "error"}
    BY <1>4, <2>1 DEF CollectResults, Gathered, CallsOf, TypeIInv, CallsInPlace, OutcomeKnown
  <2>3. /\ Composed(messages') /\ Last(messages').role = "tool"
        /\ \A j \in DOMAIN messages' : Answered(messages', j)
    BY <2>1, <2>2, AllAnswers DEF Conversing, TypeIInv
  <2>4. QED BY <2>1, <2>3 DEF Conversing
<1>5. CASE AgentNode
  <2>1. place = "agent" /\ place' \in {"answer", "reasoning"} /\ UNCHANGED messages
    BY <1>5 DEF AgentNode
  <2>2. QED BY <2>1 DEF Conversing
<1>6. CASE AnswerNode
  <2>1. place = "answer"
    BY <1>6 DEF AnswerNode
  <2>2. CASE place' = "finalizing"
    BY <2>2 DEF Conversing
  <2>3. CASE place' = "streaming" /\ UNCHANGED messages
    BY <2>1, <2>3 DEF Conversing
  <2>4. QED BY <1>6, <2>2, <2>3 DEF AnswerNode
<1>7. CASE RequestSkills \/ SearchesDone
  <2>1. /\ place \in Calling /\ place' \in Calling /\ UNCHANGED <<messages, iteration>>
        /\ DOMAIN calls' = DOMAIN calls
    BY <1>7 DEF RequestSkills, SearchesDone, Queued, graph
  <2>2. QED BY <2>1 DEF Conversing
<1>8. CASE \E k \in 1..MaxCalls : CallTask(k)
  <2>1. PICK k \in 1..MaxCalls : CallTask(k)
    BY <1>8
  <2>2. k \in DOMAIN calls /\ UNCHANGED graph /\ place' \in {place, "raised"}
    BY <2>1, CallTaskEffect
  <2>3. DOMAIN calls' = DOMAIN calls
    <3>1. PICK stage \in Stages, told \in {"none", "ok", "error"}, events \in SUBSET {"completed", "failed"} :
            SetCall(k, stage, told, events)
      BY <2>1, CallTaskEffect
    <3>2. QED BY <2>2, <3>1, SetCallEffect DEF TypeIInv, TypeOK
  <2>4. calls # <<>> => calls' # <<>>
    BY <2>2, <2>3
  <2>5. QED BY <2>2, <2>3, <2>4 DEF Conversing, graph
<1>9. CASE Chunk \/ UNCHANGED vars
  BY <1>9 DEF Chunk, vars, graph, Conversing
<1>10. CASE StreamEnds \/ RecordAnswer \/ SaveSnapshot \/ NodeRaises \/ Cancel
  <2>1. place' \in {"finalizing", "summarizing"} \cup Ended
    BY <1>10 DEF StreamEnds, RecordAnswer, SaveSnapshot, NodeRaises, Cancel, Ended
  <2>2. QED BY <2>1 DEF Conversing, Ended
<1>11. QED
  BY <1>1, <1>2, <1>3, <1>4, <1>5, <1>6, <1>7, <1>8, <1>9, <1>10 DEF Next, Graph

(* Every request to the model is in order, for responses of any length and *)
(* any number of compactions and failed calls.                             *)
THEOREM RequestsAreWellFormed == Spec => []ConversationWellFormed
<1>1. Init => Conversing
  BY DEF Init, Conversing, Asking, Calling
<1>2. Conversing => ConversationWellFormed
  <2> SUFFICES ASSUME Conversing, place \in {"thinking", "streaming"} PROVE ConversationWellFormed
    BY DEF ConversationWellFormed
  <2>1. Composed(messages) /\ \A j \in DOMAIN messages : Answered(messages, j)
    BY DEF Conversing, Asking, Calling
  <2>2. CASE place = "thinking" /\ ~skills
    <3>1. Request = messages /\ Last(messages).role # "assistant"
      BY <2>2 DEF Request, Conversing, Asking
    <3>2. QED BY <2>1, <3>1 DEF ConversationWellFormed, Composed
  <2>3. CASE place = "thinking" /\ skills
    <3>1. Request = InsertAt(messages, 2, Skill) /\ Last(messages).role # "assistant"
      BY <2>3 DEF Request, Conversing, Asking
    <3>2. QED BY <2>1, <3>1, SkillMessage DEF ConversationWellFormed
  <2>4. CASE place = "streaming"
    <3>1. Request = Append(messages, Instruction)
      BY <2>4 DEF Request
    <3>2. Instruction \in Message /\ Instruction.role = "developer" /\ Instruction.calls = <<>>
      <4>1. <<>> \in Seq(CallId) /\ NoCall \in CallId /\ <<"instruction">> \in Seq(Chunks)
        BY EmptySeq DEF NoCall, CallId, Chunks
      <4>2. QED BY <4>1 DEF Instruction, Text, Message, Roles
    <3>3. /\ Composed(Request) /\ Last(Request) = Instruction
          /\ \A j \in DOMAIN Request : Answered(Request, j)
      BY <2>1, <3>1, <3>2, OneMessage DEF Last
    <3>4. QED BY <3>2, <3>3 DEF ConversationWellFormed, Composed
  <2>5. QED BY <2>2, <2>3, <2>4
<1>3. QED BY <1>1, <1>2, InitTypeIInv, StepTypeIInv, StepConversing, PTL DEF Spec

=============================================================================
