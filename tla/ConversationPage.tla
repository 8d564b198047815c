-------------------------- MODULE ConversationPage --------------------------
(***************************************************************************)
(* One browser page of the Streamlit UI: it lists a conversation, submits  *)
(* questions, and follows the execution it takes for the active one        *)
(* through frames, with the durable row as its fallback, until it can      *)
(* append an answer and let the user write again.                          *)
(*                                                                         *)
(* What runs behind the API is reduced to what the other modules check of  *)
(* it: an execution publishes numbered deltas of text, its projection      *)
(* trails them by at most the delta being written, its row ends once, and  *)
(* its end is published after that or never.  A text is the sequence of    *)
(* the numbers of its deltas.                                              *)
(***************************************************************************)
EXTENDS Naturals, Sequences, SequencesExt, FiniteSetsExt

CONSTANTS
    MaxExecutions,  \* bound: questions asked, over all conversations
    MaxDeltas,      \* bound: deltas published, over all executions
    MaxSlips,       \* bound: reruns that hit a page while it closes an answer
    None            \* a key Redis does not have

ASSUME ConstantsAssumption ==
    /\ MaxExecutions \in Nat \ {0} /\ MaxDeltas \in Nat /\ MaxSlips \in Nat
    /\ None \notin Nat

VARIABLES
    created,    \* executions accepted so far, numbered in that order
    owner,      \* session of an execution, named after the session's first one
    row,        \* status of its row
    answer,     \* answer in its row, <<>> when NULL
    text,       \* the deltas it published: words and blanks
    hot,        \* Redis: deltas folded into its projection, or None
    told,       \* what became of the publication of its end
    session,    \* st.session_state.session_id, 0 for a new conversation
    messages,   \* st.session_state.messages
    active,     \* the execution followed (session_state or the URL), 0 for none
    content,    \* active_response["content"]
    place,      \* where the script of the page stands
    covered,    \* deltas of the stream the open tail has delivered
    ending,     \* terminal_status of _observe_execution
    slips       \* history: reruns between appending an answer and clearing it

backend == <<created, owner, row, answer, text, hot, told>>
page    == <<session, messages, active, content, place, covered, ending, slips>>
vars    == <<backend, page>>

-----------------------------------------------------------------------------
Executions == 1..MaxExecutions
Ends       == {"completed", "failed", "cancelled"}
Open       == {"pending", "running", "cancel_requested"}
Places     == {"idle", "broken", "connecting", "tail", "caught", "refresh", "finishing", "closing"}
Texts      == Seq(1..MaxDeltas)
Message    == [of : Executions, kind : {"question"} \cup Ends, content : Texts]

Question(e)        == [of |-> e, kind |-> "question", content |-> <<>>]
Reply(e, end, txt) == [of |-> e, kind |-> end, content |-> IF end = "failed" THEN <<>> ELSE txt]

(* The first n deltas of any text. *)
Deltas(n) == [i \in 1..n |-> i]

(* What execution e has streamed. *)
Streamed(e) == Deltas(Len(text[e]))

(* The positions of s, a part of the text of e, that hold words. *)
Words(e, s) == {i \in DOMAIN s : text[e][s[i]] = "word"}

(* str.strip of a part s of the text of e. *)
Stripped(e, s) ==
    IF Words(e, s) = {} THEN <<>> ELSE SubSeq(s, Min(Words(e, s)), Max(Words(e, s)))

(* The partial answer in the projection: a published answer replaces it.   *)
HotText(e) == IF told[e] \in Ends /\ answer[e] # <<>> THEN answer[e] ELSE Deltas(hot[e])

(* The executions a session is listed with. *)
Listed(e, s) == owner[e] = s /\ row[e] # "deleted"

Exists(s) == \E e \in 1..created : Listed(e, s)

-----------------------------------------------------------------------------
(* Behind the API. *)

Begin(e) ==
    /\ row[e] = "pending"
    /\ row' = [row EXCEPT ![e] = "running"]
    /\ hot' = [hot EXCEPT ![e] = 0]
    /\ UNCHANGED <<created, owner, answer, text, told, page>>

(* The runtime is at work and its last emission is over. *)
Settled(e) == hot[e] = Len(text[e])

(* The deltas published so far, over all executions. *)
Published ==
    LET upto[n \in 0..MaxExecutions] == IF n = 0 THEN 0 ELSE upto[n - 1] + Len(text[n])
    IN  upto[MaxExecutions]

Generate(e) ==
    /\ row[e] \in {"running", "cancel_requested"} /\ Settled(e)
    /\ Published < MaxDeltas
    /\ \E kind \in {"word", "blank"} : text' = [text EXCEPT ![e] = Append(@, kind)]
    /\ UNCHANGED <<created, owner, row, answer, hot, told, page>>

Fold(e) ==
    /\ row[e] \in Open /\ hot[e] # None /\ ~Settled(e)
    /\ hot' = [hot EXCEPT ![e] = Len(text[e])]
    /\ UNCHANGED <<created, owner, row, answer, text, told, page>>

(* A cancelled or failed runtime may leave its last delta unfolded; an     *)
(* answer that came out all the same is kept.                              *)
End(e) ==
    LET whole == Stripped(e, Streamed(e))
    IN  /\ \/ row[e] = "running" /\ Settled(e) /\ whole # <<>>
              /\ row' = [row EXCEPT ![e] = "completed"]
              /\ answer' = [answer EXCEPT ![e] = whole]
           \/ row[e] = "running"
              /\ row' = [row EXCEPT ![e] = "failed"]
              /\ UNCHANGED answer
           \/ row[e] = "cancel_requested"
              /\ row' = [row EXCEPT ![e] = "cancelled"]
              /\ answer' \in {answer} \cup
                    IF Settled(e) THEN {[answer EXCEPT ![e] = whole]} ELSE {}
        /\ UNCHANGED <<created, owner, text, hot, told, page>>

(* _emit_lifecycle; a failure is logged and the end is not published. *)
PublishEnd(e) ==
    /\ row[e] \in Ends /\ told[e] = "no"
    /\ \/ /\ told' = [told EXCEPT ![e] = row[e]]
          /\ hot' = [hot EXCEPT ![e] = IF @ = None THEN 0 ELSE @]
       \/ /\ told' = [told EXCEPT ![e] = "lost"]
          /\ UNCHANGED hot
    /\ UNCHANGED <<created, owner, row, answer, text, page>>

Expire(e) ==
    /\ told[e] # "no" /\ hot[e] # None
    /\ ~(place = "tail" /\ active = e)
    /\ hot' = [hot EXCEPT ![e] = None]
    /\ UNCHANGED <<created, owner, row, answer, text, told, page>>

(* delete_session, asked for from another page. *)
Delete(s) ==
    /\ Exists(s)
    /\ \A e \in 1..created : owner[e] = s => row[e] \notin Open
    /\ row' = [e \in Executions |-> IF owner[e] = s THEN "deleted" ELSE row[e]]
    /\ UNCHANGED <<created, owner, answer, text, hot, told, page>>

-----------------------------------------------------------------------------
(* Opening a conversation and asking. *)

Turn(e) == <<Question(e)>> \o IF row[e] \in Ends THEN <<Reply(e, row[e], answer[e])>> ELSE <<>>

(* The loop of _load_history: what is said after its first n executions.   *)
History(s) ==
    LET said[n \in 0..created] ==
          IF n = 0 THEN <<>> ELSE said[n - 1] \o IF Listed(n, s) THEN Turn(n) ELSE <<>>
    IN  said[created]

(* The execution _load_history leaves active: the last that has not ended. *)
LastOpen(s) ==
    LET open == {e \in 1..created : owner[e] = s /\ row[e] \in Open}
    IN  IF open = {} THEN 0 ELSE Max(open)

(* Seeded fault: the text of the execution before stays. *)
Follow_KeepsText(e) ==
    /\ active' = e
    /\ covered' = 0 /\ ending' = "none" /\ UNCHANGED content
    /\ place' = IF e = 0 THEN "idle" ELSE "connecting"

(* A fresh active_response for e, or nothing to follow. *)
Follow(e) ==
    /\ active' = e
    /\ content' = <<>> /\ covered' = 0 /\ ending' = "none"
    /\ place' = IF e = 0 THEN "idle" ELSE "connecting"

LoadHistory(s) ==
    /\ messages' = History(s)
    /\ Follow(LastOpen(s))

(* A page is loaded with a session in its URL: a reload, or a click on a   *)
(* conversation.                                                           *)
OpenPage(s) ==
    /\ Exists(s) /\ session' = s /\ LoadHistory(s)
    /\ UNCHANGED <<backend, slips>>

(* The session is not found, asking for it fails, or the URL names none;   *)
(* a reload still has the execution in the URL.                            *)
OpenDetached ==
    /\ session' = 0 /\ messages' = <<>>
    /\ \E e \in {0, active} : Follow(e)
    /\ UNCHANGED <<backend, slips>>

(* The list of executions cannot be had: nothing is shown until a rerun.   *)
OpenBroken(s) ==
    /\ Exists(s)
    /\ session' = s /\ messages' = <<>>
    /\ active' \in {0, active}
    /\ content' = <<>> /\ covered' = 0 /\ ending' = "none"
    /\ place' = "broken"
    /\ UNCHANGED <<backend, slips>>

Retry ==
    /\ place = "broken" /\ Exists(session)
    /\ LoadHistory(session)
    /\ UNCHANGED <<backend, session, slips>>

NewConversation ==
    /\ place = "idle"
    /\ session' = 0 /\ messages' = <<>>
    /\ Follow(0)
    /\ UNCHANGED <<backend, slips>>

(* _submit_question.  The response may be lost, or a rerun may come before *)
(* the page has noted the execution.                                       *)
Submit ==
    /\ place = "idle" /\ created < MaxExecutions
    /\ session = 0 \/ Exists(session)
    /\ LET e == created + 1
           s == IF session = 0 THEN e ELSE session
       IN  /\ created' = e
           /\ owner' = [owner EXCEPT ![e] = s]
           /\ row' = [row EXCEPT ![e] = "pending"]
           /\ \/ /\ session' = s
                 /\ messages' = Append(messages, Question(e))
                 /\ Follow(e)
              \/ /\ session' \in {session, s}
                 /\ UNCHANGED <<messages, active, content, place, covered, ending>>
    /\ UNCHANGED <<answer, text, hot, told, slips>>

-----------------------------------------------------------------------------
(* _observe_execution: the frames. *)

(* Seeded fault: the newest frame is believed. *)
StateAnswer_Newest(current, candidate) == candidate

(* _apply_state_answer *)
StateAnswer(current, candidate) ==
    IF IsPrefix(candidate, current) THEN current ELSE candidate

(* Seeded fault: a cancelled execution is still followed. *)
Terminal_NotCancelled(status) == status \in Ends \ {"cancelled"}

(* The statuses at which the page stops following. *)
Terminal(status) == status \in Ends

(* A frame shows txt, and the end of the execution unless "none". *)
SeeState(txt, end, next) ==
    /\ content' = StateAnswer(content, txt)
    /\ ending' = end
    /\ place' = IF Terminal(end) THEN "finishing" ELSE next

Connecting == place = "connecting" /\ row[active] # "deleted"

(* Seeded fault: the tail starts at the projection, the frame at the end.  *)
LiveFrom_Projection(e) == hot[e]

(* The delta the tail starts behind: the last one the state frame covers.  *)
LiveFrom(e) == Len(text[e])

(* The projection, brought up to the end of the stream. *)
ConnectLive ==
    /\ Connecting /\ hot[active] # None
    /\ IF told[active] \in Ends
         THEN SeeState(HotText(active), told[active], "refresh") /\ UNCHANGED covered
         ELSE SeeState(Streamed(active), "none", "tail") /\ covered' = LiveFrom(active)
    /\ UNCHANGED <<backend, session, messages, active, slips>>

(* No projection: the durable row, once it has ended. *)
ConnectDurable ==
    /\ Connecting /\ row[active] \in Ends
    /\ SeeState(answer[active], row[active], "refresh")
    /\ UNCHANGED <<backend, session, messages, active, covered, slips>>

(* Realtime is unavailable: the projection as it is, or nothing at all.    *)
ConnectStale ==
    /\ Connecting
    /\ \/ /\ hot[active] # None
          /\ SeeState(HotText(active), IF told[active] \in Ends THEN told[active] ELSE "none", "refresh")
       \/ SeeState(<<>>, "none", "refresh")
    /\ UNCHANGED <<backend, session, messages, active, covered, slips>>

ConnectFails ==
    /\ place = "connecting"
    /\ place' = "caught"
    /\ UNCHANGED <<backend, session, messages, active, content, covered, ending, slips>>

NextDelta ==
    /\ place = "tail" /\ covered < Len(text[active])
    /\ covered' = covered + 1
    /\ content' = Append(content, covered')
    /\ UNCHANGED <<backend, session, messages, active, place, ending, slips>>

TheEnd ==
    /\ place = "tail" /\ covered = Len(text[active]) /\ told[active] \in Ends
    /\ SeeState(answer[active], told[active], "refresh")
    /\ covered' = 0
    /\ UNCHANGED <<backend, session, messages, active, slips>>

(* The stream closes on realtime_unavailable, or the connection breaks.    *)
TailBreaks ==
    /\ place = "tail"
    /\ place' \in {"refresh", "caught"}
    /\ covered' = 0
    /\ UNCHANGED <<backend, session, messages, active, content, ending, slips>>

-----------------------------------------------------------------------------
(* _observe_execution: the durable fallback and the end. *)

(* GET /executions/{id}: the projection's text while the execution runs.   *)
Presented(e) ==
    IF row[e] \in {"running", "cancel_requested"} /\ hot[e] # None THEN HotText(e) ELSE answer[e]

(* Seeded fault: the text on the page wins over the row. *)
DurableAnswer_Current(current, durable) == IF current # <<>> THEN current ELSE durable

(* _refresh_durable_result, _apply_durable_result *)
DurableAnswer(current, durable) ==
    IF durable # <<>> /\ (IsPrefix(current, durable) \/ ~IsPrefix(durable, current))
      THEN durable ELSE current

(* After an exception the row is read in the handler and once more below.  *)
AfterRefresh == IF place = "caught" THEN "refresh" ELSE "connecting"

Refresh ==
    /\ place \in {"caught", "refresh"} /\ row[active] # "deleted"
    /\ content' = DurableAnswer(content, Presented(active))
    /\ IF Terminal(row[active])
         THEN ending' = row[active] /\ place' = "finishing"
         ELSE place' = AfterRefresh /\ UNCHANGED ending
    /\ UNCHANGED <<backend, session, messages, active, covered, slips>>

RefreshFails ==
    /\ place \in {"caught", "refresh"}
    /\ place' = AfterRefresh
    /\ UNCHANGED <<backend, session, messages, active, content, covered, ending, slips>>

(* The answer joins the messages; the script then clears what is active,   *)
(* one entry of the session state after the other.                         *)
Finish ==
    /\ place = "finishing"
    /\ messages' = Append(messages, Reply(active, ending, content))
    /\ place' = "closing"
    /\ UNCHANGED <<backend, session, active, content, covered, ending, slips>>

(* Seeded fault: the execution stays in the URL. *)
AfterAnswer_Kept == active

(* _clear_active_execution leaves nothing to follow. *)
AfterAnswer == 0

Clear ==
    /\ place = "closing"
    /\ Follow(AfterAnswer)
    /\ UNCHANGED <<backend, session, messages, slips>>

(* A rerun that falls between the two is counted. *)
Slip ==
    IF place = "closing" THEN slips < MaxSlips /\ slips' = slips + 1 ELSE UNCHANGED slips

(* The stop button: Streamlit reruns the script, which is interrupted at   *)
(* the next touch of its session state, asks for the cancellation (the     *)
(* call may fail) and observes again.                                      *)
Stop ==
    /\ place \in Places \ {"idle", "broken"}
    /\ Slip
    /\ content' \in {content} \cup IF place = "closing" THEN {<<>>} ELSE {}
    /\ place' = "connecting" /\ ending' = "none" /\ covered' = 0
    /\ row' \in {row} \cup
          IF row[active] \in {"pending", "running"}
            THEN {[row EXCEPT ![active] = "cancel_requested"]} ELSE {}
    /\ UNCHANGED <<created, owner, answer, text, hot, told, session, messages, active>>

-----------------------------------------------------------------------------
Init ==
    /\ created = 0
    /\ owner = [e \in Executions |-> 0] /\ row = [e \in Executions |-> "absent"]
    /\ answer = [e \in Executions |-> <<>>] /\ text = [e \in Executions |-> <<>>]
    /\ hot = [e \in Executions |-> None] /\ told = [e \in Executions |-> "no"]
    /\ session = 0 /\ messages = <<>> /\ active = 0 /\ content = <<>>
    /\ place = "idle" /\ covered = 0 /\ ending = "none" /\ slips = 0

Backend ==
    \E e \in Executions :
        \/ Begin(e) \/ Generate(e) \/ Fold(e) \/ End(e) \/ PublishEnd(e) \/ Expire(e) \/ Delete(e)

User ==
    \/ \E s \in Executions : OpenPage(s) \/ OpenBroken(s)
    \/ OpenDetached \/ Retry \/ NewConversation \/ Submit \/ Stop

Script ==
    \/ ConnectLive \/ ConnectDurable \/ ConnectStale \/ ConnectFails
    \/ NextDelta \/ TheEnd \/ TailBreaks
    \/ Refresh \/ RefreshFails \/ Finish \/ Clear

Next == Backend \/ User \/ Script

Spec == Init /\ [][Next]_vars

(* Calls to the API do not fail for ever, the user does not interrupt the  *)
(* script at every turn, and the handler of an ended execution gets to its *)
(* _emit_lifecycle; nothing is assumed of the user, and an open tail need  *)
(* not break.                                                              *)
Fairness ==
    /\ SF_vars(ConnectLive \/ ConnectDurable) /\ SF_vars(NextDelta) /\ SF_vars(TheEnd)
    /\ SF_vars(Refresh) /\ WF_vars(RefreshFails)
    /\ SF_vars(Finish) /\ SF_vars(Clear)
    /\ \A e \in Executions : WF_vars(PublishEnd(e))

FairSpec == Spec /\ Fairness

-----------------------------------------------------------------------------
TypeOK ==
    /\ created \in 0..MaxExecutions
    /\ owner \in [Executions -> 0..MaxExecutions]
    /\ row \in [Executions -> {"absent", "deleted"} \cup Open \cup Ends]
    /\ answer \in [Executions -> Texts]
    /\ text \in [Executions -> Seq({"word", "blank"})]
    /\ hot \in [Executions -> (0..MaxDeltas) \cup {None}]
    /\ told \in [Executions -> {"no", "lost"} \cup Ends]
    /\ session \in 0..MaxExecutions
    /\ messages \in Seq(Message)
    /\ active \in 0..MaxExecutions
    /\ content \in Texts
    /\ place \in Places
    /\ covered \in 0..MaxDeltas
    /\ ending \in {"none"} \cup Ends
    /\ slips \in 0..MaxSlips

(* The text under an active answer is what the execution streamed, from    *)
(* its start, without a delta missing or repeated, or the stored answer,   *)
(* however often the page fell back to the row and attached again.         *)
GenuineContent ==
    active # 0 => IsPrefix(content, Streamed(active)) \/ content = answer[active]

(* No word once shown is taken back by a stale projection, an early row or *)
(* the blanks that tell the stream from the stored answer, unless the page *)
(* starts from nothing, and then it is about to attach.                    *)
WordsStay ==
    [][active' = active /\ active # 0 =>
          \/ Stripped(active, content) = <<>>
          \/ IsPrefix(Stripped(active, content), Stripped(active, content)')
          \/ content' = <<>> /\ place' \in {"connecting", "broken"}]_vars

(* Whichever way an answer came to the page (end frame, state frame, the   *)
(* row read as a fallback, a reload), it says how the row ended and holds  *)
(* the answer the row holds, give or take blanks around it.                *)
AnswersAsStored ==
    \A n \in DOMAIN messages :
        LET m == messages[n]
        IN  m.kind \in Ends =>
               /\ row[m.of] \in {m.kind, "deleted"}
               /\ IsPrefix(m.content, Streamed(m.of)) \/ m.content = answer[m.of]
               /\ m.kind # "failed" /\ answer[m.of] # <<>>
                    => Stripped(m.of, m.content) = answer[m.of]

(* An execution is answered once; only a rerun that interrupts the script  *)
(* between appending the answer and clearing the active execution repeats  *)
(* it, once each.                                                          *)
AnsweredOnce ==
    \A e \in Executions :
        Cardinality({n \in DOMAIN messages : messages[n].of = e /\ messages[n].kind \in Ends})
            <= 1 + slips

(* The page follows e, which has not been deleted under it. *)
Follows(e) == active = e /\ place # "broken" /\ row[e] # "deleted"

(* A page that follows an execution whose end was published lets its user  *)
(* write again.                                                            *)
UnlocksWhenTold ==
    \A e \in Executions : (Follows(e) /\ told[e] \in Ends) ~> ~Follows(e)

(* With the row as its fallback a page that follows an execution that has  *)
(* ended lets its user write again (docs/architecture.md:370).             *)
FallsBackToTheRow ==
    \A e \in Executions : (Follows(e) /\ row[e] \in Ends) ~> ~Follows(e)
=============================================================================
