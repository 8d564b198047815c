---------------------------- MODULE Observation ----------------------------
(***************************************************************************)
(* How one execution is followed from outside: the events its runner       *)
(* publishes (a counter, a stream and a hot projection in Redis, written   *)
(* by separate commands), and the observers that piece the state together  *)
(* from PostgreSQL, the projection and the stream and then follow the tail *)
(* of the stream.                                                          *)
(*                                                                         *)
(* An event is its sequence number and its kind: every event of the        *)
(* runtime is a "step".  What a projection accumulates (activities, the    *)
(* partial answer) is the set of sequence numbers folded into it.          *)
(***************************************************************************)
EXTENDS Naturals, FiniteSets

CONSTANTS
    Observers,      \* clients attached over SSE
    MaxSteps,       \* bound: events the runtime publishes
    MaxLen,         \* settings.redis_stream_maxlen
    ReadCount,      \* settings.redis_stream_read_count
    None            \* a key Redis does not have

ASSUME ConstantsAssumption ==
    /\ MaxSteps \in Nat
    /\ MaxLen \in Nat \ {0}
    /\ ReadCount \in Nat \ {0}

VARIABLES
    status,     \* the execution row in PostgreSQL
    producer,   \* where ExecutionConsumer stands with this execution
    agent,      \* its runtime task is alive
    outcome,    \* how the execution is going to end
    emission,   \* the emit in progress in each of the two event sinks
    counter,    \* Redis: sequence key
    lastId,     \* Redis: id of the last entry ever added
    stream,     \* Redis: entries of the stream
    hot,        \* Redis: the projection, or None
    pc,         \* where observe stands for each observer
    found,      \* durable status, projection and stream end the resolution has read
    polling,    \* in the acceptance loop: a first frame has been sent
    inbox,      \* entries read from the stream and not yet delivered
    cursor,     \* id of the last entry delivered or covered
    view,       \* what the frames sent so far show, and why observe returned
    reached     \* history: the highest sequence a realtime frame has shown

row      == <<status, producer, agent, outcome>>
redis    == <<counter, lastId, stream, hot>>
observer == <<pc, found, polling, inbox, cursor, view, reached>>
vars     == <<row, emission, redis, observer>>

-----------------------------------------------------------------------------
Ends    == {"completed", "failed", "cancelled"}
Status  == {"pending", "running"} \cup Ends
Kinds   == {"started", "step"} \cup Ends
Sinks   == {"lifecycle", "runtime"}

Projection == [seq : Nat, status : Status, content : SUBSET Nat]
Entry      == [id : Nat, seq : Nat, kind : Kinds]

ASSUME NoneAssumption == None \notin Projection /\ None \notin Entry

(* An emission under way, what a resolution has read, where observe is,    *)
(* what its frames show.                                                   *)
Stages   == {"none", "append", "project", "save", "trace"}
Emission == [stage : Stages, kind : Kinds \cup {"none"}, seq : Nat, base : Projection \cup {None}]
Reading  == [status : Status, hot : Projection \cup {None}, last : Entry \cup {None}]
Places   == {"detached", "durable", "hot", "latest", "retained", "waiting", "tail", "returned"}
View     == [shown : Projection, live : BOOLEAN, end : {"none", "terminal", "unavailable", "gap"}]

InitialProjection(s) == [seq |-> 0, status |-> s, content |-> {}]

(* reduce_projection: lifecycle events set the status, all leave a trace.  *)
Reduce(p, seq, kind) ==
    [seq     |-> seq,
     status  |-> CASE kind = "started" -> "running" [] kind \in Ends -> kind [] OTHER -> p.status,
     content |-> p.content \cup {seq}]

Newest(S) == CHOOSE x \in S : \A y \in S : y.id <= x.id
Oldest(S) == CHOOSE x \in S : \A y \in S : x.id <= y.id

(* The first n entries of S, or all of them. *)
FirstOf(n, S) == {x \in S : Cardinality({y \in S : y.id <= x.id}) <= n}

(* XADD MAXLEN ~: whole nodes are trimmed, so the stream may stay longer.  *)
Trimmed(S) == {S, {x \in S : Cardinality({y \in S : y.id >= x.id}) <= MaxLen}}

-----------------------------------------------------------------------------
(* The producer: ExecutionConsumer and the runtime it starts. *)

NoEmission == [stage |-> "none", kind |-> "none", seq |-> 0, base |-> None]

Idle(w) == emission[w].stage = "none"

(* mark_running is committed; EXECUTION_STARTED comes next. *)
CommitRunning ==
    /\ producer = "waiting"
    /\ status' = "running"
    /\ producer' = "starting"
    /\ UNCHANGED <<agent, outcome, emission, redis, observer>>

(* The cancel request came first. *)
CommitCancelled ==
    /\ producer = "waiting"
    /\ status' = "cancelled" /\ outcome' = "cancelled"
    /\ producer' = "ending"
    /\ UNCHANGED <<agent, emission, redis, observer>>

(* The runtime's emissions are over. *)
RuntimeReturns ==
    /\ producer = "running" /\ Idle("runtime")
    /\ agent' = FALSE
    /\ outcome' \in {"completed", "failed"}
    /\ producer' = "finishing"
    /\ UNCHANGED <<status, emission, redis, observer>>

(* Seeded fault: the runtime task is not awaited. *)
RuntimeCancelled_Detached ==
    /\ producer = "running"
    /\ outcome' = "cancelled"
    /\ producer' = "finishing"
    /\ UNCHANGED <<status, agent, emission, redis, observer>>

(* A cancel request: the runtime task is cancelled wherever it awaits, in  *)
(* the middle of an emission too.                                          *)
RuntimeCancelled ==
    /\ producer = "running"
    /\ agent' = FALSE
    /\ emission' = [emission EXCEPT !["runtime"] = NoEmission]
    /\ outcome' = "cancelled"
    /\ producer' = "finishing"
    /\ UNCHANGED <<status, redis, observer>>

(* The handler goes on while the runtime still publishes: the watcher      *)
(* raised, or one of several parallel tool calls did, and the others of    *)
(* its asyncio.gather are not cancelled.                                   *)
RuntimeAbandoned ==
    /\ producer = "running"
    /\ outcome' \in {"failed", "cancelled"}
    /\ producer' = "finishing"
    /\ UNCHANGED <<status, agent, emission, redis, observer>>

AbandonedRuntimeEnds ==
    /\ agent /\ producer # "running" /\ Idle("runtime")
    /\ agent' = FALSE
    /\ UNCHANGED <<status, producer, outcome, emission, redis, observer>>

(* The final transaction. *)
CommitEnd ==
    /\ producer = "finishing"
    /\ status' = outcome
    /\ producer' = "ending"
    /\ UNCHANGED <<agent, outcome, emission, redis, observer>>

(* The process dies; nothing takes the execution up again. *)
Crash ==
    /\ producer \notin {"waiting", "done", "dead"}
    /\ producer' = "dead" /\ agent' = FALSE
    /\ emission' = [w \in Sinks |-> NoEmission]
    /\ UNCHANGED <<status, outcome, redis, observer>>

-----------------------------------------------------------------------------
(* RedisExecutionEventSink.emit, one command at a time; the lock of a sink *)
(* admits one emission of the execution, but each sink has its own lock.   *)

Emit(w, kind) ==
    /\ Idle(w)
    /\ counter' = counter + 1
    /\ emission' = [emission EXCEPT ![w] =
                       [stage |-> "append", kind |-> kind, seq |-> counter', base |-> None]]
    /\ UNCHANGED <<row, lastId, stream, hot, observer>>

EmitStarted == producer = "starting" /\ Emit("lifecycle", "started")
EmitStep    == agent /\ counter <= MaxSteps /\ Emit("runtime", "step")

(* Seeded fault: the end is published before it is committed. *)
EmitEnd_Early == producer \in {"finishing", "ending"} /\ Emit("lifecycle", outcome)

EmitEnd == producer = "ending" /\ Emit("lifecycle", outcome)

Append(w) ==
    /\ emission[w].stage = "append"
    /\ LET new == [id |-> lastId + 1, seq |-> emission[w].seq, kind |-> emission[w].kind]
       IN  /\ lastId' = new.id
           /\ stream' \in Trimmed(stream \cup {new})
    /\ emission' = [emission EXCEPT ![w].stage = "project"]
    /\ UNCHANGED <<row, counter, hot, observer>>

Project(w) ==
    /\ emission[w].stage = "project"
    /\ emission' = [emission EXCEPT ![w].stage = "save",
                                    ![w].base = IF hot = None THEN InitialProjection("pending") ELSE hot]
    /\ UNCHANGED <<row, redis, observer>>

(* Seeded fault: the event is not folded into the projection. *)
SavedProjection_Bare(w) == [emission[w].base EXCEPT !.seq = emission[w].seq]

SavedProjection(w) == Reduce(emission[w].base, emission[w].seq, emission[w].kind)

SaveHot(w) ==
    /\ emission[w].stage = "save"
    /\ hot' = SavedProjection(w)
    /\ emission' = [emission EXCEPT ![w].stage = "trace"]
    /\ UNCHANGED <<row, counter, lastId, stream, observer>>

(* _handle_message and the runtime go on once emit is over. *)
AfterLifecycle ==
    /\ producer' = IF producer = "starting" THEN "running" ELSE "done"
    /\ agent' = (producer = "starting" \/ agent)

EmitReturns(w) ==
    /\ emission[w].stage = "trace"
    /\ emission' = [emission EXCEPT ![w] = NoEmission]
    /\ IF w = "lifecycle" THEN AfterLifecycle ELSE UNCHANGED <<producer, agent>>
    /\ UNCHANGED <<status, outcome, redis, observer>>

(* A command of Redis or the trace insert raises.  _emit_lifecycle logs    *)
(* and goes on; in the runtime it ends the run, or one tool call.          *)
EmitRaises(w) ==
    /\ emission' = [emission EXCEPT ![w] = NoEmission]
    /\ \/ /\ w = "lifecycle" /\ producer \in {"starting", "ending"}
          /\ AfterLifecycle
          /\ UNCHANGED outcome
       \/ /\ w = "runtime" /\ ~Idle(w)
          /\ \/ UNCHANGED <<producer, agent, outcome>>
             \/ /\ agent' = FALSE
                /\ IF producer = "running"
                     THEN producer' = "finishing" /\ outcome' = "failed"
                     ELSE UNCHANGED <<producer, outcome>>
    /\ UNCHANGED <<status, redis, observer>>

(* The keys' TTL runs out, long after the last event for any observer that *)
(* is attached; the stream has one only if a terminal event was published. *)
Expire ==
    /\ producer \in {"done", "dead"} /\ ~agent /\ \A w \in Sinks : Idle(w)
    /\ hot # None
    /\ \A o \in Observers : pc[o] \in {"detached", "waiting", "returned"}
    /\ hot' = None
    /\ \/ UNCHANGED <<stream, counter>>
       \/ hot.status \in Ends /\ stream' = {} /\ counter' = 0
    /\ UNCHANGED <<row, emission, lastId, observer>>

-----------------------------------------------------------------------------
(* RedisExecutionObserver.observe. *)

Fresh(s) == [status |-> s, hot |-> None, last |-> None]
NoView   == [shown |-> InitialProjection("pending"), live |-> FALSE, end |-> "none"]

(* GET /executions/{id}/events, or a reconnect. *)
Attach(o) ==
    /\ pc[o] \in {"detached", "returned"}
    /\ pc' = [pc EXCEPT ![o] = "durable"]
    /\ polling' = [polling EXCEPT ![o] = FALSE]
    /\ view' = [view EXCEPT ![o] = NoView]
    /\ UNCHANGED <<row, emission, redis, found, inbox, cursor, reached>>

(* The client goes away between two frames. *)
Detach(o) ==
    /\ pc[o] \in {"waiting", "tail"}
    /\ pc' = [pc EXCEPT ![o] = "detached"]
    /\ inbox' = [inbox EXCEPT ![o] = {}]
    /\ UNCHANGED <<row, emission, redis, found, polling, cursor, view, reached>>

(* Seeded fault: a cancelled execution is not taken for an ended one.      *)
EndsObservation_NotCancelled(s) == s \in Ends \ {"cancelled"}

(* _is_terminal_state *)
EndsObservation(s) == s \in Ends

(* A state frame with projection p, read up to the stream entry last when  *)
(* it is live; otherwise realtime is given up after it.                    *)
SendState(o, p, live, last) ==
    /\ view' = [view EXCEPT ![o] =
          [shown |-> p, live |-> live,
           end   |-> IF EndsObservation(p.status) THEN "terminal"
                     ELSE IF live THEN "none" ELSE "unavailable"]]
    /\ pc' = [pc EXCEPT ![o] = IF live /\ ~EndsObservation(p.status) THEN "tail" ELSE "returned"]
    /\ cursor' = [cursor EXCEPT ![o] = IF live THEN last.id ELSE @]
    /\ reached' = [reached EXCEPT ![o] = IF live /\ p.seq > @ THEN p.seq ELSE @]
    /\ UNCHANGED <<polling, inbox>>

(* No projection yet: what is durable is shown once, then waited upon.     *)
AwaitRuntime(o) ==
    /\ IF polling[o] /\ ~EndsObservation(found[o].status)
         THEN UNCHANGED view
         ELSE view' = [view EXCEPT ![o] =
                 [shown |-> InitialProjection(found[o].status), live |-> FALSE,
                  end   |-> IF EndsObservation(found[o].status) THEN "terminal" ELSE "none"]]
    /\ pc' = [pc EXCEPT ![o] = IF EndsObservation(found[o].status) THEN "returned" ELSE "waiting"]
    /\ polling' = [polling EXCEPT ![o] = TRUE]
    /\ UNCHANGED <<inbox, cursor, reached>>

(* realtime_unavailable with reason sequence_gap. *)
SendGap(o) ==
    /\ view' = [view EXCEPT ![o].end = "gap"]
    /\ pc' = [pc EXCEPT ![o] = "returned"]
    /\ UNCHANGED <<polling, reached>>

(* _resolve_current_state, one read at a time. *)
ReadDurable(o) ==
    /\ pc[o] \in {"durable", "waiting"}
    /\ found' = [found EXCEPT ![o] = Fresh(status)]
    /\ pc' = [pc EXCEPT ![o] = "hot"]
    /\ UNCHANGED <<row, emission, redis, polling, inbox, cursor, view, reached>>

ReadHot(o) ==
    /\ pc[o] = "hot"
    /\ IF hot = None
         THEN AwaitRuntime(o) /\ UNCHANGED found
         ELSE /\ found' = [found EXCEPT ![o].hot = hot]
              /\ pc' = [pc EXCEPT ![o] = "latest"]
              /\ UNCHANGED <<polling, inbox, cursor, view, reached>>
    /\ UNCHANGED <<row, emission, redis>>

(* Behind the end of the stream the projection is brought up to it; ahead  *)
(* of it, or without a stream, it is shown as it is.                       *)
ReadLatest(o) ==
    /\ pc[o] = "latest"
    /\ LET h == found[o].hot
           l == Newest(stream)
       IN  \/ /\ stream = {} \/ h.seq > l.seq
              /\ SendState(o, h, FALSE, None)
              /\ UNCHANGED found
           \/ /\ stream # {} /\ h.seq = l.seq
              /\ SendState(o, h, TRUE, l)
              /\ UNCHANGED found
           \/ /\ stream # {} /\ h.seq < l.seq
              /\ found' = [found EXCEPT ![o].last = l]
              /\ pc' = [pc EXCEPT ![o] = "retained"]
              /\ UNCHANGED <<polling, inbox, cursor, view, reached>>
    /\ UNCHANGED <<row, emission, redis>>

(* XRANGE - + COUNT maxlen, of which the entries between the projection    *)
(* and the end of the stream matter.                                       *)
Relevant(o) ==
    {x \in FirstOf(MaxLen, stream) : found[o].hot.seq < x.seq /\ x.seq <= found[o].last.seq}

(* They bridge the two: consecutive, in the order of the stream. *)
Bridges(o) ==
    /\ {x.seq : x \in Relevant(o)} = (found[o].hot.seq + 1) .. found[o].last.seq
    /\ \A x, y \in Relevant(o) : x.id < y.id => x.seq < y.seq

(* Seeded fault: the projection is shown without what it lacks. *)
Replayed_AsIs(o) == found[o].hot

(* The events folded in one after the other: the last lifecycle event of   *)
(* them, if any, gives the status.                                         *)
Replayed(o) ==
    LET S == {x \in Relevant(o) : x.kind # "step"}
        p == IF S = {} THEN found[o].hot
             ELSE LET x == Newest(S) IN Reduce(found[o].hot, x.seq, x.kind)
    IN  [p EXCEPT !.seq = found[o].last.seq, !.content = @ \cup {x.seq : x \in Relevant(o)}]

ReadRetained(o) ==
    /\ pc[o] = "retained"
    /\ IF Bridges(o)
         THEN SendState(o, Replayed(o), TRUE, found[o].last)
         ELSE SendGap(o) /\ UNCHANGED <<inbox, cursor>>
    /\ UNCHANGED <<row, emission, redis, found>>

(* A read of the projection raises: the durable state is all there is; a   *)
(* read of the stream raises: the projection is.                           *)
ResolveRaises(o) ==
    /\ pc[o] \in {"hot", "latest", "retained"}
    /\ LET p == IF pc[o] = "hot" THEN InitialProjection(found[o].status) ELSE found[o].hot
       IN  SendState(o, p, FALSE, None)
    /\ UNCHANGED <<row, emission, redis, found>>

(* The tail: XREAD, with a heartbeat for every read that finds nothing. *)
ReadTail(o) ==
    /\ pc[o] = "tail" /\ inbox[o] = {}
    /\ LET new == FirstOf(ReadCount, {x \in stream : x.id > cursor[o]})
       IN  new # {} /\ inbox' = [inbox EXCEPT ![o] = new]
    /\ UNCHANGED <<row, emission, redis, pc, found, polling, cursor, view, reached>>

TailRaises(o) ==
    /\ pc[o] = "tail" /\ inbox[o] = {}
    /\ view' = [view EXCEPT ![o].end = "unavailable"]
    /\ pc' = [pc EXCEPT ![o] = "returned"]
    /\ UNCHANGED <<row, emission, redis, found, polling, inbox, cursor, reached>>

(* The next entry read: covered already, a gap, or an event frame. *)
Deliver(o) ==
    /\ pc[o] = "tail" /\ inbox[o] # {}
    /\ LET x     == Oldest(inbox[o])
           shown == view[o].shown
       IN  /\ cursor' = [cursor EXCEPT ![o] = x.id]
           /\ \/ /\ x.seq <= shown.seq
                 /\ inbox' = [inbox EXCEPT ![o] = @ \ {x}]
                 /\ UNCHANGED <<pc, polling, view, reached>>
              \/ /\ x.seq > shown.seq + 1
                 /\ SendGap(o)
                 /\ inbox' = [inbox EXCEPT ![o] = {}]
              \/ /\ x.seq = shown.seq + 1
                 /\ view' = [view EXCEPT
                       ![o].shown = Reduce(shown, x.seq, x.kind),
                       ![o].end = IF x.kind \in Ends THEN "terminal" ELSE "none"]
                 /\ pc' = [pc EXCEPT ![o] = IF x.kind \in Ends THEN "returned" ELSE "tail"]
                 /\ inbox' = [inbox EXCEPT ![o] = IF x.kind \in Ends THEN {} ELSE @ \ {x}]
                 /\ reached' = [reached EXCEPT ![o] = IF x.seq > @ THEN x.seq ELSE @]
                 /\ UNCHANGED polling
    /\ UNCHANGED <<row, emission, redis, found>>

-----------------------------------------------------------------------------
Init ==
    /\ status = "pending" /\ producer = "waiting" /\ agent = FALSE /\ outcome = "none"
    /\ emission = [w \in Sinks |-> NoEmission]
    /\ counter = 0 /\ lastId = 0 /\ stream = {} /\ hot = None
    /\ pc = [o \in Observers |-> "detached"]
    /\ found = [o \in Observers |-> Fresh("pending")]
    /\ polling = [o \in Observers |-> FALSE]
    /\ inbox = [o \in Observers |-> {}]
    /\ cursor = [o \in Observers |-> 0]
    /\ view = [o \in Observers |-> NoView]
    /\ reached = [o \in Observers |-> 0]

(* The handler and both sinks, as long as nothing goes wrong. *)
Produce ==
    \/ CommitRunning \/ CommitCancelled
    \/ EmitStarted \/ EmitStep \/ EmitEnd
    \/ \E w \in Sinks : Append(w) \/ Project(w) \/ SaveHot(w) \/ EmitReturns(w)
    \/ RuntimeReturns
    \/ CommitEnd

Observe(o) ==
    \/ ReadDurable(o) \/ ReadHot(o) \/ ReadLatest(o) \/ ReadRetained(o)
    \/ ReadTail(o) \/ Deliver(o)

Client(o) ==
    \/ Attach(o) \/ Detach(o)
    \/ ResolveRaises(o) \/ TailRaises(o)

HealthyNext == Produce \/ Expire \/ \E o \in Observers : Observe(o) \/ Client(o)

(* With cancel requests, as users make them. *)
CancelNext == HealthyNext \/ RuntimeCancelled

(* With failing Redis commands and killed runners too, as long as all      *)
(* tasks of a runtime end with it.                                         *)
FaultyNext == CancelNext \/ Crash \/ \E w \in Sinks : EmitRaises(w)

(* With a runtime that goes on under its successor's feet. *)
Next == FaultyNext \/ RuntimeAbandoned \/ AbandonedRuntimeEnds

HealthySpec == Init /\ [][HealthyNext]_vars
FaultySpec  == Init /\ [][FaultyNext]_vars
Spec        == Init /\ [][Next]_vars

(* The processes are scheduled and Redis answers; a runtime ends (timeouts *)
(* and an iteration limit).  Clients come and go as they like.             *)
Fairness ==
    /\ WF_vars(Produce)
    /\ \A o \in Observers : WF_vars(Observe(o))

FairHealthySpec == HealthySpec /\ Fairness

-----------------------------------------------------------------------------
(* Properties. *)

(* Every variable holds values of its kind. *)
TypeOK ==
    /\ status \in Status
    /\ producer \in {"waiting", "starting", "running", "finishing", "ending", "done", "dead"}
    /\ agent \in BOOLEAN
    /\ outcome \in {"none"} \cup Ends
    /\ emission \in [Sinks -> Emission]
    /\ counter \in Nat /\ lastId \in Nat
    /\ stream \subseteq Entry
    /\ hot \in Projection \cup {None}
    /\ pc \in [Observers -> Places]
    /\ found \in [Observers -> Reading]
    /\ polling \in [Observers -> BOOLEAN]
    /\ inbox \in [Observers -> SUBSET Entry]
    /\ cursor \in [Observers -> Nat]
    /\ view \in [Observers -> View]
    /\ reached \in [Observers -> Nat]

(* Whoever is told that the execution has ended can rely on it: the row    *)
(* has ended that way, whatever was lost on the way to the observer.       *)
EndIsDurable ==
    \A o \in Observers : view[o].shown.status \in Ends => status = view[o].shown.status

(* The stream is in the order of the sequence numbers, each used once: the *)
(* handler's two sinks never publish at the same time.                     *)
StreamInOrder == \A x, y \in stream : x.id < y.id => x.seq < y.seq

(* The projection and the frames contain every event up to their sequence  *)
(* number, however the reads of an observer interleave with the writes.    *)
LosslessView ==
    /\ hot # None => hot.content = 1 .. hot.seq
    /\ \A o \in Observers : view[o].live => view[o].shown.content = 1 .. view[o].shown.seq

(* A client that reconnects is not taken back to a state before the last   *)
(* one it has seen.                                                        *)
NeverGoesBack ==
    [][\A o \in Observers : view'[o] # view[o] /\ view'[o].live
                               => view'[o].shown.seq >= reached[o]]_vars

(* Once the execution has ended observe returns. *)
ObserverReturns ==
    \A o \in Observers : status \in Ends ~> pc[o] \in {"returned", "detached"}

-----------------------------------------------------------------------------
(* Inductive invariants. *)

(* An emission in progress has an event, and a projection to save.         *)
Emitting ==
    \A w \in Sinks :
        /\ emission[w].stage # "none" => emission[w].kind \in Kinds
        /\ emission[w].stage = "save" => emission[w].base # None

(* A resolution in progress has read what it goes on with.                 *)
Resolving ==
    \A o \in Observers :
        /\ pc[o] \in {"latest", "retained"} => found[o].hot # None
        /\ pc[o] = "retained" => found[o].last # None /\ found[o].hot.seq < found[o].last.seq

(* The row follows the handler.                                            *)
Handling ==
    /\ producer = "waiting" => status = "pending"
    /\ producer \in {"starting", "running", "finishing"} => status = "running"
    /\ producer = "finishing" => outcome \in Ends
    /\ producer = "ending" => outcome \in Ends /\ status = outcome

(* An end that is known anywhere, in transit or stored, is the row's.      *)
Holds(s) == s \in Ends => status = s

Truthful ==
    /\ \A x \in stream : Holds(x.kind)
    /\ hot # None => Holds(hot.status)
    /\ \A w \in Sinks :
          /\ Holds(emission[w].kind)
          /\ emission[w].base # None => Holds(emission[w].base.status)
    /\ \A o \in Observers :
          /\ Holds(found[o].status)
          /\ found[o].hot # None => Holds(found[o].hot.status)
          /\ \A x \in inbox[o] : Holds(x.kind)
          /\ Holds(view[o].shown.status)

(* No entry has an id that has not been given out.                         *)
Numbered == \A x \in stream : x.id <= lastId

IInv == TypeOK /\ Emitting /\ Resolving /\ Handling /\ Truthful /\ Numbered

(* Without an abandoned runtime one emission is in progress at a time, and *)
(* its number is above all in the stream until it is there itself.         *)
OneAtATime ==
    /\ agent => producer = "running"
    /\ ~Idle("runtime") => producer = "running"
    /\ ~Idle("lifecycle") => producer \in {"starting", "ending"}

InOrder ==
    /\ \A x \in stream : x.seq <= counter
    /\ \A w \in Sinks : emission[w].stage = "append" =>
          /\ emission[w].seq <= counter
          /\ \A x \in stream : x.seq < emission[w].seq

Ordered == IInv /\ OneAtATime /\ InOrder /\ StreamInOrder

(* What observers have shown, are about to show or have read does not      *)
(* outrun the stream, unless that is gone and nothing will follow.         *)
Known(n) ==
    \/ n = 0
    \/ \E x \in stream : n <= x.seq
    \/ stream = {} /\ producer \in {"done", "dead"}

Follows(o) ==
    /\ Known(reached[o])
    /\ \A x \in inbox[o] : Known(x.seq)
    /\ pc[o] = "retained" => Known(found[o].last.seq) /\ reached[o] <= found[o].last.seq
    /\ pc[o] = "tail" => reached[o] <= view[o].shown.seq
    /\ view[o].live => pc[o] \in {"tail", "returned", "detached"}

Abreast ==
    /\ \A x, y \in stream : x.id = y.id => x = y
    /\ \A o \in Observers : Follows(o)

(* While nothing is cut off the projection is one event behind during an   *)
(* emission and complete between emissions.                                *)
Complete(p) == p.content = 1 .. p.seq

HotSeq == IF hot = None THEN 0 ELSE hot.seq

Current ==
    /\ hot # None => Complete(hot)
    /\ (\A w \in Sinks : Idle(w)) /\ producer # "done" => HotSeq = counter
    /\ \A w \in Sinks :
          /\ ~Idle(w) => emission[w].seq = counter
          /\ emission[w].stage \in {"append", "project", "save"} => HotSeq + 1 = counter
          /\ emission[w].stage = "save" => emission[w].base.seq + 1 = counter /\ Complete(emission[w].base)
          /\ emission[w].stage = "trace" => HotSeq = counter

(* What the observers hold is complete, too. *)
Watched ==
    \A o \in Observers :
        /\ found[o].hot # None => Complete(found[o].hot)
        /\ pc[o] = "tail" \/ view[o].live => Complete(view[o].shown)

Lossless == Ordered /\ producer # "dead" /\ Current /\ Watched

=============================================================================
