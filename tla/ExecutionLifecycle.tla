------------------------- MODULE ExecutionLifecycle -------------------------
(***************************************************************************)
(* The durable life of an execution: accepted by the API together with its *)
(* outbox message, claimed and run by one of several runner processes,     *)
(* cancelled or deleted by API requests that run concurrently with them.   *)
(*                                                                         *)
(* PostgreSQL runs at READ COMMITTED and the rows carry no version: every  *)
(* unit of work reads a row, decides on what it read, and writes back      *)
(* without looking again.  A unit of work whose decision rests on a row    *)
(* another transaction may change is therefore two actions here, a read    *)
(* that remembers what it saw and a commit that uses it.                   *)
(***************************************************************************)
EXTENDS Naturals, FiniteSets

CONSTANTS
    Executions,     \* identifiers of execution rows; the outbox message of an
                    \* execution is identified by its aggregate_id
    Sessions,       \* identifiers of session rows
    Runners,        \* runner processes (RUNNER_ID survives a restart)
    Clients,        \* API requests in flight at the same time
    BatchSize,      \* settings.outbox_batch_size
    MaxAttempts,    \* settings.outbox_max_attempts
    NoExecution,    \* no message in hand
    NoRunner        \* locked_by IS NULL

ASSUME ConstantsAssumption ==
    /\ BatchSize \in Nat \ {0}
    /\ MaxAttempts \in Nat \ {0}
    /\ NoExecution \notin Executions
    /\ NoRunner \notin Runners

VARIABLES
    sessions,   \* session rows: "none", "live" or "deleted"
    members,    \* members[s]: executions whose session_id is s
    status,     \* execution rows; "none" before the insert, "deleted" after the cascade
    order,      \* created_at of the outbox message, as a rank
    accepted,   \* how many executions were ever accepted
    outbox,     \* status of the outbox message of each execution
    attempts,   \* its attempts column
    delayed,    \* available_at lies in the future
    lockedBy,   \* its locked_by column
    request,    \* the API request each client has in flight
    pc,         \* where ExecutionConsumer stands in each runner
    batch,      \* messages claimed and not yet settled by consume_once
    current,    \* the message in hand
    seen,       \* the status the unit of work in progress has read
    watch,      \* _wait_for_cancellation: "polling", "yes", "no" or "raised"
    outcome,    \* how the runtime task ended, then what is to be persisted
    running,    \* executions whose runtime task is alive in each runner
    asked,      \* history: executions whose cancellation was recorded
    started,    \* history: how often a runtime task was created
    events      \* terminal lifecycle events the runners got published

dbVars     == <<sessions, members, status, order, accepted>>
outboxVars == <<outbox, attempts, delayed, lockedBy>>
taskVars   == <<pc, batch, current, seen, watch, outcome, running>>
history    == <<asked, started, events>>
vars       == <<dbVars, outboxVars, request, taskVars, history>>

-----------------------------------------------------------------------------
(* Row statuses. *)

Terminal  == {"cancelled", "completed", "failed"}
Active    == {"pending", "running", "cancel_requested"}
RowStatus == Active \cup Terminal \cup {"none", "deleted"}
Settled   == {"processed", "failed", "deleted"}
OutboxRow == {"none", "pending", "processing"} \cup Settled

Exists(e) == status[e] \in Active \cup Terminal

(* ExecutionRepository: the status each operation leaves, as a function of *)
(* the status it read.  A guard that returns early leaves what it read.    *)
MarkRunning(s)   == IF s \in {"cancel_requested"} \cup Terminal THEN s ELSE "running"
RequestCancel(s) == IF s \in Terminal THEN s ELSE "cancel_requested"
MarkCancelled(s) == IF s \in Terminal THEN s ELSE "cancelled"
MarkCompleted(s) == IF s \in {"cancel_requested"} \cup Terminal THEN s ELSE "completed"
MarkFailed(s)    == IF s \in {"cancel_requested"} \cup Terminal THEN s ELSE "failed"

(* What a handler persists for the outcome o over the status s it read; a  *)
(* missing row is skipped, a success over a cancellation is a cancellation *)
(* with a partial answer.                                                  *)
Finalised(o, s) ==
    CASE s = "deleted"    -> s
      [] o = "cancelled"  -> MarkCancelled(s)
      [] o = "failed"     -> MarkFailed(s)
      [] OTHER            -> IF s = "cancel_requested" THEN MarkCancelled(s)
                                                       ELSE MarkCompleted(s)

(* Seeded fault: publish what was attempted rather than what was persisted. *)
FinalEvent_Attempted(o, s) == o

FinalEvent(o, s) == IF o = "completed" /\ s = "cancel_requested" THEN "cancelled" ELSE o

(* The ORM writes the status column only when it changed what it read, and *)
(* the UPDATE names nothing but the row's id.                              *)
Save(e, old, new)    == status' = IF new = old THEN status ELSE [status EXCEPT ![e] = new]

(* That UPDATE matches no row once the row is gone: StaleDataError.        *)
RowGone(e, old, new) == new # old /\ status[e] = "deleted"

(* Seeded fault: only the final status is watched for. *)
CancelObserved_Persisted(s) == s = "cancelled"

(* _is_cancel_requested, and the answer yes of _wait_for_cancellation. *)
CancelObserved(s) == s \in {"cancel_requested", "cancelled"}

(* Seeded faults: a failure is released for retry; a failure is            *)
(* acknowledged as processed; the cancel path forgets the message.         *)
SettledAs_Requeue(o) == IF o = "failed" THEN "pending" ELSE "processed"
SettledAs_Acknowledge(o) == "processed"
SettledAs_Forgets(o) == CASE o = "failed" -> "failed" [] o = "cancelled" -> "processing" [] OTHER -> "processed"

(* OutboxRepository.mark_failed for a failure, mark_processed otherwise. *)
SettledAs(o) == IF o = "failed" THEN "failed" ELSE "processed"

-----------------------------------------------------------------------------
(* The API. *)

NoRequest == [op |-> "none"]

Request ==
    {NoRequest}
      \cup [op : {"cancel"}, execution : Executions, seen : RowStatus]
      \cup [op : {"delete_checked"}, session : Sessions]
      \cup [op : {"delete_listed"}, session : Sessions, ids : SUBSET Executions]

(* Execution(PENDING) and its outbox message, in one transaction. *)
Insert(s, e) ==
    /\ status[e] = "none"
    /\ status' = [status EXCEPT ![e] = "pending"]
    /\ members' = [members EXCEPT ![s] = @ \cup {e}]
    /\ accepted' = accepted + 1
    /\ order' = [order EXCEPT ![e] = accepted]
    /\ outbox' = [outbox EXCEPT ![e] = "pending"]
    /\ UNCHANGED <<attempts, delayed, lockedBy, request, taskVars, history>>

(* POST /sessions: a session without an execution. *)
CreateSession(s) ==
    /\ sessions[s] = "none"
    /\ sessions' = [sessions EXCEPT ![s] = "live"]
    /\ UNCHANGED <<members, status, order, accepted, outboxVars, request, taskVars, history>>

(* POST /sessions/start. *)
StartSession(s, e) ==
    /\ sessions[s] = "none"
    /\ sessions' = [sessions EXCEPT ![s] = "live"]
    /\ Insert(s, e)

(* POST /sessions/{id}/executions; the foreign key fails the transaction   *)
(* when the session has gone.                                              *)
CreateExecution(s, e) ==
    /\ sessions[s] = "live"
    /\ Insert(s, e)
    /\ UNCHANGED sessions

(* POST /executions/{id}/cancel: read the row, ... *)
CancelRead(c, e) ==
    /\ request[c] = NoRequest
    /\ Exists(e)
    /\ request' = [request EXCEPT ![c] = [op |-> "cancel", execution |-> e, seen |-> status[e]]]
    /\ UNCHANGED <<dbVars, outboxVars, taskVars, history>>

(* ... request_cancel on what was read, commit; a vanished row is a 500.   *)
CancelCommit(c) ==
    /\ request[c].op = "cancel"
    /\ LET e   == request[c].execution
           old == request[c].seen
           new == RequestCancel(old)
       IN  IF RowGone(e, old, new)
             THEN UNCHANGED <<status, asked>>
             ELSE /\ Save(e, old, new)
                  /\ asked' = IF new = "cancel_requested" THEN asked \cup {e} ELSE asked
    /\ request' = [request EXCEPT ![c] = NoRequest]
    /\ UNCHANGED <<sessions, members, order, accepted, outboxVars, taskVars, started, events>>

(* DELETE /sessions/{id}: 404 and 409, then the ids, then both DELETEs.    *)
DeleteCheck(c, s) ==
    /\ request[c] = NoRequest
    /\ sessions[s] = "live"
    /\ \A e \in members[s] : status[e] \notin Active
    /\ request' = [request EXCEPT ![c] = [op |-> "delete_checked", session |-> s]]
    /\ UNCHANGED <<dbVars, outboxVars, taskVars, history>>

DeleteList(c) ==
    /\ request[c].op = "delete_checked"
    /\ LET s == request[c].session
       IN  request' = [request EXCEPT ![c] =
               [op |-> "delete_listed", session |-> s,
                ids |-> {e \in members[s] : Exists(e)}]]
    /\ UNCHANGED <<dbVars, outboxVars, taskVars, history>>

DeleteCommit(c) ==
    /\ request[c].op = "delete_listed"
    /\ LET s == request[c].session
       IN  /\ sessions' = [sessions EXCEPT ![s] = "deleted"]
           /\ status' = [e \in Executions |-> IF e \in members[s] THEN "deleted" ELSE status[e]]
           /\ outbox' = [e \in Executions |->
                            IF e \in request[c].ids THEN "deleted" ELSE outbox[e]]
    /\ request' = [request EXCEPT ![c] = NoRequest]
    /\ UNCHANGED <<members, order, accepted, attempts, delayed, lockedBy, taskVars, history>>

-----------------------------------------------------------------------------
(* The runner: ExecutionConsumer under Worker.run. *)

(* Seeded faults: messages being processed are claimed again; a message    *)
(* released for retry is not.                                              *)
Claimable_Reclaims == {e \in Executions : outbox[e] \in {"pending", "processing"} /\ ~delayed[e]}
Claimable_FirstOnly == {e \in Executions : outbox[e] = "pending" /\ attempts[e] = 0}

Claimable == {e \in Executions : outbox[e] = "pending" /\ ~delayed[e]}

(* The oldest BatchSize of the claimable messages, or all of them. *)
NextBatch(S) ==
    /\ S \subseteq Claimable /\ S # {}
    /\ Cardinality(S) <= BatchSize
    /\ S = Claimable \/ Cardinality(S) = BatchSize
    /\ \A e \in S, f \in Claimable \ S : order[e] <= order[f]

(* claim_batch and its commit; SKIP LOCKED makes it one step. *)
Claim(r) ==
    /\ pc[r] = "idle" /\ batch[r] = {}
    /\ \E S \in SUBSET Claimable :
          /\ NextBatch(S)
          /\ batch' = [batch EXCEPT ![r] = S]
          /\ outbox' = [e \in Executions |-> IF e \in S THEN "processing" ELSE outbox[e]]
          /\ attempts' = [e \in Executions |-> IF e \in S THEN attempts[e] + 1 ELSE attempts[e]]
          /\ lockedBy' = [e \in Executions |-> IF e \in S THEN r ELSE lockedBy[e]]
    /\ UNCHANGED <<dbVars, delayed, request, pc, current, seen, watch, outcome, running, history>>

(* The for loop of consume_once takes the messages in the order claimed. *)
NextMessage(r, e) ==
    /\ pc[r] = "idle"
    /\ e \in batch[r]
    /\ \A f \in batch[r] : order[e] <= order[f]

(* Seeded fault: one attempt too many. *)
OutOfAttempts_OffByOne(e) == attempts[e] > MaxAttempts

OutOfAttempts(e) == attempts[e] >= MaxAttempts

(* The execution does not exist: give up at MaxAttempts, else retry later. *)
HandleMissing(r, e) ==
    /\ NextMessage(r, e)
    /\ status[e] = "deleted"
    /\ batch' = [batch EXCEPT ![r] = @ \ {e}]
    /\ IF outbox[e] = "deleted"
         THEN UNCHANGED <<outbox, delayed, lockedBy>>
         ELSE /\ lockedBy' = [lockedBy EXCEPT ![e] = NoRunner]
              /\ IF OutOfAttempts(e)
                   THEN /\ outbox' = [outbox EXCEPT ![e] = "failed"]
                        /\ UNCHANGED delayed
                   ELSE /\ outbox' = [outbox EXCEPT ![e] = "pending"]
                        /\ delayed' = [delayed EXCEPT ![e] = TRUE]
    /\ UNCHANGED <<dbVars, attempts, request, pc, current, seen, watch, outcome, running, history>>

(* The retry delay runs out. *)
DelayElapses(e) ==
    /\ outbox[e] = "pending" /\ delayed[e]
    /\ delayed' = [delayed EXCEPT ![e] = FALSE]
    /\ UNCHANGED <<dbVars, outbox, attempts, lockedBy, request, taskVars, history>>

(* First read of the row: a cancelled execution is closed without running. *)
ReadExecution(r, e) ==
    /\ NextMessage(r, e)
    /\ Exists(e)
    /\ current' = [current EXCEPT ![r] = e]
    /\ seen' = [seen EXCEPT ![r] = status[e]]
    /\ IF status[e] = "cancel_requested"
         THEN /\ pc' = [pc EXCEPT ![r] = "commit"]
              /\ outcome' = [outcome EXCEPT ![r] = "cancelled"]
         ELSE /\ pc' = [pc EXCEPT ![r] = "checked"]
              /\ UNCHANGED outcome
    /\ UNCHANGED <<dbVars, outboxVars, request, batch, watch, running, history>>

(* The process ends and is restarted: every task and local is gone, the    *)
(* claimed messages stay "processing" in the outbox.                       *)
Dies(r) ==
    /\ pc' = [pc EXCEPT ![r] = "idle"]
    /\ batch' = [batch EXCEPT ![r] = {}]
    /\ current' = [current EXCEPT ![r] = NoExecution]
    /\ seen' = [seen EXCEPT ![r] = "none"]
    /\ watch' = [watch EXCEPT ![r] = "none"]
    /\ outcome' = [outcome EXCEPT ![r] = "none"]
    /\ running' = [running EXCEPT ![r] = {}]
    /\ UNCHANGED <<dbVars, outboxVars, request, history>>

(* mark_running and its commit. *)
CommitRunning(r) ==
    /\ pc[r] = "checked"
    /\ LET e   == current[r]
           new == MarkRunning(seen[r])
       IN  /\ ~RowGone(e, seen[r], new)
           /\ Save(e, seen[r], new)
    /\ pc' = [pc EXCEPT ![r] = "launch"]
    /\ UNCHANGED <<sessions, members, order, accepted, outboxVars, request,
                   batch, current, seen, watch, outcome, running, history>>

(* EXECUTION_STARTED is emitted, or lost with its error swallowed (see     *)
(* Observation); then the runtime and its watcher start, unless the        *)
(* factory raises.                                                         *)
Launch(r) ==
    /\ pc[r] = "launch"
    /\ \/ /\ running' = [running EXCEPT ![r] = @ \cup {current[r]}]
          /\ started' = [started EXCEPT ![current[r]] = @ + 1]
          /\ watch' = [watch EXCEPT ![r] = "polling"]
          /\ pc' = [pc EXCEPT ![r] = "racing"]
       \/ /\ pc' = [pc EXCEPT ![r] = "except"]
          /\ UNCHANGED <<running, started, watch>>
    /\ UNCHANGED <<dbVars, outboxVars, request, batch, current, seen, outcome, asked, events>>

(* A runtime task returns an answer or raises.  Only the one being awaited *)
(* is heard.                                                               *)
RuntimeEnds(r, e) ==
    /\ e \in running[r]
    /\ running' = [running EXCEPT ![r] = @ \ {e}]
    /\ IF e = current[r] /\ pc[r] \in {"racing", "awaiting"}
         THEN \E o \in {"completed", "failed"} : outcome' = [outcome EXCEPT ![r] = o]
         ELSE UNCHANGED outcome
    /\ UNCHANGED <<dbVars, outboxVars, request, pc, batch, current, seen, watch, history>>

(* A poll of _wait_for_cancellation that ends the loop. *)
Poll(r) ==
    /\ pc[r] = "racing" /\ watch[r] = "polling"
    /\ \/ /\ CancelObserved(status[current[r]])
          /\ watch' = [watch EXCEPT ![r] = "yes"]
       \/ /\ status[current[r]] \in {"completed", "failed", "deleted"}
          /\ watch' = [watch EXCEPT ![r] = "no"]
    /\ UNCHANGED <<dbVars, outboxVars, request, pc, batch, current, seen, outcome, running, history>>

(* The query of a poll raises (the database is out of reach). *)
PollFails(r) ==
    /\ pc[r] = "racing" /\ watch[r] = "polling"
    /\ watch' = [watch EXCEPT ![r] = "raised"]
    /\ UNCHANGED <<dbVars, outboxVars, request, pc, batch, current, seen, outcome, running, history>>

(* Seeded fault: the runtime task is left alone. *)
AfterCancel_Detached(r) == running[r]

(* runtime_task.cancel(), awaited: of the tasks of r, this one is over. *)
AfterCancel(r) == running[r] \ {current[r]}

(* asyncio.wait returned.  A watcher that raised leaves the runtime task   *)
(* alone; a cancellation stops it, and an exception it had already raised  *)
(* surfaces from the await; otherwise the runtime's own end decides, and a *)
(* watcher that gave up leaves the runtime unwatched.  The task of a       *)
(* watcher that raised keeps its exception until the handler returns.      *)
WaitReturns(r) ==
    /\ \/ /\ pc[r] = "racing" /\ watch[r] = "raised"
          /\ pc' = [pc EXCEPT ![r] = "except"]
          /\ outcome' = [outcome EXCEPT ![r] = "none"]
          /\ UNCHANGED running
       \/ /\ pc[r] = "racing" /\ watch[r] = "yes" /\ outcome[r] # "failed"
          /\ pc' = [pc EXCEPT ![r] = "finish"]
          /\ outcome' = [outcome EXCEPT ![r] = "cancelled"]
          /\ running' = [running EXCEPT ![r] = AfterCancel(r)]
       \/ /\ pc[r] = "racing" /\ watch[r] = "no" /\ outcome[r] = "none"
          /\ pc' = [pc EXCEPT ![r] = "awaiting"]
          /\ UNCHANGED <<outcome, running>>
       \/ /\ pc[r] \in {"racing", "awaiting"} /\ outcome[r] = "failed"
          /\ watch[r] # "raised"
          /\ pc' = [pc EXCEPT ![r] = "except"]
          /\ outcome' = [outcome EXCEPT ![r] = "none"]
          /\ UNCHANGED running
       \/ /\ pc[r] \in {"racing", "awaiting"} /\ outcome[r] = "completed"
          /\ watch[r] \notin {"yes", "raised"}
          /\ pc' = [pc EXCEPT ![r] = "finish"]
          /\ UNCHANGED <<outcome, running>>
    /\ watch' = [watch EXCEPT ![r] = IF @ = "raised" THEN @ ELSE "none"]
    /\ UNCHANGED <<dbVars, outboxVars, request, batch, current, seen, history>>

(* The except branch asks whether the failure was a cancellation. *)
CheckCancel(r) ==
    /\ pc[r] = "except"
    /\ outcome' = [outcome EXCEPT ![r] =
          IF CancelObserved(status[current[r]]) THEN "cancelled" ELSE "failed"]
    /\ pc' = [pc EXCEPT ![r] = "finish"]
    /\ UNCHANGED <<dbVars, outboxVars, request, batch, current, seen, watch, running, history>>

(* The final unit of work reads the row again ... *)
FinishRead(r) ==
    /\ pc[r] = "finish"
    /\ seen' = [seen EXCEPT ![r] = status[current[r]]]
    /\ pc' = [pc EXCEPT ![r] = "commit"]
    /\ UNCHANGED <<dbVars, outboxVars, request, batch, current, watch, outcome, running, history>>

(* ... and persists the outcome and the end of the message together. *)
FinishCommit(r) ==
    /\ pc[r] = "commit"
    /\ LET e   == current[r]
           new == Finalised(outcome[r], seen[r])
       IN  /\ ~RowGone(e, seen[r], new)
           /\ Save(e, seen[r], new)
           /\ IF outbox[e] = "deleted"
                THEN UNCHANGED <<outbox, lockedBy>>
                ELSE /\ outbox' = [outbox EXCEPT ![e] = SettledAs(outcome[r])]
                     /\ lockedBy' = [lockedBy EXCEPT ![e] = NoRunner]
           /\ batch' = [batch EXCEPT ![r] = @ \ {e}]
    /\ outcome' = [outcome EXCEPT ![r] = FinalEvent(outcome[r], seen[r])]
    /\ pc' = [pc EXCEPT ![r] = "emit"]
    /\ UNCHANGED <<sessions, members, order, accepted, attempts, delayed, request,
                   current, seen, watch, running, history>>

(* Either unit of work meets a row a session delete has cascaded over: the *)
(* StaleDataError leaves consume_once and Worker.run, and the process ends. *)
RowVanished(r) ==
    /\ \/ pc[r] = "checked" /\ RowGone(current[r], seen[r], MarkRunning(seen[r]))
       \/ pc[r] = "commit" /\ RowGone(current[r], seen[r], Finalised(outcome[r], seen[r]))
    /\ Dies(r)

(* The terminal lifecycle event, published or lost with its error swallowed. *)
Emit(r) ==
    /\ pc[r] = "emit"
    /\ \E published \in {{}, {outcome[r]}} :
          events' = [events EXCEPT ![current[r]] = @ \cup published]
    /\ pc' = [pc EXCEPT ![r] = "idle"]
    /\ current' = [current EXCEPT ![r] = NoExecution]
    /\ seen' = [seen EXCEPT ![r] = "none"]
    /\ outcome' = [outcome EXCEPT ![r] = "none"]
    /\ watch' = [watch EXCEPT ![r] = "none"]
    /\ UNCHANGED <<dbVars, outboxVars, request, batch, running, asked, started>>

(* A kill, or an error of the database outside the handler's try block. *)
Crash(r) ==
    /\ pc[r] # "idle" \/ batch[r] # {} \/ running[r] # {}
    /\ Dies(r)

-----------------------------------------------------------------------------
Init ==
    /\ sessions = [s \in Sessions |-> "none"]
    /\ members = [s \in Sessions |-> {}]
    /\ status = [e \in Executions |-> "none"]
    /\ order = [e \in Executions |-> 0]
    /\ accepted = 0
    /\ outbox = [e \in Executions |-> "none"]
    /\ attempts = [e \in Executions |-> 0]
    /\ delayed = [e \in Executions |-> FALSE]
    /\ lockedBy = [e \in Executions |-> NoRunner]
    /\ request = [c \in Clients |-> NoRequest]
    /\ pc = [r \in Runners |-> "idle"]
    /\ batch = [r \in Runners |-> {}]
    /\ current = [r \in Runners |-> NoExecution]
    /\ seen = [r \in Runners |-> "none"]
    /\ watch = [r \in Runners |-> "none"]
    /\ outcome = [r \in Runners |-> "none"]
    /\ running = [r \in Runners |-> {}]
    /\ asked = {}
    /\ started = [e \in Executions |-> 0]
    /\ events = [e \in Executions |-> {}]

Accept ==
    \E s \in Sessions :
        \/ CreateSession(s)
        \/ \E e \in Executions : StartSession(s, e) \/ CreateExecution(s, e)

Cancel == \E c \in Clients : CancelCommit(c) \/ \E e \in Executions : CancelRead(c, e)

Delete ==
    \E c \in Clients :
        \/ DeleteList(c)
        \/ DeleteCommit(c)
        \/ \E s \in Sessions : DeleteCheck(c, s)

(* One uninterrupted step of the consumer in runner r. *)
Consume(r) ==
    \/ Claim(r)
    \/ \E e \in Executions : HandleMissing(r, e) \/ ReadExecution(r, e)
    \/ CommitRunning(r)
    \/ Launch(r)
    \/ WaitReturns(r)
    \/ CheckCancel(r)
    \/ FinishRead(r)
    \/ FinishCommit(r)
    \/ RowVanished(r)
    \/ Emit(r)

Runner(r) ==
    \/ Consume(r)
    \/ Poll(r)
    \/ \E e \in Executions : RuntimeEnds(r, e)

Fault(r) == PollFails(r) \/ Crash(r)

Next ==
    \/ Accept
    \/ Cancel
    \/ Delete
    \/ \E e \in Executions : DelayElapses(e)
    \/ \E r \in Runners : Runner(r) \/ Fault(r)

Spec == Init /\ [][Next]_vars

-----------------------------------------------------------------------------
(* Fairness: the asyncio loops keep turning while the process lives, the   *)
(* database answers and delays run out.  Users, kills and outages are      *)
(* under no obligation, and a runtime may hang for ever.                   *)
ConsumerFairness ==
    /\ \A r \in Runners : WF_vars(Consume(r)) /\ WF_vars(Poll(r))
    /\ \A e \in Executions : WF_vars(DelayElapses(e))

FairSpec == Spec /\ ConsumerFairness

(* A runtime ends: its LLM calls and queries have timeouts, its iterations *)
(* a limit.                                                                *)
RuntimeFairness ==
    \A r \in Runners : WF_vars(\E e \in Executions : RuntimeEnds(r, e))

-----------------------------------------------------------------------------
(* Properties. *)

(* Every variable holds values of its kind. *)
TypeOK ==
    /\ sessions \in [Sessions -> {"none", "live", "deleted"}]
    /\ members \in [Sessions -> SUBSET Executions]
    /\ status \in [Executions -> RowStatus]
    /\ order \in [Executions -> Nat]
    /\ accepted \in Nat
    /\ outbox \in [Executions -> OutboxRow]
    /\ attempts \in [Executions -> Nat]
    /\ delayed \in [Executions -> BOOLEAN]
    /\ lockedBy \in [Executions -> Runners \cup {NoRunner}]
    /\ request \in [Clients -> Request]
    /\ pc \in [Runners -> {"idle", "checked", "launch", "racing", "awaiting",
                           "except", "finish", "commit", "emit"}]
    /\ batch \in [Runners -> SUBSET Executions]
    /\ current \in [Runners -> Executions \cup {NoExecution}]
    /\ seen \in [Runners -> RowStatus]
    /\ watch \in [Runners -> {"none", "polling", "yes", "no", "raised"}]
    /\ outcome \in [Runners -> {"none"} \cup Terminal]
    /\ running \in [Runners -> SUBSET Executions]
    /\ asked \subseteq Executions
    /\ started \in [Executions -> Nat]
    /\ events \in [Executions -> SUBSET Terminal]

(* Two runners never hold the same message, and a runner that holds one is *)
(* the one the row names, through crashes, retries and deletions: what the *)
(* claim of claim_batch is for.                                            *)
SingleOwner ==
    /\ \A r \in Runners : \A e \in batch[r] :
          \/ outbox[e] = "deleted"
          \/ outbox[e] = "processing" /\ lockedBy[e] = r
    /\ \A r1, r2 \in Runners : r1 # r2 => batch[r1] \cap batch[r2] = {}

(* The agent runs at most once for an execution, whatever crashes, fails   *)
(* or is retried: a failure "must not loop" (_mark_terminal_failure).      *)
RunsAtMostOnce == \A e \in Executions : started[e] <= 1

(* The message and the execution end in one transaction and agree on how:  *)
(* a closed message never leaves an execution waiting or running, and an   *)
(* execution never ends while its message could be claimed again.  (A      *)
(* cancel request that read the row too early may still reopen it.)        *)
OutboxMatchesExecution ==
    \A e \in Executions :
        /\ outbox[e] = "processed" => status[e] \in {"completed", "cancelled",
                                                     "cancel_requested", "deleted"}
        /\ outbox[e] = "failed" => status[e] \in {"failed", "cancel_requested", "deleted"}
        /\ status[e] \in Terminal => outbox[e] \in Settled

(* Observers are told of one end at most, after it is durable, and of the  *)
(* end that was persisted (unless a late cancel or a delete came over it). *)
TerminalEventIsDurable ==
    \A e \in Executions : \A k \in events[e] :
        /\ outbox[e] \in Settled
        /\ status[e] \in {k, "cancel_requested", "deleted"}
        /\ events[e] = {k}

(* The runner persists CANCELLED only for an execution somebody cancelled. *)
CancelledOnlyOnRequest ==
    \A e \in Executions : status[e] = "cancelled" => e \in asked

(* Retries of a message whose execution vanished stop at MaxAttempts. *)
AttemptsBounded == \A e \in Executions : attempts[e] <= MaxAttempts

(* A persisted outcome is never replaced by another one nor by RUNNING:    *)
(* only a cancel request that read the row before may come over it.        *)
OutcomeStands ==
    [][\A e \in Executions :
          status[e] \in Terminal => status'[e] \in {status[e], "cancel_requested", "deleted"}]_vars

(* A message out of every live runner's hands. *)
Lost(e) == outbox[e] = "processing" /\ \A r \in Runners : e \notin batch[r]

(* No early return, exception or retry of the handler drops a message it   *)
(* has claimed: only the end of the process that holds it does.            *)
NothingStranded ==
    [][\A e \in Executions :
          ~Lost(e) /\ Lost(e)' => \E r \in Runners : e \in batch[r] /\ Dies(r)]_vars

(* An execution does not end while its agent is still at work, whether it  *)
(* completes, fails or is cancelled, except in a handler whose watcher     *)
(* raised: that one leaves the runtime task alone.                         *)
RuntimeEndsFirst ==
    [][\A r \in Runners : \A e \in running[r] :
          status[e] \notin Terminal /\ status'[e] \in Terminal
              => current[r] = e /\ watch[r] = "raised"]_vars

(* If runtimes end, every accepted message is eventually claimed and       *)
(* closed, also those of deleted executions that are retried, unless its   *)
(* runner died holding it.                                                 *)
EveryMessageCloses ==
    RuntimeFairness =>
        \A e \in Executions : outbox[e] = "pending" ~> (outbox[e] \in Settled \/ Lost(e))

(* A cancel recorded while the agent runs stops it even if it never would  *)
(* have returned: the watcher frees the runner for the next message.       *)
CancelFreesRunner ==
    \A e \in Executions, r \in Runners :
        (current[r] = e /\ pc[r] = "racing" /\ status[e] = "cancel_requested")
            ~> current[r] # e

-----------------------------------------------------------------------------
(* The abstract specification: jobs are the outbox messages, work on them  *)
(* the runtime tasks, announcements the terminal lifecycle events.         *)

JobOf(e) ==
    CASE outbox[e] = "pending"    -> "queued"
      [] outbox[e] = "processing" -> "taken"
      [] outbox[e] = "deleted"    -> "withdrawn"
      [] OTHER                    -> outbox[e]

J == INSTANCE Job WITH
        Jobs <- Executions,
        job  <- [e \in Executions |-> JobOf(e)],
        runs <- started,
        told <- events

(* Whatever crashes, is lost, retried, cancelled or deleted, the tables    *)
(* and the events show the life of a job: closed for good, worked on once  *)
(* at most, given back only unworked, its end told once and as it was.     *)
ImplementsJob == J!Spec

-----------------------------------------------------------------------------
(* The inductive invariant: what has to be known besides the properties    *)
(* above for every step to preserve them.                                  *)

(* A busy runner has a message in hand; until it is settled the message is *)
(* of its batch, and from "finish" on there is an outcome to persist.      *)
InHand ==
    \A r \in Runners :
        /\ pc[r] = "idle" => current[r] = NoExecution
        /\ pc[r] # "idle" => current[r] \in Executions
        /\ pc[r] \notin {"idle", "emit"} => current[r] \in batch[r]
        /\ pc[r] = "emit" => current[r] \notin batch[r]
        /\ pc[r] \in {"finish", "commit", "emit"} => outcome[r] \in Terminal

(* Ownership extends to the message whose last event is being published.   *)
Owned ==
    /\ SingleOwner
    /\ \A r \in Runners : current[r] \in Executions => outbox[current[r]] \notin {"none", "pending"}
    /\ \A r1, r2 \in Runners : r1 # r2 =>
          /\ current[r1] \notin batch[r2]
          /\ current[r1] \in Executions => current[r1] # current[r2]

(* What nobody has taken up yet has not run, nor ended for its observers.  *)
Fresh ==
    \A e \in Executions :
        /\ outbox[e] \in {"none", "pending"} => started[e] = 0 /\ events[e] = {}
        /\ \A r \in Runners : e \in batch[r] =>
              /\ events[e] = {}
              /\ e # current[r] \/ pc[r] \in {"checked", "launch"} => started[e] = 0

(* Execution and message: which pairs of statuses there are. *)
Rows ==
    \A e \in Executions :
        /\ status[e] = "none" <=> outbox[e] = "none"
        /\ outbox[e] = "deleted" => status[e] = "deleted"
        /\ status[e] = "pending" => outbox[e] \in {"pending", "processing"}
        /\ status[e] = "running" => outbox[e] = "processing"
        /\ status[e] \in {"completed", "cancelled"} => outbox[e] = "processed"
        /\ status[e] = "failed" => outbox[e] = "failed"

(* What the requests in flight remember was once there. *)
Requests ==
    /\ \A s \in Sessions : \A e \in members[s] : status[e] # "none"
    /\ \A c \in Clients :
          /\ request[c].op = "cancel" => /\ request[c].seen \in Active \cup Terminal
                                         /\ status[request[c].execution] # "none"
          /\ request[c].op = "delete_listed" => request[c].ids \subseteq members[request[c].session]

(* What a runner read before its commit: only a cancel may have come       *)
(* between, and a cancel or a delete once read is still there.             *)
Reads ==
    \A r \in Runners :
        /\ pc[r] = "checked" => seen[r] \in {"pending", "running"}
        /\ pc[r] = "commit" =>
              /\ seen[r] \in Active \cup {"deleted"}
              /\ seen[r] = "deleted" => status[current[r]] = "deleted"
              /\ seen[r] = "cancel_requested" =>
                    status[current[r]] \in {"cancel_requested", "deleted"}

(* Whoever heads for CANCELLED has seen a request. *)
Asked ==
    /\ \A e \in Executions : status[e] \in {"cancel_requested", "cancelled"} => e \in asked
    /\ \A r \in Runners :
          (\/ pc[r] = "racing" /\ watch[r] = "yes"
           \/ pc[r] \in {"finish", "commit"} /\ outcome[r] = "cancelled"
           \/ pc[r] = "commit" /\ seen[r] = "cancel_requested")
              => current[r] \in asked

(* Between the final commit and its event. *)
Announced ==
    \A r \in Runners : pc[r] = "emit" =>
        /\ events[current[r]] = {}
        /\ outbox[current[r]] \in {SettledAs(outcome[r]), "deleted"}
        /\ status[current[r]] \in {outcome[r], "cancel_requested", "deleted"}

(* A message that may be claimed has an attempt left. *)
Tries ==
    \A e \in Executions :
        /\ outbox[e] = "none" => attempts[e] = 0
        /\ outbox[e] = "pending" => attempts[e] < MaxAttempts

IInv ==
    /\ TypeOK /\ InHand /\ Owned /\ Fresh /\ Rows /\ Requests
    /\ Reads /\ Asked /\ Announced /\ Tries
    /\ RunsAtMostOnce /\ TerminalEventIsDurable /\ AttemptsBounded

(* Where the runtime tasks are: the one a handler awaits is not yet heard  *)
(* of; after the wait only a watcher that raised leaves it at work; the    *)
(* others were left by such a handler, and their message is settled.       *)
Tasks ==
    \A r \in Runners :
        /\ pc[r] \in {"idle", "checked", "launch"} => outcome[r] = "none" /\ watch[r] = "none"
        /\ pc[r] \in {"racing", "awaiting"} /\ outcome[r] # "none" => current[r] \notin running[r]
        /\ \A e \in running[r] :
              \/ e = current[r] /\ (pc[r] \in {"racing", "awaiting"} \/ watch[r] = "raised")
              \/ outbox[e] \in Settled /\ \A q \in Runners : e \notin batch[q]

-----------------------------------------------------------------------------
(* What the repository says of itself and the interleavings above refute.  *)

(* "A runtime failure is terminal for this Execution": the transaction     *)
(* that fails the message leaves the execution terminal.                   *)
FailureIsTerminal ==
    [][\A e \in Executions :
          outbox[e] = "processing" /\ outbox'[e] = "failed"
              => status'[e] \in Terminal \cup {"deleted"}]_vars

=============================================================================
