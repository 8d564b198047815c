---------------------------------- MODULE Job ----------------------------------
(***************************************************************************)
(* What the outbox, the runners and the lifecycle events promise together, *)
(* as the API and an observer see it: a question that was accepted is a    *)
(* job that waits in a queue, is taken from it, worked on at most once,    *)
(* closed for good, and its end is announced at most once and truthfully.  *)
(* Processes, claims, crashes, cancels and retries are not visible here.   *)
(***************************************************************************)
EXTENDS Naturals

CONSTANT Jobs

VARIABLES
    job,    \* where each job stands
    runs,   \* how often the agent was put to work on it
    told    \* the ends that were announced

vars == <<job, runs, told>>

Closed == {"processed", "failed"}
Ends   == {"completed", "cancelled", "failed"}

Init ==
    /\ job = [j \in Jobs |-> "none"]
    /\ runs = [j \in Jobs |-> 0]
    /\ told = [j \in Jobs |-> {}]

Moves(S, to) ==
    /\ job' = [j \in Jobs |-> IF j \in S THEN to ELSE job[j]]
    /\ UNCHANGED <<runs, told>>

Accept(j) == job[j] = "none" /\ Moves({j}, "queued")

(* A runner takes some of the waiting jobs at a time. *)
Take(S) == (\A j \in S : job[j] = "queued") /\ Moves(S, "taken")

(* A job that turned out to have no execution waits for another try. *)
Requeue(j) == job[j] = "taken" /\ runs[j] = 0 /\ Moves({j}, "queued")

(* The agent begins, perhaps on a job just withdrawn. *)
Run(j) ==
    /\ job[j] \in {"taken", "withdrawn"} /\ runs[j] = 0
    /\ runs' = [runs EXCEPT ![j] = 1]
    /\ UNCHANGED <<job, told>>

Close(j) == job[j] = "taken" /\ \E how \in Closed : Moves({j}, how)

(* The session is deleted; what was withdrawn is never worked off. *)
Withdraw(S) == (\A j \in S : job[j] # "none") /\ Moves(S, "withdrawn")

(* Observers are told, once, how a job ended; "failed" is what they are    *)
(* told of the jobs that were closed as failed, and of no other.           *)
Announce(j, end) ==
    /\ job[j] \in Closed \cup {"withdrawn"}
    /\ job[j] \in Closed => (end = "failed" <=> job[j] = "failed")
    /\ told[j] = {}
    /\ told' = [told EXCEPT ![j] = {end}]
    /\ UNCHANGED <<job, runs>>

Next ==
    \/ \E S \in SUBSET Jobs : Take(S) \/ Withdraw(S)
    \/ \E j \in Jobs :
          \/ Accept(j) \/ Requeue(j) \/ Run(j) \/ Close(j)
          \/ \E end \in Ends : Announce(j, end)

Spec == Init /\ [][Next]_vars
=============================================================================
