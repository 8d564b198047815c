---------------------- MODULE ExecutionLifecycle_proofs ----------------------
(***************************************************************************)
(* Proofs about ExecutionLifecycle for every value of its constants: any   *)
(* number of executions, sessions, runners and concurrent API requests.    *)
(* IInv is the inductive invariant; each step below takes one action and   *)
(* shows the conjuncts it can disturb, one by one.                         *)
(***************************************************************************)
EXTENDS ExecutionLifecycle, TLAPS

(* What the fields of an API request in flight can be, by its kind. *)
LEMMA RequestKinds ==
  ASSUME NEW q \in Request
  PROVE  /\ q.op = "cancel" => q.execution \in Executions /\ q.seen \in RowStatus
         /\ q.op = "delete_checked" => q.session \in Sessions
         /\ q.op = "delete_listed" => q.session \in Sessions /\ q.ids \in SUBSET Executions
<1>1. CASE q = NoRequest
  BY <1>1 DEF NoRequest
<1>2. CASE q \in [op : {"cancel"}, execution : Executions, seen : RowStatus]
  BY <1>2
<1>3. CASE q \in [op : {"delete_checked"}, session : Sessions]
  BY <1>3
<1>4. CASE q \in [op : {"delete_listed"}, session : Sessions, ids : SUBSET Executions]
  BY <1>4
<1>5. QED BY <1>1, <1>2, <1>3, <1>4 DEF Request

(* The initial state satisfies the inductive invariant. *)
LEMMA InitIInv == Init => IInv
BY ConstantsAssumption
DEF Init, IInv, TypeOK, RowStatus, Active, OutboxRow, Request, NoRequest, InHand, Owned, SingleOwner,
    Fresh, Rows, Requests, Reads, Asked, Announced, Tries, RunsAtMostOnce, TerminalEventIsDurable,
    AttemptsBounded, Terminal

(* Every action of the API, of the runners and every fault preserves it. *)
LEMMA StepIInv == IInv /\ [Next]_vars => IInv'
<1> SUFFICES ASSUME IInv, [Next]_vars PROVE IInv'
  OBVIOUS
<1> TypeOK /\ InHand /\ Owned /\ Fresh /\ Rows /\ Requests /\ Reads /\ Asked /\ Announced /\ Tries
    /\ RunsAtMostOnce /\ TerminalEventIsDurable /\ AttemptsBounded
  BY DEF IInv
<1> USE ConstantsAssumption DEF dbVars, outboxVars, taskVars, history
<1>1. ASSUME NEW s \in Sessions, CreateSession(s) PROVE IInv'
  <2>1. TypeOK'
    BY <1>1 DEF TypeOK, CreateSession
  <2>2. (InHand /\ Owned /\ Fresh /\ Rows /\ Requests /\ Reads /\ Asked /\ Announced /\ Tries /\
      RunsAtMostOnce /\ TerminalEventIsDurable /\ AttemptsBounded)'
    BY <1>1 DEF CreateSession, InHand, Owned, Fresh, Rows, Requests, Reads, Asked, Announced,
        Tries, RunsAtMostOnce, TerminalEventIsDurable, AttemptsBounded, SingleOwner
  <2>3. QED BY <2>1, <2>2 DEF IInv
<1>2. ASSUME NEW s \in Sessions, NEW e \in Executions, StartSession(s, e) PROVE IInv'
  <2>1. TypeOK'
    BY <1>2 DEF TypeOK, RowStatus, Active, OutboxRow, StartSession, Insert
  <2>2. Owned'
    BY <1>2 DEF Owned, SingleOwner, TypeOK, InHand, Rows, Fresh, StartSession, Insert
  <2>3. Fresh'
    BY <1>2 DEF Fresh, Terminal, TypeOK, InHand, Owned, SingleOwner, Rows, StartSession, Insert
  <2>4. Rows'
    BY <1>2 DEF Rows, TypeOK, StartSession, Insert
  <2>5. Requests'
    BY <1>2 DEF Requests, TypeOK, StartSession, Insert
  <2>6. Reads'
    BY <1>2 DEF Reads, Active, StartSession, Insert
  <2>7. Asked'
    BY <1>2 DEF Asked, StartSession, Insert
  <2>8. Announced'
    BY <1>2 DEF Announced, Terminal, Settled, TypeOK, InHand, StartSession, Insert
  <2>9. Tries'
    BY <1>2 DEF Tries, TypeOK, InHand, Owned, SingleOwner, Rows, StartSession, Insert
  <2>10. TerminalEventIsDurable'
    BY <1>2 DEF TypeOK, TerminalEventIsDurable, Terminal, Settled, StartSession, Insert
  <2>11. (InHand /\ RunsAtMostOnce /\ AttemptsBounded)'
    BY <1>2 DEF StartSession, Insert, InHand, RunsAtMostOnce, AttemptsBounded
  <2>12. QED BY <2>1, <2>2, <2>3, <2>4, <2>5, <2>6, <2>7, <2>8, <2>9, <2>10, <2>11 DEF IInv
<1>3. ASSUME NEW s \in Sessions, NEW e \in Executions, CreateExecution(s, e) PROVE IInv'
  <2>1. TypeOK'
    BY <1>3 DEF TypeOK, RowStatus, Active, OutboxRow, CreateExecution, Insert
  <2>2. Owned'
    BY <1>3 DEF Owned, SingleOwner, TypeOK, InHand, Rows, Fresh, CreateExecution, Insert
  <2>3. Fresh'
    BY <1>3 DEF Fresh, Terminal, TypeOK, InHand, Owned, SingleOwner, Rows, CreateExecution, Insert
  <2>4. Rows'
    BY <1>3 DEF Rows, TypeOK, CreateExecution, Insert
  <2>5. Requests'
    BY <1>3 DEF Requests, TypeOK, CreateExecution, Insert
  <2>6. Reads'
    BY <1>3 DEF Reads, Active, CreateExecution, Insert
  <2>7. Asked'
    BY <1>3 DEF Asked, CreateExecution, Insert
  <2>8. Announced'
    BY <1>3 DEF Announced, Terminal, Settled, TypeOK, InHand, CreateExecution, Insert
  <2>9. Tries'
    BY <1>3 DEF Tries, TypeOK, InHand, Owned, SingleOwner, Rows, CreateExecution, Insert
  <2>10. TerminalEventIsDurable'
    BY <1>3 DEF TypeOK, TerminalEventIsDurable, Terminal, Settled, CreateExecution, Insert
  <2>11. (InHand /\ RunsAtMostOnce /\ AttemptsBounded)'
    BY <1>3 DEF CreateExecution, Insert, InHand, RunsAtMostOnce, AttemptsBounded
  <2>12. QED BY <2>1, <2>2, <2>3, <2>4, <2>5, <2>6, <2>7, <2>8, <2>9, <2>10, <2>11 DEF IInv
<1>4. ASSUME NEW c \in Clients, NEW e \in Executions, CancelRead(c, e) PROVE IInv'
  <2>1. TypeOK'
    BY <1>4 DEF TypeOK, Request, CancelRead, Exists
  <2>2. Requests'
    BY <1>4 DEF Requests, TypeOK, InHand, Active, Terminal, Settled, CancelRead, Exists
  <2>3. (InHand /\ Owned /\ Fresh /\ Rows /\ Reads /\ Asked /\ Announced /\ Tries /\
      RunsAtMostOnce /\ TerminalEventIsDurable /\ AttemptsBounded)'
    BY <1>4 DEF CancelRead, InHand, Owned, Fresh, Rows, Reads, Asked, Announced, Tries,
        RunsAtMostOnce, TerminalEventIsDurable, AttemptsBounded, SingleOwner
  <2>4. QED BY <2>1, <2>2, <2>3 DEF IInv
<1>5. ASSUME NEW c \in Clients, CancelCommit(c) PROVE IInv'
  <2>a. /\ request[c].execution \in Executions
        /\ request[c].seen \in Active \cup Terminal
        /\ status[request[c].execution] # "none"
    <3>1. request[c] \in Request /\ request[c].op = "cancel"
      BY <1>5 DEF CancelCommit, TypeOK
    <3>2. request[c].execution \in Executions
      BY <3>1, RequestKinds
    <3>3. QED
      BY <3>1, <3>2 DEF Requests
  <2>b. NoRequest \in Request
    BY DEF Request
  <2>1. TypeOK'
    <3>1. request' \in [Clients -> Request]
      BY <1>5, <2>b DEF CancelCommit, TypeOK
    <3>2. status' \in [Executions -> RowStatus]
      BY <1>5, <2>a DEF CancelCommit, TypeOK, Save, RequestCancel, RowStatus, Active, Terminal
    <3>3. asked' \subseteq Executions
      BY <1>5, <2>a DEF CancelCommit, TypeOK
    <3>4. QED
      BY <1>5, <3>1, <3>2, <3>3 DEF CancelCommit, TypeOK
  <2>2. Rows'
    BY <1>5 DEF Rows, TypeOK, InHand, Owned, SingleOwner, Requests, Reads, CancelCommit, Save,
        RowGone, RequestCancel
  <2>3. Requests'
    <3>1. \A d \in Clients : request'[d] = request[d] \/ request'[d].op = "none"
      BY <1>5 DEF CancelCommit, NoRequest, TypeOK
    <3>2. \A f \in Executions : status[f] # "none" => status'[f] # "none"
      BY <1>5, <2>a DEF CancelCommit, Save, RequestCancel, Active, Terminal, TypeOK
    <3>3. \A d \in Clients : request[d].op = "cancel" => request[d].execution \in Executions
      BY RequestKinds DEF TypeOK
    <3>4. \A z \in Sessions : \A f \in members[z] : f \in Executions
      BY DEF TypeOK
    <3>5. members' = members
      BY <1>5 DEF CancelCommit
    <3>6. \A z \in Sessions : \A f \in members'[z] : status'[f] # "none"
      BY <3>2, <3>4, <3>5 DEF Requests
    <3>7. ASSUME NEW d \in Clients, request'[d].op = "cancel"
          PROVE  request'[d].seen \in Active \cup Terminal /\ status'[request'[d].execution] # "none"
      BY <3>1, <3>2, <3>3, <3>7 DEF Requests
    <3>8. ASSUME NEW d \in Clients, request'[d].op = "delete_listed"
          PROVE  request'[d].ids \subseteq members'[request'[d].session]
      BY <3>1, <3>5, <3>8 DEF Requests
    <3>9. QED
      BY <3>6, <3>7, <3>8 DEF Requests, Active, Terminal
  <2>4. Reads'
    BY <1>5 DEF Reads, Active, TypeOK, InHand, CancelCommit, Save, RowGone, RequestCancel
  <2>5. Asked'
    BY <1>5 DEF Asked, TypeOK, CancelCommit, Save, RowGone, RequestCancel
  <2>6. Announced'
    BY <1>5 DEF Announced, Terminal, Settled, TypeOK, InHand, CancelCommit, Save, RowGone,
        RequestCancel
  <2>7. TerminalEventIsDurable'
    BY <1>5 DEF TerminalEventIsDurable, Terminal, Settled, TypeOK, CancelCommit, Save, RowGone,
        RequestCancel
  <2>8. (InHand /\ Owned /\ Fresh /\ Tries /\ RunsAtMostOnce /\ AttemptsBounded)'
    BY <1>5 DEF CancelCommit, InHand, Owned, Fresh, Tries, RunsAtMostOnce, AttemptsBounded,
        SingleOwner
  <2>9. QED BY <2>1, <2>2, <2>3, <2>4, <2>5, <2>6, <2>7, <2>8 DEF IInv
<1>6. ASSUME NEW c \in Clients, NEW s \in Sessions, DeleteCheck(c, s) PROVE IInv'
  <2>1. TypeOK'
    BY <1>6 DEF TypeOK, Request, DeleteCheck
  <2>2. Requests'
    BY <1>6 DEF Requests, DeleteCheck
  <2>3. (InHand /\ Owned /\ Fresh /\ Rows /\ Reads /\ Asked /\ Announced /\ Tries /\
      RunsAtMostOnce /\ TerminalEventIsDurable /\ AttemptsBounded)'
    BY <1>6 DEF DeleteCheck, InHand, Owned, Fresh, Rows, Reads, Asked, Announced, Tries,
        RunsAtMostOnce, TerminalEventIsDurable, AttemptsBounded, SingleOwner
  <2>4. QED BY <2>1, <2>2, <2>3 DEF IInv
<1>7. ASSUME NEW c \in Clients, DeleteList(c) PROVE IInv'
  <2>1. TypeOK'
    BY <1>7 DEF TypeOK, Request, NoRequest, DeleteList
  <2>2. Requests'
    BY <1>7 DEF Requests, DeleteList
  <2>3. (InHand /\ Owned /\ Fresh /\ Rows /\ Reads /\ Asked /\ Announced /\ Tries /\
      RunsAtMostOnce /\ TerminalEventIsDurable /\ AttemptsBounded)'
    BY <1>7 DEF DeleteList, InHand, Owned, Fresh, Rows, Reads, Asked, Announced, Tries,
        RunsAtMostOnce, TerminalEventIsDurable, AttemptsBounded, SingleOwner
  <2>4. QED BY <2>1, <2>2, <2>3 DEF IInv
<1>8. ASSUME NEW c \in Clients, DeleteCommit(c) PROVE IInv'
  <2>a. /\ request[c].session \in Sessions
        /\ request[c].ids \subseteq members[request[c].session]
    <3>1. request[c] \in Request /\ request[c].op = "delete_listed"
      BY <1>8 DEF DeleteCommit, TypeOK
    <3>2. request[c].session \in Sessions
      BY <3>1, RequestKinds
    <3>3. QED
      BY <3>1, <3>2 DEF Requests
  <2>b. NoRequest \in Request
    BY DEF Request
  <2>1. TypeOK'
    <3>1. request' \in [Clients -> Request]
      BY <1>8, <2>b DEF DeleteCommit, TypeOK
    <3>2. /\ status' \in [Executions -> RowStatus]
          /\ outbox' \in [Executions -> OutboxRow]
          /\ sessions' \in [Sessions -> {"none", "live", "deleted"}]
      BY <1>8 DEF DeleteCommit, TypeOK, RowStatus, OutboxRow, Settled
    <3>3. QED
      BY <1>8, <3>1, <3>2 DEF DeleteCommit, TypeOK
  <2>2. Owned'
    BY <1>8 DEF Owned, SingleOwner, TypeOK, DeleteCommit
  <2>3. Fresh'
    BY <1>8 DEF Fresh, Terminal, DeleteCommit
  <2>4. Rows'
    <3>1. \A e \in members[request[c].session] : status[e] # "none" /\ status'[e] = "deleted"
      BY <1>8, <2>a DEF Requests, TypeOK, DeleteCommit
    <3>2. QED
      BY <1>8, <2>a, <3>1 DEF Rows, TypeOK, DeleteCommit
  <2>5. Requests'
    <3>1. \A d \in Clients : request'[d] = request[d] \/ request'[d].op = "none"
      BY <1>8 DEF DeleteCommit, NoRequest, TypeOK
    <3>2. \A f \in Executions : status[f] # "none" => status'[f] # "none"
      BY <1>8, <2>a DEF DeleteCommit, TypeOK
    <3>3. \A d \in Clients : request[d].op = "cancel" => request[d].execution \in Executions
      BY RequestKinds DEF TypeOK
    <3>4. \A z \in Sessions : \A f \in members[z] : f \in Executions
      BY DEF TypeOK
    <3>5. members' = members
      BY <1>8 DEF DeleteCommit
    <3>6. \A z \in Sessions : \A f \in members'[z] : status'[f] # "none"
      BY <3>2, <3>4, <3>5 DEF Requests
    <3>7. ASSUME NEW d \in Clients, request'[d].op = "cancel"
          PROVE  request'[d].seen \in Active \cup Terminal /\ status'[request'[d].execution] # "none"
      BY <3>1, <3>2, <3>3, <3>7 DEF Requests
    <3>8. ASSUME NEW d \in Clients, request'[d].op = "delete_listed"
          PROVE  request'[d].ids \subseteq members'[request'[d].session]
      BY <3>1, <3>5, <3>8 DEF Requests
    <3>9. QED
      BY <3>6, <3>7, <3>8 DEF Requests, Active, Terminal
  <2>6. Reads'
    BY <1>8 DEF Reads, Active, TypeOK, InHand, DeleteCommit
  <2>7. Asked'
    BY <1>8 DEF Asked, DeleteCommit
  <2>8. Announced'
    BY <1>8 DEF Announced, Terminal, Settled, TypeOK, InHand, DeleteCommit
  <2>9. Tries'
    BY <1>8 DEF Tries, DeleteCommit
  <2>10. TerminalEventIsDurable'
    BY <1>8 DEF TerminalEventIsDurable, Terminal, Settled, DeleteCommit
  <2>11. (InHand /\ RunsAtMostOnce /\ AttemptsBounded)'
    BY <1>8 DEF DeleteCommit, InHand, RunsAtMostOnce, AttemptsBounded
  <2>12. QED BY <2>1, <2>2, <2>3, <2>4, <2>5, <2>6, <2>7, <2>8, <2>9, <2>10, <2>11 DEF IInv
<1>9. ASSUME NEW e \in Executions, DelayElapses(e) PROVE IInv'
  <2>1. TypeOK'
    BY <1>9 DEF TypeOK, DelayElapses
  <2>2. (InHand /\ Owned /\ Fresh /\ Rows /\ Requests /\ Reads /\ Asked /\ Announced /\ Tries /\
      RunsAtMostOnce /\ TerminalEventIsDurable /\ AttemptsBounded)'
    BY <1>9 DEF DelayElapses, InHand, Owned, Fresh, Rows, Requests, Reads, Asked, Announced,
        Tries, RunsAtMostOnce, TerminalEventIsDurable, AttemptsBounded, SingleOwner
  <2>3. QED BY <2>1, <2>2 DEF IInv
<1>10. ASSUME NEW r \in Runners, Claim(r) PROVE IInv'
  <2>1. TypeOK'
    BY <1>10 DEF TypeOK, OutboxRow, Claim, NextBatch, Claimable
  <2>2. InHand'
    BY <1>10 DEF InHand, Terminal, Claim, NextBatch, Claimable
  <2>3. Owned'
    BY <1>10 DEF Owned, SingleOwner, TypeOK, Claim, NextBatch, Claimable
  <2>4. Fresh'
    BY <1>10 DEF Fresh, Terminal, Claim, NextBatch, Claimable
  <2>5. Rows'
    BY <1>10 DEF Rows, Claim, NextBatch, Claimable
  <2>6. Announced'
    BY <1>10 DEF Announced, SettledAs, TypeOK, InHand, Claim, NextBatch, Claimable
  <2>7. Tries'
    BY <1>10 DEF Tries, Claim, NextBatch, Claimable
  <2>8. TerminalEventIsDurable'
    BY <1>10 DEF TerminalEventIsDurable, Terminal, Settled, Claim, NextBatch, Claimable
  <2>9. AttemptsBounded'
    BY <1>10 DEF AttemptsBounded, TypeOK, InHand, Tries, Claim, NextBatch, Claimable
  <2>10. (Requests /\ Reads /\ Asked /\ RunsAtMostOnce)'
    BY <1>10 DEF Claim, Requests, Reads, Asked, RunsAtMostOnce
  <2>11. QED BY <2>1, <2>2, <2>3, <2>4, <2>5, <2>6, <2>7, <2>8, <2>9, <2>10 DEF IInv
<1>11. ASSUME NEW r \in Runners, NEW e \in Executions, HandleMissing(r, e) PROVE IInv'
  <2>1. TypeOK'
    BY <1>11 DEF TypeOK, OutboxRow, Settled, HandleMissing, NextMessage, OutOfAttempts
  <2>2. InHand'
    BY <1>11 DEF InHand, Terminal, HandleMissing, NextMessage, OutOfAttempts
  <2>3. Owned'
    BY <1>11 DEF Owned, SingleOwner, TypeOK, InHand, HandleMissing, NextMessage, OutOfAttempts
  <2>4. Fresh'
    BY <1>11 DEF Fresh, Terminal, TypeOK, InHand, HandleMissing, NextMessage, OutOfAttempts
  <2>5. Rows'
    BY <1>11 DEF Rows, TypeOK, HandleMissing, NextMessage, OutOfAttempts
  <2>6. Announced'
    BY <1>11 DEF Announced, Terminal, Settled, TypeOK, InHand, Owned, SingleOwner, Fresh, Rows,
        Reads, HandleMissing, NextMessage, OutOfAttempts
  <2>7. Tries'
    BY <1>11 DEF Tries, TypeOK, HandleMissing, NextMessage, OutOfAttempts
  <2>8. TerminalEventIsDurable'
    BY <1>11 DEF TerminalEventIsDurable, Terminal, Settled, TypeOK, InHand, Owned, SingleOwner,
        Fresh, Announced, Rows, HandleMissing, NextMessage, OutOfAttempts
  <2>9. (Requests /\ Reads /\ Asked /\ RunsAtMostOnce /\ AttemptsBounded)'
    BY <1>11 DEF HandleMissing, Requests, Reads, Asked, RunsAtMostOnce, AttemptsBounded
  <2>10. QED BY <2>1, <2>2, <2>3, <2>4, <2>5, <2>6, <2>7, <2>8, <2>9 DEF IInv
<1>12. ASSUME NEW r \in Runners, NEW e \in Executions, ReadExecution(r, e) PROVE IInv'
  <2>1. TypeOK'
    BY <1>12 DEF TypeOK, Terminal, ReadExecution, NextMessage, Exists
  <2>2. InHand'
    BY <1>12 DEF InHand, Terminal, TypeOK, ReadExecution, NextMessage, Exists
  <2>3. Owned'
    BY <1>12 DEF Owned, SingleOwner, ReadExecution, NextMessage, Exists
  <2>4. Fresh'
    BY <1>12 DEF Fresh, Terminal, TypeOK, InHand, ReadExecution, NextMessage, Exists
  <2>5. Reads'
    BY <1>12 DEF Reads, Active, TypeOK, InHand, Rows, Owned, SingleOwner, Terminal, Settled,
        ReadExecution, NextMessage, Exists
  <2>6. Asked'
    BY <1>12 DEF Asked, TypeOK, ReadExecution, NextMessage, Exists
  <2>7. Announced'
    BY <1>12 DEF Announced, Terminal, Settled, TypeOK, ReadExecution, NextMessage, Exists
  <2>8. (Rows /\ Requests /\ Tries /\ RunsAtMostOnce /\ TerminalEventIsDurable /\
      AttemptsBounded)'
    BY <1>12 DEF ReadExecution, Rows, Requests, Tries, RunsAtMostOnce, TerminalEventIsDurable,
        AttemptsBounded
  <2>9. QED BY <2>1, <2>2, <2>3, <2>4, <2>5, <2>6, <2>7, <2>8 DEF IInv
<1>13. ASSUME NEW r \in Runners, Dies(r) PROVE IInv'
  <2>1. TypeOK'
    BY <1>13 DEF TypeOK, RowStatus, Dies
  <2>2. InHand'
    BY <1>13 DEF InHand, Terminal, TypeOK, Dies
  <2>3. Owned'
    BY <1>13 DEF Owned, SingleOwner, TypeOK, Dies
  <2>4. Fresh'
    BY <1>13 DEF Fresh, Terminal, TypeOK, Dies
  <2>5. Reads'
    BY <1>13 DEF Reads, Active, TypeOK, Dies
  <2>6. Asked'
    BY <1>13 DEF Asked, TypeOK, Dies
  <2>7. Announced'
    BY <1>13 DEF Announced, Terminal, Settled, TypeOK, Dies
  <2>8. (Rows /\ Requests /\ Tries /\ RunsAtMostOnce /\ TerminalEventIsDurable /\
      AttemptsBounded)'
    BY <1>13 DEF Dies, Rows, Requests, Tries, RunsAtMostOnce, TerminalEventIsDurable,
        AttemptsBounded
  <2>9. QED BY <2>1, <2>2, <2>3, <2>4, <2>5, <2>6, <2>7, <2>8 DEF IInv
<1>14. ASSUME NEW r \in Runners, CommitRunning(r) PROVE IInv'
  <2>1. TypeOK'
    BY <1>14 DEF TypeOK, RowStatus, Active, CommitRunning, Save, RowGone, MarkRunning
  <2>2. InHand'
    BY <1>14 DEF InHand, Terminal, CommitRunning, Save, RowGone, MarkRunning
  <2>3. Fresh'
    BY <1>14 DEF Fresh, Terminal, CommitRunning, Save, RowGone, MarkRunning
  <2>4. Rows'
    BY <1>14 DEF Rows, TypeOK, InHand, Owned, SingleOwner, Requests, Reads, CommitRunning, Save,
        RowGone, MarkRunning
  <2>5. Requests'
    BY <1>14 DEF Requests, CommitRunning, Save, RowGone, MarkRunning
  <2>6. Reads'
    BY <1>14 DEF Reads, Active, TypeOK, InHand, Rows, Owned, SingleOwner, CommitRunning, Save,
        RowGone, MarkRunning
  <2>7. Asked'
    BY <1>14 DEF Asked, CommitRunning, Save, RowGone, MarkRunning
  <2>8. Announced'
    BY <1>14 DEF Announced, Terminal, Settled, TypeOK, InHand, Owned, SingleOwner, Fresh, Rows,
        Reads, CommitRunning, Save, RowGone, MarkRunning
  <2>9. TerminalEventIsDurable'
    BY <1>14 DEF TerminalEventIsDurable, Terminal, Settled, TypeOK, InHand, Owned, SingleOwner,
        Fresh, Announced, Rows, CommitRunning, Save, RowGone, MarkRunning
  <2>10. (Owned /\ Tries /\ RunsAtMostOnce /\ AttemptsBounded)'
    BY <1>14 DEF CommitRunning, Owned, Tries, RunsAtMostOnce, AttemptsBounded, SingleOwner
  <2>11. QED BY <2>1, <2>2, <2>3, <2>4, <2>5, <2>6, <2>7, <2>8, <2>9, <2>10 DEF IInv
<1>15. ASSUME NEW r \in Runners, Launch(r) PROVE IInv'
  <2>a. current[r] \in Executions
    BY <1>15 DEF Launch, InHand
  <2>1. TypeOK'
    <3>1. started' \in [Executions -> Nat] /\ running' \in [Runners -> SUBSET Executions]
      BY <1>15, <2>a DEF Launch, TypeOK
    <3>2. QED
      BY <1>15, <3>1 DEF Launch, TypeOK
  <2>2. InHand'
    BY <1>15 DEF InHand, Terminal, TypeOK, Launch
  <2>3. Fresh'
    BY <1>15 DEF Fresh, Terminal, TypeOK, InHand, Owned, SingleOwner, Rows, Launch
  <2>4. Reads'
    BY <1>15 DEF Reads, Active, TypeOK, Launch
  <2>5. Asked'
    BY <1>15 DEF Asked, TypeOK, Launch
  <2>6. Announced'
    BY <1>15 DEF Announced, Terminal, Settled, TypeOK, Launch
  <2>7. RunsAtMostOnce'
    BY <1>15 DEF RunsAtMostOnce, TypeOK, InHand, Fresh, Active, Terminal, Settled, Launch
  <2>8. TerminalEventIsDurable'
    BY <1>15 DEF TerminalEventIsDurable, Terminal, Settled, Launch
  <2>9. (Owned /\ Rows /\ Requests /\ Tries /\ AttemptsBounded)'
    BY <1>15 DEF Launch, Owned, Rows, Requests, Tries, AttemptsBounded, SingleOwner
  <2>10. QED BY <2>1, <2>2, <2>3, <2>4, <2>5, <2>6, <2>7, <2>8, <2>9 DEF IInv
<1>16. ASSUME NEW r \in Runners, NEW e \in Executions, RuntimeEnds(r, e) PROVE IInv'
  <2>1. TypeOK'
    BY <1>16 DEF TypeOK, Terminal, RuntimeEnds
  <2>2. InHand'
    BY <1>16 DEF InHand, Terminal, TypeOK, RuntimeEnds
  <2>3. Asked'
    BY <1>16 DEF Asked, TypeOK, RuntimeEnds
  <2>4. Announced'
    BY <1>16 DEF Announced, Terminal, Settled, TypeOK, RuntimeEnds
  <2>5. (Owned /\ Fresh /\ Rows /\ Requests /\ Reads /\ Tries /\ RunsAtMostOnce /\
      TerminalEventIsDurable /\ AttemptsBounded)'
    BY <1>16 DEF RuntimeEnds, Owned, Fresh, Rows, Requests, Reads, Tries, RunsAtMostOnce,
        TerminalEventIsDurable, AttemptsBounded, SingleOwner
  <2>6. QED BY <2>1, <2>2, <2>3, <2>4, <2>5 DEF IInv
<1>17. ASSUME NEW r \in Runners, Poll(r) PROVE IInv'
  <2>1. TypeOK'
    BY <1>17 DEF TypeOK, Poll, CancelObserved
  <2>2. Asked'
    BY <1>17 DEF Asked, TypeOK, InHand, Poll, CancelObserved
  <2>3. (InHand /\ Owned /\ Fresh /\ Rows /\ Requests /\ Reads /\ Announced /\ Tries /\
      RunsAtMostOnce /\ TerminalEventIsDurable /\ AttemptsBounded)'
    BY <1>17 DEF Poll, InHand, Owned, Fresh, Rows, Requests, Reads, Announced, Tries,
        RunsAtMostOnce, TerminalEventIsDurable, AttemptsBounded, SingleOwner
  <2>4. QED BY <2>1, <2>2, <2>3 DEF IInv
<1>18. ASSUME NEW r \in Runners, PollFails(r) PROVE IInv'
  <2>1. TypeOK'
    BY <1>18 DEF TypeOK, PollFails
  <2>2. Asked'
    BY <1>18 DEF Asked, PollFails
  <2>3. (InHand /\ Owned /\ Fresh /\ Rows /\ Requests /\ Reads /\ Announced /\ Tries /\
      RunsAtMostOnce /\ TerminalEventIsDurable /\ AttemptsBounded)'
    BY <1>18 DEF PollFails, InHand, Owned, Fresh, Rows, Requests, Reads, Announced, Tries,
        RunsAtMostOnce, TerminalEventIsDurable, AttemptsBounded, SingleOwner
  <2>4. QED BY <2>1, <2>2, <2>3 DEF IInv
<1>19. ASSUME NEW r \in Runners, WaitReturns(r) PROVE IInv'
  <2>1. TypeOK'
    <3>1. running' \in [Runners -> SUBSET Executions]
      BY <1>19 DEF WaitReturns, AfterCancel, TypeOK
    <3>2. outcome' \in [Runners -> {"none"} \cup Terminal]
      BY <1>19 DEF WaitReturns, TypeOK, Terminal
    <3>3. QED
      BY <1>19, <3>1, <3>2 DEF WaitReturns, TypeOK
  <2>2. InHand'
    BY <1>19 DEF InHand, Terminal, TypeOK, WaitReturns, AfterCancel
  <2>3. Fresh'
    BY <1>19 DEF Fresh, Terminal, TypeOK, WaitReturns, AfterCancel
  <2>4. Reads'
    BY <1>19 DEF Reads, Active, TypeOK, WaitReturns, AfterCancel
  <2>5. Asked'
    BY <1>19 DEF Asked, TypeOK, WaitReturns, AfterCancel
  <2>6. Announced'
    BY <1>19 DEF Announced, Terminal, Settled, TypeOK, WaitReturns, AfterCancel
  <2>7. (Owned /\ Rows /\ Requests /\ Tries /\ RunsAtMostOnce /\ TerminalEventIsDurable /\
      AttemptsBounded)'
    BY <1>19 DEF WaitReturns, Owned, Rows, Requests, Tries, RunsAtMostOnce,
        TerminalEventIsDurable, AttemptsBounded, SingleOwner
  <2>8. QED BY <2>1, <2>2, <2>3, <2>4, <2>5, <2>6, <2>7 DEF IInv
<1>20. ASSUME NEW r \in Runners, CheckCancel(r) PROVE IInv'
  <2>1. TypeOK'
    BY <1>20 DEF TypeOK, Terminal, CheckCancel, CancelObserved
  <2>2. InHand'
    BY <1>20 DEF InHand, Terminal, TypeOK, CheckCancel, CancelObserved
  <2>3. Fresh'
    BY <1>20 DEF Fresh, Terminal, CheckCancel, CancelObserved
  <2>4. Reads'
    BY <1>20 DEF Reads, Active, CheckCancel, CancelObserved
  <2>5. Asked'
    BY <1>20 DEF Asked, TypeOK, InHand, CheckCancel, CancelObserved
  <2>6. Announced'
    BY <1>20 DEF Announced, Terminal, Settled, CheckCancel, CancelObserved
  <2>7. (Owned /\ Rows /\ Requests /\ Tries /\ RunsAtMostOnce /\ TerminalEventIsDurable /\
      AttemptsBounded)'
    BY <1>20 DEF CheckCancel, Owned, Rows, Requests, Tries, RunsAtMostOnce,
        TerminalEventIsDurable, AttemptsBounded, SingleOwner
  <2>8. QED BY <2>1, <2>2, <2>3, <2>4, <2>5, <2>6, <2>7 DEF IInv
<1>21. ASSUME NEW r \in Runners, FinishRead(r) PROVE IInv'
  <2>a. status[current[r]] \in Active \cup {"deleted"}
    BY <1>21 DEF FinishRead, TypeOK, InHand, Owned, SingleOwner, Rows, RowStatus, Active, Terminal
  <2>1. TypeOK'
    BY <1>21 DEF TypeOK, InHand, FinishRead
  <2>2. InHand'
    BY <1>21 DEF InHand, Terminal, FinishRead
  <2>3. Fresh'
    BY <1>21 DEF Fresh, Terminal, FinishRead
  <2>4. Reads'
    BY <1>21, <2>a DEF Reads, TypeOK, FinishRead
  <2>5. Asked'
    BY <1>21 DEF Asked, TypeOK, InHand, FinishRead
  <2>6. Announced'
    BY <1>21 DEF Announced, Terminal, Settled, FinishRead
  <2>7. (Owned /\ Rows /\ Requests /\ Tries /\ RunsAtMostOnce /\ TerminalEventIsDurable /\
      AttemptsBounded)'
    BY <1>21 DEF FinishRead, Owned, Rows, Requests, Tries, RunsAtMostOnce, TerminalEventIsDurable,
        AttemptsBounded, SingleOwner
  <2>8. QED BY <2>1, <2>2, <2>3, <2>4, <2>5, <2>6, <2>7 DEF IInv
<1>22. ASSUME NEW r \in Runners, FinishCommit(r) PROVE IInv'
  <2>a. /\ current[r] \in Executions
        /\ outcome[r] \in Terminal
    BY <1>22 DEF FinishCommit, InHand
  <2>1. TypeOK'
    <3>1. status' \in [Executions -> RowStatus]
      BY <1>22, <2>a DEF FinishCommit, TypeOK, Save, Finalised, MarkCancelled, MarkFailed,
                      MarkCompleted, RowStatus, Active, Terminal
    <3>2. outbox' \in [Executions -> OutboxRow] /\ outcome' \in [Runners -> {"none"} \cup Terminal]
      BY <1>22, <2>a DEF FinishCommit, TypeOK, SettledAs, FinalEvent, OutboxRow, Settled, Terminal
    <3>3. QED
      BY <1>22, <3>1, <3>2 DEF FinishCommit, TypeOK
  <2>2. InHand'
    BY <1>22 DEF InHand, Terminal, TypeOK, FinishCommit, Save, RowGone, Finalised, MarkCancelled,
        MarkFailed, MarkCompleted, SettledAs, FinalEvent
  <2>3. Owned'
    BY <1>22 DEF Owned, SingleOwner, TypeOK, FinishCommit, Save, RowGone, Finalised,
        MarkCancelled, MarkFailed, MarkCompleted, SettledAs, FinalEvent
  <2>4. Fresh'
    BY <1>22 DEF Fresh, Terminal, TypeOK, FinishCommit, Save, RowGone, Finalised, MarkCancelled,
        MarkFailed, MarkCompleted, SettledAs, FinalEvent
  <2>5. Rows'
    BY <1>22 DEF Rows, TypeOK, InHand, Owned, SingleOwner, Requests, Reads, Active, Terminal,
        Settled, FinishCommit, Save, RowGone, Finalised, MarkCancelled, MarkFailed, MarkCompleted,
        SettledAs, FinalEvent
  <2>6. Requests'
    BY <1>22 DEF Requests, FinishCommit, Save, RowGone, Finalised, MarkCancelled, MarkFailed,
        MarkCompleted, SettledAs, FinalEvent
  <2>7. Reads'
    BY <1>22 DEF Reads, Active, TypeOK, InHand, Rows, Owned, SingleOwner, FinishCommit, Save,
        RowGone, Finalised, MarkCancelled, MarkFailed, MarkCompleted, SettledAs, FinalEvent
  <2>8. Asked'
    BY <1>22 DEF Asked, FinishCommit, Save, RowGone, Finalised, MarkCancelled, MarkFailed,
        MarkCompleted, SettledAs, FinalEvent
  <2>9. Announced'
    BY <1>22 DEF Announced, Terminal, Settled, TypeOK, InHand, Owned, SingleOwner, Fresh, Rows,
        Reads, Active, FinishCommit, Save, RowGone, Finalised, MarkCancelled, MarkFailed,
        MarkCompleted, SettledAs, FinalEvent
  <2>10. Tries'
    BY <1>22 DEF Tries, TypeOK, FinishCommit, Save, RowGone, Finalised, MarkCancelled, MarkFailed,
        MarkCompleted, SettledAs, FinalEvent
  <2>11. TerminalEventIsDurable'
    BY <1>22 DEF TerminalEventIsDurable, Terminal, Settled, TypeOK, InHand, Owned, SingleOwner,
        Fresh, Announced, Rows, FinishCommit, Save, RowGone, Finalised, MarkCancelled, MarkFailed,
        MarkCompleted, SettledAs, FinalEvent
  <2>12. (RunsAtMostOnce /\ AttemptsBounded)'
    BY <1>22 DEF FinishCommit, RunsAtMostOnce, AttemptsBounded
  <2>13. QED BY <2>1, <2>2, <2>3, <2>4, <2>5, <2>6, <2>7, <2>8, <2>9, <2>10, <2>11, <2>12 DEF IInv
<1>23. ASSUME NEW r \in Runners, Emit(r) PROVE IInv'
  <2>a. current[r] \in Executions /\ current[r] \notin batch[r] /\ outcome[r] \in Terminal
    BY <1>23 DEF Emit, InHand
  <2>1. TypeOK'
    BY <1>23, <2>a DEF Emit, TypeOK, RowStatus
  <2>2. InHand'
    BY <1>23 DEF InHand, Terminal, TypeOK, Emit
  <2>3. Owned'
    BY <1>23 DEF Owned, SingleOwner, TypeOK, Emit
  <2>4. Fresh'
    BY <1>23, <2>a DEF Fresh, Emit, TypeOK, Owned, Announced, Settled
  <2>5. Reads'
    BY <1>23 DEF Reads, Active, Emit
  <2>6. Asked'
    BY <1>23 DEF Asked, Emit
  <2>7. Announced'
    BY <1>23 DEF Announced, Terminal, Settled, TypeOK, InHand, Owned, SingleOwner, Fresh, Rows,
        Reads, Emit
  <2>8. TerminalEventIsDurable'
    BY <1>23, <2>a DEF TerminalEventIsDurable, TypeOK, Announced, SettledAs, Settled, Emit
  <2>9. (Rows /\ Requests /\ Tries /\ RunsAtMostOnce /\ AttemptsBounded)'
    BY <1>23 DEF Emit, Rows, Requests, Tries, RunsAtMostOnce, AttemptsBounded
  <2>10. QED BY <2>1, <2>2, <2>3, <2>4, <2>5, <2>6, <2>7, <2>8, <2>9 DEF IInv
<1>24. CASE UNCHANGED vars
  BY <1>24 DEF vars, IInv, TypeOK, InHand, Owned, SingleOwner, Fresh, Rows, Requests, Reads, Asked,
               Announced, Tries, RunsAtMostOnce, TerminalEventIsDurable, AttemptsBounded
<1>25. QED
  BY <1>1, <1>2, <1>3, <1>4, <1>5, <1>6, <1>7, <1>8, <1>9, <1>10, <1>11, <1>12, <1>13, <1>14, <1>15,
     <1>16, <1>17, <1>18, <1>19, <1>20, <1>21, <1>22, <1>23, <1>24
  DEF Next, Accept, Cancel, Delete, Runner, Consume, Fault, RowVanished, Crash

(* The inductive invariant holds in every reachable state. *)
LEMMA InvariantHolds == Spec => []IInv
BY InitIInv, StepIInv, PTL DEF Spec

-----------------------------------------------------------------------------
(* The variables hold values of their kind in every reachable state. *)
THEOREM TypeCorrect == Spec => []TypeOK
<1>1. IInv => TypeOK
  BY DEF IInv
<1>2. QED BY <1>1, InvariantHolds, PTL

(* However many runners claim, crash and come back, claim_batch never lets *)
(* two of them hold one message, and the holder is the one locked_by names. *)
THEOREM MessageHasOneOwner == Spec => []SingleOwner
<1>1. IInv => SingleOwner
  BY DEF IInv, Owned
<1>2. QED BY <1>1, InvariantHolds, PTL

(* No history of crashes, retries and late cancels makes _handle_message   *)
(* create a second runtime task for an execution.                          *)
THEOREM AgentRunsAtMostOnce == Spec => []RunsAtMostOnce
<1>1. IInv => RunsAtMostOnce
  BY DEF IInv
<1>2. QED BY <1>1, InvariantHolds, PTL

(* What the final transactions of the runner, the cancel request and the   *)
(* session delete leave behind always agrees: a closed message has an      *)
(* ended execution, and an ended execution a closed message.               *)
THEOREM MessageAndExecutionAgree == Spec => []OutboxMatchesExecution
<1>1. TypeOK /\ Rows => OutboxMatchesExecution
  <2> SUFFICES ASSUME TypeOK, Rows, NEW e \in Executions
               PROVE  /\ outbox[e] = "processed" => status[e] \in {"completed", "cancelled",
                                                          "cancel_requested", "deleted"}
                      /\ outbox[e] = "failed" => status[e] \in {"failed", "cancel_requested", "deleted"}
                      /\ status[e] \in Terminal => outbox[e] \in Settled
    BY DEF OutboxMatchesExecution
  <2>1. status[e] \in RowStatus /\ outbox[e] \in OutboxRow
    BY DEF TypeOK
  <2>2. QED BY <2>1 DEF Rows, RowStatus, OutboxRow, Active, Terminal, Settled
<1>2. IInv => TypeOK /\ Rows
  BY DEF IInv
<1>3. QED BY <1>1, <1>2, InvariantHolds, PTL

(* _emit_lifecycle runs after the commit: an announced end is durable,     *)
(* unique, and the end that was persisted.                                 *)
THEOREM AnnouncedEndIsDurable == Spec => []TerminalEventIsDurable
<1>1. IInv => TerminalEventIsDurable
  BY DEF IInv
<1>2. QED BY <1>1, InvariantHolds, PTL

(* CANCELLED is persisted only where request_cancel was committed before.  *)
THEOREM CancelledWasRequested == Spec => []CancelledOnlyOnRequest
<1>1. IInv => CancelledOnlyOnRequest
  BY DEF IInv, Asked, CancelledOnlyOnRequest
<1>2. QED BY <1>1, InvariantHolds, PTL

(* The retries of a message without an execution stop at MaxAttempts.      *)
THEOREM RetriesStop == Spec => []AttemptsBounded
<1>1. IInv => AttemptsBounded
  BY DEF IInv
<1>2. QED BY <1>1, InvariantHolds, PTL

(* While a runner has a message to settle its execution has not ended. *)
LEMMA InHandIsUnfinished ==
  ASSUME IInv, NEW r \in Runners, pc[r] \notin {"idle", "emit"}
  PROVE  current[r] \in Executions /\ status[current[r]] \notin Terminal
<1>1. current[r] \in batch[r] /\ current[r] \in Executions
  BY DEF IInv, InHand
<1>2. outbox[current[r]] \in {"processing", "deleted"}
  BY <1>1 DEF IInv, Owned, SingleOwner
<1>3. QED BY <1>1, <1>2 DEF IInv, Rows, Terminal

(* A persisted outcome is replaced by nothing but a cancel request that    *)
(* read the row before it, or by the session's delete: two runners, or one *)
(* runner and its former life, never overwrite each other's result.        *)
THEOREM PersistedOutcomeStands == Spec => OutcomeStands
<1> DEFINE Kept == \A e \in Executions :
              status[e] \in Terminal => status'[e] \in {status[e], "cancel_requested", "deleted"}
<1>1. ASSUME IInv, Next PROVE Kept
  <2>0. TypeOK
    BY <1>1 DEF IInv
  <2>1. ASSUME UNCHANGED status PROVE Kept
    BY <2>1
  <2>2. ASSUME NEW s \in Sessions, NEW e \in Executions, Insert(s, e) PROVE Kept
    BY <2>0, <2>2 DEF Insert, Terminal, TypeOK
  <2>3. ASSUME NEW c \in Clients, CancelCommit(c) PROVE Kept
    BY <2>0, <2>3 DEF CancelCommit, Save, RequestCancel, TypeOK
  <2>4. ASSUME NEW c \in Clients, DeleteCommit(c) PROVE Kept
    BY <2>4 DEF DeleteCommit
  <2>5. ASSUME NEW r \in Runners, CommitRunning(r) PROVE Kept
    <3>1. status[current[r]] \notin Terminal
      BY <1>1, <2>5, InHandIsUnfinished DEF CommitRunning
    <3>2. QED BY <2>0, <2>5, <3>1 DEF CommitRunning, Save, TypeOK
  <2>6. ASSUME NEW r \in Runners, FinishCommit(r) PROVE Kept
    <3>1. status[current[r]] \notin Terminal
      BY <1>1, <2>6, InHandIsUnfinished DEF FinishCommit
    <3>2. QED BY <2>0, <2>6, <3>1 DEF FinishCommit, Save, TypeOK
  <2>7. ASSUME NEW r \in Runners, Runner(r) \/ Fault(r) PROVE Kept
    BY <2>1, <2>5, <2>6, <2>7
    DEF Runner, Fault, Consume, Claim, HandleMissing, ReadExecution, Launch, WaitReturns, CheckCancel,
        FinishRead, RowVanished, Emit, Poll, RuntimeEnds, PollFails, Crash, Dies, dbVars
  <2>8. ASSUME NEW e \in Executions, DelayElapses(e) PROVE Kept
    BY <2>1, <2>8 DEF DelayElapses, dbVars
  <2>9. ASSUME Accept PROVE Kept
    BY <2>1, <2>2, <2>9 DEF Accept, CreateSession, StartSession, CreateExecution
  <2>10. ASSUME Cancel PROVE Kept
    BY <2>1, <2>3, <2>10 DEF Cancel, CancelRead, dbVars
  <2>11. ASSUME Delete PROVE Kept
    BY <2>1, <2>4, <2>11 DEF Delete, DeleteCheck, DeleteList, dbVars
  <2>12. QED BY <1>1, <2>7, <2>8, <2>9, <2>10, <2>11 DEF Next
<1>2. IInv /\ [Next]_vars => [Kept]_vars
  BY <1>1
<1>3. QED BY <1>2, InvariantHolds, PTL DEF Spec, OutcomeStands

-----------------------------------------------------------------------------
(* Only the death of the process that holds a claimed message strands it:  *)
(* every way out of the handler settles it or gives it back.               *)
THEOREM OnlyDeathStrands == Spec => NothingStranded
<1> DEFINE Kept == \A e \in Executions :
              ~Lost(e) /\ Lost(e)' => \E r \in Runners : e \in batch[r] /\ Dies(r)
<1>1. ASSUME IInv, Next PROVE Kept
  <2>0. TypeOK /\ SingleOwner
    BY <1>1 DEF IInv, Owned
  <2>1. ASSUME UNCHANGED <<outbox, batch>> PROVE Kept
    BY <2>1 DEF Lost
  <2>2. ASSUME NEW r \in Runners, Dies(r) PROVE Kept
    BY <2>0, <2>2 DEF Lost, Dies, outboxVars, TypeOK
  <2>3. ASSUME NEW s \in Sessions, NEW e \in Executions, Insert(s, e) PROVE Kept
    BY <2>0, <2>3 DEF Insert, taskVars, Lost, TypeOK
  <2>4. ASSUME NEW c \in Clients, DeleteCommit(c) PROVE Kept
    BY <2>0, <2>4 DEF DeleteCommit, taskVars, Lost, TypeOK
  <2>5. ASSUME NEW r \in Runners, Claim(r) PROVE Kept
    BY <2>0, <2>5 DEF Claim, Lost, TypeOK
  <2>6. ASSUME NEW r \in Runners, NEW e \in Executions, HandleMissing(r, e) PROVE Kept
    <3>1. outbox'[e] # "processing"
      BY <2>0, <2>6 DEF HandleMissing, TypeOK
    <3>2. QED BY <2>0, <2>6, <3>1 DEF HandleMissing, Lost, TypeOK
  <2>7. ASSUME NEW r \in Runners, FinishCommit(r) PROVE Kept
    <3>1. current[r] \in Executions
      BY <1>1, <2>7 DEF IInv, InHand, FinishCommit
    <3>2. outbox'[current[r]] # "processing"
      BY <2>0, <2>7, <3>1 DEF FinishCommit, SettledAs, TypeOK
    <3>3. QED BY <2>0, <2>7, <3>1, <3>2 DEF FinishCommit, Lost, TypeOK
  <2>8. ASSUME NEW r \in Runners, Runner(r) \/ Fault(r) PROVE Kept
    BY <2>1, <2>2, <2>5, <2>6, <2>7, <2>8
    DEF Runner, Fault, Consume, ReadExecution, CommitRunning, Launch, WaitReturns, CheckCancel,
        FinishRead, RowVanished, Emit, Poll, RuntimeEnds, PollFails, Crash, outboxVars
  <2>9. ASSUME NEW e \in Executions, DelayElapses(e) PROVE Kept
    BY <2>1, <2>9 DEF DelayElapses, taskVars
  <2>10. ASSUME Accept PROVE Kept
    BY <2>1, <2>3, <2>10
    DEF Accept, CreateSession, StartSession, CreateExecution, outboxVars, taskVars
  <2>11. ASSUME Cancel PROVE Kept
    BY <2>1, <2>11 DEF Cancel, CancelRead, CancelCommit, outboxVars, taskVars
  <2>12. ASSUME Delete PROVE Kept
    BY <2>1, <2>4, <2>12 DEF Delete, DeleteCheck, DeleteList, outboxVars, taskVars
  <2>13. QED BY <1>1, <2>8, <2>9, <2>10, <2>11, <2>12 DEF Next
<1>2. IInv /\ [Next]_vars => [Kept]_vars
  BY <1>1
<1>3. QED BY <1>2, InvariantHolds, PTL DEF Spec, NothingStranded

-----------------------------------------------------------------------------
(* A message in nobody's batch that is settled stays so, and a runtime     *)
(* task stays where Tasks has it, as long as its handler does not move.    *)
LEMMA StepTasks ==
  ASSUME IInv, Tasks, [Next]_vars
  PROVE  Tasks'
<1> TypeOK /\ InHand /\ Owned /\ SingleOwner /\ Fresh /\ Announced
  BY DEF IInv, Owned
<1> USE ConstantsAssumption DEF taskVars, outboxVars
<1>1. ASSUME UNCHANGED <<taskVars, outbox>> PROVE Tasks'
  BY <1>1 DEF Tasks
<1>2. ASSUME NEW s \in Sessions, NEW e \in Executions, Insert(s, e) PROVE Tasks'
  <2>1. outbox[e] \notin Settled
    BY <1>2 DEF Insert, IInv, Rows, Settled
  <2>2. QED BY <1>2, <2>1 DEF Insert, Tasks, TypeOK
<1>3. ASSUME NEW c \in Clients, DeleteCommit(c) PROVE Tasks'
  BY <1>3 DEF DeleteCommit, Tasks, TypeOK, Settled
<1>4. ASSUME NEW r \in Runners, Claim(r) PROVE Tasks'
  <2>1. ASSUME NEW q \in Runners, NEW e \in running[q], outbox[e] \in Settled,
               \A p \in Runners : e \notin batch[p]
        PROVE  outbox'[e] \in Settled /\ \A p \in Runners : e \notin batch'[p]
    BY <1>4, <2>1 DEF Claim, NextBatch, Claimable, TypeOK, Settled
  <2>2. QED BY <1>4, <2>1 DEF Claim, Tasks
<1>5. ASSUME NEW r \in Runners, NEW e \in Executions, HandleMissing(r, e) PROVE Tasks'
  <2>1. e \in batch[r] /\ batch' = [batch EXCEPT ![r] = @ \ {e}]
    BY <1>5 DEF HandleMissing, NextMessage
  <2>2. \A f \in Executions : f # e => outbox'[f] = outbox[f]
    BY <1>5 DEF HandleMissing, TypeOK
  <2>3. QED BY <1>5, <2>1, <2>2 DEF HandleMissing, Tasks, TypeOK
<1>6. ASSUME NEW r \in Runners, NEW e \in Executions, ReadExecution(r, e) PROVE Tasks'
  <2>1. e \in batch[r] /\ pc[r] = "idle"
    BY <1>6 DEF ReadExecution, NextMessage
  <2>2. \A f \in running[r] : f # current[r]
    BY <2>1 DEF InHand, TypeOK
  <2>3. QED BY <1>6, <2>1, <2>2 DEF ReadExecution, Tasks, TypeOK
<1>7. ASSUME NEW r \in Runners, Dies(r) PROVE Tasks'
  BY <1>7 DEF Dies, Tasks, TypeOK
<1>8. ASSUME NEW r \in Runners, CommitRunning(r) PROVE Tasks'
  BY <1>8 DEF CommitRunning, Tasks, TypeOK
<1>9. ASSUME NEW r \in Runners, Launch(r) PROVE Tasks'
  <2>1. current[r] \in batch[r] /\ current[r] \in Executions
    BY <1>9 DEF Launch, InHand
  <2>2. current[r] \notin running[r]
    BY <1>9, <2>1 DEF Launch, Tasks
  <2>3. QED BY <1>9, <2>1, <2>2 DEF Launch, Tasks, TypeOK
<1>10. ASSUME NEW r \in Runners, NEW e \in Executions, RuntimeEnds(r, e) PROVE Tasks'
  BY <1>10 DEF RuntimeEnds, Tasks, TypeOK
<1>11. ASSUME NEW r \in Runners, Poll(r) \/ PollFails(r) PROVE Tasks'
  BY <1>11 DEF Poll, PollFails, Tasks, TypeOK
<1>12. ASSUME NEW r \in Runners, WaitReturns(r) PROVE Tasks'
  BY <1>12 DEF WaitReturns, AfterCancel, Tasks, TypeOK
<1>13. ASSUME NEW r \in Runners, CheckCancel(r) \/ FinishRead(r) PROVE Tasks'
  BY <1>13 DEF CheckCancel, FinishRead, Tasks, TypeOK
<1>14. ASSUME NEW r \in Runners, FinishCommit(r) PROVE Tasks'
  <2>1. current[r] \in batch[r] /\ current[r] \in Executions
    BY <1>14 DEF FinishCommit, InHand
  <2>2. batch' = [batch EXCEPT ![r] = @ \ {current[r]}]
    BY <1>14 DEF FinishCommit
  <2>3. \A f \in Executions : f # current[r] => outbox'[f] = outbox[f]
    BY <1>14, <2>1 DEF FinishCommit, TypeOK
  <2>4. QED BY <1>14, <2>1, <2>2, <2>3 DEF FinishCommit, Tasks, TypeOK
<1>15. ASSUME NEW r \in Runners, Emit(r) PROVE Tasks'
  <2>1. outbox[current[r]] \in Settled /\ \A q \in Runners : current[r] \notin batch[q]
    BY <1>15 DEF Emit, Announced, InHand, Owned, SettledAs, Settled
  <2>2. QED BY <1>15, <2>1 DEF Emit, Tasks, TypeOK
<1>16. ASSUME NEW r \in Runners, Runner(r) \/ Fault(r) PROVE Tasks'
  BY <1>4, <1>5, <1>6, <1>7, <1>8, <1>9, <1>10, <1>11, <1>12, <1>13, <1>14, <1>15, <1>16
  DEF Runner, Fault, Consume, RowVanished, Crash
<1>17. ASSUME NEW e \in Executions, DelayElapses(e) PROVE Tasks'
  BY <1>1, <1>17 DEF DelayElapses
<1>18. ASSUME Accept PROVE Tasks'
  BY <1>1, <1>2, <1>18 DEF Accept, CreateSession, StartSession, CreateExecution
<1>19. ASSUME Cancel PROVE Tasks'
  BY <1>1, <1>19 DEF Cancel, CancelRead, CancelCommit
<1>20. ASSUME Delete PROVE Tasks'
  BY <1>1, <1>3, <1>20 DEF Delete, DeleteCheck, DeleteList
<1>21. CASE UNCHANGED vars
  BY <1>1, <1>21 DEF vars
<1>22. QED BY <1>16, <1>17, <1>18, <1>19, <1>20, <1>21 DEF Next

(* What is known of the tasks holds in every reachable state. *)
LEMMA TasksHold == Spec => [](IInv /\ Tasks)
<1>1. Init => Tasks
  BY DEF Init, Tasks
<1>2. IInv /\ Tasks /\ [Next]_vars => Tasks'
  BY StepTasks
<1>3. QED BY <1>1, <1>2, InvariantHolds, PTL DEF Spec

(* asyncio.wait, runtime_task.cancel() and the two except branches leave   *)
(* an agent at work beyond the end of its execution in one case only: the  *)
(* watcher of this very handler raised.                                    *)
THEOREM AgentStopsBeforeTheEnd == Spec => RuntimeEndsFirst
<1> DEFINE Kept == \A r \in Runners : \A e \in running[r] :
              status[e] \notin Terminal /\ status'[e] \in Terminal
                  => current[r] = e /\ watch[r] = "raised"
<1>1. ASSUME IInv, Tasks, Next PROVE Kept
  <2>0. TypeOK /\ InHand /\ Owned /\ SingleOwner
    BY <1>1 DEF IInv, Owned
  <2>1. ASSUME \A e \in Executions : status'[e] \in Terminal => status[e] \in Terminal PROVE Kept
    BY <2>0, <2>1 DEF TypeOK
  <2>2. ASSUME NEW r \in Runners, FinishCommit(r) PROVE Kept
    <3>1. current[r] \in batch[r] /\ current[r] \in Executions /\ pc[r] = "commit"
      BY <2>0, <2>2 DEF FinishCommit, InHand
    <3>2. \A e \in Executions : e # current[r] => status'[e] = status[e]
      BY <2>0, <2>2, <3>1 DEF FinishCommit, Save, TypeOK
    <3>3. \A q \in Runners : current[r] \in running[q] => q = r /\ watch[r] = "raised"
      BY <1>1, <2>0, <3>1 DEF Tasks, Owned
    <3>4. QED BY <2>0, <3>2, <3>3 DEF TypeOK
  <2>3. ASSUME NEW s \in Sessions, NEW e \in Executions, Insert(s, e) PROVE Kept
    BY <2>0, <2>1, <2>3 DEF Insert, Terminal, TypeOK
  <2>4. ASSUME NEW c \in Clients, CancelCommit(c) PROVE Kept
    <3>1. request[c] \in Request /\ request[c].op = "cancel"
      BY <2>0, <2>4 DEF CancelCommit, TypeOK
    <3>2. request[c].seen \in Terminal => RequestCancel(request[c].seen) = request[c].seen
      BY DEF RequestCancel
    <3>3. request[c].seen \notin Terminal => RequestCancel(request[c].seen) = "cancel_requested"
      BY DEF RequestCancel
    <3>4. QED BY <2>0, <2>1, <2>4, <3>2, <3>3 DEF CancelCommit, Save, Terminal, TypeOK
  <2>5. ASSUME NEW c \in Clients, DeleteCommit(c) PROVE Kept
    BY <2>0, <2>1, <2>5 DEF DeleteCommit, Terminal, TypeOK
  <2>6. ASSUME NEW r \in Runners, CommitRunning(r) PROVE Kept
    <3>1. seen[r] \in {"pending", "running"}
      BY <1>1, <2>6 DEF IInv, Reads, CommitRunning
    <3>2. QED BY <2>0, <2>1, <2>6, <3>1 DEF CommitRunning, Save, MarkRunning, Terminal, TypeOK
  <2>7. ASSUME NEW r \in Runners, Runner(r) \/ Fault(r) PROVE Kept
    BY <2>1, <2>2, <2>6, <2>7
    DEF Runner, Fault, Consume, Claim, HandleMissing, ReadExecution, Launch, WaitReturns, CheckCancel,
        FinishRead, RowVanished, Emit, Poll, RuntimeEnds, PollFails, Crash, Dies, dbVars
  <2>8. ASSUME NEW e \in Executions, DelayElapses(e) PROVE Kept
    BY <2>1, <2>8 DEF DelayElapses, dbVars
  <2>9. ASSUME Accept PROVE Kept
    BY <2>1, <2>3, <2>9 DEF Accept, CreateSession, StartSession, CreateExecution
  <2>10. ASSUME Cancel PROVE Kept
    BY <2>1, <2>4, <2>10 DEF Cancel, CancelRead, dbVars
  <2>11. ASSUME Delete PROVE Kept
    BY <2>1, <2>5, <2>11 DEF Delete, DeleteCheck, DeleteList, dbVars
  <2>12. QED BY <1>1, <2>7, <2>8, <2>9, <2>10, <2>11 DEF Next
<1>2. IInv /\ Tasks /\ [Next]_vars => [Kept]_vars
  BY <1>1
<1>3. QED BY <1>2, TasksHold, PTL DEF Spec, RuntimeEndsFirst

-----------------------------------------------------------------------------
(* The refinement of Job: what a step does to the jobs.                    *)

(* Steps that touch neither messages, runtime tasks begun nor events.      *)
LEMMA JobStutters == UNCHANGED <<outbox, started, events>> => UNCHANGED J!vars
BY DEF J!vars, JobOf

(* The messages in S change to a status that stands for the job status to. *)
LEMMA JobMoves ==
  ASSUME NEW S \in SUBSET Executions, NEW row, NEW to,
         outbox' = [e \in Executions |-> IF e \in S THEN row ELSE outbox[e]],
         UNCHANGED <<started, events>>,
         \A e \in S : JobOf(e)' = to
  PROVE  J!Moves(S, to)
BY DEF J!Moves, JobOf

(* Every step is a step of the abstract job, or leaves it alone. *)
LEMMA StepJob ==
  ASSUME IInv, Next
  PROVE  J!Next \/ UNCHANGED J!vars
<1> TypeOK /\ InHand /\ Owned /\ SingleOwner /\ Fresh /\ Rows /\ Announced
  BY DEF IInv, Owned
<1> USE ConstantsAssumption
<1>1. ASSUME UNCHANGED <<outbox, started, events>> PROVE UNCHANGED J!vars
  BY <1>1, JobStutters
<1>2. ASSUME NEW s \in Sessions, NEW e \in Executions, Insert(s, e) PROVE J!Accept(e)
  <2>1. outbox[e] = "none"
    BY <1>2 DEF Insert, Rows
  <2>2. outbox' = [f \in Executions |-> IF f \in {e} THEN "pending" ELSE outbox[f]]
    BY <1>2 DEF Insert, TypeOK
  <2>3. J!Moves({e}, "queued")
    <3>1. \A f \in {e} : JobOf(f)' = "queued"
      BY <2>2 DEF JobOf
    <3>2. QED BY <1>2, <2>2, <3>1, JobMoves DEF Insert, history
  <2>4. QED BY <2>1, <2>3 DEF J!Accept, JobOf
<1>3. ASSUME NEW c \in Clients, DeleteCommit(c) PROVE \E S \in SUBSET Executions : J!Withdraw(S)
  <2> DEFINE S == {e \in Executions : e \in request[c].ids}
  <2>1. request[c] \in Request /\ request[c].op = "delete_listed"
    BY <1>3 DEF DeleteCommit, TypeOK
  <2>2. request[c].session \in Sessions /\ request[c].ids \subseteq members[request[c].session]
    BY <2>1, <1>3, RequestKinds DEF IInv, Requests
  <2>3. \A e \in S : outbox[e] # "none"
    BY <2>2 DEF IInv, Requests, Rows
  <2>4. outbox' = [f \in Executions |-> IF f \in S THEN "deleted" ELSE outbox[f]]
    BY <1>3 DEF DeleteCommit
  <2>5. J!Moves(S, "withdrawn")
    BY <1>3, <2>4, JobMoves DEF DeleteCommit, history, JobOf
  <2>6. \A e \in S : JobOf(e) # "none"
    BY <2>3 DEF JobOf, TypeOK, OutboxRow, Settled
  <2>7. QED BY <2>5, <2>6 DEF J!Withdraw
<1>4. ASSUME NEW r \in Runners, Claim(r) PROVE \E S \in SUBSET Executions : J!Take(S)
  <2>1. PICK S \in SUBSET Claimable :
          outbox' = [e \in Executions |-> IF e \in S THEN "processing" ELSE outbox[e]]
    BY <1>4 DEF Claim
  <2>2. S \in SUBSET Executions /\ \A e \in S : outbox[e] = "pending"
    BY <2>1 DEF Claimable
  <2>3. J!Moves(S, "taken")
    BY <1>4, <2>1, <2>2, JobMoves DEF Claim, history, JobOf
  <2>4. QED BY <2>2, <2>3 DEF J!Take, JobOf
<1>5. ASSUME NEW r \in Runners, NEW e \in Executions, HandleMissing(r, e)
      PROVE  J!Requeue(e) \/ J!Close(e) \/ UNCHANGED J!vars
  <2>1. CASE outbox[e] = "deleted"
    BY <1>1, <1>5, <2>1 DEF HandleMissing, history
  <2>2. CASE outbox[e] # "deleted"
    <3>1. outbox[e] = "processing" /\ started[e] = 0
      BY <1>5, <2>2 DEF HandleMissing, NextMessage, SingleOwner, Fresh, InHand
    <3>2. \/ outbox' = [f \in Executions |-> IF f \in {e} THEN "failed" ELSE outbox[f]]
          \/ outbox' = [f \in Executions |-> IF f \in {e} THEN "pending" ELSE outbox[f]]
      BY <1>5, <2>2 DEF HandleMissing, TypeOK
    <3>3. J!Moves({e}, "failed") \/ J!Moves({e}, "queued")
      BY <1>5, <3>2, JobMoves DEF HandleMissing, history, JobOf
    <3>4. QED BY <3>1, <3>3 DEF J!Requeue, J!Close, J!Closed, JobOf
  <2>3. QED BY <2>1, <2>2
<1>6. ASSUME NEW r \in Runners, Launch(r)
      PROVE  \/ \E e \in Executions : J!Run(e)
             \/ UNCHANGED J!vars
  <2> DEFINE e == current[r]
  <2>1. e \in Executions /\ e \in batch[r]
    BY <1>6 DEF Launch, InHand
  <2>2. outbox[e] \in {"processing", "deleted"} /\ started[e] = 0
    BY <1>6, <2>1 DEF Launch, SingleOwner, Fresh
  <2>3. UNCHANGED <<outbox, events>>
    BY <1>6 DEF Launch, outboxVars
  <2>4. CASE UNCHANGED started
    BY <1>1, <2>3, <2>4
  <2>5. CASE started' = [started EXCEPT ![e] = @ + 1]
    <3>1. started' = [started EXCEPT ![e] = 1]
      BY <2>1, <2>2, <2>5 DEF TypeOK
    <3>2. J!Run(e)
      BY <2>1, <2>2, <2>3, <3>1 DEF J!Run, JobOf
    <3>3. QED BY <2>1, <3>2
  <2>6. QED BY <1>6, <2>4, <2>5 DEF Launch
<1>7. ASSUME NEW r \in Runners, FinishCommit(r)
      PROVE  \/ \E e \in Executions : J!Close(e)
             \/ UNCHANGED J!vars
  <2> DEFINE e == current[r]
  <2>1. e \in Executions /\ e \in batch[r]
    BY <1>7 DEF FinishCommit, InHand
  <2>2. UNCHANGED <<started, events>>
    BY <1>7 DEF FinishCommit, history
  <2>3. CASE outbox[e] = "deleted"
    BY <1>1, <1>7, <2>2, <2>3 DEF FinishCommit
  <2>4. CASE outbox[e] # "deleted"
    <3>1. outbox[e] = "processing"
      BY <2>1, <2>4 DEF SingleOwner
    <3> DEFINE how == SettledAs(outcome[r])
    <3>2. outbox' = [f \in Executions |-> IF f \in {e} THEN how ELSE outbox[f]]
      BY <1>7, <2>4 DEF FinishCommit, TypeOK
    <3>3. how \in {"processed", "failed"}
      BY DEF SettledAs
    <3>4. J!Moves({e}, how)
      <4>1. \A f \in {e} : JobOf(f)' = how
        BY <2>1, <3>2, <3>3 DEF JobOf
      <4>2. QED BY <2>1, <2>2, <3>2, <4>1, JobMoves
    <3>5. J!Close(e)
      <4>1. [f \in Executions |-> JobOf(f)][e] = "taken"
        BY <2>1, <3>1 DEF JobOf
      <4>2. QED BY <3>3, <3>4, <4>1 DEF J!Close, J!Closed
    <3>6. QED BY <2>1, <3>5
  <2>5. QED BY <2>3, <2>4
<1>8. ASSUME NEW r \in Runners, Emit(r)
      PROVE  \/ \E e \in Executions : \E end \in J!Ends : J!Announce(e, end)
             \/ UNCHANGED J!vars
  <2> DEFINE e == current[r]
  <2>1. e \in Executions /\ outcome[r] \in Terminal /\ events[e] = {} /\ outbox[e] \in Settled
    BY <1>8 DEF Emit, InHand, Announced, SettledAs, Settled
  <2>2. outbox[e] # "deleted" => (outcome[r] = "failed" <=> outbox[e] = "failed")
    BY <1>8, <2>1 DEF Emit, Announced, SettledAs, Terminal
  <2>3. UNCHANGED <<outbox, started>>
    BY <1>8 DEF Emit, outboxVars
  <2>4. CASE events' = events
    BY <1>1, <2>3, <2>4
  <2>5. CASE events' = [events EXCEPT ![e] = {outcome[r]}]
    <3>1. J!Announce(e, outcome[r])
      BY <2>1, <2>2, <2>3, <2>5 DEF J!Announce, J!Closed, JobOf, Settled
    <3>2. QED BY <2>1, <3>1 DEF J!Ends, Terminal
  <2>6. QED
    <3>1. events' = [events EXCEPT ![e] = @ \cup {}] \/ events' = [events EXCEPT ![e] = @ \cup {outcome[r]}]
      BY <1>8 DEF Emit
    <3>2. CASE events' = [events EXCEPT ![e] = @ \cup {}]
      <4>1. events' = events
        BY <2>1, <3>2 DEF TypeOK
      <4>2. QED BY <2>4, <4>1
    <3>3. CASE events' = [events EXCEPT ![e] = @ \cup {outcome[r]}]
      <4>1. events' = [events EXCEPT ![e] = {outcome[r]}]
        BY <2>1, <3>3 DEF TypeOK
      <4>2. QED BY <2>5, <4>1
    <3>4. QED BY <3>1, <3>2, <3>3
<1>9. ASSUME NEW r \in Runners, Runner(r) \/ Fault(r) PROVE J!Next \/ UNCHANGED J!vars
  BY <1>1, <1>4, <1>5, <1>6, <1>7, <1>8, <1>9
  DEF J!Next, Runner, Fault, Consume, ReadExecution, CommitRunning, WaitReturns, CheckCancel, FinishRead,
      RowVanished, Poll, RuntimeEnds, PollFails, Crash, Dies, outboxVars, history
<1>10. ASSUME NEW e \in Executions, DelayElapses(e) PROVE UNCHANGED J!vars
  BY <1>1, <1>10 DEF DelayElapses, history
<1>11. ASSUME Accept PROVE J!Next \/ UNCHANGED J!vars
  BY <1>1, <1>2, <1>11
  DEF J!Next, Accept, CreateSession, StartSession, CreateExecution, outboxVars, history
<1>12. ASSUME Cancel PROVE UNCHANGED J!vars
  BY <1>1, <1>12 DEF Cancel, CancelRead, CancelCommit, outboxVars, history
<1>13. ASSUME Delete PROVE J!Next \/ UNCHANGED J!vars
  BY <1>1, <1>3, <1>13 DEF J!Next, Delete, DeleteCheck, DeleteList, outboxVars, history
<1>14. QED BY <1>9, <1>10, <1>11, <1>12, <1>13 DEF Next

(* The tables, runtime tasks and lifecycle events of any number of runners *)
(* and API requests implement Job: initial states map to initial states    *)
(* and every step to a step of Job or to a stutter.                        *)
THEOREM LifecycleImplementsJob == Spec => ImplementsJob
<1>1. Init => J!Init
  BY DEF Init, J!Init, JobOf
<1>2. IInv /\ [Next]_vars => [J!Next]_(J!vars)
  <2>1. CASE UNCHANGED vars
    BY <2>1, JobStutters DEF vars, outboxVars, history
  <2>2. QED BY <2>1, StepJob
<1>3. QED BY <1>1, <1>2, InvariantHolds, PTL DEF Spec, ImplementsJob, J!Spec

=============================================================================
