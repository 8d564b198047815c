------------------------- MODULE Observation_proofs -------------------------
(***************************************************************************)
(* Proofs about Observation for any number of observers, events and any    *)
(* stream length.  IInv (types, and that every end known anywhere is the   *)
(* row's) is preserved with every fault; the order of the stream needs     *)
(* that no runtime is abandoned, the completeness of the projection that   *)
(* no emission is cut off.                                                 *)
(***************************************************************************)
EXTENDS Observation, FiniteSetTheorems, WellFoundedInduction, TLAPS

(* The newest of the entries below an id is one of them. *)
LEMMA NewestIsMember ==
  ASSUME NEW S, S \subseteq Entry, S # {}, NEW n \in Nat, \A x \in S : x.id <= n
  PROVE  Newest(S) \in S /\ \A y \in S : y.id <= Newest(S).id
<1> DEFINE T == {n - x.id : x \in S}
<1> DEFINE R == OpToRel(<, Nat)
<1>1. \A x \in S : x.id \in Nat
  BY DEF Entry
<1>2. T \subseteq Nat /\ T # {}
  BY <1>1
<1>3. PICK t \in T : \A u \in T : ~(<<u, t>> \in R)
  <2>1. IsWellFoundedOn(R, Nat)
    BY NatLessThanWellFounded
  <2> HIDE DEF T, R
  <2>2. QED BY <1>2, <2>1, WFMin
<1>4. PICK x \in S : t = n - x.id
  BY <1>3
<1>5. ASSUME NEW y \in S PROVE y.id <= x.id
  <2>1. n - y.id \in T /\ n - y.id \in Nat /\ t \in Nat
    BY <1>2, <1>3
  <2>2. ~(n - y.id < t)
    BY <1>3, <2>1 DEF OpToRel
  <2>3. QED BY <1>1, <1>4, <2>1, <2>2
<1>6. \E z \in S : \A y \in S : y.id <= z.id
  BY <1>5
<1>7. QED BY <1>6 DEF Newest

(* The oldest of some entries is one of them. *)
LEMMA OldestIsMember ==
  ASSUME NEW S, S \subseteq Entry, S # {}
  PROVE  Oldest(S) \in S
<1> DEFINE T == {x.id : x \in S}
<1> DEFINE R == OpToRel(<, Nat)
<1>1. \A x \in S : x.id \in Nat
  BY DEF Entry
<1>2. T \subseteq Nat /\ T # {}
  BY <1>1
<1>3. PICK t \in T : \A u \in T : ~(<<u, t>> \in R)
  <2>1. IsWellFoundedOn(R, Nat)
    BY NatLessThanWellFounded
  <2> HIDE DEF T, R
  <2>2. QED BY <1>2, <2>1, WFMin
<1>4. PICK x \in S : t = x.id
  BY <1>3
<1>5. ASSUME NEW y \in S PROVE x.id <= y.id
  <2>1. y.id \in T /\ y.id \in Nat /\ t \in Nat
    BY <1>2, <1>3
  <2>2. ~(y.id < t)
    BY <1>3, <2>1 DEF OpToRel
  <2>3. QED BY <1>1, <1>4, <2>1, <2>2
<1>6. \E z \in S : \A y \in S : z.id <= y.id
  BY <1>5
<1>7. QED BY <1>6 DEF Oldest

(* Folding an event into a projection gives a projection. *)
LEMMA ReduceType ==
  ASSUME NEW p \in Projection, NEW n \in Nat, NEW k \in Kinds
  PROVE  /\ Reduce(p, n, k) \in Projection
         /\ Reduce(p, n, k).seq = n
         /\ Reduce(p, n, k).content = p.content \cup {n}
         /\ Reduce(p, n, k).status \in {p.status, "running", k}
         /\ Reduce(p, n, k).status \in Ends => Reduce(p, n, k).status \in {p.status, k}
BY DEF Reduce, Projection, Kinds, Ends, Status

(* What a resolution shows after replaying the retained events. *)
LEMMA ReplayedType ==
  ASSUME TypeOK, Resolving, Truthful, Numbered, NEW o \in Observers, pc[o] = "retained"
  PROVE  /\ Replayed(o) \in Projection
         /\ Holds(Replayed(o).status)
         /\ Replayed(o).seq = found[o].last.seq
         /\ Replayed(o).content = found[o].hot.content \cup {x.seq : x \in Relevant(o)}
<1> DEFINE h == found[o].hot
           S == {x \in Relevant(o) : x.kind # "step"}
           C == {x.seq : x \in Relevant(o)}
           p == IF S = {} THEN h ELSE Reduce(h, Newest(S).seq, Newest(S).kind)
<1>1. h \in Projection /\ found[o].last \in Entry /\ Holds(h.status)
  BY DEF TypeOK, Reading, Resolving, Truthful
<1>2. Relevant(o) \subseteq stream
  BY DEF Relevant, FirstOf
<1>3. S \subseteq stream /\ S \subseteq Entry /\ lastId \in Nat
  BY <1>2 DEF TypeOK
<1>4. p \in Projection /\ Holds(p.status)
  <2>1. CASE S = {}
    BY <1>1, <2>1
  <2>2. CASE S # {}
    <3> HIDE DEF S
    <3>1. Newest(S) \in S
      BY <1>3, <2>2, NewestIsMember DEF Numbered
    <3>2. Newest(S) \in stream /\ Newest(S).seq \in Nat /\ Newest(S).kind \in Kinds
      BY <1>3, <3>1 DEF Entry
    <3> DEFINE q == Reduce(h, Newest(S).seq, Newest(S).kind)
    <3>3. q \in Projection /\ (q.status \in Ends => q.status \in {h.status, Newest(S).kind})
      BY <1>1, <3>2, ReduceType
    <3>4. Holds(Newest(S).kind)
      BY <3>2 DEF Truthful
    <3> HIDE DEF q
    <3>5. Holds(q.status)
      BY <1>1, <3>3, <3>4 DEF Holds
    <3>6. p = q
      BY <2>2 DEF q
    <3>7. QED BY <3>3, <3>5, <3>6
  <2>3. QED BY <2>1, <2>2
<1>5. C \subseteq Nat
  BY <1>2 DEF TypeOK, Entry
<1>6. Replayed(o) = [p EXCEPT !.seq = found[o].last.seq, !.content = @ \cup C]
  BY DEF Replayed
<1>7. p.content = h.content \/ \E x \in S : p.content = h.content \cup {x.seq}
  <2>1. CASE S = {}
    BY <2>1
  <2>2. CASE S # {}
    <3> HIDE DEF S
    <3>1. Newest(S) \in S
      BY <1>3, <2>2, NewestIsMember DEF Numbered
    <3>2. Newest(S).seq \in Nat /\ Newest(S).kind \in Kinds
      BY <1>3, <3>1 DEF Entry
    <3>3. Reduce(h, Newest(S).seq, Newest(S).kind).content = h.content \cup {Newest(S).seq}
      BY <1>1, <3>2, ReduceType
    <3>4. QED BY <2>2, <3>1, <3>3
  <2>3. QED BY <2>1, <2>2
<1> HIDE DEF p
<1>8. p.content \cup C = h.content \cup C
  <2>1. \A x \in S : x.seq \in C
    OBVIOUS
  <2>2. QED BY <1>7, <2>1
<1>9. QED
  <2>1. /\ Replayed(o).seq = found[o].last.seq
        /\ Replayed(o).status = p.status
        /\ Replayed(o).content = p.content \cup C
        /\ Replayed(o) \in Projection
    BY <1>1, <1>4, <1>5, <1>6 DEF Projection, Entry
  <2>2. QED BY <1>4, <1>8, <2>1

(* What is shown of an execution without a projection. *)
LEMMA InitialProjectionType ==
  ASSUME NEW s \in Status
  PROVE  /\ InitialProjection(s) \in Projection
         /\ InitialProjection(s).status = s
BY DEF InitialProjection, Projection

(* An emission that moves on is one still, with the same event. *)
LEMMA EmissionMoves ==
  ASSUME NEW e \in Emission, NEW s \in Stages
  PROVE  /\ [e EXCEPT !.stage = s] \in Emission
         /\ [e EXCEPT !.stage = s].stage = s
         /\ [e EXCEPT !.stage = s].kind = e.kind
         /\ [e EXCEPT !.stage = s].seq = e.seq
         /\ [e EXCEPT !.stage = s].base = e.base
BY DEF Emission

(* A state frame keeps the invariant if what it shows of an end is true. *)
LEMMA SendStateIInv ==
  ASSUME IInv, NEW o \in Observers, NEW p \in Projection, Holds(p.status), NEW live \in BOOLEAN,
         NEW last, live => last \in Entry, SendState(o, p, live, last),
         UNCHANGED <<row, emission, redis, found>>
  PROVE  IInv'
<1> TypeOK /\ Emitting /\ Resolving /\ Handling /\ Truthful /\ Numbered
  BY DEF IInv
<1> USE DEF row, redis
<1>1. p.seq \in Nat
  BY DEF Projection
<1>2. /\ view' \in [Observers -> View]
      /\ \A u \in Observers : view'[u].shown \in {view[u].shown, p}
  BY DEF SendState, TypeOK, View
<1>3. cursor' \in [Observers -> Nat] /\ reached' \in [Observers -> Nat]
  BY <1>1 DEF SendState, TypeOK, Entry
<1>4. /\ pc' \in [Observers -> Places]
      /\ \A u \in Observers : pc'[u] = pc[u] \/ pc'[u] \in {"tail", "returned"}
      /\ UNCHANGED <<polling, inbox>>
  BY DEF SendState, TypeOK, Places
<1>5. TypeOK'
  BY <1>2, <1>3, <1>4 DEF TypeOK
<1>6. Truthful'
  BY <1>2, <1>4 DEF Truthful, Holds
<1>7. (Emitting /\ Resolving /\ Handling /\ Numbered)'
  BY <1>4 DEF Emitting, Resolving, Handling, Numbered
<1>8. QED BY <1>5, <1>6, <1>7 DEF IInv

(* So does the frame that reports a gap. *)
LEMMA SendGapIInv ==
  ASSUME IInv, NEW o \in Observers, SendGap(o), UNCHANGED <<row, emission, redis, found>>,
         cursor' \in [Observers -> Nat], inbox' \in [Observers -> SUBSET Entry],
         \A u \in Observers : inbox'[u] \subseteq inbox[u]
  PROVE  IInv'
<1> TypeOK /\ Emitting /\ Resolving /\ Handling /\ Truthful /\ Numbered
  BY DEF IInv
<1> USE DEF row, redis
<1>1. /\ view' \in [Observers -> View]
      /\ \A u \in Observers : view'[u].shown = view[u].shown
  BY DEF SendGap, TypeOK, View
<1>2. /\ pc' \in [Observers -> Places]
      /\ \A u \in Observers : pc'[u] = pc[u] \/ pc'[u] = "returned"
      /\ UNCHANGED <<polling, reached>>
  BY DEF SendGap, TypeOK, Places
<1>3. TypeOK'
  BY <1>1, <1>2 DEF TypeOK
<1>4. Truthful'
  BY <1>1, <1>2 DEF Truthful, Holds
<1>5. (Emitting /\ Resolving /\ Handling /\ Numbered)'
  BY <1>2 DEF Emitting, Resolving, Handling, Numbered
<1>6. QED BY <1>3, <1>4, <1>5 DEF IInv

(* The initial state satisfies the inductive invariant. *)
LEMMA InitIInv == Init => IInv
<1> SUFFICES ASSUME Init PROVE IInv
  OBVIOUS
<1>1. InitialProjection("pending") \in Projection /\ InitialProjection("pending").status = "pending"
  BY InitialProjectionType DEF Status
<1>2. TypeOK
  BY <1>1 DEF Init, TypeOK, NoEmission, Fresh, NoView, Status, Kinds, Sinks, Emission, Stages,
      Reading, Places, View
<1>3. Truthful
  BY <1>1 DEF Init, Truthful, Holds, NoEmission, Fresh, NoView, Ends
<1>4. Emitting /\ Resolving /\ Handling /\ Numbered
  BY DEF Init, Emitting, Resolving, Handling, Numbered, NoEmission
<1>5. QED BY <1>2, <1>3, <1>4 DEF IInv

(* Every action of the handler, of the sinks and of the observers, and     *)
(* every fault, preserves it.                                              *)
LEMMA StepIInv == IInv /\ [Next]_vars => IInv'
<1> SUFFICES ASSUME IInv, [Next]_vars PROVE IInv'
  OBVIOUS
<1> TypeOK /\ Emitting /\ Resolving /\ Handling /\ Truthful /\ Numbered
  BY DEF IInv
<1> USE DEF row, redis, observer
<1>1. ASSUME CommitRunning PROVE IInv'
  <2>1. TypeOK'
    BY <1>1 DEF TypeOK, CommitRunning, Status, Ends
  <2>2. Handling'
    BY <1>1 DEF Handling, TypeOK, CommitRunning, Status, Ends
  <2>3. Truthful'
    BY <1>1 DEF Truthful, Holds, Handling, CommitRunning, Ends
  <2>4. (Emitting /\ Resolving /\ Numbered)'
    BY <1>1 DEF Emitting, Resolving, Numbered, CommitRunning, Status, Ends
  <2>q. QED BY <2>1, <2>2, <2>3, <2>4 DEF IInv
<1>2. ASSUME CommitCancelled PROVE IInv'
  <2>1. TypeOK'
    BY <1>2 DEF TypeOK, CommitCancelled, Status, Ends
  <2>2. Handling'
    BY <1>2 DEF Handling, TypeOK, CommitCancelled, Status, Ends
  <2>3. Truthful'
    BY <1>2 DEF Truthful, Holds, Handling, CommitCancelled, Ends
  <2>4. (Emitting /\ Resolving /\ Numbered)'
    BY <1>2 DEF Emitting, Resolving, Numbered, CommitCancelled, Status, Ends
  <2>q. QED BY <2>1, <2>2, <2>3, <2>4 DEF IInv
<1>3. ASSUME EmitStarted PROVE IInv'
  <2>1. TypeOK'
    BY <1>3 DEF TypeOK, Emission, Stages, EmitStarted, Emit, Idle, Kinds, Ends, Sinks
  <2>2. Emitting'
    BY <1>3 DEF Emitting, TypeOK, EmitStarted, Emit, Idle, Kinds, Ends, Sinks
  <2>3. Truthful'
    BY <1>3 DEF Truthful, Holds, TypeOK, EmitStarted, Emit, Idle, Kinds, Ends, Sinks
  <2>4. (Resolving /\ Handling /\ Numbered)'
    BY <1>3 DEF Resolving, Handling, Numbered, EmitStarted, Emit, Idle, Kinds, Ends, Sinks
  <2>q. QED BY <2>1, <2>2, <2>3, <2>4 DEF IInv
<1>4. ASSUME EmitStep PROVE IInv'
  <2>1. TypeOK'
    BY <1>4 DEF TypeOK, Emission, Stages, EmitStep, Emit, Idle, Kinds, Ends, Sinks
  <2>2. Emitting'
    BY <1>4 DEF Emitting, TypeOK, EmitStep, Emit, Idle, Kinds, Ends, Sinks
  <2>3. Truthful'
    BY <1>4 DEF Truthful, Holds, TypeOK, EmitStep, Emit, Idle, Kinds, Ends, Sinks
  <2>4. (Resolving /\ Handling /\ Numbered)'
    BY <1>4 DEF Resolving, Handling, Numbered, EmitStep, Emit, Idle, Kinds, Ends, Sinks
  <2>q. QED BY <2>1, <2>2, <2>3, <2>4 DEF IInv
<1>5. ASSUME EmitEnd PROVE IInv'
  <2>1. TypeOK'
    BY <1>5 DEF TypeOK, Emission, Stages, EmitEnd, Emit, Idle, Handling, Kinds, Ends, Sinks
  <2>2. Emitting'
    BY <1>5 DEF Emitting, TypeOK, EmitEnd, Emit, Idle, Handling, Kinds, Ends, Sinks
  <2>3. Truthful'
    BY <1>5 DEF Truthful, Holds, TypeOK, EmitEnd, Emit, Idle, Handling, Kinds, Ends, Sinks
  <2>4. (Resolving /\ Handling /\ Numbered)'
    BY <1>5 DEF Resolving, Handling, Numbered, EmitEnd, Emit, Idle, Kinds, Ends, Sinks
  <2>q. QED BY <2>1, <2>2, <2>3, <2>4 DEF IInv
<1>6. ASSUME NEW w \in Sinks, Append(w) PROVE IInv'
  <2> DEFINE new == [id |-> lastId + 1, seq |-> emission[w].seq, kind |-> emission[w].kind]
  <2>1. /\ new \in Entry /\ new.id = lastId + 1 /\ new.kind = emission[w].kind
        /\ lastId \in Nat
    BY <1>6 DEF TypeOK, Emission, Append, Emitting, Entry
  <2>2. /\ lastId' = new.id
        /\ stream' \subseteq stream \cup {new}
        /\ emission' = [emission EXCEPT ![w] = [emission[w] EXCEPT !.stage = "project"]]
        /\ UNCHANGED <<row, counter, hot, observer>>
    BY <1>6 DEF Append, Trimmed
  <2> DEFINE next == [emission[w] EXCEPT !.stage = "project"]
  <2>m. /\ next \in Emission /\ next.stage = "project"
        /\ next.kind = emission[w].kind /\ next.base = emission[w].base
    <3> emission[w] \in Emission /\ emission[w].base \in Projection \cup {None}
      BY DEF TypeOK, Emission
    <3> QED BY EmissionMoves DEF Stages
  <2> HIDE DEF new, next
  <2>3. TypeOK'
    <3>1. (stream \subseteq Entry)' /\ (lastId \in Nat)'
      BY <2>1, <2>2 DEF TypeOK
    <3>2. emission' \in [Sinks -> Emission]
      BY <2>2, <2>m DEF TypeOK, next
    <3>3. QED BY <2>2, <3>1, <3>2 DEF TypeOK
  <2>4. Emitting'
    BY <2>1, <2>2, <2>m DEF Emitting, TypeOK, Entry, next
  <2>5. Truthful'
    <3>1. Holds(new.kind)
      BY <2>1 DEF Truthful
    <3>2. \A x \in stream' : Holds(x.kind)'
      BY <2>2, <3>1 DEF Truthful, Holds
    <3>3. QED BY <2>2, <2>m, <3>2 DEF Truthful, Holds, TypeOK, next
  <2>6. Numbered'
    <3>1. \A x \in stream : x.id \in Nat
      BY DEF TypeOK, Entry
    <3>2. QED BY <2>1, <2>2, <3>1 DEF Numbered
  <2>7. (Resolving /\ Handling)'
    BY <2>2 DEF Resolving, Handling
  <2>8. QED BY <2>3, <2>4, <2>5, <2>6, <2>7 DEF IInv
<1>7. ASSUME NEW w \in Sinks, Project(w) PROVE IInv'
  <2> DEFINE b == IF hot = None THEN InitialProjection("pending") ELSE hot
  <2>1. b \in Projection /\ b # None /\ Holds(b.status)
    BY InitialProjectionType, NoneAssumption DEF TypeOK, Truthful, Holds, Status, Ends
  <2> DEFINE next == [emission[w] EXCEPT !.stage = "save", !.base = b]
  <2>2. /\ emission' = [emission EXCEPT ![w] = next]
        /\ emission[w].stage = "project"
        /\ UNCHANGED <<row, redis, observer>>
    BY <1>7 DEF Project
  <2> HIDE DEF b
  <2>3. next \in Emission /\ next.kind = emission[w].kind /\ next.base = b
    <3> emission[w] \in Emission
      BY DEF TypeOK
    <3> QED BY <2>1 DEF Emission, Stages
  <2> HIDE DEF next
  <2>4. TypeOK'
    BY <2>2, <2>3 DEF TypeOK
  <2>5. Emitting'
    BY <2>1, <2>2, <2>3 DEF Emitting, TypeOK
  <2>6. Truthful'
    BY <2>1, <2>2, <2>3 DEF Truthful, Holds, TypeOK
  <2>7. (Resolving /\ Handling /\ Numbered)'
    BY <2>2 DEF Resolving, Handling, Numbered
  <2>8. QED BY <2>4, <2>5, <2>6, <2>7 DEF IInv
<1>8. ASSUME NEW w \in Sinks, SaveHot(w) PROVE IInv'
  <2> DEFINE p == SavedProjection(w)
             next == [emission[w] EXCEPT !.stage = "trace"]
  <2>1. /\ emission[w].base \in Projection
        /\ emission[w].seq \in Nat
        /\ emission[w].kind \in Kinds
    BY <1>8 DEF SaveHot, Emitting, TypeOK, Emission
  <2>2. p \in Projection /\ (p.status \in Ends => p.status \in {emission[w].base.status, emission[w].kind})
    BY <2>1, ReduceType DEF SavedProjection
  <2>3. Holds(emission[w].base.status) /\ Holds(emission[w].kind)
    BY <2>1, NoneAssumption DEF Truthful
  <2>4. /\ hot' = p
        /\ emission' = [emission EXCEPT ![w] = next]
        /\ UNCHANGED <<row, counter, lastId, stream, observer>>
    BY <1>8 DEF SaveHot
  <2>5. /\ next \in Emission /\ next.stage = "trace"
        /\ next.kind = emission[w].kind /\ next.base = emission[w].base
    <3> emission[w] \in Emission /\ emission[w].base \in Projection \cup {None}
      BY DEF TypeOK, Emission
    <3> QED BY EmissionMoves DEF Stages
  <2> HIDE DEF p, next
  <2>6. Holds(p.status)
    BY <2>2, <2>3 DEF Holds
  <2>7. TypeOK'
    BY <2>2, <2>4, <2>5 DEF TypeOK
  <2>8. Emitting'
    BY <2>1, <2>4, <2>5 DEF Emitting, TypeOK
  <2>9. Truthful'
    BY <2>4, <2>5, <2>6 DEF Truthful, Holds, TypeOK
  <2>10. (Resolving /\ Handling /\ Numbered)'
    BY <2>4 DEF Resolving, Handling, Numbered
  <2>11. QED BY <2>7, <2>8, <2>9, <2>10 DEF IInv
<1>9. ASSUME NEW w \in Sinks, EmitReturns(w) PROVE IInv'
  <2>1. TypeOK'
    BY <1>9 DEF TypeOK, Emission, Stages, EmitReturns, AfterLifecycle, NoEmission
  <2>2. Emitting'
    BY <1>9 DEF Emitting, TypeOK, EmitReturns, AfterLifecycle, NoEmission
  <2>3. Handling'
    BY <1>9 DEF Handling, TypeOK, EmitReturns, AfterLifecycle, NoEmission
  <2>4. Truthful'
    <3>1. \A v \in Sinks : emission'[v] = emission[v] \/ emission'[v] = NoEmission
      BY <1>9 DEF EmitReturns, TypeOK
    <3>2. UNCHANGED <<status, stream, hot, observer>>
      BY <1>9 DEF EmitReturns
    <3>3. QED BY <3>1, <3>2 DEF Truthful, Holds, NoEmission, Ends
  <2>5. (Resolving /\ Numbered)'
    BY <1>9 DEF Resolving, Numbered, EmitReturns, AfterLifecycle, NoEmission
  <2>q. QED BY <2>1, <2>2, <2>3, <2>4, <2>5 DEF IInv
<1>10. ASSUME RuntimeReturns PROVE IInv'
  <2>1. TypeOK'
    BY <1>10 DEF TypeOK, RuntimeReturns, Ends
  <2>2. Handling'
    BY <1>10 DEF Handling, TypeOK, RuntimeReturns, Ends
  <2>3. (Emitting /\ Resolving /\ Truthful /\ Numbered)'
    BY <1>10 DEF Emitting, Resolving, Truthful, Holds, Numbered, RuntimeReturns, Ends
  <2>q. QED BY <2>1, <2>2, <2>3 DEF IInv
<1>11. ASSUME CommitEnd PROVE IInv'
  <2>1. TypeOK'
    BY <1>11 DEF TypeOK, CommitEnd, Handling, Status, Ends
  <2>2. Handling'
    BY <1>11 DEF Handling, TypeOK, CommitEnd, Status, Ends
  <2>3. Truthful'
    BY <1>11 DEF Truthful, Holds, TypeOK, CommitEnd, Handling, Status, Ends
  <2>4. (Emitting /\ Resolving /\ Numbered)'
    BY <1>11 DEF Emitting, Resolving, Numbered, CommitEnd, Handling, Status, Ends
  <2>q. QED BY <2>1, <2>2, <2>3, <2>4 DEF IInv
<1>12. ASSUME Expire PROVE IInv'
  <2>1. TypeOK'
    BY <1>12 DEF TypeOK, Expire
  <2>2. Truthful'
    BY <1>12 DEF Truthful, Holds, TypeOK, Expire
  <2>3. Numbered'
    BY <1>12 DEF Numbered, TypeOK, Expire
  <2>4. (Emitting /\ Resolving /\ Handling)'
    BY <1>12 DEF Emitting, Resolving, Handling, Expire
  <2>q. QED BY <2>1, <2>2, <2>3, <2>4 DEF IInv
<1>13. ASSUME NEW o \in Observers, ReadDurable(o) PROVE IInv'
  <2>1. TypeOK'
    BY <1>13 DEF TypeOK, Reading, Places, ReadDurable, Fresh
  <2>2. Resolving'
    BY <1>13 DEF Resolving, TypeOK, ReadDurable, Fresh
  <2>3. Truthful'
    BY <1>13 DEF Truthful, Holds, TypeOK, ReadDurable, Fresh
  <2>4. (Emitting /\ Handling /\ Numbered)'
    BY <1>13 DEF Emitting, Handling, Numbered, ReadDurable, Fresh
  <2>q. QED BY <2>1, <2>2, <2>3, <2>4 DEF IInv
<1>14. ASSUME NEW o \in Observers, ReadHot(o) PROVE IInv'
  <2>1. CASE hot = None
    <3> DEFINE p == InitialProjection(found[o].status)
    <3>1. p \in Projection /\ Holds(p.status)
      BY InitialProjectionType DEF TypeOK, Reading, Truthful
    <3>2. /\ view' \in [Observers -> View]
          /\ \A u \in Observers : view'[u].shown \in {view[u].shown, p}
      <4> DEFINE v(end) == [shown |-> p, live |-> FALSE, end |-> end]
      <4>1. \/ view' = view
            \/ view' = [view EXCEPT ![o] = v("terminal")]
            \/ view' = [view EXCEPT ![o] = v("none")]
        BY <1>14, <2>1 DEF ReadHot, AwaitRuntime
      <4> HIDE DEF p
      <4>2. \A end \in {"terminal", "none"} : v(end) \in View /\ v(end).shown = p
        BY <3>1 DEF View
      <4> HIDE DEF v
      <4>3. QED BY <4>1, <4>2 DEF TypeOK
    <3>3. /\ \A u \in Observers : pc'[u] = pc[u] \/ pc'[u] \in {"returned", "waiting"}
          /\ pc' \in [Observers -> Places]
          /\ polling' \in [Observers -> BOOLEAN]
          /\ UNCHANGED <<row, emission, redis, found, inbox, cursor, reached>>
      BY <1>14, <2>1 DEF ReadHot, AwaitRuntime, TypeOK, Places
    <3> HIDE DEF p
    <3>4. TypeOK'
      BY <3>2, <3>3 DEF TypeOK
    <3>5. Truthful'
      BY <3>1, <3>2, <3>3 DEF Truthful, Holds
    <3>6. (Emitting /\ Resolving /\ Handling /\ Numbered)'
      BY <3>3 DEF Emitting, Resolving, Handling, Numbered
    <3>7. QED BY <3>4, <3>5, <3>6 DEF IInv
  <2>2. CASE hot # None
    <3>1. /\ found' = [found EXCEPT ![o].hot = hot]
          /\ pc' = [pc EXCEPT ![o] = "latest"]
          /\ UNCHANGED <<row, emission, redis, polling, inbox, cursor, view, reached>>
      BY <1>14, <2>2 DEF ReadHot
    <3>2. TypeOK'
      BY <3>1 DEF TypeOK, Reading, Places
    <3>3. Resolving'
      BY <2>2, <3>1 DEF Resolving, TypeOK
    <3>4. Truthful'
      BY <2>2, <3>1 DEF Truthful, Holds, TypeOK
    <3>5. (Emitting /\ Handling /\ Numbered)'
      BY <3>1 DEF Emitting, Handling, Numbered
    <3>6. QED BY <3>2, <3>3, <3>4, <3>5 DEF IInv
  <2>3. QED BY <2>1, <2>2
<1>15. ASSUME NEW o \in Observers, ReadLatest(o) PROVE IInv'
  <2> DEFINE h == found[o].hot
             l == Newest(stream)
  <2>1. h \in Projection /\ Holds(h.status)
    BY <1>15 DEF ReadLatest, Resolving, TypeOK, Truthful, Reading
  <2>2. stream # {} => l \in Entry
    BY NewestIsMember DEF TypeOK, Numbered
  <2>3. CASE SendState(o, h, FALSE, None) /\ UNCHANGED found
    BY <1>15, <2>1, <2>3, SendStateIInv DEF ReadLatest
  <2>4. CASE stream # {} /\ SendState(o, h, TRUE, l) /\ UNCHANGED found
    BY <1>15, <2>1, <2>2, <2>4, SendStateIInv DEF ReadLatest
  <2>5. CASE /\ stream # {}
             /\ found' = [found EXCEPT ![o].last = l]
             /\ pc' = [pc EXCEPT ![o] = "retained"]
             /\ h.seq < l.seq
             /\ UNCHANGED <<polling, inbox, cursor, view, reached>>
    <3>1. UNCHANGED <<row, emission, redis>>
      BY <1>15 DEF ReadLatest
    <3>2. TypeOK'
      BY <2>2, <2>5, <3>1 DEF TypeOK, Reading, Places
    <3>3. Resolving'
      <4>1. pc[o] = "latest"
        BY <1>15 DEF ReadLatest
      <4>2. l # None /\ h # None
        BY <2>2, <2>5, <4>1, NoneAssumption DEF Resolving
      <4> HIDE DEF l
      <4>3. /\ found'[o].hot = h /\ found'[o].last = l
            /\ \A u \in Observers : u # o => found'[u] = found[u] /\ pc'[u] = pc[u]
        BY <2>5 DEF TypeOK, Reading
      <4>4. QED BY <2>5, <4>2, <4>3 DEF Resolving
    <3>4. Truthful'
      BY <2>5, <3>1 DEF Truthful, Holds, TypeOK, Reading
    <3>5. (Emitting /\ Handling /\ Numbered)'
      BY <2>5, <3>1 DEF Emitting, Handling, Numbered
    <3>6. QED BY <3>2, <3>3, <3>4, <3>5 DEF IInv
  <2>6. QED BY <1>15, <2>3, <2>4, <2>5 DEF ReadLatest
<1>16. ASSUME NEW o \in Observers, ReadRetained(o) PROVE IInv'
  <2>1. CASE Bridges(o)
    <3>1. Replayed(o) \in Projection /\ Holds(Replayed(o).status) /\ found[o].last \in Entry
      BY <1>16, ReplayedType DEF ReadRetained, TypeOK, Resolving, Reading
    <3>2. QED BY <1>16, <2>1, <3>1, SendStateIInv DEF ReadRetained
  <2>2. CASE ~Bridges(o)
    BY <1>16, <2>2, SendGapIInv DEF ReadRetained, TypeOK
  <2>3. QED BY <2>1, <2>2
<1>17. ASSUME NEW o \in Observers, ReadTail(o) PROVE IInv'
  <2>1. TypeOK'
    BY <1>17 DEF TypeOK, ReadTail, FirstOf
  <2>2. Truthful'
    BY <1>17 DEF Truthful, Holds, TypeOK, ReadTail, FirstOf
  <2>3. (Emitting /\ Resolving /\ Handling /\ Numbered)'
    BY <1>17 DEF Emitting, Resolving, Handling, Numbered, ReadTail, FirstOf
  <2>q. QED BY <2>1, <2>2, <2>3 DEF IInv
<1>18. ASSUME NEW o \in Observers, Deliver(o) PROVE IInv'
  <2> DEFINE x == Oldest(inbox[o])
             shown == view[o].shown
             next == Reduce(shown, x.seq, x.kind)
  <2>1. /\ x \in inbox[o] /\ x \in Entry
        /\ shown \in Projection /\ Holds(shown.status)
        /\ UNCHANGED <<row, emission, redis, found>>
        /\ cursor' = [cursor EXCEPT ![o] = x.id]
    BY <1>18, OldestIsMember DEF Deliver, TypeOK, View, Truthful
  <2>2. cursor' \in [Observers -> Nat]
    BY <2>1 DEF TypeOK, Entry
  <2>3. next \in Projection /\ next.seq = x.seq /\ Holds(next.status)
    <3>1. x.seq \in Nat /\ x.kind \in Kinds /\ Holds(x.kind)
      BY <2>1 DEF Entry, Truthful
    <3>2. QED BY <2>1, <3>1, ReduceType DEF Holds
  <2>4. CASE inbox' = [inbox EXCEPT ![o] = @ \ {x}] /\ UNCHANGED <<pc, polling, view, reached>>
    <3>1. TypeOK'
      BY <2>1, <2>2, <2>4 DEF TypeOK
    <3>2. Truthful'
      BY <2>1, <2>4 DEF Truthful, Holds, TypeOK
    <3>3. (Emitting /\ Resolving /\ Handling /\ Numbered)'
      BY <2>1, <2>4 DEF Emitting, Resolving, Handling, Numbered
    <3>4. QED BY <3>1, <3>2, <3>3 DEF IInv
  <2>5. CASE SendGap(o) /\ inbox' = [inbox EXCEPT ![o] = {}]
    BY <2>1, <2>2, <2>5, SendGapIInv DEF TypeOK
  <2>6. CASE /\ view' = [view EXCEPT ![o].shown = next, ![o].end = IF x.kind \in Ends THEN "terminal" ELSE "none"]
             /\ pc' = [pc EXCEPT ![o] = IF x.kind \in Ends THEN "returned" ELSE "tail"]
             /\ inbox' = [inbox EXCEPT ![o] = IF x.kind \in Ends THEN {} ELSE @ \ {x}]
             /\ reached' = [reached EXCEPT ![o] = IF x.seq > @ THEN x.seq ELSE @]
             /\ UNCHANGED polling
    <3>1. x.seq \in Nat
      BY <2>1 DEF Entry
    <3> HIDE DEF next, x
    <3>2. /\ view' \in [Observers -> View]
          /\ \A u \in Observers : view'[u].shown \in {view[u].shown, next}
      BY <2>3, <2>6 DEF TypeOK, View
    <3>3. /\ pc' \in [Observers -> Places]
          /\ \A u \in Observers : pc'[u] = pc[u] \/ pc'[u] \in {"tail", "returned"}
          /\ inbox' \in [Observers -> SUBSET Entry]
          /\ \A u \in Observers : inbox'[u] \subseteq inbox[u]
          /\ reached' \in [Observers -> Nat]
      BY <2>6, <3>1 DEF TypeOK, Places
    <3>4. TypeOK'
      BY <2>1, <2>2, <2>6, <3>2, <3>3 DEF TypeOK
    <3>5. Truthful'
      BY <2>1, <2>3, <3>2, <3>3 DEF Truthful, Holds
    <3>6. (Emitting /\ Resolving /\ Handling /\ Numbered)'
      BY <2>1, <3>3 DEF Emitting, Resolving, Handling, Numbered
    <3>7. QED BY <3>4, <3>5, <3>6 DEF IInv
  <2>7. QED BY <1>18, <2>4, <2>5, <2>6 DEF Deliver
<1>19. ASSUME NEW o \in Observers, Attach(o) PROVE IInv'
  <2>1. TypeOK'
    BY <1>19 DEF TypeOK, Places, View, Attach, NoView, InitialProjection, Projection, Status, Ends
  <2>2. Resolving'
    BY <1>19 DEF Resolving, TypeOK, Attach, NoView, InitialProjection, Projection, Status, Ends
  <2>3. Truthful'
    BY <1>19 DEF Truthful, Holds, TypeOK, Attach, NoView, InitialProjection, Projection, Status,
        Ends
  <2>4. (Emitting /\ Handling /\ Numbered)'
    BY <1>19 DEF Emitting, Handling, Numbered, Attach, NoView, InitialProjection, Projection,
        Status, Ends
  <2>q. QED BY <2>1, <2>2, <2>3, <2>4 DEF IInv
<1>20. ASSUME NEW o \in Observers, Detach(o) PROVE IInv'
  <2>1. TypeOK'
    BY <1>20 DEF TypeOK, Places, Detach
  <2>2. Resolving'
    BY <1>20 DEF Resolving, TypeOK, Detach
  <2>3. Truthful'
    BY <1>20 DEF Truthful, Holds, TypeOK, Detach
  <2>4. (Emitting /\ Handling /\ Numbered)'
    BY <1>20 DEF Emitting, Handling, Numbered, Detach
  <2>q. QED BY <2>1, <2>2, <2>3, <2>4 DEF IInv
<1>21. ASSUME NEW o \in Observers, ResolveRaises(o) PROVE IInv'
  <2> DEFINE p == IF pc[o] = "hot" THEN InitialProjection(found[o].status) ELSE found[o].hot
  <2>1. p \in Projection /\ Holds(p.status)
    <3>1. found[o].status \in Status /\ Holds(found[o].status)
      BY DEF TypeOK, Reading, Truthful
    <3>2. CASE pc[o] = "hot"
      BY <3>1, <3>2, InitialProjectionType
    <3>3. CASE pc[o] \in {"latest", "retained"}
      BY <3>3 DEF TypeOK, Reading, Truthful, Resolving
    <3>4. QED BY <1>21, <3>2, <3>3 DEF ResolveRaises
  <2>2. SendState(o, p, FALSE, None) /\ UNCHANGED <<row, emission, redis, found>>
    BY <1>21 DEF ResolveRaises
  <2>3. QED BY <2>1, <2>2, SendStateIInv
<1>22. ASSUME NEW o \in Observers, TailRaises(o) PROVE IInv'
  <2>1. TypeOK'
    BY <1>22 DEF TypeOK, Places, View, TailRaises
  <2>2. Resolving'
    BY <1>22 DEF Resolving, TypeOK, TailRaises
  <2>3. Truthful'
    BY <1>22 DEF Truthful, Holds, TypeOK, TailRaises
  <2>4. (Emitting /\ Handling /\ Numbered)'
    BY <1>22 DEF Emitting, Handling, Numbered, TailRaises
  <2>q. QED BY <2>1, <2>2, <2>3, <2>4 DEF IInv
<1>23. ASSUME RuntimeCancelled PROVE IInv'
  <2>1. TypeOK'
    BY <1>23 DEF TypeOK, Emission, Stages, RuntimeCancelled, NoEmission, Ends, Sinks
  <2>2. Emitting'
    BY <1>23 DEF Emitting, TypeOK, RuntimeCancelled, NoEmission, Ends, Sinks
  <2>3. Handling'
    BY <1>23 DEF Handling, TypeOK, RuntimeCancelled, NoEmission, Ends, Sinks
  <2>4. Truthful'
    BY <1>23 DEF Truthful, Holds, TypeOK, RuntimeCancelled, NoEmission, Ends, Sinks
  <2>5. (Resolving /\ Numbered)'
    BY <1>23 DEF Resolving, Numbered, RuntimeCancelled, NoEmission, Ends, Sinks
  <2>q. QED BY <2>1, <2>2, <2>3, <2>4, <2>5 DEF IInv
<1>24. ASSUME Crash PROVE IInv'
  <2>1. TypeOK'
    BY <1>24 DEF TypeOK, Emission, Stages, Crash, NoEmission, Ends, Sinks
  <2>2. Emitting'
    BY <1>24 DEF Emitting, TypeOK, Crash, NoEmission, Ends, Sinks
  <2>3. Handling'
    BY <1>24 DEF Handling, TypeOK, Crash, NoEmission, Ends, Sinks
  <2>4. Truthful'
    BY <1>24 DEF Truthful, Holds, TypeOK, Crash, NoEmission, Ends, Sinks
  <2>5. (Resolving /\ Numbered)'
    BY <1>24 DEF Resolving, Numbered, Crash, NoEmission, Ends, Sinks
  <2>q. QED BY <2>1, <2>2, <2>3, <2>4, <2>5 DEF IInv
<1>25. ASSUME NEW w \in Sinks, EmitRaises(w) PROVE IInv'
  <2>1. TypeOK'
    BY <1>25 DEF TypeOK, Emission, Stages, EmitRaises, AfterLifecycle, NoEmission, Idle, Ends, Sinks
  <2>2. Emitting'
    BY <1>25 DEF Emitting, TypeOK, EmitRaises, AfterLifecycle, NoEmission, Idle, Ends, Sinks
  <2>3. Handling'
    BY <1>25 DEF Handling, TypeOK, EmitRaises, AfterLifecycle, NoEmission, Idle, Ends, Sinks
  <2>4. Truthful'
    BY <1>25 DEF Truthful, Holds, TypeOK, EmitRaises, AfterLifecycle, NoEmission, Idle, Ends,
        Sinks
  <2>5. (Resolving /\ Numbered)'
    BY <1>25 DEF Resolving, Numbered, EmitRaises, AfterLifecycle, NoEmission, Idle, Ends, Sinks
  <2>q. QED BY <2>1, <2>2, <2>3, <2>4, <2>5 DEF IInv
<1>26. ASSUME RuntimeAbandoned PROVE IInv'
  <2>1. TypeOK'
    BY <1>26 DEF TypeOK, RuntimeAbandoned, Ends
  <2>2. Handling'
    BY <1>26 DEF Handling, TypeOK, RuntimeAbandoned, Ends
  <2>3. (Emitting /\ Resolving /\ Truthful /\ Numbered)'
    BY <1>26 DEF Emitting, Resolving, Truthful, Holds, Numbered, RuntimeAbandoned, Ends
  <2>q. QED BY <2>1, <2>2, <2>3 DEF IInv
<1>27. ASSUME AbandonedRuntimeEnds PROVE IInv'
  <2>1. TypeOK'
    BY <1>27 DEF TypeOK, AbandonedRuntimeEnds
  <2>2. Handling'
    BY <1>27 DEF Handling, TypeOK, AbandonedRuntimeEnds
  <2>3. (Emitting /\ Resolving /\ Truthful /\ Numbered)'
    BY <1>27 DEF Emitting, Resolving, Truthful, Holds, Numbered, AbandonedRuntimeEnds
  <2>q. QED BY <2>1, <2>2, <2>3 DEF IInv
<1>28. CASE UNCHANGED vars
  BY <1>28 DEF vars, IInv, TypeOK, Emitting, Resolving, Handling, Truthful, Holds, Numbered
<1>q. QED
  BY <1>1, <1>2, <1>3, <1>4, <1>5, <1>6, <1>7, <1>8, <1>9, <1>10, <1>11, <1>12, <1>13, <1>14,
      <1>15, <1>16, <1>17, <1>18, <1>19, <1>20, <1>21, <1>22, <1>23, <1>24, <1>25, <1>26, <1>27,
      <1>28 DEF Next, FaultyNext, CancelNext, HealthyNext, Produce, Observe, Client

(* IInv holds throughout, whatever fails. *)
THEOREM InvariantHolds == Spec => []IInv
<1>1. QED BY InitIInv, StepIInv, PTL DEF Spec

(* Every variable of the sinks and of the observers holds values of its    *)
(* kind: no read goes on from a projection or an entry that is not there.  *)
THEOREM TypeCorrect == Spec => []TypeOK
<1>1. IInv => TypeOK
  BY DEF IInv
<1>2. QED BY <1>1, InvariantHolds, PTL

(* An end that any observer has been shown, over a projection, a replay,   *)
(* the tail or the durable row, is the end the row has, in spite of every  *)
(* cancelled emission, lost command, kill and abandoned runtime.           *)
THEOREM ShownEndIsDurable == Spec => []EndIsDurable
<1>1. IInv => EndIsDurable
  BY DEF IInv, Truthful, Holds, EndIsDurable
<1>2. QED BY <1>1, InvariantHolds, PTL

-----------------------------------------------------------------------------
(* The order of the stream. *)

(* Clients and their observers only read. *)
LEMMA ObserversOnlyRead ==
  ASSUME NEW o \in Observers, Observe(o) \/ Client(o)
  PROVE  UNCHANGED <<row, emission, redis>>
BY DEF Observe, Client, ReadDurable, ReadHot, ReadLatest, ReadRetained, ReadTail, Deliver, Attach,
    Detach, ResolveRaises, TailRaises

(* Nothing has been emitted at first. *)
LEMMA InitOrdered == Init => Ordered
<1>1. Init => IInv
  BY InitIInv
<1>2. Init => OneAtATime /\ InOrder /\ StreamInOrder
  BY DEF Init, OneAtATime, InOrder, StreamInOrder, Idle, NoEmission, Sinks
<1>3. QED BY <1>1, <1>2 DEF Ordered

(* Every step without an abandoned runtime keeps the two sinks apart and   *)
(* the entries in the order of their numbers.                              *)
LEMMA StepOrdered == Ordered /\ [FaultyNext]_vars => Ordered'
<1> SUFFICES ASSUME Ordered, [FaultyNext]_vars PROVE Ordered'
  OBVIOUS
<1> IInv /\ TypeOK /\ Emitting /\ Handling /\ Numbered /\ OneAtATime /\ InOrder /\ StreamInOrder
  BY DEF Ordered, IInv
<1> IInv'
  <2>1. [FaultyNext]_vars => [Next]_vars
    BY DEF Next
  <2>2. QED BY <2>1, StepIInv
<1> USE DEF row, redis
<1> SUFFICES (OneAtATime /\ InOrder /\ StreamInOrder)'
  BY DEF Ordered
<1>1. ASSUME NEW w \in Sinks, NEW k, Emit(w, k), w = "runtime" => producer = "running",
             w = "lifecycle" => producer \in {"starting", "ending"}
      PROVE  (OneAtATime /\ InOrder /\ StreamInOrder)'
  <2> DEFINE e == [stage |-> "append", kind |-> k, seq |-> counter + 1, base |-> None]
  <2>1. /\ counter' = counter + 1 /\ counter \in Nat
        /\ emission' = [emission EXCEPT ![w] = e]
        /\ e.stage = "append" /\ e.seq = counter + 1
        /\ UNCHANGED <<row, lastId, stream, hot>>
    BY <1>1 DEF Emit, TypeOK
  <2> HIDE DEF e
  <2>2. \A v \in Sinks : v # w => Idle(v)
    BY <1>1 DEF OneAtATime, Sinks
  <2>3. \A x \in stream : x.seq \in Nat /\ x.seq <= counter
    BY DEF InOrder, TypeOK, Entry
  <2>4. OneAtATime'
    BY <1>1, <2>1 DEF OneAtATime, Idle, Sinks, TypeOK
  <2>5. InOrder'
    BY <2>1, <2>2, <2>3 DEF InOrder, Idle, TypeOK
  <2>6. StreamInOrder'
    BY <2>1 DEF StreamInOrder
  <2>7. QED BY <2>4, <2>5, <2>6
<1>2. ASSUME NEW w \in Sinks, Append(w)
      PROVE  (OneAtATime /\ InOrder /\ StreamInOrder)'
  <2> DEFINE new == [id |-> lastId + 1, seq |-> emission[w].seq, kind |-> emission[w].kind]
             e   == [emission[w] EXCEPT !.stage = "project"]
  <2>1. /\ emission[w].stage = "append"
        /\ stream' \subseteq stream \cup {new}
        /\ emission' = [emission EXCEPT ![w] = e]
        /\ e.stage = "project"
        /\ UNCHANGED <<row, counter, hot>>
    <3> emission[w] \in Emission
      BY DEF TypeOK
    <3> QED BY <1>2, EmissionMoves DEF Append, Trimmed, Stages
  <2>2. new.id = lastId + 1 /\ new.seq = emission[w].seq /\ new.seq \in Nat /\ counter \in Nat /\ lastId \in Nat
    BY DEF TypeOK, Emission
  <2> HIDE DEF e, new
  <2>3. \A x \in stream : x.id \in Nat /\ x.seq \in Nat /\ x.id <= lastId
    BY DEF TypeOK, Entry, Numbered
  <2>4. \A x \in stream : x.seq < new.seq /\ x.seq <= counter /\ new.seq <= counter
    BY <2>1, <2>2 DEF InOrder
  <2>5. \A v \in Sinks : v # w => Idle(v)
    BY <2>1 DEF OneAtATime, Idle, Sinks
  <2>6. OneAtATime'
    BY <2>1 DEF OneAtATime, Idle, Sinks, TypeOK
  <2>7. InOrder'
    BY <2>1, <2>2, <2>3, <2>4, <2>5 DEF InOrder, Idle, TypeOK
  <2>8. StreamInOrder'
    BY <2>1, <2>2, <2>3, <2>4 DEF StreamInOrder
  <2>9. QED BY <2>6, <2>7, <2>8
<1>3. ASSUME NEW w \in Sinks, NEW e \in Emission, e.stage \in {"save", "trace"}, ~Idle(w),
             emission' = [emission EXCEPT ![w] = e], UNCHANGED <<row, counter, stream>>
      PROVE  (OneAtATime /\ InOrder /\ StreamInOrder)'
  BY <1>3 DEF OneAtATime, InOrder, StreamInOrder, Idle, TypeOK, Sinks
<1>4. ASSUME NEW w \in Sinks, Project(w)
      PROVE  (OneAtATime /\ InOrder /\ StreamInOrder)'
  <2>1. \E b : emission' = [emission EXCEPT ![w] = [emission[w] EXCEPT !.stage = "save", !.base = b]]
    BY <1>4 DEF Project
  <2>2. emission'[w].stage = "save"
    BY <2>1 DEF TypeOK, Emission
  <2>3. QED BY <1>3, <1>4, <2>1, <2>2 DEF Project, Idle, IInv, TypeOK
<1>5. ASSUME NEW w \in Sinks, SaveHot(w)
      PROVE  (OneAtATime /\ InOrder /\ StreamInOrder)'
  <2>1. emission[w] \in Emission
    BY DEF TypeOK
  <2>2. QED BY <1>3, <1>5, <2>1, EmissionMoves DEF SaveHot, Stages, Idle
<1>6. CASE /\ \A w \in Sinks : emission'[w] = emission[w] \/ emission'[w] = NoEmission
           /\ UNCHANGED <<counter, stream>>
           /\ OneAtATime'
  BY <1>6 DEF InOrder, StreamInOrder, NoEmission
<1>7. ASSUME NEW w \in Sinks, EmitReturns(w)
      PROVE  (OneAtATime /\ InOrder /\ StreamInOrder)'
  BY <1>6, <1>7 DEF EmitReturns, AfterLifecycle, OneAtATime, Idle, NoEmission, Sinks, TypeOK
<1>8. ASSUME NEW w \in Sinks, EmitRaises(w)
      PROVE  (OneAtATime /\ InOrder /\ StreamInOrder)'
  BY <1>6, <1>8 DEF EmitRaises, AfterLifecycle, OneAtATime, Idle, NoEmission, Sinks, TypeOK
<1>9. ASSUME CommitRunning \/ CommitCancelled \/ RuntimeReturns \/ CommitEnd \/ RuntimeCancelled \/ Crash
      PROVE  (OneAtATime /\ InOrder /\ StreamInOrder)'
  BY <1>6, <1>9 DEF CommitRunning, CommitCancelled, RuntimeReturns, CommitEnd, RuntimeCancelled, Crash,
      OneAtATime, Idle, NoEmission, Sinks, TypeOK
<1>10. CASE Expire
  BY <1>10 DEF Expire, OneAtATime, InOrder, StreamInOrder, Idle, Sinks
<1>11. CASE UNCHANGED <<row, emission, redis>>
  BY <1>11 DEF OneAtATime, InOrder, StreamInOrder, Idle
<1>12. EmitStarted \/ EmitStep \/ EmitEnd => (OneAtATime /\ InOrder /\ StreamInOrder)'
  BY <1>1 DEF EmitStarted, EmitStep, EmitEnd, OneAtATime, Sinks
<1>13. CASE UNCHANGED vars
  BY <1>11, <1>13 DEF vars
<1>14. QED
  BY <1>2, <1>4, <1>5, <1>7, <1>8, <1>9, <1>10, <1>11, <1>12, <1>13, ObserversOnlyRead
  DEF FaultyNext, CancelNext, HealthyNext, Produce

(* Whatever commands fail and whenever users cancel or runners are killed, *)
(* the stream of an execution is in the order of its sequence numbers.     *)
THEOREM EventsInOrder == FaultySpec => []StreamInOrder
<1>1. Ordered => StreamInOrder
  BY DEF Ordered
<1>2. QED BY <1>1, InitOrdered, StepOrdered, PTL DEF FaultySpec

-----------------------------------------------------------------------------
(* Reconnecting observers. *)

(* Nothing has been shown or read at first. *)
LEMMA InitAbreast == Init => Abreast
BY DEF Init, Abreast, Follows, Known, NoView

(* The entry with the highest id has the highest sequence number.          *)
LEMMA NewestIsHighest ==
  ASSUME Ordered, Abreast, stream # {}
  PROVE  /\ Newest(stream) \in stream
         /\ \A x \in stream : x.seq <= Newest(stream).seq
<1> DEFINE l == Newest(stream)
<1>1. TypeOK /\ Numbered /\ StreamInOrder
  BY DEF Ordered, IInv
<1>2. stream \subseteq Entry /\ lastId \in Nat /\ \A x \in stream : x.id <= lastId
  BY <1>1 DEF TypeOK, Numbered
<1>3. l \in stream /\ \A x \in stream : x.id <= l.id
  BY <1>2, NewestIsMember
<1> HIDE DEF l
<1>4. ASSUME NEW x \in stream PROVE x.seq <= l.seq
  <2>1. x.id \in Nat /\ x.seq \in Nat /\ l.id \in Nat /\ l.seq \in Nat /\ x.id <= l.id
    BY <1>2, <1>3 DEF Entry
  <2>2. CASE x.id = l.id
    BY <1>3, <2>1, <2>2 DEF Abreast
  <2>3. CASE x.id < l.id
    BY <1>1, <1>3, <2>1, <2>3 DEF StreamInOrder
  <2>4. QED BY <2>1, <2>2, <2>3
<1>5. QED BY <1>3, <1>4 DEF l

(* An appended entry survives the trimming and is above all others.        *)
LEMMA AppendedIsHighest ==
  ASSUME Ordered, Abreast, NEW w \in Sinks, Append(w)
  PROVE  /\ \A n \in Nat : Known(n) => Known(n)'
         /\ \A x, y \in stream' : x.id = y.id => x = y
<1> DEFINE new == [id |-> lastId + 1, seq |-> emission[w].seq, kind |-> emission[w].kind]
           S == stream \cup {new}
           kept == {x \in S : Cardinality({y \in S : y.id >= x.id}) <= MaxLen}
<1>1. TypeOK /\ Numbered /\ InOrder /\ OneAtATime
  BY DEF Ordered, IInv
<1>2. stream \subseteq Entry /\ lastId \in Nat /\ \A x \in stream : x.id <= lastId
  BY <1>1 DEF TypeOK, Numbered
<1>3. emission[w].seq \in Nat /\ \A x \in stream : x.seq < emission[w].seq
  BY <1>1 DEF TypeOK, Emission, InOrder, Append
<1>4. producer \notin {"done", "dead"}
  BY <1>1 DEF OneAtATime, Idle, Append, Sinks
<1>5. stream' \in {S, kept} /\ UNCHANGED producer
  BY DEF Append, Trimmed, row
<1>6. new.id = lastId + 1 /\ new.seq = emission[w].seq
  OBVIOUS
<1> HIDE DEF new
<1>7. \A x \in stream : x.id \in Nat /\ x.seq \in Nat /\ x.id < new.id /\ x.seq < new.seq
  BY <1>2, <1>3, <1>6 DEF Entry
<1>8. {y \in S : y.id >= new.id} = {new}
  BY <1>2, <1>6, <1>7
<1>9. new \in kept
  <2>1. Cardinality({y \in S : y.id >= new.id}) <= MaxLen
    BY <1>8, FS_Singleton, ConstantsAssumption
  <2>2. QED BY <2>1
<1>10. new \in stream' /\ stream' \subseteq S
  BY <1>5, <1>9
<1> HIDE DEF S, kept
<1>11. ASSUME NEW n \in Nat, Known(n) PROVE Known(n)'
  <2>1. n = 0 \/ \E x \in stream : n <= x.seq
    BY <1>4, <1>11 DEF Known
  <2>2. n <= new.seq
    BY <1>3, <1>6, <1>7, <2>1
  <2>3. QED BY <1>10, <2>2 DEF Known
<1>12. ASSUME NEW x \in stream', NEW y \in stream', x.id = y.id PROVE x = y
  <2>1. (x = new \/ x \in stream) /\ (y = new \/ y \in stream)
    BY <1>10 DEF S
  <2>2. new.id \in Nat
    BY <1>2, <1>6
  <2>3. QED BY <1>7, <1>12, <2>1, <2>2 DEF Abreast
<1>13. QED BY <1>11, <1>12

(* No step of the handler or the sinks makes unknown what was known.       *)
LEMMA KnownStays ==
  ASSUME Ordered, Abreast, [FaultyNext]_vars
  PROVE  /\ \A n \in Nat : Known(n) => Known(n)'
         /\ \A x, y \in stream' : x.id = y.id => x = y
<1>1. OneAtATime
  BY DEF Ordered
<1>2. CASE \E w \in Sinks : Append(w)
  BY <1>2, AppendedIsHighest
<1>3. CASE Expire
  BY <1>3 DEF Expire, row, Known, Abreast
<1>4. ASSUME UNCHANGED stream, producer \in {"done", "dead"} => producer' \in {"done", "dead"}
      PROVE  /\ \A n \in Nat : Known(n) => Known(n)'
             /\ \A x, y \in stream' : x.id = y.id => x = y
  BY <1>4 DEF Known, Abreast
<1>5. CASE UNCHANGED vars
  BY <1>4, <1>5 DEF vars, row, redis
<1>6. ASSUME NEW o \in Observers, Observe(o) \/ Client(o)
      PROVE  UNCHANGED stream /\ UNCHANGED producer
  BY <1>6, ObserversOnlyRead DEF row, redis
<1>7. ASSUME CommitRunning \/ CommitCancelled \/ RuntimeReturns \/ CommitEnd \/ RuntimeCancelled \/ Crash
      PROVE  UNCHANGED stream /\ producer \notin {"done", "dead"}
  BY <1>7 DEF CommitRunning, CommitCancelled, RuntimeReturns, CommitEnd, RuntimeCancelled, Crash, redis
<1>8. ASSUME EmitStarted \/ EmitStep \/ EmitEnd PROVE UNCHANGED stream /\ UNCHANGED producer
  BY <1>8 DEF EmitStarted, EmitStep, EmitEnd, Emit, row
<1>9. ASSUME NEW w \in Sinks, Project(w) \/ SaveHot(w) PROVE UNCHANGED stream /\ UNCHANGED producer
  BY <1>9 DEF Project, SaveHot, row, redis
<1>10. ASSUME NEW w \in Sinks, EmitReturns(w) \/ EmitRaises(w)
       PROVE  UNCHANGED stream /\ (producer \in {"done", "dead"} => producer' \in {"done", "dead"})
  BY <1>1, <1>10 DEF EmitReturns, EmitRaises, AfterLifecycle, OneAtATime, Idle, redis
<1>11. QED
  BY <1>2, <1>3, <1>4, <1>5, <1>6, <1>7, <1>8, <1>9, <1>10
  DEF FaultyNext, CancelNext, HealthyNext, Produce

(* Every step of an observer leaves it abreast of the stream, and a live   *)
(* frame is never behind what it has shown before.                         *)
LEMMA ObserverStepFollows ==
  ASSUME Ordered, Abreast, NEW o \in Observers, Observe(o) \/ Client(o)
  PROVE  /\ Follows(o)'
         /\ view'[o] # view[o] /\ view'[o].live => view'[o].shown.seq >= reached[o]
<1> DEFINE Onward == view'[o] # view[o] /\ view'[o].live => view'[o].shown.seq >= reached[o]
<1> SUFFICES Follows(o)' /\ Onward
  OBVIOUS
<1> USE DEF Onward
<1>t. TypeOK /\ Resolving /\ Truthful /\ Numbered
  BY DEF Ordered, IInv
<1>s. UNCHANGED stream /\ UNCHANGED producer
  BY ObserversOnlyRead DEF row, redis
<1>f. Follows(o) /\ reached[o] \in Nat
  BY <1>t DEF Abreast, TypeOK
<1>0. ASSUME NEW p \in Projection, NEW live \in BOOLEAN, NEW last, SendState(o, p, live, last),
             live => reached[o] <= p.seq /\ Known(p.seq)
      PROVE  Follows(o)' /\ Onward
  <2>1. p.seq \in Nat
    BY DEF Projection
  <2>2. /\ view' = [view EXCEPT ![o] =
              [shown |-> p, live |-> live,
               end   |-> IF EndsObservation(p.status) THEN "terminal"
                         ELSE IF live THEN "none" ELSE "unavailable"]]
        /\ pc' = [pc EXCEPT ![o] = IF live /\ ~EndsObservation(p.status) THEN "tail" ELSE "returned"]
        /\ reached' = [reached EXCEPT ![o] = IF live /\ p.seq > @ THEN p.seq ELSE @]
        /\ UNCHANGED inbox
    BY <1>0 DEF SendState
  <2>3. view'[o].shown = p /\ view'[o].live = live
    BY <1>t, <2>2 DEF TypeOK
  <2>4. pc'[o] \in {"tail", "returned"} /\ (pc'[o] = "tail" => live)
    BY <1>t, <2>2 DEF TypeOK
  <2>5. reached'[o] = IF live /\ p.seq > reached[o] THEN p.seq ELSE reached[o]
    BY <1>t, <2>2 DEF TypeOK
  <2>6. Known(reached[o])' /\ \A x \in inbox'[o] : Known(x.seq)'
    BY <1>0, <1>f, <1>s, <2>2, <2>5 DEF Follows, Known
  <2>7. live => reached'[o] <= p.seq
    BY <1>0, <1>f, <2>1, <2>5
  <2>8. QED BY <1>0, <1>f, <2>1, <2>3, <2>4, <2>6, <2>7 DEF Follows
<1>1. CASE ReadDurable(o)
  <2>1. /\ pc[o] \in {"durable", "waiting"} /\ pc'[o] = "hot"
        /\ UNCHANGED <<inbox, view, reached>>
    BY <1>1, <1>t DEF ReadDurable, TypeOK
  <2>2. QED BY <1>f, <1>s, <2>1 DEF Follows, Known
<1>2. CASE ReadHot(o)
  <2>1. pc[o] = "hot" /\ ~view[o].live
    BY <1>2, <1>f DEF ReadHot, Follows
  <2>2. /\ pc'[o] \in {"latest", "waiting", "returned"} /\ ~view'[o].live
        /\ UNCHANGED <<inbox, reached>>
    BY <1>2, <1>t, <2>1 DEF ReadHot, AwaitRuntime, TypeOK
  <2>3. QED BY <1>f, <1>s, <2>2 DEF Follows, Known
<1>3. CASE ReadLatest(o)
  <2> DEFINE h == found[o].hot
             l == Newest(stream)
  <2>1. h \in Projection /\ h.seq \in Nat /\ pc[o] = "latest"
    BY <1>3, <1>t DEF ReadLatest, Resolving, TypeOK, Reading, Projection
  <2>2. CASE SendState(o, h, FALSE, None)
    BY <1>0, <2>1, <2>2
  <2>3. ASSUME stream # {}
        PROVE  l \in stream /\ l.seq \in Nat /\ Known(l.seq) /\ reached[o] <= l.seq
    <3>1. l \in stream /\ \A x \in stream : x.seq <= l.seq
      BY <2>3, NewestIsHighest
    <3>2. l.seq \in Nat /\ \A x \in stream : x.seq \in Nat
      BY <1>t, <3>1 DEF TypeOK, Entry
    <3> HIDE DEF l
    <3>3. Known(l.seq)
      BY <3>1, <3>2 DEF Known
    <3>4. reached[o] = 0 \/ \E x \in stream : reached[o] <= x.seq
      BY <1>f, <2>3 DEF Follows, Known
    <3>5. reached[o] <= l.seq
      BY <1>f, <3>1, <3>2, <3>4
    <3>6. QED BY <3>1, <3>2, <3>3, <3>5
  <2>4. CASE stream # {} /\ h.seq = l.seq /\ SendState(o, h, TRUE, l)
    <3>1. reached[o] <= h.seq /\ Known(h.seq)
      BY <2>3, <2>4
    <3> HIDE DEF h, l
    <3>2. QED BY <1>0, <2>1, <2>4, <3>1
  <2>5. CASE /\ stream # {}
             /\ found' = [found EXCEPT ![o].last = l]
             /\ pc' = [pc EXCEPT ![o] = "retained"]
             /\ UNCHANGED <<inbox, view, reached>>
    <3>1. Known(l.seq) /\ reached[o] <= l.seq
      BY <2>3, <2>5
    <3> HIDE DEF l
    <3>2. found'[o].last = l /\ pc'[o] = "retained"
      BY <1>t, <2>5 DEF TypeOK, Reading
    <3>3. ~view[o].live
      BY <1>f, <2>1 DEF Follows
    <3>4. QED BY <1>f, <1>s, <2>5, <3>1, <3>2, <3>3 DEF Follows, Known
  <2>6. QED BY <1>3, <2>2, <2>4, <2>5 DEF ReadLatest
<1>4. CASE ReadRetained(o)
  <2>1. /\ pc[o] = "retained" /\ ~view[o].live
        /\ Known(found[o].last.seq) /\ reached[o] <= found[o].last.seq
    BY <1>4, <1>f DEF ReadRetained, Follows
  <2>2. CASE Bridges(o)
    <3>1. Replayed(o) \in Projection /\ Replayed(o).seq = found[o].last.seq
      BY <1>t, <2>1, ReplayedType
    <3>2. SendState(o, Replayed(o), TRUE, found[o].last)
      BY <1>4, <2>2 DEF ReadRetained
    <3>3. QED BY <1>0, <2>1, <3>1, <3>2
  <2>3. CASE ~Bridges(o)
    <3>1. /\ pc'[o] = "returned" /\ view'[o].live = view[o].live
          /\ UNCHANGED <<inbox, reached>>
      BY <1>4, <1>t, <2>3 DEF ReadRetained, SendGap, TypeOK, View
    <3>2. QED BY <1>f, <1>s, <2>1, <3>1 DEF Follows, Known
  <2>4. QED BY <2>2, <2>3
<1>5. CASE ReadTail(o)
  <2>1. pc[o] = "tail" /\ UNCHANGED <<pc, view, reached>>
    BY <1>5 DEF ReadTail
  <2>2. inbox'[o] \subseteq stream
    BY <1>5, <1>t DEF ReadTail, FirstOf, TypeOK
  <2>3. \A x \in inbox'[o] : Known(x.seq)'
    BY <1>s, <1>t, <2>2 DEF Known, TypeOK, Entry
  <2>4. QED BY <1>f, <1>s, <2>1, <2>3 DEF Follows, Known
<1>6. CASE Deliver(o)
  <2> DEFINE x == Oldest(inbox[o])
             shown == view[o].shown
  <2>1. /\ x \in inbox[o] /\ x.seq \in Nat /\ x.kind \in Kinds
        /\ shown \in Projection /\ shown.seq \in Nat
        /\ pc[o] = "tail" /\ reached[o] <= shown.seq
    <3>1. inbox[o] # {} /\ inbox[o] \subseteq Entry /\ pc[o] = "tail" /\ view[o] \in View
      BY <1>6, <1>t DEF Deliver, TypeOK
    <3>2. x \in inbox[o]
      BY <3>1, OldestIsMember
    <3>3. x.seq \in Nat /\ x.kind \in Kinds
      BY <3>1, <3>2 DEF Entry
    <3>4. shown \in Projection /\ shown.seq \in Nat
      BY <3>1 DEF View, Projection
    <3>5. QED BY <1>f, <3>1, <3>2, <3>3, <3>4 DEF Follows
  <2>2. Known(x.seq)
    BY <1>f, <2>1 DEF Follows
  <2>3. inbox'[o] \subseteq inbox[o]
    BY <1>6, <1>t DEF Deliver, TypeOK
  <2> HIDE DEF x
  <2>4. CASE UNCHANGED <<pc, view, reached>>
    BY <1>f, <1>s, <2>1, <2>3, <2>4 DEF Follows, Known
  <2>5. CASE SendGap(o)
    <3>1. /\ pc'[o] = "returned" /\ view'[o].shown = shown
          /\ UNCHANGED reached
      BY <1>t, <2>5 DEF SendGap, TypeOK, View
    <3>2. QED BY <1>f, <1>s, <2>1, <2>3, <3>1 DEF Follows, Known
  <2>6. CASE /\ x.seq = shown.seq + 1
             /\ \E end : view' = [view EXCEPT ![o].shown = Reduce(shown, x.seq, x.kind), ![o].end = end]
             /\ pc' = [pc EXCEPT ![o] = IF x.kind \in Ends THEN "returned" ELSE "tail"]
             /\ reached' = [reached EXCEPT ![o] = IF x.seq > @ THEN x.seq ELSE @]
    <3>1. Reduce(shown, x.seq, x.kind).seq = x.seq
      BY <2>1, ReduceType
    <3>2. view'[o].shown.seq = x.seq
      BY <1>t, <2>6, <3>1 DEF TypeOK, View
    <3>3. pc'[o] \in {"tail", "returned"} /\ reached'[o] = x.seq
      BY <1>f, <1>t, <2>1, <2>6 DEF TypeOK
    <3>4. Known(reached[o])' /\ \A y \in inbox'[o] : Known(y.seq)'
      BY <1>f, <1>s, <2>2, <2>3, <3>3 DEF Follows, Known
    <3>5. reached'[o] <= view'[o].shown.seq /\ view'[o].shown.seq >= reached[o]
      BY <1>f, <2>1, <2>6, <3>2, <3>3
    <3>6. QED BY <3>3, <3>4, <3>5 DEF Follows
  <2>7. QED BY <1>6, <2>4, <2>5, <2>6 DEF Deliver, x
<1>7. CASE Attach(o)
  <2>1. pc'[o] = "durable" /\ ~view'[o].live /\ UNCHANGED <<inbox, reached>>
    BY <1>7, <1>t DEF Attach, NoView, TypeOK
  <2>2. QED BY <1>f, <1>s, <2>1 DEF Follows, Known
<1>8. CASE Detach(o)
  <2>1. pc'[o] = "detached" /\ inbox'[o] = {} /\ UNCHANGED <<view, reached>>
    BY <1>8, <1>t DEF Detach, TypeOK
  <2>2. QED BY <1>f, <1>s, <2>1 DEF Follows, Known
<1>9. CASE ResolveRaises(o)
  <2> DEFINE p == IF pc[o] = "hot" THEN InitialProjection(found[o].status) ELSE found[o].hot
  <2>1. pc[o] \in {"hot", "latest", "retained"} /\ SendState(o, p, FALSE, None)
    BY <1>9 DEF ResolveRaises
  <2>2. p \in Projection
    <3>1. found[o].status \in Status
      BY <1>t DEF TypeOK, Reading
    <3>2. pc[o] # "hot" => found[o].hot \in Projection
      BY <1>t, <2>1 DEF TypeOK, Reading, Resolving
    <3>3. QED BY <3>1, <3>2, InitialProjectionType
  <2> HIDE DEF p
  <2>3. QED BY <1>0, <2>1, <2>2
<1>10. CASE TailRaises(o)
  <2>1. /\ pc[o] = "tail" /\ pc'[o] = "returned"
        /\ view'[o].live = view[o].live /\ view'[o].shown = view[o].shown
        /\ UNCHANGED <<inbox, reached>>
    BY <1>10, <1>t DEF TailRaises, TypeOK, View
  <2>2. view[o].shown.seq \in Nat /\ reached[o] <= view[o].shown.seq
    BY <1>f, <1>t, <2>1 DEF Follows, TypeOK, View, Projection
  <2>3. QED BY <1>f, <1>s, <2>1, <2>2 DEF Follows, Known
<1>11. QED
  BY <1>1, <1>2, <1>3, <1>4, <1>5, <1>6, <1>7, <1>8, <1>9, <1>10 DEF Observe, Client

(* Every step keeps every observer abreast, and shows none an older state. *)
LEMMA StepAbreast ==
  ASSUME Ordered, Abreast, [FaultyNext]_vars
  PROVE  /\ Abreast'
         /\ \A o \in Observers : view'[o] # view[o] /\ view'[o].live
                                   => view'[o].shown.seq >= reached[o]
<1> DEFINE Onward(o) == view'[o] # view[o] /\ view'[o].live => view'[o].shown.seq >= reached[o]
<1> SUFFICES \A o \in Observers : Follows(o)' /\ Onward(o)
  BY KnownStays DEF Abreast
<1>t. TypeOK
  BY DEF Ordered, IInv
<1>k. \A n \in Nat : Known(n) => Known(n)'
  BY KnownStays
<1>1. ASSUME NEW u \in Observers,
             UNCHANGED <<pc[u], found[u], inbox[u], view[u], reached[u]>>
      PROVE  Follows(u)' /\ Onward(u)
  <2>1. Follows(u)
    BY DEF Abreast
  <2>2. /\ reached[u] \in Nat
        /\ \A x \in inbox[u] : x.seq \in Nat
        /\ pc[u] = "retained" => found[u].last.seq \in Nat
    <3>1. inbox[u] \subseteq Entry
      BY <1>t DEF TypeOK
    <3>2. pc[u] = "retained" => found[u].last \in Entry
      BY <1>t DEF TypeOK, Ordered, IInv, Resolving, Reading
    <3>3. QED BY <1>t, <3>1, <3>2 DEF TypeOK, Entry
  <2>3. Follows(u)'
    BY <1>1, <1>k, <2>1, <2>2 DEF Follows, Known
  <2>4. QED BY <1>1, <2>3
<1>2. ASSUME NEW o \in Observers, Observe(o) \/ Client(o), NEW u \in Observers
      PROVE  Follows(u)' /\ Onward(u)
  <2>1. CASE u = o
    BY <1>2, <2>1, ObserverStepFollows DEF Follows, Known
  <2>2. CASE u # o
    <3>1. UNCHANGED <<pc[u], found[u], inbox[u], view[u], reached[u]>>
      BY <1>2, <1>t, <2>2 DEF Observe, Client, ReadDurable, ReadHot, AwaitRuntime, ReadLatest,
          ReadRetained, ReadTail, Deliver, SendState, SendGap, Attach, Detach, ResolveRaises,
          TailRaises, TypeOK
    <3>2. QED BY <1>1, <3>1
  <2>3. QED BY <2>1, <2>2
<1>3. ASSUME UNCHANGED observer, NEW u \in Observers
      PROVE  Follows(u)' /\ Onward(u)
  BY <1>1, <1>3 DEF observer
<1>4. \/ UNCHANGED observer
      \/ \E o \in Observers : Observe(o) \/ Client(o)
  BY DEF FaultyNext, CancelNext, HealthyNext, Produce, CommitRunning, CommitCancelled, EmitStarted,
      EmitStep, EmitEnd, Emit, Append, Project, SaveHot, EmitReturns, RuntimeReturns, CommitEnd,
      Expire, RuntimeCancelled, Crash, EmitRaises, vars
<1>5. QED BY <1>2, <1>3, <1>4

(* Whatever fails on the way, an observer that reconnects is never shown,  *)
(* as live, a state before the last one it has seen: the stream it reads   *)
(* its position from is never behind what any observer has shown.          *)
THEOREM NoWayBack == FaultySpec => NeverGoesBack
<1>1. Init => Ordered /\ Abreast
  BY InitOrdered, InitAbreast
<1>2. Ordered /\ Abreast /\ [FaultyNext]_vars => Ordered' /\ Abreast'
  BY StepOrdered, StepAbreast
<1>3. Ordered /\ Abreast /\ [FaultyNext]_vars
        => [\A o \in Observers : view'[o] # view[o] /\ view'[o].live
                                   => view'[o].shown.seq >= reached[o]]_vars
  BY StepAbreast
<1>4. QED BY <1>1, <1>2, <1>3, PTL DEF FaultySpec, NeverGoesBack

-----------------------------------------------------------------------------
(* The completeness of the projection and of the frames. *)

(* There is nothing to be complete at first. *)
LEMMA InitLossless == Init => Lossless
<1> SUFFICES ASSUME Init PROVE Lossless
  OBVIOUS
<1>1. Ordered
  BY InitOrdered
<1>2. producer # "dead" /\ Current
  BY DEF Init, Current, HotSeq, Idle, NoEmission, Sinks
<1>3. Watched
  BY DEF Init, Watched, Complete, Fresh, NoView, InitialProjection
<1>4. QED BY <1>1, <1>2, <1>3 DEF Lossless

(* The event after the last one completes a projection. *)
LEMMA ReduceCompletes ==
  ASSUME NEW p \in Projection, NEW n \in Nat, NEW k \in Kinds, Complete(p), n = p.seq + 1
  PROVE  Complete(Reduce(p, n, k)) /\ Reduce(p, n, k).seq = n
<1>1. p.seq \in Nat
  BY DEF Projection
<1>2. (1 .. p.seq) \cup {p.seq + 1} = 1 .. (p.seq + 1)
  BY <1>1
<1>3. Reduce(p, n, k).seq = n /\ Reduce(p, n, k).content = p.content \cup {n}
  BY ReduceType
<1>4. QED BY <1>2, <1>3 DEF Complete

(* A replay that bridges the projection and the stream completes it. *)
LEMMA ReplayCompletes ==
  ASSUME IInv, NEW o \in Observers, pc[o] = "retained", Bridges(o), Complete(found[o].hot)
  PROVE  Complete(Replayed(o))
<1> TypeOK /\ Resolving /\ Truthful /\ Numbered
  BY DEF IInv
<1> DEFINE a == found[o].hot.seq
           b == found[o].last.seq
<1>1. a \in Nat /\ b \in Nat /\ a < b
  BY DEF Resolving, TypeOK, Reading, Projection, Entry
<1>2. Replayed(o).seq = b /\ Replayed(o).content = (1 .. a) \cup ((a + 1) .. b)
  BY ReplayedType DEF Bridges, Complete
<1> HIDE DEF a, b
<1>3. (1 .. a) \cup ((a + 1) .. b) = 1 .. b
  BY <1>1
<1>4. QED BY <1>2, <1>3 DEF Complete

(* Every step of the healthy system keeps the projection at most one event *)
(* behind the counter and the frames complete.                             *)
LEMMA StepLossless == Lossless /\ [HealthyNext]_vars => Lossless'
<1> SUFFICES ASSUME Lossless, [HealthyNext]_vars PROVE Lossless'
  OBVIOUS
<1> /\ Ordered /\ IInv /\ TypeOK /\ Emitting /\ Resolving /\ OneAtATime
    /\ producer # "dead" /\ Current /\ Watched
  BY DEF Lossless, Ordered, IInv
<1> Ordered'
  <2>1. [HealthyNext]_vars => [FaultyNext]_vars
    BY DEF FaultyNext, CancelNext
  <2>2. QED BY <2>1, StepOrdered
<1> SUFFICES (producer # "dead")' /\ Current' /\ Watched'
  BY DEF Lossless
<1> USE DEF row, redis, observer
<1>a. counter \in Nat /\ HotSeq \in Nat
  BY DEF TypeOK, HotSeq, Projection
<1>b. ASSUME UNCHANGED observer PROVE Watched'
  BY <1>b DEF Watched, Complete
<1>1. ASSUME NEW w \in Sinks, NEW k, Emit(w, k), producer \notin {"done", "dead"},
             \A v \in Sinks : Idle(v)
      PROVE  (producer # "dead")' /\ Current' /\ Watched'
  <2> DEFINE e == [stage |-> "append", kind |-> k, seq |-> counter + 1, base |-> None]
  <2>1. /\ counter' = counter + 1 /\ HotSeq = counter
        /\ emission' = [emission EXCEPT ![w] = e]
        /\ e.stage = "append" /\ e.seq = counter + 1
        /\ UNCHANGED <<row, lastId, stream, hot, observer>>
    BY <1>1 DEF Emit, Current
  <2> HIDE DEF e
  <2>2. HotSeq' = HotSeq
    BY <2>1 DEF HotSeq
  <2>3. Current'
    BY <1>1, <2>1, <2>2 DEF Current, Complete, Idle, TypeOK
  <2>4. QED BY <1>b, <2>1, <2>3
<1>2. ASSUME EmitStarted \/ EmitStep \/ EmitEnd
      PROVE  (producer # "dead")' /\ Current' /\ Watched'
  <2>1. /\ producer \notin {"done", "dead"}
        /\ \A v \in Sinks : Idle(v)
        /\ \E w \in Sinks : \E k : Emit(w, k)
    BY <1>2 DEF EmitStarted, EmitStep, EmitEnd, Emit, OneAtATime, Sinks
  <2>2. QED BY <1>1, <2>1
<1>3. ASSUME NEW w \in Sinks, Append(w)
      PROVE  (producer # "dead")' /\ Current' /\ Watched'
  <2> DEFINE e == [emission[w] EXCEPT !.stage = "project"]
  <2>1. /\ emission[w].stage = "append"
        /\ emission' = [emission EXCEPT ![w] = e]
        /\ e.stage = "project" /\ e.seq = emission[w].seq
        /\ UNCHANGED <<row, counter, hot, observer>>
    <3> emission[w] \in Emission
      BY DEF TypeOK
    <3> QED BY <1>3, EmissionMoves DEF Append, Stages
  <2> HIDE DEF e
  <2>2. HotSeq' = HotSeq
    BY <2>1 DEF HotSeq
  <2>3. Current'
    BY <2>1, <2>2 DEF Current, Complete, Idle, TypeOK
  <2>4. QED BY <1>b, <2>1, <2>3
<1>4. ASSUME NEW w \in Sinks, Project(w)
      PROVE  (producer # "dead")' /\ Current' /\ Watched'
  <2> DEFINE b == IF hot = None THEN InitialProjection("pending") ELSE hot
             e == [emission[w] EXCEPT !.stage = "save", !.base = b]
  <2>1. b.seq = HotSeq /\ Complete(b)
    BY DEF HotSeq, InitialProjection, Current, Complete
  <2>2. /\ emission[w].stage = "project"
        /\ emission' = [emission EXCEPT ![w] = e]
        /\ UNCHANGED <<row, redis, observer>>
    BY <1>4 DEF Project
  <2> HIDE DEF b
  <2>3. e.stage = "save" /\ e.seq = emission[w].seq /\ e.base = b
    BY DEF TypeOK, Emission
  <2> HIDE DEF e
  <2>4. HotSeq' = HotSeq
    BY <2>2 DEF HotSeq
  <2>5. Current'
    BY <2>1, <2>2, <2>3, <2>4 DEF Current, Complete, Idle, TypeOK
  <2>6. QED BY <1>b, <2>2, <2>5
<1>5. ASSUME NEW w \in Sinks, SaveHot(w)
      PROVE  (producer # "dead")' /\ Current' /\ Watched'
  <2> DEFINE p == SavedProjection(w)
             e == [emission[w] EXCEPT !.stage = "trace"]
  <2>1. /\ emission[w].base \in Projection /\ Complete(emission[w].base)
        /\ emission[w].seq \in Nat /\ emission[w].seq = counter
        /\ emission[w].base.seq + 1 = counter
        /\ emission[w].kind \in Kinds
    BY <1>5 DEF SaveHot, Emitting, TypeOK, Emission, Current, Idle
  <2>2. Complete(p) /\ p.seq = counter /\ p \in Projection
    BY <2>1, ReduceCompletes, ReduceType DEF SavedProjection
  <2>3. /\ hot' = p /\ emission[w].stage = "save"
        /\ emission' = [emission EXCEPT ![w] = e]
        /\ e.stage = "trace" /\ e.seq = emission[w].seq
        /\ UNCHANGED <<row, counter, lastId, stream, observer>>
    <3> emission[w] \in Emission
      BY DEF TypeOK
    <3> QED BY <1>5, EmissionMoves DEF SaveHot, Stages
  <2> HIDE DEF p, e
  <2>4. HotSeq' = counter /\ hot' # None
    BY <2>2, <2>3, NoneAssumption DEF HotSeq
  <2>5. \A v \in Sinks : v # w => Idle(v)
    BY <2>3 DEF OneAtATime, Idle, Sinks
  <2>6. Current'
    BY <2>1, <2>2, <2>3, <2>4, <2>5 DEF Current, Complete, Idle, TypeOK
  <2>7. QED BY <1>b, <2>3, <2>6
<1>6. ASSUME NEW w \in Sinks, EmitReturns(w)
      PROVE  (producer # "dead")' /\ Current' /\ Watched'
  <2>1. /\ emission[w].stage = "trace"
        /\ emission' = [emission EXCEPT ![w] = NoEmission]
        /\ UNCHANGED <<counter, hot, observer>>
    BY <1>6 DEF EmitReturns
  <2>2. (producer # "dead")'
    BY <1>6 DEF EmitReturns, AfterLifecycle
  <2>3. HotSeq' = HotSeq /\ HotSeq = counter
    BY <2>1 DEF HotSeq, Current
  <2>4. Current'
    BY <2>1, <2>3 DEF Current, Complete, Idle, TypeOK, NoEmission
  <2>5. QED BY <1>b, <2>1, <2>2, <2>4
<1>7. ASSUME CommitRunning \/ CommitCancelled \/ RuntimeReturns \/ CommitEnd
      PROVE  (producer # "dead")' /\ Current' /\ Watched'
  <2>1. /\ producer \notin {"done", "dead"} /\ producer' \notin {"done", "dead"}
        /\ UNCHANGED <<emission, redis, observer>>
    BY <1>7 DEF CommitRunning, CommitCancelled, RuntimeReturns, CommitEnd
  <2>2. HotSeq' = HotSeq
    BY <2>1 DEF HotSeq
  <2>3. Current'
    BY <2>1, <2>2 DEF Current, Complete, Idle
  <2>4. QED BY <1>b, <2>1, <2>3
<1>8. CASE Expire
  <2>1. /\ producer = "done" /\ hot' = None
        /\ \A w \in Sinks : Idle(w)
        /\ UNCHANGED <<row, emission, observer>>
    BY <1>8 DEF Expire
  <2>2. Current'
    BY <2>1 DEF Current, Idle
  <2>3. QED BY <1>b, <2>1, <2>2
<1>9. ASSUME UNCHANGED <<row, emission, redis>>, Watched'
      PROVE  (producer # "dead")' /\ Current' /\ Watched'
  <2>1. HotSeq' = HotSeq
    BY <1>9 DEF HotSeq
  <2>2. QED BY <1>9, <2>1 DEF Current, Complete, Idle
<1>10. ASSUME NEW o \in Observers, NEW p \in Projection, NEW live \in BOOLEAN, NEW last,
              live => Complete(p), SendState(o, p, live, last), UNCHANGED found
       PROVE  Watched'
  BY <1>10 DEF SendState, Watched, Complete, TypeOK, View
<1>11. ASSUME NEW o \in Observers, Observe(o) \/ Client(o)
       PROVE  Watched'
  <2>h. found[o].hot # None => found[o].hot \in Projection /\ Complete(found[o].hot)
    BY DEF Watched, TypeOK, Reading
  <2>1. CASE ReadDurable(o)
    BY <2>1 DEF ReadDurable, Fresh, Watched, Complete, TypeOK
  <2>2. CASE ReadHot(o)
    <3>1. CASE hot = None
      <4>1. UNCHANGED found
        BY <2>2, <3>1 DEF ReadHot
      <4>2. \A u \in Observers : view'[u] = view[u] \/ ~view'[u].live
        BY <2>2, <3>1 DEF ReadHot, AwaitRuntime, TypeOK
      <4>3. \A u \in Observers : pc'[u] = "tail" => pc[u] = "tail" /\ view'[u] = view[u]
        BY <2>2, <3>1 DEF ReadHot, AwaitRuntime, TypeOK
      <4>4. QED BY <4>1, <4>2, <4>3 DEF Watched, Complete
    <3>2. CASE hot # None
      <4>1. /\ found' = [found EXCEPT ![o].hot = hot]
            /\ pc' = [pc EXCEPT ![o] = "latest"]
            /\ UNCHANGED view
        BY <2>2, <3>2 DEF ReadHot
      <4>2. found'[o].hot = hot /\ Complete(hot)
        BY <3>2, <4>1 DEF TypeOK, Reading, Current
      <4>3. \A u \in Observers : u # o => found'[u] = found[u]
        BY <4>1 DEF TypeOK
      <4>4. \A u \in Observers : pc'[u] = "tail" => pc[u] = "tail"
        BY <4>1 DEF TypeOK
      <4>5. QED BY <4>1, <4>2, <4>3, <4>4 DEF Watched, Complete
    <3>3. QED BY <3>1, <3>2
  <2>3. CASE ReadLatest(o)
    <3>1. found[o].hot # None
      BY <2>3 DEF ReadLatest, Resolving
    <3>2. CASE \E live \in BOOLEAN : \E last : SendState(o, found[o].hot, live, last) /\ UNCHANGED found
      BY <1>10, <2>h, <3>1, <3>2
    <3>3. CASE \E l : /\ found' = [found EXCEPT ![o].last = l]
                      /\ pc' = [pc EXCEPT ![o] = "retained"]
                      /\ UNCHANGED view
      BY <3>3 DEF Watched, Complete, TypeOK, Reading
    <3>4. QED BY <2>3, <3>2, <3>3 DEF ReadLatest
  <2>4. CASE ReadRetained(o)
    <3>1. pc[o] = "retained" /\ found[o].hot # None
      BY <2>4 DEF ReadRetained, Resolving
    <3>2. CASE Bridges(o)
      <4>1. Replayed(o) \in Projection /\ Complete(Replayed(o))
        BY <2>h, <3>1, <3>2, ReplayCompletes, ReplayedType DEF IInv
      <4>2. QED BY <1>10, <2>4, <3>2, <4>1 DEF ReadRetained
    <3>3. CASE ~Bridges(o)
      <4>1. SendGap(o) /\ UNCHANGED found
        BY <2>4, <3>3 DEF ReadRetained
      <4>2. QED BY <4>1 DEF SendGap, Watched, Complete, TypeOK, View
    <3>4. QED BY <3>2, <3>3
  <2>5. CASE ReadTail(o)
    BY <2>5 DEF ReadTail, Watched, Complete
  <2>6. CASE Deliver(o)
    <3> DEFINE x == Oldest(inbox[o])
               next == Reduce(view[o].shown, x.seq, x.kind)
    <3>1. /\ x \in Entry /\ x.seq \in Nat /\ x.kind \in Kinds
          /\ view[o].shown \in Projection /\ Complete(view[o].shown)
      BY <2>6, OldestIsMember DEF Deliver, TypeOK, View, Entry, Watched
    <3>2. CASE UNCHANGED <<pc, found, view>>
      BY <3>2 DEF Watched, Complete
    <3>3. CASE SendGap(o) /\ UNCHANGED found
      BY <3>3 DEF SendGap, Watched, Complete, TypeOK, View
    <3>4. CASE /\ x.seq = view[o].shown.seq + 1
               /\ \E end : view' = [view EXCEPT ![o].shown = next, ![o].end = end]
               /\ \E to : pc' = [pc EXCEPT ![o] = to]
               /\ UNCHANGED found
      <4>1. Complete(next)
        BY <3>1, <3>4, ReduceCompletes
      <4> HIDE DEF next
      <4>2. \A u \in Observers : u # o => view'[u] = view[u] /\ pc'[u] = pc[u]
        BY <3>4 DEF TypeOK
      <4>3. view'[o].shown = next
        BY <3>4 DEF TypeOK, View
      <4>4. QED BY <3>4, <4>1, <4>2, <4>3 DEF Watched, Complete
    <3>5. QED BY <2>6, <3>2, <3>3, <3>4 DEF Deliver
  <2>7. CASE Attach(o)
    BY <2>7 DEF Attach, NoView, InitialProjection, Watched, Complete, TypeOK
  <2>8. CASE Detach(o)
    BY <2>8 DEF Detach, Watched, Complete, TypeOK
  <2>9. CASE ResolveRaises(o)
    <3> DEFINE p == IF pc[o] = "hot" THEN InitialProjection(found[o].status) ELSE found[o].hot
    <3>1. p \in Projection
      <4>1. found[o].status \in Status
        BY DEF TypeOK, Reading
      <4>2. QED BY <2>9, <2>h, <4>1, InitialProjectionType DEF ResolveRaises, Resolving
    <3>2. SendState(o, p, FALSE, None) /\ UNCHANGED found
      BY <2>9 DEF ResolveRaises
    <3> HIDE DEF p
    <3>3. QED BY <1>10, <3>1, <3>2
  <2>10. CASE TailRaises(o)
    BY <2>10 DEF TailRaises, Watched, Complete, TypeOK, View
  <2>11. QED
    BY <1>11, <2>1, <2>2, <2>3, <2>4, <2>5, <2>6, <2>7, <2>8, <2>9, <2>10 DEF Observe, Client
<1>12. CASE UNCHANGED vars
  BY <1>9, <1>b, <1>12 DEF vars
<1>13. QED
  BY <1>2, <1>3, <1>4, <1>5, <1>6, <1>7, <1>8, <1>9, <1>11, <1>12, ObserversOnlyRead
  DEF HealthyNext, Produce

(* As long as nothing is cut off in the middle of an emission, the saved   *)
(* projection and the frames of every observer lack no event, at whatever  *)
(* points its reads fall between the sinks' commands and whatever has been *)
(* trimmed from the stream.                                                *)
THEOREM NoEventIsLost == HealthySpec => []LosslessView
<1>1. Lossless => LosslessView
  BY DEF Lossless, Current, Watched, Complete, LosslessView
<1>2. QED BY <1>1, InitLossless, StepLossless, PTL DEF HealthySpec
=============================================================================
