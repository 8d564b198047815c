------------------------- MODULE ExecutionPage_proofs -------------------------
(***************************************************************************)
(* Proofs about the page of ExecutionView, for any number of calls,        *)
(* iterations, connections and faults and any size of the window: its      *)
(* panel and its response are those of the projection (PanelIsCurrent,     *)
(* ResponseIsCurrent), a panel is in order (PanelInOrder), a reload shows  *)
(* what it showed (ReloadKeepsTheStory), and every variable keeps to its   *)
(* type (TypeOK).                                                          *)
(*                                                                         *)
(* The invariant, Paged, has a part for each: Ordered says where panel and *)
(* window meet, Recorded what becomes of an activity, Answers who may      *)
(* speak once the answer began, Shown what the page says of it.  It rests  *)
(* on IInv and Story of ExecutionView_proofs.                              *)
(***************************************************************************)
EXTENDS ExecutionView_proofs, Loops, FiniteSetTheorems

(* The projection an event published now is folded into. *)
Present == IF hot = None THEN InitialProjection("pending", FALSE) ELSE hot

(* The projection has expired, and nothing is left that could publish. *)
Dead ==
    /\ hot = None /\ place = "over" /\ row.status \in Ends
    /\ \A t \in Threads : script[t] = <<>>
    /\ \A c \in Calls : calls[c] = "idle"
    /\ \A s \in Sinks : saving[s] = None

(* The page is where the row and the projection let it be. *)
Linked ==
    /\ link \in {"away", "live", "checking", "over", "done"}
    /\ link \in {"over", "done"} => row.status \in Ends
    /\ history # None => link = "done"
    /\ link = "live" => hot # None /\ hot.status \notin Ends
    /\ row.answer => row.status \in Ends

-----------------------------------------------------------------------------
(* The panel and the window of the projection. *)

(* Every activity of s has a number up to n. *)
UpTo(s, n) == \A i \in DOMAIN s : s[i].seq <= n

(* The panel ends with the first k activities of the window, and the       *)
(* window goes on with activities newer than any of the panel.             *)
Meets(panel, window, k) ==
    /\ k \in 0..Len(window) /\ k <= Len(panel)
    /\ \A j \in 1..k : panel[Len(panel) - k + j] = window[j]
    /\ \A i \in DOMAIN panel, j \in (k + 1)..Len(window) : panel[i].seq < window[j].seq

(* A window that is not full has lost nothing. *)
Whole(panel, window, k) == Len(window) < MaxActivities => k = Len(panel)

(* The activities of the projection. *)
Window == Present.activities

(* What a sequence has. *)
Elements(s) == {s[i] : i \in DOMAIN s}

(* The activities the page or the projection shows. *)
Known == Elements(page.panel) \cup Elements(Window)

(* The panel and the window are in order, up to the last event, and the    *)
(* one takes up where the other is, at its end while the page is live.     *)
Ordered ==
    /\ page.panel \in Seq(Activity) /\ Window \in Seq(Activity) /\ Len(Window) <= MaxActivities
    /\ Increasing(page.panel) /\ Increasing(Window)
    /\ Dead \/ (UpTo(page.panel, Present.seq) /\ UpTo(Window, Present.seq))
    /\ Dead \/ \E k \in 0..Len(Window) : Meets(page.panel, Window, k) /\ Whole(page.panel, Window, k)
    /\ link = "live" => Meets(page.panel, Window, Len(Window)) /\ Whole(page.panel, Window, Len(Window))

-----------------------------------------------------------------------------
(* The panel and the trace. *)

(* A sink is writing the row of a. *)
BeingSaved(a) == \E s \in Sinks : saving[s] # None /\ saving[s].row = a

(* What becomes of an activity. *)
Accounted(a) == a.model \/ a \in lost \/ BeingSaved(a) \/ a \in trace

(* The panel of the ended execution. *)
Kept ==
    history # None =>
        /\ history \in Seq(Activity) /\ Increasing(history)
        /\ \A i \in DOMAIN history : Accounted(history[i])

(* The trace tells activities apart by their numbers, what a sink writes is *)
(* new to it, and each activity known or kept is accounted for.            *)
Recorded ==
    /\ trace \subseteq Activity /\ lost \subseteq Activity /\ IsFiniteSet(trace)
    /\ saving \in [Sinks -> Emission \cup {None}]
    /\ \A a, b \in trace : a.seq = b.seq => a = b
    /\ \A s \in Sinks : saving[s] # None =>
          /\ \A a \in trace : a.seq # saving[s].row.seq
          /\ \A r \in Sinks \ {s} : saving[r] # None => saving[r].row.seq # saving[s].row.seq
    /\ Dead \/ /\ \A a \in trace : a.seq <= Present.seq
               /\ \A s \in Sinks : saving[s] # None => saving[s].row.seq <= Present.seq
    /\ \A a \in Known : Accounted(a)
    /\ Kept

-----------------------------------------------------------------------------
(* The answer. *)

(* The answer has begun, by the phase of the projection. *)
Begins == hot # None /\ hot.phase \in {"response_streaming", "finalizing"}

(* The answer is complete, by the phase of the projection. *)
Final == hot # None /\ hot.phase = "finalizing"

(* What the program says when the answer is there. *)
Closing == <<Event("answer.generated"), Event("answer.completed"), Phase("finalizing"),
             Phase("finalizing"), Event("context.snapshot.created")>>

(* From the answer on nothing but the program speaks, and only of it.      *)
Answers ==
    /\ HasText => Begins \/ Ended
    /\ hot # None /\ hot.phase \in Ends => Ended
    /\ Begins =>
          /\ place \in {"answering", "finalizing", "over"}
          /\ \A c \in Calls : calls[c] = "idle"
          /\ place = "over" => script["program"] = <<>>
    /\ Final => place \in {"finalizing", "over"}
    /\ place = "finalizing" =>
          /\ Said("program") \subseteq {Closing[n] : n \in 1..5}
          /\ Begins \/ Ended
    /\ place = "answering" =>
          \/ /\ ~Begins
             /\ script["program"] \in
                   {<<Event("agent.max_iterations_reached")>> \o Answering, Answering, Tail(Answering)}
          \/ /\ Begins \/ Ended
             /\ script["program"] \in
                   {<<Phase("response_streaming"), Event("assistant.delta")>>,
                    <<Event("assistant.delta")>>, <<>>}
    /\ \A e \in Said("program") :
          /\ PhaseOf(e) = "response_streaming" => place = "answering"
          /\ e.type = "answer.generated" => place = "finalizing"
    /\ saving["runtime"] # None /\ saving["runtime"].type = "skill.requested" => ~Begins

(* The page says no more than the projection does. *)
NoMore ==
    /\ page.text => HasText
    /\ page.started => HasText \/ Begins
    /\ page.completed => HasText /\ Final

(* The page says all of it. *)
NoLess ==
    /\ HasText => page.text
    /\ HasText \/ Begins => page.started
    /\ HasText /\ Final => page.completed
    /\ page.started => page.phase = hot.phase

(* The page says no more while it may yet follow, and all of it when live. *)
Shown ==
    /\ link \in {"away", "live", "checking"} => Dead \/ Ended \/ NoMore
    /\ link = "live" => NoLess

(* The page has its type. *)
Viewed == page \in View

(* What is kept of the page. *)
Paged == Linked /\ Ordered /\ Recorded /\ Answers /\ Shown /\ Viewed

-----------------------------------------------------------------------------
(* What a step that is not of the page, and publishes nothing, may do.     *)

(* The rows a sink was writing are in the trace or lost. *)
Drained ==
    \/ UNCHANGED <<saving, trace, lost>>
    \/ \E s \in Sinks :
          /\ saving' = [saving EXCEPT ![s] = None]
          /\ \/ saving[s] = None /\ UNCHANGED <<trace, lost>>
             \/ saving[s] # None /\ trace' = trace \cup {saving[s].row} /\ UNCHANGED lost
             \/ saving[s] # None /\ lost' = lost \cup {saving[s].row} /\ UNCHANGED trace

(* A sink may finish, and the projection may expire when all is over. *)
Unseen ==
    /\ UNCHANGED <<page, link, history>>
    /\ hot' = hot \/ (hot # None /\ hot' = None /\ Dead' /\ link # "live")
    /\ Drained

-----------------------------------------------------------------------------
(* The panel after a frame. *)

(* A recursive function over the steps of a loop is what its steps make    *)
(* it, when there is such a function.                                      *)
LEMMA RememberedStep ==
  ASSUME NEW P \in Seq(Activity), NEW W \in Seq(Activity),
         NEW g, g = [n \in 0..Len(W) |->
                        IF n = 0 THEN P
                        ELSE IF W[n].seq \in Seqs(g[n - 1]) THEN g[n - 1] ELSE Append(g[n - 1], W[n])]
  PROVE  Remember(P, W) = g[Len(W)]
<1> DEFINE Step(f) == [n \in 0..Len(W) |->
                        IF n = 0 THEN P
                        ELSE IF W[n].seq \in Seqs(f[n - 1]) THEN f[n - 1] ELSE Append(f[n - 1], W[n])]
           after == CHOOSE f : f = Step(f)
<1>1. Remember(P, W) = after[Len(W)]
  BY DEF Remember
<1>2. g = Step(g)
  OBVIOUS
<1>3. after = Step(after)
  BY <1>2
<1> DEFINE S == {n \in 0..Len(W) : after[n] = g[n]}
<1>4. Len(W) \in Nat
  OBVIOUS
<1> HIDE DEF after
<1>5. 0 \in S
  BY <1>2, <1>3, <1>4
<1>6. ASSUME NEW n \in 1..Len(W), n - 1 \in S PROVE n \in S
  <2>1. n \in 0..Len(W) /\ n # 0 /\ after[n - 1] = g[n - 1]
    BY <1>4, <1>6
  <2>2. /\ after[n] = IF W[n].seq \in Seqs(after[n - 1]) THEN after[n - 1] ELSE Append(after[n - 1], W[n])
        /\ g[n] = IF W[n].seq \in Seqs(g[n - 1]) THEN g[n - 1] ELSE Append(g[n - 1], W[n])
    BY <1>2, <1>3, <2>1
  <2>3. QED BY <2>1, <2>2
<1> HIDE DEF S
<1>7. Len(W) \in S
  <2>1. 0..Len(W) \subseteq S
    BY <1>4, <1>5, <1>6, LoopKeeps
  <2>2. QED BY <1>4, <2>1
<1>8. QED BY <1>1, <1>7 DEF S

(* The panel goes on with what of the window it does not have.             *)
Joined(P, W, k, n) ==
    [i \in 1..(Len(P) + (IF n > k THEN n - k ELSE 0)) |->
        IF i <= Len(P) THEN P[i] ELSE W[i - Len(P) + k]]

(* What the panel remembers of a window it meets is what is new in it. *)
LEMMA RememberJoins ==
  ASSUME NEW P \in Seq(Activity), NEW W \in Seq(Activity), NEW k \in 0..Len(W),
         Meets(P, W, k), Increasing(W)
  PROVE  Remember(P, W) = Joined(P, W, k, Len(W))
<1> DEFINE g == [n \in 0..Len(W) |-> Joined(P, W, k, n)]
           L == Len(P)
<1>0. /\ L \in Nat /\ Len(W) \in Nat /\ k \in Nat /\ k <= Len(W) /\ k <= L
      /\ DOMAIN P = 1..L /\ DOMAIN W = 1..Len(W)
      /\ \A j \in 1..k : P[L - k + j] = W[j]
      /\ \A i \in 1..L, j \in (k + 1)..Len(W) : P[i].seq < W[j].seq
      /\ \A i \in 1..L : P[i] \in Activity
      /\ \A i \in 1..Len(W) : W[i] \in Activity
      /\ P = [i \in 1..L |-> P[i]]
  BY DEF Meets
<1>w. \A i, j \in 1..Len(W) : i < j => W[i].seq < W[j].seq
  BY <1>0 DEF Increasing
<1>n. \A a \in Activity : a.seq \in Nat
  BY DEF Activity
<1> HIDE DEF L
<1>1. \A n \in 0..k : Joined(P, W, k, n) = P
  <2> SUFFICES ASSUME NEW n \in 0..k PROVE Joined(P, W, k, n) = P
    OBVIOUS
  <2>1. ~(n > k) /\ L + 0 = L
    BY <1>0
  <2>2. Joined(P, W, k, n) = [i \in 1..L |-> IF i <= L THEN P[i] ELSE W[i - L + k]]
    BY <2>1 DEF Joined, L
  <2>3. \A i \in 1..L : i <= L
    BY <1>0
  <2>4. QED BY <1>0, <2>2, <2>3
<1>2. ASSUME NEW n \in 1..Len(W)
      PROVE  g[n] = IF W[n].seq \in Seqs(g[n - 1]) THEN g[n - 1] ELSE Append(g[n - 1], W[n])
  <2>0. n \in Nat /\ n - 1 \in 0..Len(W) /\ n \in 0..Len(W) /\ n - 1 \in Nat
    BY <1>0
  <2>1. g[n] = Joined(P, W, k, n) /\ g[n - 1] = Joined(P, W, k, n - 1)
    BY <2>0
  <2>2. CASE n <= k
    <3>1. n \in 0..k /\ n - 1 \in 0..k /\ n \in 1..k /\ L - k + n \in 1..L
      BY <1>0, <2>0, <2>2
    <3>2. g[n] = P /\ g[n - 1] = P
      BY <1>1, <2>1, <3>1
    <3>3. W[n] = P[L - k + n]
      BY <1>0, <3>1
    <3>4. W[n].seq \in Seqs(P)
      BY <1>0, <3>1, <3>3 DEF Seqs
    <3>5. QED BY <3>2, <3>4
  <2>3. CASE n > k
    <3> DEFINE G == g[n - 1]
               m == L + (n - 1 - k)
    <3>1. m \in Nat /\ (IF n - 1 > k THEN n - 1 - k ELSE 0) = n - 1 - k
          /\ (IF n > k THEN n - k ELSE 0) = n - k /\ L + (n - k) = m + 1
      BY <1>0, <2>0, <2>3
    <3>2. G = [i \in 1..m |-> IF i <= L THEN P[i] ELSE W[i - L + k]]
      BY <2>1, <3>1 DEF Joined, L
    <3>3. g[n] = [i \in 1..(m + 1) |-> IF i <= L THEN P[i] ELSE W[i - L + k]]
      BY <2>1, <3>1 DEF Joined, L
    <3>4. ASSUME NEW i \in 1..m PROVE G[i] \in Activity /\ G[i].seq < W[n].seq
      <4>1. CASE i <= L
        <5>1. i \in 1..L /\ n \in (k + 1)..Len(W)
          BY <1>0, <2>0, <2>3, <4>1
        <5>2. G[i] = P[i]
          BY <3>2, <4>1
        <5>3. QED BY <1>0, <5>1, <5>2
      <4>2. CASE ~(i <= L)
        <5>1. i - L + k \in 1..Len(W) /\ i - L + k < n
          BY <1>0, <2>0, <2>3, <4>2
        <5>2. G[i] = W[i - L + k]
          BY <3>2, <4>2
        <5>3. QED BY <1>0, <1>w, <5>1, <5>2
      <4>3. QED BY <4>1, <4>2
    <3> DEFINE V(i) == IF i <= L THEN P[i] ELSE W[i - L + k]
    <3>a. G = [i \in 1..m |-> V(i)] /\ g[n] = [i \in 1..(m + 1) |-> V(i)]
      BY <3>2, <3>3
    <3>b. V(m + 1) = W[n]
      <4>1. (m + 1) - L + k = n /\ ~(m + 1 <= L)
        BY <1>0, <2>0, <2>3
      <4>2. QED BY <4>1
    <3> HIDE DEF G, m, V
    <3>5. Len(G) = m /\ DOMAIN G = 1..m /\ G \in Seq(Activity)
      <4>1. DOMAIN G = 1..m
        BY <3>a
      <4>2. G = [i \in 1..m |-> G[i]]
        BY <3>a
      <4>3. G \in [1..m -> Activity]
        BY <3>4, <4>2
      <4>4. G \in Seq(Activity)
        BY <3>1, <4>3, SeqDef
      <4>5. Len(G) = m
        BY <3>1, <4>1, <4>4, LenProperties
      <4>6. QED BY <4>1, <4>4, <4>5
    <3>6. W[n].seq \notin Seqs(G)
      <4>1. W[n].seq \in Nat
        BY <1>0, <1>n
      <4>2. \A i \in 1..m : G[i].seq # W[n].seq
        BY <1>n, <3>4, <4>1
      <4>3. QED BY <3>5, <4>2 DEF Seqs
    <3>7. g[n] = Append(G, W[n])
      <4>1. W[n] \in Activity
        BY <1>0
      <4>2. /\ Append(G, W[n]) \in Seq(Activity)
            /\ Len(Append(G, W[n])) = m + 1
            /\ \A i \in 1..m : Append(G, W[n])[i] = G[i]
            /\ Append(G, W[n])[m + 1] = W[n]
        BY <3>1, <3>5, <4>1, AppendProperties
      <4>3. Append(G, W[n]) = [i \in 1..(m + 1) |-> Append(G, W[n])[i]]
        BY <4>2, LenProperties
      <4>4. \A i \in 1..(m + 1) : Append(G, W[n])[i] = V(i)
        <5>1. \A i \in 1..(m + 1) : i \in 1..m \/ i = m + 1
          BY <3>1
        <5>2. \A i \in 1..m : G[i] = V(i)
          BY <3>a
        <5>3. QED BY <3>b, <4>2, <5>1, <5>2
      <4>5. QED BY <3>a, <4>3, <4>4
    <3>8. QED
      <4> HIDE DEF g
      <4>1. QED BY <3>6, <3>7 DEF G
  <2>4. QED BY <1>0, <2>0, <2>2, <2>3
<1>3. g[0] = P
  <2>1. 0 \in 0..Len(W) /\ 0 \in 0..k
    BY <1>0
  <2>2. QED BY <1>1, <2>1
<1>4. g = [n \in 0..Len(W) |->
              IF n = 0 THEN P
              ELSE IF W[n].seq \in Seqs(g[n - 1]) THEN g[n - 1] ELSE Append(g[n - 1], W[n])]
  <2>1. \A n \in 0..Len(W) : n = 0 \/ n \in 1..Len(W)
    BY <1>0
  <2>2. \A n \in 0..Len(W) :
          g[n] = IF n = 0 THEN P
                 ELSE IF W[n].seq \in Seqs(g[n - 1]) THEN g[n - 1] ELSE Append(g[n - 1], W[n])
    BY <1>2, <1>3, <2>1
  <2> DEFINE h == [n \in 0..Len(W) |->
              IF n = 0 THEN P
              ELSE IF W[n].seq \in Seqs(g[n - 1]) THEN g[n - 1] ELSE Append(g[n - 1], W[n])]
  <2>3. \A n \in 0..Len(W) : h[n] = g[n]
    <3> HIDE DEF g
    <3>1. QED BY <2>2
  <2>4. h = [n \in 0..Len(W) |-> h[n]] /\ g = [n \in 0..Len(W) |-> g[n]]
    OBVIOUS
  <2> HIDE DEF h, g
  <2>5. g = h
    BY <2>3, <2>4
  <2>6. QED BY <2>5 DEF h
<1>5. Len(W) \in 0..Len(W) /\ g[Len(W)] = Joined(P, W, k, Len(W))
  BY <1>0
<1> HIDE DEF g
<1>6. QED BY <1>4, <1>5, RememberedStep

(* What joins the panel keeps its order.                                   *)
LEMMA RememberKeeps ==
  ASSUME NEW P \in Seq(Activity), NEW W \in Seq(Activity), NEW k \in 0..Len(W),
         Meets(P, W, k), Increasing(P), Increasing(W)
  PROVE  LET R == Remember(P, W) IN
         /\ R \in Seq(Activity) /\ Increasing(R)
         /\ Meets(R, W, Len(W))
         /\ Whole(P, W, k) => Whole(R, W, Len(W))
         /\ \A i \in DOMAIN R : \/ \E j \in DOMAIN P : R[i] = P[j]
                                \/ \E j \in DOMAIN W : R[i] = W[j]
<1> DEFINE L == Len(P)
           N == Len(W)
           m == L + N - k
           R == Remember(P, W)
<1>0. /\ L \in Nat /\ N \in Nat /\ k \in Nat /\ k <= N /\ k <= L
      /\ DOMAIN P = 1..L /\ DOMAIN W = 1..N
      /\ \A j \in 1..k : P[L - k + j] = W[j]
      /\ \A i \in 1..L, j \in (k + 1)..N : P[i].seq < W[j].seq
      /\ \A i \in 1..L : P[i] \in Activity
      /\ \A i \in 1..N : W[i] \in Activity
      /\ \A i, j \in 1..N : i < j => W[i].seq < W[j].seq
      /\ \A i, j \in 1..L : i < j => P[i].seq < P[j].seq
  BY DEF Meets, Increasing
<1>1. R = [i \in 1..m |-> IF i <= L THEN P[i] ELSE W[i - L + k]] /\ m \in Nat
  <2>1. L + (IF N > k THEN N - k ELSE 0) = m /\ m \in Nat
    <3> HIDE DEF L, N
    <3>1. QED BY <1>0
  <2>2. QED BY <2>1, RememberJoins DEF Joined
<1> HIDE DEF L, N, R
<1>2. ASSUME NEW i \in 1..m
      PROVE  \/ i \in 1..L /\ R[i] = P[i]
             \/ i > L /\ i - L + k \in (k + 1)..N /\ i - L + k \in 1..N /\ R[i] = W[i - L + k]
  <2>1. R[i] = IF i <= L THEN P[i] ELSE W[i - L + k]
    BY <1>1
  <2>2. QED BY <1>0, <1>1, <2>1
<1>3. R \in [1..m -> Activity]
  <2>1. \A i \in 1..m : R[i] \in Activity
    BY <1>0, <1>2
  <2> HIDE DEF m
  <2>2. R = [i \in 1..m |-> R[i]]
    BY <1>1
  <2>3. QED BY <2>1, <2>2
<1> HIDE DEF m
<1>4. R \in Seq(Activity) /\ DOMAIN R = 1..m
  BY <1>1, <1>3, SeqDef
<1>5. Len(R) = m
  BY <1>1, <1>4, LenProperties
<1> USE DEF m
<1>6. Increasing(R)
  <2> SUFFICES ASSUME NEW i \in 1..m, NEW j \in 1..m, i < j PROVE R[i].seq < R[j].seq
    BY <1>4 DEF Increasing
  <2>1. CASE i \in 1..L /\ R[i] = P[i] /\ j \in 1..L /\ R[j] = P[j]
    BY <1>0, <2>1
  <2>2. CASE i \in 1..L /\ R[i] = P[i] /\ j - L + k \in (k + 1)..N /\ R[j] = W[j - L + k]
    BY <1>0, <2>2
  <2>3. CASE i - L + k \in 1..N /\ R[i] = W[i - L + k] /\ j - L + k \in 1..N /\ R[j] = W[j - L + k]
    <3>1. i - L + k < j - L + k
      BY <1>0
    <3>2. QED BY <1>0, <2>3, <3>1
  <2>4. j \in 1..L => i \in 1..L
    BY <1>0
  <2>5. ~(i \in 1..L /\ i > L) /\ ~(j \in 1..L /\ j > L)
    BY <1>0
  <2>6. QED BY <1>2, <2>1, <2>2, <2>3, <2>4, <2>5
<1>7. Meets(R, W, N)
  <2>1. N \in 0..N /\ N <= m
    BY <1>0
  <2>2. ASSUME NEW j \in 1..N PROVE R[m - N + j] = W[j]
    <3> DEFINE i == m - N + j
    <3>1. i \in 1..m /\ i = L - k + j
      BY <1>0
    <3>2. CASE j <= k
      <4>1. i \in 1..L /\ j \in 1..k
        BY <1>0, <3>1, <3>2
      <4>2. R[i] = P[i]
        BY <1>0, <1>2, <3>1, <4>1
      <4>3. QED BY <1>0, <3>1, <4>1, <4>2
    <3>3. CASE j > k
      <4>1. ~(i \in 1..L) /\ i - L + k = j
        BY <1>0, <3>1, <3>3
      <4>2. QED BY <1>2, <3>1, <4>1
    <3>4. QED BY <1>0, <3>2, <3>3
  <2>3. (N + 1)..N = {}
    BY <1>0
  <2>4. QED BY <1>4, <1>5, <2>1, <2>2, <2>3 DEF Meets, N
<1>8. Whole(P, W, k) => Whole(R, W, N)
  BY <1>0, <1>5 DEF Whole, L, N
<1>9. \A i \in DOMAIN R : \/ \E j \in DOMAIN P : R[i] = P[j]
                          \/ \E j \in DOMAIN W : R[i] = W[j]
  BY <1>0, <1>2, <1>4
<1>10. QED BY <1>4, <1>6, <1>7, <1>8, <1>9 DEF R, N

(* The window after one more activity.                                     *)
LEMMA NewestShifts ==
  ASSUME NEW W \in Seq(Activity), Len(W) <= MaxActivities, NEW a \in Activity
  PROVE  LET V == Newest(W \o <<a>>)
             off == IF Len(W) < MaxActivities THEN 0 ELSE 1
         IN  /\ V \in Seq(Activity) /\ Len(V) = Len(W) + 1 - off /\ Len(V) <= MaxActivities
             /\ \A j \in 1..(Len(W) - off) : V[j] = W[j + off]
             /\ V[Len(V)] = a
<1> DEFINE M == MaxActivities
           N == Len(W)
           C == W \o <<a>>
           off == IF N < M THEN 0 ELSE 1
           V == Newest(C)
<1>0. M \in Nat \ {0} /\ N \in Nat /\ N <= M
  BY ConstantsAssumption
<1>1. /\ C \in Seq(Activity) /\ Len(C) = N + 1
      /\ \A i \in 1..N : C[i] = W[i]
      /\ C[N + 1] = a
  <2>1. <<a>> \in Seq(Activity) /\ Len(<<a>>) = 1 /\ <<a>>[1] = a
    OBVIOUS
  <2>2. /\ C \in Seq(Activity) /\ Len(C) = N + Len(<<a>>)
        /\ \A i \in 1..(N + Len(<<a>>)) : C[i] = IF i <= N THEN W[i] ELSE <<a>>[i - N]
    BY <2>1, ConcatProperties
  <2> HIDE DEF C, N
  <2>3. \A i \in 1..N : i \in 1..(N + 1) /\ i <= N
    BY <1>0
  <2>4. N + 1 \in 1..(N + 1) /\ ~(N + 1 <= N) /\ (N + 1) - N = 1
    BY <1>0
  <2>5. QED BY <2>1, <2>2, <2>3, <2>4
<1> HIDE DEF M, N, C
<1>2. V = SubSeq(C, 1 + off, N + 1)
  <2>1. (IF Len(C) > M THEN Len(C) - M + 1 ELSE 1) = 1 + off
    BY <1>0, <1>1
  <2>2. QED BY <1>1, <2>1 DEF Newest, M
<1> HIDE DEF V
<1>o. off \in {0, 1} /\ off <= N
  BY <1>0
<1>3. /\ V \in Seq(Activity) /\ Len(V) = N + 1 - off
      /\ \A i \in 1..(N + 1 - off) : V[i] = C[off + i]
  <2> DEFINE p == 1 + off
             q == N + 1
  <2>1. p \in Int /\ q \in Int /\ p <= q
    BY <1>0, <1>o
  <2>2. \A i \in p..q : C[i] \in Activity
    <3>1. \A i \in p..q : i \in 1..(N + 1)
      BY <1>0, <1>o
    <3>2. \A i \in 1..Len(C) : C[i] \in Activity
      BY <1>1, ElementOfSeq
    <3>3. QED BY <1>1, <3>1, <3>2
  <2> HIDE DEF p, q
  <2>3. /\ SubSeq(C, p, q) \in Seq(Activity)
        /\ Len(SubSeq(C, p, q)) = q - p + 1
        /\ \A i \in 1..(q - p + 1) : SubSeq(C, p, q)[i] = C[p + i - 1]
    BY <2>1, <2>2, SubSeqProperties
  <2>4. V = SubSeq(C, p, q) /\ q - p + 1 = N + 1 - off
    BY <1>0, <1>2, <1>o DEF p, q
  <2>5. \A i \in 1..(N + 1 - off) : p + i - 1 = off + i
    BY <1>0, <1>o DEF p
  <2>6. QED BY <2>3, <2>4, <2>5
<1>4. Len(V) <= M
  BY <1>0, <1>3
<1>5. ASSUME NEW j \in 1..(N - off) PROVE V[j] = W[j + off]
  <2>1. j \in 1..(N + 1 - off) /\ off + j \in 1..N /\ off + j = j + off
    BY <1>0, <1>o
  <2>2. QED BY <1>1, <1>3, <2>1
<1>6. V[Len(V)] = a
  <2>1. N + 1 - off \in 1..(N + 1 - off) /\ off + (N + 1 - off) = N + 1
    BY <1>0, <1>o
  <2>2. QED BY <1>1, <1>3, <2>1
<1>7. QED BY <1>3, <1>4, <1>5, <1>6 DEF V, C, N, M

(* A panel keeps up with it, and one that is told of the activity has it.  *)
LEMMA WindowMoves ==
  ASSUME NEW W \in Seq(Activity), Len(W) <= MaxActivities, NEW a \in Activity, Increasing(W),
         \A i \in DOMAIN W : W[i].seq < a.seq
  PROVE  LET V == Newest(W \o <<a>>)
         IN  /\ V \in Seq(Activity) /\ Len(V) <= MaxActivities /\ Increasing(V)
             /\ \A i \in DOMAIN V : V[i] = a \/ \E j \in DOMAIN W : V[i] = W[j]
             /\ \A P \in Seq(Activity), k \in 0..Len(W) :
                  Meets(P, W, k) /\ Whole(P, W, k) /\ (\A i \in DOMAIN P : P[i].seq < a.seq)
                    => \E l \in 0..Len(V) : /\ Meets(P, V, l) /\ Whole(P, V, l)
                                            /\ k = Len(W) => l = Len(V) - 1
<1> DEFINE M == MaxActivities
           N == Len(W)
           off == IF N < M THEN 0 ELSE 1
           V == Newest(W \o <<a>>)
<1>0. M \in Nat \ {0} /\ N \in Nat /\ N <= M /\ off \in {0, 1} /\ off <= N
  BY ConstantsAssumption
<1>1. /\ V \in Seq(Activity) /\ Len(V) = N + 1 - off /\ Len(V) <= M
      /\ \A j \in 1..(N - off) : V[j] = W[j + off]
      /\ V[Len(V)] = a
  BY NewestShifts
<1> HIDE DEF V
<1>2. /\ DOMAIN W = 1..N /\ \A i \in 1..N : W[i] \in Activity /\ W[i].seq < a.seq
      /\ \A i, j \in 1..N : i < j => W[i].seq < W[j].seq
  BY LenProperties DEF Increasing
<1> HIDE DEF N, M
<1>v. DOMAIN V = 1..(N + 1 - off)
  BY <1>1, LenProperties
<1>3. ASSUME NEW j \in 1..(N + 1 - off)
      PROVE  \/ j = N + 1 - off /\ V[j] = a
             \/ j \in 1..(N - off) /\ j + off \in 1..N /\ V[j] = W[j + off]
  BY <1>0, <1>1
<1>4. Increasing(V)
  <2> SUFFICES ASSUME NEW i \in 1..(N + 1 - off), NEW j \in 1..(N + 1 - off), i < j
               PROVE  V[i].seq < V[j].seq
    BY <1>v DEF Increasing
  <2>1. i \in 1..(N - off) /\ i + off \in 1..N /\ V[i] = W[i + off]
    BY <1>0, <1>3
  <2>2. CASE j = N + 1 - off /\ V[j] = a
    BY <1>2, <2>1, <2>2
  <2>3. CASE j + off \in 1..N /\ V[j] = W[j + off]
    <3>1. i + off < j + off
      BY <1>0
    <3>2. QED BY <1>2, <2>1, <2>3, <3>1
  <2>4. QED BY <1>3, <2>2, <2>3
<1>5. \A i \in DOMAIN V : V[i] = a \/ \E j \in DOMAIN W : V[i] = W[j]
  BY <1>2, <1>3, <1>v
<1>6. ASSUME NEW P \in Seq(Activity), NEW k \in 0..N, Meets(P, W, k), Whole(P, W, k),
             \A i \in DOMAIN P : P[i].seq < a.seq
      PROVE  \E l \in 0..Len(V) : Meets(P, V, l) /\ Whole(P, V, l) /\ (k = N => l = Len(V) - 1)
  <2> DEFINE L == Len(P)
             l == IF k = 0 THEN 0 ELSE k - off
  <2>0. /\ L \in Nat /\ DOMAIN P = 1..L /\ k <= L /\ k <= N /\ k \in Nat
        /\ \A j \in 1..k : P[L - k + j] = W[j]
        /\ \A i \in 1..L, j \in (k + 1)..N : P[i].seq < W[j].seq
        /\ N < M => k = L
    BY <1>0, <1>6, LenProperties DEF Meets, Whole, M, N
  <2> HIDE DEF L
  <2>1. l \in 0..(N + 1 - off) /\ l <= L /\ l \in Nat
    BY <1>0, <2>0
  <2>2. ASSUME NEW j \in 1..l PROVE P[L - l + j] = V[j]
    <3>1. /\ j \in 1..(N - off) /\ j \in 1..(N + 1 - off) /\ k # 0
          /\ j + off \in 1..k /\ L - l + j = L - k + (j + off)
      BY <1>0, <2>0, <2>1
    <3>2. V[j] = W[j + off]
      BY <1>1, <3>1
    <3>3. QED BY <2>0, <3>1, <3>2
  <2>3. ASSUME NEW i \in 1..L, NEW j \in (l + 1)..(N + 1 - off) PROVE P[i].seq < V[j].seq
    <3>1. j \in 1..(N + 1 - off)
      BY <1>0, <2>1
    <3>2. CASE V[j] = a
      BY <1>6, <2>0, <3>2
    <3>3. CASE j \in 1..(N - off) /\ V[j] = W[j + off]
      <4>1. j + off \in (k + 1)..N
        BY <1>0, <2>0, <3>3
      <4>2. QED BY <2>0, <3>3, <4>1
    <3>4. QED BY <1>3, <3>1, <3>2, <3>3
  <2>4. Meets(P, V, l)
    BY <1>1, <1>v, <2>0, <2>1, <2>2, <2>3 DEF Meets, L
  <2>5. Whole(P, V, l)
    <3>1. Len(V) < M => N < M /\ off = 0
      BY <1>0, <1>1
    <3>2. QED BY <2>0, <3>1 DEF Whole, M, L
  <2>6. k = N => l = Len(V) - 1
    <3>1. N = 0 => off = 0
      BY <1>0
    <3>2. QED BY <1>0, <1>1, <2>0, <3>1
  <2> HIDE DEF l
  <2>7. QED BY <1>1, <2>1, <2>4, <2>5, <2>6
<1>7. QED BY <1>1, <1>4, <1>5, <1>6 DEF V, M, N

(* To a panel that lacks one of the window it adds that one. *)
LEMMA RememberOne ==
  ASSUME NEW P \in Seq(Activity), NEW V \in Seq(Activity), NEW a \in Activity, Len(V) > 0,
         V[Len(V)] = a, Meets(P, V, Len(V) - 1), Increasing(V)
  PROVE  Remember(P, <<a>>) = Remember(P, V)
<1> DEFINE L == Len(P)
           N == Len(V)
           k == N - 1
           A == <<a>>
<1>0. /\ L \in Nat /\ N \in Nat /\ k \in 0..N /\ N > k /\ N - k = 1
      /\ DOMAIN P = 1..L
      /\ \A i \in 1..L : P[i].seq < a.seq
  <2>1. L \in Nat /\ N \in Nat /\ k \in 0..N /\ DOMAIN P = 1..L /\ N \in (k + 1)..N
    BY LenProperties DEF Meets
  <2> HIDE DEF L, N, k
  <2>2. \A i \in 1..L, j \in (k + 1)..N : P[i].seq < V[j].seq
    BY <2>1 DEF Meets, L, N, k
  <2>3. QED BY <2>1, <2>2 DEF N, k
<1>a. A \in Seq(Activity) /\ Len(A) = 1 /\ A[1] = a /\ DOMAIN A = 1..1
  OBVIOUS
<1> HIDE DEF A
<1>1. Meets(P, A, 0)
  <2>1. 0 \in 0..Len(A) /\ 0 <= Len(P) /\ 1..0 = {}
    BY <1>0, <1>a
  <2>2. \A j \in (0 + 1)..Len(A) : j = 1
    BY <1>a
  <2>3. QED BY <1>0, <1>a, <2>1, <2>2 DEF Meets
<1>2. Increasing(A)
  <2>1. \A i, j \in 1..1 : ~(i < j)
    OBVIOUS
  <2>2. QED BY <1>a, <2>1 DEF Increasing
<1>3. Remember(P, A) = Joined(P, A, 0, 1)
  <2>1. 0 \in 0..Len(A)
    BY <1>a
  <2>2. QED BY <1>1, <1>2, <1>a, <2>1, RememberJoins
<1> HIDE DEF L, N, k
<1>4. Remember(P, V) = Joined(P, V, k, N)
  BY <1>0, RememberJoins DEF N, k
<1>5. Joined(P, A, 0, 1) = [i \in 1..(L + 1) |-> IF i <= L THEN P[i] ELSE A[i - L + 0]]
  BY DEF Joined, L
<1>6. Joined(P, V, k, N) = [i \in 1..(L + 1) |-> IF i <= L THEN P[i] ELSE V[i - L + k]]
  BY <1>0 DEF Joined, L
<1>7. ASSUME NEW i \in 1..(L + 1), ~(i <= L) PROVE A[i - L + 0] = V[i - L + k]
  <2>1. i - L + 0 = 1 /\ i - L + k = N
    BY <1>0, <1>7
  <2>2. QED BY <1>a, <2>1 DEF N
<1>8. Joined(P, A, 0, 1) = Joined(P, V, k, N)
  BY <1>5, <1>6, <1>7
<1>9. QED BY <1>3, <1>4, <1>8 DEF A

(* A panel that is at the end of the window has it as its newest part.     *)
LEMMA NewestOfPanel ==
  ASSUME NEW P \in Seq(Activity), NEW W \in Seq(Activity), Len(W) <= MaxActivities,
         Meets(P, W, Len(W)), Whole(P, W, Len(W))
  PROVE  Newest(P) = W
<1> DEFINE L == Len(P)
           N == Len(W)
           M == MaxActivities
           p == IF L > M THEN L - M + 1 ELSE 1
<1>0. /\ L \in Nat /\ N \in Nat /\ M \in Nat \ {0} /\ N <= M /\ N <= L
      /\ N < M => N = L
      /\ \A j \in 1..N : P[L - N + j] = W[j]
      /\ \A i \in 1..L : P[i] \in Activity
  BY ConstantsAssumption, LenProperties DEF Meets, Whole
<1>1. Newest(P) = SubSeq(P, p, L)
  BY DEF Newest
<1> HIDE DEF L, N, M
<1>2. p \in Int /\ L \in Int /\ p = L - N + 1 /\ p \in 1..(L + 1)
  BY <1>0
<1> HIDE DEF p
<1>3. \A i \in p..L : P[i] \in Activity
  BY <1>0, <1>2
<1>4. /\ SubSeq(P, p, L) \in Seq(Activity)
      /\ Len(SubSeq(P, p, L)) = IF p <= L THEN L - p + 1 ELSE 0
      /\ \A i \in 1..(L - p + 1) : SubSeq(P, p, L)[i] = P[p + i - 1]
  BY <1>2, <1>3, SubSeqProperties
<1>5. Len(SubSeq(P, p, L)) = N
  BY <1>0, <1>2, <1>4
<1>6. ASSUME NEW i \in 1..N PROVE SubSeq(P, p, L)[i] = W[i]
  <2>1. i \in 1..(L - p + 1) /\ p + i - 1 = L - N + i
    BY <1>0, <1>2
  <2>2. QED BY <1>0, <1>4, <2>1
<1>7. SubSeq(P, p, L) = W
  BY <1>4, <1>5, <1>6, SeqEqual DEF N
<1>8. QED BY <1>1, <1>7

(* Nothing new leaves the window as it is. *)
LEMMA NewestStays ==
  ASSUME NEW W \in Seq(Activity), Len(W) <= MaxActivities
  PROVE  Newest(W \o <<>>) = W
<1>1. W \o <<>> = W /\ Len(W) \in Nat /\ ~(Len(W) > MaxActivities)
  BY ConcatEmptySeq, ConstantsAssumption
<1>2. QED BY <1>1, SubSeqFull DEF Newest

(* There is nothing to remember. *)
LEMMA RememberNothing ==
  ASSUME NEW P \in Seq(Activity)
  PROVE  Remember(P, <<>>) = P
<1> DEFINE E == <<>>
<1>1. E \in Seq(Activity) /\ Len(E) = 0 /\ DOMAIN E = {}
  OBVIOUS
<1> HIDE DEF E
<1>2. Len(P) \in Nat /\ DOMAIN P = 1..Len(P)
  BY LenProperties
<1>3. 0 \in 0..Len(E) /\ Meets(P, E, 0) /\ Increasing(E)
  <2>1. 1..0 = {} /\ (0 + 1)..Len(E) = {}
    BY <1>1
  <2>2. QED BY <1>1, <1>2, <2>1 DEF Meets, Increasing
<1>4. Remember(P, E) = Joined(P, E, 0, 0)
  BY <1>1, <1>3, RememberJoins
<1>5. Joined(P, E, 0, 0) = [i \in 1..Len(P) |-> P[i]]
  <2>1. ~(0 > 0) /\ Len(P) + 0 = Len(P) /\ \A i \in 1..Len(P) : i <= Len(P)
    BY <1>2
  <2>2. QED BY <2>1 DEF Joined
<1>6. P = [i \in 1..Len(P) |-> P[i]]
  BY <1>2, LenProperties
<1>7. QED BY <1>4, <1>5, <1>6 DEF E

-----------------------------------------------------------------------------
(* Steps that the page does not see. *)

(* A row that has ended stays. *)
LEMMA RowStays ==
  ASSUME IInv, [Next]_vars
  PROVE  /\ row.status \in Ends => row' = row
         /\ row' # row => row'.answer = row.answer \/ row'.status \in Ends
<1>0. RowKnown
  BY DEF IInv
<1>1. \A s : row' = [row EXCEPT !.status = s] => row'.answer = row.answer
  BY DEF RowKnown
<1>2. CASE Begin \/ BeginCancelled \/ RequestCancel
  BY <1>1, <1>2 DEF Begin, BeginCancelled, RequestCancel, Ends
<1>3. CASE Settle
  <2>1. outcome \in Ends
    BY <1>3 DEF IInv, OutcomeKnown, Settle
  <2>2. row.status \notin Ends
    BY <1>3 DEF Settle, Ends
  <2>3. row'.status \in Ends
    BY <1>3, <2>1 DEF Settle, Ends
  <2>4. QED BY <2>2, <2>3
<1>4. CASE Stop
  <2>1. row.status \in Ends => row' = [row EXCEPT !.status = row.status]
    BY <1>4 DEF Stop, Ends
  <2>2. [row EXCEPT !.status = row.status] = row
    BY <1>0 DEF RowKnown
  <2>3. row'.answer = row.answer
    BY <1>1, <1>4 DEF Stop
  <2>4. QED BY <2>1, <2>2, <2>3
<1>5. CASE UNCHANGED row
  BY <1>5
<1>6. CASE Emissions
  BY <1>5, <1>6 DEF Emissions, Publish, EmitRefused, Record, RecordFails
<1>7. CASE Program
  BY <1>5, <1>7 DEF Program, Start, Iterate, Think, Answer, Act, Acted, Conclude, Finish,
     ProgramRaises, Cancel, Raised, Respond, Return, KeepProgram
<1>8. CASE Abandon \/ Expire \/ Connect \/ Drop \/ Check \/ Close \/ Reload
  BY <1>5, <1>8 DEF Abandon, Expire, Connect, Drop, Check, Close, Reload, Backend
<1>9. QED BY <1>2, <1>3, <1>4, <1>5, <1>6, <1>7, <1>8 DEF Next, Handler, Page, vars

(* Where nothing is left that could publish, nothing comes back. *)
LEMMA DeadStays ==
  ASSUME IInv, Dead, [Next]_vars
  PROVE  /\ Dead'
         /\ UNCHANGED <<hot, saving, trace, lost>>
         /\ ~\E t \in Threads : Publish(t)
<1>0. /\ hot = None /\ place = "over" /\ row.status \in Ends
      /\ row.status \notin {"pending", "running", "cancel_requested"}
      /\ \A t \in Threads : script[t] = <<>>
      /\ \A c \in Calls : calls[c] = "idle"
      /\ \A s \in Sinks : saving[s] = None
      /\ "handler" \in Threads /\ "program" \in Threads
  BY ThreadsDiffer DEF Dead, Ends
<1>1. ~Emissions /\ ~\E t \in Threads : Publish(t)
  BY <1>0 DEF Emissions, Publish, EmitRefused, Record, RecordFails, MayPublish
<1>2. ~Program
  BY <1>0 DEF Program, Start, Iterate, Think, Answer, Act, Acted, Conclude, Finish,
     ProgramRaises, Cancel, Raised, Respond, Return, At
<1>3. ~Handler
  BY <1>0 DEF Handler, Begin, BeginCancelled, Abandon, Settle, RequestCancel, Expire
<1>4. row' = row
  BY <1>0, RowStays
<1>5. CASE Page
  BY <1>0, <1>1, <1>4, <1>5 DEF Page, Connect, Drop, Check, Stop, Close, Reload, Backend, program, Dead
<1>6. CASE UNCHANGED vars
  BY <1>0, <1>1, <1>6 DEF vars, program, Dead
<1>7. QED BY <1>1, <1>2, <1>3, <1>5, <1>6 DEF Next

(* Every step publishes, is of the page, or is not seen there. *)
LEMMA Steps ==
  ASSUME IInv, [Next]_vars
  PROVE  (\E t \in Threads : Publish(t)) \/ Page \/ Unseen
<1> DEFINE Same == UNCHANGED <<page, link, history, hot, saving, trace, lost>>
<1>1. Same => Unseen
  BY DEF Unseen, Drained
<1>2. CASE Handler /\ ~Expire
  BY <1>1, <1>2 DEF Handler, Begin, BeginCancelled, Abandon, Settle, RequestCancel, ui
<1>3. CASE Expire
  <2>1. /\ hot # None /\ hot' = None /\ link # "live"
        /\ UNCHANGED <<row, place, calls, script, page, link, history, saving, trace, lost>>
    BY <1>3 DEF Expire, program, ui
  <2>2. place = "over" /\ row.status \in Ends /\ \A c \in Calls : calls[c] = "idle"
    BY <1>3 DEF Expire, Returned
  <2>3. \A t \in Threads : Idle(t)
    BY <1>3 DEF Expire
  <2>4. \A s \in Sinks : saving[s] = None
    <3>1. saving["lifecycle"] = None
      BY <2>3, ThreadsDiffer DEF IInv, Saved, Idle
    <3>2. saving["runtime"] = None
      BY <2>3, ThreadsDiffer DEF IInv, Saved, Idle
    <3>3. QED BY <3>1, <3>2 DEF Sinks
  <2>5. Dead'
    BY <2>1, <2>2, <2>3, <2>4 DEF Dead, Idle
  <2>6. QED BY <2>1, <2>5 DEF Unseen, Drained
<1>4. CASE Program /\ ~Cancel
  BY <1>1, <1>4 DEF Program, Start, Iterate, Think, Answer, Act, Acted, Conclude, Finish,
     ProgramRaises, Raised, Respond, Return, KeepProgram, ui
<1>5. CASE Cancel
  <2>1. /\ UNCHANGED <<page, link, history, hot, trace>>
        /\ saving' = [saving EXCEPT !["runtime"] = None]
        /\ lost' = lost \cup IF saving["runtime"] = None THEN {} ELSE {saving["runtime"].row}
    BY <1>5 DEF Cancel, ui
  <2>2. DOMAIN saving = Sinks /\ "runtime" \in Sinks
    BY DEF IInv, Saved, Sinks
  <2>3. CASE saving["runtime"] = None
    BY <2>1, <2>2, <2>3 DEF Unseen, Drained
  <2>4. CASE saving["runtime"] # None
    BY <2>1, <2>2, <2>4 DEF Unseen, Drained
  <2>5. QED BY <2>3, <2>4
<1>6. ASSUME NEW s \in Sinks, Record(s) \/ RecordFails(s) PROVE Unseen
  <2>1. DOMAIN saving = Sinks
    BY DEF IInv, Saved
  <2>2. QED BY <1>6, <2>1 DEF Record, RecordFails, Unseen, Drained, ui
<1>7. ASSUME NEW t \in Threads, EmitRefused(t) PROVE Unseen
  BY <1>1, <1>7 DEF EmitRefused, ui
<1>8. CASE Emissions
  BY <1>6, <1>7, <1>8 DEF Emissions
<1>9. CASE UNCHANGED vars
  BY <1>1, <1>9 DEF vars, ui
<1>10. QED BY <1>2, <1>3, <1>4, <1>5, <1>8, <1>9 DEF Next, Handler, Program

-----------------------------------------------------------------------------
(* What the projection is at first. *)
LEMMA AtFirst ==
  LET p == InitialProjection("pending", FALSE) IN
  /\ p \in Projection /\ p.seq = 0 /\ p.activities = <<>> /\ p.text = FALSE
  /\ p.status = "pending" /\ p.phase = "pending"
BY DEF InitialProjection, Projection, PhaseFromStatus, Status, Phases

(* An event is folded into the projection, and shown where it is followed. *)
LEMMA PublishDoes ==
  ASSUME IInv, Formed, NEW t \in Threads, Publish(t)
  PROVE  LET e == Head(script[t])
             n == Present.seq + 1
         IN  /\ e \in Working \cup HandlerWords /\ n \in Nat /\ Present.seq \in Nat
             /\ ~Dead /\ hot' # None /\ ~Dead' /\ hot' \in Projection
             /\ hot' = Reduce(Present, n, e) /\ Present' = hot' /\ hot'.seq = n
             /\ hot'.activities = Newest(Window \o Activities(n, e))
             /\ saving[Sink(t)] = None /\ Sink(t) \in Sinks
             /\ saving' = [saving EXCEPT ![Sink(t)] =
                   IF Traceable(e.type) THEN [by |-> t, type |-> e.type, row |-> Told(n, e)] ELSE None]
             /\ UNCHANGED <<row, place, round, skills, calls, trace, lost, history>>
             /\ link = "live" => /\ page' = SeeEvent(page, n, e)
                                 /\ link' = IF StatusAfter("running", e) \in Ends THEN "over" ELSE "live"
             /\ link # "live" => UNCHANGED <<page, link>>
             /\ e.type \in Ends => row.status \in Ends
             /\ script' = [script EXCEPT ![t] = Tail(@)]
<1> DEFINE e == Head(script[t])
           n == Present.seq + 1
<1>1. /\ MayPublish(t) /\ hot' = Projected(e) /\ Deliver(e)
      /\ script' = [script EXCEPT ![t] = Tail(@)]
      /\ saving' = [saving EXCEPT ![Sink(t)] =
                   IF Traceable(e.type) THEN [by |-> t, type |-> e.type, row |-> Told(hot'.seq, e)]
                                        ELSE None]
      /\ UNCHANGED <<row, place, round, skills, calls, trace, lost, history>>
  BY DEF Publish, program
<1>2. script[t] # <<>> /\ saving[Sink(t)] = None /\ Sink(t) \in Sinks
  BY <1>1 DEF MayPublish, Sink, Sinks
<1>3. /\ e \in Working \cup HandlerWords
      /\ e.type \in Ends => row.status \in Ends
  <2>1. CASE t = "handler"
    <3>1. \/ e = Event("started")
          \/ row.status \in Ends /\ \E answer \in BOOLEAN : e = End(row.status, answer)
      BY <1>2, <2>1 DEF IInv, Spoken
    <3>2. QED BY <3>1 DEF HandlerWords, Event, Ends
  <2>2. CASE t # "handler"
    <3>1. e \in Working
      BY <1>2, <2>2 DEF IInv, Spoken
    <3>2. QED BY <3>1 DEF Working
  <2>3. QED BY <2>1, <2>2
<1> HIDE DEF e
<1>4. hot' \in Projection /\ hot' # None
  BY <1>1, <1>3, Folds
<1>5. Present \in Projection
  BY AtFirst DEF Present, Formed
<1>6. n \in Nat /\ Present.seq \in Nat
  <2>1. Present.seq \in Nat
    BY <1>5 DEF Projection
  <2>2. QED BY <2>1
<1>7. hot' = Reduce(Present, n, e)
  BY <1>1 DEF Projected, Present
<1>8. hot'.seq = n /\ hot'.activities = Newest(Window \o Activities(n, e))
  BY <1>7 DEF Reduce, Window
<1>9. Present' = hot' /\ ~Dead'
  BY <1>4 DEF Present, Dead
<1>10. ~Dead
  BY <1>2 DEF Dead
<1>11. /\ link = "live" => /\ page' = SeeEvent(page, n, e)
                           /\ link' = IF StatusAfter("running", e) \in Ends THEN "over" ELSE "live"
       /\ link # "live" => UNCHANGED <<page, link>>
  BY <1>1, <1>8 DEF Deliver
<1>12. QED BY <1>1, <1>2, <1>3, <1>4, <1>6, <1>7, <1>8, <1>9, <1>10, <1>11 DEF e

(* What an event of a phase, a step or an end does to the status.          *)
LEMMA StatusMoves ==
  ASSUME NEW e, NEW s
  PROVE  StatusAfter(s, e) \in Ends <=> e.type \in Ends \/ (s \in Ends /\ e.type # "started")
BY DEF StatusAfter, Ends

(* The page is where it may be. *)
LEMMA InitLinked == Init => Linked
BY DEF Init, Linked, Ends

(* No step takes the page elsewhere. *)
LEMMA LinkedStep ==
  ASSUME IInv, Formed, Linked, [Next]_vars
  PROVE  Linked'
<1>0. /\ row.status \in Ends => row' = row
      /\ row' # row => row'.answer = row.answer \/ row'.status \in Ends
  BY RowStays
<1>r. row'.answer => row'.status \in Ends
  BY <1>0 DEF Linked
<1>1. ASSUME NEW t \in Threads, Publish(t) PROVE Linked'
  <2> DEFINE e == Head(script[t])
  <2>1. /\ hot' # None /\ hot'.status = StatusAfter(Present.status, e)
        /\ row' = row /\ history' = history
        /\ link = "live" => link' = IF StatusAfter("running", e) \in Ends THEN "over" ELSE "live"
        /\ link # "live" => link' = link
        /\ e.type \in Ends => row.status \in Ends
    BY <1>1, PublishDoes DEF Reduce
  <2> HIDE DEF e
  <2>2. link = "live" => Present.status \notin Ends
    BY DEF Linked, Present
  <2>3. "running" \notin Ends
    BY DEF Ends
  <2>4. CASE link = "live"
    BY <1>r, <2>1, <2>2, <2>3, <2>4, StatusMoves DEF Linked
  <2>5. CASE link # "live"
    BY <1>r, <2>1, <2>5 DEF Linked
  <2>6. QED BY <2>4, <2>5
<1>2. CASE Page
  <2>1. CASE Connect
    <3>1. link = "away" /\ UNCHANGED <<row, hot, history>>
      BY <2>1 DEF Connect, Backend
    <3>2. \/ hot # None /\ hot.status \in Ends /\ link' = "over"
          \/ hot # None /\ hot.status \notin Ends /\ link' \in {"live", "checking"}
          \/ row.status \in Ends /\ link' = "over"
          \/ link' = "checking"
      BY <2>1 DEF Connect
    <3>3. hot # None /\ hot.status \in Ends => row.status \in Ends
      BY DEF IInv, EndStands
    <3>4. QED BY <1>r, <3>1, <3>2, <3>3 DEF Linked
  <2>2. CASE Drop \/ Check \/ Close
    BY <1>r, <2>2 DEF Linked, Drop, Check, Close, Backend
  <2>3. CASE Stop
    BY <1>0, <1>r, <2>3 DEF Linked, Stop
  <2>4. CASE Reload
    BY <1>r, <2>4 DEF Linked, Reload, Backend
  <2>5. QED BY <1>2, <2>1, <2>2, <2>3, <2>4 DEF Page
<1>3. CASE Unseen
  BY <1>0, <1>r, <1>3 DEF Unseen, Linked
<1>4. QED BY <1>1, <1>2, <1>3, Steps

-----------------------------------------------------------------------------
(* The page of a panel and the window. *)

(* What a step of the page makes of the panel. *)
LEMMA PanelSteps ==
  ASSUME PageKnown, Page
  PROVE  /\ UNCHANGED <<hot, saving, trace, lost>>
         /\ \/ page'.panel = page.panel /\ (link' = "live" => link = "live")
            \/ page'.panel = <<>> /\ link' # "live"
            \/ page'.panel = Remember(page.panel, <<>>) /\ link' # "live"
            \/ page'.panel = Remember(page.panel, hot.activities) /\ hot # None
<1>1. UNCHANGED <<hot, saving, trace, lost>>
  BY DEF Page, Connect, Drop, Check, Stop, Close, Reload, Backend
<1>2. \A v, p : SeeState(v, p).panel = Remember(v.panel, p.activities)
  BY DEF SeeState
<1>3. CASE Connect
  <2>1. InitialProjection(row.status, row.answer).activities = <<>>
    BY DEF InitialProjection
  <2>2. QED BY <1>1, <1>2, <1>3, <2>1 DEF Connect, SeeDurable
<1>4. CASE Check
  <2>1. SeeRow(page).panel = page.panel
    BY DEF SeeRow, PageKnown
  <2>2. QED BY <1>1, <1>4, <2>1 DEF Check
<1>5. CASE Stop
  BY <1>1, <1>5 DEF Stop, PageKnown
<1>6. CASE Drop \/ Close \/ Reload
  BY <1>1, <1>6 DEF Drop, Close, Reload, NewPage
<1>7. QED BY <1>3, <1>4, <1>5, <1>6 DEF Page

(* Panel and window are empty at first. *)
LEMMA InitOrdered == Init => Ordered
<1> SUFFICES ASSUME Init PROVE Ordered
  OBVIOUS
<1>1. page.panel = <<>> /\ link # "live" /\ hot = None
  BY DEF Init, NewPage
<1>2. Window = <<>> /\ Present.seq = 0
  BY <1>1, AtFirst DEF Window, Present
<1> DEFINE E == <<>>
<1>3. E \in Seq(Activity) /\ DOMAIN E = {} /\ Len(E) = 0
  OBVIOUS
<1> HIDE DEF E
<1>4. page.panel = E /\ Window = E
  BY <1>1, <1>2 DEF E
<1>5. 0 \in 0..0 /\ 1..0 = {}
  OBVIOUS
<1>6. Meets(E, E, 0) /\ Whole(E, E, 0) /\ Increasing(E) /\ UpTo(E, 0)
  BY <1>3, <1>5 DEF Meets, Whole, Increasing, UpTo
<1>7. 0 <= MaxActivities
  BY ConstantsAssumption
<1>8. QED BY <1>1, <1>2, <1>3, <1>4, <1>5, <1>6, <1>7 DEF Ordered

(* What a new page has: nothing, and so it may take up the whole window.   *)
LEMMA EmptyMeets ==
  ASSUME NEW W \in Seq(Activity)
  PROVE  /\ <<>> \in Seq(Activity) /\ Increasing(<<>>) /\ \A n : UpTo(<<>>, n)
         /\ 0 \in 0..Len(W) /\ Meets(<<>>, W, 0) /\ Whole(<<>>, W, 0)
<1> DEFINE E == <<>>
<1>1. E \in Seq(Activity) /\ DOMAIN E = {} /\ Len(E) = 0 /\ Len(W) \in Nat
  BY LenProperties
<1> HIDE DEF E
<1>2. 1..0 = {} /\ 0 \in 0..Len(W)
  BY <1>1
<1>3. Meets(E, W, 0) /\ Whole(E, W, 0) /\ Increasing(E) /\ \A n : UpTo(E, n)
  BY <1>1, <1>2 DEF Meets, Whole, Increasing, UpTo
<1>4. QED BY <1>1, <1>2, <1>3 DEF E

(* An event is told in order. *)
LEMMA PublishOrdered ==
  ASSUME IInv, Formed, Linked, Ordered, NEW t \in Threads, Publish(t)
  PROVE  /\ Ordered'
         /\ LET told == Activities(Present.seq + 1, Head(script[t])) IN
            Known' \subseteq Known \cup Elements(told)
<1> DEFINE e == Head(script[t])
           n == Present.seq + 1
           P == page.panel
           W == Window
           a == Told(n, e)
<1>1. /\ n \in Nat /\ Present.seq \in Nat /\ ~Dead /\ ~Dead'
      /\ Window' = Newest(W \o Activities(n, e)) /\ Present'.seq = n
      /\ link = "live" => page'.panel = Remember(P, Activities(n, e))
      /\ link # "live" => page'.panel = P
      /\ link' = "live" => link = "live"
  <2>1. \A v : SeeEvent(v, n, e).panel = Remember(v.panel, Activities(n, e))
    BY DEF SeeEvent
  <2>2. QED BY <2>1, PublishDoes DEF Window
<1>2. /\ P \in Seq(Activity) /\ W \in Seq(Activity) /\ Len(W) <= MaxActivities
      /\ Increasing(P) /\ Increasing(W)
      /\ UpTo(P, Present.seq) /\ UpTo(W, Present.seq)
      /\ link = "live" => Meets(P, W, Len(W)) /\ Whole(P, W, Len(W))
      /\ \E k \in 0..Len(W) : Meets(P, W, k) /\ Whole(P, W, k)
  BY <1>1 DEF Ordered
<1>3. PICK k \in 0..Len(W) : /\ Meets(P, W, k) /\ Whole(P, W, k)
                             /\ link = "live" => k = Len(W)
  <2>1. Len(W) \in 0..Len(W)
    BY <1>2, LenProperties
  <2>2. CASE link = "live"
    BY <1>2, <2>1, <2>2
  <2>3. CASE link # "live"
    BY <1>2, <2>3
  <2>4. QED BY <2>2, <2>3
<1>4. /\ \A i \in DOMAIN P : P[i] \in Activity /\ P[i].seq \in Nat /\ P[i].seq <= Present.seq
      /\ \A i \in DOMAIN W : W[i] \in Activity /\ W[i].seq \in Nat /\ W[i].seq <= Present.seq
  <2>1. \A x \in Activity : x.seq \in Nat
    BY DEF Activity
  <2>2. /\ \A i \in DOMAIN P : P[i] \in Activity
        /\ \A i \in DOMAIN W : W[i] \in Activity
    BY <1>2, LenProperties
  <2>3. QED BY <1>2, <2>1, <2>2 DEF UpTo
<1>5. a \in Activity /\ a.seq = n
  <2>1. (e.type \in {"llm.started", "llm.completed"}) \in BOOLEAN
    OBVIOUS
  <2>2. QED BY <1>1, <2>1 DEF Told, Activity
<1> HIDE DEF W, P, a
<1>6. CASE Activities(n, e) = <<>>
  <2>1. Window' = W
    BY <1>1, <1>2, <1>6, NewestStays
  <2>2. page'.panel = P
    BY <1>1, <1>2, <1>6, RememberNothing
  <2>3. UpTo(P, n) /\ UpTo(W, n)
    BY <1>1, <1>4 DEF UpTo
  <2> HIDE DEF n
  <2>4. Known' \subseteq Known
    BY <2>1, <2>2 DEF Known, W, P, Elements
  <2>5. QED BY <1>1, <1>2, <1>3, <2>1, <2>2, <2>3, <2>4 DEF Ordered
<1>7. CASE Activities(n, e) = <<a>>
  <2> DEFINE V == Newest(W \o <<a>>)
  <2>1. /\ \A i \in DOMAIN W : W[i].seq < a.seq
        /\ \A i \in DOMAIN P : P[i].seq < a.seq
    BY <1>1, <1>4, <1>5
  <2>2. /\ V \in Seq(Activity) /\ Len(V) <= MaxActivities /\ Increasing(V)
        /\ \A i \in DOMAIN V : V[i] = a \/ \E j \in DOMAIN W : V[i] = W[j]
        /\ \E l \in 0..Len(V) : /\ Meets(P, V, l) /\ Whole(P, V, l)
                                /\ k = Len(W) => l = Len(V) - 1
    BY <1>2, <1>3, <1>5, <2>1, WindowMoves
  <2>3. V[Len(V)] = a /\ Len(V) > 0
    <3>1. Len(W) \in Nat /\ MaxActivities \in Nat \ {0}
      BY <1>2, LenProperties, ConstantsAssumption
    <3>2. QED BY <1>2, <1>5, <3>1, NewestShifts
  <2>4. Window' = V
    BY <1>1, <1>7
  <2> HIDE DEF V
  <2>5. UpTo(V, n)
    BY <1>1, <1>4, <1>5, <2>2 DEF UpTo
  <2>e. Elements(V) \subseteq Elements(W) \cup Elements(Activities(n, e))
    <3>1. Elements(V) \subseteq Elements(W) \cup {a}
      BY <2>2 DEF Elements
    <3>2. a \in Elements(<<a>>)
      <4>1. 1 \in DOMAIN <<a>> /\ <<a>>[1] = a
        OBVIOUS
      <4>2. QED BY <4>1 DEF Elements
    <3>3. QED BY <1>7, <3>1, <3>2
  <2>6. CASE link = "live"
    <3>1. Meets(P, V, Len(V) - 1) /\ Whole(P, V, Len(V) - 1) /\ Len(V) - 1 \in 0..Len(V)
      BY <1>3, <2>2, <2>6
    <3>2. page'.panel = Remember(P, V)
      BY <1>1, <1>2, <1>5, <1>7, <2>2, <2>3, <2>6, <3>1, RememberOne
    <3> DEFINE R == Remember(P, V)
    <3>3. /\ R \in Seq(Activity) /\ Increasing(R)
          /\ Meets(R, V, Len(V)) /\ Whole(R, V, Len(V))
          /\ \A i \in DOMAIN R : \/ \E j \in DOMAIN P : R[i] = P[j]
                                 \/ \E j \in DOMAIN V : R[i] = V[j]
      BY <1>2, <2>2, <3>1, RememberKeeps
    <3> HIDE DEF R
    <3>4. UpTo(R, n)
      <4>1. ASSUME NEW i \in DOMAIN R PROVE R[i].seq <= n
        <5>1. CASE \E j \in DOMAIN P : R[i] = P[j]
          BY <1>1, <1>4, <5>1
        <5>2. CASE \E j \in DOMAIN V : R[i] = V[j]
          BY <2>5, <5>2 DEF UpTo
        <5>3. QED BY <3>3, <5>1, <5>2
      <4> HIDE DEF n
      <4>2. QED BY <4>1 DEF UpTo
    <3>5. Len(V) \in 0..Len(V) /\ page'.panel = R
      BY <2>2, <3>2, LenProperties DEF R
    <3>6. Known' \subseteq Known \cup Elements(Activities(n, e))
      <4>1. Elements(R) \subseteq Elements(P) \cup Elements(V)
        BY <3>3 DEF Elements
      <4>2. Known' = Elements(R) \cup Elements(V) /\ Known = Elements(P) \cup Elements(W)
        BY <2>4, <3>5 DEF Known, W, P
      <4>3. QED BY <2>e, <4>1, <4>2
    <3>7. Ordered'
      <4> HIDE DEF n
      <4>1. QED BY <1>1, <2>2, <2>4, <2>5, <3>3, <3>4, <3>5 DEF Ordered
    <3>8. QED BY <3>6, <3>7
  <2>7. CASE link # "live"
    <3>1. UpTo(P, n)
      BY <1>1, <1>4 DEF UpTo
    <3>2. Known' \subseteq Known \cup Elements(Activities(n, e))
      <4>1. Known' = Elements(P) \cup Elements(V) /\ Known = Elements(P) \cup Elements(W)
        BY <1>1, <2>4, <2>7 DEF Known, W, P
      <4>2. QED BY <2>e, <4>1
    <3>3. Ordered'
      <4> HIDE DEF n
      <4>1. QED BY <1>1, <1>2, <2>2, <2>4, <2>5, <2>7, <3>1 DEF Ordered
    <3>4. QED BY <3>2, <3>3
  <2>8. QED BY <2>6, <2>7
<1>8. QED BY <1>6, <1>7 DEF Activities, a

(* The page takes the window as it is, or starts anew. *)
LEMMA PageOrdered ==
  ASSUME IInv, Formed, PageKnown, Linked, Ordered, Page
  PROVE  Ordered' /\ Known' \subseteq Known
<1> DEFINE P == page.panel
           W == Window
           n == Present.seq
<1>1. /\ hot' = hot /\ Window' = W /\ Present'.seq = n
      /\ Dead => Dead'
      /\ link' = "live" => hot # None
  <2>1. hot' = hot
    BY PanelSteps
  <2>2. Dead => Dead'
    <3>1. [Next]_vars
      BY DEF Next
    <3>2. QED BY <3>1, DeadStays
  <2>3. link' = "live" => hot # None
    BY LinkedStep, <2>1 DEF Linked, Next
  <2>4. QED BY <2>1, <2>2, <2>3 DEF Window, Present
<1>2. /\ P \in Seq(Activity) /\ W \in Seq(Activity) /\ Len(W) <= MaxActivities
      /\ Increasing(P) /\ Increasing(W)
      /\ Dead \/ (UpTo(P, n) /\ UpTo(W, n))
      /\ Dead \/ \E k \in 0..Len(W) : Meets(P, W, k) /\ Whole(P, W, k)
      /\ link = "live" => Meets(P, W, Len(W)) /\ Whole(P, W, Len(W))
  BY DEF Ordered
<1>3. \/ page'.panel = P /\ (link' = "live" => link = "live")
      \/ page'.panel = <<>> /\ link' # "live"
      \/ page'.panel = Remember(P, <<>>) /\ link' # "live"
      \/ page'.panel = Remember(P, W) /\ hot # None
  BY PanelSteps DEF Window, Present
<1>4. Remember(P, <<>>) = P
  BY <1>2, RememberNothing
<1> HIDE DEF P, W, n
<1>5. CASE page'.panel = P /\ (link' = "live" => link = "live")
  <2>1. Known' = Known
    BY <1>1, <1>5 DEF Known, P, W
  <2>2. QED BY <1>1, <1>2, <1>5, <2>1 DEF Ordered
<1>6. CASE page'.panel = <<>> /\ link' # "live"
  <2>1. Elements(<<>>) = {}
    BY DEF Elements
  <2>2. Known' \subseteq Known
    BY <1>1, <1>6, <2>1 DEF Known, P, W
  <2>3. QED BY <1>1, <1>2, <1>6, <2>2, EmptyMeets DEF Ordered
<1>7. CASE page'.panel = Remember(P, W) /\ hot # None
  <2>1. ~Dead /\ ~Dead'
    BY <1>1, <1>7 DEF Dead
  <2>2. PICK k \in 0..Len(W) : Meets(P, W, k) /\ Whole(P, W, k)
    BY <1>2, <2>1
  <2> DEFINE R == Remember(P, W)
  <2>3. /\ R \in Seq(Activity) /\ Increasing(R)
        /\ Meets(R, W, Len(W)) /\ Whole(R, W, Len(W))
        /\ \A i \in DOMAIN R : \/ \E j \in DOMAIN P : R[i] = P[j]
                               \/ \E j \in DOMAIN W : R[i] = W[j]
    BY <1>2, <2>2, RememberKeeps
  <2> HIDE DEF R
  <2>4. UpTo(R, n)
    BY <1>2, <2>1, <2>3 DEF UpTo
  <2>5. Len(W) \in 0..Len(W) /\ page'.panel = R
    BY <1>2, <1>7, LenProperties DEF R
  <2>6. Known' \subseteq Known
    <3>1. Elements(R) \subseteq Elements(P) \cup Elements(W)
      BY <2>3 DEF Elements
    <3>2. QED BY <1>1, <2>5, <3>1 DEF Known, P, W
  <2>7. QED BY <1>1, <1>2, <2>1, <2>3, <2>4, <2>5, <2>6 DEF Ordered
<1>8. QED BY <1>3, <1>4, <1>5, <1>6, <1>7

(* Nothing else touches the panel; the window goes with the projection.    *)
LEMMA UnseenOrdered ==
  ASSUME IInv, Ordered, Unseen, [Next]_vars
  PROVE  Ordered' /\ Known' \subseteq Known
<1>1. UNCHANGED <<page, link>>
  BY DEF Unseen
<1>2. CASE hot' = hot
  <2>1. Window' = Window /\ Present' = Present /\ (Dead => Dead')
    BY <1>2, DeadStays DEF Window, Present
  <2>2. Known' = Known
    BY <1>1, <2>1 DEF Known
  <2>3. QED BY <1>1, <2>1, <2>2 DEF Ordered
<1>3. CASE hot' = None /\ Dead' /\ link # "live"
  <2>1. Window' = <<>>
    BY <1>3, AtFirst DEF Window, Present
  <2>2. <<>> \in Seq(Activity) /\ Len(<<>>) = 0 /\ Increasing(<<>>) /\ 0 <= MaxActivities
    <3>1. <<>> \in Seq(Activity) /\ Len(<<>>) = 0
      OBVIOUS
    <3>2. Increasing(<<>>)
      BY <3>1, EmptyMeets
    <3>3. 0 <= MaxActivities
      BY ConstantsAssumption
    <3>4. QED BY <3>1, <3>2, <3>3
  <2>3. Known' \subseteq Known
    BY <1>1, <2>1 DEF Known, Elements
  <2>4. QED BY <1>1, <1>3, <2>1, <2>2, <2>3 DEF Ordered
<1>4. QED BY <1>2, <1>3 DEF Unseen

(* Every step keeps the panel in order. *)
LEMMA OrderedStep ==
  ASSUME IInv, Formed, PageKnown, Linked, Ordered, [Next]_vars
  PROVE  Ordered'
BY Steps, PublishOrdered, PageOrdered, UnseenOrdered

-----------------------------------------------------------------------------
(* The rows of the trace. *)

(* How many rows a row is among the first of. *)
Rank(a) == Cardinality({b \in trace : b.seq <= a.seq})

(* The rows of a trace whose numbers differ, one by one in their order.    *)
LEMMA RowsInOrder ==
  ASSUME trace \subseteq Activity, IsFiniteSet(trace),
         \A a, b \in trace : a.seq = b.seq => a = b
  PROVE  /\ Rows \in Seq(Activity) /\ Increasing(Rows)
         /\ \A i \in DOMAIN Rows : Rows[i] \in trace
         /\ \A a \in trace : \E i \in DOMAIN Rows : Rows[i] = a
<1> DEFINE C == Cardinality(trace)
           Up(a) == {b \in trace : b.seq <= a.seq}
           f == [a \in trace |-> Rank(a)]
<1>0. \A a \in trace : a.seq \in Nat
  BY DEF Activity
<1>1. C \in Nat
  BY FS_CardinalityType
<1>2. ASSUME NEW a \in trace PROVE IsFiniteSet(Up(a)) /\ Rank(a) \in 1..C
  <2>1. Up(a) \subseteq trace /\ a \in Up(a)
    BY <1>0
  <2>2. IsFiniteSet(Up(a)) /\ Cardinality(Up(a)) <= C
    BY <2>1, FS_Subset
  <2>3. Cardinality(Up(a)) \in Nat /\ Cardinality(Up(a)) # 0
    BY <2>1, <2>2, FS_CardinalityType, FS_EmptySet
  <2>4. Rank(a) = Cardinality(Up(a))
    BY DEF Rank
  <2> HIDE DEF C, Up
  <2>5. QED BY <1>1, <2>2, <2>3, <2>4
<1>n. ASSUME NEW a \in trace PROVE Rank(a) \in Nat
  <2>1. Rank(a) \in 1..C
    BY <1>2
  <2> HIDE DEF C
  <2>2. QED BY <1>1, <2>1
<1>3. ASSUME NEW a \in trace, NEW b \in trace, a.seq < b.seq PROVE Rank(a) < Rank(b)
  <2>1. Up(a) \subseteq Up(b)
    BY <1>0, <1>3
  <2>2. b \in Up(b) /\ b \notin Up(a)
    BY <1>0, <1>3
  <2>3. Up(a) # Up(b)
    BY <2>2
  <2>4. IsFiniteSet(Up(b))
    BY <1>2
  <2> HIDE DEF Up
  <2>5. Cardinality(Up(a)) <= Cardinality(Up(b)) /\ Cardinality(Up(a)) # Cardinality(Up(b))
    BY <2>1, <2>3, <2>4, FS_Subset
  <2>6. Rank(a) = Cardinality(Up(a)) /\ Rank(b) = Cardinality(Up(b))
    BY DEF Rank, Up
  <2>7. Rank(a) \in Nat /\ Rank(b) \in Nat
    BY <1>n
  <2>8. QED BY <2>5, <2>6, <2>7
<1>4. ASSUME NEW a \in trace, NEW b \in trace, Rank(a) = Rank(b) PROVE a = b
  <2>1. a.seq < b.seq \/ b.seq < a.seq \/ a.seq = b.seq
    BY <1>0
  <2>2. Rank(a) \in Nat
    BY <1>n
  <2>3. QED BY <1>3, <1>4, <2>1, <2>2
<1>5. \A n \in 1..C : \E a \in trace : Rank(a) = n
  <2> DEFINE S == {Rank(a) : a \in trace}
  <2>1. f \in Bijection(trace, S)
    <3>1. f \in [trace -> S]
      OBVIOUS
    <3>2. f \in Injection(trace, S)
      BY <1>4, <3>1 DEF Injection, IsInjective
    <3>3. f \in Surjection(trace, S)
      BY <3>1 DEF Surjection
    <3>4. QED BY <3>2, <3>3 DEF Bijection
  <2>2. IsFiniteSet(S) /\ Cardinality(S) = C
    <3> HIDE DEF f, S
    <3>1. ExistsBijection(trace, S)
      BY <2>1 DEF ExistsBijection
    <3>2. QED BY <3>1, FS_Bijection
  <2>3. S \subseteq 1..C
    BY <1>2
  <2>4. IsFiniteSet(1..C) /\ Cardinality(1..C) = C
    BY <1>1, FS_Interval
  <2>5. S = 1..C
    <3> HIDE DEF S, C
    <3>1. QED BY <2>2, <2>3, <2>4, FS_Subset
  <2>6. QED BY <2>5
<1> HIDE DEF C
<1>6. Rows = [n \in 1..C |-> CHOOSE a \in trace : Rank(a) = n]
  BY DEF Rows, Rank, C
<1>7. ASSUME NEW n \in 1..C PROVE Rows[n] \in trace /\ Rank(Rows[n]) = n
  BY <1>5, <1>6
<1>8. DOMAIN Rows = 1..C
  BY <1>6
<1>9. Rows \in Seq(Activity)
  <2>1. \A n \in 1..C : Rows[n] \in Activity
    BY <1>7
  <2>2. Rows \in [1..C -> Activity]
    BY <1>6, <1>8, <2>1
  <2>3. QED BY <1>1, <2>2, SeqDef
<1>10. Increasing(Rows)
  <2> SUFFICES ASSUME NEW i \in 1..C, NEW j \in 1..C, i < j PROVE Rows[i].seq < Rows[j].seq
    BY <1>8 DEF Increasing
  <2>1. Rows[i] \in trace /\ Rows[j] \in trace /\ Rank(Rows[i]) < Rank(Rows[j])
    BY <1>7
  <2>2. ~(Rows[j].seq < Rows[i].seq) /\ Rows[i].seq # Rows[j].seq
    <3>1. Rows[j].seq < Rows[i].seq => Rank(Rows[j]) < Rank(Rows[i])
      BY <1>3, <2>1
    <3>2. Rows[i].seq = Rows[j].seq => Rows[i] = Rows[j]
      BY <2>1
    <3>3. Rank(Rows[i]) \in Nat /\ Rank(Rows[j]) \in Nat
      BY <1>n, <2>1
    <3>4. QED BY <2>1, <3>1, <3>2, <3>3
  <2>3. QED BY <1>0, <2>1, <2>2
<1>11. ASSUME NEW a \in trace PROVE \E i \in DOMAIN Rows : Rows[i] = a
  <2>1. Rank(a) \in 1..C
    BY <1>2
  <2>2. Rows[Rank(a)] \in trace /\ Rank(Rows[Rank(a)]) = Rank(a)
    BY <1>7, <2>1
  <2>3. QED BY <1>4, <1>8, <2>1, <2>2
<1>12. QED BY <1>7, <1>8, <1>9, <1>10, <1>11

-----------------------------------------------------------------------------
(* What is recorded. *)

(* Nothing has been recorded at first. *)
LEMMA InitRecorded == Init => Recorded
<1> SUFFICES ASSUME Init PROVE Recorded
  OBVIOUS
<1>1. /\ trace = {} /\ lost = {} /\ saving = [s \in Sinks |-> None] /\ history = None
      /\ page.panel = <<>> /\ hot = None
  BY DEF Init, NewPage
<1>2. Known = {}
  <2>1. Window = <<>>
    BY <1>1, AtFirst DEF Window, Present
  <2>2. Elements(<<>>) = {}
    BY DEF Elements
  <2>3. QED BY <1>1, <2>1, <2>2 DEF Known
<1>3. IsFiniteSet(trace)
  BY <1>1, FS_EmptySet
<1>4. QED BY <1>1, <1>2, <1>3 DEF Recorded, Kept

(* An event that is told is written to the trace, or of the model. *)
LEMMA ToldIsAccounted ==
  ASSUME NEW e, NEW n
  PROVE  \A a \in Elements(Activities(n, e)) :
            a = Told(n, e) /\ (a.model \/ Traceable(e.type))
<1>1. Elements(<<>>) = {}
  BY DEF Elements
<1>2. \A x : Elements(<<x>>) = {x}
  <2>1. \A x : DOMAIN <<x>> = {1} /\ <<x>>[1] = x
    OBVIOUS
  <2>2. QED BY <2>1 DEF Elements
<1>3. CASE e.type = "assistant.delta"
  BY <1>1, <1>3 DEF Activities
<1>4. CASE e.type # "assistant.delta"
  <2>1. Activities(n, e) = <<Told(n, e)>>
    BY <1>4 DEF Activities
  <2>2. Told(n, e).model \/ Traceable(e.type)
    BY <1>4 DEF Told, Traceable
  <2>3. QED BY <1>2, <2>1, <2>2
<1>5. QED BY <1>3, <1>4

(* An event goes to the trace after those before it, or is of the model. *)
LEMMA PublishRecorded ==
  ASSUME IInv, Formed, Linked, Ordered, Recorded, NEW t \in Threads, Publish(t)
  PROVE  Recorded'
<1> DEFINE e == Head(script[t])
           n == Present.seq + 1
           u == Sink(t)
           a == Told(n, e)
           new == [by |-> t, type |-> e.type, row |-> a]
<1>1. /\ n \in Nat /\ Present.seq \in Nat /\ ~Dead /\ Present'.seq = n
      /\ e \in Working \cup HandlerWords
      /\ saving[u] = None /\ u \in Sinks
      /\ saving' = [saving EXCEPT ![u] = IF Traceable(e.type) THEN new ELSE None]
      /\ UNCHANGED <<trace, lost, history>>
  BY PublishDoes
<1>2. a \in Activity /\ a.seq = n
  <2>1. (e.type \in {"llm.started", "llm.completed"}) \in BOOLEAN
    OBVIOUS
  <2>2. QED BY <1>1, <2>1 DEF Told, Activity
<1>3. Known' \subseteq Known \cup Elements(Activities(n, e))
  BY PublishOrdered
<1>4. \A x \in Elements(Activities(n, e)) : x = a /\ (x.model \/ Traceable(e.type))
  BY ToldIsAccounted
<1>5. new \in Emission /\ new # None /\ new.row = a
  <2>1. e.type \in Types
    BY <1>1 DEF Working, HandlerWords, Event, End, Types
  <2>2. new \in Emission
    BY <1>2, <2>1 DEF Emission
  <2>3. QED BY <2>2, NoneAssumption
<1> HIDE DEF e, u, a, new
<1>6. /\ saving' \in [Sinks -> Emission \cup {None}]
      /\ saving'[u] \in {new, None} /\ (Traceable(e.type) => saving'[u] = new)
      /\ \A s \in Sinks \ {u} : saving'[s] = saving[s]
      /\ saving \in [Sinks -> Emission \cup {None}]
  BY <1>1, <1>5 DEF Recorded
<1>7. ASSUME NEW x, Accounted(x) PROVE Accounted(x)'
  <2>1. BeingSaved(x) => BeingSaved(x)'
    BY <1>1, <1>6 DEF BeingSaved
  <2>2. QED BY <1>1, <1>7, <2>1 DEF Accounted
<1>8. \A x \in Known' : Accounted(x)'
  <2>1. \A x \in Known : Accounted(x)'
    BY <1>7 DEF Recorded
  <2>2. ASSUME NEW x \in Elements(Activities(n, e)) PROVE Accounted(x)'
    <3>1. x.model \/ BeingSaved(x)'
      BY <1>1, <1>4, <1>5, <1>6 DEF BeingSaved
    <3>2. QED BY <3>1 DEF Accounted
  <2>3. QED BY <1>3, <2>1, <2>2
<1>9. Kept'
  BY <1>1, <1>7 DEF Recorded, Kept, Accounted, BeingSaved
<1>10. /\ \A x \in trace : x.seq \in Nat /\ x.seq <= Present.seq
       /\ \A s \in Sinks : saving[s] # None => saving[s].row.seq \in Nat /\ saving[s].row.seq <= Present.seq
  <2>1. \A x \in Activity : x.seq \in Nat
    BY DEF Activity
  <2>2. \A s \in Sinks : saving[s] # None => saving[s].row \in Activity
    BY DEF Recorded, Emission
  <2>3. QED BY <1>1, <2>1, <2>2 DEF Recorded
<1>11. /\ \A x \in trace' : x.seq <= n
       /\ \A s \in Sinks : saving'[s] # None => saving'[s].row.seq <= n
  BY <1>1, <1>2, <1>5, <1>6, <1>10
<1>12. \A s \in Sinks : saving'[s] # None =>
          /\ \A x \in trace' : x.seq # saving'[s].row.seq
          /\ \A r \in Sinks \ {s} : saving'[r] # None => saving'[r].row.seq # saving'[s].row.seq
  <2>1. ASSUME NEW s \in Sinks, saving'[s] # None
        PROVE  /\ \A x \in trace' : x.seq # saving'[s].row.seq
               /\ \A r \in Sinks \ {s} : saving'[r] # None => saving'[r].row.seq # saving'[s].row.seq
    <3>1. CASE s = u
      <4>1. saving'[s].row.seq = n
        BY <1>2, <1>5, <1>6, <2>1, <3>1
      <4>2. \A r \in Sinks \ {s} : saving'[r] = saving[r]
        BY <1>6, <3>1
      <4>3. QED BY <1>1, <1>10, <4>1, <4>2
    <3>2. CASE s # u
      <4>1. saving'[s] = saving[s] /\ saving[s] # None
        BY <1>6, <2>1, <3>2
      <4>2. \A r \in Sinks \ {u} : saving'[r] = saving[r]
        BY <1>6
      <4>3. saving'[u] # None => saving'[u].row.seq = n
        BY <1>2, <1>5, <1>6
      <4>4. saving[s].row.seq # n
        BY <1>1, <1>10, <4>1
      <4>5. /\ \A x \in trace : x.seq # saving[s].row.seq
            /\ \A r \in Sinks \ {s} : saving[r] # None => saving[r].row.seq # saving[s].row.seq
        BY <4>1 DEF Recorded
      <4>6. QED BY <1>1, <4>1, <4>2, <4>3, <4>4, <4>5
    <3>3. QED BY <3>1, <3>2
  <2>2. QED BY <2>1
<1> HIDE DEF n
<1>13. /\ trace' \subseteq Activity /\ lost' \subseteq Activity /\ IsFiniteSet(trace')
       /\ \A x, y \in trace' : x.seq = y.seq => x = y
  BY <1>1 DEF Recorded
<1>14. QED BY <1>1, <1>6, <1>8, <1>9, <1>11, <1>12, <1>13 DEF Recorded

(* A row that is written, or lost, is accounted for as before. *)
LEMMA UnseenRecorded ==
  ASSUME IInv, Ordered, Recorded, Unseen, [Next]_vars
  PROVE  Recorded'
<1>1. UNCHANGED history /\ Known' \subseteq Known
  BY UnseenOrdered DEF Unseen
<1>0. saving \in [Sinks -> Emission \cup {None}]
  BY DEF Recorded
<1>2. /\ trace \subseteq trace' /\ lost \subseteq lost'
      /\ saving' \in [Sinks -> Emission \cup {None}]
      /\ \A s \in Sinks : \/ saving'[s] = saving[s]
                          \/ saving'[s] = None /\ saving[s].row \in trace' \cup lost'
                          \/ saving'[s] = None /\ saving[s] = None
      /\ \/ trace' = trace
         \/ \E s \in Sinks : /\ saving[s] # None /\ saving'[s] = None
                             /\ trace' = trace \cup {saving[s].row}
      /\ \/ lost' = lost
         \/ \E s \in Sinks : /\ saving[s] # None /\ lost' = lost \cup {saving[s].row}
  BY <1>0 DEF Unseen, Drained
<1>3. ASSUME NEW x, Accounted(x) PROVE Accounted(x)'
  <2>1. BeingSaved(x) => BeingSaved(x)' \/ x \in trace' \cup lost'
    BY <1>2 DEF BeingSaved
  <2>2. QED BY <1>2, <1>3, <2>1 DEF Accounted
<1>4. \A x \in Known' : Accounted(x)'
  BY <1>1, <1>3 DEF Recorded
<1>5. Kept'
  BY <1>1, <1>3 DEF Recorded, Kept, Accounted, BeingSaved
<1>6. saving \in [Sinks -> Emission \cup {None}] /\ \A s \in Sinks : saving[s] # None => saving[s].row \in Activity
  BY DEF Recorded, Emission
<1>8. trace' \subseteq Activity /\ lost' \subseteq Activity
  BY <1>2, <1>6 DEF Recorded
<1>9. IsFiniteSet(trace')
  BY <1>2, FS_AddElement DEF Recorded
<1>10. Dead' \/ /\ \A x \in trace' : x.seq <= Present'.seq
                /\ \A s \in Sinks : saving'[s] # None => saving'[s].row.seq <= Present'.seq
  <2>1. CASE hot' = hot
    <3>1. Present' = Present /\ (Dead => Dead')
      BY <2>1, DeadStays DEF Present
    <3>2. QED BY <1>2, <3>1 DEF Recorded
  <2>2. CASE Dead'
    BY <2>2
  <2>3. QED BY <2>1, <2>2 DEF Unseen
<1>11. \A x, y \in trace' : x.seq = y.seq => x = y
  BY <1>2 DEF Recorded
<1>12. \A s \in Sinks : saving'[s] # None =>
          /\ \A x \in trace' : x.seq # saving'[s].row.seq
          /\ \A r \in Sinks \ {s} : saving'[r] # None => saving'[r].row.seq # saving'[s].row.seq
  BY <1>2 DEF Recorded
<1>13. QED BY <1>2, <1>4, <1>5, <1>8, <1>9, <1>10, <1>11, <1>12 DEF Recorded

(* The page keeps the panel it has, or the rows. *)
LEMMA PageRecorded ==
  ASSUME IInv, Formed, PageKnown, Linked, Ordered, Recorded, Page
  PROVE  Recorded'
<1>1. UNCHANGED <<hot, saving, trace, lost>> /\ Known' \subseteq Known
  BY PanelSteps, PageOrdered
<1>2. /\ Dead => Dead'
      /\ Present' = Present
  <2>1. [Next]_vars
    BY DEF Next
  <2>2. QED BY <1>1, <2>1, DeadStays DEF Present
<1>3. \A x : Accounted(x) => Accounted(x)'
  BY <1>1 DEF Accounted, BeingSaved
<1>4. \A x \in Known' : Accounted(x)'
  BY <1>1, <1>3 DEF Recorded
<1>5. Kept'
  <2>1. CASE UNCHANGED history
    BY <1>1, <2>1 DEF Recorded, Kept, Accounted, BeingSaved
  <2>2. CASE history' = page.panel
    <3>1. page.panel \in Seq(Activity) /\ Increasing(page.panel)
      BY DEF Ordered
    <3>2. \A i \in DOMAIN page.panel : Accounted(page.panel[i])
      BY DEF Recorded, Known, Elements
    <3>3. QED BY <1>1, <2>2, <3>1, <3>2 DEF Kept, Accounted, BeingSaved
  <2>3. CASE history' = Rows
    <3>1. /\ Rows \in Seq(Activity) /\ Increasing(Rows)
          /\ \A i \in DOMAIN Rows : Rows[i] \in trace
      BY RowsInOrder DEF Recorded
    <3>2. QED BY <1>1, <2>3, <3>1 DEF Kept, Accounted
  <2>4. CASE history' = <<>>
    <3> DEFINE E == <<>>
    <3>1. E \in Seq(Activity) /\ DOMAIN E = {}
      OBVIOUS
    <3> HIDE DEF E
    <3>2. QED BY <2>4, <3>1 DEF Kept, Increasing, E
  <2>5. CASE history' = None
    BY <2>5 DEF Kept
  <2>6. QED BY <2>1, <2>2, <2>3, <2>4, <2>5 DEF Page, Connect, Drop, Check, Stop, Close, Reload
<1>6. QED BY <1>1, <1>2, <1>4, <1>5 DEF Recorded

(* Every step keeps account of the activities. *)
LEMMA RecordedStep ==
  ASSUME IInv, Formed, PageKnown, Linked, Ordered, Recorded, [Next]_vars
  PROVE  Recorded'
BY Steps, PublishRecorded, PageRecorded, UnseenRecorded

-----------------------------------------------------------------------------
(* A step that replaces the panel of the ended execution is a reload, or   *)
(* the first to keep one.                                                  *)
LEMMA HistorySteps ==
  ASSUME IInv, Linked, [Next]_vars, history # None, history' # history
  PROVE  history' \in {None, <<>>, Rows}
<1>1. ~Close
  BY DEF Close, Linked
<1>2. ~\E t \in Threads : Publish(t)
  BY DEF Publish
<1>3. ~Unseen
  BY DEF Unseen
<1>4. Page
  BY <1>2, <1>3, Steps
<1>5. QED BY <1>1, <1>4 DEF Page, Connect, Drop, Check, Stop, Reload

-----------------------------------------------------------------------------
(* The answer. *)

(* Words from before the answer. *)
Early ==
    {e \in Working : PhaseOf(e) # "response_streaming" /\ e.type # "answer.generated"}

(* What an event makes of the phase while no end is shown. *)
LEMMA PhaseMoves ==
  ASSUME NEW ph, ph \notin Ends, NEW q
  PROVE  LET new == NextPhase(ph, q) IN
         /\ q = None => new = ph
         /\ q = "response_streaming" => new = "response_streaming"
         /\ q = "finalizing" => new = "finalizing"
         /\ new \in {ph, q}
         /\ q \notin {None, "response_preparing"} => new = q
<1>1. None \notin {"response_streaming", "finalizing", "response_preparing"}
  BY NoneAssumption DEF Phases
<1>2. QED BY <1>1 DEF NextPhase

(* What each of the events of an answer does. *)
LEMMA AnswerWords ==
  /\ PhaseOf(Event("agent.max_iterations_reached")) = None
  /\ PhaseOf(Phase("response_preparing")) = "response_preparing"
  /\ PhaseOf(Event("answer.started")) = "response_streaming"
  /\ PhaseOf(Phase("response_streaming")) = "response_streaming"
  /\ PhaseOf(Event("assistant.delta")) = "response_streaming"
  /\ PhaseOf(Event("answer.generated")) = None
  /\ PhaseOf(Event("answer.completed")) = "finalizing"
  /\ PhaseOf(Phase("finalizing")) = "finalizing"
  /\ PhaseOf(Event("context.snapshot.created")) = None
BY DEF PhaseOf, Event, Phase, Ends

(* What the program says when the answer is there. *)
LEMMA ClosingWords ==
  \A n \in 1..5 : /\ Closing[n].type \in {"answer.generated", "answer.completed",
                         "execution.phase.changed", "context.snapshot.created"}
                  /\ PhaseOf(Closing[n]) \in {None, "finalizing"}
<1> DEFINE a == Event("answer.generated")
           b == Event("answer.completed")
           c == Phase("finalizing")
           d == Event("context.snapshot.created")
<1>1. \A n \in 1..5 : Closing[n] \in {a, b, c, d}
  <2>1. Closing = <<a, b, c, c, d>>
    BY DEF Closing
  <2> HIDE DEF a, b, c, d
  <2>2. QED BY <2>1
<1>2. \A x \in {a, b, c, d} :
         /\ x.type \in {"answer.generated", "answer.completed",
                        "execution.phase.changed", "context.snapshot.created"}
         /\ PhaseOf(x) \in {None, "finalizing"}
  BY AnswerWords DEF Event, Phase
<1>3. QED BY <1>1, <1>2

(* Nothing has been answered at first. *)
LEMMA InitAnswers == Init => Answers
<1> SUFFICES ASSUME Init PROVE Answers
  OBVIOUS
<1>1. script["program"] = <<>> /\ Said("program") = {}
  <2>1. script["program"] = <<>> /\ Len(<<>>) = 0
    BY ThreadsDiffer DEF Init
  <2>2. QED BY <2>1 DEF Said
<1>2. hot = None /\ place = "queued" /\ saving["runtime"] = None
  BY DEF Init, Sinks
<1>3. QED BY <1>1, <1>2 DEF Answers, HasText, Begins, Final

(* Where the answer has begun only the program speaks, and the handler of  *)
(* the end.                                                                *)
LEMMA AnswerAlone ==
  ASSUME IInv, Story, Answers, Begins
  PROVE  /\ \A c \in Calls : script[c] = <<>>
         /\ place = "over" => script["program"] = <<>>
         /\ place \in {"answering", "finalizing", "over"}
         /\ place # "ready"
<1>1. ASSUME NEW c \in Calls PROVE script[c] = <<>>
  <2>1. calls[c] = "idle" /\ CallStands(c)
    BY DEF Answers, Story, AtWork
  <2>2. QED BY <2>1 DEF CallStands
<1>2. QED BY <1>1 DEF Answers

(* What a publication does to the marks of the answer. *)
LEMMA SpeechMoves ==
  ASSUME IInv, Story, Answers, NEW t \in Threads, Publish(t)
  PROVE  LET e == Head(script[t])
             q == PhaseOf(e)
             ph == Present.phase
         IN  /\ hot' # None /\ hot'.phase = NextPhase(ph, q)
             /\ e.type \notin Ends => (HasText' <=> HasText \/ e.type = "assistant.delta")
             /\ e.type \in Ends => Ended'
             /\ Ended => Ended'
             /\ HasText => HasText'
             /\ ~Ended => ph \notin Ends
             /\ ~Ended /\ e.type \notin Ends => ~Ended'
             /\ q \in Ends => e.type \in Ends
             /\ hot # None => ph = hot.phase
             /\ hot = None => ph = "pending"
<1> DEFINE e == Head(script[t])
           q == PhaseOf(e)
           ph == Present.phase
<1>1. /\ e \in Working \cup HandlerWords /\ hot' # None /\ hot' = Projected(e)
      /\ hot' = Reduce(Present, Present.seq + 1, e)
  <2>1. Formed
    BY DEF Story
  <2>2. hot' = Projected(e)
    BY DEF Publish
  <2>3. QED BY <2>1, <2>2, PublishDoes
<1>e. (hot # None => ph = hot.phase) /\ (hot = None => ph = "pending")
  BY AtFirst DEF Present
<1>2. /\ hot'.text <=> HasText \/ e.type = "assistant.delta" \/ e.of = "answer"
      /\ hot'.phase = NextPhase(ph, q)
      /\ hot'.status = StatusAfter(Present.status, e)
  <2>1. Formed
    BY DEF Story
  <2>2. Present.status = IF hot = None THEN "pending" ELSE hot.status
    BY AtFirst DEF Present
  <2>3. ph = IF hot = None THEN "pending" ELSE hot.phase
    BY <1>e
  <2> HIDE DEF e, ph
  <2>4. QED BY <1>1, <2>1, <2>2, <2>3, Folds
<1>3. e.type \notin Ends => e.of # "answer"
  <2>1. CASE e \in Working
    <3>1. e.of \in Phases \cup Calls \cup {None}
      BY <2>1 DEF Working
    <3>2. "answer" \notin Phases \cup Calls \cup {None}
      BY ConstantsAssumption DEF Phases, Status, Ends
    <3>3. QED BY <3>1, <3>2
  <2>2. CASE e \in HandlerWords
    <3>1. None # "answer"
      BY ConstantsAssumption
    <3>2. e.type \notin Ends => e = Event("started")
      BY <2>2 DEF HandlerWords, End
    <3>3. QED BY <3>1, <3>2 DEF Event
  <2>3. QED BY <1>1, <2>1, <2>2
<1>4. HasText' <=> hot'.text
  BY <1>1 DEF HasText
<1>5. e.type \in Ends => Ended'
  BY <1>1, <1>2, StatusMoves DEF Ended
<1>6. Ended => e.type # "started"
  <2>1. Ended => row.status \in Ends
    BY DEF Ended, IInv, EndStands
  <2>2. e.type = "started" => e \notin Working
    BY DEF Working
  <2>3. t # "handler" => e \in Working
    <3>1. script[t] # <<>>
      BY DEF Publish, MayPublish
    <3>2. QED BY <3>1 DEF IInv, Spoken
  <2>4. t = "handler" /\ e.type = "started" => row.status \notin Ends
    <3>1. t = "handler" => script[t] # <<>>
      BY DEF Publish, MayPublish
    <3>2. place = "ready" => row.status \notin Ends
      BY DEF IInv, Begun
    <3>3. \A s \in Ends, a \in BOOLEAN : End(s, a).type # "started"
      BY DEF End, Ends
    <3>4. ASSUME t = "handler", e.type = "started" PROVE row.status \notin Ends
      <4>1. \/ script[t] = <<Event("started")>> /\ place = "ready"
            \/ /\ row.status \in Ends
               /\ \E answer \in BOOLEAN : script[t] = <<End(row.status, answer)>>
        BY <3>1, <3>4 DEF IInv, Spoken
      <4>2. CASE \E answer \in BOOLEAN : script[t] = <<End(row.status, answer)>>
        <5>1. row.status \notin Ends
          BY <3>3, <3>4, <4>2
        <5>2. QED BY <5>1
      <4>3. QED BY <3>2, <4>1, <4>2
    <3>5. QED BY <3>4
  <2>5. QED BY <2>1, <2>2, <2>3, <2>4
<1>7. Ended => Ended'
  BY <1>1, <1>2, <1>6, StatusMoves DEF Ended, Present
<1>8. ~Ended => ph \notin Ends
  <2>1. "pending" \notin Ends
    BY DEF Ends
  <2>2. QED BY <1>e, <2>1 DEF Answers
<1>9. ~Ended /\ e.type \notin Ends => ~Ended'
  <2>1. ~Ended => Present.status \notin Ends
    <3>1. "pending" \notin Ends
      BY DEF Ends
    <3>2. QED BY <3>1, AtFirst DEF Ended, Present
  <2>2. QED BY <1>2, <2>1, StatusMoves DEF Ended
<1>10. q \in Ends => e.type \in Ends
  <2>1. CASE e \in Working
    <3>1. PhaseOf(e) \notin Ends
      <4>1. e.type \notin Ends /\ e.type # "started"
        BY <2>1 DEF Working
      <4>2. QED BY <2>1, <4>1, NoneAssumption DEF PhaseOf, Working, Ends, Phases, Status
    <3>2. QED BY <3>1
  <2>2. CASE e \in HandlerWords
    <3>1. PhaseOf(Event("started")) = "context" /\ "context" \notin Ends
      BY DEF PhaseOf, Event, Ends
    <3>2. \A s \in Ends, a \in BOOLEAN : End(s, a).type \in Ends
      BY DEF End
    <3>3. QED BY <2>2, <3>1, <3>2 DEF HandlerWords
  <2>3. QED BY <1>1, <2>1, <2>2
<1>11. QED BY <1>1, <1>2, <1>3, <1>4, <1>5, <1>7, <1>8, <1>9, <1>10, <1>e

(* What the program says where: the answer at its place and at the end of  *)
(* it, and before nothing of it.                                           *)
LEMMA ProgramSaysWhere ==
  ASSUME IInv, Story, Answers, Publish("program")
  PROVE  LET e == Head(script["program"])
             q == PhaseOf(e)
         IN  /\ e \in Working /\ e \in Said("program")
             /\ Said("program")' \subseteq Said("program")
             /\ script'["program"] = Tail(script["program"])
             /\ q = "response_streaming" => place = "answering"
             /\ e.type = "answer.generated" => place = "finalizing"
             /\ q = "finalizing" => place = "finalizing"
             /\ place = "finalizing" =>
                   \E n \in 1..5 : e = Closing[n]
             /\ place = "over" => ~Begins
             /\ place = "answering" /\ Begins /\ ~Ended =>
                   e \in {Phase("response_streaming"), Event("assistant.delta")}
             /\ place = "answering" =>
                   \/ /\ ~Begins /\ q = None
                      /\ Tail(script["program"]) = Answering
                   \/ /\ ~Begins /\ q = "response_preparing"
                      /\ Tail(script["program"]) = Tail(Answering)
                   \/ /\ q = "response_streaming"
                      /\ Tail(script["program"]) \in
                            {<<Phase("response_streaming"), Event("assistant.delta")>>,
                             <<Event("assistant.delta")>>, <<>>}
<1> DEFINE s == script["program"]
           e == Head(s)
           q == PhaseOf(e)
<1>1. s # <<>> /\ script' = [script EXCEPT !["program"] = Tail(@)]
  BY DEF Publish, MayPublish
<1>2. s \in Seq(Working) /\ script'["program"] = Tail(s)
  BY <1>1, ThreadsDiffer DEF IInv, Spoken
<1>3. /\ e \in Working /\ e \in Said("program") /\ Said("program")' \subseteq Said("program")
  <2>1. Said("program") = {s[i] : i \in 1..Len(s)}
    BY DEF Said
  <2>2. Said("program")' = {Tail(s)[i] : i \in 1..Len(Tail(s))}
    BY <1>2 DEF Said
  <2> HIDE DEF s
  <2>3. QED BY <1>1, <1>2, <2>1, <2>2, SaidOnce
<1>4. /\ q = "response_streaming" => place = "answering"
      /\ e.type = "answer.generated" => place = "finalizing"
      /\ q = "finalizing" => place = "finalizing"
  <2> HIDE DEF e
  <2>1. QED BY <1>3 DEF Story, Timely, Answers
<1>5. place = "finalizing" => \E n \in 1..5 : e = Closing[n]
  <2> HIDE DEF e
  <2>1. QED BY <1>3 DEF Answers
<1>6. place = "over" => ~Begins
  BY <1>1, AnswerAlone
<1> DEFINE m == Event("agent.max_iterations_reached")
           a == Phase("response_preparing")
           b == Event("answer.started")
           c == Phase("response_streaming")
           d == Event("assistant.delta")
<1>7. /\ Answering = <<a, b, c, d>>
      /\ PhaseOf(m) = None /\ PhaseOf(a) = "response_preparing"
      /\ PhaseOf(b) = "response_streaming" /\ PhaseOf(c) = "response_streaming"
      /\ PhaseOf(d) = "response_streaming"
  BY AnswerWords DEF Answering
<1>8. place = "answering" =>
        \/ /\ ~Begins
           /\ s \in {<<m>> \o Answering, Answering, Tail(Answering)}
        \/ s \in {<<c, d>>, <<d>>}
  BY <1>1 DEF Answers
<1> HIDE DEF m, a, b, c, d
<1>9. /\ Head(<<m>> \o <<a, b, c, d>>) = m /\ Tail(<<m>> \o <<a, b, c, d>>) = <<a, b, c, d>>
      /\ Head(<<a, b, c, d>>) = a /\ Tail(<<a, b, c, d>>) = <<b, c, d>>
      /\ Head(<<b, c, d>>) = b /\ Tail(<<b, c, d>>) = <<c, d>>
      /\ Head(<<c, d>>) = c /\ Tail(<<c, d>>) = <<d>>
      /\ Head(<<d>>) = d /\ Tail(<<d>>) = <<>>
  <2> DEFINE Z == {m, a, b, c, d}
             S4 == <<a, b, c, d>>
  <2>1. S4 \in Seq(Z) /\ <<m>> \in Seq(Z)
    OBVIOUS
  <2>2. Head(<<m>> \o S4) = m /\ Tail(<<m>> \o S4) = S4
    <3> HIDE DEF S4
    <3>1. /\ <<m>> \o S4 \in Seq(Z) /\ Len(<<m>> \o S4) = 1 + Len(S4)
          /\ Len(S4) \in Nat
          /\ \A i \in 1..Len(S4) : (<<m>> \o S4)[i + 1] = S4[i]
          /\ (<<m>> \o S4)[1] = m
      BY <2>1
    <3> DEFINE L == <<m>> \o S4
    <3> HIDE DEF L
    <3>2. /\ Tail(L) \in Seq(Z) /\ Len(Tail(L)) = Len(L) - 1 /\ Head(L) = L[1]
          /\ \A i \in 1..Len(Tail(L)) : Tail(L)[i] = L[i + 1]
      BY <3>1 DEF L
    <3>3. Len(Tail(L)) = Len(S4) /\ \A i \in 1..Len(S4) : Tail(L)[i] = S4[i]
      BY <3>1, <3>2 DEF L
    <3>4. Tail(L) = S4
      BY <2>1, <3>2, <3>3, SeqEqual
    <3>5. QED BY <3>1, <3>2, <3>4 DEF L
  <2>3. QED BY <2>2
<1>10. Begins /\ place = "answering" /\ ~Ended => e \in {c, d}
  BY <1>8, <1>9
<1>11. place = "answering" =>
         \/ ~Begins /\ q = None /\ Tail(s) = Answering
         \/ ~Begins /\ q = "response_preparing" /\ Tail(s) = Tail(Answering)
         \/ q = "response_streaming" /\ Tail(s) \in {<<c, d>>, <<d>>, <<>>}
  <2> HIDE DEF s
  <2>1. QED BY <1>7, <1>8, <1>9
<1>12. QED BY <1>2, <1>3, <1>4, <1>5, <1>6, <1>10, <1>11 DEF c, d

(* The program tells the next of its events. *)
LEMMA ProgramAnswers ==
  ASSUME IInv, Story, Answers, Publish("program")
  PROVE  Answers'
<1> DEFINE s == script["program"]
           e == Head(s)
           q == PhaseOf(e)
           ph == Present.phase
<1>1. /\ hot' # None /\ hot'.phase = NextPhase(ph, q)
      /\ HasText' <=> HasText \/ e.type = "assistant.delta"
      /\ Ended' <=> Ended
      /\ ~Ended => ph \notin Ends
      /\ q \notin Ends
      /\ hot # None => ph = hot.phase
      /\ hot = None => ph = "pending"
      /\ e.type \notin Ends
  <2>1. e.type \notin Ends
    BY ProgramSaysWhere DEF Working
  <2>2. QED BY <2>1, SpeechMoves, ThreadsDiffer
<1>2. /\ e \in Said("program")
      /\ Said("program")' \subseteq Said("program")
      /\ script'["program"] = Tail(s)
      /\ q = "response_streaming" => place = "answering"
      /\ e.type = "answer.generated" => place = "finalizing"
      /\ q = "finalizing" => place = "finalizing"
      /\ place = "finalizing" => \E n \in 1..5 : e = Closing[n]
      /\ place = "over" => ~Begins
      /\ place = "answering" =>
           \/ ~Begins /\ q = None /\ Tail(s) = Answering
           \/ ~Begins /\ q = "response_preparing" /\ Tail(s) = Tail(Answering)
           \/ /\ q = "response_streaming"
              /\ Tail(s) \in {<<Phase("response_streaming"), Event("assistant.delta")>>,
                              <<Event("assistant.delta")>>, <<>>}
  BY ProgramSaysWhere
<1>3. /\ UNCHANGED <<place, calls>>
      /\ saving'["runtime"] # None => saving'["runtime"].type = e.type
  <2>1. saving' = [saving EXCEPT !["runtime"] =
            IF Traceable(e.type) THEN [by |-> "program", type |-> e.type, row |-> Told(hot'.seq, e)]
                                 ELSE None]
    BY ThreadsDiffer DEF Publish
  <2>2. UNCHANGED <<place, calls>>
    BY DEF Publish, program
  <2>3. QED BY <2>1, <2>2 DEF IInv, Saved, Sinks
<1>4. e.type = "assistant.delta" => q = "response_streaming"
  BY DEF PhaseOf, Ends
<1>5. e.type = "skill.requested" => q = "skill"
  BY DEF PhaseOf, Ends
<1>6. (Begins <=> ph \in {"response_streaming", "finalizing"})
      /\ (Final <=> ph = "finalizing")
  BY <1>1 DEF Begins, Final
<1>7. place = "finalizing" => q \in {None, "finalizing"}
  BY <1>2, ClosingWords
<1> HIDE DEF e, q, ph, s
<1>8. (Begins' <=> NextPhase(ph, q) \in {"response_streaming", "finalizing"})
      /\ (Final' <=> NextPhase(ph, q) = "finalizing")
  BY <1>1 DEF Begins, Final
<1>9. NextPhase(ph, q) \in {ph, q}
  BY DEF NextPhase
<1>10. ~Ended =>
         /\ q = None => NextPhase(ph, q) = ph
         /\ q = "response_streaming" => NextPhase(ph, q) = "response_streaming"
         /\ q = "finalizing" => NextPhase(ph, q) = "finalizing"
  BY <1>1, PhaseMoves
<1>11. Begins /\ ~Ended => Begins'
  <2>1. Begins => place \in {"answering", "finalizing", "over"}
    BY DEF Answers
  <2>2. Begins => place \in {"answering", "finalizing"}
    BY <1>2, <2>1
  <2>3. Begins => q \in {None, "response_streaming", "finalizing"}
    BY <1>2, <1>7, <2>2
  <2>4. QED BY <1>6, <1>8, <1>10, <2>3
<1>12. HasText' => Begins' \/ Ended'
  BY <1>1, <1>4, <1>8, <1>10, <1>11 DEF Answers
<1>13. hot'.phase \in Ends => Ended'
  BY <1>1, <1>9
<1>14. Begins' => place \in {"answering", "finalizing"}
  <2>1. Begins' => Begins \/ q \in {"response_streaming", "finalizing"}
    BY <1>6, <1>8, <1>9
  <2>2. QED BY <1>2, <2>1 DEF Answers
<1>15. place \in {"answering", "finalizing"} => \A c \in Calls : calls[c] = "idle"
  BY ProgramAlone
<1>16. Final' => place \in {"finalizing", "over"}
  <2>1. Final' => Final \/ q = "finalizing"
    BY <1>6, <1>8, <1>9
  <2>2. QED BY <1>2, <2>1 DEF Answers
<1>17. place = "finalizing" => Begins' \/ Ended'
  BY <1>1, <1>11 DEF Answers
<1>18. place = "answering" /\ q \in {None, "response_preparing"} /\ ~Begins => ~Begins'
  <2>1. "response_preparing" \notin {"response_streaming", "finalizing"}
        /\ None \notin {"response_streaming", "finalizing"}
    BY NoneAssumption DEF Phases
  <2>2. QED BY <1>6, <1>8, <1>9, <2>1
<1>19. q = "response_streaming" => Begins' \/ Ended'
  BY <1>1, <1>8, <1>10
<1>20. place = "answering" =>
          \/ /\ ~Begins'
             /\ Tail(s) \in
                   {<<Event("agent.max_iterations_reached")>> \o Answering, Answering, Tail(Answering)}
          \/ /\ Begins' \/ Ended'
             /\ Tail(s) \in
                   {<<Phase("response_streaming"), Event("assistant.delta")>>,
                    <<Event("assistant.delta")>>, <<>>}
  BY <1>2, <1>18, <1>19
<1>21. saving'["runtime"] # None /\ saving'["runtime"].type = "skill.requested" => ~Begins'
  <2>1. e.type = "skill.requested" => ~Begins
    <3>1. e.type = "skill.requested" => place \in {"acting", "over"}
      BY <1>2 DEF Story, Timely
    <3>2. QED BY <1>2, <3>1 DEF Answers
  <2>2. QED BY <1>3, <1>5, <1>6, <1>8, <1>9, <2>1
<1>22. /\ Said("program")' \subseteq Said("program")
       /\ place = "finalizing" => Said("program") \subseteq {Closing[n] : n \in 1..5}
       /\ \A x \in Said("program") : /\ PhaseOf(x) = "response_streaming" => place = "answering"
                                     /\ x.type = "answer.generated" => place = "finalizing"
  BY <1>2 DEF Answers
<1>23. QED
  BY <1>1, <1>2, <1>3, <1>12, <1>13, <1>14, <1>15, <1>16, <1>17, <1>20, <1>21, <1>22 DEF Answers

(* A call, or the handler, tells the next of its own. *)
LEMMA OthersAnswer ==
  ASSUME IInv, Story, Answers, NEW t \in Threads \ {"program"}, Publish(t)
  PROVE  /\ Answers'
         /\ Begins => t = "handler" /\ Head(script[t]).type \in Ends
         /\ t # "handler" => PhaseOf(Head(script[t])) \in {None, "tool", "reasoning"}
<1> DEFINE e == Head(script[t])
           q == PhaseOf(e)
           ph == Present.phase
<1>1. /\ hot' # None /\ hot'.phase = NextPhase(ph, q)
      /\ e.type \notin Ends => (HasText' <=> HasText \/ e.type = "assistant.delta")
      /\ Ended => Ended'
      /\ e.type \in Ends => Ended'
      /\ q \in Ends => e.type \in Ends
      /\ hot # None => ph = hot.phase
      /\ hot = None => ph = "pending"
      /\ t \in Threads
  BY SpeechMoves
<1>2. /\ script[t] # <<>> /\ UNCHANGED <<place, calls>>
      /\ script' = [script EXCEPT ![t] = Tail(@)]
      /\ saving' = [saving EXCEPT ![Sink(t)] =
            IF Traceable(e.type) THEN [by |-> t, type |-> e.type, row |-> Told(hot'.seq, e)]
                                 ELSE None]
  BY DEF Publish, MayPublish, program
<1>3. script'["program"] = script["program"] /\ Said("program")' = Said("program")
  <2>1. script'["program"] = script["program"]
    BY <1>2, ThreadsDiffer DEF IInv, Spoken
  <2>2. QED BY <2>1 DEF Said
<1>4. CASE t = "handler"
  <2>1. \/ e = Event("started") /\ place = "ready"
        \/ \E s \in Ends, answer \in BOOLEAN : e = End(s, answer)
    BY <1>2, <1>4 DEF IInv, Spoken
  <2>2. saving'["runtime"] = saving["runtime"]
    BY <1>2, <1>4 DEF Sink
  <2>3. CASE e = Event("started") /\ place = "ready"
    <3>1. ~Begins
      BY <2>3 DEF Answers
    <3>2. q = "context" /\ e.type \notin Ends \cup {"assistant.delta"}
      BY <2>3 DEF PhaseOf, Event, Ends
    <3> HIDE DEF e, q, ph
    <3>3. ~Begins' /\ ~Final' /\ (HasText' <=> HasText)
      <4>1. NextPhase(ph, q) \in {ph, q}
        BY DEF NextPhase
      <4>2. ph \notin {"response_streaming", "finalizing"}
        BY <1>1, <3>1 DEF Begins
      <4>3. QED BY <1>1, <3>2, <4>1, <4>2 DEF Begins, Final
    <3>4. hot'.phase \in Ends => Ended'
      <4>1. NextPhase(ph, q) \in {ph, q}
        BY DEF NextPhase
      <4>2. ph \in Ends => Ended
        <5>1. "pending" \notin Ends
          BY DEF Ends
        <5>2. QED BY <1>1, <5>1 DEF Answers
      <4>3. QED BY <1>1, <4>1, <4>2
    <3>5. HasText => Ended'
      BY <1>1, <3>1 DEF Answers
    <3>6. QED BY <1>2, <1>3, <1>4, <2>2, <2>3, <3>1, <3>3, <3>4, <3>5 DEF Answers, e
  <2>4. CASE \E s \in Ends, answer \in BOOLEAN : e = End(s, answer)
    <3>1. e.type \in Ends /\ q = e.type /\ q # None
      <4>1. ASSUME NEW s \in Ends, NEW answer PROVE PhaseOf(End(s, answer)) = s /\ End(s, answer).type = s
        BY DEF PhaseOf, End, Ends
      <4>2. \A s \in Ends : s # None
        BY NoneAssumption DEF Phases, Status, Ends
      <4>3. QED BY <2>4, <4>1, <4>2
    <3> HIDE DEF e, q, ph
    <3>2. hot'.phase = q
      <4>1. q \in Ends /\ q # "response_preparing"
        BY <3>1 DEF Ends
      <4>2. QED BY <1>1, <3>1, <4>1 DEF NextPhase
    <3>3. Ended' /\ ~Begins' /\ ~Final'
      BY <1>1, <3>1, <3>2 DEF Begins, Final, Ends
    <3>4. place = "answering" =>
            \/ /\ ~Begins'
               /\ script["program"] \in
                   {<<Event("agent.max_iterations_reached")>> \o Answering, Answering, Tail(Answering)}
            \/ /\ Begins' \/ Ended'
               /\ script["program"] \in
                   {<<Phase("response_streaming"), Event("assistant.delta")>>,
                    <<Event("assistant.delta")>>, <<>>}
      BY <3>3 DEF Answers
    <3>5. QED BY <1>2, <1>3, <1>4, <2>2, <3>1, <3>3, <3>4 DEF Answers, e
  <2>5. QED BY <2>1, <2>3, <2>4
<1>5. CASE t \in Calls
  <2>1. CallStands(t)
    BY <1>5 DEF Story, AtWork
  <2>2. ~Begins /\ t # "handler" /\ place \notin {"answering", "finalizing"}
    <3>1. calls[t] # "idle"
      BY <1>2, <2>1 DEF CallStands
    <3>2. ~Begins
      BY <1>5, <3>1 DEF Answers
    <3>3. place \in {"acting", "over"}
      BY <2>1, <3>1 DEF CallStands
    <3>4. QED BY <1>5, <3>2, <3>3, ThreadsDiffer
  <2>3. /\ q \in {None, "tool", "reasoning"}
        /\ e.type \notin {"assistant.delta", "skill.requested"} /\ e.type \notin Ends
    <3> DEFINE a == Phase("tool")
               b == Tool("tool.started", t)
               c == Event("context.retrieved")
               d == Tool("tool.completed", t)
               f == Tool("tool.failed", t)
    <3>1. script[t] \in {<<a, b>>, <<b>>, <<c, d>>, <<d>>, <<f>>}
      BY <1>2, <2>1 DEF CallStands
    <3>2. \A x \in {a, b, c, d, f} :
            /\ PhaseOf(x) \in {None, "tool", "reasoning"}
            /\ x.type \notin {"assistant.delta", "skill.requested"} /\ x.type \notin Ends
      BY DEF PhaseOf, Phase, Tool, Event, Ends
    <3>3. e \in {a, b, c, d, f}
      <4> HIDE DEF a, b, c, d, f
      <4>1. QED BY <3>1
    <3>4. QED BY <3>2, <3>3
  <2>4. saving'["runtime"] # None => saving'["runtime"].type = e.type
    BY <1>2, <2>2 DEF Sink, IInv, Saved, Sinks
  <2> HIDE DEF e, q, ph
  <2>5. ~Begins' /\ ~Final' /\ (HasText' <=> HasText)
    <3>1. NextPhase(ph, q) \in {ph, q}
      BY DEF NextPhase
    <3>2. ph \notin {"response_streaming", "finalizing"}
      BY <1>1, <2>2 DEF Begins
    <3>3. None \notin {"response_streaming", "finalizing"}
      BY NoneAssumption DEF Phases
    <3>4. QED BY <1>1, <2>3, <3>1, <3>2, <3>3 DEF Begins, Final
  <2>6. hot'.phase \in Ends => Ended'
    <3>1. NextPhase(ph, q) \in {ph, q}
      BY DEF NextPhase
    <3>2. ph \in Ends => Ended
      <4>1. "pending" \notin Ends
        BY DEF Ends
      <4>2. QED BY <1>1, <4>1 DEF Answers
    <3>3. QED BY <1>1, <3>1, <3>2
  <2>7. HasText => Ended'
    BY <1>1, <2>2 DEF Answers
  <2>8. Answers'
    BY <1>2, <1>3, <2>2, <2>3, <2>4, <2>5, <2>6, <2>7 DEF Answers
  <2>9. QED BY <2>2, <2>3, <2>8 DEF e, q
<1>6. QED BY <1>4, <1>5 DEF Threads

(* Where nothing is told, the marks of the answer stand. *)
LEMMA MarksStand ==
  ASSUME hot' = hot
  PROVE  /\ HasText' <=> HasText
         /\ Begins' <=> Begins
         /\ Ended' <=> Ended
         /\ Final' <=> Final
         /\ hot'.phase = hot.phase
BY DEF HasText, Begins, Ended, Final

(* A step that tells nothing, and leaves the program where it is. *)
LEMMA ProgramStays ==
  ASSUME Answers, UNCHANGED <<hot, place>>,
         \A c \in Calls : calls'[c] = calls[c],
         script'["program"] = script["program"],
         saving'["runtime"] \in {saving["runtime"], None}
  PROVE  Answers'
<1>1. Said("program")' = Said("program")
  BY DEF Said
<1>2. QED BY <1>1, MarksStand DEF Answers

(* A step that tells nothing, far from the answer. *)
LEMMA ProgramElsewhere ==
  ASSUME Answers, hot' = hot, ~Begins, place' \notin {"answering", "finalizing"},
         \A e \in Said("program")' : PhaseOf(e) # "response_streaming" /\ e.type # "answer.generated"
  PROVE  Answers'
<1>1. ~Begins' /\ ~Final' /\ (HasText' <=> HasText) /\ (Ended' <=> Ended) /\ hot'.phase = hot.phase
  BY MarksStand DEF Begins, Final
<1>2. QED BY <1>1 DEF Answers

(* A step that tells nothing, and ends the program. *)
LEMMA ProgramIsOver ==
  ASSUME Answers, hot' = hot, place' = "over", script'["program"] = <<>>,
         \A c \in Calls : calls'[c] \in {calls[c], "idle"},
         saving'["runtime"] \in {saving["runtime"], None}
  PROVE  Answers'
<1>1. Said("program")' = {}
  <2>1. Len(<<>>) = 0
    OBVIOUS
  <2>2. QED BY <2>1 DEF Said
<1>2. QED BY <1>1, MarksStand DEF Answers

(* What the program says goes on where an answer cannot be. *)
LEMMA ProgramGoesOn ==
  ASSUME IInv, Answers, hot' = hot, place \notin {"answering", "finalizing", "over"},
         place' \notin {"answering", "finalizing"},
         NEW s \in Seq(Early), script'["program"] = s
  PROVE  Answers'
<1>1. Said("program")' \subseteq Early
  <2>1. Said("program")' = {s[i] : i \in 1..Len(s)}
    BY DEF Said
  <2>2. QED BY <2>1, WordsOf
<1>2. ~Begins
  BY DEF Answers
<1>3. QED BY <1>1, <1>2, ProgramElsewhere DEF Early

(* What the program says before an answer. *)
LEMMA EarlyWords ==
  /\ \A n : Reasoning(n) \in Seq(Early)
  /\ Released \in Seq(Early)
  /\ Released \o <<Event("llm.completed"), Event("agent.decision")>> \in Seq(Early)
  /\ <<Phase("context"), Event("context.loaded")>> \in Seq(Early)
  /\ <<Event("skill.requested")>> \in Seq(Early)
  /\ <<Tool("tool.failed", None)>> \in Seq(Early)
  /\ <<>> \in Seq(Early)
<1>1. \A type \in {"agent.iteration.started", "context.budget.exceeded", "context.snapshot.created",
                   "skill.context.loaded", "llm.started", "skill.context.released",
                   "llm.completed", "agent.decision", "context.loaded", "skill.requested"} :
         Event(type) \in Early
  <2>1. {"agent.iteration.started", "context.budget.exceeded", "context.snapshot.created",
         "skill.context.loaded", "llm.started", "skill.context.released",
         "llm.completed", "agent.decision", "context.loaded", "skill.requested"}
          \subseteq Types \ (Ends \cup {"started", "execution.phase.changed"})
    BY DEF Types, Ends
  <2>2. ASSUME NEW type \in {"agent.iteration.started", "context.budget.exceeded",
                   "context.snapshot.created", "skill.context.loaded", "llm.started",
                   "skill.context.released", "llm.completed", "agent.decision", "context.loaded",
                   "skill.requested"}
        PROVE  PhaseOf(Event(type)) # "response_streaming" /\ Event(type).type # "answer.generated"
    <3>1. None # "response_streaming"
      BY NoneAssumption DEF Phases
    <3>2. QED BY <3>1 DEF PhaseOf, Event, Ends
  <2>3. QED BY <2>1, <2>2, ProgramWords DEF Early
<1>2. \A p \in {"context", "reasoning", "skill"} : Phase(p) \in Early
  <2>1. {"context", "reasoning", "skill"} \subseteq Phases \ Ends
    BY DEF Phases, Ends
  <2>2. \A p \in {"context", "reasoning", "skill"} :
           PhaseOf(Phase(p)) # "response_streaming" /\ Phase(p).type # "answer.generated"
    BY DEF PhaseOf, Phase, Ends
  <2>3. QED BY <2>1, <2>2, ProgramWords DEF Early
<1>3. Tool("tool.failed", None) \in Early
  <2>1. "tool.failed" \in ToolEvents
    BY DEF ToolEvents
  <2>2. PhaseOf(Tool("tool.failed", None)) # "response_streaming"
        /\ Tool("tool.failed", None).type # "answer.generated"
    BY DEF PhaseOf, Tool, Ends
  <2>3. QED BY <2>1, <2>2, ProgramWords DEF Early
<1>4. /\ <<Phase("context"), Event("context.loaded")>> \in Seq(Early)
      /\ <<Event("skill.requested")>> \in Seq(Early)
      /\ <<Tool("tool.failed", None)>> \in Seq(Early)
      /\ <<>> \in Seq(Early)
      /\ <<Event("llm.completed"), Event("agent.decision")>> \in Seq(Early)
      /\ <<Event("skill.context.released")>> \in Seq(Early)
  BY <1>1, <1>2, <1>3
<1>5. Released \in Seq(Early)
  BY <1>4 DEF Released, If
<1>6. Released \o <<Event("llm.completed"), Event("agent.decision")>> \in Seq(Early)
  BY <1>4, <1>5
<1>7. ASSUME NEW n PROVE Reasoning(n) \in Seq(Early)
  BY <1>1, <1>2 DEF Reasoning, If
<1>8. QED BY <1>4, <1>5, <1>6, <1>7

(* The steps of the program. *)
LEMMA ProgramStepAnswers ==
  ASSUME IInv, Story, Answers, Program
  PROVE  Answers'
<1>0. /\ DOMAIN script = Threads /\ "program" \in Threads
      /\ \A c \in Calls : calls[c] # "idle" => ~Begins /\ place \in {"acting", "over"}
  <2>1. ASSUME NEW c \in Calls, calls[c] # "idle" PROVE ~Begins /\ place \in {"acting", "over"}
    <3>1. CallStands(c)
      BY DEF Story, AtWork
    <3>2. QED BY <2>1, <3>1 DEF CallStands, Answers
  <2>2. QED BY <2>1, ThreadsDiffer DEF IInv, Spoken
<1>1. CASE Start
  <2>1. /\ hot' = hot /\ place = "ready" /\ place' = "deciding"
        /\ script'["program"] = <<Phase("context"), Event("context.loaded")>>
    BY <1>0, <1>1 DEF Start, GoTo, Says, KeepProgram
  <2>2. QED BY <2>1, EarlyWords, ProgramGoesOn
<1>2. ASSUME NEW s \in {Answering, <<Event("agent.max_iterations_reached")>> \o Answering},
             place \in {"deciding", "thought"}, GoTo("answering", s), UNCHANGED <<hot, saving>>
      PROVE  Answers'
  <2>1. place' = "answering" /\ script'["program"] = s
    BY <1>0, <1>2 DEF GoTo, Says
  <2>2. ~Begins
    BY <1>2 DEF Answers
  <2>3. ~Begins' /\ ~Final' /\ (HasText' <=> HasText) /\ (Ended' <=> Ended) /\ hot'.phase = hot.phase
    BY <1>2, <2>2, MarksStand DEF Begins, Final
  <2>4. \A e \in Said("program")' : e.type # "answer.generated"
    <3> DEFINE m == Event("agent.max_iterations_reached")
               a == Phase("response_preparing")
               b == Event("answer.started")
               c == Phase("response_streaming")
               d == Event("assistant.delta")
               Z == {m, a, b, c, d}
    <3>1. \A x \in Z : x.type # "answer.generated"
      BY DEF Event, Phase
    <3>2. Answering = <<a, b, c, d>>
      BY DEF Answering
    <3> HIDE DEF m, a, b, c, d
    <3>3. s \in Seq(Z)
      <4>1. <<a, b, c, d>> \in Seq(Z) /\ <<m>> \o <<a, b, c, d>> \in Seq(Z)
        OBVIOUS
      <4>2. s \in {<<a, b, c, d>>, <<m>> \o <<a, b, c, d>>}
        BY <3>2 DEF m
      <4>3. QED BY <4>1, <4>2
    <3> HIDE DEF Z
    <3>4. Said("program")' \subseteq Z
      <4>1. Said("program")' = {s[i] : i \in 1..Len(s)}
        BY <2>1 DEF Said
      <4>2. QED BY <3>3, <4>1, WordsOf
    <3>5. QED BY <3>1, <3>4
  <2>5. QED BY <1>2, <2>1, <2>2, <2>3, <2>4 DEF Answers
<1>3. CASE Iterate
  <2>1. place = "deciding" /\ UNCHANGED <<hot, saving>>
    BY <1>3 DEF Iterate, At, KeepProgram
  <2>2. CASE GoTo("thinking", Reasoning(round'))
    <3>1. place' = "thinking" /\ script'["program"] = Reasoning(round')
      BY <1>0, <2>2 DEF GoTo, Says
    <3>2. Reasoning(round') \in Seq(Early)
      BY EarlyWords
    <3>3. QED BY <2>1, <3>1, <3>2, ProgramGoesOn
  <2>3. CASE GoTo("answering", <<Event("agent.max_iterations_reached")>> \o Answering)
    BY <1>2, <2>1, <2>3
  <2>4. QED BY <1>3, <2>2, <2>3 DEF Iterate
<1>4. CASE Think
  <2>1. /\ hot' = hot /\ place = "thinking" /\ place' = "thought"
        /\ script'["program"] = Released \o <<Event("llm.completed"), Event("agent.decision")>>
    BY <1>0, <1>4 DEF Think, At, GoTo, Says, KeepProgram
  <2>2. QED BY <2>1, EarlyWords, ProgramGoesOn
<1>5. CASE Answer
  BY <1>2, <1>5 DEF Answer, At, KeepProgram
<1>6. CASE Act
  <2>1. hot' = hot /\ place = "thought" /\ place' = "acting"
    BY <1>6 DEF Act, At, KeepProgram
  <2>2. script'["program"] \in {<<Event("skill.requested")>>, <<Tool("tool.failed", None)>>, <<>>}
    <3>1. script["program"] = <<>>
      BY <1>6 DEF Act, At, Idle
    <3>2. "program" \notin Calls
      BY ThreadsDiffer
    <3>3. PICK T \in SUBSET Calls, request \in {"none"} \cup Requests :
            script' = [t \in Threads |->
                CASE t \in T -> <<Phase("tool"), Tool("tool.started", t)>>
                  [] t = "program" /\ request = "granted" -> <<Event("skill.requested")>>
                  [] t = "program" /\ request = "refused" -> <<Tool("tool.failed", None)>>
                  [] OTHER -> script[t]]
      BY <1>6 DEF Act
    <3>4. QED BY <1>0, <3>1, <3>2, <3>3
  <2>3. script'["program"] \in Seq(Early)
    BY <2>2, EarlyWords
  <2>4. QED BY <2>1, <2>3, ProgramGoesOn
<1>7. CASE Acted
  <2>1. hot' = hot /\ place = "acting" /\ place' = "deciding" /\ script'["program"] = <<>>
    BY <1>0, <1>7 DEF Acted, At, GoTo, Says, KeepProgram
  <2>2. QED BY <2>1, EarlyWords, ProgramGoesOn
<1>8. CASE Conclude
  <2>1. /\ place = "answering" /\ place' = "finalizing" /\ script["program"] = <<>>
        /\ script'["program"] = Closing /\ UNCHANGED <<hot, calls, saving>>
    BY <1>0, <1>8 DEF Conclude, At, Idle, GoTo, Says, KeepProgram, Closing
  <2>2. Begins \/ Ended
    <3>1. Answering # <<>> /\ <<Event("agent.max_iterations_reached")>> \o Answering # <<>>
      BY AnsweringFits
    <3>2. Tail(Answering) # <<>>
      BY DEF Answering
    <3>3. QED BY <2>1, <3>1, <3>2 DEF Answers
  <2>3. Said("program")' \subseteq {Closing[n] : n \in 1..5}
    <3>1. Len(Closing) = 5
      BY DEF Closing
    <3>2. QED BY <2>1, <3>1 DEF Said
  <2>4. \A e \in Said("program")' : PhaseOf(e) # "response_streaming"
    <3>1. None # "response_streaming"
      BY NoneAssumption DEF Phases
    <3>2. QED BY <2>3, <3>1, ClosingWords
  <2>5. (HasText' <=> HasText) /\ (Begins' <=> Begins) /\ (Ended' <=> Ended) /\ (Final' <=> Final)
        /\ hot'.phase = hot.phase
    BY <2>1, MarksStand
  <2>6. QED BY <2>1, <2>2, <2>3, <2>4, <2>5 DEF Answers
<1>9. CASE Finish \/ Raised
  <2>1. /\ hot' = hot /\ place' = "over" /\ script'["program"] = <<>> /\ UNCHANGED <<calls, saving>>
    BY <1>9 DEF Finish, Raised, At, Idle, KeepProgram
  <2>2. QED BY <2>1, ProgramIsOver
<1>10. CASE ProgramRaises
  <2>1. UNCHANGED <<hot, calls, saving>>
    BY <1>10 DEF ProgramRaises, KeepProgram
  <2>2. CASE At("thinking") /\ skills
    <3>1. place = "thinking" /\ place' = "raising" /\ script'["program"] = Released
      BY <1>0, <1>10, <2>2 DEF ProgramRaises, At, GoTo, Says
    <3>2. QED BY <2>1, <3>1, EarlyWords, ProgramGoesOn
  <2>3. CASE ~(At("thinking") /\ skills)
    <3>1. place' = "over" /\ script'["program"] = <<>>
      BY <1>0, <1>10, <2>3 DEF ProgramRaises, RunFails, Says
    <3>2. QED BY <2>1, <3>1, ProgramIsOver
  <2>4. QED BY <2>2, <2>3
<1>11. CASE Cancel
  <2>1. /\ hot' = hot /\ \A c \in Calls : calls'[c] = "idle"
        /\ saving'["runtime"] = None
    BY <1>11 DEF Cancel, IInv, Saved, Sinks
  <2>2. CASE At("thinking") /\ skills
    <3>1. place = "thinking" /\ place' = "cancelling" /\ script'["program"] = Released
      BY <1>0, <1>11, <2>2 DEF Cancel, At, GoTo, Says
    <3>2. QED BY <2>1, <3>1, EarlyWords, ProgramGoesOn
  <2>3. CASE ~(At("thinking") /\ skills)
    <3>1. place' = "over" /\ script'["program"] = <<>>
      BY <1>0, <1>11, <2>3, ThreadsDiffer DEF Cancel
    <3>2. QED BY <2>1, <3>1, ProgramIsOver
  <2>4. QED BY <2>2, <2>3
<1>12. ASSUME NEW c \in Calls, Respond(c) \/ Return(c) PROVE Answers'
  <2>1. /\ calls[c] # "idle" /\ hot' = hot
        /\ script'["program"] = script["program"]
        /\ place' \in {place, "over"}
    <3>1. "program" # c
      BY ThreadsDiffer
    <3>2. CASE Respond(c)
      <4>1. calls[c] = "opening" /\ UNCHANGED <<hot, place>>
        BY <3>2 DEF Respond, KeepProgram
      <4>2. \E s : script' = [script EXCEPT ![c] = s]
        BY <3>2 DEF Respond, Says
      <4>3. QED BY <1>0, <3>1, <4>1, <4>2
    <3>3. CASE Return(c)
      BY <3>3 DEF Return, RunFails, KeepProgram
    <3>4. QED BY <1>12, <3>2, <3>3
  <2>2. ~Begins /\ place \in {"acting", "over"}
    BY <1>0, <2>1
  <2>3. Said("program")' = Said("program")
    BY <2>1 DEF Said
  <2>4. \A e \in Said("program")' : PhaseOf(e) # "response_streaming" /\ e.type # "answer.generated"
    BY <2>2, <2>3 DEF Answers
  <2>5. QED BY <2>1, <2>2, <2>4, ProgramElsewhere
<1>13. QED
  BY <1>1, <1>3, <1>4, <1>5, <1>6, <1>7, <1>8, <1>9, <1>10, <1>11, <1>12 DEF Program

(* An emission that raises, in whatever thread. *)
LEMMA RaiseAnswers ==
  ASSUME IInv, Story, Answers, NEW t \in Threads, NEW type, Raise(t, type), hot' = hot,
         type = "skill.requested" => t = "program" /\ place \in {"acting", "over"} /\ ~Begins,
         t \in Calls => calls[t] # "idle",
         saving'["runtime"] \in {saving["runtime"], None}
  PROVE  Answers'
<1>0. DOMAIN script = Threads /\ DOMAIN calls = Calls /\ "program" \in Threads
  BY ThreadsDiffer DEF IInv, Spoken, Begun
<1>1. t \in Calls => /\ ~Begins /\ place \in {"acting", "over"} /\ t # "program" /\ t # "handler"
                     /\ Searches \subseteq Calls /\ "program" \notin Calls
  <2>1. t \in Calls => CallStands(t)
    BY DEF Story, AtWork
  <2>2. QED BY <2>1, ThreadsDiffer, ConstantsAssumption DEF CallStands, Answers
<1>2. CASE UNCHANGED <<place, calls>> /\ script'["program"] = script["program"]
  BY <1>2, ProgramStays
<1>3. CASE t = "handler"
  BY <1>0, <1>2, <1>3, ThreadsDiffer DEF Raise, GoesOn
<1>4. CASE /\ t \in Calls /\ type \in {"tool.completed", "context.retrieved"}
           /\ script' = [script EXCEPT ![t] = <<Tool("tool.failed", t)>>] /\ GoesOn
  BY <1>0, <1>1, <1>2, <1>4 DEF GoesOn
<1>5. CASE /\ type = "skill.requested"
           /\ script' = [script EXCEPT ![t] = <<Tool("tool.failed", None)>>] /\ GoesOn
  <2>1. /\ script'["program"] = <<Tool("tool.failed", None)>> /\ place' = place
        /\ place \in {"acting", "over"} /\ ~Begins
    BY <1>0, <1>5 DEF GoesOn
  <2>2. \A e \in Said("program")' : PhaseOf(e) # "response_streaming" /\ e.type # "answer.generated"
    <3>1. Said("program")' \subseteq Early
      <4> DEFINE s == <<Tool("tool.failed", None)>>
      <4>1. s \in Seq(Early)
        BY EarlyWords
      <4>2. Said("program")' = {s[i] : i \in 1..Len(s)}
        BY <2>1 DEF Said
      <4> HIDE DEF s
      <4>3. QED BY <4>1, <4>2, WordsOf
    <3>2. QED BY <3>1 DEF Early
  <2>3. QED BY <2>1, <2>2, ProgramElsewhere
<1>6. CASE /\ t \in Calls
           /\ LET over == {t} \cup IF t \in Searches THEN Calls \ Searches ELSE {}
              IN  script' = [x \in Threads |-> IF x \in over THEN <<>> ELSE script[x]]
           /\ RunFails
  <2>1. script'["program"] = script["program"] /\ place' = "over"
    BY <1>0, <1>1, <1>6 DEF RunFails
  <2>2. Said("program")' = Said("program")
    BY <2>1 DEF Said
  <2>3. \A e \in Said("program")' : PhaseOf(e) # "response_streaming" /\ e.type # "answer.generated"
    BY <1>1, <1>6, <2>2 DEF Answers
  <2>4. QED BY <1>1, <1>6, <2>1, <2>3, ProgramElsewhere
<1>7. CASE /\ t = "program"
           /\ script' = [x \in Threads |-> IF x = "handler" THEN script[x] ELSE <<>>]
           /\ calls' = [c \in Calls |-> "idle"]
           /\ RunFails
  <2>1. script'["program"] = <<>> /\ place' = "over" /\ \A c \in Calls : calls'[c] = "idle"
    BY <1>0, <1>7, ThreadsDiffer DEF RunFails
  <2>2. QED BY <2>1, ProgramIsOver
<1>8. QED BY <1>3, <1>4, <1>5, <1>6, <1>7 DEF Raise

(* Every step keeps who may speak. *)
LEMMA AnswersStep ==
  ASSUME IInv, Story, Answers, [Next]_vars
  PROVE  Answers'
<1>0. DOMAIN script = Threads /\ "program" \in Threads /\ DOMAIN saving = Sinks /\ "program" # "handler"
  BY ThreadsDiffer DEF IInv, Spoken, Saved
<1>1. ASSUME NEW t \in Threads, Publish(t) PROVE Answers'
  BY <1>1, ProgramAnswers, OthersAnswer
<1>2. ASSUME NEW t \in Threads, EmitRefused(t) PROVE Answers'
  <2> DEFINE e == Head(script[t])
  <2>1. script[t] # <<>> /\ Raise(t, e.type) /\ UNCHANGED <<hot, saving>>
    BY <1>2 DEF EmitRefused, MayPublish
  <2>2. t \in Calls => calls[t] # "idle" /\ e.type # "skill.requested"
    <3>1. ASSUME t \in Calls PROVE calls[t] # "idle" /\ e.type # "skill.requested"
      <4> DEFINE a == Phase("tool")
                 b == Tool("tool.started", t)
                 c == Event("context.retrieved")
                 d == Tool("tool.completed", t)
                 f == Tool("tool.failed", t)
      <4>1. CallStands(t)
        BY <3>1 DEF Story, AtWork
      <4>2. calls[t] # "idle" /\ script[t] \in {<<a, b>>, <<b>>, <<c, d>>, <<d>>, <<f>>}
        BY <2>1, <4>1 DEF CallStands
      <4>3. \A x \in {a, b, c, d, f} : x.type # "skill.requested"
        BY DEF Phase, Tool, Event
      <4>4. e \in {a, b, c, d, f}
        <5> HIDE DEF a, b, c, d, f
        <5>1. QED BY <4>2
      <4>5. QED BY <4>2, <4>3, <4>4
    <3>2. QED BY <3>1
  <2>3. t = "handler" => e.type # "skill.requested"
    <3>1. ASSUME t = "handler" PROVE e.type # "skill.requested"
      <4>1. e = Event("started") \/ \E s \in Ends, answer \in BOOLEAN : e = End(s, answer)
        BY <2>1, <3>1 DEF IInv, Spoken
      <4>2. \A s \in Ends, answer \in BOOLEAN : End(s, answer).type # "skill.requested"
        BY DEF End, Ends
      <4>3. Event("started").type # "skill.requested"
        BY DEF Event
      <4>4. QED BY <4>1, <4>2, <4>3
    <3>2. QED BY <3>1
  <2>4. t = "program" /\ e.type = "skill.requested" => place \in {"acting", "over"} /\ ~Begins
    <3>1. ASSUME t = "program", e.type = "skill.requested" PROVE place \in {"acting", "over"} /\ ~Begins
      <4>1. script["program"] \in Seq(Working) /\ script["program"] # <<>>
        BY <1>0, <2>1, <3>1 DEF IInv, Spoken
      <4>2. e \in Said("program")
        <5>1. Len(script["program"]) >= 1 /\ Len(script["program"]) \in Nat
              /\ Head(script["program"]) = script["program"][1]
          BY <4>1
        <5>2. QED BY <3>1, <5>1 DEF Said
      <4> HIDE DEF e
      <4>3. place \in {"acting", "over"}
        BY <3>1, <4>2 DEF Story, Timely
      <4>4. ~Begins
        BY <4>1, <4>3, AnswerAlone
      <4>5. QED BY <4>3, <4>4
    <3>2. QED BY <3>1
  <2>5. e.type = "skill.requested" => t = "program"
    BY <2>2, <2>3 DEF Threads
  <2> HIDE DEF e
  <2>6. QED BY <2>1, <2>2, <2>4, <2>5, RaiseAnswers
<1>3. ASSUME NEW s \in Sinks, RecordFails(s) PROVE Answers'
  <2> DEFINE m == saving[s]
  <2>1. m # None /\ Raise(m.by, m.type) /\ hot' = hot /\ saving' = [saving EXCEPT ![s] = None]
    BY <1>3 DEF RecordFails
  <2>2. saving'["runtime"] \in {saving["runtime"], None}
    BY <1>0, <2>1 DEF Sinks
  <2>3. CASE s = "lifecycle"
    <3>1. m.by = "handler" /\ m.type # "skill.requested"
      BY <2>1, <2>3 DEF IInv, Saved
    <3> HIDE DEF m
    <3>2. "handler" \in Threads /\ "handler" \notin Calls
      BY ThreadsDiffer
    <3>3. QED BY <2>1, <2>2, <3>1, <3>2, RaiseAnswers
  <2>4. CASE s = "runtime"
    <3>1. m.by \in Threads \ {"handler"} /\ m = saving["runtime"]
      BY <2>1, <2>4 DEF IInv, Saved
    <3>2. m.by \in Calls => calls[m.by] # "idle"
      BY <2>1, <3>1 DEF Story, AtWork, CallStands
    <3>3. m.type = "skill.requested" => m.by = "program" /\ place \in {"acting", "over"} /\ ~Begins
      BY <2>1, <3>1 DEF Story, Timely, Answers
    <3> HIDE DEF m
    <3>4. QED BY <2>1, <2>2, <3>1, <3>2, <3>3, RaiseAnswers
  <2>5. QED BY <2>3, <2>4 DEF Sinks
<1>4. ASSUME NEW s \in Sinks, Record(s) PROVE Answers'
  <2>1. /\ UNCHANGED <<hot, place, calls, script>>
        /\ saving'["runtime"] \in {saving["runtime"], None}
    BY <1>0, <1>4 DEF Record, Sinks, program
  <2>2. QED BY <2>1, ProgramStays
<1>5. CASE Begin
  <2>1. /\ hot' = hot /\ place = "queued" /\ place' = "ready" /\ script["program"] = <<>>
    BY <1>0, <1>5 DEF Begin, IInv, Begun
  <2>2. script'["program"] = <<>>
    BY <1>0, <1>5, <2>1 DEF Begin, Says
  <2>3. QED BY <2>1, <2>2, EarlyWords, ProgramGoesOn
<1>6. CASE BeginCancelled
  <2>1. /\ UNCHANGED <<hot, calls, saving>> /\ place = "queued" /\ place' = "over" /\ script["program"] = <<>>
    BY <1>0, <1>6 DEF BeginCancelled, IInv, Begun
  <2>2. script'["program"] = <<>>
    BY <1>0, <1>6, <2>1 DEF BeginCancelled, Says
  <2>3. QED BY <2>1, <2>2, ProgramIsOver
<1>7. CASE Abandon \/ RequestCancel
  <2>1. UNCHANGED <<hot, place, calls, script, saving>>
    BY <1>7 DEF Abandon, RequestCancel, program
  <2>2. QED BY <2>1, ProgramStays
<1>8. CASE Settle
  <2>1. UNCHANGED <<hot, place, calls, saving>> /\ script'["program"] = script["program"]
    <3>1. \E s : script' = [script EXCEPT !["handler"] = s]
      BY <1>8 DEF Settle, Says
    <3>2. QED BY <1>0, <1>8, <3>1 DEF Settle, program
  <2>2. QED BY <2>1, ProgramStays
<1>9. CASE Expire
  <2>1. /\ hot' = None /\ place' = "over" /\ script["program"] = <<>> /\ UNCHANGED <<script, calls, saving>>
    BY <1>0, <1>9 DEF Expire, Idle, program
  <2>2. Said("program")' = {}
    <3>1. Len(<<>>) = 0
      OBVIOUS
    <3>2. QED BY <2>1, <3>1 DEF Said
  <2>3. QED BY <2>1, <2>2 DEF Answers, HasText, Begins, Final
<1>10. CASE Page
  <2>1. UNCHANGED <<hot, place, calls, script, saving>>
    BY <1>10 DEF Page, Connect, Drop, Check, Stop, Close, Reload, Backend, program
  <2>2. QED BY <2>1, ProgramStays
<1>11. CASE UNCHANGED vars
  <2>1. UNCHANGED <<hot, place, calls, script, saving>>
    BY <1>11 DEF vars, program
  <2>2. QED BY <2>1, ProgramStays
<1>12. CASE Emissions
  BY <1>1, <1>2, <1>3, <1>4, <1>12 DEF Emissions
<1>13. CASE Handler
  BY <1>5, <1>6, <1>7, <1>8, <1>9, <1>13 DEF Handler
<1>14. QED BY <1>10, <1>11, <1>12, <1>13, ProgramStepAnswers DEF Next

-----------------------------------------------------------------------------
(* What the page says of it. *)

(* The page shows nothing at first. *)
LEMMA InitShown == Init => Shown
<1> SUFFICES ASSUME Init PROVE Shown
  OBVIOUS
<1>1. page = NewPage /\ link = "away"
  BY DEF Init
<1>2. ~page.text /\ ~page.started /\ ~page.completed
  BY <1>1 DEF NewPage
<1>3. QED BY <1>1, <1>2 DEF Shown, NoMore, NoLess

(* What has been said of the answer stands until the end. *)
LEMMA MarksGrow ==
  ASSUME IInv, Story, Answers, NEW t \in Threads, Publish(t)
  PROVE  /\ Ended => Ended'
         /\ HasText => HasText'
         /\ Begins => Begins' \/ Ended'
         /\ Final => Final' \/ Ended'
<1> DEFINE e == Head(script[t])
           q == PhaseOf(e)
           ph == Present.phase
<1>1. /\ hot' # None /\ hot'.phase = NextPhase(ph, q)
      /\ Ended => Ended'
      /\ HasText => HasText'
      /\ e.type \in Ends => Ended'
      /\ ~Ended => ph \notin Ends
      /\ hot # None => ph = hot.phase
  BY SpeechMoves
<1>2. CASE Begins /\ ~Ended /\ t # "program"
  BY <1>1, <1>2, OthersAnswer
<1>3. CASE Begins /\ ~Ended /\ t = "program"
  <2>1. /\ place = "answering" => e \in {Phase("response_streaming"), Event("assistant.delta")}
        /\ place = "finalizing" => \E n \in 1..5 : e = Closing[n]
        /\ place # "over"
    BY <1>3, ProgramSaysWhere
  <2>2. place \in {"answering", "finalizing"}
    BY <1>3, <2>1 DEF Answers
  <2>3. place = "answering" => q = "response_streaming"
    BY <2>1, AnswerWords
  <2>4. place = "finalizing" => q \in {None, "finalizing"}
    BY <2>1, ClosingWords
  <2>5. ph \in {"response_streaming", "finalizing"} /\ (Final => ph = "finalizing")
    BY <1>1, <1>3 DEF Begins, Final
  <2>6. Final => place = "finalizing"
    BY <2>1 DEF Answers
  <2> HIDE DEF ph, q, e
  <2>7. /\ q = None => NextPhase(ph, q) = ph
        /\ q = "response_streaming" => NextPhase(ph, q) = "response_streaming"
        /\ q = "finalizing" => NextPhase(ph, q) = "finalizing"
    BY <1>1, <1>3, PhaseMoves
  <2>8. Begins' /\ (Final => Final')
    BY <1>1, <2>2, <2>3, <2>4, <2>5, <2>6, <2>7 DEF Begins, Final
  <2>9. QED BY <1>1, <2>8
<1>4. Final => Begins
  BY DEF Final, Begins
<1>5. QED BY <1>1, <1>2, <1>3, <1>4

(* A live page takes the answer from an event as the projection does. *)
LEMMA LiveAnswer ==
  ASSUME IInv, Story, Answers, Linked, Shown, NEW t \in Threads, Publish(t), link = "live",
         Head(script[t]).type \notin Ends
  PROVE  NoMore' /\ NoLess'
<1> DEFINE e == Head(script[t])
           q == PhaseOf(e)
           ph == Present.phase
           n == Present.seq + 1
<1>1. /\ hot' # None /\ hot'.phase = NextPhase(ph, q)
      /\ HasText' <=> HasText \/ e.type = "assistant.delta"
      /\ HasText => HasText'
      /\ ~Ended => ph \notin Ends /\ ~Ended'
      /\ hot # None => ph = hot.phase
      /\ q \notin Ends
  BY SpeechMoves
<1>2. hot # None /\ ~Ended
  BY DEF Linked, Ended
<1>3. NoMore /\ NoLess
  <2>1. ~Dead
    BY <1>2 DEF Dead
  <2>2. QED BY <1>2, <2>1 DEF Shown, NoMore, NoLess
<1>4. page' = SeeEvent(page, n, e) /\ e \in Working \cup HandlerWords
  BY PublishDoes DEF Story
<1> DEFINE over == e.type = "answer.completed" \/ (e = Phase("finalizing") /\ page.text)
<1>5. /\ page'.phase = IF PhaseShown(e) = None THEN page.phase ELSE PhaseShown(e)
      /\ page'.text <=> page.text \/ e.type = "assistant.delta" \/ e.of = "answer"
      /\ page'.started <=> page.started \/ over \/ e = Phase("response_streaming")
            \/ e.type \in {"answer.started", "assistant.delta", "answer.generated"}
      /\ page'.completed <=> page.completed \/ over
  <2>1. e.type # "completed"
    BY DEF Ends
  <2> DEFINE v == page
  <2> HIDE DEF e, n, v
  <2>2. /\ SeeEvent(v, n, e).phase = IF PhaseShown(e) = None THEN v.phase ELSE PhaseShown(e)
        /\ SeeEvent(v, n, e).text = (v.text \/ e.type = "assistant.delta" \/ e.of = "answer")
    BY DEF SeeEvent
  <2>3. SeeEvent(v, n, e).started = (v.started
            \/ (e.type \in {"answer.completed", "completed"} \/ (e = Phase("finalizing") /\ v.text))
            \/ e = Phase("response_streaming")
            \/ e.type \in {"answer.started", "assistant.delta", "answer.generated"})
    BY DEF SeeEvent
  <2>4. SeeEvent(v, n, e).completed = (v.completed
            \/ (e.type \in {"answer.completed", "completed"} \/ (e = Phase("finalizing") /\ v.text)))
    BY DEF SeeEvent
  <2>5. page' = SeeEvent(v, n, e)
    BY <1>4 DEF v
  <2>6. QED BY <2>1, <2>2, <2>3, <2>4, <2>5 DEF v
<1>6. e.of # "answer"
  <2>1. e \in Working => e.of \in Phases \cup Calls \cup {None}
    BY DEF Working
  <2>2. "answer" \notin Phases \cup Calls \cup {None}
    BY ConstantsAssumption DEF Phases, Status, Ends
  <2>3. e \in HandlerWords => e = Event("started")
    BY DEF HandlerWords, End
  <2>4. Event("started").of = None
    BY DEF Event
  <2>5. QED BY <1>4, <2>1, <2>2, <2>3, <2>4
<1>7. Begins => Begins' /\ (Final => Final')
  BY <1>1, <1>2, MarksGrow DEF Begins, Final
<1>8. page.started <=> Begins
  BY <1>2, <1>3 DEF NoMore, NoLess, Answers
<1>9. (q = "finalizing" \/ e.type = "answer.generated") => place = "finalizing" /\ HasText /\ Begins
  <2>1. (q = "finalizing" \/ e.type = "answer.generated") => place = "finalizing"
    <3>1. CASE t = "program"
      BY <3>1, ProgramSaysWhere
    <3>2. CASE t = "handler"
      <4>1. e = Event("started")
        <5>1. e = Event("started") \/ \E s \in Ends, answer \in BOOLEAN : e = End(s, answer)
          BY <3>2 DEF Publish, MayPublish, IInv, Spoken
        <5>2. \A s \in Ends, answer \in BOOLEAN : End(s, answer).type \in Ends
          BY DEF End
        <5>3. QED BY <5>1, <5>2
      <4>2. QED BY <4>1 DEF PhaseOf, Event
    <3>3. CASE t \in Calls
      <4>1. q \in {None, "tool", "reasoning"} /\ None # "finalizing"
        BY <3>3, OthersAnswer, ThreadsDiffer, NoneAssumption DEF Phases
      <4>2. e.type # "answer.generated"
        <5> DEFINE a == Phase("tool")
                   b == Tool("tool.started", t)
                   c == Event("context.retrieved")
                   d == Tool("tool.completed", t)
                   f == Tool("tool.failed", t)
        <5>1. CallStands(t) /\ script[t] # <<>>
          BY <3>3 DEF Story, AtWork, Publish, MayPublish
        <5>2. script[t] \in {<<a, b>>, <<b>>, <<c, d>>, <<d>>, <<f>>}
          BY <5>1 DEF CallStands
        <5>3. \A x \in {a, b, c, d, f} : x.type # "answer.generated"
          BY DEF Phase, Tool, Event
        <5>4. e \in {a, b, c, d, f}
          <6> HIDE DEF a, b, c, d, f
          <6>1. QED BY <5>2
        <5>5. QED BY <5>3, <5>4
      <4>3. QED BY <4>1, <4>2
    <3>4. QED BY <3>1, <3>2, <3>3 DEF Threads
  <2>2. place = "finalizing" => HasText /\ Begins
    BY <1>2 DEF Story, Answered, Answers
  <2>3. QED BY <2>1, <2>2
<1>10. /\ e.type = "assistant.delta" => q = "response_streaming"
       /\ e.type = "answer.started" => q = "response_streaming"
       /\ e = Phase("response_streaming") => q = "response_streaming"
       /\ e = Phase("finalizing") => q = "finalizing"
       /\ e.type = "answer.completed" => q = "finalizing"
       /\ q = "response_streaming" => e = Phase("response_streaming") \/ e.type \in {"assistant.delta", "answer.started"}
       /\ q = "finalizing" => e = Phase("finalizing") \/ e.type = "answer.completed"
  <2>1. e.type = "execution.phase.changed" => e = Phase(e.of)
    <3>1. e \in Working => e = [type |-> e.type, of |-> e.of]
      BY DEF Working
    <3>2. e \in HandlerWords => e.type # "execution.phase.changed"
      BY DEF HandlerWords, Event, End, Ends
    <3>3. QED BY <1>4, <3>1, <3>2 DEF Phase
  <2>2. None \notin {"response_streaming", "finalizing"}
    BY NoneAssumption DEF Phases
  <2>3. /\ e.type \in {"assistant.delta", "answer.started"} => q = "response_streaming"
        /\ e.type = "answer.completed" => q = "finalizing"
        /\ e.type = "execution.phase.changed" => q = e.of
        /\ e.type \notin {"execution.phase.changed", "assistant.delta", "answer.started", "answer.completed"} =>
              q \notin {"response_streaming", "finalizing"}
    <3> HIDE DEF e
    <3>1. QED BY <2>2 DEF PhaseOf, Ends
  <2>4. \A p : Phase(p).type = "execution.phase.changed" /\ Phase(p).of = p
    BY DEF Phase
  <2> HIDE DEF e, q
  <2>5. QED BY <2>1, <2>3, <2>4
<1>11. /\ q = None => NextPhase(ph, q) = ph
       /\ q = "response_streaming" => NextPhase(ph, q) = "response_streaming"
       /\ q = "finalizing" => NextPhase(ph, q) = "finalizing"
       /\ NextPhase(ph, q) \in {ph, q}
  BY <1>1, <1>2, PhaseMoves
<1>12. over => q = "finalizing"
  BY <1>10
<1>13. /\ Begins' <=> NextPhase(ph, q) \in {"response_streaming", "finalizing"}
       /\ Final' <=> NextPhase(ph, q) = "finalizing"
       /\ Begins <=> ph \in {"response_streaming", "finalizing"}
       /\ Final <=> ph = "finalizing"
  BY <1>1, <1>2 DEF Begins, Final
<1>14. q = "finalizing" => over
  <2>1. HasText => page.text
    BY <1>3 DEF NoLess
  <2>2. QED BY <1>9, <1>10, <2>1
<1>15. page'.text <=> HasText'
  BY <1>1, <1>3, <1>5, <1>6 DEF NoMore, NoLess
<1>16. HasText' => Begins'
  BY <1>1, <1>2, <1>7, <1>10, <1>11, <1>13 DEF Answers
<1>17. page'.started <=> Begins'
  <2> HIDE DEF e, q, ph, n, over
  <2>1. page'.started => Begins'
    BY <1>5, <1>7, <1>8, <1>9, <1>10, <1>11, <1>12, <1>13
  <2>2. Begins' => page'.started
    <3>1. Begins' => Begins \/ q \in {"response_streaming", "finalizing"}
      BY <1>11, <1>13
    <3>2. QED BY <1>5, <1>8, <1>9, <1>10, <3>1
  <2>3. QED BY <2>1, <2>2
<1>18. page'.completed <=> HasText' /\ Final'
  <2>1. page.completed <=> HasText /\ Final
    BY <1>3 DEF NoMore, NoLess
  <2>2. Final => HasText /\ Begins
    BY <1>2 DEF Story, Answered, HasText, Final, Begins
  <2>3. page'.completed => HasText' /\ Final'
    BY <1>1, <1>5, <1>7, <1>9, <1>11, <1>12, <1>13, <2>1, <2>2
  <2>4. HasText' /\ Final' => page'.completed
    <3>1. Final' => Final \/ q = "finalizing"
      BY <1>11, <1>13
    <3>2. QED BY <1>5, <1>14, <2>1, <2>2, <3>1
  <2>5. QED BY <2>3, <2>4
<1>19. page'.started => page'.phase = hot'.phase
  <2>1. None \notin {"response_streaming", "finalizing"}
    BY NoneAssumption DEF Phases
  <2>2. q = "response_streaming" => PhaseShown(e) = "response_streaming"
    <3>1. Phase("response_streaming").type = "execution.phase.changed"
          /\ Phase("response_streaming").of = "response_streaming"
      BY DEF Phase
    <3>2. QED BY <1>10, <3>1 DEF PhaseShown
  <2>3. q = "finalizing" => PhaseShown(e) = "finalizing"
    <3>1. Phase("finalizing").type = "execution.phase.changed" /\ Phase("finalizing").of = "finalizing"
      BY DEF Phase
    <3>2. QED BY <1>10, <3>1 DEF PhaseShown
  <2>4. q \notin {"response_streaming", "finalizing"} /\ page'.started => q = None /\ Begins
    <3>1. ASSUME q \notin {"response_streaming", "finalizing"}, page'.started PROVE q = None /\ Begins
      <4>1. Begins
        BY <1>5, <1>8, <1>9, <1>10, <1>12, <3>1
      <4>2. t = "program"
        BY <4>1, OthersAnswer
      <4>3. /\ place = "answering" => e \in {Phase("response_streaming"), Event("assistant.delta")}
            /\ place = "finalizing" => \E k \in 1..5 : e = Closing[k]
            /\ place # "over"
        BY <1>2, <4>1, <4>2, ProgramSaysWhere
      <4>4. place # "answering"
        BY <3>1, <4>3, AnswerWords
      <4>5. place = "finalizing"
        BY <4>1, <4>3, <4>4 DEF Answers
      <4>6. QED BY <3>1, <4>1, <4>3, <4>5, ClosingWords
    <3>2. QED BY <3>1
  <2>5. q = None => PhaseShown(e) = None
    <3>1. e.type = "execution.phase.changed" => q = e.of
      BY DEF PhaseOf
    <3>2. e.type \in {"answer.started", "assistant.delta", "answer.completed"} => q # None
      BY <1>10, <2>1
    <3> HIDE DEF e, q
    <3>3. q = None => e.type \notin Ends
      BY DEF e
    <3>4. QED BY <3>1, <3>2, <3>3 DEF PhaseShown
  <2>6. Begins => page.phase = ph
    BY <1>1, <1>2, <1>3, <1>8 DEF NoLess
  <2>7. QED BY <1>1, <1>5, <1>11, <2>1, <2>2, <2>3, <2>4, <2>5, <2>6
<1>20. QED BY <1>15, <1>16, <1>17, <1>18, <1>19 DEF NoMore, NoLess

(* An event is shown, where the page is live; elsewhere it is told again.  *)
LEMMA PublishShown ==
  ASSUME IInv, Story, Answers, Linked, Shown, NEW t \in Threads, Publish(t)
  PROVE  Shown'
<1>1. /\ link = "live" => link' = IF StatusAfter("running", Head(script[t])) \in Ends THEN "over" ELSE "live"
      /\ link # "live" => UNCHANGED <<page, link>>
      /\ ~Dead
  BY PublishDoes DEF Story
<1>2. CASE link = "live" /\ Head(script[t]).type \in Ends
  <2>1. link' = "over"
    BY <1>1, <1>2, StatusMoves
  <2>2. QED BY <2>1 DEF Shown, NoMore, NoLess
<1>3. CASE link = "live" /\ Head(script[t]).type \notin Ends
  BY <1>3, LiveAnswer DEF Shown, NoMore, NoLess
<1>4. CASE link # "live"
  <2>1. UNCHANGED <<page, link>>
    BY <1>1, <1>4
  <2>2. /\ Ended => Ended'
        /\ HasText => HasText'
        /\ Begins => Begins' \/ Ended'
        /\ Final => Final' \/ Ended'
    BY MarksGrow
  <2>3. QED BY <1>1, <1>4, <2>1, <2>2 DEF Shown, NoMore, NoLess
<1>5. QED BY <1>2, <1>3, <1>4

(* What a state frame shows of the answer. *)
LEMMA FrameShows ==
  ASSUME NEW v, NEW p
  PROVE  LET w == SeeState(v, p) IN
         /\ w.phase = p.phase
         /\ w.text <=> v.text \/ p.text
         /\ w.started <=> \/ v.started \/ v.text \/ p.text
                          \/ p.phase \in {"response_streaming", "finalizing", "completed"}
         /\ p.phase \notin {"finalizing", "completed"} => (w.completed <=> v.completed)
         /\ p.phase = "finalizing" => (w.completed <=> v.text \/ p.text)
<1> DEFINE w == SeeState(v, p)
           text == v.text \/ p.text
           begun == v.started \/ text \/ p.phase \in {"response_streaming", "finalizing", "completed"}
           full == IF p.phase \in {"finalizing", "completed"}
                     THEN text \/ p.phase = "completed" ELSE v.completed
<1>1. w = [phase |-> p.phase, text |-> text, started |-> begun, completed |-> full,
           panel |-> Remember(v.panel, p.activities)]
  BY DEF SeeState
<1>2. /\ p.phase \notin {"finalizing", "completed"} => (full <=> v.completed)
      /\ p.phase = "finalizing" => (full <=> text)
  OBVIOUS
<1> HIDE DEF text, begun, full, w
<1>3. w.phase = p.phase /\ w.text = text /\ w.started = begun /\ w.completed = full
  BY <1>1
<1>4. QED BY <1>2, <1>3 DEF text, begun, w

(* The page connects, asks for the row or starts anew. *)
LEMMA PageShown ==
  ASSUME IInv, Story, Answers, Linked, Shown, Page
  PROVE  Shown'
<1>0. hot' = hot /\ (Dead => Dead')
  <2>1. [Next]_vars
    BY DEF Next
  <2>2. QED BY <2>1, DeadStays, PanelSteps DEF Story
<1>1. (HasText' <=> HasText) /\ (Begins' <=> Begins) /\ (Ended' <=> Ended) /\ (Final' <=> Final)
  BY <1>0, MarksStand
<1>2. /\ row.status \in Status /\ (row.answer => row.status \in Ends)
      /\ "pending" \notin Ends /\ "completed" \in Ends
  BY DEF Linked, IInv, RowKnown, Ends
<1>3. CASE Connect
  <2>1. link = "away" /\ row' = row
    BY <1>3 DEF Connect, Backend
  <2>2. CASE link' \in {"over"}
    BY <2>2 DEF Shown, NoMore, NoLess
  <2>3. CASE /\ hot # None /\ page' = SeeState(page, hot)
             /\ link' \in {"live", "checking"} /\ hot.status \notin Ends
    <3>1. ~Ended /\ ~Dead
      BY <2>3 DEF Ended, Dead
    <3>2. NoMore
      BY <2>1, <3>1 DEF Shown, NoMore, NoLess
    <3>3. hot.phase \notin Ends /\ hot.phase # "completed"
      BY <1>2, <2>3, <3>1 DEF Answers
    <3>4. /\ page'.phase = hot.phase
          /\ page'.text <=> page.text \/ hot.text
          /\ page'.started <=> \/ page.started \/ page.text \/ hot.text
                               \/ hot.phase \in {"response_streaming", "finalizing", "completed"}
          /\ hot.phase \notin {"finalizing", "completed"} => (page'.completed <=> page.completed)
          /\ hot.phase = "finalizing" => (page'.completed <=> page.text \/ hot.text)
      BY <2>3, FrameShows
    <3>5. /\ HasText <=> hot.text
          /\ Begins <=> hot.phase \in {"response_streaming", "finalizing"}
          /\ Final <=> hot.phase = "finalizing"
      BY <2>3 DEF HasText, Begins, Final
    <3>6. /\ page'.text <=> HasText
          /\ page'.started <=> HasText \/ Begins
          /\ page'.completed <=> HasText /\ Final
      BY <3>2, <3>3, <3>4, <3>5 DEF NoMore
    <3>7. QED BY <1>0, <1>1, <3>4, <3>6 DEF Shown, NoMore, NoLess
  <2>4. CASE page' = SeeDurable /\ link' = "checking" /\ row.status \notin Ends
    <3> DEFINE p == InitialProjection(row.status, row.answer)
    <3>1. ~p.text /\ p.phase \notin {"response_streaming", "finalizing", "completed"}
      <4>1. ~row.answer
        BY <1>2, <2>4
      <4>2. PhaseFromStatus(row.status) \notin {"response_streaming", "finalizing", "completed"}
        BY <1>2, <2>4 DEF PhaseFromStatus, Status, Ends
      <4>3. p.text = row.answer /\ p.phase = PhaseFromStatus(row.status)
        BY DEF InitialProjection
      <4> HIDE DEF p
      <4>4. QED BY <4>1, <4>2, <4>3
    <3>2. page' = SeeState(page, p)
      BY <2>4 DEF SeeDurable
    <3> HIDE DEF p
    <3>3. /\ page'.text <=> page.text
          /\ page'.started <=> page.started \/ page.text
          /\ page'.completed <=> page.completed
      BY <3>1, <3>2, FrameShows
    <3>4. QED BY <1>0, <1>1, <2>1, <2>4, <3>3 DEF Shown, NoMore, NoLess
  <2>5. CASE link' = "checking" /\ UNCHANGED page
    BY <1>0, <1>1, <2>1, <2>5 DEF Shown, NoMore, NoLess
  <2>6. QED BY <1>3, <2>2, <2>3, <2>4, <2>5 DEF Connect
<1>4. CASE Drop
  BY <1>0, <1>1, <1>4 DEF Drop, Shown, NoMore, NoLess
<1>5. CASE Check
  <2>1. link = "checking"
    BY <1>5 DEF Check
  <2>2. CASE link' = "over"
    BY <2>2 DEF Shown, NoMore, NoLess
  <2>3. CASE link' = "away" /\ UNCHANGED page
    BY <1>0, <1>1, <2>1, <2>3 DEF Shown, NoMore, NoLess
  <2>4. CASE link' = "away" /\ page' = SeeRow(page) /\ row.status \notin Ends
    <3>1. ~row.answer /\ row.status # "completed"
      BY <1>2, <2>4
    <3>2. PageKnown
      BY DEF Story
    <3>3. /\ page'.text => page.text \/ HasText
          /\ page'.started => page.started
          /\ page'.completed => page.completed
      BY <2>4, <3>1, <3>2 DEF SeeRow, PageKnown, HasText
    <3>4. QED BY <1>0, <1>1, <2>1, <2>4, <3>3 DEF Shown, NoMore, NoLess
  <2>5. QED BY <1>5, <2>2, <2>3, <2>4 DEF Check
<1>6. CASE Stop
  <2>1. /\ link = "live" /\ link' = "away"
        /\ page'.text = page.text /\ page'.started = page.started /\ page'.completed = page.completed
    BY <1>6 DEF Stop, Story, PageKnown
  <2>2. QED BY <1>0, <1>1, <2>1 DEF Shown, NoMore, NoLess
<1>7. CASE Close
  BY <1>7 DEF Close, Shown, NoMore, NoLess
<1>8. CASE Reload
  <2>1. ~page'.text /\ ~page'.started /\ ~page'.completed /\ link' \in {"done", "away"}
    BY <1>8 DEF Reload, NewPage
  <2>2. QED BY <2>1 DEF Shown, NoMore, NoLess
<1>9. QED BY <1>3, <1>4, <1>5, <1>6, <1>7, <1>8 DEF Page

(* Every step keeps the page in agreement. *)
LEMMA ShownStep ==
  ASSUME IInv, Story, Answers, Linked, Shown, [Next]_vars
  PROVE  Shown'
<1>1. CASE Unseen
  <2>1. UNCHANGED <<page, link>>
    BY <1>1 DEF Unseen
  <2>2. CASE hot' = hot
    <3>1. Dead => Dead'
      BY DeadStays
    <3>2. QED BY <2>1, <2>2, <3>1, MarksStand DEF Shown, NoMore, NoLess
  <2>3. CASE Dead' /\ link # "live"
    BY <2>1, <2>3 DEF Shown, NoMore, NoLess
  <2>4. QED BY <1>1, <2>2, <2>3 DEF Unseen
<1>2. QED BY <1>1, Steps, PublishShown, PageShown

-----------------------------------------------------------------------------
(* A new page has its type. *)
LEMMA InitViewed == Init => Viewed
<1> SUFFICES ASSUME Init PROVE Viewed
  OBVIOUS
<1>1. page = NewPage
  BY DEF Init
<1>2. <<>> \in Seq(Activity) /\ "pending" \in Phases \cup Status
  BY DEF Status
<1>3. QED BY <1>1, <1>2 DEF NewPage, Viewed, View

(* A page is made of the types of its sources. *)
LEMMA ViewedStep ==
  ASSUME IInv, Story, Viewed, Ordered', [Next]_vars
  PROVE  Viewed'
<1>1. /\ page.phase \in Phases \cup Status /\ page.text \in BOOLEAN /\ page.started \in BOOLEAN
      /\ page.completed \in BOOLEAN /\ page'.panel \in Seq(Activity)
      /\ page = [phase |-> page.phase, text |-> page.text, started |-> page.started,
                 completed |-> page.completed, panel |-> page.panel]
  BY DEF Viewed, View, Ordered
<1>2. CASE UNCHANGED page
  BY <1>2 DEF Viewed
<1>3. ASSUME NEW ph \in Phases \cup Status, NEW a \in BOOLEAN, NEW b \in BOOLEAN, NEW c \in BOOLEAN, NEW s,
             page' = [phase |-> ph, text |-> a, started |-> b, completed |-> c, panel |-> s]
      PROVE  Viewed'
  <2>1. s \in Seq(Activity)
    BY <1>1, <1>3
  <2>2. QED BY <1>3, <2>1 DEF Viewed, View
<1>4. ASSUME NEW t \in Threads, Publish(t) PROVE Viewed'
  <2> DEFINE e == Head(script[t])
             n == Present.seq + 1
  <2>1. e \in Working \cup HandlerWords
        /\ (link = "live" => page' = SeeEvent(page, n, e)) /\ (link # "live" => UNCHANGED page)
    BY <1>4, PublishDoes DEF Story
  <2>2. PhaseShown(e) \in Phases \cup {None}
    <3>1. CASE e \in Working
      BY <3>1 DEF PhaseShown, Working, Phases, Status, Ends
    <3>2. CASE e \in HandlerWords
      BY <3>2 DEF HandlerWords, PhaseShown, Event, End, Phases, Status, Ends
    <3>3. QED BY <2>1, <3>1, <3>2
  <2>3. CASE link = "live"
    <3> DEFINE over == e.type \in {"answer.completed", "completed"}
                         \/ (e = Phase("finalizing") /\ page.text)
               ph == IF PhaseShown(e) = None THEN page.phase ELSE PhaseShown(e)
               a == page.text \/ e.type = "assistant.delta" \/ e.of = "answer"
               b == page.started \/ over \/ e = Phase("response_streaming")
                      \/ e.type \in {"answer.started", "assistant.delta", "answer.generated"}
               c == page.completed \/ over
               s == Remember(page.panel, Activities(n, e))
    <3>1. page' = [phase |-> ph, text |-> a, started |-> b, completed |-> c, panel |-> s]
      BY <2>1, <2>3 DEF SeeEvent
    <3>2. ph \in Phases \cup Status /\ a \in BOOLEAN /\ b \in BOOLEAN /\ c \in BOOLEAN
      BY <1>1, <2>2
    <3> HIDE DEF ph, a, b, c, s
    <3>3. QED BY <1>3, <3>1, <3>2
  <2>4. QED BY <1>2, <2>1, <2>3
<1>5. ASSUME NEW p, p.phase \in Phases, p.text \in BOOLEAN, page' = SeeState(page, p) PROVE Viewed'
  <2> DEFINE text == page.text \/ p.text
             b == page.started \/ text \/ p.phase \in {"response_streaming", "finalizing", "completed"}
             c == IF p.phase \in {"finalizing", "completed"}
                    THEN text \/ p.phase = "completed" ELSE page.completed
             s == Remember(page.panel, p.activities)
  <2>1. page' = [phase |-> p.phase, text |-> text, started |-> b, completed |-> c, panel |-> s]
    BY <1>5 DEF SeeState
  <2>2. text \in BOOLEAN /\ b \in BOOLEAN /\ c \in BOOLEAN
    BY <1>1, <1>5
  <2> HIDE DEF text, b, c, s
  <2>3. QED BY <1>3, <1>5, <2>1, <2>2
<1>6. row.status \in Status /\ row.answer \in BOOLEAN
  BY DEF IInv, RowKnown
<1>7. CASE Connect
  <2>1. CASE hot # None /\ page' = SeeState(page, hot)
    <3>1. hot.phase \in Phases /\ hot.text \in BOOLEAN
      BY <2>1 DEF Story, Formed, Projection
    <3>2. QED BY <1>5, <2>1, <3>1
  <2>2. CASE page' = SeeDurable
    <3> DEFINE p == InitialProjection(row.status, row.answer)
    <3>1. p.phase \in Phases /\ p.text \in BOOLEAN
      BY <1>6 DEF InitialProjection, PhaseFromStatus, Phases, Status
    <3>2. page' = SeeState(page, p)
      BY <2>2 DEF SeeDurable
    <3> HIDE DEF p
    <3>3. QED BY <1>5, <3>1, <3>2
  <2>3. QED BY <1>2, <1>7, <2>1, <2>2 DEF Connect
<1>8. CASE Check
  <2>1. CASE page' = SeeRow(page)
    <3> DEFINE done == row.status = "completed"
               live == row.status \in {"running", "cancel_requested"} /\ hot # None /\ hot.text
               a == page.text \/ row.answer \/ live
               b == page.started \/ done
               c == page.completed \/ done
    <3>1. page' = [page EXCEPT !.phase = row.status, !.text = a, !.started = b, !.completed = c]
      BY <2>1, <1>1 DEF SeeRow
    <3>2. a \in BOOLEAN /\ b \in BOOLEAN /\ c \in BOOLEAN
      BY <1>1, <1>6
    <3> HIDE DEF a, b, c
    <3>3. page' = [phase |-> row.status, text |-> a, started |-> b, completed |-> c, panel |-> page.panel]
      BY <1>1, <3>1
    <3>4. QED BY <1>3, <1>6, <3>2, <3>3
  <2>2. QED BY <1>2, <1>8, <2>1 DEF Check
<1>9. CASE Stop
  <2>1. page' = [phase |-> "cancel_requested", text |-> page.text, started |-> page.started,
                 completed |-> page.completed, panel |-> page.panel]
    BY <1>1, <1>9 DEF Stop
  <2>2. "cancel_requested" \in Phases \cup Status
    BY DEF Status
  <2>3. QED BY <1>1, <1>3, <2>1, <2>2
<1>10. CASE Close \/ Reload
  <2>1. page' = NewPage
    BY <1>10 DEF Close, Reload
  <2>2. "pending" \in Phases \cup Status
    BY DEF Status
  <2>3. QED BY <1>3, <2>1, <2>2 DEF NewPage
<1>11. CASE Page
  BY <1>2, <1>7, <1>8, <1>9, <1>10, <1>11 DEF Page, Drop
<1>12. QED BY <1>2, <1>4, <1>11, Steps DEF Unseen

-----------------------------------------------------------------------------
(* All of it holds at first. *)
LEMMA InitPaged == Init => Paged
BY InitLinked, InitOrdered, InitRecorded, InitAnswers, InitShown, InitViewed DEF Paged

(* Every step keeps all of it. *)
LEMMA PagedStep ==
  IInv /\ Story /\ Paged /\ [Next]_vars => Paged'
<1> SUFFICES ASSUME IInv, Story, Paged, [Next]_vars PROVE Paged'
  OBVIOUS
<1>1. /\ Formed /\ PageKnown
      /\ Linked /\ Ordered /\ Recorded /\ Answers /\ Shown /\ Viewed
  BY DEF Story, Paged
<1>2. Linked'
  BY <1>1, LinkedStep
<1>3. Ordered'
  BY <1>1, OrderedStep
<1>4. Recorded'
  BY <1>1, RecordedStep
<1>5. Answers' /\ Shown' /\ Viewed'
  BY <1>1, <1>3, AnswersStep, ShownStep, ViewedStep
<1>6. QED BY <1>2, <1>3, <1>4, <1>5 DEF Paged

(* A page that has followed from anywhere, through drops, reloads and the  *)
(* row, shows as its newest activities those of the projection.            *)
THEOREM PanelFollows ==
  Spec => []PanelIsCurrent
<1>1. Paged => PanelIsCurrent
  <2> SUFFICES ASSUME Paged, link = "live" PROVE Newest(page.panel) = hot.activities
    BY DEF PanelIsCurrent
  <2>1. hot # None /\ Window = hot.activities
    BY DEF Paged, Linked, Window, Present
  <2>2. /\ page.panel \in Seq(Activity) /\ Window \in Seq(Activity) /\ Len(Window) <= MaxActivities
        /\ Meets(page.panel, Window, Len(Window)) /\ Whole(page.panel, Window, Len(Window))
    BY DEF Paged, Ordered
  <2>3. QED BY <2>1, <2>2, NewestOfPanel
<1>2. QED
  BY <1>1, InitIInv, NextIInv, InitStory, NextStory, InitPaged, PagedStep, PTL DEF Spec

(* It agrees with a page opened now on whether the answer began and is     *)
(* complete, and from then on about the phase.                             *)
THEOREM ResponseFollows ==
  Spec => []ResponseIsCurrent
<1>1. IInv /\ Story /\ Paged => ResponseIsCurrent
  <2> SUFFICES ASSUME IInv, Story, Paged, link = "live"
               PROVE  LET fresh == SeeState(NewPage, hot)
                      IN  /\ page.text = fresh.text
                          /\ page.started = fresh.started /\ page.completed = fresh.completed
                          /\ page.started => page.phase = fresh.phase
    BY DEF ResponseIsCurrent
  <2>1. hot # None /\ hot.status \notin Ends /\ ~Ended /\ ~Dead
    BY DEF Paged, Linked, Ended, Dead
  <2>2. NoMore /\ NoLess
    BY <2>1 DEF Paged, Shown, NoMore, NoLess
  <2>3. hot.phase \notin Ends /\ hot.phase # "completed"
    <3>1. "completed" \in Ends
      BY DEF Ends
    <3>2. QED BY <2>1, <3>1 DEF Paged, Answers
  <2> DEFINE fresh == SeeState(NewPage, hot)
  <2>4. ~NewPage.text /\ ~NewPage.started /\ ~NewPage.completed
    BY DEF NewPage
  <2>5. /\ fresh.phase = hot.phase
        /\ fresh.text <=> hot.text
        /\ fresh.started <=> hot.text \/ hot.phase \in {"response_streaming", "finalizing"}
        /\ hot.phase # "finalizing" => ~fresh.completed
        /\ hot.phase = "finalizing" => (fresh.completed <=> hot.text)
    BY <2>3, <2>4, FrameShows
  <2>6. /\ fresh.text \in BOOLEAN /\ fresh.started \in BOOLEAN /\ fresh.completed \in BOOLEAN
        /\ page.text \in BOOLEAN /\ page.started \in BOOLEAN /\ page.completed \in BOOLEAN
    <3>1. hot.text \in BOOLEAN
      BY <2>1 DEF Story, Formed, Projection
    <3>2. fresh.text \in BOOLEAN /\ fresh.started \in BOOLEAN /\ fresh.completed \in BOOLEAN
      BY <3>1 DEF SeeState, NewPage
    <3>3. QED BY <3>2 DEF Paged, Viewed, View
  <2> HIDE DEF fresh
  <2>7. /\ page.text <=> fresh.text
        /\ page.started <=> fresh.started
        /\ page.completed <=> fresh.completed
        /\ page.started => page.phase = fresh.phase
    BY <2>1, <2>2, <2>5 DEF NoMore, NoLess, HasText, Begins, Final
  <2>8. QED BY <2>6, <2>7 DEF fresh
<1>2. QED
  BY <1>1, InitIInv, NextIInv, InitStory, NextStory, InitPaged, PagedStep, PTL DEF Spec

(* A panel, of the page or of the history, tells each activity once and in *)
(* order.                                                                  *)
THEOREM PanelsAreInOrder ==
  Spec => []PanelInOrder
<1>1. Paged => PanelInOrder
  BY DEF Paged, Ordered, Recorded, Kept, PanelInOrder
<1>2. QED
  BY <1>1, InitIInv, NextIInv, InitStory, NextStory, InitPaged, PagedStep, PTL DEF Spec

(* Every variable keeps to its type, the projection to its window. *)
THEOREM TypeCorrect ==
  Spec => []TypeOK
<1>1. IInv /\ Story /\ Paged => TypeOK
  <2> SUFFICES ASSUME IInv, Story, Paged PROVE TypeOK
    OBVIOUS
  <2>1. row \in [status : Status, answer : BOOLEAN]
    BY DEF IInv, RowKnown
  <2>2. hot # None => hot \in Projection /\ Len(hot.activities) <= MaxActivities
    BY DEF Story, Formed, Paged, Ordered, Window, Present
  <2>3. QED BY <2>1, <2>2 DEF Paged, Viewed, Recorded, Kept, Linked, TypeOK
<1>2. QED
  BY <1>1, InitIInv, NextIInv, InitStory, NextStory, InitPaged, PagedStep, PTL DEF Spec

(* What the panel of an ended execution has shown a reload shows again:    *)
(* all but the calls of the model, and rows not written or not yet; unless *)
(* the trace cannot be had.                                                *)
THEOREM StoryIsKept ==
  Spec => ReloadKeepsTheStory
<1>1. IInv /\ Story /\ Paged /\ [Next]_vars =>
        [history # None /\ history' \notin {None, <<>>} =>
          \A i \in DOMAIN history :
              \/ history[i].model
              \/ history[i] \in lost \/ \E s \in Sinks : saving[s] # None /\ saving[s].row = history[i]
              \/ \E j \in DOMAIN history' : history'[j] = history[i]]_vars
  <2> SUFFICES ASSUME IInv, Story, Paged, [Next]_vars, history # None, history' \notin {None, <<>>},
                      NEW i \in DOMAIN history
               PROVE  \/ history[i].model
                      \/ history[i] \in lost
                      \/ \E s \in Sinks : saving[s] # None /\ saving[s].row = history[i]
                      \/ \E j \in DOMAIN history' : history'[j] = history[i]
    OBVIOUS
  <2>1. CASE history' = history
    BY <2>1
  <2>2. CASE history' # history
    <3>1. history' = Rows
      BY <2>2, HistorySteps DEF Paged
    <3>2. Accounted(history[i])
      BY DEF Paged, Recorded, Kept
    <3>3. \A a \in trace : \E j \in DOMAIN Rows : Rows[j] = a
      BY RowsInOrder DEF Paged, Recorded
    <3>4. QED BY <3>1, <3>2, <3>3 DEF Accounted, BeingSaved
  <2>3. QED BY <2>1, <2>2
<1>2. QED
  BY <1>1, InitIInv, NextIInv, InitStory, NextStory, InitPaged, PagedStep, PTL DEF Spec, ReloadKeepsTheStory

===============================================================================
