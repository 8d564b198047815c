--------------------------------- MODULE Loops ---------------------------------
(***************************************************************************)
(* Facts about a loop that folds a sequence of steps into a value: it has  *)
(* a result after every step, and what each step keeps holds of them all.  *)
(* They are stated of sets and functions, so that a proof can cite them    *)
(* without an operator parameter.                                          *)
(***************************************************************************)
EXTENDS Naturals, WellFoundedInduction, TLAPS

(* A set with 0 and the successor of each of its numbers has them all.     *)
LEMMA SetInduction ==
  ASSUME NEW S, 0 \in S, \A n \in Nat : n \in S => n + 1 \in S
  PROVE  Nat \subseteq S
<1> SUFFICES ASSUME Nat \ S # {} PROVE FALSE
  OBVIOUS
<1> DEFINE T == Nat \ S
           R == OpToRel(<, Nat)
<1>1. PICK t \in T : \A u \in T : ~(<<u, t>> \in R)
  <2>1. IsWellFoundedOn(R, Nat)
    BY NatLessThanWellFounded
  <2> HIDE DEF R
  <2>2. T \subseteq Nat /\ T # {}
    OBVIOUS
  <2> HIDE DEF T
  <2>3. QED BY <2>1, <2>2, WFMin
<1>2. t \in Nat /\ t # 0
  OBVIOUS
<1>3. t - 1 \in Nat /\ t - 1 < t /\ (t - 1) + 1 = t
  BY <1>2
<1>4. <<t - 1, t>> \in R
  BY <1>2, <1>3 DEF OpToRel
<1>5. t - 1 \in S
  BY <1>1, <1>3, <1>4
<1>6. t \in S
  BY <1>3, <1>5
<1>7. QED BY <1>6

(* The first n steps, where step i takes a value x to step[i][x].          *)
Runs(n, X, start, step) ==
    {f \in [0..n -> X] : f[0] = start /\ \A i \in 1..n : f[i] = step[i][f[i - 1]]}

(* A loop that keeps within a set of values has a run.                     *)
THEOREM LoopHasRun ==
  ASSUME NEW X, NEW start \in X, NEW n \in Nat, NEW step \in [1..n -> [X -> X]]
  PROVE  Runs(n, X, start, step) # {}
<1> DEFINE S == {m \in Nat : m <= n => Runs(m, X, start, step) # {}}
<1>1. 0 \in S
  <2>1. [i \in 0..0 |-> start] \in Runs(0, X, start, step)
    BY DEF Runs
  <2>2. QED BY <2>1
<1>2. ASSUME NEW m \in Nat, m \in S PROVE m + 1 \in S
  <2> SUFFICES ASSUME m + 1 <= n PROVE Runs(m + 1, X, start, step) # {}
    OBVIOUS
  <2>1. PICK f : f \in Runs(m, X, start, step)
    BY <1>2
  <2>2. /\ f \in [0..m -> X] /\ f[0] = start
        /\ \A i \in 1..m : f[i] = step[i][f[i - 1]]
    BY <2>1 DEF Runs
  <2> DEFINE g == [i \in 0..(m + 1) |-> IF i = m + 1 THEN step[m + 1][f[m]] ELSE f[i]]
  <2>3. f[m] \in X /\ step[m + 1][f[m]] \in X
    <3>1. m \in 0..m /\ m + 1 \in 1..n
      OBVIOUS
    <3>2. QED BY <2>2, <3>1
  <2>4. \A i \in 0..(m + 1) : i # m + 1 => i \in 0..m
    OBVIOUS
  <2>5. g \in [0..(m + 1) -> X] /\ g[0] = start
    BY <2>2, <2>3, <2>4
  <2>6. ASSUME NEW i \in 1..(m + 1) PROVE g[i] = step[i][g[i - 1]]
    <3>1. i \in 0..(m + 1) /\ i - 1 \in 0..(m + 1) /\ i - 1 # m + 1
      OBVIOUS
    <3>2. CASE i = m + 1
      BY <3>1, <3>2
    <3>3. CASE i # m + 1
      <4>1. i \in 1..m
        BY <3>3
      <4>2. QED BY <2>2, <3>1, <3>3, <4>1
    <3>4. QED BY <3>2, <3>3
  <2> HIDE DEF g
  <2>7. g \in Runs(m + 1, X, start, step)
    BY <2>5, <2>6 DEF Runs
  <2>8. QED BY <2>7
<1> HIDE DEF S
<1>3. Nat \subseteq S
  BY <1>1, <1>2, SetInduction
<1>4. QED BY <1>3 DEF S

(* What holds at the start and is kept by each step holds after all.       *)
THEOREM LoopKeeps ==
  ASSUME NEW n \in Nat, NEW S, 0 \in S, \A i \in 1..n : i - 1 \in S => i \in S
  PROVE  0..n \subseteq S
<1> DEFINE T == {m \in Nat : m <= n => m \in S}
<1>1. 0 \in T
  OBVIOUS
<1>2. ASSUME NEW m \in Nat, m \in T PROVE m + 1 \in T
  <2> SUFFICES ASSUME m + 1 <= n PROVE m + 1 \in S
    OBVIOUS
  <2>1. m \in S /\ m + 1 \in 1..n /\ (m + 1) - 1 = m
    BY <1>2
  <2>2. QED BY <2>1
<1> HIDE DEF T
<1>3. Nat \subseteq T
  BY <1>1, <1>2, SetInduction
<1>4. QED BY <1>3 DEF T

================================================================================
