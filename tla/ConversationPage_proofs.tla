---------------------- MODULE ConversationPage_proofs ----------------------
(***************************************************************************)
(* Proofs about ConversationPage for any number of executions, deltas and  *)
(* interrupting reruns: the text under an active answer is genuine, no     *)
(* word of it is taken back, and the answers among the messages are those  *)
(* of the rows, one each.  A text is compared with what was streamed as a  *)
(* sequence of numbers of deltas; the first part is about those alone.     *)
(***************************************************************************)
EXTENDS ConversationPage, SequenceTheorems, FiniteSetTheorems, Loops

(* The least of a set of numbers. *)
LEMMA LeastExists ==
  ASSUME NEW S, S \subseteq Nat, S # {}
  PROVE  Min(S) \in S /\ \A u \in S : Min(S) <= u
<1> DEFINE R == OpToRel(<, Nat)
<1>1. PICK t \in S : \A u \in S : ~(<<u, t>> \in R)
  <2>1. IsWellFoundedOn(R, Nat)
    BY NatLessThanWellFounded
  <2> HIDE DEF R
  <2>2. QED BY <2>1, WFMin
<1>2. ASSUME NEW u \in S PROVE t <= u
  <2>1. u \in Nat /\ t \in Nat
    OBVIOUS
  <2>2. ~(u < t)
    BY <1>1, <2>1 DEF OpToRel
  <2>3. QED BY <2>1, <2>2
<1>3. QED BY <1>2 DEF Min

(* The greatest of a bounded set of numbers. *)
LEMMA GreatestExists ==
  ASSUME NEW S, S \subseteq Nat, S # {}, NEW n \in Nat, \A x \in S : x <= n
  PROVE  Max(S) \in S /\ \A u \in S : u <= Max(S)
<1> DEFINE T == {n - x : x \in S}
<1>1. T \subseteq Nat /\ T # {}
  <2>1. ASSUME NEW x \in S PROVE n - x \in Nat
    <3>1. x \in Nat /\ x <= n
      OBVIOUS
    <3>2. QED BY <3>1
  <2>2. QED BY <2>1
<1>2. \E m \in T : \A u \in T : m <= u
  <2> HIDE DEF T
  <2>1. QED BY <1>1, LeastExists
<1>3. PICK y \in S : \A u \in T : n - y <= u
  BY <1>2
<1>4. ASSUME NEW u \in S PROVE y >= u
  <2>1. n - y <= n - u /\ u \in Nat /\ y \in Nat
    BY <1>3
  <2>2. QED BY <2>1
<1>5. Max(S) \in S /\ \A u \in S : Max(S) >= u
  BY <1>4 DEF Max
<1>6. QED BY <1>5

-----------------------------------------------------------------------------
(* Prefixes, element by element. *)
LEMMA PrefixIff ==
  ASSUME NEW s \in Seq(Nat), NEW t \in Seq(Nat)
  PROVE  IsPrefix(s, t) <=> Len(s) <= Len(t) /\ \A i \in 1..Len(s) : s[i] = t[i]
<1>1. Len(s) \in Nat /\ Len(t) \in Nat
  BY LenProperties
<1> SUFFICES ASSUME Len(s) <= Len(t)
             PROVE  SubSeq(s, 1, Len(s)) = SubSeq(t, 1, Len(s))
                      <=> \A i \in 1..Len(s) : s[i] = t[i]
  BY DEF IsPrefix
<1>2. ASSUME NEW w \in Seq(Nat), Len(s) <= Len(w)
      PROVE  /\ SubSeq(w, 1, Len(s)) \in Seq(Nat) /\ Len(SubSeq(w, 1, Len(s))) = Len(s)
             /\ \A i \in 1..Len(s) : SubSeq(w, 1, Len(s))[i] = w[i]
  <2>1. \A i \in 1..Len(s) : w[i] \in Nat
    <3>1. Len(w) \in Nat
      BY LenProperties
    <3>2. \A i \in 1..Len(s) : i \in 1..Len(w)
      BY <1>1, <1>2, <3>1
    <3>3. QED BY <3>2, ElementOfSeq
  <2>2. 1 <= Len(s) + 1 /\ Len(s) - 1 + 1 = Len(s) /\ \A i \in 1..Len(s) : 1 + i - 1 = i
    BY <1>1
  <2>3. QED BY <1>1, <2>1, <2>2, SubSeqProperties
<1>3. /\ SubSeq(s, 1, Len(s)) \in Seq(Nat) /\ Len(SubSeq(s, 1, Len(s))) = Len(s)
      /\ \A i \in 1..Len(s) : SubSeq(s, 1, Len(s))[i] = s[i]
  BY <1>1, <1>2
<1>4. /\ SubSeq(t, 1, Len(s)) \in Seq(Nat) /\ Len(SubSeq(t, 1, Len(s))) = Len(s)
      /\ \A i \in 1..Len(s) : SubSeq(t, 1, Len(s))[i] = t[i]
  BY <1>2
<1>5. ASSUME \A i \in 1..Len(s) : s[i] = t[i]
      PROVE  SubSeq(s, 1, Len(s)) = SubSeq(t, 1, Len(s))
  <2>1. \A i \in 1..Len(s) : SubSeq(s, 1, Len(s))[i] = SubSeq(t, 1, Len(s))[i]
    BY <1>3, <1>4, <1>5
  <2>2. QED BY <1>3, <1>4, <2>1, SeqEqual
<1>6. ASSUME SubSeq(s, 1, Len(s)) = SubSeq(t, 1, Len(s)), NEW i \in 1..Len(s)
      PROVE  s[i] = t[i]
  BY <1>3, <1>4, <1>6
<1>7. QED BY <1>5, <1>6

(* The empty text is a prefix of every text, every text of itself, and no  *)
(* two different texts are prefixes of each other.                         *)
LEMMA PrefixOrder ==
  ASSUME NEW s \in Seq(Nat), NEW t \in Seq(Nat)
  PROVE  /\ IsPrefix(<<>>, s) /\ IsPrefix(s, s)
         /\ IsPrefix(s, t) /\ IsPrefix(t, s) => s = t
<1>1. Len(s) \in Nat /\ Len(t) \in Nat /\ <<>> \in Seq(Nat) /\ Len(<<>>) = 0
  BY LenProperties
<1>2. IsPrefix(<<>>, s)
  <2>1. ASSUME NEW z \in Seq(Nat), Len(z) = 0 PROVE IsPrefix(z, s)
    <3>1. 1..Len(z) = {} /\ Len(z) <= Len(s)
      BY <1>1, <2>1
    <3>2. QED BY <3>1, PrefixIff
  <2>2. QED BY <1>1, <2>1
<1>3. IsPrefix(s, s)
  BY <1>1, PrefixIff
<1>4. ASSUME IsPrefix(s, t), IsPrefix(t, s) PROVE s = t
  <2>1. Len(s) = Len(t) /\ \A i \in 1..Len(s) : s[i] = t[i]
    BY <1>1, <1>4, PrefixIff
  <2>2. QED BY <2>1, SeqEqual
<1>5. QED BY <1>2, <1>3, <1>4

(* The first n deltas. *)
LEMMA DeltasAre ==
  ASSUME NEW n \in Nat
  PROVE  /\ Deltas(n) \in Seq(Nat) /\ Len(Deltas(n)) = n /\ DOMAIN Deltas(n) = 1..n
         /\ \A i \in 1..n : Deltas(n)[i] = i
<1>1. Deltas(n) \in [1..n -> Nat]
  BY DEF Deltas
<1>2. Deltas(n) \in Seq(Nat) /\ DOMAIN Deltas(n) = 1..n
  BY <1>1, SeqDef
<1>3. QED BY <1>2, LenProperties DEF Deltas

(* Fewer deltas are a prefix of more. *)
LEMMA DeltasOrder ==
  ASSUME NEW m \in Nat, NEW n \in Nat
  PROVE  /\ IsPrefix(Deltas(m), Deltas(n)) <=> m <= n
         /\ Append(Deltas(n), n + 1) = Deltas(n + 1)
         /\ Deltas(0) = <<>>
<1>1. IsPrefix(Deltas(m), Deltas(n)) <=> m <= n
  <2>1. /\ Deltas(m) \in Seq(Nat) /\ Len(Deltas(m)) = m /\ \A i \in 1..m : Deltas(m)[i] = i
        /\ Deltas(n) \in Seq(Nat) /\ Len(Deltas(n)) = n /\ \A i \in 1..n : Deltas(n)[i] = i
    BY DeltasAre
  <2>2. m <= n => \A i \in 1..m : Deltas(m)[i] = Deltas(n)[i]
    BY <2>1
  <2>3. IsPrefix(Deltas(m), Deltas(n)) <=>
          /\ Len(Deltas(m)) <= Len(Deltas(n))
          /\ \A i \in 1..Len(Deltas(m)) : Deltas(m)[i] = Deltas(n)[i]
    BY <2>1, PrefixIff
  <2>4. QED BY <2>1, <2>2, <2>3
<1>2. Append(Deltas(n), n + 1) = Deltas(n + 1)
  <2>1. /\ Append(Deltas(n), n + 1) \in Seq(Nat) /\ Len(Append(Deltas(n), n + 1)) = n + 1
        /\ \A i \in 1..n : Append(Deltas(n), n + 1)[i] = i
        /\ Append(Deltas(n), n + 1)[n + 1] = n + 1
    BY DeltasAre, AppendProperties
  <2>2. \A i \in 1..n + 1 : i \in 1..n \/ i = n + 1
    OBVIOUS
  <2>3. /\ Deltas(n + 1) \in Seq(Nat) /\ Len(Deltas(n + 1)) = n + 1
        /\ \A i \in 1..n + 1 : Deltas(n + 1)[i] = i
    BY DeltasAre
  <2>4. QED BY <2>1, <2>2, <2>3, SeqEqual
<1>3. Deltas(0) = <<>>
  BY DeltasAre, EmptySeq
<1>4. QED BY <1>1, <1>2, <1>3

-----------------------------------------------------------------------------
(* Stripped, of a part s of any text t. *)
WordsIn(t, s) == {i \in DOMAIN s : t[s[i]] = "word"}

Strip(t, s) ==
    IF WordsIn(t, s) = {} THEN <<>> ELSE SubSeq(s, Min(WordsIn(t, s)), Max(WordsIn(t, s)))

(* What stripping leaves lies between the first word and the last.         *)
LEMMA StripIs ==
  ASSUME NEW t, NEW s \in Seq(Nat), WordsIn(t, s) # {}
  PROVE  \E a, b \in 1..Len(s) :
            /\ a <= b /\ a \in WordsIn(t, s) /\ b \in WordsIn(t, s)
            /\ \A x \in WordsIn(t, s) : a <= x /\ x <= b
            /\ Strip(t, s) \in Seq(Nat) /\ Len(Strip(t, s)) = b - a + 1
            /\ \A i \in 1..(b - a + 1) : Strip(t, s)[i] = s[a + i - 1]
<1> DEFINE W == WordsIn(t, s)
           a == Min(W)
           b == Max(W)
<1>1. Len(s) \in Nat /\ DOMAIN s = 1..Len(s) /\ \A i \in 1..Len(s) : s[i] \in Nat
  BY LenProperties, ElementOfSeq
<1>2. W \subseteq 1..Len(s) /\ W # {}
  BY <1>1 DEF WordsIn
<1>3. Strip(t, s) = SubSeq(s, a, b)
  BY DEF Strip
<1>4. /\ a \in W /\ \A x \in W : a <= x
      /\ b \in W /\ \A x \in W : x <= b
  <2> HIDE DEF W
  <2>1. W \subseteq Nat /\ \A x \in W : x <= Len(s)
    BY <1>1, <1>2
  <2>2. QED BY <1>1, <1>2, <2>1, LeastExists, GreatestExists
<1> HIDE DEF a, b, W
<1>5. a \in 1..Len(s) /\ b \in 1..Len(s) /\ a <= b
  BY <1>2, <1>4
<1>6. \A i \in a..b : s[i] \in Nat
  BY <1>1, <1>5
<1>7. a \in Int /\ b \in Int /\ a <= b + 1
  BY <1>1, <1>5
<1>8. /\ Strip(t, s) \in Seq(Nat) /\ Len(Strip(t, s)) = b - a + 1
      /\ \A i \in 1..(b - a + 1) : Strip(t, s)[i] = s[a + i - 1]
  BY <1>3, <1>5, <1>6, <1>7, SubSeqProperties
<1>9. QED BY <1>4, <1>5, <1>8 DEF W

(* What stripping leaves of the first n deltas. *)
LEMMA StripOfDeltas ==
  ASSUME NEW t, NEW n \in Nat, WordsIn(t, Deltas(n)) # {}
  PROVE  \E a, b \in 1..n :
            /\ a <= b /\ t[a] = "word" /\ t[b] = "word"
            /\ \A x \in 1..n : t[x] = "word" => a <= x /\ x <= b
            /\ Strip(t, Deltas(n)) \in Seq(Nat) /\ Len(Strip(t, Deltas(n))) = b - a + 1
            /\ \A i \in 1..(b - a + 1) : Strip(t, Deltas(n))[i] = a + i - 1
<1> Deltas(n) \in Seq(Nat)
  BY DeltasAre
<1>1. /\ Len(Deltas(n)) = n /\ DOMAIN Deltas(n) = 1..n
      /\ \A i \in 1..n : Deltas(n)[i] = i
  BY DeltasAre
<1>2. \A x : x \in WordsIn(t, Deltas(n)) <=> x \in 1..n /\ t[x] = "word"
  BY <1>1 DEF WordsIn
<1>3. PICK a, b \in 1..Len(Deltas(n)) :
        /\ a <= b /\ a \in WordsIn(t, Deltas(n)) /\ b \in WordsIn(t, Deltas(n))
        /\ \A x \in WordsIn(t, Deltas(n)) : a <= x /\ x <= b
        /\ Strip(t, Deltas(n)) \in Seq(Nat) /\ Len(Strip(t, Deltas(n))) = b - a + 1
        /\ \A i \in 1..(b - a + 1) : Strip(t, Deltas(n))[i] = Deltas(n)[a + i - 1]
  BY StripIs, Zenon
<1>4. a \in 1..n /\ b \in 1..n /\ \A i \in 1..(b - a + 1) : a + i - 1 \in 1..n
  BY <1>1, <1>3
<1>5. \A i \in 1..(b - a + 1) : Strip(t, Deltas(n))[i] = a + i - 1
  BY <1>1, <1>3, <1>4
<1>6. QED BY <1>2, <1>3, <1>4, <1>5

(* What stripping leaves is a text, nothing of nothing. *)
LEMMA StripType ==
  ASSUME NEW t, NEW s \in Seq(Nat)
  PROVE  Strip(t, s) \in Seq(Nat) /\ Strip(t, <<>>) = <<>>
<1>1. Strip(t, s) \in Seq(Nat)
  <2>1. CASE WordsIn(t, s) = {}
    BY <2>1, EmptySeq DEF Strip
  <2>2. CASE WordsIn(t, s) # {}
    BY <2>2, StripIs
  <2>3. QED BY <2>1, <2>2
<1>2. WordsIn(t, <<>>) = {}
  BY DEF WordsIn
<1>3. QED BY <1>1, <1>2 DEF Strip

(* More deltas take no word away. *)
LEMMA StripGrows ==
  ASSUME NEW t, NEW m \in Nat, NEW n \in Nat, m <= n
  PROVE  \/ Strip(t, Deltas(m)) = <<>>
         \/ IsPrefix(Strip(t, Deltas(m)), Strip(t, Deltas(n)))
<1>1. CASE WordsIn(t, Deltas(m)) = {}
  BY <1>1 DEF Strip
<1>2. CASE WordsIn(t, Deltas(m)) # {}
  <2>1. PICK a, b \in 1..m :
          /\ a <= b /\ t[a] = "word" /\ t[b] = "word"
          /\ \A x \in 1..m : t[x] = "word" => a <= x /\ x <= b
          /\ Strip(t, Deltas(m)) \in Seq(Nat) /\ Len(Strip(t, Deltas(m))) = b - a + 1
          /\ \A i \in 1..(b - a + 1) : Strip(t, Deltas(m))[i] = a + i - 1
    BY <1>2, StripOfDeltas
  <2>2. WordsIn(t, Deltas(n)) # {}
    <3>1. a \in 1..n /\ DOMAIN Deltas(n) = 1..n /\ Deltas(n)[a] = a
      BY DeltasAre
    <3>2. a \in WordsIn(t, Deltas(n))
      BY <2>1, <3>1 DEF WordsIn
    <3>3. QED BY <3>2
  <2>3. PICK c, d \in 1..n :
          /\ c <= d /\ t[c] = "word" /\ t[d] = "word"
          /\ \A x \in 1..n : t[x] = "word" => c <= x /\ x <= d
          /\ Strip(t, Deltas(n)) \in Seq(Nat) /\ Len(Strip(t, Deltas(n))) = d - c + 1
          /\ \A i \in 1..(d - c + 1) : Strip(t, Deltas(n))[i] = c + i - 1
    BY <2>2, StripOfDeltas
  <2>4. c = a /\ b <= d
    <3>1. a \in 1..n /\ b \in 1..n
      OBVIOUS
    <3>2. c <= a /\ b <= d
      BY <2>1, <2>3, <3>1
    <3>3. c \in 1..m
      BY <3>2
    <3>4. QED BY <2>1, <2>3, <3>2, <3>3
  <2>5. \A i \in 1..(b - a + 1) : i \in 1..(d - c + 1)
    BY <2>4
  <2>6. /\ Len(Strip(t, Deltas(m))) <= Len(Strip(t, Deltas(n)))
        /\ \A i \in 1..Len(Strip(t, Deltas(m))) : Strip(t, Deltas(m))[i] = Strip(t, Deltas(n))[i]
    BY <2>1, <2>3, <2>4, <2>5
  <2>7. QED BY <2>1, <2>3, <2>6, PrefixIff
<1>3. QED BY <1>1, <1>2

(* Stripping twice is stripping once. *)
LEMMA StripTwice ==
  ASSUME NEW t, NEW n \in Nat
  PROVE  Strip(t, Strip(t, Deltas(n))) = Strip(t, Deltas(n))
<1> DEFINE u == Strip(t, Deltas(n))
<1>1. CASE WordsIn(t, Deltas(n)) = {}
  <2>1. u = <<>>
    BY <1>1 DEF Strip
  <2>2. QED BY <2>1, StripType, EmptySeq
<1>2. CASE WordsIn(t, Deltas(n)) # {}
  <2>1. PICK a, b \in 1..n :
          /\ a <= b /\ t[a] = "word" /\ t[b] = "word"
          /\ u \in Seq(Nat) /\ Len(u) = b - a + 1
          /\ \A i \in 1..(b - a + 1) : u[i] = a + i - 1
    BY <1>2, StripOfDeltas
  <2> DEFINE k == b - a + 1
  <2> HIDE DEF u
  <2>2. /\ k \in Nat /\ 1 \in 1..k /\ k \in 1..k
        /\ a + 1 - 1 = a /\ a + k - 1 = b
    BY <2>1
  <2>3. 1 \in WordsIn(t, u) /\ k \in WordsIn(t, u)
    <3>1. DOMAIN u = 1..k /\ u[1] = a /\ u[k] = b
      BY <2>1, <2>2, LenProperties
    <3>2. QED BY <2>1, <2>2, <3>1 DEF WordsIn
  <2> HIDE DEF k
  <2>4. Len(u) = k
    BY <2>1 DEF k
  <2>5. PICK c, d \in 1..Len(u) :
          /\ \A x \in WordsIn(t, u) : c <= x /\ x <= d
          /\ Strip(t, u) \in Seq(Nat) /\ Len(Strip(t, u)) = d - c + 1
          /\ \A i \in 1..(d - c + 1) : Strip(t, u)[i] = u[c + i - 1]
    BY <2>1, <2>3, <2>4, StripIs
  <2>6. c = 1 /\ d = k
    BY <2>2, <2>3, <2>4, <2>5
  <2>7. Len(Strip(t, u)) = k /\ \A i \in 1..k : Strip(t, u)[i] = u[i]
    <3>1. d - c + 1 = k /\ \A i \in 1..k : c + i - 1 = i
      BY <2>2, <2>6
    <3>2. QED BY <2>5, <3>1
  <2>8. Strip(t, u) = u
    BY <2>1, <2>4, <2>5, <2>7, SeqEqual
  <2>9. QED BY <2>8 DEF u
<1>3. QED BY <1>1, <1>2

(* Stripping shortens: all that was streamed is a part of its words only   *)
(* if it is its words.                                                     *)
LEMMA StripShortens ==
  ASSUME NEW t, NEW n \in Nat, IsPrefix(Deltas(n), Strip(t, Deltas(n)))
  PROVE  Strip(t, Deltas(n)) = Deltas(n)
<1>1. Deltas(n) \in Seq(Nat) /\ Len(Deltas(n)) = n /\ Strip(t, Deltas(n)) \in Seq(Nat)
  BY DeltasAre, StripType
<1>2. n <= Len(Strip(t, Deltas(n))) /\ \A i \in 1..n : Deltas(n)[i] = Strip(t, Deltas(n))[i]
  BY <1>1, PrefixIff
<1>3. Len(Strip(t, Deltas(n))) <= n
  <2>1. CASE WordsIn(t, Deltas(n)) = {}
    <3>1. Strip(t, Deltas(n)) = <<>>
      BY <2>1 DEF Strip
    <3>2. QED BY <3>1, EmptySeq
  <2>2. CASE WordsIn(t, Deltas(n)) # {}
    <3>1. PICK a, b \in 1..n : a <= b /\ Len(Strip(t, Deltas(n))) = b - a + 1
      BY <2>2, StripOfDeltas
    <3>2. QED BY <3>1
  <2>3. QED BY <2>1, <2>2
<1>4. Len(Strip(t, Deltas(n))) \in Nat
  BY <1>1, LenProperties
<1>5. Len(Strip(t, Deltas(n))) = n
  BY <1>2, <1>3, <1>4
<1>6. QED BY <1>1, <1>2, <1>5, SeqEqual

(* Only the deltas themselves matter. *)
LEMMA StripSame ==
  ASSUME NEW t, NEW u, NEW n \in Nat, \A i \in 1..n : t[i] = u[i]
  PROVE  Strip(t, Deltas(n)) = Strip(u, Deltas(n))
<1>1. WordsIn(t, Deltas(n)) = WordsIn(u, Deltas(n))
  BY DeltasAre DEF WordsIn
<1>2. QED BY <1>1 DEF Strip

-----------------------------------------------------------------------------
(* What a page may hold of a text t whose stored answer is ans: a start of *)
(* it, or the answer.  A text held out to it once there is an answer is    *)
(* the answer or all that was streamed.                                    *)
Held(t, ans, c) == c = ans \/ \E n \in 0..Len(t) : c = Deltas(n)

Offered(t, ans, d) ==
    d = ans \/ \E n \in 0..Len(t) : d = Deltas(n) /\ (ans # <<>> => n = Len(t))

(* Stands for what t strips to, or is not there. *)
AnswerOf(t, ans) == ans \in Seq(Nat) /\ ans \in {<<>>, Strip(t, Deltas(Len(t)))}

Kept(t, c, d) == Strip(t, c) = <<>> \/ IsPrefix(Strip(t, c), Strip(t, d))

(* What is held and offered are texts. *)
LEMMA HeldType ==
  ASSUME NEW t, Len(t) \in Nat, NEW ans, AnswerOf(t, ans), NEW c
  PROVE  /\ Held(t, ans, c) => c \in Seq(Nat)
         /\ Offered(t, ans, c) => Held(t, ans, c)
<1>1. \A n \in 0..Len(t) : Deltas(n) \in Seq(Nat)
  BY DeltasAre
<1>2. QED BY <1>1 DEF Held, Offered, AnswerOf

(* A page keeps its words whatever is offered in their place, unless that  *)
(* is a start of what it holds.                                            *)
LEMMA OfferKeepsWords ==
  ASSUME NEW t, Len(t) \in Nat, NEW ans, AnswerOf(t, ans), NEW c, NEW d,
         Held(t, ans, c), Offered(t, ans, d), ~IsPrefix(d, c)
  PROVE  Kept(t, c, d)
<1> DEFINE L == Len(t)
<1>1. c \in Seq(Nat) /\ d \in Seq(Nat) /\ ans \in Seq(Nat)
  BY HeldType DEF AnswerOf
<1>2. d # <<>> /\ d # c
  BY <1>1, PrefixOrder
<1>3. ASSUME ans # <<>>
      PROVE  Strip(t, ans) = Strip(t, Deltas(L)) /\ Strip(t, ans) \in Seq(Nat)
  <2>1. ans = Strip(t, Deltas(L))
    BY <1>3 DEF AnswerOf
  <2>2. QED BY <1>1, <2>1, StripTwice, StripType
<1>4. CASE c = ans /\ ans = <<>>
  BY <1>1, <1>4, StripType DEF Kept
<1>5. CASE c = ans /\ ans # <<>>
  <2>1. d = Deltas(L)
    BY <1>2, <1>5 DEF Offered
  <2>2. QED BY <1>3, <1>5, <2>1, PrefixOrder DEF Kept
<1>6. CASE \E m \in 0..L : c = Deltas(m)
  <2>1. PICK m \in 0..L : c = Deltas(m)
    BY <1>6
  <2>2. m \in Nat /\ m <= L
    OBVIOUS
  <2>3. CASE d = ans
    <3>1. Strip(t, d) = Strip(t, Deltas(L))
      BY <1>2, <1>3, <2>3
    <3>2. QED BY <2>1, <2>2, <3>1, StripGrows DEF Kept
  <2>4. CASE \E n \in 0..L : d = Deltas(n)
    <3>1. PICK n \in 0..L : d = Deltas(n)
      BY <2>4
    <3>2. n \in Nat /\ ~(n <= m)
      BY <2>1, <2>2, <3>1, DeltasOrder
    <3>3. m <= n
      BY <2>2, <3>2
    <3>4. QED BY <2>1, <2>2, <3>1, <3>2, <3>3, StripGrows DEF Kept
  <2>5. QED BY <2>3, <2>4 DEF Offered
<1>7. QED BY <1>4, <1>5, <1>6 DEF Held

-----------------------------------------------------------------------------
(* What runs behind the API: an answer is stored once, at the end, with    *)
(* the projection complete or dropped.                                     *)
RowOf(e) ==
    /\ e > created => row[e] = "absent" /\ owner[e] = 0
    /\ row[e] \in {"absent"} \cup Open => answer[e] = <<>>
    /\ AnswerOf(text[e], answer[e])
    /\ hot[e] \in (0..Len(text[e])) \cup {None}
    /\ answer[e] # <<>> => told[e] \in Ends \/ hot[e] \in {None, Len(text[e])}

Rows ==
    /\ created \in 0..MaxExecutions
    /\ DOMAIN owner = Executions /\ DOMAIN row = Executions
    /\ answer \in [Executions -> Seq(Nat)]
    /\ text \in [Executions -> Seq({"word", "blank"})]
    /\ DOMAIN hot = Executions /\ DOMAIN told = Executions
    /\ \A e \in Executions : RowOf(e)

(* The page follows an execution while the script runs, and holds what it  *)
(* streamed or stored; an open tail holds what it has covered.             *)
Followed ==
    /\ active \in 0..MaxExecutions
    /\ place = "idle" => active = 0
    /\ place \notin {"idle", "broken"} => active # 0
    /\ active # 0 => Held(text[active], answer[active], content)
    /\ place = "tail" => covered \in 0..Len(text[active]) /\ content = Deltas(covered)

IInv == Rows /\ Followed

(* Lengths are numbers. *)
LEMMA RowsAreTyped ==
  ASSUME Rows, NEW e \in Executions
  PROVE  /\ Len(text[e]) \in Nat /\ answer[e] \in Seq(Nat) /\ AnswerOf(text[e], answer[e])
         /\ text[e] \in Seq({"word", "blank"}) /\ Streamed(e) = Deltas(Len(text[e]))
<1>1. text[e] \in Seq({"word", "blank"}) /\ answer[e] \in Seq(Nat) /\ RowOf(e)
  BY DEF Rows
<1>2. QED BY <1>1, LenProperties DEF RowOf, Streamed

(* The executions there may be. *)
LEMMA ExecutionsAre == Executions = (0..MaxExecutions) \ {0} /\ None \notin Nat
BY ConstantsAssumption DEF Executions

(* A page that starts from nothing holds what may be held. *)
LEMMA FreshPage ==
  ASSUME Rows', active' \in 0..MaxExecutions, content' = <<>>,
         place' \in {"broken"} \/ place' = (IF active' = 0 THEN "idle" ELSE "connecting")
  PROVE  Followed'
<1>1. ASSUME active' # 0 PROVE Held(text'[active'], answer'[active'], content')
  <2>1. active' \in Executions
    BY <1>1, ExecutionsAre
  <2>2. text'[active'] \in Seq({"word", "blank"})
    BY <2>1 DEF Rows
  <2>3. 0 \in 0..Len(text'[active'])
    BY <2>2, LenProperties
  <2>4. Deltas(0) = <<>>
    BY DeltasOrder
  <2>5. QED BY <2>3, <2>4 DEF Held
<1>2. QED BY <1>1 DEF Followed

(* What runs behind the API takes nothing from a page. *)
LEMMA UnderThePage ==
  ASSUME Rows, Rows', Followed, UNCHANGED page,
         \A e \in Executions :
            /\ Len(text[e]) <= Len(text'[e])
            /\ answer[e] # <<>> => answer'[e] = answer[e]
  PROVE  Followed'
<1>1. UNCHANGED <<active, place, content, covered>>
  BY DEF page
<1>2. ASSUME active # 0
      PROVE  /\ Held(text'[active], answer'[active], content)
             /\ 0..Len(text[active]) \subseteq 0..Len(text'[active])
  <2>1. active \in Executions
    BY <1>2, ExecutionsAre DEF Followed
  <2>2. text[active] \in Seq({"word", "blank"}) /\ text'[active] \in Seq({"word", "blank"})
    BY <2>1 DEF Rows
  <2>3. Len(text[active]) \in Nat /\ Len(text'[active]) \in Nat /\ Len(text[active]) <= Len(text'[active])
    BY <2>1, <2>2, LenProperties
  <2>4. 0..Len(text[active]) \subseteq 0..Len(text'[active]) /\ 0 \in 0..Len(text'[active])
    BY <2>3
  <2>5. Held(text[active], answer[active], content)
    BY <1>2 DEF Followed
  <2>6. CASE content = answer[active] /\ answer[active] # <<>>
    BY <2>1, <2>4, <2>6 DEF Held
  <2>7. CASE content = <<>>
    <3>1. content = Deltas(0)
      BY <2>7, DeltasOrder
    <3>2. QED BY <2>4, <3>1 DEF Held
  <2>8. CASE \E n \in 0..Len(text[active]) : content = Deltas(n)
    BY <2>4, <2>8 DEF Held
  <2>9. QED BY <2>4, <2>5, <2>6, <2>7, <2>8 DEF Held
<1>3. QED BY <1>1, <1>2 DEF Followed

-----------------------------------------------------------------------------
(* The rows begin well. *)
LEMMA InitIInv == Init => IInv
<1> SUFFICES ASSUME Init PROVE IInv
  OBVIOUS
<1>1. <<>> \in Seq(Nat) /\ <<>> \in Seq({"word", "blank"})
  OBVIOUS
<1>2. ASSUME NEW e \in Executions PROVE RowOf(e)
  BY <1>1, <1>2 DEF Init, RowOf, AnswerOf, Open
<1>3. Rows
  <2>1. created \in 0..MaxExecutions /\ DOMAIN hot = Executions /\ DOMAIN told = Executions
    BY ConstantsAssumption DEF Init
  <2>2. DOMAIN owner = Executions /\ DOMAIN row = Executions
    BY DEF Init
  <2>3. answer \in [Executions -> Seq(Nat)] /\ text \in [Executions -> Seq({"word", "blank"})]
    <3>1. answer = [e \in Executions |-> <<>>] /\ text = [e \in Executions |-> <<>>]
      BY DEF Init
    <3>2. QED BY <1>1, <3>1
  <2>4. QED BY <1>2, <2>1, <2>2, <2>3 DEF Rows
<1>4. Followed
  BY ConstantsAssumption DEF Init, Followed
<1>5. QED BY <1>3, <1>4 DEF IInv

(* Beginning, writing, folding, ending, publishing and expiring keep what  *)
(* is known of the rows.                                                   *)
LEMMA BeginStep ==
  ASSUME IInv, NEW e \in Executions, Begin(e)
  PROVE  IInv'
<1>1. /\ row' = [row EXCEPT ![e] = "running"] /\ hot' = [hot EXCEPT ![e] = 0]
      /\ UNCHANGED <<created, owner, answer, text, told, page>> /\ row[e] = "pending"
  BY DEF Begin
<1>2. ASSUME NEW x \in Executions PROVE RowOf(x)'
  <2>1. RowOf(x) /\ Len(text[x]) \in Nat
    BY RowsAreTyped DEF IInv, Rows
  <2>2. CASE x = e
    BY <1>1, <2>1, <2>2 DEF IInv, Rows, RowOf, Open
  <2>3. CASE x # e
    BY <1>1, <2>1, <2>3 DEF IInv, Rows, RowOf, Open
  <2>4. QED BY <2>2, <2>3
<1>3. Rows'
  BY <1>1, <1>2 DEF IInv, Rows
<1>4. \A x \in Executions : Len(text[x]) <= Len(text'[x])
  BY <1>1, RowsAreTyped DEF IInv
<1>5. QED BY <1>1, <1>3, <1>4, UnderThePage DEF IInv

(* A delta is written. *)
LEMMA GenerateStep ==
  ASSUME IInv, NEW e \in Executions, Generate(e)
  PROVE  IInv'
<1>1. PICK kind \in {"word", "blank"} : text' = [text EXCEPT ![e] = Append(@, kind)]
  BY DEF Generate
<1>2. /\ UNCHANGED <<created, owner, row, answer, hot, told, page>>
      /\ row[e] \in {"running", "cancel_requested"}
  BY DEF Generate
<1>3. /\ text[e] \in Seq({"word", "blank"}) /\ text'[e] = Append(text[e], kind)
      /\ text'[e] \in Seq({"word", "blank"}) /\ Len(text'[e]) = Len(text[e]) + 1
  BY <1>1, AppendProperties DEF IInv, Rows
<1>4. ASSUME NEW x \in Executions PROVE RowOf(x)' /\ Len(text[x]) <= Len(text'[x])
  <2>1. RowOf(x) /\ Len(text[x]) \in Nat
    BY RowsAreTyped DEF IInv, Rows
  <2>2. CASE x = e
    <3>1. answer[x] = <<>>
      BY <1>2, <2>1, <2>2 DEF RowOf, Open
    <3>2. QED BY <1>2, <1>3, <2>1, <2>2, <3>1 DEF RowOf, AnswerOf
  <2>3. CASE x # e
    <3>1. text'[x] = text[x]
      BY <1>1, <2>3 DEF IInv, Rows
    <3>2. QED BY <1>2, <2>1, <3>1 DEF RowOf
  <2>4. QED BY <2>2, <2>3
<1>5. text' \in [Executions -> Seq({"word", "blank"})]
  BY <1>1, <1>3 DEF IInv, Rows
<1>6. Rows'
  BY <1>2, <1>4, <1>5 DEF IInv, Rows
<1>7. QED BY <1>2, <1>4, <1>6, UnderThePage DEF IInv

(* The projection takes up a delta. *)
LEMMA FoldStep ==
  ASSUME IInv, NEW e \in Executions, Fold(e)
  PROVE  IInv'
<1>1. /\ hot' = [hot EXCEPT ![e] = Len(text[e])]
      /\ UNCHANGED <<created, owner, row, answer, text, told, page>> /\ row[e] \in Open
  BY DEF Fold
<1>2. ASSUME NEW x \in Executions PROVE RowOf(x)'
  <2>1. RowOf(x) /\ Len(text[x]) \in Nat
    BY RowsAreTyped DEF IInv, Rows
  <2>2. CASE x = e
    BY <1>1, <2>1, <2>2 DEF IInv, Rows, RowOf
  <2>3. CASE x # e
    BY <1>1, <2>1, <2>3 DEF IInv, Rows, RowOf
  <2>4. QED BY <2>2, <2>3
<1>3. Rows'
  BY <1>1, <1>2 DEF IInv, Rows
<1>4. \A x \in Executions : Len(text[x]) <= Len(text'[x])
  BY <1>1, RowsAreTyped DEF IInv
<1>5. QED BY <1>1, <1>3, <1>4, UnderThePage DEF IInv

(* The row ends, and takes its answer. *)
LEMMA EndStep ==
  ASSUME IInv, NEW e \in Executions, End(e)
  PROVE  IInv'
<1> DEFINE whole == Stripped(e, Streamed(e))
<1>1. /\ row[e] \in {"running", "cancel_requested"}
      /\ \E s \in Ends : row' = [row EXCEPT ![e] = s]
      /\ answer' = answer \/ (hot[e] = Len(text[e]) /\ answer' = [answer EXCEPT ![e] = whole])
      /\ UNCHANGED <<created, owner, text, hot, told, page>>
  BY DEF End, Ends, Settled
<1>2. /\ Len(text[e]) \in Nat /\ whole = Strip(text[e], Deltas(Len(text[e])))
      /\ answer[e] = <<>> /\ RowOf(e)
  <2>1. RowOf(e)
    BY DEF IInv, Rows
  <2>2. QED BY <1>1, <2>1, RowsAreTyped DEF IInv, RowOf, Open, Stripped, Words, Strip, WordsIn
<1>3. whole \in Seq(Nat)
  BY <1>2, DeltasAre, StripType
<1> HIDE DEF whole
<1>4. answer' \in [Executions -> Seq(Nat)] /\ DOMAIN row' = Executions
  <2>1. answer \in [Executions -> Seq(Nat)]
    BY DEF IInv, Rows
  <2>2. answer' \in [Executions -> Seq(Nat)]
    BY <1>1, <1>3, <2>1
  <2>3. QED BY <1>1, <2>2 DEF IInv, Rows
<1>5. ASSUME NEW x \in Executions PROVE RowOf(x)'
  <2>1. RowOf(x) /\ Len(text[x]) \in Nat
    BY RowsAreTyped DEF IInv, Rows
  <2>2. CASE x = e
    <3>1. row'[e] \in Ends /\ (answer'[e] = <<>> \/ (answer'[e] = whole /\ hot[e] = Len(text[e])))
      BY <1>1, <1>2 DEF IInv, Rows
    <3>2. answer'[e] \in Seq(Nat)
      BY <1>4
    <3>3. e <= created
      BY <1>1, <2>1, <2>2 DEF RowOf, IInv, Rows, Executions
    <3>4. row'[e] \notin {"absent"} \cup Open
      BY <3>1 DEF Ends, Open
    <3>5. QED BY <1>1, <1>2, <2>2, <3>1, <3>2, <3>3, <3>4 DEF RowOf, AnswerOf, IInv, Rows, Executions
  <2>3. CASE x # e
    <3>1. row'[x] = row[x] /\ answer'[x] = answer[x]
      BY <1>1, <2>3 DEF IInv, Rows
    <3>2. QED BY <1>1, <2>1, <3>1 DEF RowOf
  <2>4. QED BY <2>2, <2>3
<1>6. Rows'
  BY <1>1, <1>4, <1>5 DEF IInv, Rows
<1>7. \A x \in Executions : Len(text[x]) <= Len(text'[x]) /\ (answer[x] # <<>> => answer'[x] = answer[x])
  BY <1>1, <1>2, RowsAreTyped DEF IInv, Rows
<1>8. QED BY <1>1, <1>6, <1>7, UnderThePage DEF IInv

(* The end is published or lost; a projection it may write anew is ended.  *)
LEMMA PublishEndStep ==
  ASSUME IInv, NEW e \in Executions, PublishEnd(e)
  PROVE  IInv'
<1>1. /\ row[e] \in Ends /\ told[e] = "no"
      /\ UNCHANGED <<created, owner, row, answer, text, page>>
      /\ \/ /\ told' = [told EXCEPT ![e] = row[e]]
            /\ hot' = [hot EXCEPT ![e] = IF @ = None THEN 0 ELSE @]
         \/ told' = [told EXCEPT ![e] = "lost"] /\ hot' = hot
  BY DEF PublishEnd
<1>2. ASSUME NEW x \in Executions PROVE RowOf(x)'
  <2>1. RowOf(x) /\ Len(text[x]) \in Nat
    BY RowsAreTyped DEF IInv, Rows
  <2>2. CASE x = e
    <3>1. \/ told'[e] = row[e] /\ hot'[e] = (IF hot[e] = None THEN 0 ELSE hot[e])
          \/ hot'[e] = hot[e]
      BY <1>1 DEF IInv, Rows
    <3>2. told'[e] \in Ends \/ hot'[e] = hot[e]
      BY <1>1, <3>1
    <3>3. told[e] \notin Ends
      BY <1>1 DEF Ends
    <3>4. hot'[e] \in (0..Len(text[x])) \cup {None}
      BY <2>1, <2>2, <3>1 DEF RowOf
    <3>5. QED BY <1>1, <2>1, <2>2, <3>2, <3>3, <3>4 DEF RowOf
  <2>3. CASE x # e
    <3>1. told'[x] = told[x] /\ hot'[x] = hot[x]
      BY <1>1, <2>3 DEF IInv, Rows
    <3>2. QED BY <1>1, <2>1, <3>1 DEF RowOf
  <2>4. QED BY <2>2, <2>3
<1>3. Rows'
  <2>1. DOMAIN told' = Executions /\ DOMAIN hot' = Executions
    BY <1>1 DEF IInv, Rows
  <2>2. QED BY <1>1, <1>2, <2>1 DEF IInv, Rows
<1>4. \A x \in Executions : Len(text[x]) <= Len(text'[x])
  BY <1>1, RowsAreTyped DEF IInv
<1>5. QED BY <1>1, <1>3, <1>4, UnderThePage DEF IInv

(* A projection expires. *)
LEMMA ExpireStep ==
  ASSUME IInv, NEW e \in Executions, Expire(e)
  PROVE  IInv'
<1>1. /\ hot' = [hot EXCEPT ![e] = None]
      /\ UNCHANGED <<created, owner, row, answer, text, told, page>>
  BY DEF Expire
<1>2. ASSUME NEW x \in Executions PROVE RowOf(x)'
  <2>1. RowOf(x) /\ (hot'[x] = None \/ hot'[x] = hot[x])
    BY <1>1 DEF IInv, Rows
  <2>2. QED BY <1>1, <2>1 DEF RowOf
<1>3. Rows'
  BY <1>1, <1>2 DEF IInv, Rows
<1>4. \A x \in Executions : Len(text[x]) <= Len(text'[x])
  BY <1>1, RowsAreTyped DEF IInv
<1>5. QED BY <1>1, <1>3, <1>4, UnderThePage DEF IInv

(* A session is deleted. *)
LEMMA DeleteStep ==
  ASSUME IInv, NEW s \in Executions, Delete(s)
  PROVE  IInv'
<1>1. /\ row' = [e \in Executions |-> IF owner[e] = s THEN "deleted" ELSE row[e]]
      /\ UNCHANGED <<created, owner, answer, text, hot, told, page>>
  BY DEF Delete
<1>2. ASSUME NEW x \in Executions PROVE RowOf(x)'
  <2>1. RowOf(x) /\ s # 0
    BY ExecutionsAre DEF IInv, Rows
  <2>2. row'[x] = row[x] \/ (row'[x] = "deleted" /\ owner[x] # 0)
    BY <1>1, <2>1
  <2>3. "deleted" \notin {"absent"} \cup Open
    BY DEF Open
  <2>4. QED BY <1>1, <2>1, <2>2, <2>3 DEF RowOf
<1>3. Rows'
  BY <1>1, <1>2 DEF IInv, Rows
<1>4. \A x \in Executions : Len(text[x]) <= Len(text'[x])
  BY <1>1, RowsAreTyped DEF IInv
<1>5. QED BY <1>1, <1>3, <1>4, UnderThePage DEF IInv

-----------------------------------------------------------------------------
(* What the API leaves alone is as it was. *)
LEMMA SameRows ==
  ASSUME Rows, UNCHANGED backend
  PROVE  Rows'
BY DEF Rows, RowOf, backend

(* What a page opens follows nothing, or an execution of the session.      *)
LEMMA FollowStep ==
  ASSUME IInv, UNCHANGED backend, NEW e \in 0..MaxExecutions, Follow(e)
  PROVE  IInv'
<1>1. Rows'
  BY SameRows DEF IInv
<1>2. QED BY <1>1, FreshPage DEF Follow, IInv

(* The last open execution is one. *)
LEMMA LastOpenIs ==
  ASSUME IInv, NEW s
  PROVE  LastOpen(s) \in 0..MaxExecutions
<1> DEFINE open == {e \in 1..created : owner[e] = s /\ row[e] \in Open}
<1>1. created \in Nat /\ created <= MaxExecutions /\ MaxExecutions \in Nat
  BY ConstantsAssumption DEF IInv, Rows
<1>2. CASE open = {}
  BY <1>1, <1>2 DEF LastOpen
<1>3. CASE open # {}
  <2>1. open \subseteq Nat /\ \A x \in open : x <= created
    BY <1>1
  <2>2. Max(open) \in open
    <3> HIDE DEF open
    <3>1. QED BY <1>1, <1>3, <2>1, GreatestExists
  <2>3. Max(open) \in 0..MaxExecutions
    BY <1>1, <2>2
  <2>4. QED BY <1>3, <2>3 DEF LastOpen
<1>4. QED BY <1>2, <1>3

(* Opening a page, with what it asks for or without. *)
LEMMA OpenStep ==
  ASSUME IInv,
         \/ \E s \in Executions : OpenPage(s) \/ OpenBroken(s)
         \/ OpenDetached \/ Retry \/ NewConversation \/ Clear
  PROVE  IInv'
<1>1. 0 \in 0..MaxExecutions /\ active \in 0..MaxExecutions
  BY ConstantsAssumption DEF IInv, Followed
<1>2. ASSUME NEW s \in Executions, OpenPage(s) PROVE IInv'
  BY <1>2, LastOpenIs, FollowStep DEF OpenPage, LoadHistory
<1>3. ASSUME NEW s \in Executions, OpenBroken(s) PROVE IInv'
  <2>1. /\ active' \in {0, active} /\ content' = <<>> /\ place' = "broken"
        /\ UNCHANGED backend
    BY <1>3 DEF OpenBroken
  <2>2. Rows'
    BY <2>1, SameRows DEF IInv
  <2>3. QED BY <1>1, <2>1, <2>2, FreshPage DEF IInv
<1>4. CASE OpenDetached
  <2>1. PICK e \in {0, active} : Follow(e)
    BY <1>4 DEF OpenDetached
  <2>2. e \in 0..MaxExecutions /\ UNCHANGED backend
    BY <1>1, <1>4 DEF OpenDetached
  <2>3. QED BY <2>1, <2>2, FollowStep
<1>5. CASE Retry
  <2>1. Follow(LastOpen(session)) /\ UNCHANGED backend
    BY <1>5 DEF Retry, LoadHistory
  <2>2. LastOpen(session) \in 0..MaxExecutions
    BY LastOpenIs
  <2>3. QED BY <2>1, <2>2, FollowStep
<1>6. CASE NewConversation
  BY <1>1, <1>6, FollowStep DEF NewConversation
<1>7. CASE Clear
  BY <1>1, <1>7, FollowStep DEF Clear, AfterAnswer
<1>8. QED BY <1>2, <1>3, <1>4, <1>5, <1>6, <1>7

(* A question makes an execution, and the page follows it or stays.        *)
LEMMA SubmitStep ==
  ASSUME IInv, Submit
  PROVE  IInv'
<1> DEFINE e == created + 1
<1>1. /\ created < MaxExecutions /\ created' = e /\ \E s : owner' = [owner EXCEPT ![e] = s]
      /\ row' = [row EXCEPT ![e] = "pending"] /\ UNCHANGED <<answer, text, hot, told>>
      /\ Follow(e) \/ UNCHANGED <<active, content, place, covered>>
  BY DEF Submit
<1>2. created \in Nat /\ MaxExecutions \in Nat /\ e \in Executions /\ e \in 0..MaxExecutions
      /\ e \in Nat /\ e > created
  BY <1>1, ConstantsAssumption DEF IInv, Rows, Executions
<1> HIDE DEF e
<1>3. ASSUME NEW x \in Executions PROVE RowOf(x)'
  <2>1. RowOf(x) /\ x \in Nat
    BY DEF IInv, Rows, Executions
  <2>2. CASE x = e
    <3>1. answer[x] = <<>> /\ ~(x > created')
      BY <1>1, <1>2, <2>1, <2>2 DEF RowOf
    <3>2. QED BY <1>1, <2>1, <3>1 DEF RowOf
  <2>3. CASE x # e
    <3>1. row'[x] = row[x] /\ owner'[x] = owner[x] /\ (x > created' => x > created)
      BY <1>1, <1>2, <2>1, <2>3 DEF IInv, Rows
    <3>2. QED BY <1>1, <2>1, <3>1 DEF RowOf
  <2>4. QED BY <2>2, <2>3
<1>4. Rows'
  <2>1. DOMAIN owner' = Executions /\ DOMAIN row' = Executions /\ created' \in 0..MaxExecutions
    BY <1>1, <1>2 DEF IInv, Rows
  <2>2. QED BY <1>1, <1>3, <2>1 DEF IInv, Rows
<1>5. CASE Follow(e)
  BY <1>2, <1>4, <1>5, FreshPage DEF Follow, IInv
<1>6. CASE UNCHANGED <<active, content, place, covered>>
  BY <1>1, <1>4, <1>6 DEF Followed, IInv
<1>7. QED BY <1>1, <1>5, <1>6

-----------------------------------------------------------------------------
(* What the projection, the row and the stream show of an execution may be *)
(* offered to a page.                                                      *)
LEMMA Offers ==
  ASSUME Rows, NEW e \in Executions
  PROVE  /\ Offered(text[e], answer[e], answer[e])
         /\ Offered(text[e], answer[e], Streamed(e))
         /\ Offered(text[e], answer[e], Presented(e))
         /\ hot[e] # None => Offered(text[e], answer[e], HotText(e))
<1>1. /\ Len(text[e]) \in Nat /\ Streamed(e) = Deltas(Len(text[e])) /\ RowOf(e)
      /\ Len(text[e]) \in 0..Len(text[e])
  BY RowsAreTyped DEF Rows
<1>2. Offered(text[e], answer[e], answer[e]) /\ Offered(text[e], answer[e], Streamed(e))
  BY <1>1 DEF Offered
<1>3. ASSUME hot[e] # None PROVE Offered(text[e], answer[e], HotText(e))
  <2>1. CASE told[e] \in Ends /\ answer[e] # <<>>
    BY <1>2, <2>1 DEF HotText
  <2>2. CASE ~(told[e] \in Ends /\ answer[e] # <<>>)
    <3>1. HotText(e) = Deltas(hot[e]) /\ hot[e] \in 0..Len(text[e])
      BY <1>1, <1>3, <2>2 DEF HotText, RowOf
    <3>2. answer[e] # <<>> => hot[e] = Len(text[e])
      BY <1>1, <1>3, <2>2 DEF RowOf
    <3>3. QED BY <3>1, <3>2 DEF Offered
  <2>3. QED BY <2>1, <2>2
<1>4. Offered(text[e], answer[e], Presented(e))
  BY <1>2, <1>3 DEF Presented
<1>5. QED BY <1>2, <1>3, <1>4

(* Whatever is offered, or nothing: what a page then holds is genuine, and *)
(* has its words.                                                          *)
LEMMA Taken ==
  ASSUME NEW t, Len(t) \in Nat, NEW ans, AnswerOf(t, ans), NEW c, Held(t, ans, c),
         NEW d, Offered(t, ans, d) \/ d = <<>>,
         NEW x \in {StateAnswer(c, d), DurableAnswer(c, d)}
  PROVE  Held(t, ans, x) /\ Kept(t, c, x)
<1>1. c \in Seq(Nat) /\ d \in Seq(Nat) /\ (d # <<>> => Held(t, ans, d))
  <2>1. c \in Seq(Nat) /\ <<>> \in Seq(Nat)
    BY HeldType
  <2>2. CASE Offered(t, ans, d)
    BY <2>1, <2>2, HeldType
  <2>3. CASE d = <<>>
    BY <2>1, <2>3
  <2>4. QED BY <2>2, <2>3
<1>2. Kept(t, c, c)
  <2>1. Strip(t, c) \in Seq(Nat)
    BY <1>1, StripType
  <2>2. QED BY <2>1, PrefixOrder DEF Kept
<1>3. CASE x = c
  BY <1>2, <1>3
<1>4. CASE x = d /\ ~IsPrefix(d, c)
  <2>1. d # <<>>
    BY <1>1, <1>4, PrefixOrder
  <2>2. QED BY <1>1, <1>4, <2>1, OfferKeepsWords
<1>5. CASE x = d /\ IsPrefix(d, c) /\ IsPrefix(c, d)
  <2>1. d = c
    BY <1>1, <1>5, PrefixOrder
  <2>2. QED BY <1>3, <1>5, <2>1
<1>6. QED BY <1>3, <1>4, <1>5 DEF StateAnswer, DurableAnswer

(* A page that attaches holds all that was streamed. *)
LEMMA Attached ==
  ASSUME NEW t, Len(t) \in Nat, NEW ans, AnswerOf(t, ans), NEW c, Held(t, ans, c)
  PROVE  StateAnswer(c, Deltas(Len(t))) = Deltas(Len(t))
<1> DEFINE L == Len(t)
<1>1. Deltas(L) \in Seq(Nat) /\ c \in Seq(Nat)
  BY DeltasAre, HeldType
<1> SUFFICES ASSUME IsPrefix(Deltas(L), c) PROVE c = Deltas(L)
  BY DEF StateAnswer
<1>2. CASE \E n \in 0..L : c = Deltas(n)
  <2>1. PICK n \in 0..L : c = Deltas(n)
    BY <1>2
  <2>2. L <= n /\ n <= L /\ n \in Nat
    BY <2>1, DeltasOrder
  <2>3. n = L
    BY <2>2
  <2>4. QED BY <2>1, <2>3
<1>3. CASE c = <<>>
  <2>1. IsPrefix(c, Deltas(L))
    BY <1>1, <1>3, PrefixOrder
  <2>2. QED BY <1>1, <2>1, PrefixOrder
<1>4. CASE c = Strip(t, Deltas(L))
  BY <1>4, StripShortens
<1>5. QED BY <1>2, <1>3, <1>4 DEF Held, AnswerOf

(* What a step keeps of the words on the page. *)
KeepsWords ==
    active' = active /\ active # 0 =>
        \/ Strip(text[active], content) = <<>>
        \/ IsPrefix(Strip(text[active], content), Strip(text[active], content)')
        \/ content' = <<>> /\ place' \in {"connecting", "broken"}

(* A step of the script that keeps what the page holds, or takes what is   *)
(* offered.                                                                *)
LEMMA TakingStep ==
  ASSUME IInv, UNCHANGED <<backend, active>>, active # 0,
         place' \notin {"idle", "tail"},
         \/ content' = content
         \/ \E d : /\ Offered(text[active], answer[active], d) \/ d = <<>>
                   /\ content' \in {StateAnswer(content, d), DurableAnswer(content, d)}
  PROVE  IInv' /\ KeepsWords
<1>1. Rows'
  BY SameRows DEF IInv
<1>2. /\ active \in Executions /\ Len(text[active]) \in Nat
      /\ AnswerOf(text[active], answer[active]) /\ Held(text[active], answer[active], content)
  <2>1. active \in Executions
    BY ExecutionsAre DEF IInv, Followed
  <2>2. QED BY <2>1, RowsAreTyped DEF IInv, Followed
<1>3. Held(text[active], answer[active], content') /\ Kept(text[active], content, content')
  <2>1. CASE content' = content
    <3>1. content \in Seq(Nat)
      BY <1>2, HeldType
    <3>2. Strip(text[active], content) \in Seq(Nat)
      BY <3>1, StripType
    <3>3. Kept(text[active], content, content)
      BY <3>2, PrefixOrder DEF Kept
    <3>4. QED BY <1>2, <2>1, <3>3
  <2>2. CASE \E d : /\ Offered(text[active], answer[active], d) \/ d = <<>>
                    /\ content' \in {StateAnswer(content, d), DurableAnswer(content, d)}
    BY <1>2, <2>2, Taken
  <2>3. QED BY <2>1, <2>2
<1>4. UNCHANGED <<text, answer, active>>
  BY DEF backend
<1>5. Followed'
  BY <1>3, <1>4 DEF IInv, Followed
<1>6. KeepsWords
  BY <1>3, <1>4 DEF KeepsWords, Kept
<1>7. QED BY <1>1, <1>5, <1>6 DEF IInv

(* The steps of the script. *)
LEMMA ScriptStep ==
  ASSUME IInv, Script
  PROVE  IInv' /\ KeepsWords
<1>1. place \notin {"idle", "broken"} => active \in Executions /\ active # 0
  BY ExecutionsAre DEF IInv, Followed
<1>2. CASE ConnectLive
  <2>1. /\ place = "connecting" /\ hot[active] # None /\ UNCHANGED <<backend, active>>
    BY <1>2 DEF ConnectLive, Connecting
  <2>2. CASE told[active] \in Ends
    <3>1. content' = StateAnswer(content, HotText(active)) /\ place' \in {"finishing", "refresh"}
      BY <1>2, <2>2 DEF ConnectLive, SeeState
    <3>2. Offered(text[active], answer[active], HotText(active))
      BY <1>1, <2>1, Offers DEF IInv
    <3>3. QED BY <1>1, <2>1, <3>1, <3>2, TakingStep
  <2>3. CASE told[active] \notin Ends
    <3>1. /\ content' = StateAnswer(content, Streamed(active)) /\ place' = "tail"
          /\ covered' = Len(text[active])
      BY <1>2, <2>3 DEF ConnectLive, SeeState, LiveFrom, Terminal, Ends
    <3>2. /\ active \in Executions /\ active # 0 /\ Len(text[active]) \in Nat
          /\ AnswerOf(text[active], answer[active])
          /\ Held(text[active], answer[active], content)
          /\ Streamed(active) = Deltas(Len(text[active]))
          /\ Offered(text[active], answer[active], Streamed(active))
      BY <1>1, <2>1, RowsAreTyped, Offers DEF IInv, Followed
    <3>3. content' = Deltas(Len(text[active]))
      BY <3>1, <3>2, Attached
    <3>4. Held(text[active], answer[active], content') /\ Kept(text[active], content, content')
      BY <3>1, <3>2, Taken
    <3>5. UNCHANGED <<text, answer>> /\ Rows'
      BY <2>1, SameRows DEF IInv, backend
    <3>6. Len(text[active]) \in 0..Len(text[active])
      BY <3>2
    <3>7. Followed'
      BY <2>1, <3>1, <3>2, <3>3, <3>4, <3>5, <3>6 DEF IInv, Followed
    <3>8. KeepsWords
      BY <2>1, <3>4, <3>5 DEF KeepsWords, Kept
    <3>9. QED BY <3>5, <3>7, <3>8 DEF IInv
  <2>4. QED BY <2>2, <2>3
<1>3. CASE ConnectDurable
  <2>1. /\ place = "connecting" /\ content' = StateAnswer(content, answer[active])
        /\ place' \in {"finishing", "refresh"} /\ UNCHANGED <<backend, active>>
    BY <1>3 DEF ConnectDurable, Connecting, SeeState
  <2>2. QED BY <1>1, <2>1, Offers, TakingStep DEF IInv
<1>4. CASE ConnectStale
  <2>1. /\ place = "connecting" /\ place' \in {"finishing", "refresh"}
        /\ UNCHANGED <<backend, active>>
        /\ \/ hot[active] # None /\ content' = StateAnswer(content, HotText(active))
           \/ content' = StateAnswer(content, <<>>)
    BY <1>4 DEF ConnectStale, Connecting, SeeState
  <2>2. CASE content' = StateAnswer(content, <<>>)
    BY <1>1, <2>1, <2>2, TakingStep
  <2>3. CASE hot[active] # None /\ content' = StateAnswer(content, HotText(active))
    <3>1. Offered(text[active], answer[active], HotText(active))
      BY <1>1, <2>1, <2>3, Offers DEF IInv
    <3>2. QED BY <1>1, <2>1, <2>3, <3>1, TakingStep
  <2>4. QED BY <2>1, <2>2, <2>3
<1>5. CASE NextDelta
  <2>1. /\ place = "tail" /\ place' = "tail" /\ covered < Len(text[active])
        /\ covered' = covered + 1 /\ content' = Append(content, covered')
        /\ UNCHANGED <<backend, active>>
    BY <1>5 DEF NextDelta
  <2>2. /\ active \in Executions /\ Len(text[active]) \in Nat
        /\ covered \in 0..Len(text[active]) /\ content = Deltas(covered)
    BY <1>1, <2>1, RowsAreTyped DEF IInv, Followed
  <2>3. covered \in Nat /\ covered + 1 \in Nat /\ covered <= covered + 1
        /\ covered + 1 \in 0..Len(text[active])
    BY <2>1, <2>2
  <2>4. content' = Deltas(covered + 1)
    BY <2>1, <2>2, <2>3, DeltasOrder
  <2>5. Held(text[active], answer[active], content')
    BY <2>3, <2>4 DEF Held
  <2>6. Kept(text[active], content, content')
    BY <2>2, <2>3, <2>4, StripGrows DEF Kept
  <2>7. UNCHANGED <<text, answer>> /\ Rows'
    BY <2>1, SameRows DEF IInv, backend
  <2>8. Followed'
    BY <1>1, <2>1, <2>3, <2>4, <2>5, <2>7 DEF IInv, Followed
  <2>9. KeepsWords
    BY <2>1, <2>6, <2>7 DEF KeepsWords, Kept
  <2>10. QED BY <2>7, <2>8, <2>9 DEF IInv
<1>6. CASE TheEnd
  <2>1. /\ place = "tail" /\ content' = StateAnswer(content, answer[active])
        /\ place' \in {"finishing", "refresh"} /\ UNCHANGED <<backend, active>>
    BY <1>6 DEF TheEnd, SeeState
  <2>2. QED BY <1>1, <2>1, Offers, TakingStep DEF IInv
<1>7. CASE Refresh
  <2>1. /\ place \in {"caught", "refresh"} /\ UNCHANGED <<backend, active>>
        /\ content' = DurableAnswer(content, Presented(active))
        /\ place' \in {"finishing", "refresh", "connecting"}
    BY <1>7 DEF Refresh, AfterRefresh
  <2>2. QED BY <1>1, <2>1, Offers, TakingStep DEF IInv
<1>8. CASE ConnectFails \/ TailBreaks \/ RefreshFails \/ Finish
  <2>1. /\ place \notin {"idle", "broken"} /\ UNCHANGED <<backend, active, content>>
        /\ place' \in {"caught", "refresh", "connecting", "closing"}
    BY <1>8 DEF ConnectFails, TailBreaks, RefreshFails, Finish, AfterRefresh
  <2>2. QED BY <1>1, <2>1, TakingStep
<1>9. CASE Clear
  <2>1. active' = 0
    BY <1>9 DEF Clear, Follow, AfterAnswer
  <2>2. QED BY <1>9, <2>1, OpenStep DEF KeepsWords
<1>10. QED BY <1>2, <1>3, <1>4, <1>5, <1>6, <1>7, <1>8, <1>9 DEF Script

(* The stop button. *)
LEMMA StopStep ==
  ASSUME IInv, Stop
  PROVE  IInv' /\ KeepsWords
<1>1. /\ place \notin {"idle", "broken"} /\ place' = "connecting"
      /\ content' = content \/ content' = <<>>
      /\ \/ row' = row
         \/ /\ row[active] \in {"pending", "running"}
            /\ row' = [row EXCEPT ![active] = "cancel_requested"]
      /\ UNCHANGED <<created, owner, answer, text, hot, told, active>>
  BY DEF Stop
<1>2. ASSUME NEW x \in Executions PROVE RowOf(x)'
  <2>1. RowOf(x)
    BY DEF IInv, Rows
  <2>2. \/ row'[x] = row[x]
        \/ row'[x] = "cancel_requested" /\ row[x] \in {"pending", "running"}
    BY <1>1 DEF IInv, Rows
  <2>3. {"pending", "running", "cancel_requested"} = Open /\ "absent" \notin Open
    BY DEF Open
  <2>4. QED BY <1>1, <2>1, <2>2, <2>3 DEF RowOf
<1>3. Rows'
  BY <1>1, <1>2 DEF IInv, Rows
<1>4. active # 0 /\ active \in Executions
  BY <1>1, ExecutionsAre DEF IInv, Followed
<1>5. Followed'
  <2>1. CASE content' = content
    BY <1>1, <1>4, <2>1 DEF IInv, Followed
  <2>2. CASE content' = <<>>
    BY <1>1, <1>3, <1>4, <2>2, FreshPage DEF IInv, Followed
  <2>3. QED BY <1>1, <2>1, <2>2
<1>6. KeepsWords
  <2>1. CASE content' = content
    <3>1. /\ Len(text[active]) \in Nat /\ AnswerOf(text[active], answer[active])
          /\ Held(text[active], answer[active], content)
      BY <1>4, RowsAreTyped DEF IInv, Followed
    <3>2. content \in Seq(Nat)
      BY <3>1, HeldType
    <3>3. Strip(text[active], content) \in Seq(Nat)
      BY <3>2, StripType
    <3>4. IsPrefix(Strip(text[active], content), Strip(text[active], content))
      BY <3>3, PrefixOrder
    <3>5. QED BY <1>1, <2>1, <3>4 DEF KeepsWords
  <2>2. CASE content' = <<>>
    BY <1>1, <2>2 DEF KeepsWords
  <2>3. QED BY <1>1, <2>1, <2>2
<1>7. QED BY <1>3, <1>5, <1>6 DEF IInv

(* A page that is opened starts from nothing, or follows something else.   *)
LEMMA OpeningKeepsWords ==
  ASSUME IInv,
         \/ \E s \in Executions : OpenPage(s) \/ OpenBroken(s)
         \/ OpenDetached \/ Retry \/ NewConversation
  PROVE  KeepsWords
<1>1. content' = <<>> /\ (active' # 0 => place' \in {"connecting", "broken"})
  BY DEF OpenPage, OpenBroken, OpenDetached, Retry, NewConversation, LoadHistory, Follow
<1>2. QED BY <1>1 DEF KeepsWords

(* A page that is left alone keeps its words while its execution writes.   *)
LEMMA WritingKeepsWords ==
  ASSUME IInv, IInv', UNCHANGED page,
         \/ UNCHANGED text
         \/ \E e \in Executions : Generate(e)
  PROVE  KeepsWords
<1> SUFFICES ASSUME active # 0
             PROVE  Strip(text[active], content) = <<>>
                      \/ IsPrefix(Strip(text[active], content), Strip(text'[active], content))
  BY DEF KeepsWords, page
<1>1. /\ active \in Executions /\ Len(text[active]) \in Nat
      /\ AnswerOf(text[active], answer[active]) /\ RowOf(active)
      /\ Held(text[active], answer[active], content)
      /\ text[active] \in Seq({"word", "blank"})
  <2>1. active \in Executions
    BY ExecutionsAre DEF IInv, Followed
  <2>2. QED BY <2>1, RowsAreTyped DEF IInv, Followed, Rows
<1>2. Strip(text[active], content) \in Seq(Nat)
  BY <1>1, HeldType, StripType
<1> SUFFICES Strip(text'[active], content) = Strip(text[active], content)
  BY <1>2, PrefixOrder
<1>3. CASE text'[active] = text[active]
  BY <1>3
<1>4. ASSUME NEW e \in Executions, Generate(e), active = e
      PROVE  Strip(text'[active], content) = Strip(text[active], content)
  <2>1. PICK kind \in {"word", "blank"} : text' = [text EXCEPT ![e] = Append(@, kind)]
    BY <1>4 DEF Generate
  <2>2. \A i \in 1..Len(text[active]) : text'[active][i] = text[active][i]
    <3>1. text'[active] = Append(text[active], kind)
      BY <1>1, <1>4, <2>1 DEF IInv, Rows
    <3>2. QED BY <1>1, <3>1, AppendProperties
  <2>3. answer[active] = <<>>
    BY <1>1, <1>4 DEF Generate, RowOf, Open
  <2>4. PICK n \in 0..Len(text[active]) : content = Deltas(n)
    <3>1. 0 \in 0..Len(text[active]) /\ Deltas(0) = <<>>
      BY <1>1, DeltasOrder
    <3>2. QED BY <1>1, <2>3, <3>1 DEF Held
  <2>5. n \in Nat /\ \A i \in 1..n : text[active][i] = text'[active][i]
    BY <1>1, <2>2
  <2>6. QED BY <2>4, <2>5, StripSame
<1>5. QED
  <2>1. CASE UNCHANGED text
    BY <1>3, <2>1
  <2>2. ASSUME NEW e \in Executions, Generate(e)
        PROVE  Strip(text'[active], content) = Strip(text[active], content)
    <3>1. CASE active = e
      BY <1>4, <2>2, <3>1
    <3>2. CASE active # e
      <4>1. text'[active] = text[active]
        BY <1>1, <2>2, <3>2 DEF Generate, IInv, Rows
      <4>2. QED BY <1>3, <4>1
    <3>3. QED BY <3>1, <3>2
  <2>3. QED BY <2>1, <2>2

(* Every step keeps the invariant, and the words on the page. *)
LEMMA NextIInv ==
  ASSUME IInv, [Next]_vars
  PROVE  IInv' /\ KeepsWords
<1>1. CASE Backend
  <2>1. PICK e \in Executions :
          \/ Begin(e) \/ Generate(e) \/ Fold(e) \/ End(e) \/ PublishEnd(e) \/ Expire(e) \/ Delete(e)
    BY <1>1 DEF Backend
  <2>2. IInv'
    BY <2>1, BeginStep, GenerateStep, FoldStep, EndStep, PublishEndStep, ExpireStep, DeleteStep
  <2>3. UNCHANGED page /\ (UNCHANGED text \/ Generate(e))
    BY <2>1 DEF Begin, Generate, Fold, End, PublishEnd, Expire, Delete
  <2>4. QED BY <2>2, <2>3, WritingKeepsWords
<1>2. CASE Stop
  BY <1>2, StopStep
<1>3. CASE Submit
  <2>1. active = 0 => KeepsWords
    BY DEF KeepsWords
  <2>2. place = "idle"
    BY <1>3 DEF Submit
  <2>3. active = 0
    BY <2>2 DEF IInv, Followed
  <2>4. QED BY <1>3, <2>1, <2>3, SubmitStep
<1>4. CASE (\E s \in Executions : OpenPage(s) \/ OpenBroken(s)) \/ OpenDetached \/ Retry \/ NewConversation
  BY <1>4, OpenStep, OpeningKeepsWords
<1>5. CASE Script
  BY <1>5, ScriptStep
<1>6. CASE UNCHANGED vars
  <2>1. UNCHANGED <<backend, page, text>>
    BY <1>6 DEF vars, backend
  <2>2. IInv'
    BY <2>1, SameRows DEF IInv, Followed, page, backend
  <2>3. QED BY <2>1, <2>2, WritingKeepsWords
<1>7. QED BY <1>1, <1>2, <1>3, <1>4, <1>5, <1>6 DEF Next, User

-----------------------------------------------------------------------------
(* The text under an active answer is a start of what the execution        *)
(* streamed, or the stored answer, however often the page attached again.  *)
THEOREM ShownIsGenuine == Spec => []GenuineContent
<1>1. IInv => GenuineContent
  <2> SUFFICES ASSUME IInv, active # 0
               PROVE  IsPrefix(content, Streamed(active)) \/ content = answer[active]
    BY DEF GenuineContent
  <2>1. active \in Executions /\ Held(text[active], answer[active], content)
    BY ExecutionsAre DEF IInv, Followed
  <2>2. Streamed(active) = Deltas(Len(text[active])) /\ Len(text[active]) \in Nat
    BY <2>1, RowsAreTyped DEF IInv
  <2>3. ASSUME NEW n \in 0..Len(text[active]), content = Deltas(n)
        PROVE  IsPrefix(content, Streamed(active))
    <3>1. n \in Nat /\ n <= Len(text[active])
      BY <2>2
    <3>2. QED BY <2>2, <2>3, <3>1, DeltasOrder
  <2>4. QED BY <2>1, <2>3 DEF Held
<1>2. IInv /\ [Next]_vars => IInv'
  BY NextIInv
<1>3. QED BY <1>1, <1>2, InitIInv, PTL DEF Spec

(* No word once shown is taken back by a stale projection, an early row or *)
(* the blanks around the stored answer.                                    *)
THEOREM WordsAreKept == Spec => WordsStay
<1>1. KeepsWords =>
        (active' = active /\ active # 0 =>
          \/ Stripped(active, content) = <<>>
          \/ IsPrefix(Stripped(active, content), Stripped(active, content)')
          \/ content' = <<>> /\ place' \in {"connecting", "broken"})
  <2> SUFFICES ASSUME KeepsWords, active' = active, active # 0
               PROVE  \/ Stripped(active, content) = <<>>
                      \/ IsPrefix(Stripped(active, content), Stripped(active, content)')
                      \/ content' = <<>> /\ place' \in {"connecting", "broken"}
    OBVIOUS
  <2>1. Stripped(active, content) = Strip(text[active], content)
    BY DEF Stripped, Words, Strip, WordsIn
  <2>2. Stripped(active, content)' = Strip(text[active], content)'
    BY DEF Stripped, Words, Strip, WordsIn
  <2>3. QED BY <2>1, <2>2 DEF KeepsWords
<1>2. IInv /\ [Next]_vars => IInv' /\ KeepsWords
  BY NextIInv
<1>3. QED BY <1>1, <1>2, InitIInv, PTL DEF Spec, WordsStay

-----------------------------------------------------------------------------
(* The messages: each is about an execution, and an answer says how its    *)
(* row ended and holds the answer of the row, give or take blanks.         *)
Notes == [of : Executions, kind : {"question"} \cup Ends, content : Seq(Nat)]

IsAnswer(r, t, ans, end, c) ==
    /\ r \in {end, "deleted"}
    /\ Held(t, ans, c)
    /\ end # "failed" /\ ans # <<>> => Strip(t, c) = ans

IsNote(rs, ts, as, m, n) ==
    /\ m \in Notes /\ m.of <= n
    /\ IF m.kind \in Ends THEN IsAnswer(rs[m.of], ts[m.of], as[m.of], m.kind, m.content)
                          ELSE m.content = <<>>

Noted(rs, ts, as, ms, n) ==
    ms \in Seq(Notes) /\ \A i \in 1..Len(ms) : IsNote(rs, ts, as, ms[i], n)

(* The answers to e among the messages. *)
AnswersTo(ms, e) == {n \in DOMAIN ms : ms[n].of = e /\ ms[n].kind \in Ends}

Answered(ms, e, k) == Cardinality(AnswersTo(ms, e)) <= k

(* An execution that is followed up to the closing of its answer is not    *)
(* answered yet, unless a rerun made it so.                                *)
Due(e) == IF e = active /\ place # "closing" THEN 0 ELSE 1

(* A published end is the row's, and an answer about to be appended is the *)
(* answer.                                                                 *)
Ending ==
    /\ \A e \in Executions : told[e] \in Ends => row[e] \in {told[e], "deleted"}
    /\ active <= created
    /\ place = "finishing" =>
          ending \in Ends /\ IsAnswer(row[active], text[active], answer[active], ending, content)

Conversed ==
    /\ Ending
    /\ Noted(row, text, answer, messages, created)
    /\ slips \in Nat
    /\ \A e \in Executions : Answered(messages, e, slips + Due(e))

(* The messages with one more, that is a note itself. *)
LEMMA NotedMore ==
  ASSUME NEW rs, NEW ts, NEW as, NEW ms, NEW n, NEW m,
         Noted(rs, ts, as, ms, n), IsNote(rs, ts, as, m, n)
  PROVE  Noted(rs, ts, as, Append(ms, m), n)
<1>1. /\ ms \in Seq(Notes) /\ m \in Notes /\ Len(ms) \in Nat
      /\ \A i \in 1..Len(ms) : IsNote(rs, ts, as, ms[i], n)
  BY LenProperties DEF Noted, IsNote
<1>2. /\ Append(ms, m) \in Seq(Notes) /\ Len(Append(ms, m)) = Len(ms) + 1
      /\ \A i \in 1..Len(ms) : Append(ms, m)[i] = ms[i]
      /\ Append(ms, m)[Len(ms) + 1] = m
  BY <1>1, AppendProperties
<1>3. \A i \in 1..(Len(ms) + 1) : i \in 1..Len(ms) \/ i = Len(ms) + 1
  BY <1>1
<1>4. ASSUME NEW i \in 1..(Len(ms) + 1) PROVE IsNote(rs, ts, as, Append(ms, m)[i], n)
  BY <1>1, <1>2, <1>3
<1>5. QED BY <1>2, <1>4 DEF Noted

(* The answers are finitely many, and one more message adds at most itself.*)
LEMMA AnsweredMore ==
  ASSUME NEW ms \in Seq(Notes), NEW m \in Notes, NEW e
  PROVE  /\ Cardinality(AnswersTo(ms, e)) \in Nat
         /\ Cardinality(AnswersTo(Append(ms, m), e)) =
              Cardinality(AnswersTo(ms, e)) + (IF m.of = e /\ m.kind \in Ends THEN 1 ELSE 0)
<1> DEFINE A == AnswersTo(ms, e)
           L == Len(ms)
<1>1. L \in Nat /\ DOMAIN ms = 1..L
  BY LenProperties
<1>2. /\ Append(ms, m) \in Seq(Notes) /\ Len(Append(ms, m)) = L + 1
      /\ \A i \in 1..L : Append(ms, m)[i] = ms[i]
      /\ Append(ms, m)[L + 1] = m
  BY AppendProperties
<1>3. DOMAIN Append(ms, m) = 1..(L + 1)
  BY <1>2, LenProperties
<1>4. A \subseteq 1..L /\ L + 1 \notin 1..L /\ 1..(L + 1) = (1..L) \cup {L + 1}
  BY <1>1 DEF AnswersTo
<1>5. IsFiniteSet(A) /\ Cardinality(A) \in Nat
  <2>1. IsFiniteSet(1..L)
    BY <1>1, FS_Interval
  <2>2. IsFiniteSet(A)
    BY <1>4, <2>1, FS_Subset
  <2>3. QED BY <2>2, FS_CardinalityType
<1>6. AnswersTo(Append(ms, m), e) = A \cup (IF m.of = e /\ m.kind \in Ends THEN {L + 1} ELSE {})
  <2> DEFINE N == Append(ms, m)
  <2>1. \A i \in 1..L : i \in AnswersTo(N, e) <=> i \in A
    BY <1>1, <1>2, <1>3, <1>4 DEF AnswersTo
  <2>2. L + 1 \in AnswersTo(N, e) <=> m.of = e /\ m.kind \in Ends
    BY <1>2, <1>3, <1>4 DEF AnswersTo
  <2>3. AnswersTo(N, e) \subseteq (1..L) \cup {L + 1}
    BY <1>3, <1>4 DEF AnswersTo
  <2> HIDE DEF A, L, N
  <2>4. AnswersTo(N, e) = A \cup (IF m.of = e /\ m.kind \in Ends THEN {L + 1} ELSE {})
    BY <1>4, <2>1, <2>2, <2>3
  <2>5. QED BY <2>4 DEF N
<1> HIDE DEF A, L
<1>7. CASE m.of = e /\ m.kind \in Ends
  <2>1. AnswersTo(Append(ms, m), e) = A \cup {L + 1} /\ L + 1 \notin A
    BY <1>4, <1>6, <1>7
  <2>2. Cardinality(A \cup {L + 1}) = Cardinality(A) + 1
    BY <1>5, <2>1, FS_AddElement
  <2>3. QED BY <1>5, <1>7, <2>1, <2>2 DEF A
<1>8. CASE ~(m.of = e /\ m.kind \in Ends)
  <2>1. AnswersTo(Append(ms, m), e) = A
    BY <1>6, <1>8
  <2>2. QED BY <1>5, <1>8, <2>1 DEF A
<1>9. QED BY <1>7, <1>8

(* An empty page. *)
LEMMA NothingNoted ==
  ASSUME NEW rs, NEW ts, NEW as, NEW n, NEW e
  PROVE  Noted(rs, ts, as, <<>>, n) /\ Cardinality(AnswersTo(<<>>, e)) = 0
<1>1. <<>> \in Seq(Notes) /\ Len(<<>>) = 0 /\ DOMAIN <<>> = {}
  BY EmptySeq
<1>2. Noted(rs, ts, as, <<>>, n)
  BY <1>1 DEF Noted
<1>3. AnswersTo(<<>>, e) = {}
  BY <1>1 DEF AnswersTo
<1>4. QED BY <1>2, <1>3, FS_EmptySet

(* A start of a text that starts with all its words has no others.         *)
LEMMA StripOfStart ==
  ASSUME NEW t, NEW m \in Nat, NEW n \in Nat, m <= n
  PROVE  WordsIn(t, Deltas(n)) # {} /\ IsPrefix(Strip(t, Deltas(n)), Deltas(m))
           => Strip(t, Deltas(m)) = Strip(t, Deltas(n))
<1>0. SUFFICES ASSUME WordsIn(t, Deltas(n)) # {}, IsPrefix(Strip(t, Deltas(n)), Deltas(m))
               PROVE  Strip(t, Deltas(m)) = Strip(t, Deltas(n))
  OBVIOUS
<1>1. PICK a, b \in 1..n :
        /\ a <= b /\ t[a] = "word" /\ t[b] = "word"
        /\ \A x \in 1..n : t[x] = "word" => a <= x /\ x <= b
        /\ Strip(t, Deltas(n)) \in Seq(Nat) /\ Len(Strip(t, Deltas(n))) = b - a + 1
        /\ \A i \in 1..(b - a + 1) : Strip(t, Deltas(n))[i] = a + i - 1
  BY <1>0, StripOfDeltas
<1>2. Deltas(m) \in Seq(Nat) /\ Len(Deltas(m)) = m /\ \A i \in 1..m : Deltas(m)[i] = i
  BY DeltasAre
<1>3. /\ Len(Strip(t, Deltas(n))) <= m
      /\ \A i \in 1..Len(Strip(t, Deltas(n))) : Strip(t, Deltas(n))[i] = Deltas(m)[i]
  BY <1>0, <1>1, <1>2, PrefixIff
<1>4. a = 1 /\ b <= m
  <2>1. 1 \in 1..(b - a + 1) /\ 1 \in 1..m
    BY <1>1, <1>3
  <2>2. Strip(t, Deltas(n))[1] = a + 1 - 1 /\ Strip(t, Deltas(n))[1] = 1
    BY <1>1, <1>2, <1>3, <2>1
  <2>3. a = 1
    BY <2>2
  <2>4. QED BY <1>1, <1>3, <2>3
<1>5. WordsIn(t, Deltas(m)) # {}
  <2>1. a \in 1..m /\ DOMAIN Deltas(m) = 1..m /\ Deltas(m)[a] = a
    BY <1>1, <1>2, <1>4, DeltasAre
  <2>2. a \in WordsIn(t, Deltas(m))
    BY <1>1, <2>1 DEF WordsIn
  <2>3. QED BY <2>2
<1>6. PICK c, d \in 1..m :
        /\ c <= d /\ t[c] = "word" /\ t[d] = "word"
        /\ \A x \in 1..m : t[x] = "word" => c <= x /\ x <= d
        /\ Strip(t, Deltas(m)) \in Seq(Nat) /\ Len(Strip(t, Deltas(m))) = d - c + 1
        /\ \A i \in 1..(d - c + 1) : Strip(t, Deltas(m))[i] = c + i - 1
  BY <1>5, StripOfDeltas
<1>7. c = a /\ d = b
  <2>1. c \in 1..n /\ d \in 1..n /\ a \in 1..m /\ b \in 1..m
    BY <1>1, <1>4
  <2>2. a <= c /\ d <= b /\ c <= a /\ b <= d
    BY <1>1, <1>6, <2>1
  <2>3. QED BY <2>1, <2>2
<1>8. /\ Len(Strip(t, Deltas(m))) = Len(Strip(t, Deltas(n)))
      /\ \A i \in 1..Len(Strip(t, Deltas(m))) : Strip(t, Deltas(m))[i] = Strip(t, Deltas(n))[i]
  BY <1>1, <1>6, <1>7
<1>9. QED BY <1>1, <1>6, <1>8, SeqEqual

(* What holds a stored answer within it strips to the answer. *)
LEMMA AnswerWithin ==
  ASSUME NEW t, Len(t) \in Nat, NEW ans, AnswerOf(t, ans), ans # <<>>,
         NEW c, Held(t, ans, c), c = ans \/ IsPrefix(ans, c)
  PROVE  Strip(t, c) = ans
<1>1. ans = Strip(t, Deltas(Len(t)))
  BY DEF AnswerOf
<1>2. CASE c = ans
  BY <1>1, <1>2, StripTwice
<1>3. CASE c # ans
  <2>1. PICK m \in 0..Len(t) : c = Deltas(m)
    BY <1>3 DEF Held
  <2>2. m \in Nat /\ m <= Len(t) /\ IsPrefix(ans, Deltas(m))
    BY <1>3, <2>1
  <2>3. WordsIn(t, Deltas(Len(t))) # {}
    BY <1>1 DEF Strip
  <2>4. QED BY <1>1, <2>1, <2>2, <2>3, StripOfStart
<1>4. QED BY <1>2, <1>3

(* A page that takes the answer of a row holds it. *)
LEMMA AnswerTaken ==
  ASSUME NEW t, Len(t) \in Nat, NEW ans, AnswerOf(t, ans), ans # <<>>, NEW c, Held(t, ans, c),
         NEW x \in {StateAnswer(c, ans), DurableAnswer(c, ans)}
  PROVE  Strip(t, x) = ans
<1>1. c \in Seq(Nat) /\ ans \in Seq(Nat) /\ Held(t, ans, ans)
  BY HeldType DEF AnswerOf, Held
<1>2. CASE x = ans
  BY <1>1, <1>2, AnswerWithin
<1>3. CASE x = c /\ IsPrefix(ans, c)
  BY <1>3, AnswerWithin
<1>4. QED BY <1>2, <1>3 DEF StateAnswer, DurableAnswer

-----------------------------------------------------------------------------
(* The history of a conversation, as _load_history builds it. *)
Tells(ms, n) ==
    /\ Noted(row, text, answer, ms, n)
    /\ \A e \in Executions : Answered(ms, e, IF e <= n /\ row[e] \notin Open THEN 1 ELSE 0)

(* A turn is a question, or a question and its answer. *)
LEMMA TurnIs ==
  ASSUME IInv, NEW n \in 1..created
  PROVE  /\ n \in Executions
         /\ Question(n) \in Notes /\ Question(n).of = n /\ Question(n).kind = "question"
         /\ Question(n).content = <<>>
         /\ row[n] \in Ends =>
              /\ Reply(n, row[n], answer[n]) \in Notes
              /\ Reply(n, row[n], answer[n]).of = n
              /\ Reply(n, row[n], answer[n]).kind = row[n]
              /\ IsAnswer(row[n], text[n], answer[n], row[n], Reply(n, row[n], answer[n]).content)
         /\ Turn(n) \in Seq(Notes)
<1>1. n \in Executions
  BY ConstantsAssumption DEF IInv, Rows, Executions
<1>2. answer[n] \in Seq(Nat) /\ <<>> \in Seq(Nat) /\ AnswerOf(text[n], answer[n]) /\ Len(text[n]) \in Nat
  BY <1>1, RowsAreTyped DEF IInv
<1>3. /\ Question(n) \in Notes /\ Question(n).of = n /\ Question(n).kind = "question"
      /\ Question(n).content = <<>>
  BY <1>1, <1>2 DEF Question, Notes
<1>4. ASSUME row[n] \in Ends
      PROVE  /\ Reply(n, row[n], answer[n]) \in Notes
             /\ Reply(n, row[n], answer[n]).of = n
             /\ Reply(n, row[n], answer[n]).kind = row[n]
             /\ IsAnswer(row[n], text[n], answer[n], row[n], Reply(n, row[n], answer[n]).content)
  <2> DEFINE c == IF row[n] = "failed" THEN <<>> ELSE answer[n]
  <2>1. c \in Seq(Nat) /\ Reply(n, row[n], answer[n]) = [of |-> n, kind |-> row[n], content |-> c]
    BY <1>2 DEF Reply
  <2>2. Held(text[n], answer[n], c)
    <3>1. Deltas(0) = <<>> /\ 0 \in 0..Len(text[n])
      BY <1>2, DeltasOrder
    <3>2. QED BY <3>1 DEF Held
  <2>3. row[n] # "failed" /\ answer[n] # <<>> => Strip(text[n], c) = answer[n]
    <3>1. Held(text[n], answer[n], answer[n])
      BY DEF Held
    <3>2. QED BY <1>2, <3>1, AnswerWithin
  <2> HIDE DEF c
  <2>4. QED BY <1>1, <1>4, <2>1, <2>2, <2>3 DEF Notes, IsAnswer
<1>5. Turn(n) \in Seq(Notes)
  <2>1. <<Question(n)>> \in Seq(Notes) /\ <<>> \in Seq(Notes)
    BY <1>3
  <2>2. row[n] \in Ends => <<Reply(n, row[n], answer[n])>> \in Seq(Notes)
    BY <1>4
  <2>3. (IF row[n] \in Ends THEN <<Reply(n, row[n], answer[n])>> ELSE <<>>) \in Seq(Notes)
    BY <2>1, <2>2
  <2>4. QED BY <2>1, <2>3, ConcatProperties DEF Turn
<1>6. QED BY <1>1, <1>3, <1>4, <1>5

(* One more element at the end. *)
LEMMA ConcatOne ==
  ASSUME NEW S, NEW s \in Seq(S), NEW x \in S
  PROVE  s \o <<x>> = Append(s, x)
<1>1. <<x>> \in Seq(S) /\ Len(<<x>>) = 1 /\ <<x>>[1] = x /\ Len(s) \in Nat
  OBVIOUS
<1>2. /\ s \o <<x>> \in Seq(S) /\ Len(s \o <<x>>) = Len(s) + 1
      /\ \A i \in 1..(Len(s) + 1) : (s \o <<x>>)[i] = IF i <= Len(s) THEN s[i] ELSE <<x>>[i - Len(s)]
  BY <1>1, ConcatProperties
<1>3. /\ Append(s, x) \in Seq(S) /\ Len(Append(s, x)) = Len(s) + 1
      /\ \A i \in 1..Len(s) : Append(s, x)[i] = s[i]
      /\ Append(s, x)[Len(s) + 1] = x
  BY AppendProperties
<1>4. ASSUME NEW i \in 1..(Len(s) + 1) PROVE (s \o <<x>>)[i] = Append(s, x)[i]
  <2>1. CASE i \in 1..Len(s)
    BY <1>2, <1>3, <2>1
  <2>2. CASE i = Len(s) + 1
    <3>1. ~(i <= Len(s)) /\ i - Len(s) = 1
      BY <1>1, <2>2
    <3>2. QED BY <1>1, <1>2, <1>3, <2>2, <3>1
  <2>3. QED BY <1>1, <2>1, <2>2
<1>5. QED BY <1>2, <1>3, <1>4, SeqEqual

(* One execution more is told. *)
LEMMA TurnStep ==
  ASSUME IInv, NEW s, NEW n \in 1..created, NEW ms, Tells(ms, n - 1)
  PROVE  Tells(ms \o IF Listed(n, s) THEN Turn(n) ELSE <<>>, n)
<1> DEFINE q == Question(n)
           r == Reply(n, row[n], answer[n])
<1>1. /\ n \in Executions /\ n \in Nat /\ Executions \subseteq Nat
      /\ q \in Notes /\ q.of = n /\ q.kind = "question" /\ q.content = <<>>
      /\ row[n] \in Ends =>
           /\ r \in Notes /\ r.of = n /\ r.kind = row[n]
           /\ IsAnswer(row[n], text[n], answer[n], row[n], r.content)
  BY TurnIs DEF Executions
<1> HIDE DEF q, r
<1>2. ms \in Seq(Notes) /\ Noted(row, text, answer, ms, n)
  <2>1. ms \in Seq(Notes) /\ \A i \in 1..Len(ms) : IsNote(row, text, answer, ms[i], n - 1)
    BY DEF Tells, Noted
  <2>2. ASSUME NEW i \in 1..Len(ms) PROVE IsNote(row, text, answer, ms[i], n)
    <3>1. ms[i].of \in Executions /\ ms[i].of <= n - 1
      BY <2>1 DEF IsNote, Notes
    <3>2. \A k \in Nat : k <= n - 1 => k <= n
      BY <1>1
    <3>3. ms[i].of <= n
      BY <1>1, <3>1, <3>2
    <3>4. QED BY <2>1, <3>3 DEF IsNote
  <2>3. QED BY <2>1, <2>2 DEF Noted
<1>3. \A e \in Executions : Cardinality(AnswersTo(ms, e)) <= IF e <= n - 1 /\ row[e] \notin Open THEN 1 ELSE 0
  BY DEF Tells, Answered
<1>4. \A e \in Executions : Cardinality(AnswersTo(ms, e)) \in Nat
  BY <1>1, <1>2, AnsweredMore
<1>5. /\ Noted(row, text, answer, Append(ms, q), n) /\ Append(ms, q) \in Seq(Notes)
      /\ \A e \in Executions : Cardinality(AnswersTo(Append(ms, q), e)) = Cardinality(AnswersTo(ms, e))
  <2>1. "question" \notin Ends
    BY DEF Ends
  <2>2. IsNote(row, text, answer, q, n)
    BY <1>1, <2>1 DEF IsNote
  <2>3. Noted(row, text, answer, Append(ms, q), n)
    BY <1>2, <2>2, NotedMore
  <2>4. \A e \in Executions : Cardinality(AnswersTo(Append(ms, q), e)) = Cardinality(AnswersTo(ms, e)) + 0
    BY <1>1, <1>2, <2>1, AnsweredMore
  <2>5. QED BY <1>4, <2>3, <2>4 DEF Noted
<1>6. ASSUME NEW e \in Executions
      PROVE  /\ (e <= n - 1 /\ row[e] \notin Open) => (e <= n /\ row[e] \notin Open)
             /\ e = n => ~(e <= n - 1)
  BY <1>1
<1>7. CASE ~Listed(n, s)
  <2>1. ms \o <<>> = ms
    BY <1>2, ConcatEmptySeq
  <2>2. \A e \in Executions : Answered(ms, e, IF e <= n /\ row[e] \notin Open THEN 1 ELSE 0)
    BY <1>3, <1>4, <1>6 DEF Answered
  <2>3. QED BY <1>2, <1>7, <2>1, <2>2 DEF Tells
<1>8. CASE Listed(n, s) /\ row[n] \notin Ends
  <2>1. Turn(n) = <<q>>
    <3>1. <<q>> \o <<>> = <<q>>
      BY <1>1, ConcatEmptySeq
    <3>2. QED BY <1>8, <3>1 DEF Turn, q
  <2>2. ms \o <<q>> = Append(ms, q)
    BY <1>1, <1>2, ConcatOne
  <2>3. \A e \in Executions : Answered(Append(ms, q), e, IF e <= n /\ row[e] \notin Open THEN 1 ELSE 0)
    BY <1>3, <1>4, <1>5, <1>6 DEF Answered
  <2>4. QED BY <1>5, <1>8, <2>1, <2>2, <2>3 DEF Tells
<1>9. CASE Listed(n, s) /\ row[n] \in Ends
  <2>1. ms \o Turn(n) = Append(Append(ms, q), r)
    <3>1. Turn(n) = <<q>> \o <<r>> /\ <<q>> \in Seq(Notes) /\ <<r>> \in Seq(Notes)
      BY <1>1, <1>9 DEF Turn, q, r
    <3>2. ms \o (<<q>> \o <<r>>) = (ms \o <<q>>) \o <<r>>
      BY <1>2, <3>1, ConcatAssociative
    <3>3. ms \o <<q>> = Append(ms, q) /\ Append(ms, q) \o <<r>> = Append(Append(ms, q), r)
      BY <1>1, <1>2, <1>5, <1>9, ConcatOne
    <3>4. QED BY <3>1, <3>2, <3>3
  <2>2. Noted(row, text, answer, Append(Append(ms, q), r), n)
    <3>1. IsNote(row, text, answer, r, n)
      BY <1>1, <1>9 DEF IsNote
    <3>2. QED BY <1>5, <3>1, NotedMore
  <2>3. \A e \in Executions : Cardinality(AnswersTo(Append(Append(ms, q), r), e)) =
            Cardinality(AnswersTo(ms, e)) + (IF e = n THEN 1 ELSE 0)
    <3>1. ASSUME NEW e \in Executions
          PROVE  Cardinality(AnswersTo(Append(Append(ms, q), r), e)) =
                   Cardinality(AnswersTo(Append(ms, q), e)) + (IF r.of = e /\ r.kind \in Ends THEN 1 ELSE 0)
      BY <1>1, <1>5, <1>9, AnsweredMore
    <3>2. \A e \in Executions : (r.of = e /\ r.kind \in Ends) <=> e = n
      BY <1>1, <1>9
    <3>3. QED BY <1>5, <3>1, <3>2
  <2>4. row[n] \notin Open /\ n <= n
    BY <1>1, <1>9 DEF Open, Ends
  <2>5. \A e \in Executions :
          Answered(Append(Append(ms, q), r), e, IF e <= n /\ row[e] \notin Open THEN 1 ELSE 0)
    BY <1>3, <1>4, <1>6, <2>3, <2>4 DEF Answered
  <2>6. QED BY <1>9, <2>1, <2>2, <2>5 DEF Tells
<1>10. QED BY <1>7, <1>8, <1>9

(* The history of a conversation has each of its questions and the answer  *)
(* of each that has ended, once.                                           *)
LEMMA HistoryTells ==
  ASSUME IInv, NEW s
  PROVE  Tells(History(s), created)
<1> DEFINE X == Seq(Notes)
           W(n) == IF Listed(n, s) THEN Turn(n) ELSE <<>>
           Step(f) == [n \in 0..created |-> IF n = 0 THEN <<>> ELSE f[n - 1] \o W(n)]
           said == CHOOSE f : f = Step(f)
           step == [n \in 1..created |-> [x \in X |-> x \o W(n)]]
<1>1. created \in Nat /\ Executions \subseteq Nat
  BY ConstantsAssumption DEF IInv, Rows, Executions
<1>2. History(s) = said[created]
  BY DEF History
<1>3. \A n \in 1..created : W(n) \in X
  BY TurnIs, EmptySeq
<1>4. \E f : f = Step(f)
  <2>1. step \in [1..created -> [X -> X]] /\ <<>> \in X
    <3>1. \A n \in 1..created, x \in X : x \o W(n) \in X
      BY <1>3, ConcatProperties
    <3> HIDE DEF W, X
    <3>2. <<>> \in X
      BY DEF X
    <3>3. QED BY <3>1, <3>2
  <2>2. PICK f : f \in Runs(created, X, <<>>, step)
    <3> HIDE DEF step, X
    <3>1. QED BY <1>1, <2>1, LoopHasRun
  <2>3. /\ f \in [0..created -> X] /\ f[0] = <<>>
        /\ \A n \in 1..created : f[n] = step[n][f[n - 1]]
    BY <2>2 DEF Runs
  <2>4. \A n \in 1..created : n \in 0..created /\ n - 1 \in 0..created /\ n # 0
    BY <1>1
  <2> HIDE DEF W, X
  <2>5. \A n \in 1..created : f[n] = f[n - 1] \o W(n)
    BY <2>3, <2>4
  <2>6. \A n \in 0..created : n # 0 => n \in 1..created
    BY <1>1
  <2>7. f = Step(f)
    BY <2>3, <2>5, <2>6
  <2>8. QED BY <2>7
<1>5. said = Step(said)
  BY <1>4
<1> DEFINE S == {n \in 0..created : Tells(said[n], n)}
<1> HIDE DEF said
<1>6. said[0] = <<>> /\ \A n \in 1..created : n \in 0..created /\ said[n] = said[n - 1] \o W(n)
  <2>1. \A n \in 1..created : n \in 0..created /\ n # 0
    BY <1>1
  <2>2. 0 \in 0..created
    BY <1>1
  <2> HIDE DEF W
  <2>3. QED BY <1>5, <2>1, <2>2
<1>7. 0 \in S
  <2>1. Noted(row, text, answer, <<>>, 0)
    BY NothingNoted
  <2>2. \A e \in Executions : Cardinality(AnswersTo(<<>>, e)) = 0
    BY NothingNoted
  <2>3. Tells(<<>>, 0)
    BY <2>1, <2>2 DEF Tells, Answered
  <2>4. QED BY <1>1, <1>6, <2>3
<1>8. ASSUME NEW n \in 1..created, n - 1 \in S PROVE n \in S
  <2>1. Tells(said[n - 1], n - 1)
    BY <1>8
  <2>2. Tells(said[n - 1] \o W(n), n)
    BY <2>1, TurnStep
  <2> HIDE DEF W
  <2>3. QED BY <1>6, <2>2
<1> HIDE DEF S
<1>9. created \in S
  <2>1. 0..created \subseteq S
    BY <1>1, <1>7, <1>8, LoopKeeps
  <2>2. QED BY <1>1, <2>1
<1>10. QED BY <1>2, <1>9 DEF S

-----------------------------------------------------------------------------
(* A row that has ended stays as it ended, or is deleted. *)
Steady(rs, ts, as) ==
    \A e \in Executions : row[e] \in Ends \cup {"deleted"} =>
        rs[e] \in {row[e], "deleted"} /\ ts[e] = text[e] /\ as[e] = answer[e]

(* An answer of such a row stays its answer. *)
LEMMA NoteStays ==
  ASSUME NEW rs, NEW ts, NEW as, Steady(rs, ts, as), NEW m, NEW n \in Nat, NEW k \in Nat, n <= k,
         IsNote(row, text, answer, m, n)
  PROVE  IsNote(rs, ts, as, m, k)
<1>1. m \in Notes /\ m.of \in Executions /\ m.of <= n
  BY DEF IsNote, Notes
<1>2. \A i \in Nat : i <= n => i <= k
  OBVIOUS
<1>3. m.of <= k
  BY <1>1, <1>2 DEF Executions
<1>4. ASSUME m.kind \in Ends
      PROVE  IsAnswer(rs[m.of], ts[m.of], as[m.of], m.kind, m.content)
  <2>1. IsAnswer(row[m.of], text[m.of], answer[m.of], m.kind, m.content)
    BY <1>4 DEF IsNote
  <2>2. row[m.of] \in Ends \cup {"deleted"}
    BY <1>4, <2>1 DEF IsAnswer
  <2>3. rs[m.of] \in {row[m.of], "deleted"} /\ ts[m.of] = text[m.of] /\ as[m.of] = answer[m.of]
    BY <1>1, <2>2 DEF Steady
  <2>4. QED BY <2>1, <2>3 DEF IsAnswer
<1>5. QED BY <1>1, <1>3, <1>4 DEF IsNote

(* So do all messages. *)
LEMMA NotesStay ==
  ASSUME NEW rs, NEW ts, NEW as, Steady(rs, ts, as), NEW ms, NEW n \in Nat, NEW k \in Nat, n <= k,
         Noted(row, text, answer, ms, n)
  PROVE  Noted(rs, ts, as, ms, k)
BY NoteStays DEF Noted

(* The numbers in the invariant. *)
LEMMA Numbers ==
  ASSUME IInv, Conversed
  PROVE  /\ created \in Nat /\ active \in Nat /\ slips \in Nat /\ Executions \subseteq Nat
         /\ messages \in Seq(Notes)
         /\ \A e \in Executions :
              /\ Cardinality(AnswersTo(messages, e)) \in Nat
              /\ Cardinality(AnswersTo(messages, e)) <= slips + Due(e)
         /\ place \notin {"idle", "broken"} => active \in Executions
<1>1. created \in Nat /\ active \in Nat /\ slips \in Nat /\ Executions \subseteq Nat
  BY ConstantsAssumption DEF IInv, Rows, Followed, Conversed, Executions
<1>2. messages \in Seq(Notes)
  BY DEF Conversed, Noted
<1>3. \A m \in Notes : m.of \in Executions
  BY DEF Notes
<1>4. ASSUME NEW e \in Executions PROVE Cardinality(AnswersTo(messages, e)) \in Nat
  <2>1. Question(e) \in Notes
    <3>1. <<>> \in Seq(Nat)
      OBVIOUS
    <3>2. QED BY <3>1 DEF Question, Notes
  <2>2. QED BY <1>2, <2>1, AnsweredMore
<1>5. place \notin {"idle", "broken"} => active \in Executions
  BY ExecutionsAre DEF IInv, Followed
<1>6. QED BY <1>1, <1>2, <1>4, <1>5 DEF Conversed, Answered

(* What runs behind the API leaves the conversation as it was said. *)
LEMMA UnderTheConversation ==
  ASSUME IInv, Conversed, UNCHANGED page, created' = created, Steady(row', text', answer'),
         \A e \in Executions : told'[e] \in Ends => row'[e] \in {told'[e], "deleted"}
  PROVE  Conversed'
<1>1. UNCHANGED <<messages, active, place, content, ending, slips>>
  BY DEF page
<1>2. Noted(row', text', answer', messages, created)
  BY Numbers, NotesStay DEF Conversed
<1>3. ASSUME place = "finishing"
      PROVE  IsAnswer(row'[active], text'[active], answer'[active], ending, content)
  <2>1. /\ active \in Executions /\ ending \in Ends
        /\ IsAnswer(row[active], text[active], answer[active], ending, content)
    BY <1>3, Numbers DEF Conversed, Ending
  <2>2. row[active] \in Ends \cup {"deleted"}
    BY <2>1 DEF IsAnswer
  <2>3. /\ row'[active] \in {row[active], "deleted"}
        /\ text'[active] = text[active] /\ answer'[active] = answer[active]
    BY <2>1, <2>2 DEF Steady
  <2>4. QED BY <2>1, <2>3 DEF IsAnswer
<1>4. Ending'
  BY <1>1, <1>3 DEF Conversed, Ending
<1>5. QED BY <1>1, <1>2, <1>4 DEF Conversed, Due, Answered, AnswersTo

(* The steps behind the API. *)
LEMMA BackendConverses ==
  ASSUME IInv, Conversed, Backend
  PROVE  Conversed'
<1>1. PICK e \in Executions :
        \/ Begin(e) \/ Generate(e) \/ Fold(e) \/ End(e) \/ PublishEnd(e) \/ Expire(e) \/ Delete(e)
  BY DEF Backend
<1>2. /\ DOMAIN row = Executions /\ DOMAIN answer = Executions /\ DOMAIN text = Executions
      /\ DOMAIN told = Executions
      /\ \A x \in Executions : told[x] \in Ends => row[x] \in {told[x], "deleted"}
  BY DEF IInv, Rows, Conversed, Ending
<1> DEFINE Holds == \A x \in Executions : told'[x] \in Ends => row'[x] \in {told'[x], "deleted"}
<1>3. CASE Begin(e)
  <2>1. row[e] = "pending" /\ row' = [row EXCEPT ![e] = "running"] /\ UNCHANGED <<created, answer, text, told, page>>
    BY <1>3 DEF Begin
  <2>2. Steady(row', text', answer') /\ Holds
    BY <1>2, <2>1 DEF Steady, Ends
  <2>3. QED BY <2>1, <2>2, UnderTheConversation
<1>4. CASE Generate(e)
  <2>1. /\ row[e] \in {"running", "cancel_requested"}
        /\ \E kind \in {"word", "blank"} : text' = [text EXCEPT ![e] = Append(@, kind)]
        /\ UNCHANGED <<created, row, answer, told, page>>
    BY <1>4 DEF Generate
  <2>2. \A x \in Executions : x # e => text'[x] = text[x]
    BY <1>2, <2>1
  <2>3. Steady(row', text', answer') /\ Holds
    BY <1>2, <2>1, <2>2 DEF Steady, Ends
  <2>4. QED BY <2>1, <2>3, UnderTheConversation
<1>5. CASE Fold(e) \/ Expire(e)
  <2>1. UNCHANGED <<created, row, answer, text, told, page>>
    BY <1>5 DEF Fold, Expire
  <2>2. Steady(row', text', answer') /\ Holds
    BY <1>2, <2>1 DEF Steady
  <2>3. QED BY <2>1, <2>2, UnderTheConversation
<1>6. CASE End(e)
  <2>1. /\ row[e] \in {"running", "cancel_requested"}
        /\ \E s \in Ends : row' = [row EXCEPT ![e] = s]
        /\ answer' = answer \/ \E w : answer' = [answer EXCEPT ![e] = w]
        /\ UNCHANGED <<created, text, told, page>>
    BY <1>6 DEF End, Ends
  <2>2. \A x \in Executions : x # e => row'[x] = row[x] /\ answer'[x] = answer[x]
    BY <1>2, <2>1
  <2>3. row[e] \notin Ends \cup {"deleted"} /\ told[e] \notin Ends
    BY <1>2, <2>1 DEF Ends
  <2>4. Steady(row', text', answer') /\ Holds
    BY <1>2, <2>1, <2>2, <2>3 DEF Steady
  <2>5. QED BY <2>1, <2>4, UnderTheConversation
<1>7. CASE PublishEnd(e)
  <2>1. /\ row[e] \in Ends /\ UNCHANGED <<created, row, answer, text, page>>
        /\ told' \in {[told EXCEPT ![e] = row[e]], [told EXCEPT ![e] = "lost"]}
    BY <1>7 DEF PublishEnd
  <2>2. \A x \in Executions : told'[x] = told[x] \/ told'[x] = row[x] \/ told'[x] = "lost"
    BY <1>2, <2>1
  <2>3. "lost" \notin Ends
    BY DEF Ends
  <2>4. Steady(row', text', answer') /\ Holds
    BY <1>2, <2>1, <2>2, <2>3 DEF Steady
  <2>5. QED BY <2>1, <2>4, UnderTheConversation
<1>8. CASE Delete(e)
  <2>1. /\ row' = [x \in Executions |-> IF owner[x] = e THEN "deleted" ELSE row[x]]
        /\ UNCHANGED <<created, answer, text, told, page>>
    BY <1>8 DEF Delete
  <2>2. Steady(row', text', answer') /\ Holds
    BY <1>2, <2>1 DEF Steady
  <2>3. QED BY <2>1, <2>2, UnderTheConversation
<1>9. QED BY <1>1, <1>3, <1>4, <1>5, <1>6, <1>7, <1>8

-----------------------------------------------------------------------------
(* A page that is opened without its history says nothing. *)
LEMMA OpenEmpty ==
  ASSUME IInv, Conversed, OpenDetached \/ NewConversation \/ \E s \in Executions : OpenBroken(s)
  PROVE  Conversed'
<1>1. /\ messages' = <<>> /\ active' \in {0, active} /\ place' # "finishing"
      /\ UNCHANGED <<created, row, text, answer, told, slips>>
  <2>1. CASE OpenDetached
    BY <2>1 DEF OpenDetached, Follow, backend
  <2>2. CASE NewConversation
    BY <2>2 DEF NewConversation, Follow, backend
  <2>3. ASSUME NEW s \in Executions, OpenBroken(s)
        PROVE  /\ messages' = <<>> /\ active' \in {0, active} /\ place' # "finishing"
               /\ UNCHANGED <<created, row, text, answer, told, slips>>
    BY <2>3 DEF OpenBroken, backend
  <2>4. QED BY <2>1, <2>2, <2>3
<1>2. created \in Nat /\ active \in Nat /\ slips \in Nat
  BY Numbers
<1>3. Ending'
  <2>1. active' <= created'
    BY <1>1, <1>2 DEF Conversed, Ending
  <2>2. QED BY <1>1, <2>1 DEF Conversed, Ending
<1>4. Noted(row', text', answer', messages', created')
  BY <1>1, NothingNoted
<1>5. ASSUME NEW e \in Executions PROVE Answered(messages, e, slips + Due(e))'
  <2>1. Cardinality(AnswersTo(<<>>, e)) = 0
    BY NothingNoted
  <2>2. Due(e)' \in {0, 1}
    BY DEF Due
  <2>3. 0 <= slips' + Due(e)'
    BY <1>1, <1>2, <2>2
  <2>4. Cardinality(AnswersTo(messages, e)') = 0
    BY <1>1, <2>1 DEF AnswersTo
  <2>5. QED BY <2>3, <2>4 DEF Answered
<1>6. QED BY <1>1, <1>2, <1>3, <1>4, <1>5 DEF Conversed

(* The last open execution is open. *)
LEMMA LastOpenIsOpen ==
  ASSUME IInv, NEW s
  PROVE  LastOpen(s) = 0 \/ (LastOpen(s) \in 1..created /\ row[LastOpen(s)] \in Open)
<1> DEFINE open == {e \in 1..created : owner[e] = s /\ row[e] \in Open}
<1>1. created \in Nat
  BY ConstantsAssumption DEF IInv, Rows
<1>2. CASE open = {}
  BY <1>2 DEF LastOpen
<1>3. CASE open # {}
  <2>1. open \subseteq Nat /\ \A x \in open : x <= created
    BY <1>1
  <2>2. Max(open) \in open
    <3> HIDE DEF open
    <3>1. QED BY <1>1, <1>3, <2>1, GreatestExists
  <2>3. QED BY <1>3, <2>2 DEF LastOpen
<1>4. QED BY <1>2, <1>3

(* A page that is opened with its history tells it. *)
LEMMA OpenWithHistory ==
  ASSUME IInv, Conversed, NEW s, LoadHistory(s), UNCHANGED <<backend, slips>>
  PROVE  Conversed'
<1>1. /\ messages' = History(s) /\ active' = LastOpen(s) /\ place' # "finishing"
      /\ UNCHANGED <<created, row, text, answer, told, slips>>
  BY DEF LoadHistory, Follow, backend
<1>2. created \in Nat /\ slips \in Nat
  BY Numbers
<1>3. active' = 0 \/ (active' \in 1..created /\ row[active'] \in Open)
  BY <1>1, LastOpenIsOpen
<1>4. Ending'
  <2>1. active' <= created'
    BY <1>1, <1>2, <1>3
  <2>2. QED BY <1>1, <2>1 DEF Conversed, Ending
<1>5. /\ Noted(row, text, answer, messages', created)
      /\ \A e \in Executions :
           Cardinality(AnswersTo(messages', e)) <= IF e <= created /\ row[e] \notin Open THEN 1 ELSE 0
  <2>1. Tells(History(s), created)
    BY HistoryTells
  <2>2. QED BY <1>1, <2>1 DEF Tells, Answered
<1>6. ASSUME NEW e \in Executions PROVE Answered(messages, e, slips + Due(e))'
  <2>1. Cardinality(AnswersTo(messages', e)) \in Nat
    <3>1. Question(e) \in Notes
      <4>1. <<>> \in Seq(Nat)
        OBVIOUS
      <4>2. QED BY <4>1 DEF Question, Notes
    <3>2. messages' \in Seq(Notes)
      BY <1>5 DEF Noted
    <3>3. QED BY <3>1, <3>2, AnsweredMore
  <2>2. CASE e = active'
    <3>1. e # 0 /\ row[e] \in Open
      BY <1>3, <2>2, ExecutionsAre
    <3>2. Cardinality(AnswersTo(messages', e)) <= 0
      BY <1>5, <3>1
    <3>3. Due(e)' \in {0, 1}
      BY DEF Due
    <3>4. Cardinality(AnswersTo(messages', e)) <= slips' + Due(e)'
      BY <1>1, <1>2, <2>1, <3>2, <3>3
    <3>5. QED BY <3>4 DEF Answered, AnswersTo
  <2>3. CASE e # active'
    <3>1. Due(e)' = 1
      BY <2>3 DEF Due
    <3>2. Cardinality(AnswersTo(messages', e)) <= 1
      BY <1>5, <2>1
    <3>3. Cardinality(AnswersTo(messages', e)) <= slips' + Due(e)'
      BY <1>1, <1>2, <2>1, <3>1, <3>2
    <3>4. QED BY <3>3 DEF Answered, AnswersTo
  <2>4. QED BY <2>2, <2>3
<1>7. Noted(row', text', answer', messages', created')
  BY <1>1, <1>5
<1>8. QED BY <1>1, <1>2, <1>4, <1>6, <1>7 DEF Conversed

(* A question is noted with its execution, or its response is lost.        *)
LEMMA SubmitConverses ==
  ASSUME IInv, Conversed, Submit
  PROVE  Conversed'
<1> DEFINE e == created + 1
<1>0. e # 0
  BY Numbers
<1>1. /\ place = "idle" /\ created < MaxExecutions /\ created' = e
      /\ row' = [row EXCEPT ![e] = "pending"]
      /\ \/ messages' = Append(messages, Question(e)) /\ active' = e /\ place' = "connecting"
         \/ UNCHANGED <<messages, active, content, place, ending>>
      /\ UNCHANGED <<answer, text, told, slips>>
  BY <1>0 DEF Submit, Follow
<1>2. /\ created \in Nat /\ slips \in Nat /\ active = 0 /\ messages \in Seq(Notes)
      /\ e \in Nat /\ e \in Executions /\ e # 0 /\ created <= e /\ e > created
      /\ \A x \in Executions :
           /\ Cardinality(AnswersTo(messages, x)) \in Nat
           /\ Cardinality(AnswersTo(messages, x)) <= slips + Due(x)
  BY <1>1, Numbers, ConstantsAssumption DEF IInv, Followed, Executions
<1> HIDE DEF e
<1>3. row[e] = "absent" /\ DOMAIN row = Executions
  BY <1>2 DEF IInv, Rows, RowOf
<1>4. Steady(row', text', answer') /\ \A x \in Executions : told'[x] \in Ends => row'[x] \in {told'[x], "deleted"}
  <2>1. /\ row[e] \notin Ends \cup {"deleted"}
        /\ \A x \in Executions : told[x] \in Ends => row[x] \in {told[x], "deleted"}
    BY <1>3 DEF Ends, Conversed, Ending
  <2>2. \A x \in Executions : x # e => row'[x] = row[x]
    BY <1>1, <1>3
  <2>3. told[e] \notin Ends
    BY <1>2, <1>3, <2>1 DEF Ends
  <2>4. QED BY <1>1, <2>1, <2>2, <2>3 DEF Steady
<1>5. Noted(row', text', answer', messages, created')
  BY <1>1, <1>2, <1>4, NotesStay DEF Conversed
<1>6. CASE UNCHANGED <<messages, active, content, place, ending>>
  <2>1. Ending'
    BY <1>1, <1>2, <1>4, <1>6 DEF Ending
  <2>2. \A x \in Executions : Answered(messages, x, slips + Due(x))'
    BY <1>1, <1>2, <1>6 DEF Answered, AnswersTo, Due
  <2>3. QED BY <1>1, <1>2, <1>5, <1>6, <2>1, <2>2 DEF Conversed
<1>7. CASE messages' = Append(messages, Question(e)) /\ active' = e /\ place' = "connecting"
  <2>1. /\ Question(e) \in Notes /\ Question(e).of = e /\ Question(e).kind = "question"
        /\ Question(e).content = <<>> /\ "question" \notin Ends
    <3>1. <<>> \in Seq(Nat)
      OBVIOUS
    <3>2. QED BY <1>2, <3>1 DEF Question, Notes, Ends
  <2>2. Noted(row', text', answer', messages', created')
    <3>1. IsNote(row', text', answer', Question(e), created')
      BY <1>1, <1>2, <2>1 DEF IsNote
    <3>2. QED BY <1>5, <1>7, <3>1, NotedMore
  <2>3. Ending'
    BY <1>1, <1>2, <1>4, <1>7 DEF Ending
  <2>4. \A x \in Executions : Cardinality(AnswersTo(messages', x)) = Cardinality(AnswersTo(messages, x))
    <3>1. \A x \in Executions : Cardinality(AnswersTo(messages', x)) = Cardinality(AnswersTo(messages, x)) + 0
      BY <1>2, <1>7, <2>1, AnsweredMore
    <3>2. QED BY <1>2, <3>1
  <2>5. Cardinality(AnswersTo(messages, e)) = 0
    <3>1. AnswersTo(messages, e) = {}
      <4>1. \A i \in 1..Len(messages) : messages[i].of \in Executions /\ messages[i].of <= created
        BY DEF Conversed, Noted, IsNote, Notes
      <4>2. \A k \in Nat : k <= created => k # e
        BY <1>2
      <4>3. \A i \in 1..Len(messages) : messages[i].of # e
        BY <4>1, <4>2 DEF Executions
      <4>4. DOMAIN messages = 1..Len(messages)
        BY <1>2, LenProperties
      <4>5. QED BY <4>3, <4>4 DEF AnswersTo
    <3>2. QED BY <3>1, FS_EmptySet
  <2>6. ASSUME NEW x \in Executions PROVE Answered(messages, x, slips + Due(x))'
    <3>1. Cardinality(AnswersTo(messages', x)) <= slips' + Due(x)'
      <4>1. CASE x = e
        <5>1. Due(x)' \in {0, 1}
          BY DEF Due
        <5>2. QED BY <1>1, <1>2, <2>4, <2>5, <4>1, <5>1
      <4>2. CASE x # e
        <5>1. Due(x)' = 1 /\ Due(x) \in {0, 1}
          BY <1>7, <4>2 DEF Due
        <5>2. QED BY <1>1, <1>2, <2>4, <5>1
      <4>3. QED BY <4>1, <4>2
    <3>2. QED BY <3>1 DEF Answered, AnswersTo
  <2>7. QED BY <1>1, <1>2, <2>2, <2>3, <2>6 DEF Conversed
<1>8. QED BY <1>1, <1>6, <1>7

(* The stop button, and what its rerun may repeat.                         *)
LEMMA StopConverses ==
  ASSUME IInv, Conversed, Stop
  PROVE  Conversed'
<1>1. /\ place \notin {"idle", "broken"} /\ place' = "connecting"
      /\ row' = row \/ (row[active] \in {"pending", "running"} /\ row' = [row EXCEPT ![active] = "cancel_requested"])
      /\ IF place = "closing" THEN slips' = slips + 1 ELSE slips' = slips
      /\ UNCHANGED <<created, answer, text, told, messages, active>>
  BY DEF Stop, Slip
<1>2. /\ created \in Nat /\ slips \in Nat /\ active \in Executions
      /\ \A x \in Executions :
           /\ Cardinality(AnswersTo(messages, x)) \in Nat
           /\ Cardinality(AnswersTo(messages, x)) <= slips + Due(x)
  BY <1>1, Numbers
<1>3. DOMAIN row = Executions /\ \A x \in Executions : told[x] \in Ends => row[x] \in {told[x], "deleted"}
  BY DEF IInv, Rows, Conversed, Ending
<1>4. Steady(row', text', answer') /\ \A x \in Executions : told'[x] \in Ends => row'[x] \in {told'[x], "deleted"}
  <2>1. \A x \in Executions : row'[x] = row[x] \/ row[x] \in {"pending", "running"}
    BY <1>1, <1>3
  <2>2. {"pending", "running"} \cap (Ends \cup {"deleted"}) = {}
    BY DEF Ends
  <2>3. QED BY <1>1, <1>3, <2>1, <2>2 DEF Steady
<1>5. Noted(row', text', answer', messages', created')
  BY <1>1, <1>2, <1>4, NotesStay DEF Conversed
<1>6. Ending'
  BY <1>1, <1>4 DEF Conversed, Ending
<1>7. ASSUME NEW x \in Executions PROVE Answered(messages, x, slips + Due(x))'
  <2>1. slips + Due(x) <= slips' + Due(x)' /\ slips + Due(x) \in Nat /\ slips' + Due(x)' \in Nat
    <3>1. CASE place = "closing"
      <4>1. slips' = slips + 1 /\ Due(x) = 1 /\ Due(x)' \in {0, 1}
        BY <1>1, <3>1 DEF Due
      <4>2. QED BY <1>2, <4>1
    <3>2. CASE place # "closing"
      <4>1. slips' = slips /\ Due(x)' = Due(x) /\ Due(x) \in {0, 1}
        BY <1>1, <3>2 DEF Due
      <4>2. QED BY <1>2, <4>1
    <3>3. QED BY <3>1, <3>2
  <2>2. Cardinality(AnswersTo(messages, x)) <= slips' + Due(x)'
    <3>1. Cardinality(AnswersTo(messages, x)) \in Nat /\ Cardinality(AnswersTo(messages, x)) <= slips + Due(x)
      BY <1>2
    <3>2. \A i, j, k \in Nat : i <= j /\ j <= k => i <= k
      OBVIOUS
    <3>3. QED BY <2>1, <3>1, <3>2
  <2>3. QED BY <1>1, <2>2 DEF Answered, AnswersTo
<1>8. slips' \in Nat
  BY <1>1, <1>2
<1>9. QED BY <1>5, <1>6, <1>7, <1>8 DEF Conversed

-----------------------------------------------------------------------------
(* A page that learns the end of a row, with its answer if it has one,     *)
(* holds the answer.                                                       *)
LEMMA Concluded ==
  ASSUME IInv, active \in Executions, active # 0, NEW end,
         row[active] \in {end, "deleted"},
         NEW d, Offered(text[active], answer[active], d),
         answer[active] # <<>> => d = answer[active],
         NEW x \in {StateAnswer(content, d), DurableAnswer(content, d)}
  PROVE  IsAnswer(row[active], text[active], answer[active], end, x)
<1>1. /\ Len(text[active]) \in Nat /\ AnswerOf(text[active], answer[active])
      /\ Held(text[active], answer[active], content)
  BY RowsAreTyped DEF IInv, Followed
<1>2. Held(text[active], answer[active], x)
  BY <1>1, Taken
<1>3. answer[active] # <<>> => Strip(text[active], x) = answer[active]
  BY <1>1, AnswerTaken
<1>4. QED BY <1>2, <1>3 DEF IsAnswer

(* A step of the script that says nothing, and knows the end when it is    *)
(* about to.                                                               *)
LEMMA QuietStep ==
  ASSUME IInv, Conversed, UNCHANGED <<backend, messages, active, slips>>,
         place # "closing" /\ place' # "closing",
         place' = "finishing" =>
            ending' \in Ends /\ IsAnswer(row[active], text[active], answer[active], ending', content')
  PROVE  Conversed'
<1>1. UNCHANGED <<created, row, text, answer, told>>
  BY DEF backend
<1>2. Ending'
  BY <1>1 DEF Conversed, Ending
<1>3. \A e \in Executions : Due(e)' = Due(e)
  BY DEF Due
<1>4. \A e \in Executions : Answered(messages, e, slips + Due(e))'
  BY <1>3 DEF Conversed, Answered, AnswersTo
<1>5. QED BY <1>1, <1>2, <1>4 DEF Conversed

(* The answer is appended. *)
LEMMA FinishConverses ==
  ASSUME IInv, Conversed, Finish
  PROVE  Conversed'
<1> DEFINE r == Reply(active, ending, content)
<1>1. /\ place = "finishing" /\ place' = "closing" /\ messages' = Append(messages, r)
      /\ UNCHANGED <<created, row, text, answer, told, active, slips>>
  BY DEF Finish, backend
<1>2. /\ created \in Nat /\ slips \in Nat /\ active \in Executions /\ messages \in Seq(Notes)
      /\ active <= created
      /\ \A x \in Executions :
           /\ Cardinality(AnswersTo(messages, x)) \in Nat
           /\ Cardinality(AnswersTo(messages, x)) <= slips + Due(x)
      /\ ending \in Ends
      /\ IsAnswer(row[active], text[active], answer[active], ending, content)
  BY <1>1, Numbers DEF Conversed, Ending
<1>3. /\ Len(text[active]) \in Nat /\ AnswerOf(text[active], answer[active]) /\ content \in Seq(Nat)
  <2>1. Len(text[active]) \in Nat /\ AnswerOf(text[active], answer[active])
    BY <1>2, RowsAreTyped DEF IInv
  <2>2. QED BY <1>2, <2>1, HeldType DEF IsAnswer
<1>4. /\ r \in Notes /\ r.of = active /\ r.kind = ending
      /\ IsAnswer(row[active], text[active], answer[active], ending, r.content)
  <2> DEFINE c == IF ending = "failed" THEN <<>> ELSE content
  <2>1. r = [of |-> active, kind |-> ending, content |-> c] /\ c \in Seq(Nat)
    BY <1>3 DEF Reply
  <2>2. IsAnswer(row[active], text[active], answer[active], ending, c)
    <3>1. Held(text[active], answer[active], <<>>)
      <4>1. Deltas(0) = <<>> /\ 0 \in 0..Len(text[active])
        BY <1>3, DeltasOrder
      <4>2. QED BY <4>1 DEF Held
    <3>2. QED BY <1>2, <3>1 DEF IsAnswer
  <2> HIDE DEF c, r
  <2>3. QED BY <1>2, <2>1, <2>2 DEF Notes
<1> HIDE DEF r
<1>5. Noted(row', text', answer', messages', created')
  <2>1. IsNote(row, text, answer, r, created)
    BY <1>2, <1>4 DEF IsNote
  <2>2. Noted(row, text, answer, Append(messages, r), created)
    BY <2>1, NotedMore DEF Conversed
  <2>3. QED BY <1>1, <2>2
<1>6. Ending'
  BY <1>1, <1>2 DEF Conversed, Ending
<1>7. ASSUME NEW x \in Executions PROVE Answered(messages, x, slips + Due(x))'
  <2>1. Cardinality(AnswersTo(messages', x)) =
          Cardinality(AnswersTo(messages, x)) + (IF r.of = x /\ r.kind \in Ends THEN 1 ELSE 0)
    BY <1>1, <1>2, <1>4, AnsweredMore
  <2>2. (r.of = x /\ r.kind \in Ends) <=> x = active
    BY <1>2, <1>4
  <2>3. Due(x)' = 1 /\ Due(x) = IF x = active THEN 0 ELSE 1
    BY <1>1 DEF Due
  <2>4. Cardinality(AnswersTo(messages', x)) <= slips' + Due(x)'
    BY <1>1, <1>2, <2>1, <2>2, <2>3
  <2>5. QED BY <2>4 DEF Answered, AnswersTo
<1>8. QED BY <1>1, <1>2, <1>5, <1>6, <1>7 DEF Conversed

(* What is active is cleared. *)
LEMMA ClearConverses ==
  ASSUME IInv, Conversed, Clear
  PROVE  Conversed'
<1>1. /\ place = "closing" /\ active' = 0 /\ place' = "idle"
      /\ UNCHANGED <<created, row, text, answer, told, messages, slips>>
  BY DEF Clear, Follow, AfterAnswer, backend
<1>2. created \in Nat
  BY Numbers
<1>3. Ending'
  BY <1>1, <1>2 DEF Conversed, Ending
<1>4. \A e \in Executions : Due(e)' = Due(e)
  BY <1>1, ExecutionsAre DEF Due
<1>5. \A e \in Executions : Answered(messages, e, slips + Due(e))'
  BY <1>1, <1>4 DEF Conversed, Answered, AnswersTo
<1>6. QED BY <1>1, <1>3, <1>5 DEF Conversed

(* The steps of the script. *)
LEMMA ScriptConverses ==
  ASSUME IInv, Conversed, Script
  PROVE  Conversed'
<1>1. /\ place \notin {"idle", "broken"} => active \in Executions /\ active # 0
      /\ \A e \in Executions : told[e] \in Ends => row[e] \in {told[e], "deleted"}
  BY ExecutionsAre DEF IInv, Followed, Conversed, Ending
<1> DEFINE Sure(e, end, d) ==
             /\ row[e] \in {end, "deleted"} /\ Offered(text[e], answer[e], d)
             /\ answer[e] # <<>> => d = answer[e]
<1>2. ASSUME NEW e \in Executions, hot[e] # None, told[e] \in Ends PROVE Sure(e, told[e], HotText(e))
  BY <1>1, <1>2, Offers DEF HotText, IInv
<1>3. CASE ConnectLive
  <2>1. /\ place = "connecting" /\ hot[active] # None /\ UNCHANGED <<backend, messages, active, slips>>
        /\ place' \in {"finishing", "refresh", "tail"}
        /\ place' = "finishing" =>
             ending' = told[active] /\ told[active] \in Ends /\ content' = StateAnswer(content, HotText(active))
    BY <1>3 DEF ConnectLive, Connecting, SeeState, Terminal, Ends
  <2>2. QED BY <1>1, <1>2, <2>1, Concluded, QuietStep
<1>4. CASE ConnectDurable
  <2>1. /\ place = "connecting" /\ row[active] \in Ends /\ UNCHANGED <<backend, messages, active, slips>>
        /\ place' \in {"finishing", "refresh"}
        /\ ending' = row[active] /\ content' = StateAnswer(content, answer[active])
    BY <1>4 DEF ConnectDurable, Connecting, SeeState
  <2>2. Offered(text[active], answer[active], answer[active])
    BY <1>1, <2>1, Offers DEF IInv
  <2>3. QED BY <1>1, <2>1, <2>2, Concluded, QuietStep
<1>5. CASE ConnectStale
  <2>1. /\ place = "connecting" /\ UNCHANGED <<backend, messages, active, slips>>
        /\ place' \in {"finishing", "refresh"}
        /\ place' = "finishing" =>
             /\ hot[active] # None /\ told[active] \in Ends
             /\ ending' = told[active] /\ content' = StateAnswer(content, HotText(active))
    BY <1>5 DEF ConnectStale, Connecting, SeeState, Terminal, Ends
  <2>2. QED BY <1>1, <1>2, <2>1, Concluded, QuietStep
<1>6. CASE TheEnd
  <2>1. /\ place = "tail" /\ told[active] \in Ends /\ UNCHANGED <<backend, messages, active, slips>>
        /\ place' \in {"finishing", "refresh"}
        /\ ending' = told[active] /\ content' = StateAnswer(content, answer[active])
    BY <1>6 DEF TheEnd, SeeState
  <2>2. Offered(text[active], answer[active], answer[active])
    BY <1>1, <2>1, Offers DEF IInv
  <2>3. QED BY <1>1, <2>1, <2>2, Concluded, QuietStep
<1>7. CASE Refresh
  <2>1. /\ place \in {"caught", "refresh"} /\ UNCHANGED <<backend, messages, active, slips>>
        /\ place' \in {"finishing", "refresh", "connecting"}
        /\ content' = DurableAnswer(content, Presented(active))
        /\ place' = "finishing" => row[active] \in Ends /\ ending' = row[active]
    BY <1>7 DEF Refresh, AfterRefresh, Terminal
  <2>2. row[active] \in Ends => Presented(active) = answer[active]
    BY DEF Presented, Ends
  <2>3. Offered(text[active], answer[active], answer[active])
    BY <1>1, <2>1, Offers DEF IInv
  <2>4. QED BY <1>1, <2>1, <2>2, <2>3, Concluded, QuietStep
<1>8. CASE ConnectFails \/ NextDelta \/ TailBreaks \/ RefreshFails
  <2>1. /\ place # "closing" /\ place' \notin {"closing", "finishing"}
        /\ UNCHANGED <<backend, messages, active, slips>>
    BY <1>8 DEF ConnectFails, NextDelta, TailBreaks, RefreshFails, AfterRefresh
  <2>2. QED BY <2>1, QuietStep
<1>9. QED BY <1>3, <1>4, <1>5, <1>6, <1>7, <1>8, FinishConverses, ClearConverses DEF Script

-----------------------------------------------------------------------------
(* A page begins with nothing said. *)
LEMMA InitConverses == Init => Conversed
<1> SUFFICES ASSUME Init PROVE Conversed
  OBVIOUS
<1>1. /\ created = 0 /\ active = 0 /\ messages = <<>> /\ slips = 0 /\ place = "idle"
      /\ told = [e \in Executions |-> "no"]
  BY DEF Init
<1>2. Ending
  BY <1>1 DEF Ending, Ends
<1>3. ASSUME NEW e \in Executions PROVE Answered(messages, e, slips + Due(e))
  <2>1. Cardinality(AnswersTo(messages, e)) = 0 /\ Due(e) \in {0, 1}
    BY <1>1, NothingNoted DEF Due
  <2>2. QED BY <1>1, <2>1 DEF Answered
<1>4. QED BY <1>1, <1>2, <1>3, NothingNoted DEF Conversed

(* Every step keeps what is known of the conversation. *)
LEMMA NextConverses ==
  ASSUME IInv, Conversed, [Next]_vars
  PROVE  Conversed'
<1>1. CASE Backend
  BY <1>1, BackendConverses
<1>2. ASSUME NEW s \in Executions, OpenPage(s) PROVE Conversed'
  <2>1. LoadHistory(s) /\ UNCHANGED <<backend, slips>>
    BY <1>2 DEF OpenPage
  <2>2. QED BY <2>1, OpenWithHistory
<1>3. CASE Retry
  <2>1. LoadHistory(session) /\ UNCHANGED <<backend, slips>>
    BY <1>3 DEF Retry
  <2>2. QED BY <2>1, OpenWithHistory
<1>4. CASE OpenDetached \/ NewConversation \/ \E s \in Executions : OpenBroken(s)
  BY <1>4, OpenEmpty
<1>5. CASE Submit
  BY <1>5, SubmitConverses
<1>6. CASE Stop
  BY <1>6, StopConverses
<1>7. CASE Script
  BY <1>7, ScriptConverses
<1>8. CASE UNCHANGED vars
  <2>1. UNCHANGED <<created, row, text, answer, told, messages, active, place, content, ending, slips>>
    BY <1>8 DEF vars, backend, page
  <2>2. QED BY <2>1 DEF Conversed, Ending, Answered, AnswersTo, Due
<1>9. QED BY <1>1, <1>2, <1>3, <1>4, <1>5, <1>6, <1>7, <1>8 DEF Next, User

(* Whichever way an answer came to the page it says how its row ended and  *)
(* holds the answer of the row, give or take blanks around it.             *)
THEOREM AnswersAgree == Spec => []AnswersAsStored
<1>1. IInv /\ Conversed => AnswersAsStored
  <2> SUFFICES ASSUME IInv, Conversed, NEW n \in DOMAIN messages, messages[n].kind \in Ends
               PROVE  LET m == messages[n]
                      IN  /\ row[m.of] \in {m.kind, "deleted"}
                          /\ IsPrefix(m.content, Streamed(m.of)) \/ m.content = answer[m.of]
                          /\ m.kind # "failed" /\ answer[m.of] # <<>>
                               => Stripped(m.of, m.content) = answer[m.of]
    BY DEF AnswersAsStored
  <2> DEFINE e == messages[n].of
             c == messages[n].content
  <2>1. messages \in Seq(Notes) /\ n \in 1..Len(messages)
    BY Numbers, LenProperties
  <2>2. /\ e \in Executions
        /\ IsAnswer(row[e], text[e], answer[e], messages[n].kind, c)
    BY <2>1 DEF Conversed, Noted, IsNote, Notes
  <2> HIDE DEF e, c
  <2>3. Streamed(e) = Deltas(Len(text[e])) /\ Len(text[e]) \in Nat
    BY <2>2, RowsAreTyped DEF IInv
  <2>4. IsPrefix(c, Streamed(e)) \/ c = answer[e]
    <3>1. ASSUME NEW k \in 0..Len(text[e]), c = Deltas(k) PROVE IsPrefix(c, Streamed(e))
      <4>1. k \in Nat /\ k <= Len(text[e])
        BY <2>3
      <4>2. QED BY <2>3, <3>1, <4>1, DeltasOrder
    <3>2. QED BY <2>2, <3>1 DEF IsAnswer, Held
  <2>5. Stripped(e, c) = Strip(text[e], c)
    BY DEF Stripped, Words, Strip, WordsIn
  <2>6. QED BY <2>2, <2>4, <2>5 DEF IsAnswer, e, c
<1>2. IInv /\ Conversed /\ [Next]_vars => IInv' /\ Conversed'
  BY NextIInv, NextConverses
<1>3. QED BY <1>1, <1>2, InitIInv, InitConverses, PTL DEF Spec

(* An execution is answered once; only a rerun that interrupts the closing *)
(* of an answer repeats it, once each.                                     *)
THEOREM OneAnswerEach == Spec => []AnsweredOnce
<1>1. IInv /\ Conversed => AnsweredOnce
  <2> SUFFICES ASSUME IInv, Conversed, NEW e \in Executions
               PROVE  Cardinality({n \in DOMAIN messages : messages[n].of = e /\ messages[n].kind \in Ends})
                        <= 1 + slips
    BY DEF AnsweredOnce
  <2>1. /\ slips \in Nat /\ Cardinality(AnswersTo(messages, e)) \in Nat
        /\ Cardinality(AnswersTo(messages, e)) <= slips + Due(e)
    BY Numbers
  <2>2. Due(e) \in {0, 1}
    BY DEF Due
  <2>3. Cardinality(AnswersTo(messages, e)) <= 1 + slips
    BY <2>1, <2>2
  <2>4. QED BY <2>3 DEF AnswersTo
<1>2. IInv /\ Conversed /\ [Next]_vars => IInv' /\ Conversed'
  BY NextIInv, NextConverses
<1>3. QED BY <1>1, <1>2, InitIInv, InitConverses, PTL DEF Spec

-----------------------------------------------------------------------------
(* The deltas of a text of each execution, summed up as Published does. *)
Total(tx) ==
    LET upto[n \in 0..MaxExecutions] == IF n = 0 THEN 0 ELSE upto[n - 1] + Len(tx[n])
    IN  upto[MaxExecutions]

(* The sum has the sums up to each execution below it. *)
LEMMA TotalIs ==
  ASSUME NEW tx, \A n \in Executions : Len(tx[n]) \in Nat
  PROVE  \E f \in [0..MaxExecutions -> Nat] :
            /\ f[0] = 0 /\ Total(tx) = f[MaxExecutions]
            /\ \A n \in Executions : f[n] = f[n - 1] + Len(tx[n])
<1> DEFINE Step(f) == [n \in 0..MaxExecutions |-> IF n = 0 THEN 0 ELSE f[n - 1] + Len(tx[n])]
           upto == CHOOSE f : f = Step(f)
           step == [n \in 1..MaxExecutions |-> [x \in Nat |-> x + Len(tx[n])]]
<1>1. /\ MaxExecutions \in Nat /\ Executions = 1..MaxExecutions
      /\ \A n \in 1..MaxExecutions : n \in 0..MaxExecutions /\ n - 1 \in 0..MaxExecutions /\ n # 0
      /\ \A n \in 0..MaxExecutions : n # 0 => n \in 1..MaxExecutions
  BY ConstantsAssumption DEF Executions
<1>2. Total(tx) = upto[MaxExecutions]
  BY DEF Total
<1>3. PICK f : f \in Runs(MaxExecutions, Nat, 0, step)
  <2>1. step \in [1..MaxExecutions -> [Nat -> Nat]]
    BY <1>1
  <2> DEFINE X == Nat
  <2>2. step \in [1..MaxExecutions -> [X -> X]] /\ 0 \in X
    BY <2>1
  <2> HIDE DEF step, X
  <2>3. Runs(MaxExecutions, X, 0, step) # {}
    BY <1>1, <2>2, LoopHasRun
  <2>4. QED BY <2>3 DEF X
<1>4. /\ f \in [0..MaxExecutions -> Nat] /\ f[0] = 0
      /\ \A n \in 1..MaxExecutions : f[n] = f[n - 1] + Len(tx[n])
  <2>1. /\ f \in [0..MaxExecutions -> Nat] /\ f[0] = 0
        /\ \A n \in 1..MaxExecutions : f[n] = step[n][f[n - 1]]
    BY <1>3 DEF Runs
  <2>2. QED BY <1>1, <2>1
<1>5. f = Step(f)
  BY <1>1, <1>4
<1>6. upto = Step(upto)
  BY <1>5
<1> DEFINE S == {n \in 0..MaxExecutions : upto[n] = f[n]}
<1> HIDE DEF upto
<1>7. 0 \in S
  BY <1>1, <1>4, <1>6
<1>8. ASSUME NEW n \in 1..MaxExecutions, n - 1 \in S PROVE n \in S
  <2>1. upto[n - 1] = f[n - 1] /\ n \in 0..MaxExecutions /\ n # 0
    BY <1>1, <1>8
  <2>2. upto[n] = upto[n - 1] + Len(tx[n])
    BY <1>6, <2>1
  <2>3. QED BY <1>4, <2>1, <2>2
<1> HIDE DEF S
<1>9. MaxExecutions \in S
  <2>1. 0..MaxExecutions \subseteq S
    BY <1>1, <1>7, <1>8, LoopKeeps
  <2>2. QED BY <1>1, <2>1
<1>10. Total(tx) = f[MaxExecutions]
  BY <1>2, <1>9 DEF S
<1>11. QED BY <1>1, <1>4, <1>10

(* No text is longer than all of them together. *)
LEMMA TotalBounds ==
  ASSUME NEW tx, \A n \in Executions : Len(tx[n]) \in Nat
  PROVE  Total(tx) \in Nat /\ \A e \in Executions : Len(tx[e]) <= Total(tx)
<1>1. /\ MaxExecutions \in Nat /\ Executions = 1..MaxExecutions
      /\ MaxExecutions \in 0..MaxExecutions
  BY ConstantsAssumption DEF Executions
<1>2. PICK f \in [0..MaxExecutions -> Nat] :
        /\ f[0] = 0 /\ Total(tx) = f[MaxExecutions]
        /\ \A n \in Executions : f[n] = f[n - 1] + Len(tx[n])
  BY TotalIs
<1> DEFINE S == {n \in 0..MaxExecutions : \A i \in 1..n : Len(tx[i]) <= f[n]}
<1>3. 0 \in S
  BY <1>1
<1>4. ASSUME NEW n \in 1..MaxExecutions, n - 1 \in S PROVE n \in S
  <2>1. /\ n \in 0..MaxExecutions /\ n - 1 \in 0..MaxExecutions /\ f[n] = f[n - 1] + Len(tx[n])
        /\ Len(tx[n]) \in Nat /\ f[n - 1] \in Nat
        /\ \A i \in 1..(n - 1) : Len(tx[i]) \in Nat /\ Len(tx[i]) <= f[n - 1]
    BY <1>1, <1>2, <1>4
  <2>2. \A i \in 1..n : i \in 1..(n - 1) \/ i = n
    OBVIOUS
  <2>3. \A i \in 1..(n - 1) : Len(tx[i]) <= f[n]
    BY <2>1
  <2>4. Len(tx[n]) <= f[n]
    BY <2>1
  <2>5. QED BY <2>1, <2>2, <2>3, <2>4
<1> HIDE DEF S
<1>5. MaxExecutions \in S
  <2>1. 0..MaxExecutions \subseteq S
    BY <1>1, <1>3, <1>4, LoopKeeps
  <2>2. QED BY <1>1, <2>1
<1>6. QED BY <1>1, <1>2, <1>5 DEF S

(* A delta more for one of them is one more for all. *)
LEMMA TotalGrows ==
  ASSUME NEW tx, \A n \in Executions : Len(tx[n]) \in Nat, NEW e \in Executions,
         NEW ty, \A n \in Executions : Len(ty[n]) = Len(tx[n]) + (IF n = e THEN 1 ELSE 0)
  PROVE  Total(ty) = Total(tx) + 1
<1>1. /\ MaxExecutions \in Nat /\ Executions = 1..MaxExecutions
      /\ MaxExecutions \in 0..MaxExecutions /\ e \in Nat /\ e <= MaxExecutions /\ ~(e <= 0)
      /\ \A n \in Executions : Len(ty[n]) \in Nat
  BY ConstantsAssumption DEF Executions
<1>2. PICK f \in [0..MaxExecutions -> Nat] :
        /\ f[0] = 0 /\ Total(tx) = f[MaxExecutions]
        /\ \A n \in Executions : f[n] = f[n - 1] + Len(tx[n])
  BY TotalIs
<1>3. PICK g \in [0..MaxExecutions -> Nat] :
        /\ g[0] = 0 /\ Total(ty) = g[MaxExecutions]
        /\ \A n \in Executions : g[n] = g[n - 1] + Len(ty[n])
  BY <1>1, TotalIs
<1> DEFINE S == {n \in 0..MaxExecutions : g[n] = f[n] + (IF e <= n THEN 1 ELSE 0)}
<1>4. 0 \in S
  BY <1>1, <1>2, <1>3
<1>5. ASSUME NEW n \in 1..MaxExecutions, n - 1 \in S PROVE n \in S
  <2>1. n \in 0..MaxExecutions /\ n - 1 \in 0..MaxExecutions /\ n \in Executions
    BY <1>1
  <2>2. f[n] = f[n - 1] + Len(tx[n]) /\ g[n] = g[n - 1] + Len(ty[n])
    BY <1>2, <1>3, <2>1
  <2>3. g[n - 1] = f[n - 1] + (IF e <= n - 1 THEN 1 ELSE 0)
    BY <1>5
  <2>4. /\ Len(ty[n]) = Len(tx[n]) + (IF n = e THEN 1 ELSE 0)
        /\ Len(tx[n]) \in Nat /\ f[n - 1] \in Nat
    BY <1>2, <2>1
  <2> DEFINE fb == f[n - 1]
             l == Len(tx[n])
  <2>5. fb \in Nat /\ l \in Nat
    BY <2>4
  <2>6. g[n] = (fb + (IF e <= n - 1 THEN 1 ELSE 0)) + (l + (IF n = e THEN 1 ELSE 0)) /\ f[n] = fb + l
    BY <2>2, <2>3, <2>4
  <2> HIDE DEF fb, l
  <2>7. g[n] = f[n] + (IF e <= n THEN 1 ELSE 0)
    <3>1. CASE n = e
      <4>1. ~(e <= n - 1) /\ e <= n
        BY <1>1, <3>1
      <4>2. QED BY <2>5, <2>6, <3>1, <4>1
    <3>2. CASE n # e
      <4>1. e <= n - 1 <=> e <= n
        BY <1>1, <3>2
      <4>2. QED BY <2>5, <2>6, <3>2, <4>1
    <3>3. QED BY <3>1, <3>2
  <2>8. QED BY <2>1, <2>7
<1> HIDE DEF S
<1>6. MaxExecutions \in S
  <2>1. 0..MaxExecutions \subseteq S
    BY <1>1, <1>4, <1>5, LoopKeeps
  <2>2. QED BY <1>1, <2>1
<1>7. QED BY <1>1, <1>2, <1>3, <1>6 DEF S


-----------------------------------------------------------------------------
(* The types that the invariants above leave open. *)
Typed ==
    /\ owner \in [Executions -> 0..MaxExecutions]
    /\ row \in [Executions -> {"absent", "deleted"} \cup Open \cup Ends]
    /\ told \in [Executions -> {"no", "lost"} \cup Ends]
    /\ hot \in [Executions -> Nat \cup {None}]
    /\ Total(text) <= MaxDeltas
    /\ session \in 0..MaxExecutions /\ place \in Places
    /\ covered \in 0..MaxDeltas /\ ending \in {"none"} \cup Ends /\ slips \in 0..MaxSlips
    /\ active = 0 => content = <<>>

(* Lengths, and the bound on them. *)
LEMMA LengthsAre ==
  ASSUME Rows
  PROVE  /\ \A e \in Executions : Len(text[e]) \in Nat
         /\ Total(text) \in Nat
         /\ \A e \in Executions : Len(text[e]) <= Total(text)
<1>1. \A e \in Executions : Len(text[e]) \in Nat
  BY RowsAreTyped
<1>2. QED BY <1>1, TotalBounds

(* What has been typed behind the API. *)
LEMMA BackendTyped ==
  ASSUME IInv, Typed, Backend
  PROVE  Typed'
<1>1. PICK e \in Executions :
        \/ Begin(e) \/ Generate(e) \/ Fold(e) \/ End(e) \/ PublishEnd(e) \/ Expire(e) \/ Delete(e)
  BY DEF Backend
<1>2. UNCHANGED <<owner, page>>
  BY <1>1 DEF Begin, Generate, Fold, End, PublishEnd, Expire, Delete
<1>3. UNCHANGED <<session, place, covered, ending, slips, active, content>>
  BY <1>2 DEF page
<1> DEFINE Status == {"absent", "deleted"} \cup Open \cup Ends
<1>4. row' \in [Executions -> Status]
  <2>1. row \in [Executions -> Status]
    BY DEF Typed
  <2>2. \/ row' = row
        \/ \E s \in {"running"} \cup Ends : row' = [row EXCEPT ![e] = s]
        \/ row' = [x \in Executions |-> IF owner[x] = e THEN "deleted" ELSE row[x]]
    BY <1>1 DEF Begin, Generate, Fold, End, PublishEnd, Expire, Delete, Ends
  <2>3. "running" \in Status /\ "deleted" \in Status /\ Ends \subseteq Status
    BY DEF Open
  <2> HIDE DEF Status
  <2>4. QED BY <2>1, <2>2, <2>3
<1>5. told' \in [Executions -> {"no", "lost"} \cup Ends]
  <2>1. told \in [Executions -> {"no", "lost"} \cup Ends]
    BY DEF Typed
  <2>2. told' = told \/ \E s \in {"lost"} \cup Ends : told' = [told EXCEPT ![e] = s]
    BY <1>1 DEF Begin, Generate, Fold, End, PublishEnd, Expire, Delete
  <2>3. QED BY <2>1, <2>2
<1>6. Total(text') <= MaxDeltas
  <2>1. CASE text' = text
    BY <2>1 DEF Typed
  <2>2. CASE Generate(e)
    <3>1. /\ Published < MaxDeltas
          /\ \E kind \in {"word", "blank"} : text' = [text EXCEPT ![e] = Append(@, kind)]
      BY <2>2 DEF Generate
    <3>2. Published = Total(text)
      BY DEF Published, Total
    <3>3. PICK kind \in {"word", "blank"} : text' = [text EXCEPT ![e] = Append(@, kind)]
      BY <3>1
    <3>4. \A n \in Executions : Len(text'[n]) = Len(text[n]) + (IF n = e THEN 1 ELSE 0)
      <4>1. text[e] \in Seq({"word", "blank"}) /\ text'[e] = Append(text[e], kind)
        BY <3>3 DEF IInv, Rows
      <4>2. Len(text'[e]) = Len(text[e]) + 1
        BY <4>1, AppendProperties
      <4>3. \A n \in Executions : n # e => text'[n] = text[n]
        BY <3>3 DEF IInv, Rows
      <4>4. \A n \in Executions : Len(text[n]) \in Nat
        BY LengthsAre DEF IInv
      <4>5. ASSUME NEW n \in Executions
            PROVE  Len(text'[n]) = Len(text[n]) + (IF n = e THEN 1 ELSE 0)
        <5>1. CASE n = e
          BY <4>2, <5>1
        <5>2. CASE n # e
          <6>1. text'[n] = text[n] /\ Len(text[n]) \in Nat
            BY <4>3, <4>4, <5>2
          <6> DEFINE l == Len(text[n])
          <6>2. Len(text'[n]) = l /\ l \in Nat
            BY <6>1
          <6> HIDE DEF l
          <6>3. Len(text'[n]) = l + (IF n = e THEN 1 ELSE 0)
            BY <5>2, <6>2
          <6>4. QED BY <6>3 DEF l
        <5>3. QED BY <5>1, <5>2
      <4>6. QED BY <4>5
    <3>5. Total(text') = Total(text) + 1
      <4>1. \A n \in Executions : Len(text[n]) \in Nat
        BY LengthsAre DEF IInv
      <4>2. QED BY <3>4, <4>1, TotalGrows
    <3>6. Total(text) \in Nat /\ MaxDeltas \in Nat
      BY LengthsAre, ConstantsAssumption DEF IInv
    <3>7. QED BY <3>1, <3>2, <3>5, <3>6
  <2>3. text' = text \/ Generate(e)
    BY <1>1 DEF Begin, Fold, End, PublishEnd, Expire, Delete
  <2>4. QED BY <2>1, <2>2, <2>3
<1>7. owner' = owner
  BY <1>2
<1>8. hot' \in [Executions -> Nat \cup {None}]
  <2>1. hot \in [Executions -> Nat \cup {None}] /\ Len(text[e]) \in Nat
    BY LengthsAre DEF IInv, Typed
  <2>2. hot' = hot \/ \E x \in {0, Len(text[e]), None} : hot' = [hot EXCEPT ![e] = x]
    BY <1>1, <2>1 DEF Begin, Generate, Fold, End, PublishEnd, Expire, Delete
  <2>3. QED BY <2>1, <2>2
<1>9. QED BY <1>3, <1>4, <1>5, <1>6, <1>7, <1>8 DEF Typed

(* What the user opens or asks is typed. *)
LEMMA UserTyped ==
  ASSUME IInv, Conversed, Typed, User
  PROVE  Typed'
<1>0. /\ 0 \in 0..MaxDeltas /\ 0 \in 0..MaxExecutions /\ Executions \subseteq 0..MaxExecutions
      /\ created \in Nat /\ MaxExecutions \in Nat
  BY ConstantsAssumption DEF Executions, IInv, Rows
<1>1. ASSUME NEW e, Follow(e)
      PROVE  /\ place' \in Places /\ covered' \in 0..MaxDeltas /\ ending' = "none" /\ content' = <<>>
  BY <1>0, <1>1 DEF Follow, Places
<1>2. CASE Stop
  <2>1. /\ place' = "connecting" /\ ending' = "none" /\ covered' = 0
        /\ place \notin {"idle", "broken"}
        /\ row' = row \/ row' = [row EXCEPT ![active] = "cancel_requested"]
        /\ slips' = slips \/ (slips < MaxSlips /\ slips' = slips + 1)
        /\ UNCHANGED <<owner, text, told, hot, session, active>>
    BY <1>2 DEF Stop, Slip
  <2>2. row' \in [Executions -> {"absent", "deleted"} \cup Open \cup Ends]
    <3>1. row \in [Executions -> {"absent", "deleted"} \cup Open \cup Ends] /\ "cancel_requested" \in Open
      BY DEF Typed, Open
    <3>2. QED BY <2>1, <3>1
  <2>3. slips' \in 0..MaxSlips
    BY <2>1, ConstantsAssumption DEF Typed
  <2>4. active' # 0
    BY <2>1 DEF IInv, Followed
  <2>5. QED BY <1>0, <2>1, <2>2, <2>3, <2>4 DEF Typed, Places
<1>3. CASE Submit
  <2> DEFINE e == created + 1
  <2>0. e # 0 /\ e \in Executions
    BY <1>0, <1>3 DEF Submit, Executions
  <2>1. /\ \E s \in {session, e} :
             /\ owner' = [owner EXCEPT ![e] = s]
             /\ session' \in {session, s}
        /\ row' = [row EXCEPT ![e] = "pending"]
        /\ Follow(e) \/ UNCHANGED <<active, content, place, covered, ending>>
        /\ UNCHANGED <<text, told, hot, slips>>
    BY <1>3 DEF Submit
  <2> HIDE DEF e
  <2>2. e \in 0..MaxExecutions /\ session \in 0..MaxExecutions
    BY <1>0, <2>0 DEF Typed
  <2>3. owner' \in [Executions -> 0..MaxExecutions] /\ session' \in 0..MaxExecutions
    BY <2>1, <2>2 DEF Typed
  <2>4. row' \in [Executions -> {"absent", "deleted"} \cup Open \cup Ends]
    <3>1. row \in [Executions -> {"absent", "deleted"} \cup Open \cup Ends] /\ "pending" \in Open
      BY DEF Typed, Open
    <3>2. QED BY <2>1, <3>1
  <2>5. CASE Follow(e)
    BY <1>1, <2>1, <2>3, <2>4, <2>5 DEF Typed
  <2>6. CASE UNCHANGED <<active, content, place, covered, ending>>
    BY <2>1, <2>3, <2>4, <2>6 DEF Typed
  <2>7. QED BY <2>1, <2>5, <2>6
<1>4. CASE (\E s \in Executions : OpenPage(s) \/ OpenBroken(s)) \/ OpenDetached \/ Retry \/ NewConversation
  <2>1. /\ UNCHANGED <<backend, slips>>
        /\ session' \in Executions \cup {0, session}
        /\ \/ \E x : Follow(x)
           \/ content' = <<>> /\ covered' = 0 /\ ending' = "none" /\ place' = "broken"
    BY <1>4 DEF OpenPage, OpenBroken, OpenDetached, Retry, NewConversation, LoadHistory
  <2>2. UNCHANGED <<owner, row, text, told, hot, slips>>
    BY <2>1 DEF backend
  <2>3. session' \in 0..MaxExecutions
    BY <1>0, <2>1 DEF Typed
  <2>4. /\ place' \in Places /\ covered' \in 0..MaxDeltas /\ ending' = "none" /\ content' = <<>>
    BY <1>0, <1>1, <2>1 DEF Places
  <2>5. QED BY <2>2, <2>3, <2>4 DEF Typed
<1>5. QED BY <1>2, <1>3, <1>4 DEF User

(* What the script does is typed. *)
LEMMA ScriptTyped ==
  ASSUME IInv, Typed, Script
  PROVE  Typed'
<1>0. /\ 0 \in 0..MaxDeltas /\ MaxDeltas \in Nat
      /\ place \notin {"idle", "broken"} => active \in Executions /\ active # 0
      /\ place = "tail" => covered \in 0..Len(text[active])
      /\ told \in [Executions -> {"no", "lost"} \cup Ends]
  BY ConstantsAssumption, ExecutionsAre DEF IInv, Followed, Typed
<1>1. \A e \in Executions : Len(text[e]) \in 0..MaxDeltas
  <2>1. ASSUME NEW e \in Executions PROVE Len(text[e]) \in 0..MaxDeltas
    <3>1. /\ Len(text[e]) \in Nat /\ Total(text) \in Nat
          /\ Len(text[e]) <= Total(text) /\ Total(text) <= MaxDeltas
      BY LengthsAre DEF IInv, Typed
    <3>2. QED BY <1>0, <3>1
  <2>2. QED BY <2>1
<1>2. UNCHANGED <<backend, session, slips>>
  BY DEF Script, ConnectLive, ConnectDurable, ConnectStale, ConnectFails, NextDelta, TheEnd,
         TailBreaks, Refresh, RefreshFails, Finish, Clear
<1>3. UNCHANGED <<owner, row, text, told, hot, session, slips>>
  BY <1>2 DEF backend
<1>4. CASE Clear
  <2>1. place' \in Places /\ covered' = 0 /\ ending' = "none" /\ content' = <<>>
    BY <1>4 DEF Clear, Follow, Places
  <2>2. QED BY <1>0, <1>3, <2>1 DEF Typed
<1>5. CASE ~Clear
  <2>1. place \notin {"idle", "broken"} /\ active' = active
    BY <1>5 DEF Script, ConnectLive, ConnectDurable, ConnectStale, ConnectFails, NextDelta, TheEnd,
         TailBreaks, Refresh, RefreshFails, Finish, Connecting
  <2>2. active' # 0 /\ active \in Executions
    BY <1>0, <2>1
  <2>3. place' \in Places
    BY <1>5 DEF Script, ConnectLive, ConnectDurable, ConnectStale, ConnectFails, NextDelta, TheEnd,
         TailBreaks, Refresh, RefreshFails, Finish, Places, SeeState, AfterRefresh
  <2>4. ending' \in {"none"} \cup Ends
    <3>1. ending' \in {ending, "none"} \cup Ends
      BY <1>5 DEF Script, ConnectLive, ConnectDurable, ConnectStale, ConnectFails, NextDelta, TheEnd,
         TailBreaks, Refresh, RefreshFails, Finish, SeeState, Terminal
    <3>2. QED BY <3>1 DEF Typed
  <2>5. covered' \in 0..MaxDeltas
    <3>1. CASE NextDelta
      <4>1. place = "tail" /\ covered < Len(text[active]) /\ covered' = covered + 1
        BY <3>1 DEF NextDelta
      <4>2. covered \in 0..Len(text[active]) /\ Len(text[active]) \in 0..MaxDeltas
        BY <1>0, <1>1, <2>2, <4>1
      <4> DEFINE l == Len(text[active])
      <4>3. covered \in 0..l /\ l \in 0..MaxDeltas /\ covered < l /\ covered' = covered + 1
        BY <4>1, <4>2
      <4> HIDE DEF l
      <4>4. QED BY <1>0, <4>3
    <3>2. CASE ~NextDelta
      <4>1. covered' \in {covered, 0, Len(text[active])}
        BY <1>5, <3>2 DEF Script, ConnectLive, ConnectDurable, ConnectStale, ConnectFails, TheEnd,
           TailBreaks, Refresh, RefreshFails, Finish, LiveFrom
      <4>2. QED BY <1>0, <1>1, <2>2, <4>1 DEF Typed
    <3>3. QED BY <3>1, <3>2
  <2>6. QED BY <1>3, <2>2, <2>3, <2>4, <2>5 DEF Typed
<1>6. QED BY <1>4, <1>5

(* The types hold at the start and are kept. *)
LEMMA TypedThroughout ==
  /\ Init => Typed
  /\ IInv /\ Conversed /\ Typed /\ [Next]_vars => Typed'
<1>1. ASSUME Init PROVE Typed
  <2>1. /\ owner = [e \in Executions |-> 0] /\ row = [e \in Executions |-> "absent"]
        /\ told = [e \in Executions |-> "no"] /\ text = [e \in Executions |-> <<>>]
        /\ hot = [e \in Executions |-> None]
        /\ session = 0 /\ content = <<>> /\ place = "idle" /\ covered = 0 /\ ending = "none" /\ slips = 0
    BY <1>1 DEF Init
  <2>2. /\ 0 \in 0..MaxExecutions /\ 0 \in 0..MaxDeltas /\ 0 \in 0..MaxSlips
        /\ MaxExecutions \in Nat /\ MaxDeltas \in Nat
    BY ConstantsAssumption
  <2>3. Total(text) <= MaxDeltas
    <3>1. \A n \in Executions : Len(text[n]) = 0 /\ Len(text[n]) \in Nat
      BY <2>1
    <3>2. PICK f \in [0..MaxExecutions -> Nat] :
            /\ f[0] = 0 /\ Total(text) = f[MaxExecutions]
            /\ \A n \in Executions : f[n] = f[n - 1] + Len(text[n])
      BY <3>1, TotalIs
    <3> DEFINE S == {n \in 0..MaxExecutions : f[n] = 0}
    <3>3. 0 \in S
      BY <2>2, <3>2
    <3>4. ASSUME NEW i \in 1..MaxExecutions, i - 1 \in S PROVE i \in S
      <4>1. i \in Executions /\ i \in 0..MaxExecutions /\ f[i - 1] = 0
        BY <2>2, <3>4 DEF Executions
      <4>2. f[i] = f[i - 1] + Len(text[i]) /\ Len(text[i]) = 0
        BY <3>1, <3>2, <4>1
      <4>3. f[i] = 0
        BY <4>1, <4>2
      <4>4. QED BY <4>1, <4>3
    <3>5. MaxExecutions \in 0..MaxExecutions
      BY <2>2
    <3> HIDE DEF S
    <3>6. MaxExecutions \in S
      <4>1. 0..MaxExecutions \subseteq S
        BY <2>2, <3>3, <3>4, LoopKeeps
      <4>2. QED BY <3>5, <4>1
    <3>7. QED BY <2>2, <3>2, <3>6 DEF S
  <2>4. QED BY <2>1, <2>2, <2>3 DEF Typed, Places
<1>2. ASSUME IInv, Conversed, Typed, [Next]_vars PROVE Typed'
  <2>1. CASE UNCHANGED vars
    BY <1>2, <2>1 DEF vars, backend, page, Typed
  <2>2. QED BY <1>2, <2>1, BackendTyped, UserTyped, ScriptTyped DEF Next
<1>3. QED BY <1>1, <1>2

(* A part of what may be streamed is a text. *)
LEMMA HeldIsText ==
  ASSUME NEW t, Len(t) \in Nat, Len(t) <= MaxDeltas, NEW ans, AnswerOf(t, ans), NEW c,
         c = ans \/ Held(t, ans, c)
  PROVE  c \in Texts
<1>1. ASSUME NEW n \in 0..Len(t) PROVE Deltas(n) \in Texts
  <2>1. n \in Nat /\ n <= MaxDeltas /\ MaxDeltas \in Nat
    BY ConstantsAssumption
  <2>2. Deltas(n) \in [1..n -> 1..MaxDeltas]
    BY <2>1 DEF Deltas
  <2>3. QED BY <2>1, <2>2, SeqDef DEF Texts
<1>2. ans \in Texts
  <2>1. CASE ans = <<>>
    BY <2>1 DEF Texts
  <2>2. CASE ans # <<>>
    <3>1. ans = Strip(t, Deltas(Len(t))) /\ WordsIn(t, Deltas(Len(t))) # {}
      BY <2>2 DEF AnswerOf, Strip
    <3>2. PICK a, b \in 1..Len(t) :
            /\ a <= b
            /\ Strip(t, Deltas(Len(t))) \in Seq(Nat) /\ Len(Strip(t, Deltas(Len(t)))) = b - a + 1
            /\ \A i \in 1..(b - a + 1) : Strip(t, Deltas(Len(t)))[i] = a + i - 1
      BY <3>1, StripOfDeltas
    <3>3. \A i \in 1..Len(ans) : ans[i] \in 1..MaxDeltas
      <4>1. MaxDeltas \in Nat /\ \A i \in 1..(b - a + 1) : a + i - 1 \in 1..MaxDeltas
        BY <3>2, ConstantsAssumption
      <4>2. QED BY <3>1, <3>2, <4>1
    <3>4. ans \in [1..Len(ans) -> 1..MaxDeltas] /\ Len(ans) \in Nat
      <4>1. ans \in Seq(Nat)
        BY <3>1, <3>2
      <4>2. ans \in [1..Len(ans) -> Nat] /\ Len(ans) \in Nat
        BY <4>1, LenProperties
      <4>3. QED BY <3>3, <4>2
    <3>5. QED BY <3>4, SeqDef DEF Texts
  <2>3. QED BY <2>1, <2>2
<1>3. QED BY <1>1, <1>2 DEF Held

(* Texts are texts and messages are messages, for any number of executions *)
(* and deltas.                                                             *)
THEOREM TypeCorrect == Spec => []TypeOK
<1>1. IInv /\ Conversed /\ Typed => TypeOK
  <2> SUFFICES ASSUME IInv, Conversed, Typed PROVE TypeOK
    OBVIOUS
  <2>1. ASSUME NEW e \in Executions
        PROVE  /\ Len(text[e]) \in Nat /\ Len(text[e]) <= MaxDeltas /\ AnswerOf(text[e], answer[e])
               /\ answer[e] \in Texts /\ hot[e] \in (0..MaxDeltas) \cup {None}
    <3>1. /\ Len(text[e]) \in Nat /\ Total(text) \in Nat /\ MaxDeltas \in Nat
          /\ Len(text[e]) <= Total(text) /\ Total(text) <= MaxDeltas
          /\ AnswerOf(text[e], answer[e]) /\ hot[e] \in (0..Len(text[e])) \cup {None}
      BY LengthsAre, ConstantsAssumption DEF IInv, Typed, Rows, RowOf
    <3>2. Len(text[e]) <= MaxDeltas
      BY <3>1
    <3>3. hot[e] \in (0..MaxDeltas) \cup {None}
      BY <3>1, <3>2
    <3>4. QED BY <3>1, <3>2, <3>3, HeldIsText
  <2>2. content \in Texts
    <3>1. CASE active = 0
      BY <3>1 DEF Typed, Texts
    <3>2. CASE active # 0
      <4>1. active \in Executions /\ Held(text[active], answer[active], content)
        BY <3>2, ExecutionsAre DEF IInv, Followed
      <4>2. QED BY <2>1, <4>1, HeldIsText
    <3>3. QED BY <3>1, <3>2
  <2>3. messages \in Seq(Message)
    <3>1. messages \in Seq(Notes) /\ \A i \in 1..Len(messages) : IsNote(row, text, answer, messages[i], created)
      BY DEF Conversed, Noted
    <3>2. ASSUME NEW m, IsNote(row, text, answer, m, created) PROVE m \in Message
      <4>1. m \in Notes /\ m.of \in Executions /\ m.kind \in {"question"} \cup Ends
        BY <3>2 DEF IsNote, Notes
      <4>2. m.content \in Texts
        <5>1. CASE m.kind \in Ends
          <6>1. Held(text[m.of], answer[m.of], m.content)
            BY <3>2, <5>1 DEF IsNote, IsAnswer
          <6>2. QED BY <2>1, <4>1, <6>1, HeldIsText
        <5>2. CASE m.kind \notin Ends
          <6>1. m.content = <<>>
            BY <3>2, <5>2 DEF IsNote
          <6>2. QED BY <6>1 DEF Texts
        <5>3. QED BY <5>1, <5>2
      <4>3. m = [of |-> m.of, kind |-> m.kind, content |-> m.content]
        BY <4>1 DEF Notes
      <4>4. QED BY <4>1, <4>2, <4>3 DEF Message
    <3>3. Len(messages) \in Nat /\ messages \in [1..Len(messages) -> Notes]
      BY <3>1, LenProperties
    <3>4. messages \in [1..Len(messages) -> Message]
      BY <3>1, <3>2, <3>3
    <3>5. QED BY <3>3, <3>4, SeqDef
  <2>4. /\ created \in 0..MaxExecutions /\ active \in 0..MaxExecutions
        /\ text \in [Executions -> Seq({"word", "blank"})]
        /\ answer \in [Executions -> Seq(Nat)] /\ DOMAIN hot = Executions
    BY DEF IInv, Rows, Followed
  <2>5. answer \in [Executions -> Texts]
    BY <2>1, <2>4
  <2>6. hot \in [Executions -> (0..MaxDeltas) \cup {None}]
    BY <2>1 DEF Typed
  <2>7. QED BY <2>2, <2>3, <2>4, <2>5, <2>6 DEF Typed, TypeOK
<1>2. IInv /\ Conversed /\ Typed /\ [Next]_vars => IInv' /\ Conversed' /\ Typed'
  BY NextIInv, NextConverses, TypedThroughout
<1>3. QED BY <1>1, <1>2, InitIInv, InitConverses, TypedThroughout, PTL DEF Spec
=============================================================================
