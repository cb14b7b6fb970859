-------------------------- MODULE Conversation_proofs --------------------------
(***************************************************************************)
(* What a conversation keeps.  The parts of this module, in order:          *)
(*   - induction, recursion and sums over numbers and sequences, stated     *)
(*     with sets in the place of predicates;                                *)
(*   - Sessions: the inductive invariant SessionsInv, one lemma for every   *)
(*     action, and the theorems on what is stored and remembered;           *)
(*   - AgentLoop, the turn: the inductive invariant TurnInv, and the        *)
(*     theorems on stored answers, bounded executions and kept questions;   *)
(*   - SessionRepair: each phase of the repair has one lemma that says what *)
(*     it establishes and keeps (ReorderIs, InsertIs, ...), which together  *)
(*     give a sound history; Settled says when a phase has nothing to do;   *)
(*   - AgentLoop, the requests: the inductive invariant RequestInv, and the *)
(*     theorem that providers accept the requests;                          *)
(*   - AgentLoop, the type of a turn;                                       *)
(*   - LoopGuard over a whole sequence of calls: GuardAt after each call.   *)
(***************************************************************************)
EXTENDS AgentLoop, Sessions, SequenceTheorems, FiniteSetTheorems, WellFoundedInduction, TLAPS

-----------------------------------------------------------------------------
(* Induction and recursion over numbers *)

\* A set of numbers that has a member has a least one.
LEMMA Least ==
    ASSUME NEW S \in SUBSET Nat, S # {}
    PROVE  \E x \in S : \A y \in S : x <= y
<1> DEFINE less == {ss \in Nat \X Nat : ss[1] < ss[2]}
<1>1. IsWellFoundedOn(less, Nat)
  BY NatLessThanWellFounded, Zenon DEF OpToRel
<1>2. PICK x \in S : \A y \in S : ~ (<<y, x>> \in less)
  <2> HIDE DEF less
  <2>1. QED
    BY <1>1, WFMin
<1>3. ASSUME NEW y \in S PROVE x <= y
  <2>1. x \in Nat /\ y \in Nat
    OBVIOUS
  <2>2. y < x => <<y, x>> \in less
    BY <2>1
  <2> HIDE DEF less
  <2>3. ~ (y < x)
    BY <1>2, <2>2
  <2>4. QED
    BY <2>1, <2>3
<1>4. QED
  BY <1>3

\* What holds of 0 and is passed on holds up to any number.
LEMMA Induction ==
    ASSUME NEW N \in Nat, NEW S, 0 \in S, \A n \in 0 .. (N - 1) : n \in S => n + 1 \in S
    PROVE  0 .. N \subseteq S
<1> DEFINE bad == {n \in 0 .. N : n \notin S}
<1>1. SUFFICES ASSUME bad # {} PROVE FALSE
  OBVIOUS
<1>2. PICK x \in bad : \A y \in bad : x <= y
  <2>1. bad \in SUBSET Nat
    OBVIOUS
  <2> HIDE DEF bad
  <2>2. QED
    BY <1>1, <2>1, Least
<1>3. x \in 0 .. N /\ x # 0 /\ x \notin S
  OBVIOUS
<1>4. x - 1 \notin bad
  BY <1>2, <1>3
<1>5. x - 1 \in S /\ x - 1 \in 0 .. (N - 1)
  BY <1>3, <1>4
<1>6. QED
  BY <1>3, <1>5

\* f starts at base, and step leads from each value to the next.
Recurs(f, N, X, base, step) ==
    f \in [0 .. N -> X] /\ f[0] = base /\ \A n \in 1 .. N : f[n] = step[<<n, f[n - 1]>>]

\* A function that is defined from its value before exists.
LEMMA Recursion ==
    ASSUME NEW N \in Nat, NEW X, NEW base \in X, NEW step \in [(1 .. N) \X X -> X]
    PROVE  \E f : Recurs(f, N, X, base, step)
<1> DEFINE OK(f, m) == f[0] = base /\ \A n \in 1 .. m : f[n] = step[<<n, f[n - 1]>>]
           S == {m \in 0 .. N : \E f \in [0 .. m -> X] : OK(f, m)}
<1>1. 0 \in S
  <2> DEFINE g == [n \in 0 .. 0 |-> base]
  <2>1. g \in [0 .. 0 -> X] /\ OK(g, 0)
    OBVIOUS
  <2>2. 0 \in 0 .. N
    OBVIOUS
  <2> HIDE DEF g, OK
  <2>3. QED
    BY <2>1, <2>2
<1>2. ASSUME NEW m \in 0 .. (N - 1), m \in S PROVE m + 1 \in S
  <2>1. PICK f \in [0 .. m -> X] : OK(f, m)
    BY <1>2
  <2>2. step[<<m + 1, f[m]>>] \in X
    OBVIOUS
  <2> DEFINE g == [n \in 0 .. (m + 1) |-> IF n = m + 1 THEN step[<<m + 1, f[m]>>] ELSE f[n]]
  <2>3. g \in [0 .. (m + 1) -> X]
    BY <2>2
  <2>4. OK(g, m + 1)
    <3>1. g[0] = base
      BY <2>1
    <3>2. \A n \in 1 .. m : g[n] = f[n] /\ g[n - 1] = f[n - 1]
      OBVIOUS
    <3>3. g[m + 1] = step[<<m + 1, g[m + 1 - 1]>>]
      <4>1. m + 1 - 1 = m /\ g[m] = f[m] /\ g[m + 1] = step[<<m + 1, f[m]>>]
        OBVIOUS
      <4> HIDE DEF g
      <4>2. QED
        BY <4>1
    <3>4. ASSUME NEW n \in 1 .. (m + 1) PROVE g[n] = step[<<n, g[n - 1]>>]
      <4>1. CASE n = m + 1
        BY <3>3, <4>1
      <4>2. CASE n # m + 1
        BY <2>1, <3>2, <4>2
      <4>3. QED
        BY <4>1, <4>2
    <3>5. QED
      BY <3>1, <3>4
  <2>5. m + 1 \in 0 .. N
    OBVIOUS
  <2> HIDE DEF g, OK
  <2>6. QED
    BY <2>3, <2>4, <2>5
<1>3. 0 .. N \subseteq S
  <2> HIDE DEF S
  <2>1. QED
    BY <1>1, <1>2, Induction
<1>4. N \in S
  <2>1. N \in 0 .. N
    OBVIOUS
  <2> HIDE DEF S
  <2>2. QED
    BY <1>3, <2>1
<1>5. PICK f \in [0 .. N -> X] : OK(f, N)
  BY <1>4
<1>6. QED
  BY <1>5 DEF Recurs

-----------------------------------------------------------------------------
(* The sum of a function over a finite set *)

Pick(s) == CHOOSE x \in s : TRUE

LEMMA PickSmaller ==
    ASSUME NEW S, IsFiniteSet(S), NEW s \in SUBSET S
    PROVE  /\ Cardinality(S) \in Nat /\ Cardinality(s) \in Nat /\ Cardinality(s) <= Cardinality(S)
           /\ Cardinality(s) = 0 => s = {}
           /\ s # {} => /\ Pick(s) \in s /\ s \ {Pick(s)} \in SUBSET S
                        /\ Cardinality(s \ {Pick(s)}) = Cardinality(s) - 1
<1>1. IsFiniteSet(s) /\ Cardinality(s) <= Cardinality(S)
  BY FS_Subset
<1>2. Cardinality(S) \in Nat /\ Cardinality(s) \in Nat
  BY <1>1, FS_CardinalityType
<1>3. Cardinality(s) = 0 => s = {}
  BY <1>1, FS_EmptySet
<1>4. ASSUME s # {}
      PROVE  Pick(s) \in s /\ s \ {Pick(s)} \in SUBSET S /\ Cardinality(s \ {Pick(s)}) = Cardinality(s) - 1
  <2>1. Pick(s) \in s
    BY <1>4 DEF Pick
  <2> HIDE DEF Pick
  <2>2. QED
    BY <1>1, <2>1, FS_RemoveElement
<1>5. QED
  BY <1>1, <1>2, <1>3, <1>4

\* What holds of the empty set and is passed on by the element that Pick picks
\* holds of every subset of a finite set.
LEMMA SubsetInduction ==
    ASSUME NEW S, IsFiniteSet(S), NEW P, {} \in P,
           \A s \in SUBSET S : s # {} /\ s \ {Pick(s)} \in P => s \in P
    PROVE  SUBSET S \subseteq P
<1> DEFINE N == Cardinality(S)
           Q == {n \in Nat : \A s \in SUBSET S : Cardinality(s) <= n => s \in P}
<1>1. N \in Nat
  BY FS_CardinalityType
<1>2. 0 \in Q
  <2>1. ASSUME NEW s \in SUBSET S, Cardinality(s) <= 0 PROVE s \in P
    <3>0. Cardinality(s) \in Nat /\ (Cardinality(s) = 0 => s = {})
      BY PickSmaller, Zenon
    <3>1. s = {}
      BY <2>1, <3>0
    <3>2. QED
      BY <3>1
  <2>2. QED
    BY <2>1
<1>3. ASSUME NEW n \in 0 .. (N - 1), n \in Q PROVE n + 1 \in Q
  <2>1. ASSUME NEW s \in SUBSET S, Cardinality(s) <= n + 1 PROVE s \in P
    <3>1. CASE s = {}
      BY <3>1
    <3>2. CASE s # {}
      <4>1. s \ {Pick(s)} \in SUBSET S /\ Cardinality(s \ {Pick(s)}) = Cardinality(s) - 1 /\ Cardinality(s) \in Nat
        BY <3>2, PickSmaller
      <4>2. Cardinality(s \ {Pick(s)}) <= n
        BY <2>1, <4>1
      <4>3. QED
        BY <1>3, <3>2, <4>1, <4>2
    <3>3. QED
      BY <3>1, <3>2
  <2>2. QED
    BY <2>1
<1>4. N \in Q
  <2>1. 0 .. N \subseteq Q
    <3> HIDE DEF Q, N
    <3>1. QED
      BY <1>1, <1>2, <1>3, Induction
  <2>2. N \in 0 .. N
    BY <1>1
  <2> HIDE DEF Q, N
  <2>3. QED
    BY <2>1, <2>2
<1>5. ASSUME NEW s \in SUBSET S PROVE s \in P
  <2>1. Cardinality(s) <= N
    BY PickSmaller
  <2>2. QED
    BY <1>4, <2>1
<1>6. QED
  BY <1>5

\* g sums f up over each subset of S.
SumsUp(g, f, S) ==
    /\ g \in [SUBSET S -> Nat]
    /\ \A s \in SUBSET S : g[s] = IF s = {} THEN 0 ELSE f[Pick(s)] + g[s \ {Pick(s)}]

LEMMA SumExists ==
    ASSUME NEW S, IsFiniteSet(S), NEW f \in [S -> Nat]
    PROVE  \E g : SumsUp(g, f, S)
<1> DEFINE N == Cardinality(S)
           X == [SUBSET S -> Nat]
           body(h, s) == IF s = {} THEN 0 ELSE f[Pick(s)] + h[s \ {Pick(s)}]
           step == [p \in (1 .. (N + 1)) \X X |-> [s \in SUBSET S |-> body(p[2], s)]]
           zero == [s \in SUBSET S |-> 0]
<1>1. N \in Nat /\ N + 1 \in Nat
  BY FS_CardinalityType
<1>2. ASSUME NEW h \in X, NEW s \in SUBSET S PROVE body(h, s) \in Nat
  <2>1. CASE s = {}
    BY <2>1
  <2>2. CASE s # {}
    <3>1. Pick(s) \in S /\ s \ {Pick(s)} \in SUBSET S
      BY <2>2, PickSmaller
    <3>2. f[Pick(s)] \in Nat /\ h[s \ {Pick(s)}] \in Nat
      BY <3>1
    <3>3. QED
      BY <2>2, <3>2
  <2>3. QED
    BY <2>1, <2>2
<1>3. zero \in X
  OBVIOUS
<1>4. step \in [(1 .. (N + 1)) \X X -> X]
  <2>1. ASSUME NEW p \in (1 .. (N + 1)) \X X PROVE [s \in SUBSET S |-> body(p[2], s)] \in X
    <3>1. p[2] \in X
      OBVIOUS
    <3> HIDE DEF body
    <3>2. QED
      BY <1>2, <3>1
  <2> HIDE DEF body, X
  <2>2. QED
    BY <2>1
<1>5. ASSUME NEW n \in 1 .. (N + 1), NEW h \in X, NEW s \in SUBSET S PROVE step[<<n, h>>][s] = body(h, s)
  <2> HIDE DEF body, X
  <2>1. QED
    OBVIOUS
<1>6. PICK F : Recurs(F, N + 1, X, zero, step)
  <2> HIDE DEF step, X, zero, N
  <2>1. QED
    BY <1>1, <1>3, <1>4, Recursion
<1>7. /\ F \in [0 .. (N + 1) -> X] /\ F[0] = zero /\ \A n \in 1 .. (N + 1) : F[n] = step[<<n, F[n - 1]>>]
  <2> HIDE DEF step, X, zero, N
  <2>1. QED
    BY <1>6 DEF Recurs
<1>8. ASSUME NEW n \in 0 .. N, NEW s \in SUBSET S
      PROVE  F[n] \in X /\ F[n + 1][s] = body(F[n], s)
  <2>1. PICK k \in 1 .. (N + 1) : k = n + 1 /\ k - 1 = n
    <3> HIDE DEF N
    <3>1. n + 1 \in 1 .. (N + 1) /\ n + 1 - 1 = n
      BY <1>1
    <3>2. QED
      BY <3>1
  <2>2. n \in 0 .. (N + 1)
    <3> HIDE DEF N
    <3>1. QED
      BY <1>1
  <2>3. F[n] \in X
    <3> HIDE DEF X, N, step
    <3>1. QED
      BY <1>7, <2>2
  <2>4. F[k] = step[<<k, F[k - 1]>>]
    <3> HIDE DEF X, N, step
    <3>1. QED
      BY <1>7, <2>1
  <2> HIDE DEF X, N, step, body
  <2>5. F[n + 1] = step[<<k, F[n]>>]
    BY <2>1, <2>4
  <2>6. QED
    BY <1>5, <2>1, <2>3, <2>5
<1> DEFINE Q == {n \in Nat : \A s \in SUBSET S : Cardinality(s) <= n => F[n + 1][s] = F[n][s]}
<1>9. 0 \in Q
  <2>1. ASSUME NEW s \in SUBSET S, Cardinality(s) <= 0 PROVE F[0 + 1][s] = F[0][s]
    <3>0. Cardinality(s) \in Nat /\ (Cardinality(s) = 0 => s = {})
      BY PickSmaller, Zenon
    <3>1. s = {}
      BY <2>1, <3>0
    <3>2. 0 \in 0 .. N
      <4> HIDE DEF N
      <4>1. QED
        BY <1>1
    <3>3. F[0 + 1][s] = body(F[0], s)
      <4> HIDE DEF body, N
      <4>1. QED
        BY <1>8, <3>2
    <3>4. F[0][s] = 0
      BY <1>7
    <3>5. QED
      BY <3>1, <3>3, <3>4
  <2>2. QED
    BY <2>1
<1>10. ASSUME NEW n \in 0 .. (N - 1), n \in Q PROVE n + 1 \in Q
  <2>0. n \in 0 .. N /\ n + 1 \in 0 .. N /\ n + 1 \in Nat
    <3> HIDE DEF N
    <3>1. QED
      BY <1>1
  <2>1. ASSUME NEW s \in SUBSET S, Cardinality(s) <= n + 1 PROVE F[n + 1 + 1][s] = F[n + 1][s]
    <3>1. F[n + 1 + 1][s] = body(F[n + 1], s) /\ F[n + 1][s] = body(F[n], s)
      <4> HIDE DEF body, N
      <4>1. QED
        BY <1>8, <2>0
    <3>2. CASE s = {}
      BY <3>1, <3>2
    <3>3. CASE s # {}
      <4>1. s \ {Pick(s)} \in SUBSET S /\ Cardinality(s \ {Pick(s)}) = Cardinality(s) - 1 /\ Cardinality(s) \in Nat
        BY <3>3, PickSmaller
      <4>2. Cardinality(s \ {Pick(s)}) <= n
        BY <2>1, <4>1
      <4>3. F[n + 1][s \ {Pick(s)}] = F[n][s \ {Pick(s)}]
        BY <1>10, <4>1, <4>2
      <4>4. QED
        BY <3>1, <3>3, <4>3
    <3>4. QED
      BY <3>2, <3>3
  <2>2. QED
    BY <2>0, <2>1
<1>11. N \in Q
  <2>1. 0 .. N \subseteq Q
    <3> HIDE DEF Q, N
    <3>1. QED
      BY <1>1, <1>9, <1>10, Induction
  <2>2. N \in 0 .. N
    BY <1>1
  <2> HIDE DEF Q, N
  <2>3. QED
    BY <2>1, <2>2
<1>12. N \in 0 .. N
  <2> HIDE DEF N
  <2>1. QED
    BY <1>1
<1>13. ASSUME NEW s \in SUBSET S PROVE F[N][s] = body(F[N], s)
  <2>1. Cardinality(s) <= N
    BY PickSmaller
  <2>2. F[N + 1][s] = F[N][s]
    <3> HIDE DEF N
    <3>1. QED
      BY <1>11, <2>1
  <2>3. F[N + 1][s] = body(F[N], s)
    <3> HIDE DEF N, body
    <3>1. QED
      BY <1>8, <1>12
  <2>4. QED
    BY <2>2, <2>3
<1>14. F[N] \in X
  <2> HIDE DEF X, N, body
  <2>1. {} \in SUBSET S
    OBVIOUS
  <2>2. QED
    BY <1>8, <1>12, <2>1
<1> DEFINE g == F[N]
<1>15. g \in [SUBSET S -> Nat] /\ \A s \in SUBSET S : g[s] = IF s = {} THEN 0 ELSE f[Pick(s)] + g[s \ {Pick(s)}]
  BY <1>13, <1>14
<1> HIDE DEF g
<1>16. SumsUp(g, f, S)
  BY <1>15 DEF SumsUp
<1>17. QED
  BY <1>16

LEMMA SumIs ==
    ASSUME NEW S, IsFiniteSet(S), NEW f \in [S -> Nat]
    PROVE  \E g : SumsUp(g, f, S) /\ SumFunction(f) = g[S]
<1> DEFINE body(h, s) == IF s = {} THEN 0 ELSE f[Pick(s)] + h[s \ {Pick(s)}]
           Is(h) == h = [s \in SUBSET S |-> body(h, s)]
<1>1. PICK g : SumsUp(g, f, S)
  BY SumExists
<1>2. g \in [SUBSET S -> Nat] /\ \A s \in SUBSET S : g[s] = body(g, s)
  BY <1>1 DEF SumsUp
<1>3. Is(g)
  <2> HIDE DEF body
  <2>1. QED
    BY <1>2
<1> DEFINE k == CHOOSE h : Is(h)
<1>4. Is(k)
  <2> HIDE DEF Is
  <2>1. QED
    BY <1>3, Zenon
<1>5. SumFunction(f) = k[S]
  <2>1. DOMAIN f = S
    OBVIOUS
  <2>2. QED
    BY <2>1 DEF SumFunction, SumFunctionOnSet, FoldFunctionOnSet, MapThenFoldSet, Pick
<1> HIDE DEF k
<1>6. \A s \in SUBSET S : k[s] = body(k, s)
  <2> HIDE DEF body
  <2>1. QED
    BY <1>4
<1> DEFINE P == {s \in SUBSET S : k[s] = g[s]}
<1>7. {} \in P
  BY <1>2, <1>6
<1>8. ASSUME NEW s \in SUBSET S, s # {}, s \ {Pick(s)} \in P PROVE s \in P
  BY <1>2, <1>6, <1>8
<1>9. SUBSET S \subseteq P
  <2> HIDE DEF P
  <2>1. QED
    BY <1>7, <1>8, SubsetInduction
<1>10. k[S] = g[S]
  BY <1>9
<1>11. QED
  BY <1>1, <1>5, <1>10

\* One more of one element is one more in the sum.
LEMMA SumStep ==
    ASSUME NEW S, IsFiniteSet(S), NEW f \in [S -> Nat], NEW c \in S
    PROVE  /\ SumFunction(f) \in Nat
           /\ SumFunction([f EXCEPT ![c] = @ + 1]) = SumFunction(f) + 1
<1> DEFINE e == [f EXCEPT ![c] = @ + 1]
<1>1. e \in [S -> Nat] /\ e[c] = f[c] + 1 /\ \A x \in S : x # c => e[x] = f[x]
  OBVIOUS
<1> HIDE DEF e
<1>2. PICK g : SumsUp(g, f, S) /\ SumFunction(f) = g[S]
  BY SumIs
<1>3. PICK h : SumsUp(h, e, S) /\ SumFunction(e) = h[S]
  BY <1>1, SumIs
<1>4. /\ g \in [SUBSET S -> Nat]
      /\ \A s \in SUBSET S : g[s] = IF s = {} THEN 0 ELSE f[Pick(s)] + g[s \ {Pick(s)}]
  BY <1>2 DEF SumsUp
<1>5. /\ h \in [SUBSET S -> Nat]
      /\ \A s \in SUBSET S : h[s] = IF s = {} THEN 0 ELSE e[Pick(s)] + h[s \ {Pick(s)}]
  BY <1>3 DEF SumsUp
<1> DEFINE P == {s \in SUBSET S : h[s] = g[s] + (IF c \in s THEN 1 ELSE 0)}
<1>6. {} \in P
  <2>1. {} \in SUBSET S
    OBVIOUS
  <2>2. g[{}] = 0 /\ h[{}] = 0
    BY <1>4, <1>5, <2>1
  <2>3. QED
    BY <2>1, <2>2
<1>7. ASSUME NEW s \in SUBSET S, s # {}, s \ {Pick(s)} \in P PROVE s \in P
  <2> DEFINE x == Pick(s)
             r == s \ {x}
  <2>1. x \in s /\ x \in S /\ r \in SUBSET S
    BY <1>7, PickSmaller
  <2>2. g[s] = f[x] + g[r] /\ h[s] = e[x] + h[r] /\ h[r] = g[r] + (IF c \in r THEN 1 ELSE 0)
    BY <1>4, <1>5, <1>7
  <2>3. c \in r <=> c \in s /\ c # x
    OBVIOUS
  <2>4. f[x] \in Nat /\ g[r] \in Nat
    BY <1>4, <2>1
  <2> HIDE DEF x, r
  <2>5. h[s] = g[s] + (IF c \in s THEN 1 ELSE 0)
    <3>1. CASE c = x
      BY <1>1, <2>1, <2>2, <2>3, <2>4, <3>1
    <3>2. CASE c # x
      BY <1>1, <2>1, <2>2, <2>3, <2>4, <3>2
    <3>3. QED
      BY <3>1, <3>2
  <2>6. QED
    BY <2>5
<1>8. SUBSET S \subseteq P
  <2> HIDE DEF P
  <2>1. QED
    BY <1>6, <1>7, SubsetInduction
<1>9. h[S] = g[S] + 1
  BY <1>8
<1>10. g[S] \in Nat
  BY <1>4
<1>11. QED
  BY <1>2, <1>3, <1>9, <1>10 DEF e

LEMMA SumZero ==
    ASSUME NEW S, IsFiniteSet(S)
    PROVE  SumFunction([c \in S |-> 0]) = 0
<1> DEFINE f == [c \in S |-> 0]
<1>1. f \in [S -> Nat] /\ \A c \in S : f[c] = 0
  OBVIOUS
<1> HIDE DEF f
<1>2. PICK g : SumsUp(g, f, S) /\ SumFunction(f) = g[S]
  BY <1>1, SumIs
<1>3. /\ g \in [SUBSET S -> Nat]
      /\ \A s \in SUBSET S : g[s] = IF s = {} THEN 0 ELSE f[Pick(s)] + g[s \ {Pick(s)}]
  BY <1>2 DEF SumsUp
<1> DEFINE P == {s \in SUBSET S : g[s] = 0}
<1>4. {} \in P
  BY <1>3
<1>5. ASSUME NEW s \in SUBSET S, s # {}, s \ {Pick(s)} \in P PROVE s \in P
  <2>1. Pick(s) \in S
    BY <1>5, PickSmaller
  <2>2. QED
    BY <1>1, <1>3, <1>5, <2>1
<1>6. SUBSET S \subseteq P
  <2> HIDE DEF P
  <2>1. QED
    BY <1>4, <1>5, SubsetInduction
<1>7. QED
  BY <1>2, <1>6 DEF f

-----------------------------------------------------------------------------
(* Retain: the elements at some indices, in order *)

\* f[n] holds the elements of s at the indices in I up to n.
KeepsUpTo(f, s, I, T) ==
    /\ f \in [0 .. Len(s) -> Seq(T)] /\ f[0] = <<>>
    /\ \A n \in 1 .. Len(s) : f[n] = IF n \in I THEN Append(f[n - 1], s[n]) ELSE f[n - 1]

LEMMA RetainStep ==
    ASSUME NEW T, NEW s \in Seq(T), NEW I
    PROVE  \E f : KeepsUpTo(f, s, I, T) /\ Retain(s, I) = f[Len(s)]
<1> DEFINE step == [p \in (1 .. Len(s)) \X Seq(T) |-> IF p[1] \in I THEN Append(p[2], s[p[1]]) ELSE p[2]]
           body(f, n) == IF n = 0 THEN <<>> ELSE IF n \in I THEN Append(f[n - 1], s[n]) ELSE f[n - 1]
           Is(f) == f = [n \in 0 .. Len(s) |-> body(f, n)]
<1>1. Len(s) \in Nat /\ <<>> \in Seq(T)
  OBVIOUS
<1>2. step \in [(1 .. Len(s)) \X Seq(T) -> Seq(T)]
  <2>1. ASSUME NEW p \in (1 .. Len(s)) \X Seq(T) PROVE step[p] \in Seq(T)
    <3>1. p[1] \in 1 .. Len(s) /\ p[2] \in Seq(T) /\ s[p[1]] \in T
      OBVIOUS
    <3>2. QED
      BY <3>1
  <2>2. QED
    BY <2>1
<1>3. PICK f : Recurs(f, Len(s), Seq(T), <<>>, step)
  <2> HIDE DEF step
  <2>1. QED
    BY <1>1, <1>2, Recursion, Zenon
<1>4. f \in [0 .. Len(s) -> Seq(T)] /\ f[0] = <<>> /\ \A n \in 1 .. Len(s) : f[n] = step[<<n, f[n - 1]>>]
  <2> HIDE DEF step
  <2>1. QED
    BY <1>3 DEF Recurs
<1>5. ASSUME NEW n \in 0 .. Len(s) PROVE f[n] = body(f, n)
  <2>1. CASE n = 0
    BY <1>4, <2>1
  <2>2. CASE n # 0
    <3>1. f[n - 1] \in Seq(T) /\ n \in 1 .. Len(s)
      BY <1>4, <2>2
    <3>2. step[<<n, f[n - 1]>>] = IF n \in I THEN Append(f[n - 1], s[n]) ELSE f[n - 1]
      BY <3>1
    <3> HIDE DEF step
    <3>3. QED
      BY <1>4, <2>2, <3>1, <3>2
  <2>3. QED
    BY <2>1, <2>2
<1>6. Is(f)
  <2> HIDE DEF body
  <2>1. QED
    BY <1>4, <1>5
<1> DEFINE g == CHOOSE h : Is(h)
<1>7. Is(g)
  <2> HIDE DEF Is
  <2>1. QED
    BY <1>6, Zenon
<1>8. Retain(s, I) = g[Len(s)]
  BY DEF Retain
<1> HIDE DEF g
<1>9. g[0] = <<>> /\ DOMAIN g = 0 .. Len(s)
  BY <1>1, <1>7
<1>10. ASSUME NEW n \in 1 .. Len(s)
       PROVE  g[n] = IF n \in I THEN Append(g[n - 1], s[n]) ELSE g[n - 1]
  <2>1. n \in 0 .. Len(s) /\ n # 0
    BY <1>1
  <2>2. g[n] = body(g, n)
    <3> HIDE DEF body
    <3>1. QED
      BY <1>7, <2>1
  <2>3. QED
    BY <2>1, <2>2
<1>11. ASSUME NEW n \in 0 .. Len(s) PROVE g[n] \in Seq(T)
  <2> DEFINE S == {k \in 0 .. Len(s) : g[k] \in Seq(T)}
  <2>1. 0 \in S
    <3>1. 0 \in 0 .. Len(s)
      BY <1>1
    <3>2. g[0] \in Seq(T)
      BY <1>1, <1>9, Zenon
    <3>3. QED
      BY <3>1, <3>2, Zenon
  <2>2. ASSUME NEW k \in 0 .. (Len(s) - 1), k \in S PROVE k + 1 \in S
    <3>1. k + 1 \in 1 .. Len(s) /\ s[k + 1] \in T /\ k + 1 - 1 = k /\ k + 1 \in 0 .. Len(s)
      BY <1>1
    <3>2. g[k + 1] = IF k + 1 \in I THEN Append(g[k], s[k + 1]) ELSE g[k]
      BY <1>10, <3>1
    <3>3. g[k] \in Seq(T)
      BY <2>2
    <3>4. g[k + 1] \in Seq(T)
      <4>1. \A q \in Seq(T), e \in T : Append(q, e) \in Seq(T)
        OBVIOUS
      <4>2. QED
        BY <3>1, <3>2, <3>3, <4>1, Zenon
    <3>5. QED
      BY <3>1, <3>4, Zenon
  <2>3. 0 .. Len(s) \subseteq S
    <3> HIDE DEF S
    <3>1. QED
      BY <1>1, <2>1, <2>2, Induction
  <2>4. QED
    BY <2>3
<1>12. g \in [0 .. Len(s) -> Seq(T)]
  <2>1. g = [n \in 0 .. Len(s) |-> body(g, n)]
    BY <1>7
  <2>2. g = [n \in 0 .. Len(s) |-> g[n]]
    <3> HIDE DEF body
    <3>1. QED
      BY <2>1
  <2>3. QED
    BY <1>11, <2>2
<1>13. KeepsUpTo(g, s, I, T)
  BY <1>9, <1>10, <1>12 DEF KeepsUpTo
<1>14. QED
  BY <1>8, <1>13

\* r holds the elements of s at the indices in I, in order.
Picked(s, I, r) ==
    \E pos \in [1 .. Len(r) -> 1 .. Len(s)] :
        /\ \A k \in 1 .. Len(r) : pos[k] \in I /\ r[k] = s[pos[k]]
        /\ \A k, l \in 1 .. Len(r) : k < l => pos[k] < pos[l]
        /\ \A i \in 1 .. Len(s) : i \in I => \E k \in 1 .. Len(r) : pos[k] = i

LEMMA RetainPicks ==
    ASSUME NEW T, NEW s \in Seq(T), NEW I
    PROVE  Retain(s, I) \in Seq(T) /\ Picked(s, I, Retain(s, I))
<1>0. PICK f : KeepsUpTo(f, s, I, T) /\ Retain(s, I) = f[Len(s)]
  BY RetainStep, Zenon
<1>1. /\ f \in [0 .. Len(s) -> Seq(T)] /\ f[0] = <<>>
      /\ \A n \in 1 .. Len(s) : f[n] = IF n \in I THEN Append(f[n - 1], s[n]) ELSE f[n - 1]
  BY <1>0 DEF KeepsUpTo
<1> DEFINE At(r, n, pos) ==
               /\ pos \in [1 .. Len(r) -> 1 .. n]
               /\ \A k \in 1 .. Len(r) : pos[k] \in I /\ r[k] = s[pos[k]]
               /\ \A k, l \in 1 .. Len(r) : k < l => pos[k] < pos[l]
               /\ \A i \in 1 .. n : i \in I => \E k \in 1 .. Len(r) : pos[k] = i
           S == {n \in 0 .. Len(s) : \E pos : At(f[n], n, pos)}
<1>2. 0 \in S
  <2>1. At(<<>>, 0, <<>>)
    OBVIOUS
  <2>2. 0 \in 0 .. Len(s)
    OBVIOUS
  <2> HIDE DEF At
  <2>3. QED
    BY <1>1, <2>1, <2>2
<1>3. ASSUME NEW n \in 0 .. (Len(s) - 1), n \in S PROVE n + 1 \in S
  <2>1. PICK pos : At(f[n], n, pos)
    BY <1>3
  <2>2. n + 1 \in 1 .. Len(s) /\ n + 1 - 1 = n /\ n \in 0 .. Len(s) /\ f[n] \in Seq(T) /\ s[n + 1] \in T
    BY <1>1
  <2> HIDE DEF At
  <2>2b. f[n + 1] = IF n + 1 \in I THEN Append(f[n], s[n + 1]) ELSE f[n]
    BY <1>1, <2>2
  <2> USE DEF At
  <2>3. CASE n + 1 \notin I
    <3>1. f[n + 1] = f[n]
      BY <2>2b, <2>3, Zenon
    <3>2. At(f[n], n + 1, pos)
      BY <2>1, <2>2, <2>3
    <3> HIDE DEF At
    <3>3. QED
      BY <2>2, <3>1, <3>2
  <2>4. CASE n + 1 \in I
    <3> DEFINE r == Append(f[n], s[n + 1])
               len == Len(f[n])
               to == [k \in 1 .. (len + 1) |-> IF k = len + 1 THEN n + 1 ELSE pos[k]]
    <3>1. f[n + 1] = r
      BY <2>2b, <2>4, Zenon
    <3>2. /\ len \in Nat /\ Len(r) = len + 1 /\ r[len + 1] = s[n + 1]
          /\ \A k \in 1 .. len : r[k] = f[n][k]
      BY <2>2
    <3>3. At(r, n + 1, to)
      <4> HIDE DEF r
      <4>1. to \in [1 .. Len(r) -> 1 .. (n + 1)]
        BY <2>1, <3>2
      <4>2. \A k \in 1 .. Len(r) : to[k] \in I /\ r[k] = s[to[k]]
        BY <2>1, <2>4, <3>2
      <4>3. \A k, l \in 1 .. Len(r) : k < l => to[k] < to[l]
        <5>1. ASSUME NEW k \in 1 .. Len(r), NEW l \in 1 .. Len(r), k < l PROVE to[k] < to[l]
          <6>1. k \in 1 .. len
            BY <3>2, <5>1
          <6>1a. to[k] = pos[k] /\ pos[k] \in 1 .. n
            <7>1. to[k] = pos[k]
              BY <3>2, <6>1
            <7>2. pos[k] \in 1 .. n
              BY <2>1, <6>1
            <7>3. QED
              BY <7>1, <7>2
          <6>2. CASE l = len + 1
            BY <3>2, <6>1, <6>1a, <6>2
          <6>3. CASE l # len + 1
            BY <2>1, <3>2, <5>1, <6>1, <6>1a, <6>3
          <6>4. QED
            BY <6>2, <6>3
        <5>2. QED
          BY <5>1
      <4>4. \A i \in 1 .. (n + 1) : i \in I => \E k \in 1 .. Len(r) : to[k] = i
        <5>1. ASSUME NEW i \in 1 .. (n + 1), i \in I PROVE \E k \in 1 .. Len(r) : to[k] = i
          <6>1. CASE i = n + 1
            <7>1. len + 1 \in 1 .. Len(r) /\ to[len + 1] = n + 1
              BY <3>2
            <7>2. QED
              BY <6>1, <7>1
          <6>2. CASE i # n + 1
            <7>1. PICK k \in 1 .. len : pos[k] = i
              BY <2>1, <5>1, <6>2
            <7>2. k \in 1 .. Len(r) /\ to[k] = i
              BY <3>2, <7>1
            <7>3. QED
              BY <7>2
          <6>3. QED
            BY <6>1, <6>2
        <5>2. QED
          BY <5>1
      <4> HIDE DEF to
      <4>5. QED
        BY <4>1, <4>2, <4>3, <4>4
    <3> HIDE DEF At, to, r
    <3>4. QED
      BY <2>2, <3>1, <3>3
  <2>5. QED
    BY <2>3, <2>4
<1>4. Len(s) \in S
  <2> HIDE DEF S
  <2>1. Len(s) \in Nat
    OBVIOUS
  <2>2. Len(s) \in 0 .. Len(s)
    BY <2>1
  <2>3. QED
    BY <1>2, <1>3, <2>1, <2>2, Induction
<1>5. PICK pos : At(f[Len(s)], Len(s), pos)
  BY <1>4
<1>6. f[Len(s)] \in Seq(T)
  BY <1>1
<1>7. Picked(s, I, f[Len(s)])
  BY <1>5 DEF Picked
<1>8. QED
  BY <1>0, <1>6, <1>7

\* What Retain keeps is in s at an index in I, and what is there is kept.
LEMMA RetainElements ==
    ASSUME NEW T, NEW s \in Seq(T), NEW I
    PROVE  /\ Retain(s, I) \in Seq(T)
           /\ \A k \in 1 .. Len(Retain(s, I)) : \E i \in 1 .. Len(s) : i \in I /\ Retain(s, I)[k] = s[i]
           /\ \A i \in 1 .. Len(s) : i \in I => \E k \in 1 .. Len(Retain(s, I)) : Retain(s, I)[k] = s[i]
<1> DEFINE r == Retain(s, I)
<1>1. r \in Seq(T) /\ Picked(s, I, r)
  BY RetainPicks
<1> HIDE DEF r
<1>2. PICK pos \in [1 .. Len(r) -> 1 .. Len(s)] :
          /\ \A k \in 1 .. Len(r) : pos[k] \in I /\ r[k] = s[pos[k]]
          /\ \A i \in 1 .. Len(s) : i \in I => \E k \in 1 .. Len(r) : pos[k] = i
  BY <1>1 DEF Picked
<1>3. \A k \in 1 .. Len(r) : \E i \in 1 .. Len(s) : i \in I /\ r[k] = s[i]
  BY <1>2
<1>4. \A i \in 1 .. Len(s) : i \in I => \E k \in 1 .. Len(r) : r[k] = s[i]
  BY <1>2
<1>5. QED
  BY <1>1, <1>3, <1>4 DEF r

\* Two neighbours that are both kept stay neighbours, and the last stays last.
LEMMA RetainNeighbours ==
    ASSUME NEW T, NEW s \in Seq(T), NEW I
    PROVE  /\ \A i \in 1 .. (Len(s) - 1) : i \in I /\ i + 1 \in I =>
                  \E k \in 1 .. (Len(Retain(s, I)) - 1) :
                      Retain(s, I)[k] = s[i] /\ Retain(s, I)[k + 1] = s[i + 1]
           /\ Len(s) \in I /\ s # <<>> =>
                  Retain(s, I) # <<>> /\ Retain(s, I)[Len(Retain(s, I))] = s[Len(s)]
<1> DEFINE r == Retain(s, I)
<1>1. r \in Seq(T) /\ Picked(s, I, r)
  BY RetainPicks
<1> HIDE DEF r
<1>2. Len(r) \in Nat /\ Len(s) \in Nat /\ (s # <<>> => Len(s) # 0) /\ (Len(r) # 0 => r # <<>>)
  BY <1>1
<1>3. PICK pos \in [1 .. Len(r) -> 1 .. Len(s)] :
          /\ \A k \in 1 .. Len(r) : pos[k] \in I /\ r[k] = s[pos[k]]
          /\ \A k, l \in 1 .. Len(r) : k < l => pos[k] < pos[l]
          /\ \A i \in 1 .. Len(s) : i \in I => \E k \in 1 .. Len(r) : pos[k] = i
  BY <1>1 DEF Picked
<1>4. ASSUME NEW i \in 1 .. (Len(s) - 1), i \in I, i + 1 \in I
      PROVE  \E k \in 1 .. (Len(r) - 1) : r[k] = s[i] /\ r[k + 1] = s[i + 1]
  <2>1. PICK k \in 1 .. Len(r) : pos[k] = i
    BY <1>2, <1>3, <1>4
  <2>2. PICK l \in 1 .. Len(r) : pos[l] = i + 1
    <3>1. i + 1 \in 1 .. Len(s)
      BY <1>2
    <3>2. QED
      BY <1>3, <1>4, <3>1
  <2>3. k < l
    <3>1. k \in Int /\ l \in Int /\ k # l /\ ~ (l < k)
      BY <1>2, <1>3, <2>1, <2>2
    <3>2. QED
      BY <3>1
  <2>4. k + 1 \in 1 .. Len(r) /\ k \in 1 .. (Len(r) - 1)
    BY <1>2, <2>3
  <2>5. pos[k + 1] \in Int /\ i < pos[k + 1] /\ ~ (i + 1 < pos[k + 1])
    <3>1. pos[k + 1] \in 1 .. Len(s) /\ pos[k] < pos[k + 1]
      BY <1>2, <1>3, <2>4
    <3>2. l = k + 1 \/ k + 1 < l
      BY <1>2, <2>3
    <3>3. k + 1 < l => pos[k + 1] < pos[l]
      BY <1>3, <2>4
    <3>4. QED
      BY <2>1, <2>2, <3>1, <3>2, <3>3
  <2>6. pos[k + 1] = i + 1
    BY <2>5
  <2>7. r[k] = s[i] /\ r[k + 1] = s[i + 1]
    BY <1>3, <2>1, <2>4, <2>6
  <2>8. QED
    BY <2>4, <2>7
<1>5. ASSUME Len(s) \in I, s # <<>> PROVE r # <<>> /\ r[Len(r)] = s[Len(s)]
  <2>1. PICK k \in 1 .. Len(r) : pos[k] = Len(s)
    BY <1>2, <1>3, <1>5
  <2>2. k < Len(r) => pos[k] < pos[Len(r)] /\ pos[Len(r)] \in 1 .. Len(s)
    BY <1>2, <1>3
  <2>3. k = Len(r)
    BY <1>2, <2>1, <2>2
  <2>4. QED
    BY <1>2, <1>3, <2>1, <2>3
<1>6. QED
  BY <1>4, <1>5 DEF r

\* Nothing is added; and where nothing is lost, nothing has changed.
LEMMA RetainLength ==
    ASSUME NEW T, NEW s \in Seq(T), NEW I
    PROVE  /\ Len(Retain(s, I)) <= Len(s)
           /\ Len(Retain(s, I)) = Len(s) \/ 1 .. Len(s) \subseteq I => Retain(s, I) = s
<1>1. PICK f : KeepsUpTo(f, s, I, T) /\ Retain(s, I) = f[Len(s)]
  BY RetainStep, Zenon
<1>2. /\ f \in [0 .. Len(s) -> Seq(T)] /\ f[0] = <<>>
      /\ \A n \in 1 .. Len(s) : f[n] = IF n \in I THEN Append(f[n - 1], s[n]) ELSE f[n - 1]
  BY <1>1 DEF KeepsUpTo
<1> DEFINE Upto(n) == /\ Len(f[n]) <= n
                      /\ Len(f[n]) = n => \A i \in 1 .. n : f[n][i] = s[i]
                      /\ 1 .. n \subseteq I => Len(f[n]) = n
           S == {n \in 0 .. Len(s) : Upto(n)}
<1>3. Len(s) \in Nat
  OBVIOUS
<1>4. 0 \in S
  BY <1>2, <1>3
<1>5. ASSUME NEW n \in 0 .. (Len(s) - 1), n \in S PROVE n + 1 \in S
  <2>1. n + 1 \in 0 .. Len(s) /\ f[n] \in Seq(T) /\ s[n + 1] \in T /\ Len(f[n]) \in Nat /\ n \in Nat
    BY <1>2, <1>3
  <2>2. f[n + 1] = IF n + 1 \in I THEN Append(f[n], s[n + 1]) ELSE f[n]
    <3>1. n + 1 \in 1 .. Len(s) /\ n + 1 - 1 = n
      BY <1>3
    <3>2. QED
      BY <1>2, <3>1
  <2>3. Upto(n)
    BY <1>5
  <2>4. CASE n + 1 \in I
    <3> DEFINE r == Append(f[n], s[n + 1])
    <3>1. /\ Len(r) = Len(f[n]) + 1 /\ r[Len(f[n]) + 1] = s[n + 1]
          /\ \A i \in 1 .. Len(f[n]) : r[i] = f[n][i]
      BY <2>1
    <3>2. f[n + 1] = r
      BY <2>2, <2>4
    <3> HIDE DEF r
    <3>3. Len(r) <= n + 1
      BY <2>1, <2>3, <3>1
    <3>4. ASSUME Len(r) = n + 1, NEW i \in 1 .. (n + 1) PROVE r[i] = s[i]
      <4>1. Len(f[n]) = n
        BY <2>1, <3>1, <3>4
      <4>2. CASE i = n + 1
        BY <3>1, <4>1, <4>2
      <4>3. CASE i # n + 1
        BY <2>1, <2>3, <3>1, <4>1, <4>3
      <4>4. QED
        BY <4>2, <4>3
    <3>5. 1 .. (n + 1) \subseteq I => Len(r) = n + 1
      BY <2>1, <2>3, <3>1
    <3>6. QED
      BY <2>1, <3>2, <3>3, <3>4, <3>5
  <2>5. CASE n + 1 \notin I
    <3>1. f[n + 1] = f[n]
      BY <2>2, <2>5
    <3>2. ~ (1 .. (n + 1) \subseteq I)
      BY <2>1, <2>5
    <3>3. QED
      BY <2>1, <2>3, <3>1, <3>2
  <2>6. QED
    BY <2>4, <2>5
<1>6. Upto(Len(s))
  <2> HIDE DEF Upto
  <2>1. Len(s) \in 0 .. Len(s)
    BY <1>3
  <2>2. 0 .. Len(s) \subseteq S
    <3> HIDE DEF S
    <3>1. QED
      BY <1>3, <1>4, <1>5, Induction
  <2>3. QED
    BY <2>1, <2>2
<1>7. Len(f[Len(s)]) = Len(s) => f[Len(s)] = s
  <2>1. f[Len(s)] \in Seq(T)
    BY <1>2, <1>3
  <2>2. QED
    BY <1>6, <2>1, SeqEqual
<1>8. QED
  BY <1>1, <1>6, <1>7

-----------------------------------------------------------------------------
(* MergeRoles: consecutive messages of one role become one *)

\* m is added to what was merged so far.
Merged(acc, m) ==
    IF acc # <<>> /\ Last(acc).role = m.role
    THEN [acc EXCEPT ![Len(acc)].blocks = @ \o m.blocks]
    ELSE Append(acc, m)

MergesUpTo(f, ms, B) ==
    /\ f \in [0 .. Len(ms) -> Seq(Messages(B))] /\ f[0] = <<>>
    /\ \A n \in 1 .. Len(ms) : f[n] = Merged(f[n - 1], ms[n])

\* What a message does to the messages before it: it is a new last one, or its
\* blocks are those at the end of the last one.
LEMMA MergedIs ==
    ASSUME NEW B, NEW acc \in Seq(Messages(B)), NEW m \in Messages(B)
    PROVE  /\ Merged(acc, m) \in Seq(Messages(B))
           /\ Merged(acc, m) # <<>>
           /\ acc # <<>> /\ Last(acc).role = m.role =>
                /\ Len(Merged(acc, m)) = Len(acc)
                /\ Last(Merged(acc, m)) = [role |-> m.role, blocks |-> Last(acc).blocks \o m.blocks]
                /\ \A i \in 1 .. (Len(acc) - 1) : Merged(acc, m)[i] = acc[i]
           /\ ~ (acc # <<>> /\ Last(acc).role = m.role) =>
                /\ Len(Merged(acc, m)) = Len(acc) + 1
                /\ Last(Merged(acc, m)) = m
                /\ \A i \in 1 .. Len(acc) : Merged(acc, m)[i] = acc[i]
<1>1. CASE acc # <<>> /\ Last(acc).role = m.role
  <2> DEFINE new == [acc[Len(acc)] EXCEPT !.blocks = @ \o m.blocks]
             r == [acc EXCEPT ![Len(acc)] = new]
  <2>1. Len(acc) \in Nat /\ Len(acc) \in 1 .. Len(acc) /\ acc[Len(acc)] \in Messages(B)
    BY <1>1
  <2>2. Merged(acc, m) = r
    BY <1>1 DEF Merged
  <2>3. new = [role |-> m.role, blocks |-> Last(acc).blocks \o m.blocks] /\ new \in Messages(B)
    <3> DEFINE a == acc[Len(acc)]
    <3>1. /\ a = [role |-> a.role, blocks |-> a.blocks] /\ a.role = m.role
          /\ a.blocks \in Seq(B) /\ m.blocks \in Seq(B) /\ m.role \in {"user", "assistant"}
      BY <1>1, <2>1 DEF Messages, Last
    <3>2. a.blocks \o m.blocks \in Seq(B)
      BY <3>1
    <3>3. [a EXCEPT !.blocks = @ \o m.blocks] = [role |-> m.role, blocks |-> a.blocks \o m.blocks]
      <4> DEFINE w == a.blocks \o m.blocks
      <4>1. ASSUME NEW x, NEW y, NEW z, NEW v, x = [role |-> y, blocks |-> z]
            PROVE  [x EXCEPT !.blocks = v] = [role |-> y, blocks |-> v]
        BY <4>1
      <4>2. a = [role |-> m.role, blocks |-> a.blocks]
        BY <3>1
      <4> HIDE DEF a, w
      <4>3. [a EXCEPT !.blocks = w] = [role |-> m.role, blocks |-> w]
        BY <4>1, <4>2
      <4>4. QED
        BY <4>3 DEF w
    <3>4. QED
      BY <3>1, <3>2, <3>3 DEF Messages, Last
  <2> HIDE DEF new
  <2>4. /\ r \in Seq(Messages(B)) /\ Len(r) = Len(acc) /\ r[Len(acc)] = new
        /\ \A i \in 1 .. (Len(acc) - 1) : r[i] = acc[i]
    BY <2>1, <2>3
  <2>5. r # <<>>
    <3> HIDE DEF r
    <3>1. Len(r) # 0 /\ r \in Seq(Messages(B))
      BY <2>1, <2>4
    <3>2. QED
      BY <3>1
  <2> HIDE DEF r
  <2>6. QED
    BY <1>1, <2>2, <2>3, <2>4, <2>5 DEF Last
<1>2. CASE ~ (acc # <<>> /\ Last(acc).role = m.role)
  <2> DEFINE r == Append(acc, m)
  <2>1. Merged(acc, m) = r
    BY <1>2 DEF Merged
  <2>2. /\ r \in Seq(Messages(B)) /\ r # <<>> /\ Len(r) = Len(acc) + 1 /\ r[Len(acc) + 1] = m
        /\ \A i \in 1 .. Len(acc) : r[i] = acc[i]
    OBVIOUS
  <2> HIDE DEF r
  <2>3. QED
    BY <1>2, <2>1, <2>2 DEF Last
<1>3. QED
  BY <1>1, <1>2

\* A function whose values follow one another by step, as long as they are in
\* X, has all of them in X.
LEMMA Recursive ==
    ASSUME NEW N \in Nat, NEW X, NEW base \in X, NEW step \in [(1 .. N) \X X -> X],
           NEW g, g = [n \in 0 .. N |-> g[n]], g[0] = base,
           \A n \in 1 .. N : g[n - 1] \in X => g[n] = step[<<n, g[n - 1]>>]
    PROVE  Recurs(g, N, X, base, step)
<1> DEFINE S == {n \in 0 .. N : g[n] \in X}
<1>1. 0 \in S
  <2>1. 0 \in 0 .. N
    OBVIOUS
  <2>2. QED
    BY <2>1, Zenon
<1>2. ASSUME NEW n \in 0 .. (N - 1), n \in S PROVE n + 1 \in S
  <2>1. n + 1 \in 1 .. N /\ n + 1 - 1 = n /\ n + 1 \in 0 .. N /\ g[n] \in X
    BY <1>2
  <2>2. g[n + 1] = step[<<n + 1, g[n]>>]
    <3>1. PICK k \in 1 .. N : k = n + 1 /\ k - 1 = n
      BY <2>1
    <3>2. g[k] = step[<<k, g[k - 1]>>]
      <4>1. g[k - 1] \in X
        BY <2>1, <3>1, Zenon
      <4>2. QED
        BY <3>1, <4>1
    <3>3. QED
      BY <3>1, <3>2, Zenon
  <2>3. step[<<n + 1, g[n]>>] \in X
    <3>1. <<n + 1, g[n]>> \in (1 .. N) \X X
      BY <2>1, Zenon
    <3>2. QED
      BY <3>1
  <2>4. QED
    BY <2>1, <2>2, <2>3
<1>3. 0 .. N \subseteq S
  <2> HIDE DEF S
  <2>1. QED
    BY <1>1, <1>2, Induction
<1>4. \A n \in 0 .. N : g[n] \in X
  BY <1>3
<1>5. \A n \in 1 .. N : n - 1 \in 0 .. N
  OBVIOUS
<1>6. g \in [0 .. N -> X]
  BY <1>4
<1>7. \A n \in 1 .. N : g[n] = step[<<n, g[n - 1]>>]
  BY <1>4, <1>5
<1>8. QED
  BY <1>6, <1>7 DEF Recurs

LEMMA MergeStep ==
    ASSUME NEW B, NEW ms \in Seq(Messages(B))
    PROVE  \E f : MergesUpTo(f, ms, B) /\ MergeRoles(ms) = f[Len(ms)]
<1> DEFINE N == Len(ms)
           X == Seq(Messages(B))
           step == [p \in (1 .. N) \X X |-> Merged(p[2], ms[p[1]])]
           body(f, n) == IF n = 0 THEN <<>> ELSE Merged(f[n - 1], ms[n])
           Is(f) == f = [n \in 0 .. N |-> body(f, n)]
<1>1. N \in Nat /\ <<>> \in X /\ \A n \in 1 .. N : ms[n] \in Messages(B)
  OBVIOUS
<1>2. step \in [(1 .. N) \X X -> X]
  <2>1. ASSUME NEW p \in (1 .. N) \X X PROVE step[p] \in X
    <3>1. p[2] \in X /\ ms[p[1]] \in Messages(B)
      BY <1>1
    <3>2. Merged(p[2], ms[p[1]]) \in X
      BY <3>1, MergedIs
    <3>3. QED
      BY <3>2
  <2>2. QED
    BY <2>1
<1>3. \A n \in 1 .. N, acc \in X : step[<<n, acc>>] = Merged(acc, ms[n])
  OBVIOUS
<1> HIDE DEF step, N, X
<1>4. PICK f : Recurs(f, N, X, <<>>, step)
  BY <1>1, <1>2, Recursion, Zenon
<1>5. f \in [0 .. N -> X] /\ f[0] = <<>> /\ \A n \in 1 .. N : f[n] = step[<<n, f[n - 1]>>]
  BY <1>4 DEF Recurs
<1>6. \A n \in 1 .. N : f[n - 1] \in X
  BY <1>1, <1>5
<1>7. \A n \in 0 .. N : f[n] = body(f, n)
  BY <1>1, <1>3, <1>5, <1>6
<1>8. Is(f)
  <2> HIDE DEF body
  <2>1. QED
    BY <1>5, <1>7
<1> DEFINE g == CHOOSE h : Is(h)
<1>9. Is(g)
  <2> HIDE DEF Is
  <2>1. QED
    BY <1>8, Zenon
<1>10. MergeRoles(ms) = g[N]
  BY DEF MergeRoles, Merged, N
<1> HIDE DEF g
<1>11. g = [n \in 0 .. N |-> g[n]] /\ \A n \in 0 .. N : g[n] = body(g, n)
  <2> HIDE DEF body
  <2>1. QED
    BY <1>9
<1>12. g[0] = <<>> /\ \A n \in 1 .. N : g[n] = Merged(g[n - 1], ms[n])
  BY <1>1, <1>11
<1>13. Recurs(g, N, X, <<>>, step)
  <2>1. \A n \in 1 .. N : g[n - 1] \in X => g[n] = step[<<n, g[n - 1]>>]
    BY <1>3, <1>12
  <2>2. QED
    BY <1>1, <1>2, <1>11, <1>12, <2>1, Recursive, Zenon
<1>14. MergesUpTo(g, ms, B)
  BY <1>12, <1>13 DEF Recurs, MergesUpTo, N, X
<1>15. QED
  BY <1>10, <1>14 DEF N

-----------------------------------------------------------------------------
(* FlattenSeq: sequences one after the other *)

FlattensUpTo(f, ss, T) ==
    /\ f \in [0 .. Len(ss) -> Seq(T)] /\ f[0] = <<>>
    /\ \A n \in 1 .. Len(ss) : f[n] = f[n - 1] \o ss[n]

LEMMA FlattenStep ==
    ASSUME NEW T, NEW ss \in Seq(Seq(T))
    PROVE  \E f : FlattensUpTo(f, ss, T) /\ FlattenSeq(ss) = f[Len(ss)]
<1> DEFINE N == Len(ss)
           X == Seq(T)
           step == [p \in (1 .. N) \X X |-> p[2] \o ss[p[1]]]
           body(f, n) == IF n = 1 THEN ss[n] ELSE f[n - 1] \o ss[n]
           Is(f) == f = [n \in 1 .. N |-> body(f, n)]
<1>1. N \in Nat /\ <<>> \in X /\ (\A n \in 1 .. N : ss[n] \in X)
      /\ (\A q \in X : <<>> \o q = q) /\ (N = 0 => ss = <<>>)
  OBVIOUS
<1>2. step \in [(1 .. N) \X X -> X]
  <2>1. ASSUME NEW p \in (1 .. N) \X X PROVE step[p] \in X
    <3>1. p[2] \in X /\ ss[p[1]] \in X
      BY <1>1
    <3>2. QED
      BY <3>1
  <2>2. QED
    BY <2>1
<1>3. \A n \in 1 .. N, acc \in X : step[<<n, acc>>] = acc \o ss[n]
  OBVIOUS
<1> HIDE DEF step, N, X
<1>4. PICK h : Recurs(h, N, X, <<>>, step)
  BY <1>1, <1>2, Recursion, Zenon
<1>5. h \in [0 .. N -> X] /\ h[0] = <<>> /\ \A n \in 1 .. N : h[n] = step[<<n, h[n - 1]>>]
  BY <1>4 DEF Recurs
<1>6. \A n \in 1 .. N : h[n - 1] \in X
  BY <1>1, <1>5
<1>7. \A n \in 1 .. N : h[n] = h[n - 1] \o ss[n]
  BY <1>3, <1>5, <1>6
<1> DEFINE r == [n \in 1 .. N |-> h[n]]
<1>8. \A n \in 1 .. N : r[n] = body(r, n)
  <2>1. ASSUME NEW n \in 1 .. N PROVE r[n] = body(r, n)
    <3>1. CASE n = 1
      <4>1. h[1] = h[0] \o ss[1] /\ ss[1] \in X
        <5>1. 1 \in 1 .. N /\ 1 - 1 = 0
          BY <3>1
        <5>2. QED
          BY <1>1, <1>7, <5>1, Zenon
      <4>2. h[1] = ss[1]
        BY <1>1, <1>5, <4>1, Zenon
      <4>3. QED
        BY <3>1, <4>2
    <3>2. CASE n # 1
      <4>1. n - 1 \in 1 .. N
        BY <1>1, <3>2
      <4>2. r[n - 1] = h[n - 1] /\ r[n] = h[n]
        BY <4>1
      <4> HIDE DEF r
      <4>3. QED
        BY <1>7, <3>2, <4>2
    <3>3. QED
      BY <3>1, <3>2
  <2>2. QED
    BY <2>1
<1>9. Is(r)
  <2>1. r = [n \in 1 .. N |-> r[n]]
    OBVIOUS
  <2> HIDE DEF body, r
  <2>2. QED
    BY <1>8, <2>1
<1> DEFINE g == CHOOSE k : Is(k)
<1>10. Is(g)
  <2> HIDE DEF Is, r
  <2>1. QED
    BY <1>9, Zenon
<1>11. FlattenSeq(ss) = IF N = 0 THEN ss ELSE g[N]
  BY DEF FlattenSeq, N
<1> HIDE DEF g
<1>12. \A n \in 1 .. N : g[n] = body(g, n)
  <2> HIDE DEF body
  <2>1. QED
    BY <1>10
<1> DEFINE f == [n \in 0 .. N |-> IF n = 0 THEN <<>> ELSE g[n]]
<1>13. f[0] = <<>> /\ f = [n \in 0 .. N |-> f[n]] /\ f[N] = IF N = 0 THEN <<>> ELSE g[N]
  BY <1>1
<1>14. \A n \in 1 .. N : f[n - 1] \in X => f[n] = f[n - 1] \o ss[n]
  <2>1. ASSUME NEW n \in 1 .. N, f[n - 1] \in X PROVE f[n] = f[n - 1] \o ss[n]
    <3>1. f[n] = g[n] /\ g[n] = body(g, n)
      BY <1>1, <1>12
    <3>2. CASE n = 1
      <4>1. f[n - 1] = <<>> /\ g[n] = ss[n] /\ ss[n] \in X
        BY <1>1, <3>1, <3>2
      <4> HIDE DEF f
      <4>2. QED
        BY <1>1, <3>1, <4>1
    <3>3. CASE n # 1
      <4>1. f[n - 1] = g[n - 1]
        BY <1>1, <3>3
      <4>2. g[n] = g[n - 1] \o ss[n]
        BY <3>1, <3>3
      <4>3. QED
        BY <3>1, <4>1, <4>2, Zenon
    <3>4. QED
      BY <3>2, <3>3
  <2>2. QED
    BY <2>1
<1> HIDE DEF f
<1>15. Recurs(f, N, X, <<>>, step)
  <2>1. \A n \in 1 .. N : f[n - 1] \in X => f[n] = step[<<n, f[n - 1]>>]
    BY <1>3, <1>14
  <2>2. QED
    BY <1>1, <1>2, <1>13, <2>1, Recursive, Zenon
<1>16. f \in [0 .. N -> X]
  BY <1>15 DEF Recurs
<1>17. \A n \in 1 .. N : f[n] = f[n - 1] \o ss[n]
  <2>1. \A n \in 1 .. N : f[n - 1] \in X
    BY <1>1, <1>16
  <2>2. QED
    BY <1>14, <2>1
<1>18. FlattensUpTo(f, ss, T)
  BY <1>13, <1>16, <1>17 DEF FlattensUpTo, N, X
<1>19. FlattenSeq(ss) = f[N]
  BY <1>1, <1>11, <1>13
<1>20. QED
  BY <1>18, <1>19 DEF N

LEMMA FlattenNothing ==
    ASSUME NEW T, NEW ss \in Seq(Seq(T)), \A n \in 1 .. Len(ss) : ss[n] = <<>>
    PROVE  FlattenSeq(ss) = <<>>
<1>1. PICK f : FlattensUpTo(f, ss, T) /\ FlattenSeq(ss) = f[Len(ss)]
  BY FlattenStep, Zenon
<1>2. f \in [0 .. Len(ss) -> Seq(T)] /\ f[0] = <<>> /\ \A n \in 1 .. Len(ss) : f[n] = f[n - 1] \o ss[n]
  BY <1>1 DEF FlattensUpTo
<1> DEFINE S == {n \in 0 .. Len(ss) : f[n] = <<>>}
<1>3. Len(ss) \in Nat /\ 0 \in S
  BY <1>2
<1>4. ASSUME NEW n \in 0 .. (Len(ss) - 1), n \in S PROVE n + 1 \in S
  <2>1. n + 1 \in 1 .. Len(ss) /\ n + 1 - 1 = n /\ n + 1 \in 0 .. Len(ss) /\ f[n] = <<>>
    BY <1>3, <1>4
  <2>2. f[n + 1] = f[n] \o ss[n + 1]
    <3>1. PICK k \in 1 .. Len(ss) : k = n + 1 /\ k - 1 = n
      BY <2>1
    <3>2. f[k] = f[k - 1] \o ss[k]
      BY <1>2, Zenon
    <3>3. QED
      BY <3>1, <3>2, Zenon
  <2>3. ss[n + 1] = <<>>
    BY <2>1
  <2>4. QED
    BY <2>1, <2>2, <2>3
<1>5. Len(ss) \in 0 .. Len(ss)
  BY <1>3
<1>6. 0 .. Len(ss) \subseteq S
  <2> HIDE DEF S
  <2>1. QED
    BY <1>3, <1>4, Induction
<1>7. QED
  BY <1>1, <1>5, <1>6

LEMMA FlattenSingles ==
    ASSUME NEW T, NEW s \in Seq(T), NEW ss, ss = [n \in 1 .. Len(s) |-> << s[n] >>]
    PROVE  FlattenSeq(ss) = s
<1>0. Len(s) \in Nat /\ (\A n \in 1 .. Len(s) : s[n] \in T /\ ss[n] = << s[n] >>)
  OBVIOUS
<1>1. ss \in Seq(Seq(T)) /\ Len(ss) = Len(s)
  OBVIOUS
<1>2. PICK f : FlattensUpTo(f, ss, T) /\ FlattenSeq(ss) = f[Len(ss)]
  BY <1>1, FlattenStep, Zenon
<1>3. /\ f \in [0 .. Len(s) -> Seq(T)] /\ f[0] = <<>>
      /\ \A n \in 1 .. Len(s) : f[n] = f[n - 1] \o << s[n] >>
  <2>1. f \in [0 .. Len(s) -> Seq(T)] /\ f[0] = <<>> /\ \A n \in 1 .. Len(s) : f[n] = f[n - 1] \o ss[n]
    BY <1>1, <1>2, Zenon DEF FlattensUpTo
  <2>2. QED
    BY <1>0, <2>1
<1> DEFINE Upto(n) == Len(f[n]) = n /\ \A i \in 1 .. n : f[n][i] = s[i]
           S == {n \in 0 .. Len(s) : Upto(n)}
<1>4. 0 \in S
  BY <1>0, <1>3
<1>5. ASSUME NEW n \in 0 .. (Len(s) - 1), n \in S PROVE n + 1 \in S
  <2>1. n + 1 \in 1 .. Len(s) /\ n + 1 - 1 = n /\ n + 1 \in 0 .. Len(s) /\ n \in 0 .. Len(s) /\ Upto(n)
    BY <1>0, <1>5
  <2>2. f[n + 1] = f[n] \o << s[n + 1] >>
    <3>1. PICK k \in 1 .. Len(s) : k = n + 1 /\ k - 1 = n
      BY <2>1
    <3>2. f[k] = f[k - 1] \o << s[k] >>
      BY <1>3, Zenon
    <3>3. QED
      BY <3>1, <3>2, Zenon
  <2>3. s[n + 1] \in T /\ f[n] \in Seq(T)
    BY <1>0, <1>3, <2>1
  <2>4. Len(f[n + 1]) = n + 1 /\ f[n + 1][n + 1] = s[n + 1] /\ \A i \in 1 .. n : f[n + 1][i] = f[n][i]
    <3>1. ASSUME NEW a \in Seq(T), NEW e \in T
          PROVE  /\ Len(a \o <<e>>) = Len(a) + 1 /\ (a \o <<e>>)[Len(a) + 1] = e
                 /\ \A i \in 1 .. Len(a) : (a \o <<e>>)[i] = a[i]
      OBVIOUS
    <3>2. Len(f[n]) = n
      BY <2>1
    <3> HIDE DEF S, Upto
    <3> DEFINE a == f[n]
               e == s[n + 1]
    <3>3. f[n + 1] = a \o <<e>> /\ a \in Seq(T) /\ e \in T /\ Len(a) = n
      BY <2>2, <2>3, <3>2
    <3> HIDE DEF a, e
    <3>4. /\ Len(f[n + 1]) = n + 1 /\ f[n + 1][n + 1] = e
          /\ \A i \in 1 .. n : f[n + 1][i] = a[i]
      <4>1. /\ Len(a \o <<e>>) = Len(a) + 1 /\ (a \o <<e>>)[Len(a) + 1] = e
            /\ \A i \in 1 .. Len(a) : (a \o <<e>>)[i] = a[i]
        BY <3>1, <3>3
      <4>2. QED
        BY <3>3, <4>1, Zenon
    <3>5. QED
      BY <3>4 DEF a, e
  <2>5. Upto(n + 1)
    BY <2>1, <2>4
  <2>6. QED
    BY <2>1, <2>5
<1>6. Upto(Len(s))
  <2> HIDE DEF Upto
  <2>1. Len(s) \in 0 .. Len(s)
    BY <1>0
  <2>2. 0 .. Len(s) \subseteq S
    <3> HIDE DEF S
    <3>1. QED
      BY <1>0, <1>4, <1>5, Induction
  <2>3. QED
    BY <2>1, <2>2
<1>7. f[Len(s)] \in Seq(T)
  <2>1. Len(s) \in 0 .. Len(s)
    BY <1>0
  <2>2. QED
    BY <1>3, <2>1
<1>8. f[Len(s)] = s
  BY <1>6, <1>7, SeqEqual
<1>9. QED
  BY <1>1, <1>2, <1>8

\* Where nothing is placed, the messages stay as they are.
LEMMA PlaceNothing ==
    ASSUME NEW B, NEW ms \in Seq(Messages(B)), NEW after, after = [i \in DOMAIN ms |-> <<>>]
    PROVE  PlaceAfter(ms, after) = ms
<1> DEFINE taken(i) == i > 1 /\ ms[i].role = "user"
           given(i) == i < Len(ms) /\ ms[i + 1].role = "user"
           ss == [i \in DOMAIN ms |->
                    << IF taken(i) THEN [ms[i] EXCEPT !.blocks = @ \o after[i - 1]] ELSE ms[i] >>
                       \o IF after[i] = <<>> \/ given(i) THEN <<>> ELSE << User(after[i]) >>]
<1>1. DOMAIN ms = 1 .. Len(ms) /\ Len(ms) \in Nat /\ \A i \in 1 .. Len(ms) : ms[i] \in Messages(B) /\ after[i] = <<>>
  OBVIOUS
<1>2. ASSUME NEW i \in DOMAIN ms
      PROVE  << IF taken(i) THEN [ms[i] EXCEPT !.blocks = @ \o after[i - 1]] ELSE ms[i] >>
                \o (IF after[i] = <<>> \/ given(i) THEN <<>> ELSE << User(after[i]) >>) = << ms[i] >>
  <2>1. (IF after[i] = <<>> \/ given(i) THEN <<>> ELSE << User(after[i]) >>) = <<>>
    BY <1>1
  <2>2. taken(i) => [ms[i] EXCEPT !.blocks = @ \o after[i - 1]] = ms[i]
    <3>1. ASSUME taken(i) PROVE [ms[i] EXCEPT !.blocks = ms[i].blocks \o after[i - 1]] = ms[i]
      <4>1. after[i - 1] = <<>>
        BY <1>1, <3>1
      <4>2. ms[i].blocks \o <<>> = ms[i].blocks
        BY <1>1 DEF Messages
      <4>3. [ms[i] EXCEPT !.blocks = ms[i].blocks] = ms[i]
        BY <1>1 DEF Messages
      <4>4. QED
        BY <4>1, <4>2, <4>3, Zenon
    <3>2. QED
      BY <3>1
  <2>3. ASSUME NEW x PROVE <<x>> \o <<>> = <<x>>
    OBVIOUS
  <2> HIDE DEF taken, given
  <2>4. (IF taken(i) THEN [ms[i] EXCEPT !.blocks = @ \o after[i - 1]] ELSE ms[i]) = ms[i]
    BY <2>2, Zenon
  <2> DEFINE x == IF taken(i) THEN [ms[i] EXCEPT !.blocks = @ \o after[i - 1]] ELSE ms[i]
             y == IF after[i] = <<>> \/ given(i) THEN <<>> ELSE << User(after[i]) >>
  <2>5. x = ms[i] /\ y = <<>>
    BY <2>1, <2>4, Zenon
  <2> HIDE DEF x, y
  <2>6. <<x>> \o y = << ms[i] >>
    BY <2>3, <2>5, Zenon
  <2>7. QED
    BY <2>6 DEF x, y
<1>3. ss = [i \in DOMAIN ms |-> << ms[i] >>]
  BY <1>2, Zenon
<1>4. PlaceAfter(ms, after) = FlattenSeq(ss)
  BY DEF PlaceAfter
<1> HIDE DEF ss
<1>5. FlattenSeq(ss) = ms
  <2>1. ss = [n \in 1 .. Len(ms) |-> << ms[n] >>]
    BY <1>1, <1>3, Zenon
  <2>2. QED
    BY <2>1, FlattenSingles, Zenon
<1>6. QED
  BY <1>4, <1>5, Zenon

-----------------------------------------------------------------------------
(* The histories in which repair finds nothing to do but to merge messages *)

FirstResult(ms, i, j) ==
    /\ \A k \in 1 .. (i - 1) : ms[i].blocks[j].id \notin ResultsOf(ms[k])
    /\ \A l \in 1 .. (j - 1) : ms[i].blocks[l].kind = "result" => ms[i].blocks[l].id # ms[i].blocks[j].id

Settled(ms) ==
    /\ \A i \in DOMAIN ms : ms[i].blocks # <<>>
    /\ \A i \in DOMAIN ms : \A j \in DOMAIN ms[i].blocks : ms[i].blocks[j].kind = "result" =>
         ms[i].blocks[j].id \in AllUses(ms) /\ ~ Misplaced(ms, i, j) /\ FirstResult(ms, i, j)
    /\ \A i \in DOMAIN ms : \A j \in DOMAIN ms[i].blocks :
         ms[i].blocks[j].kind = "use" => ms[i].blocks[j].id \in AllResults(ms)
    /\ \A i \in DOMAIN ms : ms[i].role = "assistant" /\ i < Len(ms) => ~ IsBlank(ms[i])

\* Every message keeps all its blocks.
LEMMA KeepAllBlocks ==
    ASSUME NEW B, NEW s \in Seq(B), NEW I, 1 .. Len(s) \subseteq I
    PROVE  Retain(s, I) = s
BY RetainLength

LEMMA RetainNone ==
    ASSUME NEW B, NEW s \in Seq(B), NEW I, I \cap 1 .. Len(s) = {}
    PROVE  Retain(s, I) = <<>>
<1>1. Retain(s, I) \in Seq(B) /\ \A k \in 1 .. Len(Retain(s, I)) : \E i \in 1 .. Len(s) : i \in I
  BY RetainElements
<1> DEFINE r == Retain(s, I)
<1> HIDE DEF r
<1>2. r \in Seq(B) /\ \A k \in 1 .. Len(r) : FALSE
  BY <1>1 DEF r
<1>3. Len(r) = 0
  <2>1. Len(r) \in Nat
    BY <1>2
  <2>2. QED
    BY <1>2, <2>1
<1>4. r = <<>>
  BY <1>2, <1>3
<1>5. QED
  BY <1>4 DEF r

LEMMA MessagesAre ==
    ASSUME NEW B, NEW ms \in Seq(Messages(B))
    PROVE  /\ Len(ms) \in Nat /\ DOMAIN ms = 1 .. Len(ms) /\ ms = [i \in DOMAIN ms |-> ms[i]]
           /\ \A i \in DOMAIN ms :
                /\ ms[i].blocks \in Seq(B) /\ DOMAIN ms[i].blocks = 1 .. Len(ms[i].blocks)
                /\ ms[i] = [role |-> ms[i].role, blocks |-> ms[i].blocks]
<1>1. ASSUME NEW m \in Messages(B)
      PROVE  m.blocks \in Seq(B) /\ m = [role |-> m.role, blocks |-> m.blocks]
  BY DEF Messages
<1>2. Len(ms) \in Nat /\ DOMAIN ms = 1 .. Len(ms) /\ ms = [i \in DOMAIN ms |-> ms[i]]
      /\ \A i \in DOMAIN ms : ms[i] \in Messages(B)
  <2> HIDE DEF Messages
  <2>1. QED
    OBVIOUS
<1>3. \A b \in Seq(B) : DOMAIN b = 1 .. Len(b)
  OBVIOUS
<1>4. QED
  BY <1>1, <1>2, <1>3

\* Where every block of every message is kept, so are the messages.
LEMMA AllBlocksKept ==
    ASSUME NEW B, NEW ms \in Seq(Messages(B)), NEW ks,
           ks = [i \in DOMAIN ms |-> [ms[i] EXCEPT !.blocks = Retain(ms[i].blocks, DOMAIN ms[i].blocks)]]
    PROVE  ks = ms
<1>1. ASSUME NEW i \in DOMAIN ms
      PROVE  [ms[i] EXCEPT !.blocks = Retain(ms[i].blocks, DOMAIN ms[i].blocks)] = ms[i]
  <2>1. ms[i].blocks \in Seq(B) /\ DOMAIN ms[i].blocks = 1 .. Len(ms[i].blocks)
        /\ ms[i] = [role |-> ms[i].role, blocks |-> ms[i].blocks]
    BY MessagesAre
  <2>2. Retain(ms[i].blocks, DOMAIN ms[i].blocks) = ms[i].blocks
    BY <2>1, KeepAllBlocks
  <2>3. ASSUME NEW x, NEW y, x = y.blocks, y = [role |-> y.role, blocks |-> y.blocks]
        PROVE  [y EXCEPT !.blocks = x] = y
    BY <2>3
  <2>4. QED
    BY <2>1, <2>2, <2>3, Zenon
<1>2. ks = [i \in DOMAIN ms |-> ms[i]]
  BY <1>1, Zenon
<1>3. ms = [i \in DOMAIN ms |-> ms[i]]
  BY MessagesAre
<1>4. QED
  BY <1>2, <1>3, Zenon

LEMMA NoneEmpty ==
    ASSUME NEW B, NEW ms \in Seq(Messages(B)), Settled(ms)
    PROVE  DropEmpty(ms) = ms
<1>1. 1 .. Len(ms) \subseteq {i \in DOMAIN ms : ms[i].blocks # <<>>}
  BY MessagesAre DEF Settled
<1>2. QED
  BY <1>1, RetainLength, Zenon DEF DropEmpty

LEMMA NoOrphans ==
    ASSUME NEW B, NEW ms \in Seq(Messages(B)), Settled(ms)
    PROVE  DropOrphans(ms) = ms
<1> DEFINE ok(i, j) == ms[i].blocks[j].kind = "result" => ms[i].blocks[j].id \in AllUses(ms)
           ks == [i \in DOMAIN ms |-> [ms[i] EXCEPT !.blocks =
                     Retain(ms[i].blocks, {j \in DOMAIN ms[i].blocks : ok(i, j)})]]
<1>1. DropOrphans(ms) = DropEmpty(ks)
  BY DEF DropOrphans, KeepBlocks
<1>2. \A i \in DOMAIN ms : \A j \in DOMAIN ms[i].blocks : ok(i, j)
  BY DEF Settled
<1> HIDE DEF ok
<1>3. \A i \in DOMAIN ms : {j \in DOMAIN ms[i].blocks : ok(i, j)} = DOMAIN ms[i].blocks
  BY <1>2
<1>4. ks = [i \in DOMAIN ms |-> [ms[i] EXCEPT !.blocks = Retain(ms[i].blocks, DOMAIN ms[i].blocks)]]
  BY <1>3
<1>5. ks = ms
  BY <1>4, AllBlocksKept, Zenon
<1>6. QED
  BY <1>1, <1>5, NoneEmpty

LEMMA NoDuplicates ==
    ASSUME NEW B, NEW ms \in Seq(Messages(B)), Settled(ms)
    PROVE  Deduplicate(ms) = ms
<1> DEFINE ok(i, j) ==
               LET b == ms[i].blocks[j] IN
               b.kind = "result" =>
                   /\ \A k \in 1 .. (i - 1) : b.id \notin ResultsOf(ms[k])
                   /\ \A l \in 1 .. (j - 1) : ms[i].blocks[l].kind = "result" => ms[i].blocks[l].id # b.id
           ks == [i \in DOMAIN ms |-> [ms[i] EXCEPT !.blocks =
                     Retain(ms[i].blocks, {j \in DOMAIN ms[i].blocks : ok(i, j)})]]
<1>1. Deduplicate(ms) = DropEmpty(ks)
  BY DEF Deduplicate, KeepBlocks
<1>2. \A i \in DOMAIN ms : \A j \in DOMAIN ms[i].blocks : ok(i, j)
  BY Zenon DEF Settled, FirstResult
<1> HIDE DEF ok
<1>3. \A i \in DOMAIN ms : {j \in DOMAIN ms[i].blocks : ok(i, j)} = DOMAIN ms[i].blocks
  BY <1>2
<1>4. ks = [i \in DOMAIN ms |-> [ms[i] EXCEPT !.blocks = Retain(ms[i].blocks, DOMAIN ms[i].blocks)]]
  BY <1>3
<1>5. ks = ms
  BY <1>4, AllBlocksKept, Zenon
<1>6. QED
  BY <1>1, <1>5, NoneEmpty

LEMMA NoneMissing ==
    ASSUME NEW B, NEW ms \in Seq(Messages(B)), Settled(ms)
    PROVE  InsertSynthetic(ms) = ms
<1> DEFINE missing(i) == Retain(ms[i].blocks, {j \in DOMAIN ms[i].blocks :
                /\ ms[i].role = "assistant" /\ ms[i].blocks[j].kind = "use"
                /\ ms[i].blocks[j].id \notin AllResults(ms)})
           after == [i \in DOMAIN ms |-> [n \in DOMAIN missing(i) |-> ResultBlock(missing(i)[n].id)]]
<1>1. InsertSynthetic(ms) = PlaceAfter(ms, after)
  BY DEF InsertSynthetic
<1>2. ASSUME NEW i \in DOMAIN ms PROVE missing(i) = <<>>
  <2>1. ms[i].blocks \in Seq(B)
    BY MessagesAre
  <2> DEFINE I == {j \in DOMAIN ms[i].blocks :
                /\ ms[i].role = "assistant" /\ ms[i].blocks[j].kind = "use"
                /\ ms[i].blocks[j].id \notin AllResults(ms)}
  <2>2. I \cap 1 .. Len(ms[i].blocks) = {}
    BY DEF Settled
  <2> HIDE DEF I
  <2>3. Retain(ms[i].blocks, I) = <<>>
    BY <2>1, <2>2, RetainNone
  <2>4. QED
    BY <2>3 DEF I
<1> HIDE DEF missing
<1>3. \A i \in DOMAIN ms : [n \in DOMAIN missing(i) |-> ResultBlock(missing(i)[n].id)] = <<>>
  BY <1>2
<1>4. after = [i \in DOMAIN ms |-> <<>>]
  BY <1>3, Zenon
<1> HIDE DEF after
<1>5. QED
  BY <1>1, <1>4, PlaceNothing, Zenon

LEMMA NoneAborted ==
    ASSUME NEW B, NEW ms \in Seq(Messages(B)), Settled(ms)
    PROVE  RemoveAborted(ms) = ms
<1> DEFINE I == {i \in DOMAIN ms : ~ (ms[i].role = "assistant" /\ IsBlank(ms[i]) /\ i < Len(ms))}
<1>1. 1 .. Len(ms) \subseteq I
  BY MessagesAre DEF Settled
<1> HIDE DEF I
<1>2. Retain(ms, I) = ms
  BY <1>1, RetainLength
<1>3. QED
  BY <1>2 DEF RemoveAborted, I

LEMMA NoneMisplaced ==
    ASSUME NEW B, NEW ms \in Seq(Messages(B)), Settled(ms)
    PROVE  ReorderResults(ms) = ms
<1> DEFINE mis(i, j) == Misplaced(ms, i, j)
           moved(a) == FlattenSeq([i \in DOMAIN ms |->
               Retain(ms[i].blocks, {j \in DOMAIN ms[i].blocks :
                   mis(i, j) /\ UseAt(ms, ms[i].blocks[j].id) = a})])
           stripped == [i \in DOMAIN ms |-> [ms[i] EXCEPT !.blocks =
               Retain(ms[i].blocks, {j \in DOMAIN ms[i].blocks : ~ mis(i, j)})]]
           left == Retain([i \in DOMAIN ms |-> i], {i \in DOMAIN ms : stripped[i].blocks # <<>>})
           after == [n \in DOMAIN left |-> moved(left[n])]
<1>1. ReorderResults(ms) = PlaceAfter([n \in DOMAIN left |-> stripped[left[n]]], after)
  BY DEF ReorderResults, KeepBlocks
<1>2. /\ Len(ms) \in Nat /\ DOMAIN ms = 1 .. Len(ms)
      /\ \A i \in DOMAIN ms : ms[i].blocks # <<>> /\ ms[i].blocks \in Seq(B)
  BY MessagesAre DEF Settled
<1>3. \A i \in DOMAIN ms : \A j \in DOMAIN ms[i].blocks : ~ mis(i, j)
  <2>1. \A i \in DOMAIN ms : \A j \in DOMAIN ms[i].blocks : Misplaced(ms, i, j) => ms[i].blocks[j].kind = "result"
    BY DEF Misplaced
  <2>2. QED
    BY <2>1 DEF Settled
<1> HIDE DEF mis
<1>4. stripped = ms
  <2>1. \A i \in DOMAIN ms : {j \in DOMAIN ms[i].blocks : ~ mis(i, j)} = DOMAIN ms[i].blocks
    BY <1>3
  <2>2. stripped = [i \in DOMAIN ms |-> [ms[i] EXCEPT !.blocks = Retain(ms[i].blocks, DOMAIN ms[i].blocks)]]
    BY <2>1
  <2>3. QED
    BY <2>2, AllBlocksKept, Zenon
<1> HIDE DEF stripped
<1>5. left = [i \in DOMAIN ms |-> i]
  <2> DEFINE id == [i \in DOMAIN ms |-> i]
             I == {i \in DOMAIN ms : stripped[i].blocks # <<>>}
  <2>1. id \in Seq(Nat) /\ Len(id) = Len(ms)
    BY <1>2
  <2>2. 1 .. Len(id) \subseteq I
    BY <1>2, <1>4, <2>1
  <2> HIDE DEF id, I
  <2>3. Retain(id, I) = id
    BY <2>1, <2>2, RetainLength
  <2>4. QED
    BY <2>3 DEF id, I
<1>6. ASSUME NEW a PROVE moved(a) = <<>>
  <2> DEFINE I(i) == {j \in DOMAIN ms[i].blocks : mis(i, j) /\ UseAt(ms, ms[i].blocks[j].id) = a}
             ss == [i \in DOMAIN ms |-> Retain(ms[i].blocks, I(i))]
  <2>1. ASSUME NEW i \in DOMAIN ms PROVE Retain(ms[i].blocks, I(i)) = <<>>
    <3>1. I(i) \cap 1 .. Len(ms[i].blocks) = {}
      BY <1>3
    <3> HIDE DEF I
    <3>2. QED
      BY <1>2, <3>1, RetainNone
  <2> HIDE DEF I
  <2>2. \A n \in DOMAIN ms : ss[n] = <<>>
    BY <2>1
  <2>3. ss \in Seq(Seq({})) /\ \A n \in 1 .. Len(ss) : ss[n] = <<>>
    <3>1. ss = [n \in 1 .. Len(ms) |-> <<>>]
      BY <1>2, <2>1
    <3>2. [n \in 1 .. Len(ms) |-> <<>>] \in Seq(Seq({})) /\ Len([n \in 1 .. Len(ms) |-> <<>>]) = Len(ms)
      BY <1>2
    <3> HIDE DEF ss
    <3>3. QED
      BY <1>2, <2>2, <3>1, <3>2
  <2> HIDE DEF ss
  <2>4. FlattenSeq(ss) = <<>>
    BY <2>3, FlattenNothing
  <2>5. QED
    BY <2>4 DEF ss, I
<1> HIDE DEF moved, left
<1>7. after = [i \in DOMAIN ms |-> <<>>] /\ [n \in DOMAIN left |-> stripped[left[n]]] = ms
  <2>1. DOMAIN left = DOMAIN ms /\ \A n \in DOMAIN ms : left[n] = n
    BY <1>5
  <2>2. after = [i \in DOMAIN ms |-> <<>>]
    BY <1>6, <2>1
  <2>3. [n \in DOMAIN left |-> stripped[left[n]]] = [n \in DOMAIN ms |-> ms[n]]
    BY <1>4, <2>1
  <2>4. ms = [n \in DOMAIN ms |-> ms[n]]
    BY MessagesAre
  <2>5. QED
    BY <2>2, <2>3, <2>4, Zenon
<1> HIDE DEF after
<1>8. QED
  BY <1>1, <1>7, PlaceNothing, Zenon

LEMMA SettledStays ==
    ASSUME NEW B, NEW ms \in Seq(Messages(B)), Settled(ms)
    PROVE  ValidateAndRepair(ms) = MergeRoles(ms)
<1>1. DropOrphans(ms) = ms
  BY NoOrphans
<1>2. ReorderResults(ms) = ms
  BY NoneMisplaced
<1>3. InsertSynthetic(ms) = ms
  BY NoneMissing
<1>4. Deduplicate(ms) = ms
  BY NoDuplicates
<1>5. RemoveAborted(ms) = ms
  BY NoneAborted
<1>6. QED
  BY <1>1, <1>2, <1>3, <1>4, <1>5, Zenon DEF ValidateAndRepair

-----------------------------------------------------------------------------
(* Repair leaves alone what is only spoken *)

\* Messages of text, and silent answers, of the turns in T.
Spoken(T) == [kind : {"text", "noreply"}, id : T]
Talk(T) == {m \in Messages(Spoken(T)) : m.blocks # <<>>}

LEMMA TalkType ==
    ASSUME NEW T, NEW ms \in Seq(Talk(T))
    PROVE  /\ ms \in Seq(Messages(Spoken(T))) /\ Len(ms) \in Nat /\ DOMAIN ms = 1 .. Len(ms)
           /\ \A i \in DOMAIN ms :
                /\ ms[i] \in Talk(T) /\ ms[i].blocks \in Seq(Spoken(T)) /\ ms[i].blocks # <<>>
                /\ ms[i] = [role |-> ms[i].role, blocks |-> ms[i].blocks]
                /\ Len(ms[i].blocks) \in Nat \ {0} /\ DOMAIN ms[i].blocks = 1 .. Len(ms[i].blocks)
                /\ \A j \in DOMAIN ms[i].blocks :
                     ms[i].blocks[j].kind \in {"text", "noreply"} /\ ms[i].blocks[j].id \in T
<1>1. Talk(T) \subseteq Messages(Spoken(T))
  BY DEF Talk
<1>2. ms \in Seq(Messages(Spoken(T))) /\ Len(ms) \in Nat /\ DOMAIN ms = 1 .. Len(ms)
      /\ \A i \in DOMAIN ms : ms[i] \in Talk(T)
  <2> HIDE DEF Talk
  <2>1. QED
    BY <1>1
<1>3. ASSUME NEW m \in Talk(T)
      PROVE  /\ m.blocks \in Seq(Spoken(T)) /\ m.blocks # <<>> /\ m = [role |-> m.role, blocks |-> m.blocks]
             /\ Len(m.blocks) \in Nat \ {0} /\ DOMAIN m.blocks = 1 .. Len(m.blocks)
             /\ \A j \in DOMAIN m.blocks : m.blocks[j].kind \in {"text", "noreply"} /\ m.blocks[j].id \in T
  <2>1. m.blocks \in Seq(Spoken(T)) /\ m.blocks # <<>> /\ m = [role |-> m.role, blocks |-> m.blocks]
    BY DEF Talk, Messages
  <2>2. Len(m.blocks) \in Nat \ {0} /\ DOMAIN m.blocks = 1 .. Len(m.blocks)
        /\ \A j \in DOMAIN m.blocks : m.blocks[j] \in Spoken(T)
    BY <2>1
  <2>3. QED
    BY <2>1, <2>2 DEF Spoken
<1>4. QED
  BY <1>2, <1>3

LEMMA RepairTalk ==
    ASSUME NEW T, NEW ms \in Seq(Talk(T))
    PROVE  ValidateAndRepair(ms) = MergeRoles(ms)
<1>1. /\ ms \in Seq(Messages(Spoken(T)))
      /\ \A i \in DOMAIN ms :
           /\ ms[i].blocks # <<>> /\ 1 \in DOMAIN ms[i].blocks
           /\ \A j \in DOMAIN ms[i].blocks : ms[i].blocks[j].kind \in {"text", "noreply"}
  BY TalkType
<1>2. \A i \in DOMAIN ms : ~ IsBlank(ms[i])
  BY <1>1 DEF IsBlank
<1>3. Settled(ms)
  BY <1>1, <1>2 DEF Settled
<1>4. QED
  BY <1>1, <1>3, SettledStays

-----------------------------------------------------------------------------
(* Questions and answers in talk *)

BlocksOf(m) == {m.blocks[j] : j \in DOMAIN m.blocks}
\* m asks the question of turn t; m tells something.
Asks(m, t) == m.role = "user" /\ \E b \in BlocksOf(m) : b.kind = "text" /\ b.id = t
Tells(m) == m.role = "assistant" /\ \E b \in BlocksOf(m) : b.kind = "text"
\* The question of t is followed by an answer that is not silent.
Told(ms, t) == \E i \in 1 .. (Len(ms) - 1) : Asks(ms[i], t) /\ Tells(ms[i + 1])

LEMMA AskedIs ==
    ASSUME NEW ms, NEW t
    PROVE  t \in AskedIn(ms) <=> \E i \in DOMAIN ms : Asks(ms[i], t)
BY DEF AskedIn, Asks, BlocksOf, ToSet

LEMMA MergedTalk ==
    ASSUME NEW T, NEW acc \in Seq(Talk(T)), NEW m \in Talk(T)
    PROVE  /\ Merged(acc, m) \in Seq(Talk(T)) /\ Merged(acc, m) # <<>>
           /\ Last(Merged(acc, m)).role = m.role
           /\ BlocksOf(m) \subseteq BlocksOf(Last(Merged(acc, m)))
           /\ \A t : (\E i \in DOMAIN Merged(acc, m) : Asks(Merged(acc, m)[i], t)) =>
                      Asks(m, t) \/ \E i \in DOMAIN acc : Asks(acc[i], t)
           /\ \A t : Told(acc, t) => Told(Merged(acc, m), t)
           /\ \A t : acc # <<>> /\ Asks(Last(acc), t) /\ Tells(m) => Told(Merged(acc, m), t)
<1> DEFINE r == Merged(acc, m)
           M == Messages(Spoken(T))
<1> SUFFICES /\ r \in Seq(Talk(T)) /\ r # <<>> /\ Last(r).role = m.role /\ BlocksOf(m) \subseteq BlocksOf(Last(r))
             /\ \A t : (\E i \in DOMAIN r : Asks(r[i], t)) => Asks(m, t) \/ \E i \in DOMAIN acc : Asks(acc[i], t)
             /\ \A t : Told(acc, t) => Told(r, t)
             /\ \A t : acc # <<>> /\ Asks(Last(acc), t) /\ Tells(m) => Told(r, t)
  OBVIOUS
<1> HIDE DEF r
<1>0. acc \in Seq(M) /\ m \in M /\ m.blocks # <<>> /\ m.blocks \in Seq(Spoken(T)) /\ Len(acc) \in Nat
  <2>1. acc \in Seq(M) /\ Len(acc) \in Nat
    BY TalkType
  <2>2. QED
    BY <2>1 DEF Talk, Messages
<1>1. /\ r \in Seq(M) /\ r # <<>>
      /\ acc # <<>> /\ Last(acc).role = m.role =>
           /\ Len(r) = Len(acc)
           /\ Last(r) = [role |-> m.role, blocks |-> Last(acc).blocks \o m.blocks]
           /\ \A i \in 1 .. (Len(acc) - 1) : r[i] = acc[i]
      /\ ~ (acc # <<>> /\ Last(acc).role = m.role) =>
           /\ Len(r) = Len(acc) + 1
           /\ Last(r) = m
           /\ \A i \in 1 .. Len(acc) : r[i] = acc[i]
  <2>1. acc \in Seq(Messages(Spoken(T))) /\ m \in Messages(Spoken(T))
    BY <1>0
  <2> DEFINE q == Merged(acc, m)
  <2>2. /\ q \in Seq(Messages(Spoken(T)))
        /\ q # <<>>
        /\ acc # <<>> /\ Last(acc).role = m.role =>
             /\ Len(q) = Len(acc)
             /\ Last(q) = [role |-> m.role, blocks |-> Last(acc).blocks \o m.blocks]
             /\ \A i \in 1 .. (Len(acc) - 1) : q[i] = acc[i]
        /\ ~ (acc # <<>> /\ Last(acc).role = m.role) =>
             /\ Len(q) = Len(acc) + 1
             /\ Last(q) = m
             /\ \A i \in 1 .. Len(acc) : q[i] = acc[i]
    BY <2>1, MergedIs, Zenon
  <2> HIDE DEF q
  <2>3. r = q
    BY DEF q, r
  <2>4. QED
    BY <2>2, <2>3, Zenon
<1>2. Len(r) \in Nat /\ Len(r) # 0 /\ Last(r) = r[Len(r)] /\ DOMAIN r = 1 .. Len(r) /\ DOMAIN acc = 1 .. Len(acc)
  <2> HIDE DEF M
  <2>1. QED
    BY <1>0, <1>1 DEF Last
<1>3. CASE acc # <<>> /\ Last(acc).role = m.role
  <2> DEFINE a == Last(acc)
             b == Last(r)
  <2>1. Len(acc) # 0 /\ a = acc[Len(acc)] /\ a \in Talk(T) /\ Len(r) = Len(acc) /\ Len(acc) \in DOMAIN acc
    <3>1. Len(acc) # 0 /\ a = acc[Len(acc)] /\ Len(r) = Len(acc)
      BY <1>0, <1>1, <1>3 DEF Last
    <3>2. QED
      BY <1>0, <1>2, <3>1
  <2>2. b = [role |-> m.role, blocks |-> a.blocks \o m.blocks] /\ a.role = m.role /\ \A i \in 1 .. (Len(acc) - 1) : r[i] = acc[i]
    BY <1>1, <1>3, Zenon
  <2>3. a.blocks \in Seq(Spoken(T)) /\ a.blocks # <<>>
    BY <2>1 DEF Talk, Messages
  <2>4. /\ b.blocks \in Seq(Spoken(T)) /\ b.blocks # <<>> /\ b.role = m.role
        /\ BlocksOf(b) = BlocksOf(a) \cup BlocksOf(m)
    <3>1. ASSUME NEW x \in Seq(Spoken(T)), NEW y \in Seq(Spoken(T)), x # <<>>
          PROVE  /\ x \o y \in Seq(Spoken(T)) /\ x \o y # <<>>
                 /\ {(x \o y)[j] : j \in DOMAIN (x \o y)} = {x[j] : j \in DOMAIN x} \cup {y[j] : j \in DOMAIN y}
      <4> DEFINE z == x \o y
      <4>1. /\ z \in Seq(Spoken(T)) /\ Len(z) = Len(x) + Len(y) /\ Len(x) \in Nat /\ Len(y) \in Nat
            /\ DOMAIN z = 1 .. Len(z) /\ DOMAIN x = 1 .. Len(x) /\ DOMAIN y = 1 .. Len(y) /\ Len(x) # 0
            /\ \A j \in 1 .. Len(x) : z[j] = x[j]
            /\ \A j \in (Len(x) + 1) .. Len(z) : z[j] = y[j - Len(x)]
            /\ (z = <<>> => Len(z) = 0)
        BY <3>1
      <4> HIDE DEF z
      <4>2. \A j \in DOMAIN z : (\E k \in DOMAIN x : z[j] = x[k]) \/ (\E k \in DOMAIN y : z[j] = y[k])
        <5>1. ASSUME NEW j \in DOMAIN z, j > Len(x) PROVE j - Len(x) \in DOMAIN y /\ z[j] = y[j - Len(x)]
          BY <4>1, <5>1
        <5>2. ASSUME NEW j \in DOMAIN z, ~ (j > Len(x)) PROVE j \in DOMAIN x /\ z[j] = x[j]
          BY <4>1, <5>2
        <5>3. QED
          BY <5>1, <5>2
      <4>3. \A k \in DOMAIN x : k \in DOMAIN z /\ z[k] = x[k]
        BY <4>1
      <4>4. ASSUME NEW k \in DOMAIN y PROVE Len(x) + k \in DOMAIN z /\ z[Len(x) + k] = y[k]
        <5>1. Len(x) + k \in (Len(x) + 1) .. Len(z) /\ Len(x) + k - Len(x) = k
          BY <4>1
        <5>2. PICK l \in (Len(x) + 1) .. Len(z) : l = Len(x) + k /\ l - Len(x) = k
          BY <5>1
        <5>3. z[l] = y[l - Len(x)]
          BY <4>1, Zenon
        <5>4. l \in DOMAIN z
          BY <4>1, <5>2
        <5>5. QED
          BY <5>2, <5>3, <5>4, Zenon
      <4>5. z # <<>>
        BY <4>1
      <4>6. {z[j] : j \in DOMAIN z} = {x[j] : j \in DOMAIN x} \cup {y[j] : j \in DOMAIN y}
        BY <4>2, <4>3, <4>4
      <4>7. QED
        BY <4>1, <4>5, <4>6 DEF z
    <3> DEFINE w == a.blocks \o m.blocks
    <3>2. w \in Seq(Spoken(T)) /\ w # <<>> /\ {w[j] : j \in DOMAIN w} = BlocksOf(a) \cup BlocksOf(m)
      BY <1>0, <2>3, <3>1, Zenon DEF BlocksOf
    <3>3. b = [role |-> m.role, blocks |-> w]
      BY <2>2
    <3> HIDE DEF w, a, b
    <3>4. b.blocks = w /\ b.role = m.role
      BY <3>3
    <3>5. QED
      BY <3>2, <3>4, Zenon DEF BlocksOf
  <2>5. b \in Talk(T)
    <3>1. b \in M
      <4>1. \A i \in DOMAIN r : r[i] \in M
        BY <1>1
      <4>2. Len(r) \in DOMAIN r
        BY <1>2
      <4>3. QED
        BY <1>2, <4>1, <4>2
    <3>2. QED
      BY <2>4, <3>1, Zenon DEF Talk
  <2> HIDE DEF a, b
  <2>6. r[Len(acc)] = b /\ acc[Len(acc)] = a
    BY <1>2, <2>1 DEF b
  <2>7. r \in Seq(Talk(T))
    <3>1. \A i \in 1 .. Len(r) : r[i] \in Talk(T)
      <4>1. ASSUME NEW i \in 1 .. Len(r), i # Len(acc) PROVE r[i] \in Talk(T)
        <5>1. i \in 1 .. (Len(acc) - 1) /\ i \in DOMAIN acc
          <6>1. Len(acc) \in Nat /\ Len(r) = Len(acc) /\ DOMAIN acc = 1 .. Len(acc)
            BY <1>0, <1>2, <2>1
          <6> HIDE DEF M
          <6>2. QED
            BY <4>1, <6>1
        <5>2. acc[i] \in Talk(T)
          BY <5>1
        <5>3. QED
          BY <2>2, <5>1, <5>2
      <4>2. QED
        BY <2>5, <2>6, <4>1
    <3>2. r = [i \in 1 .. Len(r) |-> r[i]]
      BY <1>1
    <3> HIDE DEF M
    <3>3. QED
      BY <1>2, <3>1, <3>2
  <2>8. /\ \A t : Asks(b, t) => Asks(a, t) \/ Asks(m, t)
        /\ \A t : Asks(a, t) => Asks(b, t)
        /\ Tells(a) => Tells(b)
    BY <2>2, <2>4 DEF Asks, Tells
  <2>9. ASSUME NEW t, NEW i \in DOMAIN r, Asks(r[i], t) PROVE Asks(m, t) \/ \E k \in DOMAIN acc : Asks(acc[k], t)
    <3>1. CASE i = Len(acc)
      BY <2>1, <2>6, <2>8, <2>9, <3>1
    <3>2. CASE i # Len(acc)
      <4>1. i \in 1 .. (Len(acc) - 1) /\ i \in DOMAIN acc
        BY <1>0, <1>2, <2>1, <3>2
      <4>2. QED
        BY <2>2, <2>9, <4>1
    <3>3. QED
      BY <3>1, <3>2
  <2>10. ASSUME NEW t, Told(acc, t) PROVE Told(r, t)
    <3>1. PICK i \in 1 .. (Len(acc) - 1) : Asks(acc[i], t) /\ Tells(acc[i + 1])
      BY <2>10 DEF Told
    <3>2. Asks(r[i], t)
      BY <2>2, <3>1
    <3>3. Tells(r[i + 1])
      <4>1. CASE i + 1 = Len(acc)
        BY <2>6, <2>8, <3>1, <4>1
      <4>2. CASE i + 1 # Len(acc)
        <5>1. i + 1 \in 1 .. (Len(acc) - 1)
          BY <1>0, <4>2
        <5>2. QED
          BY <2>2, <3>1, <5>1
      <4>3. QED
        BY <4>1, <4>2
    <3>4. QED
      BY <2>1, <3>2, <3>3 DEF Told
  <2>11. ASSUME NEW t, Asks(Last(acc), t), Tells(m) PROVE FALSE
    BY <1>3, <2>11 DEF Asks, Tells
  <2>12. r # <<>> /\ Last(r).role = m.role /\ BlocksOf(m) \subseteq BlocksOf(Last(r))
    BY <1>1, <2>4 DEF b
  <2>13. QED
    BY <2>7, <2>9, <2>10, <2>11, <2>12
<1>4. CASE ~ (acc # <<>> /\ Last(acc).role = m.role)
  <2>1. Len(r) = Len(acc) + 1 /\ Last(r) = m /\ \A i \in 1 .. Len(acc) : r[i] = acc[i]
    BY <1>1, <1>4, Zenon
  <2>2. r[Len(acc) + 1] = m
    BY <1>2, <2>1
  <2>3. \A i \in 1 .. Len(acc) : acc[i] \in Talk(T)
    BY <1>2
  <2>4. \A i \in 1 .. Len(r) : r[i] \in Talk(T)
    <3>1. ASSUME NEW i \in 1 .. Len(r) PROVE i = Len(acc) + 1 \/ i \in 1 .. Len(acc)
      BY <1>0, <2>1
    <3>2. QED
      BY <2>1, <2>2, <2>3, <3>1
  <2>5. r \in Seq(Talk(T))
    <3>1. r = [i \in 1 .. Len(r) |-> r[i]]
      BY <1>1
    <3> HIDE DEF M
    <3>2. QED
      BY <1>2, <2>4, <3>1
  <2>6. ASSUME NEW t, NEW i \in DOMAIN r, Asks(r[i], t) PROVE Asks(m, t) \/ \E k \in DOMAIN acc : Asks(acc[k], t)
    <3>1. i = Len(acc) + 1 \/ i \in 1 .. Len(acc)
      BY <1>0, <1>2, <2>1
    <3>2. QED
      BY <1>2, <2>1, <2>2, <2>6, <3>1
  <2>7. ASSUME NEW t, Told(acc, t) PROVE Told(r, t)
    <3>1. PICK i \in 1 .. (Len(acc) - 1) : Asks(acc[i], t) /\ Tells(acc[i + 1])
      BY <2>7 DEF Told
    <3>2. i \in 1 .. Len(acc) /\ i + 1 \in 1 .. Len(acc) /\ i \in 1 .. (Len(r) - 1)
      BY <1>0, <2>1
    <3>3. Asks(r[i], t) /\ Tells(r[i + 1])
      BY <2>1, <3>1, <3>2
    <3>4. QED
      BY <3>2, <3>3 DEF Told
  <2>8. ASSUME NEW t, acc # <<>>, Asks(Last(acc), t), Tells(m) PROVE Told(r, t)
    <3>1. Len(acc) \in 1 .. Len(acc) /\ Len(acc) \in 1 .. (Len(r) - 1)
      BY <1>0, <2>1, <2>8
    <3>2. Asks(r[Len(acc)], t)
      BY <2>1, <2>8, <3>1 DEF Last
    <3>3. QED
      BY <2>2, <2>8, <3>1, <3>2 DEF Told
  <2>9. r # <<>> /\ Last(r).role = m.role /\ BlocksOf(m) \subseteq BlocksOf(Last(r))
    BY <1>1, <2>1
  <2>10. QED
    BY <2>5, <2>6, <2>7, <2>8, <2>9
<1>5. QED
  BY <1>3, <1>4 DEF r

\* Merging the messages of a talk loses no question and no answer.
LEMMA MergeTalk ==
    ASSUME NEW T, NEW ms \in Seq(Talk(T))
    PROVE  /\ MergeRoles(ms) \in Seq(Talk(T))
           /\ AskedIn(MergeRoles(ms)) \subseteq AskedIn(ms)
           /\ \A t : Told(ms, t) => Told(MergeRoles(ms), t)
<1>1. ms \in Seq(Messages(Spoken(T))) /\ Len(ms) \in Nat /\ DOMAIN ms = 1 .. Len(ms)
      /\ \A i \in 1 .. Len(ms) : ms[i] \in Talk(T)
  BY TalkType
<1>2. PICK f : MergesUpTo(f, ms, Spoken(T)) /\ MergeRoles(ms) = f[Len(ms)]
  BY <1>1, MergeStep, Zenon
<1>3. f[0] = <<>> /\ \A n \in 1 .. Len(ms) : f[n] = Merged(f[n - 1], ms[n])
  BY <1>2, Zenon DEF MergesUpTo
<1> DEFINE Typed(n) == f[n] \in Seq(Talk(T))
           Ends(n) == n # 0 => f[n] # <<>> /\ Last(f[n]).role = ms[n].role /\ BlocksOf(ms[n]) \subseteq BlocksOf(Last(f[n]))
           NoMore(n) == \A t : (\E i \in DOMAIN f[n] : Asks(f[n][i], t)) => \E k \in 1 .. n : Asks(ms[k], t)
           AllTold(n) == \A t, k : k \in 1 .. (n - 1) /\ Asks(ms[k], t) /\ Tells(ms[k + 1]) => Told(f[n], t)
           S == {n \in 0 .. Len(ms) : Typed(n) /\ Ends(n) /\ NoMore(n) /\ AllTold(n)}
<1>4. 0 \in S
  <2>1. f[0] \in Seq(Talk(T)) /\ DOMAIN f[0] = {}
    BY <1>3
  <2>2. Typed(0) /\ Ends(0) /\ NoMore(0) /\ AllTold(0)
    BY <2>1
  <2>3. 0 \in 0 .. Len(ms)
    BY <1>1
  <2> HIDE DEF Typed, Ends, NoMore, AllTold
  <2>4. QED
    BY <2>2, <2>3
<1>5. ASSUME NEW n \in 0 .. (Len(ms) - 1), n \in S PROVE n + 1 \in S
  <2> DEFINE k == n + 1
  <2>1. k \in 1 .. Len(ms) /\ k - 1 = n /\ k \in 0 .. Len(ms) /\ n \in Nat
    BY <1>1
  <2>2. Typed(n) /\ Ends(n) /\ NoMore(n) /\ AllTold(n)
    BY <1>5
  <2> HIDE DEF k
  <2>3. f[k] = Merged(f[n], ms[k]) /\ ms[k] \in Talk(T)
    <3>1. f[k] = Merged(f[k - 1], ms[k])
      BY <1>3, <2>1, Zenon
    <3>2. QED
      BY <1>1, <2>1, <3>1, Zenon
  <2>4. /\ f[k] \in Seq(Talk(T)) /\ f[k] # <<>> /\ Last(f[k]).role = ms[k].role
        /\ BlocksOf(ms[k]) \subseteq BlocksOf(Last(f[k]))
        /\ \A t : (\E i \in DOMAIN f[k] : Asks(f[k][i], t)) => Asks(ms[k], t) \/ \E i \in DOMAIN f[n] : Asks(f[n][i], t)
        /\ \A t : Told(f[n], t) => Told(f[k], t)
        /\ \A t : f[n] # <<>> /\ Asks(Last(f[n]), t) /\ Tells(ms[k]) => Told(f[k], t)
    <3>1. f[n] \in Seq(Talk(T))
      BY <2>2
    <3>2. /\ Merged(f[n], ms[k]) \in Seq(Talk(T)) /\ Merged(f[n], ms[k]) # <<>>
          /\ Last(Merged(f[n], ms[k])).role = ms[k].role
          /\ BlocksOf(ms[k]) \subseteq BlocksOf(Last(Merged(f[n], ms[k])))
          /\ \A t : (\E i \in DOMAIN Merged(f[n], ms[k]) : Asks(Merged(f[n], ms[k])[i], t)) =>
                     Asks(ms[k], t) \/ \E i \in DOMAIN f[n] : Asks(f[n][i], t)
          /\ \A t : Told(f[n], t) => Told(Merged(f[n], ms[k]), t)
          /\ \A t : f[n] # <<>> /\ Asks(Last(f[n]), t) /\ Tells(ms[k]) => Told(Merged(f[n], ms[k]), t)
      BY <2>3, <3>1, MergedTalk, Zenon
    <3>3. QED
      BY <2>3, <3>2, Zenon
  <2>5. Typed(k) /\ Ends(k)
    BY <2>4
  <2>6. NoMore(k)
    <3>1. \A j \in 1 .. n : j \in 1 .. k
      BY <2>1 DEF k
    <3>2. k \in 1 .. k
      BY <2>1
    <3>3. QED
      BY <2>2, <2>4, <3>1, <3>2
  <2>7. AllTold(k)
    <3>1. ASSUME NEW t, NEW j, j \in 1 .. (k - 1), Asks(ms[j], t), Tells(ms[j + 1]) PROVE Told(f[k], t)
      <4>1. CASE j = n
        <5>1. n # 0 /\ j + 1 = k
          BY <2>1, <3>1, <4>1 DEF k
        <5>2. f[n] # <<>> /\ Last(f[n]).role = ms[n].role /\ BlocksOf(ms[n]) \subseteq BlocksOf(Last(f[n]))
          BY <2>2, <5>1
        <5>3. Asks(Last(f[n]), t)
          BY <3>1, <4>1, <5>2 DEF Asks
        <5>4. QED
          BY <2>4, <3>1, <5>1, <5>2, <5>3
      <4>2. CASE j # n
        <5>1. j \in 1 .. (n - 1)
          BY <2>1, <3>1, <4>2
        <5>2. Told(f[n], t)
          BY <2>2, <3>1, <5>1
        <5>3. QED
          BY <2>4, <5>2
      <4>3. QED
        BY <4>1, <4>2
    <3>2. QED
      BY <3>1
  <2> HIDE DEF Typed, Ends, NoMore, AllTold
  <2>8. k \in S
    BY <2>1, <2>5, <2>6, <2>7
  <2>9. QED
    BY <2>8 DEF k
<1>6. Len(ms) \in 0 .. Len(ms)
  BY <1>1
<1>7. 0 .. Len(ms) \subseteq S
  <2> HIDE DEF S
  <2>1. QED
    BY <1>1, <1>4, <1>5, Induction
<1> DEFINE r == f[Len(ms)]
<1>8. Typed(Len(ms)) /\ NoMore(Len(ms)) /\ AllTold(Len(ms))
  <2> HIDE DEF Typed, Ends, NoMore, AllTold
  <2>1. QED
    BY <1>6, <1>7
<1>9. r \in Seq(Talk(T))
  BY <1>8
<1>10. AskedIn(r) \subseteq AskedIn(ms)
  BY <1>1, <1>8, AskedIs
<1>11. \A t : Told(ms, t) => Told(r, t)
  BY <1>1, <1>8 DEF Told
<1> HIDE DEF r
<1>12. QED
  BY <1>2, <1>9, <1>10, <1>11, Zenon DEF r

LEMMA RepairedTalk ==
    ASSUME NEW T, NEW ms \in Seq(Talk(T))
    PROVE  /\ ValidateAndRepair(ms) \in Seq(Talk(T))
           /\ AskedIn(ValidateAndRepair(ms)) \subseteq AskedIn(ms)
           /\ \A t : Told(ms, t) => Told(ValidateAndRepair(ms), t)
<1>1. ValidateAndRepair(ms) = MergeRoles(ms)
  BY RepairTalk
<1>2. QED
  BY <1>1, MergeTalk, Zenon

\* A message more.
LEMMA AppendTalk ==
    ASSUME NEW T, NEW ms \in Seq(Talk(T)), NEW m \in Talk(T)
    PROVE  /\ Append(ms, m) \in Seq(Talk(T))
           /\ \A t \in AskedIn(Append(ms, m)) : t \in AskedIn(ms) \/ Asks(m, t)
           /\ \A t : Told(ms, t) => Told(Append(ms, m), t)
           /\ \A t : ms # <<>> /\ Asks(Last(ms), t) /\ Tells(m) => Told(Append(ms, m), t)
<1> DEFINE r == Append(ms, m)
<1>1. /\ r \in Seq(Talk(T)) /\ Len(r) = Len(ms) + 1 /\ Len(ms) \in Nat /\ r[Len(ms) + 1] = m
      /\ DOMAIN r = 1 .. (Len(ms) + 1) /\ DOMAIN ms = 1 .. Len(ms) /\ \A i \in 1 .. Len(ms) : r[i] = ms[i]
  <2> HIDE DEF Talk
  <2>1. QED
    OBVIOUS
<1> HIDE DEF r
<1>2. ASSUME NEW t \in AskedIn(r) PROVE t \in AskedIn(ms) \/ Asks(m, t)
  <2>1. PICK i \in DOMAIN r : Asks(r[i], t)
    BY AskedIs
  <2>2. i = Len(ms) + 1 \/ i \in DOMAIN ms
    BY <1>1
  <2>3. QED
    BY <1>1, <2>1, <2>2, AskedIs
<1>3. ASSUME NEW t, Told(ms, t) PROVE Told(r, t)
  <2>1. PICK i \in 1 .. (Len(ms) - 1) : Asks(ms[i], t) /\ Tells(ms[i + 1])
    BY <1>3 DEF Told
  <2>2. i \in 1 .. Len(ms) /\ i + 1 \in 1 .. Len(ms) /\ i \in 1 .. (Len(r) - 1)
    BY <1>1
  <2>3. QED
    BY <1>1, <2>1, <2>2 DEF Told
<1>4. ASSUME NEW t, ms # <<>>, Asks(Last(ms), t), Tells(m) PROVE Told(r, t)
  <2>1. Len(ms) \in 1 .. Len(ms) /\ Len(ms) \in 1 .. (Len(r) - 1)
    <3>1. Len(ms) # 0
      BY <1>4
    <3>2. QED
      BY <1>1, <3>1
  <2>2. r[Len(ms)] = Last(ms)
    BY <1>1, <2>1 DEF Last
  <2>3. QED
    BY <1>1, <1>4, <2>1, <2>2 DEF Told
<1>5. QED
  BY <1>1, <1>2, <1>3, <1>4 DEF r

\* The last n messages, and those before them.
LEMMA LastTalk ==
    ASSUME NEW T, NEW ms \in Seq(Talk(T)), NEW n \in Nat, n <= Len(ms)
    PROVE  /\ LastN(ms, n) \in Seq(Talk(T)) /\ Len(LastN(ms, n)) = n
           /\ AskedIn(LastN(ms, n)) \subseteq AskedIn(ms)
           /\ AskedIn(SubSeq(ms, 1, Len(ms) - n)) \subseteq AskedIn(ms)
           /\ \A t \in AskedIn(ms) : t \in AskedIn(SubSeq(ms, 1, Len(ms) - n)) \/ t \in AskedIn(LastN(ms, n))
           /\ \A t : Told(ms, t) => t \in AskedIn(SubSeq(ms, 1, Len(ms) - n)) \/ Told(LastN(ms, n), t)
<1> DEFINE k == Len(ms) - n
           q == SubSeq(ms, 1, k)
           r == SubSeq(ms, k + 1, Len(ms))
<1>1. /\ Len(ms) \in Nat /\ k \in 0 .. Len(ms) /\ DOMAIN ms = 1 .. Len(ms) /\ Len(ms) = k + n
      /\ \A i \in 1 .. Len(ms) : ms[i] \in Talk(T)
  <2> HIDE DEF Talk
  <2>1. QED
    OBVIOUS
<1> HIDE DEF k
<1>2. q = [i \in 1 .. k |-> ms[i]] /\ DOMAIN q = 1 .. k
  BY <1>1
<1>3. /\ r = [i \in 1 .. n |-> ms[k + i]] /\ DOMAIN r = 1 .. n /\ Len(r) = n
  BY <1>1
<1>4. r \in Seq(Talk(T))
  <2>1. \A i \in 1 .. n : ms[k + i] \in Talk(T)
    BY <1>1
  <2> HIDE DEF r, Talk
  <2>2. QED
    BY <1>3, <2>1
<1> HIDE DEF q, r
<1>5. AskedIn(r) \subseteq AskedIn(ms)
  <2>1. \A i \in DOMAIN r : k + i \in DOMAIN ms /\ r[i] = ms[k + i]
    BY <1>1, <1>3
  <2>2. QED
    BY <2>1, AskedIs
<1>6. AskedIn(q) \subseteq AskedIn(ms)
  <2>1. \A i \in DOMAIN q : i \in DOMAIN ms /\ q[i] = ms[i]
    BY <1>1, <1>2
  <2>2. QED
    BY <2>1, AskedIs
<1>7. ASSUME NEW i \in DOMAIN ms, i > k PROVE i - k \in DOMAIN r /\ r[i - k] = ms[i]
  <2>1. i - k \in 1 .. n /\ k + (i - k) = i
    BY <1>1, <1>7
  <2>2. QED
    BY <1>3, <2>1
<1>8. ASSUME NEW i \in DOMAIN ms, ~ (i > k) PROVE i \in DOMAIN q /\ q[i] = ms[i]
  BY <1>1, <1>2, <1>8
<1>9. ASSUME NEW t \in AskedIn(ms) PROVE t \in AskedIn(q) \/ t \in AskedIn(r)
  <2>1. PICK i \in DOMAIN ms : Asks(ms[i], t)
    BY AskedIs
  <2>2. QED
    BY <1>7, <1>8, <2>1, AskedIs
<1>10. ASSUME NEW t, Told(ms, t) PROVE t \in AskedIn(q) \/ Told(r, t)
  <2>1. PICK i \in 1 .. (Len(ms) - 1) : Asks(ms[i], t) /\ Tells(ms[i + 1])
    BY <1>10 DEF Told
  <2>2. i \in DOMAIN ms /\ i + 1 \in DOMAIN ms
    BY <1>1
  <2>3. CASE i > k
    <3>1. i - k \in 1 .. (n - 1) /\ i - k + 1 = i + 1 - k /\ i + 1 > k
      BY <1>1, <2>3
    <3>2. r[i - k] = ms[i] /\ r[i - k + 1] = ms[i + 1]
      <4>1. r[i - k] = ms[i]
        BY <1>7, <2>2, <2>3
      <4> DEFINE j == i + 1
      <4>2. j \in DOMAIN ms /\ j > k /\ j - k = i - k + 1
        BY <1>1, <2>2, <3>1
      <4> HIDE DEF j
      <4>3. r[j - k] = ms[j]
        BY <1>7, <4>2
      <4>4. QED
        BY <4>1, <4>2, <4>3 DEF j
    <3>3. QED
      BY <1>3, <2>1, <3>1, <3>2 DEF Told
  <2>4. CASE ~ (i > k)
    BY <1>8, <2>1, <2>2, <2>4, AskedIs
  <2>5. QED
    BY <2>3, <2>4
<1>11. LastN(ms, n) = r /\ q = SubSeq(ms, 1, Len(ms) - n)
  BY DEF LastN, q, r, k
<1>12. QED
  BY <1>3, <1>4, <1>5, <1>6, <1>9, <1>10, <1>11

\* Pruning the silent turns.
LEMMA PruneTalk ==
    ASSUME NEW T, NEW ms \in Seq(Talk(T))
    PROVE  /\ PruneHeartbeatTurns(ms) \in Seq(Talk(T))
           /\ AskedIn(PruneHeartbeatTurns(ms)) \subseteq AskedIn(ms)
           /\ \A t : Told(ms, t) => Told(PruneHeartbeatTurns(ms), t)
           /\ Len(PruneHeartbeatTurns(ms)) <= Len(ms)
           /\ Len(PruneHeartbeatTurns(ms)) = Len(ms) => PruneHeartbeatTurns(ms) = ms
<1> DEFINE silent == {i \in 1 .. (Len(ms) - KeepRecent) : ms[i].role = "assistant" /\ IsNoReply(ms[i])}
           asked == {i - 1 : i \in {k \in silent : k > 1 /\ ms[k - 1].role = "user"}}
           I == DOMAIN ms \ (silent \cup asked)
           r == Retain(ms, I)
<1>1. PruneHeartbeatTurns(ms) = r
  BY DEF PruneHeartbeatTurns
<1>2. Len(ms) \in Nat /\ DOMAIN ms = 1 .. Len(ms) /\ Len(ms) - KeepRecent \in Int
  <2> HIDE DEF Talk
  <2>1. KeepRecent \in Nat
    BY KeepsType
  <2>2. QED
    BY <2>1
<1>3. /\ r \in Seq(Talk(T))
      /\ \A k \in 1 .. Len(r) : \E i \in 1 .. Len(ms) : r[k] = ms[i]
  <2> HIDE DEF I
  <2>1. QED
    BY RetainElements
<1>4. Len(r) <= Len(ms) /\ (Len(r) = Len(ms) => r = ms)
  <2> HIDE DEF I
  <2>1. QED
    BY RetainLength
<1>5. AskedIn(r) \subseteq AskedIn(ms)
  <2> HIDE DEF r
  <2>1. DOMAIN r = 1 .. Len(r)
    BY <1>3
  <2>2. QED
    BY <1>2, <1>3, <2>1, AskedIs
<1>6. ASSUME NEW t, Told(ms, t) PROVE Told(r, t)
  <2>1. PICK i \in 1 .. (Len(ms) - 1) : Asks(ms[i], t) /\ Tells(ms[i + 1])
    BY <1>6 DEF Told
  <2>2. i \in Int /\ i + 1 - 1 = i /\ i \in DOMAIN ms /\ i + 1 \in DOMAIN ms
    BY <1>2
  <2>3. ms[i].role = "user" /\ ms[i + 1].role = "assistant" /\ ~ IsNoReply(ms[i + 1])
    <3>1. ms[i + 1].blocks \in Seq(Spoken(T))
      BY <2>2, TalkType
    <3>2. IsNoReply(ms[i + 1]) => ms[i + 1].blocks[1].kind = "noreply" /\ DOMAIN ms[i + 1].blocks = {1}
      BY <3>1 DEF IsNoReply
    <3>3. QED
      BY <2>1, <3>2 DEF Asks, Tells, BlocksOf
  <2>4. i \notin silent /\ i + 1 \notin silent
    BY <2>3
  <2>5. i \notin asked
    <3>1. ASSUME NEW j \in silent, i = j - 1 PROVE FALSE
      <4>1. j = i + 1
        BY <1>2, <2>2, <3>1
      <4>2. QED
        BY <2>4, <4>1
    <3>2. QED
      BY <3>1
  <2>6. i + 1 \notin asked
    <3>1. ASSUME NEW j \in silent, j > 1, ms[j - 1].role = "user", i + 1 = j - 1 PROVE FALSE
      BY <2>3, <3>1
    <3>2. QED
      BY <3>1
  <2>7. i \in I /\ i + 1 \in I
    BY <2>2, <2>4, <2>5, <2>6
  <2> HIDE DEF I
  <2>8. PICK k \in 1 .. (Len(r) - 1) : r[k] = ms[i] /\ r[k + 1] = ms[i + 1]
    BY <2>1, <2>7, RetainNeighbours
  <2> HIDE DEF r
  <2>9. QED
    BY <2>1, <2>8 DEF Told
<1> HIDE DEF r
<1>7. QED
  BY <1>1, <1>3, <1>4, <1>5, <1>6

-----------------------------------------------------------------------------
(* Sessions: the inductive invariant *)

History == Seq(Talk(Turns))
CanonicalSession == [messages : History, summary : Seq(SUBSET Turns)]
Compaction == [pc : {"idle", "llm", "save"}, sid : 1 .. made, kept : History, dropped : SUBSET Turns]
Marked == alone \cup said \cup unstored \cup shrunk \cup faded \cup replaced

SessionsTyped ==
    /\ DOMAIN rows \subseteq 1 .. made /\ rows \in [DOMAIN rows -> History]
    /\ canonical \in CanonicalSession
    /\ active \in 1 .. made /\ saved \in 1 .. made /\ made \in Nat
    /\ stage \in [Turns -> {"none", "compact", "loop", "saved", "merge", "return", "done"}]
    /\ sid \in [Turns -> 0 .. made] /\ held \in [Turns -> History] /\ before \in [Turns -> Nat]
    /\ copy \in [Turns -> CanonicalSession]
    /\ comp \in [0 .. MaxMessages -> Compaction]
    /\ Marked \subseteq Turns

\* What is known of a turn at each stage.
Stages ==
    /\ \A t \in Turns : stage[t] = "none" <=> sid[t] = 0
    /\ \A t \in alone : stage[t] # "none"
    /\ \A t \in said : stage[t] = "done"
    /\ \A c \in Turns : comp[c].pc # "idle" => stage[c] = "compact"

\* A turn that is alone overlaps with nothing.
Alone == \A t \in alone \cap InFlight : InFlight = {t} /\ comp[0].pc = "idle"

\* Every copy of a session holds questions of that session only.
Own ==
    /\ \A s \in DOMAIN rows : \A t \in AskedIn(rows[s]) : sid[t] = s
    /\ \A u \in InFlight : \A t \in AskedIn(held[u]) : sid[t] = sid[u]
    /\ \A c \in 0 .. MaxMessages : comp[c].pc # "idle" => \A t \in AskedIn(comp[c].kept) : sid[t] = comp[c].sid

\* A turn that was answered, and that nothing lost, is in every copy of its
\* session.
Present(t) == sid[t] \in DOMAIN rows /\ Told(rows[sid[t]], t)
Kept ==
    /\ \A t \in said \cap alone : t \in unstored \/ sid[t] \in deleted \/
        /\ Present(t)
        /\ \A u \in InFlight : sid[u] = sid[t] => Told(held[u], t)
        /\ \A c \in 0 .. MaxMessages : comp[c].pc # "idle" /\ comp[c].sid = sid[t] =>
              t \in comp[c].dropped \/ Told(comp[c].kept, t)
    /\ \A t \in alone : stage[t] \in {"saved", "merge", "return"} =>
        Present(t) \/ t \in unstored \/ sid[t] \in deleted \/ IsNoReply(Last(held[t]))

\* What a turn has to tell the canonical session, and what that remembers.
Mentions(c) == AskedIn(c.messages) \cup UNION ToSet(c.summary)
Excused == shrunk \cup faded \cup replaced
Remembered ==
    /\ \A t \in Turns : stage[t] = "loop" =>
          Len(held[t]) = before[t] + 1 /\ held[t][before[t] + 1] = Question(t)
    /\ \A t \in Turns : stage[t] \in {"saved", "merge"} =>
          t \in shrunk \/ (Len(held[t]) = before[t] + 2 /\ held[t][before[t] + 1] = Question(t))
    /\ \A t \in alone : stage[t] = "return" \/ t \in said => t \in Mentions(canonical) \cup Excused
    /\ \A t \in alone \cap said, u \in Turns : stage[u] = "merge" => t \in Mentions(copy[u]) \cup Excused

SessionsInv == SessionsTyped /\ Stages /\ Alone /\ Own /\ Kept /\ Remembered

LEMMA NothingSaid ==
    /\ <<>> \in History /\ AskedIn(<<>>) = {} /\ Len(<<>>) = 0 /\ NoCanonical \in CanonicalSession
    /\ (1 <= made /\ made \in Nat => NoCompaction \in Compaction)
    /\ Turns \subseteq Nat /\ 0 \notin Turns /\ Turns \subseteq 0 .. MaxMessages /\ 0 \in 0 .. MaxMessages
    /\ \A c \in 0 .. MaxMessages : c # 0 => c \in Turns
<1>1. <<>> \in History
  <2> HIDE DEF Talk
  <2>1. QED
    BY DEF History
<1>2. AskedIn(<<>>) = {}
  BY DEF AskedIn
<1>3. MaxMessages \in Nat
  BY BoundsType
<1>4. NoCanonical \in CanonicalSession
  <2>1. <<>> \in Seq(SUBSET Turns)
    OBVIOUS
  <2>2. QED
    BY <1>1, <2>1 DEF NoCanonical, CanonicalSession
<1>5. 1 <= made /\ made \in Nat => NoCompaction \in Compaction
  BY <1>1 DEF NoCompaction, Compaction
<1>6. QED
  BY <1>1, <1>2, <1>3, <1>4, <1>5 DEF Turns

\* The messages of a turn: its question, and its answers.
LEMMA Words ==
    ASSUME NEW t \in Turns
    PROVE  /\ Question(t) \in Talk(Turns) /\ \A x : Asks(Question(t), x) <=> x = t
           /\ Assistant(<<TextBlock("text", t)>>) \in Talk(Turns)
           /\ Tells(Assistant(<<TextBlock("text", t)>>))
           /\ \A x : ~ Asks(Assistant(<<TextBlock("text", t)>>), x)
           /\ Assistant(<<TextBlock("noreply", t)>>) \in Talk(Turns)
           /\ IsNoReply(Assistant(<<TextBlock("noreply", t)>>))
           /\ \A x : ~ Asks(Assistant(<<TextBlock("noreply", t)>>), x)
<1>1. ASSUME NEW k \in {"text", "noreply"}
      PROVE  <<TextBlock(k, t)>> \in Seq(Spoken(Turns)) /\ <<TextBlock(k, t)>> # <<>>
  <2>1. TextBlock(k, t) \in Spoken(Turns)
    BY DEF TextBlock, Spoken
  <2> DEFINE b == TextBlock(k, t)
  <2> HIDE DEF b
  <2>2. b \in Spoken(Turns) => <<b>> \in Seq(Spoken(Turns)) /\ <<b>> # <<>>
    OBVIOUS
  <2>3. QED
    BY <2>1, <2>2 DEF b
<1>2. ASSUME NEW k \in {"text", "noreply"}
      PROVE  User(<<TextBlock(k, t)>>) \in Talk(Turns) /\ Assistant(<<TextBlock(k, t)>>) \in Talk(Turns)
  BY <1>1 DEF Talk, Messages, User, Assistant
<1>3. ASSUME NEW k \in {"text", "noreply"}
      PROVE  /\ BlocksOf(User(<<TextBlock(k, t)>>)) = {TextBlock(k, t)}
             /\ BlocksOf(Assistant(<<TextBlock(k, t)>>)) = {TextBlock(k, t)}
  BY DEF BlocksOf, User, Assistant
<1>4. QED
  BY <1>2, <1>3 DEF Question, Asks, Tells, User, Assistant, TextBlock, IsNoReply

LEMMA CompactionIs ==
    ASSUME SessionsTyped, NEW c \in 0 .. MaxMessages
    PROVE  comp[c].sid \in 1 .. made /\ comp[c].sid # 0 /\ comp[c].kept \in History /\ comp[c].dropped \subseteq Turns
BY DEF SessionsTyped, Compaction

LEMMA ReadIs ==
    ASSUME SessionsTyped, NEW s
    PROVE  Read(s) \in History /\ (s \in DOMAIN rows => Read(s) = rows[s]) /\ (s \notin DOMAIN rows => Read(s) = <<>>)
BY NothingSaid DEF Read, SessionsTyped

LEMMA SavedIs ==
    ASSUME SessionsTyped, NEW s \in Nat, NEW ms \in History
    PROVE  /\ DOMAIN Saved(s, ms) = DOMAIN rows \cup {s} /\ Saved(s, ms)[s] = ms
           /\ \A x \in DOMAIN rows : x # s => Saved(s, ms)[x] = rows[x]
           /\ Saved(s, ms) \in [DOMAIN Saved(s, ms) -> History]
BY DEF Saved, SessionsTyped

LEMMA SessionsInitInv == SessionsInit => SessionsInv
<1> SUFFICES ASSUME SessionsInit PROVE SessionsInv
  OBVIOUS
<1>1. SessionsTyped
  BY NothingSaid DEF SessionsInit, SessionsTyped, Marked
<1>2. Stages /\ Alone /\ Own /\ Kept /\ Remembered
  BY NothingSaid DEF SessionsInit, Stages, Alone, Own, Kept, Remembered, InFlight, NoCompaction
<1>3. QED
  BY <1>1, <1>2 DEF SessionsInv

LEMMA SessionsStutter == SessionsInv /\ UNCHANGED sessionVars => SessionsInv'
BY DEF SessionsInv, sessionVars, turnVars, historyVars, boundVars, SessionsTyped, Stages, Alone, Own, Kept,
       Remembered, Compaction, Marked, InFlight, Present, Mentions, Excused

-----------------------------------------------------------------------------
(* Sessions: each action keeps the invariant *)

LEMMA BeginKeeps ==
    ASSUME SessionsInv, NEW t \in Turns, BeginBlocking(t) \/ BeginStreaming(t)
    PROVE  SessionsInv'
<1> DEFINE ms == Read(active)
<1>0. SessionsTyped /\ Stages /\ Alone /\ Own /\ Kept /\ Remembered
  BY DEF SessionsInv
<1>1. /\ ms \in History /\ (active \in DOMAIN rows => ms = rows[active])
      /\ (active \notin DOMAIN rows => AskedIn(ms) = {})
  BY <1>0, ReadIs, NothingSaid
<1> HIDE DEF ms
<1>2. /\ stage[t] = "none" /\ sid[t] = 0
      /\ sid' = [sid EXCEPT ![t] = active]
      /\ alone' = IF InFlight = {} /\ comp[0].pc = "idle" THEN alone \cup {t} ELSE alone \ InFlight
      /\ UNCHANGED <<rows, canonical, active, saved, copy, comp, resetting, said, unstored, deleted, shrunk, faded, replaced, boundVars>>
  BY <1>0 DEF BeginBlocking, BeginStreaming, Arrives, Admit, Stages
<1>3. \/ /\ stage' = [stage EXCEPT ![t] = "compact"]
         /\ held' = [held EXCEPT ![t] = ms]
         /\ before' = before
      \/ /\ stage' = [stage EXCEPT ![t] = "loop"]
         /\ held' = [held EXCEPT ![t] = Append(ms, Question(t))]
         /\ before' = [before EXCEPT ![t] = Len(ms)]
  BY DEF BeginBlocking, BeginStreaming, StartLoop, ms
<1>4. /\ Append(ms, Question(t)) \in History /\ Len(Append(ms, Question(t))) = Len(ms) + 1
      /\ Append(ms, Question(t))[Len(ms) + 1] = Question(t) /\ Len(ms) \in Nat
      /\ \A x \in AskedIn(Append(ms, Question(t))) : x \in AskedIn(ms) \/ x = t
      /\ \A x : Told(ms, x) => Told(Append(ms, Question(t)), x)
  <2>1. Question(t) \in Talk(Turns) /\ \A x : Asks(Question(t), x) <=> x = t
    BY Words
  <2> DEFINE q == Question(t)
  <2> HIDE DEF q
  <2>2. /\ Append(ms, q) \in History
        /\ \A x \in AskedIn(Append(ms, q)) : x \in AskedIn(ms) \/ Asks(q, x)
        /\ \A x : Told(ms, x) => Told(Append(ms, q), x)
    BY <1>1, <2>1, AppendTalk DEF History, q
  <2>3. Len(Append(ms, q)) = Len(ms) + 1 /\ Append(ms, q)[Len(ms) + 1] = q /\ Len(ms) \in Nat
    <3> HIDE DEF Talk
    <3>1. QED
      BY <1>1 DEF History
  <2>4. QED
    BY <2>1, <2>2, <2>3 DEF q
<1>5. SessionsTyped'
  <2>1. held' \in [Turns -> History] /\ before' \in [Turns -> Nat]
        /\ stage' \in [Turns -> {"none", "compact", "loop", "saved", "merge", "return", "done"}]
    BY <1>0, <1>1, <1>3, <1>4 DEF SessionsTyped
  <2>2. sid' \in [Turns -> 0 .. made]
    BY <1>0, <1>2 DEF SessionsTyped
  <2>3. Marked' \subseteq Turns
    BY <1>0, <1>2 DEF SessionsTyped, Marked
  <2>4. QED
    BY <1>0, <1>2, <2>1, <2>2, <2>3 DEF SessionsTyped, Compaction, boundVars
<1>6. /\ stage'[t] \in {"compact", "loop"} /\ \A u \in Turns : u # t => stage'[u] = stage[u] /\ held'[u] = held[u] /\ before'[u] = before[u]
      /\ sid'[t] = active /\ \A u \in Turns : u # t => sid'[u] = sid[u]
      /\ InFlight' = InFlight \cup {t} /\ t \notin InFlight /\ active \in Nat \ {0}
  BY <1>0, <1>2, <1>3 DEF SessionsTyped, InFlight
<1>7. t \notin alone /\ t \notin said
  BY <1>0, <1>2 DEF Stages
<1>8. Stages'
  BY <1>0, <1>2, <1>6, NothingSaid DEF Stages, SessionsTyped, Marked
<1>9. Alone'
  BY <1>0, <1>2, <1>6, <1>7 DEF Alone, Stages
<1>10. Own'
  <2>1. ASSUME NEW s \in DOMAIN rows, NEW x \in AskedIn(rows[s]) PROVE x # t /\ sid[x] = s
    BY <1>0, <1>2 DEF Own, SessionsTyped
  <2>2. ASSUME NEW u \in InFlight, NEW x \in AskedIn(held[u]) PROVE x # t /\ sid[x] = sid[u]
    BY <1>0, <1>2 DEF Own, InFlight, Stages
  <2>3. ASSUME NEW c \in 0 .. MaxMessages, comp[c].pc # "idle", NEW x \in AskedIn(comp[c].kept)
        PROVE  x # t /\ sid[x] = comp[c].sid
    <3>1. sid[x] = comp[c].sid
      BY <1>0, <2>3 DEF Own
    <3>2. comp[c].sid # 0
      BY <1>0, CompactionIs, Zenon
    <3>3. QED
      BY <1>2, <3>1, <3>2
  <2>4. \A x \in AskedIn(ms) : x # t /\ sid[x] = active
    BY <1>1, <2>1
  <2>5. ASSUME NEW x \in AskedIn(held'[t]) PROVE sid'[x] = active
    <3>1. held'[t] = ms \/ held'[t] = Append(ms, Question(t))
      BY <1>0, <1>3 DEF SessionsTyped
    <3>2. x = t \/ x \in AskedIn(ms)
      BY <1>4, <3>1
    <3>3. sid' = [sid EXCEPT ![t] = active] /\ sid \in [Turns -> 0 .. made]
      BY <1>0, <1>2 DEF SessionsTyped
    <3>4. QED
      BY <2>4, <3>2, <3>3
  <2>6. \A x : x # t => sid'[x] = sid[x]
    BY <1>0, <1>2 DEF SessionsTyped
  <2>7. \A s \in DOMAIN rows' : \A x \in AskedIn(rows'[s]) : sid'[x] = s
    BY <1>2, <2>1, <2>6
  <2>8. ASSUME NEW u \in InFlight', NEW x \in AskedIn(held'[u]) PROVE sid'[x] = sid'[u]
    <3>1. CASE u = t
      BY <1>6, <2>5, <2>8, <3>1
    <3>2. CASE u # t
      <4>1. u \in InFlight /\ held'[u] = held[u] /\ sid'[u] = sid[u]
        BY <1>6, <2>8, <3>2 DEF InFlight
      <4>2. QED
        BY <2>2, <2>6, <2>8, <4>1
    <3>3. QED
      BY <3>1, <3>2
  <2>9. \A c \in 0 .. MaxMessages : comp'[c].pc # "idle" => \A x \in AskedIn(comp'[c].kept) : sid'[x] = comp'[c].sid
    BY <1>2, <2>3, <2>6
  <2>10. QED
    BY <2>7, <2>8, <2>9 DEF Own
<1>11. Kept'
  <2>1. said' = said /\ alone' \cap said' \subseteq alone \cap said /\ \A x \in alone' : x # t => x \in alone
    BY <1>2, <1>7
  <2>2. ASSUME NEW x \in said \cap alone, x \notin unstored, sid[x] \notin deleted, active = sid[x]
        PROVE  Told(held'[t], x)
    <3>1. active \in DOMAIN rows /\ Told(rows[active], x)
      BY <1>0, <1>6, <2>2 DEF Kept, Present
    <3>2. Told(ms, x)
      BY <1>1, <3>1
    <3>3. QED
      BY <1>0, <1>3, <1>4, <3>2 DEF SessionsTyped
  <2>3. \A x \in alone : x # t /\ sid'[x] = sid[x] /\ stage'[x] = stage[x] /\ held'[x] = held[x]
    BY <1>0, <1>6, <1>7 DEF SessionsTyped, Marked
  <2>4. ASSUME NEW x \in said' \cap alone', x \notin unstored', sid'[x] \notin deleted'
        PROVE  /\ Present(x)'
               /\ \A u \in InFlight' : sid'[u] = sid'[x] => Told(held'[u], x)
               /\ \A c \in 0 .. MaxMessages : comp'[c].pc # "idle" /\ comp'[c].sid = sid'[x] =>
                     x \in comp'[c].dropped \/ Told(comp'[c].kept, x)
    <3>1. /\ x \in said \cap alone /\ x \notin unstored /\ sid[x] \notin deleted /\ sid'[x] = sid[x]
          /\ comp' = comp /\ rows' = rows
      BY <1>2, <2>1, <2>3, <2>4
    <3>2. /\ Present(x)
          /\ \A u \in InFlight : sid[u] = sid[x] => Told(held[u], x)
          /\ \A c \in 0 .. MaxMessages : comp[c].pc # "idle" /\ comp[c].sid = sid[x] =>
                     x \in comp[c].dropped \/ Told(comp[c].kept, x)
      BY <1>0, <3>1 DEF Kept
    <3>3. ASSUME NEW u \in InFlight', sid'[u] = sid'[x] PROVE Told(held'[u], x)
      <4>1. CASE u = t
        BY <1>6, <2>2, <3>1, <3>3, <4>1
      <4>2. CASE u # t
        <5>1. u \in InFlight /\ held'[u] = held[u] /\ sid'[u] = sid[u]
          BY <1>6, <3>3, <4>2 DEF InFlight
        <5>2. QED
          BY <3>1, <3>2, <3>3, <5>1
      <4>3. QED
        BY <4>1, <4>2
    <3>4. Present(x)'
      BY <3>1, <3>2 DEF Present
    <3>5. QED
      BY <3>1, <3>2, <3>3, <3>4
  <2>5. ASSUME NEW x \in alone', stage'[x] \in {"saved", "merge", "return"}
        PROVE  Present(x)' \/ x \in unstored' \/ sid'[x] \in deleted' \/ IsNoReply(Last(held'[x]))
    <3>1. x # t
      BY <1>6, <2>5
    <3>2. x \in alone /\ sid'[x] = sid[x] /\ stage'[x] = stage[x] /\ held'[x] = held[x] /\ rows' = rows /\ deleted' = deleted
          /\ unstored' = unstored
      BY <1>2, <2>1, <2>3, <2>5, <3>1
    <3>3. Present(x) \/ x \in unstored \/ sid[x] \in deleted \/ IsNoReply(Last(held[x]))
      BY <1>0, <2>5, <3>2 DEF Kept
    <3>4. QED
      BY <3>2, <3>3 DEF Present
  <2>6. QED
    BY <2>4, <2>5 DEF Kept
<1>12. Remembered'
  <2>1. stage'[t] = "loop" => Len(held'[t]) = before'[t] + 1 /\ held'[t][before'[t] + 1] = Question(t)
    BY <1>0, <1>3, <1>4 DEF SessionsTyped
  <2>2. /\ canonical' = canonical /\ copy' = copy /\ said' = said
        /\ Mentions(canonical)' = Mentions(canonical) /\ Excused' = Excused
    BY <1>2 DEF Excused, Mentions
  <2>3. \A x \in alone' : x # t => x \in alone /\ x \in Turns
    BY <1>0, <1>2 DEF SessionsTyped, Marked
  <2>4. \A u \in Turns : stage'[u] = "loop" => Len(held'[u]) = before'[u] + 1 /\ held'[u][before'[u] + 1] = Question(u)
    BY <1>0, <1>6, <2>1 DEF Remembered
  <2>5. \A u \in Turns : stage'[u] \in {"saved", "merge"} =>
          u \in shrunk' \/ (Len(held'[u]) = before'[u] + 2 /\ held'[u][before'[u] + 1] = Question(u))
    BY <1>0, <1>2, <1>6 DEF Remembered
  <2>6. \A x \in alone' : stage'[x] = "return" \/ x \in said' => x \in Mentions(canonical') \cup Excused'
    BY <1>0, <1>6, <1>7, <2>2, <2>3 DEF Remembered
  <2>7. \A x \in alone' \cap said', u \in Turns : stage'[u] = "merge" => x \in Mentions(copy'[u]) \cup Excused'
    BY <1>0, <1>6, <1>7, <2>2, <2>3 DEF Remembered
  <2>8. QED
    BY <2>4, <2>5, <2>6, <2>7 DEF Remembered
<1>13. QED
  BY <1>5, <1>8, <1>9, <1>10, <1>11, <1>12 DEF SessionsInv

\* A turn in flight, and what is alone beside it.
LEMMA FlightIs ==
    ASSUME SessionsInv, NEW t \in Turns, stage[t] \notin {"none", "done"}
    PROVE  /\ t \in InFlight /\ sid[t] \in 1 .. made /\ sid[t] \in Nat /\ held[t] \in History /\ t \notin said
           /\ \A x \in alone : x # t => stage[x] = "done"
           /\ t \in alone => InFlight = {t} /\ comp[0].pc = "idle"
<1>1. SessionsTyped /\ Stages /\ Alone
  BY DEF SessionsInv
<1>2. t \in InFlight
  BY DEF InFlight
<1>3. sid[t] # 0 /\ sid[t] \in 0 .. made /\ made \in Nat /\ held[t] \in History /\ t \notin said
  BY <1>1 DEF SessionsTyped, Stages
<1>4. t \in alone => InFlight = {t} /\ comp[0].pc = "idle"
  BY <1>1, <1>2 DEF Alone
<1>5. ASSUME NEW x \in alone, x # t, stage[x] # "done" PROVE FALSE
  <2>1. x \in InFlight
    BY <1>1, <1>5 DEF InFlight, Stages, SessionsTyped, Marked
  <2>2. InFlight = {x}
    BY <1>1, <1>5, <2>1, Zenon DEF Alone
  <2>3. QED
    BY <1>2, <1>5, <2>2
<1>6. QED
  BY <1>2, <1>3, <1>4, <1>5

\* Only the entry of the agent changes.
LEMMA EntryKeeps ==
    ASSUME SessionsInv, SaveEntry \/ \E s \in SessionIds : SwitchSession(s)
    PROVE  SessionsInv'
<1>0. SessionsTyped /\ Stages /\ Alone /\ Own /\ Kept /\ Remembered
  BY DEF SessionsInv
<1>1. UNCHANGED <<rows, canonical, turnVars, comp, resetting, historyVars, boundVars>>
      /\ active' \in 1 .. made /\ saved' \in 1 .. made
  BY <1>0 DEF SaveEntry, SwitchSession, SessionsTyped
<1>2. SessionsTyped'
  BY <1>0, <1>1 DEF SessionsTyped, Compaction, Marked, turnVars, historyVars, boundVars
<1>3. Stages' /\ Alone' /\ Own'
  BY <1>0, <1>1 DEF Stages, Alone, Own, InFlight, turnVars, historyVars, boundVars
<1>4. Kept' /\ Remembered'
  BY <1>0, <1>1 DEF Kept, Remembered, InFlight, Present, Mentions, Excused, turnVars, historyVars, boundVars
<1>5. QED
  BY <1>2, <1>3, <1>4 DEF SessionsInv

\* A turn writes its session while it goes on.
LEMMA ProgressKeeps ==
    ASSUME SessionsInv, NEW t \in Turns, SaveProgress(t)
    PROVE  SessionsInv'
<1>0. SessionsTyped /\ Stages /\ Alone /\ Own /\ Kept /\ Remembered
  BY DEF SessionsInv
<1>1. /\ stage[t] = "loop" /\ rows' = Saved(sid[t], held[t])
      /\ UNCHANGED <<canonical, active, saved, turnVars, comp, resetting, historyVars, boundVars>>
  BY DEF SaveProgress
<1>2. sid[t] \in 1 .. made /\ held[t] \in History /\ t \in InFlight /\ t \notin said
  BY <1>1, FlightIs
<1>3. /\ DOMAIN rows' = DOMAIN rows \cup {sid[t]} /\ rows'[sid[t]] = held[t]
      /\ \A x \in DOMAIN rows : x # sid[t] => rows'[x] = rows[x]
      /\ rows' \in [DOMAIN rows' -> History]
  BY <1>0, <1>1, <1>2, SavedIs
<1>4. SessionsTyped'
  BY <1>0, <1>1, <1>2, <1>3 DEF SessionsTyped, Compaction, Marked, turnVars, historyVars, boundVars
<1>5. Stages' /\ Alone'
  BY <1>0, <1>1 DEF Stages, Alone, InFlight, turnVars, historyVars, boundVars
<1>6. Own'
  BY <1>0, <1>1, <1>2, <1>3 DEF Own, InFlight, turnVars, historyVars, boundVars
<1>7. Kept'
  <2>1. \A x \in said \cap alone : ~ (x \in unstored \/ sid[x] \in deleted) => Present(x)'
    BY <1>0, <1>1, <1>2, <1>3 DEF Kept, Present, turnVars
  <2>2. \A x \in alone : stage[x] \notin {"saved", "merge", "return"}
    BY <1>1, FlightIs
  <2>3. QED
    BY <1>0, <1>1, <2>1, <2>2 DEF Kept, InFlight, turnVars, historyVars
<1>8. Remembered'
  BY <1>0, <1>1 DEF Remembered, Mentions, Excused, turnVars, historyVars, boundVars
<1>9. QED
  BY <1>4, <1>5, <1>6, <1>7, <1>8 DEF SessionsInv

\* A turn ends, and its caller is answered or not.
LEMMA LeaveKeeps ==
    ASSUME SessionsInv, NEW t \in Turns, stage[t] \notin {"none", "done"}, LeaveTurn(t),
           rows' = rows \/ rows' = Saved(sid[t], held[t]),
           rows' = rows \/ stage[t] = "loop",
           comp' = [comp EXCEPT ![t] = NoCompaction] \/ (comp' = comp /\ stage[t] # "compact"),
           said' = said \/ (said' = said \cup {t} /\ stage[t] = "return" /\ ~ IsNoReply(Last(held[t]))),
           UNCHANGED <<canonical, active, saved, sid, resetting, alone, unstored, deleted, shrunk, faded, replaced, boundVars>>
    PROVE  SessionsInv'
<1>0. SessionsTyped /\ Stages /\ Alone /\ Own /\ Kept /\ Remembered
  BY DEF SessionsInv
<1>1. /\ UNCHANGED <<canonical, active, saved, sid, resetting, alone, unstored, deleted, shrunk, faded, replaced, boundVars>>
      /\ said' \subseteq said \cup {t}
      /\ stage' = [stage EXCEPT ![t] = "done"] /\ held' = [held EXCEPT ![t] = <<>>]
      /\ before' = [before EXCEPT ![t] = 0] /\ copy' = [copy EXCEPT ![t] = NoCanonical]
  BY DEF LeaveTurn
<1>2. /\ t \in InFlight /\ sid[t] \in 1 .. made /\ sid[t] \in Nat /\ held[t] \in History /\ t \notin said
      /\ \A x \in alone : x # t => stage[x] = "done"
      /\ made \in Nat
  BY <1>0, FlightIs DEF SessionsTyped
<1>3. /\ stage'[t] = "done" /\ held'[t] = <<>>
      /\ \A u \in Turns : u # t => stage'[u] = stage[u] /\ held'[u] = held[u] /\ before'[u] = before[u] /\ copy'[u] = copy[u]
      /\ InFlight' = InFlight \ {t}
  BY <1>0, <1>1 DEF SessionsTyped, InFlight
<1>4. /\ comp' \in [0 .. MaxMessages -> Compaction]
      /\ \A c \in 0 .. MaxMessages : comp'[c] = comp[c] \/ comp'[c].pc = "idle"
      /\ comp'[t].pc = "idle" /\ \A c \in 0 .. MaxMessages : c # t => comp'[c] = comp[c]
  <2>1. NoCompaction \in Compaction /\ NoCompaction.pc = "idle" /\ t \in 0 .. MaxMessages
    BY <1>2, NothingSaid DEF NoCompaction
  <2>2. comp \in [0 .. MaxMessages -> Compaction]
    BY <1>0 DEF SessionsTyped
  <2>3. stage[t] # "compact" => comp[t].pc = "idle"
    BY <1>0 DEF Stages
  <2> HIDE DEF NoCompaction, Compaction
  <2>4. QED
    BY <2>1, <2>2, <2>3
<1>5. /\ rows' \in [DOMAIN rows' -> History] /\ DOMAIN rows' \subseteq 1 .. made /\ DOMAIN rows \subseteq DOMAIN rows'
      /\ \A s \in DOMAIN rows' : (s \in DOMAIN rows /\ rows'[s] = rows[s]) \/ (s = sid[t] /\ rows'[s] = held[t])
  <2>1. CASE rows' = rows
    BY <1>0, <2>1 DEF SessionsTyped
  <2>2. CASE rows' = Saved(sid[t], held[t])
    <3>1. /\ DOMAIN rows' = DOMAIN rows \cup {sid[t]} /\ rows'[sid[t]] = held[t]
          /\ \A x \in DOMAIN rows : x # sid[t] => rows'[x] = rows[x]
          /\ rows' \in [DOMAIN rows' -> History]
      <4>1. /\ DOMAIN Saved(sid[t], held[t]) = DOMAIN rows \cup {sid[t]} /\ Saved(sid[t], held[t])[sid[t]] = held[t]
            /\ \A x \in DOMAIN rows : x # sid[t] => Saved(sid[t], held[t])[x] = rows[x]
            /\ Saved(sid[t], held[t]) \in [DOMAIN Saved(sid[t], held[t]) -> History]
        BY <1>0, <1>2, SavedIs, Zenon
      <4>2. QED
        BY <2>2, <4>1, Zenon
    <3>2. DOMAIN rows \subseteq 1 .. made
      BY <1>0 DEF SessionsTyped
    <3>3. QED
      BY <1>2, <3>1, <3>2
  <2>3. QED
    BY <2>1, <2>2
<1>6. SessionsTyped'
  <2>1. /\ stage' \in [Turns -> {"none", "compact", "loop", "saved", "merge", "return", "done"}]
        /\ held' \in [Turns -> History] /\ before' \in [Turns -> Nat] /\ copy' \in [Turns -> CanonicalSession]
    BY <1>0, <1>1, NothingSaid DEF SessionsTyped
  <2>2. Marked' \subseteq Turns /\ made' = made
    BY <1>0, <1>1 DEF SessionsTyped, Marked, boundVars
  <2>3. comp' \in [0 .. MaxMessages -> Compaction']
    BY <1>4, <2>2 DEF Compaction
  <2>4. QED
    BY <1>0, <1>1, <1>5, <2>1, <2>2, <2>3 DEF SessionsTyped
<1>7. Stages'
  BY <1>0, <1>1, <1>2, <1>3, <1>4, NothingSaid DEF Stages, SessionsTyped, Marked
<1>8. Alone'
  <2>1. 0 \in 0 .. MaxMessages /\ 0 # t
    BY NothingSaid
  <2>2. comp'[0] = comp[0] /\ alone' = alone
    BY <1>1, <1>4, <2>1
  <2>3. QED
    BY <1>0, <1>3, <2>2 DEF Alone
<1>9. Own'
  <2>1. sid' = sid
    BY <1>1
  <2>2. ASSUME NEW s \in DOMAIN rows', NEW x \in AskedIn(rows'[s]) PROVE sid[x] = s
    BY <1>0, <1>2, <1>5 DEF Own
  <2>3. ASSUME NEW u \in InFlight', NEW x \in AskedIn(held'[u]) PROVE sid[x] = sid[u]
    <3>1. u \in InFlight /\ held'[u] = held[u]
      BY <1>3 DEF InFlight
    <3>2. QED
      BY <1>0, <2>3, <3>1 DEF Own
  <2>4. ASSUME NEW c \in 0 .. MaxMessages, comp'[c].pc # "idle", NEW x \in AskedIn(comp'[c].kept) PROVE sid[x] = comp'[c].sid
    BY <1>0, <1>4, <2>4 DEF Own
  <2>5. QED
    BY <2>1, <2>2, <2>3, <2>4 DEF Own
<1>10. Kept'
  <2>1. sid' = sid /\ alone' = alone /\ said' \subseteq said \cup {t} /\ unstored' = unstored /\ deleted' = deleted
    BY <1>1
  <2>2. ASSUME NEW x \in said \cap alone, x \notin unstored, sid[x] \notin deleted
        PROVE  /\ Present(x)'
               /\ \A u \in InFlight' : sid[u] = sid[x] => Told(held'[u], x)
               /\ \A c \in 0 .. MaxMessages : comp'[c].pc # "idle" /\ comp'[c].sid = sid[x] =>
                     x \in comp'[c].dropped \/ Told(comp'[c].kept, x)
    <3>1. /\ Present(x)
          /\ \A u \in InFlight : sid[u] = sid[x] => Told(held[u], x)
          /\ \A c \in 0 .. MaxMessages : comp[c].pc # "idle" /\ comp[c].sid = sid[x] =>
                     x \in comp[c].dropped \/ Told(comp[c].kept, x)
      BY <1>0, <2>2 DEF Kept
    <3>2. Present(x)'
      BY <1>2, <1>5, <2>1, <3>1 DEF Present
    <3>3. \A u \in InFlight' : u \in InFlight /\ held'[u] = held[u]
      BY <1>3 DEF InFlight
    <3>4. QED
      BY <1>4, <3>1, <3>2, <3>3
  <2>2a. ASSUME t \in said' \cap alone, t \notin unstored, sid[t] \notin deleted
        PROVE  /\ Present(t)'
               /\ \A u \in InFlight' : sid[u] = sid[t] => Told(held'[u], t)
               /\ \A c \in 0 .. MaxMessages : comp'[c].pc # "idle" /\ comp'[c].sid = sid[t] =>
                     t \in comp'[c].dropped \/ Told(comp'[c].kept, t)
    <3>1. stage[t] = "return" /\ ~ IsNoReply(Last(held[t])) /\ rows' = rows
      BY <1>2, <2>2a
    <3>2. Present(t)'
      BY <1>0, <2>1, <2>2a, <3>1 DEF Kept, Present
    <3>3. InFlight' = {} /\ comp[0].pc = "idle"
      BY <1>3, <2>2a, FlightIs
    <3>4. ASSUME NEW c \in 0 .. MaxMessages, comp'[c].pc # "idle" PROVE FALSE
      <4>1. comp[c].pc # "idle" /\ c # 0 /\ c # t
        BY <1>4, <3>3, <3>4
      <4>2. c \in Turns
        BY <4>1, NothingSaid
      <4>3. stage[c] = "compact"
        BY <1>0, <4>1, <4>2 DEF Stages
      <4>4. c \in InFlight'
        BY <1>3, <4>1, <4>2, <4>3 DEF InFlight
      <4>5. QED
        BY <3>3, <4>4
    <3>5. QED
      BY <3>2, <3>3, <3>4
  <2>3. \A x \in alone : stage'[x] \notin {"saved", "merge", "return"}
    BY <1>0, <1>2, <1>3 DEF SessionsTyped, Marked
  <2>4. QED
    <3>1. ASSUME NEW x \in said' \cap alone, x \notin unstored, sid[x] \notin deleted
          PROVE  /\ Present(x)'
                 /\ \A u \in InFlight' : sid[u] = sid[x] => Told(held'[u], x)
                 /\ \A c \in 0 .. MaxMessages : comp'[c].pc # "idle" /\ comp'[c].sid = sid[x] =>
                     x \in comp'[c].dropped \/ Told(comp'[c].kept, x)
      <4>1. CASE x = t
        BY <2>2a, <3>1, <4>1
      <4>2. CASE x # t
        BY <2>1, <2>2, <3>1, <4>2
      <4>3. QED
        BY <4>1, <4>2
    <3>2. QED
      BY <2>1, <2>3, <3>1 DEF Kept
<1>11. Remembered'
  <2>1. Mentions(canonical)' = Mentions(canonical) /\ Excused' = Excused /\ alone' = alone /\ shrunk' = shrunk
    BY <1>1 DEF Excused, Mentions
  <2>2. alone \subseteq Turns
    BY <1>0 DEF SessionsTyped, Marked
  <2>3. \A u \in Turns : stage'[u] = "loop" => Len(held'[u]) = before'[u] + 1 /\ held'[u][before'[u] + 1] = Question(u)
    BY <1>0, <1>3 DEF Remembered
  <2>4. \A u \in Turns : stage'[u] \in {"saved", "merge"} =>
          u \in shrunk \/ (Len(held'[u]) = before'[u] + 2 /\ held'[u][before'[u] + 1] = Question(u))
    BY <1>0, <1>3 DEF Remembered
  <2>4a. t \in alone \cap said' => t \in Mentions(canonical) \cup Excused
    BY <1>0, <1>2 DEF Remembered
  <2>5. \A x \in alone : stage'[x] = "return" \/ x \in said' => x \in Mentions(canonical) \cup Excused
    BY <1>0, <1>1, <1>3, <2>2, <2>4a DEF Remembered
  <2>6. ASSUME NEW x \in alone \cap said', NEW u \in Turns, stage'[u] = "merge" PROVE x \in Mentions(copy'[u]) \cup Excused
    <3>1. u # t /\ stage[u] = "merge" /\ copy'[u] = copy[u] /\ u \in InFlight
      BY <1>3, <2>6 DEF InFlight
    <3>2. CASE x = t
      BY <2>6, <3>1, <3>2, FlightIs
    <3>3. CASE x # t
      BY <1>0, <1>1, <2>6, <3>1, <3>3 DEF Remembered
    <3>4. QED
      BY <3>2, <3>3
  <2>7. canonical' = canonical /\ Mentions(canonical') = Mentions(canonical)
    BY <1>1
  <2>8. QED
    BY <2>1, <2>3, <2>4, <2>5, <2>6, <2>7 DEF Remembered
<1>12. QED
  BY <1>6, <1>7, <1>8, <1>9, <1>10, <1>11 DEF SessionsInv

LEMMA EndsKeep ==
    ASSUME SessionsInv, NEW t \in Turns, Fail(t) \/ Drop(t) \/ Return(t)
    PROVE  SessionsInv'
<1>1. CASE Fail(t)
  BY <1>1, LeaveKeeps DEF Fail, historyVars
<1>2. CASE Drop(t)
  BY <1>2, LeaveKeeps DEF Drop, historyVars
<1>3. CASE Return(t)
  <2>1. /\ stage[t] = "return" /\ LeaveTurn(t) /\ rows' = rows /\ comp' = comp
        /\ said' = IF IsNoReply(Last(held[t])) THEN said ELSE said \cup {t}
        /\ UNCHANGED <<canonical, active, saved, sid, resetting, alone, unstored, deleted, shrunk, faded, replaced, boundVars>>
    BY <1>3 DEF Return
  <2>2. said' = said \/ (said' = said \cup {t} /\ ~ IsNoReply(Last(held[t])))
    BY <2>1
  <2>3. QED
    BY <2>1, <2>2, LeaveKeeps
<1>4. QED
  BY <1>1, <1>2, <1>3

\* A turn takes a copy of the canonical session, or has nothing for it.
LEMMA LoadKeeps ==
    ASSUME SessionsInv, NEW t \in Turns, LoadCanonical(t)
    PROVE  SessionsInv'
<1>0. SessionsTyped /\ Stages /\ Alone /\ Own /\ Kept /\ Remembered
  BY DEF SessionsInv
<1>1. /\ stage[t] = "saved"
      /\ \/ stage' = [stage EXCEPT ![t] = "merge"] /\ copy' = [copy EXCEPT ![t] = canonical]
         \/ ~ (Len(held[t]) > before[t]) /\ stage' = [stage EXCEPT ![t] = "return"] /\ copy' = copy
      /\ UNCHANGED <<rows, canonical, active, saved, sid, held, before, comp, resetting, historyVars, boundVars>>
  BY DEF LoadCanonical
<1>2. /\ t \in InFlight /\ t \notin said /\ \A x \in alone : x # t => stage[x] = "done"
  BY <1>1, FlightIs
<1>3. /\ stage'[t] \in {"merge", "return"}
      /\ \A u \in Turns : u # t => stage'[u] = stage[u] /\ copy'[u] = copy[u]
      /\ InFlight' = InFlight
      /\ stage'[t] = "merge" => copy'[t] = canonical
      /\ stage'[t] = "return" => ~ (Len(held[t]) > before[t])
  BY <1>0, <1>1 DEF SessionsTyped, InFlight
<1>4. SessionsTyped'
  <2>1. /\ stage' \in [Turns -> {"none", "compact", "loop", "saved", "merge", "return", "done"}]
        /\ copy' \in [Turns -> CanonicalSession]
    BY <1>0, <1>1 DEF SessionsTyped
  <2>2. QED
    BY <1>0, <1>1, <2>1 DEF SessionsTyped, Compaction, Marked, historyVars, boundVars
<1>5. Stages'
  <2>1. \A u \in Turns : /\ stage'[u] = "none" <=> stage[u] = "none"
                         /\ stage[u] \in {"compact", "done"} => stage'[u] = stage[u]
    BY <1>1, <1>3
  <2>2. alone' = alone /\ said' = said /\ sid' = sid /\ comp' = comp /\ alone \subseteq Turns /\ said \subseteq Turns
    BY <1>0, <1>1 DEF historyVars, SessionsTyped, Marked
  <2>3. \A u \in Turns : stage'[u] = "none" <=> sid'[u] = 0
    BY <1>0, <2>1, <2>2 DEF Stages
  <2>4. (\A u \in alone' : stage'[u] # "none") /\ (\A u \in said' : stage'[u] = "done")
    BY <1>0, <2>1, <2>2 DEF Stages
  <2>5. \A c \in Turns : comp'[c].pc # "idle" => stage'[c] = "compact"
    BY <1>0, <2>1, <2>2 DEF Stages
  <2>6. QED
    BY <2>3, <2>4, <2>5 DEF Stages
<1>6. Alone' /\ Own'
  BY <1>0, <1>1, <1>3 DEF Alone, Own, historyVars
<1>7. Kept'
  <2>1. Present(t)' = Present(t) /\ \A x \in Turns : Present(x)' = Present(x)
    BY <1>1 DEF Present
  <2>2. alone \subseteq Turns
    BY <1>0 DEF SessionsTyped, Marked
  <2>3. UNCHANGED <<alone, said, unstored, deleted>>
    BY <1>1 DEF historyVars
  <2>4. QED
    BY <1>0, <1>1, <1>2, <1>3, <2>1, <2>2, <2>3 DEF Kept
<1>8. Remembered'
  <2>1. Excused' = Excused /\ said' = said /\ alone' = alone /\ shrunk' = shrunk
    BY <1>1 DEF Excused, historyVars
  <2>2. alone \subseteq Turns /\ shrunk \subseteq Excused
    BY <1>0 DEF SessionsTyped, Marked, Excused
  <2>3. \A u \in Turns : stage'[u] = "loop" => Len(held'[u]) = before'[u] + 1 /\ held'[u][before'[u] + 1] = Question(u)
    BY <1>0, <1>1, <1>3 DEF Remembered
  <2>4. \A u \in Turns : stage'[u] \in {"saved", "merge"} =>
          u \in shrunk \/ (Len(held'[u]) = before'[u] + 2 /\ held'[u][before'[u] + 1] = Question(u))
    BY <1>0, <1>1, <1>3 DEF Remembered
  <2>5. stage'[t] = "return" => t \in shrunk
    <3>1. stage'[t] = "return" /\ Len(held[t]) = before[t] + 2 => FALSE
      BY <1>0, <1>3 DEF SessionsTyped
    <3>2. QED
      BY <1>0, <1>1, <3>1 DEF Remembered
  <2>6. \A x \in alone : stage'[x] = "return" \/ x \in said => x \in Mentions(canonical) \cup Excused
    BY <1>0, <1>3, <2>2, <2>5 DEF Remembered
  <2>7. \A x \in alone \cap said, u \in Turns : stage'[u] = "merge" => x \in Mentions(copy'[u]) \cup Excused
    BY <1>0, <1>3 DEF Remembered
  <2>8. canonical' = canonical /\ Mentions(canonical') = Mentions(canonical)
    BY <1>1
  <2>9. QED
    BY <2>1, <2>3, <2>4, <2>6, <2>7, <2>8 DEF Remembered
<1>9. QED
  BY <1>4, <1>5, <1>6, <1>7, <1>8 DEF SessionsInv

\* The answer is saved, or it is a partial one and is not.
LEMMA AnswerKeeps ==
    ASSUME SessionsInv, NEW t \in Turns, Answer(t) \/ AnswerCutOff(t)
    PROVE  SessionsInv'
<1> DEFINE answered == Append(held[t], Assistant(<<TextBlock("text", t)>>))
           silent == Append(held[t], Assistant(<<TextBlock("noreply", t)>>))
<1>0. SessionsTyped /\ Stages /\ Alone /\ Own /\ Kept /\ Remembered
  BY DEF SessionsInv
<1>1. \E ms \in {PruneHeartbeatTurns(answered), answered, silent} :
        /\ held' = [held EXCEPT ![t] = ms]
        /\ \/ rows' = Saved(sid[t], ms) /\ unstored' = unstored
           \/ rows' = rows /\ unstored' = unstored \cup {t}
        /\ \/ shrunk' = shrunk \cup {t} /\ Len(ms) < Len(answered)
           \/ shrunk' = shrunk /\ (ms = answered \/ ~ (Len(ms) < Len(answered)))
  <2>1. CASE Answer(t)
    <3>1. PICK ms \in {PruneHeartbeatTurns(answered), silent} :
            /\ held' = [held EXCEPT ![t] = ms]
            /\ rows' = Saved(sid[t], ms)
            /\ shrunk' = IF Len(ms) < Len(answered) THEN shrunk \cup {t} ELSE shrunk
      BY <2>1 DEF Answer
    <3>2. unstored' = unstored
      BY <2>1 DEF Answer
    <3> HIDE DEF answered, silent
    <3>3. QED
      BY <3>1, <3>2
  <2>2. CASE AnswerCutOff(t)
    <3>1. /\ held' = [held EXCEPT ![t] = answered] /\ shrunk' = shrunk
          /\ \/ rows' = Saved(sid[t], answered) /\ unstored' = unstored
             \/ rows' = rows /\ unstored' = unstored \cup {t}
      BY <2>2 DEF AnswerCutOff
    <3> HIDE DEF answered, silent
    <3>2. QED
      BY <3>1
  <2>3. QED
    BY <2>1, <2>2
<1>1a. PICK ms \in {PruneHeartbeatTurns(answered), answered, silent} :
        /\ held' = [held EXCEPT ![t] = ms]
        /\ \/ rows' = Saved(sid[t], ms) /\ unstored' = unstored
           \/ rows' = rows /\ unstored' = unstored \cup {t}
        /\ \/ shrunk' = shrunk \cup {t} /\ Len(ms) < Len(answered)
           \/ shrunk' = shrunk /\ (ms = answered \/ ~ (Len(ms) < Len(answered)))
  BY <1>1
<1>2. /\ stage[t] = "loop" /\ stage' = [stage EXCEPT ![t] = "saved"]
      /\ UNCHANGED <<canonical, active, saved, sid, before, copy, comp, resetting, alone, said, deleted, faded, replaced, made>>
  BY DEF Answer, AnswerCutOff, boundVars
<1>3. /\ t \in InFlight /\ sid[t] \in 1 .. made /\ sid[t] \in Nat /\ held[t] \in History /\ t \notin said
      /\ \A x \in alone : x # t => stage[x] = "done"
  BY <1>2, FlightIs
<1>4. /\ Len(held[t]) = before[t] + 1 /\ held[t][before[t] + 1] = Question(t) /\ before[t] \in Nat
      /\ Last(held[t]) = Question(t) /\ held[t] # <<>>
  <2>1. Len(held[t]) = before[t] + 1 /\ held[t][before[t] + 1] = Question(t) /\ before[t] \in Nat
    BY <1>0, <1>2 DEF Remembered, SessionsTyped
  <2>2. held[t] # <<>>
    BY <2>1, NothingSaid
  <2>3. QED
    BY <2>1, <2>2 DEF Last
<1>5. /\ answered \in History /\ \A x \in AskedIn(answered) : x \in AskedIn(held[t])
      /\ \A x : Told(held[t], x) => Told(answered, x)
      /\ Told(answered, t)
      /\ silent \in History /\ \A x \in AskedIn(silent) : x \in AskedIn(held[t])
      /\ \A x : Told(held[t], x) => Told(silent, x)
      /\ IsNoReply(Last(silent))
  <2> DEFINE a == Assistant(<<TextBlock("text", t)>>)
             n == Assistant(<<TextBlock("noreply", t)>>)
  <2>1. a \in Talk(Turns) /\ n \in Talk(Turns) /\ Tells(a) /\ (\A x : ~ Asks(a, x) /\ ~ Asks(n, x)) /\ IsNoReply(n)
        /\ Asks(Question(t), t)
    BY Words
  <2> HIDE DEF a, n
  <2>2. held[t] \in Seq(Talk(Turns))
    BY <1>3 DEF History
  <2>3. /\ Append(held[t], a) \in Seq(Talk(Turns))
        /\ \A x \in AskedIn(Append(held[t], a)) : x \in AskedIn(held[t]) \/ Asks(a, x)
        /\ \A x : Told(held[t], x) => Told(Append(held[t], a), x)
        /\ \A x : held[t] # <<>> /\ Asks(Last(held[t]), x) /\ Tells(a) => Told(Append(held[t], a), x)
    BY <2>1, <2>2, AppendTalk, Zenon
  <2>4. /\ Append(held[t], n) \in Seq(Talk(Turns))
        /\ \A x \in AskedIn(Append(held[t], n)) : x \in AskedIn(held[t]) \/ Asks(n, x)
        /\ \A x : Told(held[t], x) => Told(Append(held[t], n), x)
    BY <2>1, <2>2, AppendTalk, Zenon
  <2>5. Last(Append(held[t], n)) = n
    <3> HIDE DEF Talk
    <3>1. ASSUME NEW s \in Seq(Talk(Turns)) PROVE Append(s, n)[Len(Append(s, n))] = n
      OBVIOUS
    <3>2. QED
      BY <2>2, <3>1 DEF Last
  <2>6. answered = Append(held[t], a) /\ silent = Append(held[t], n)
    BY DEF a, n
  <2> HIDE DEF answered, silent
  <2>7. QED
    BY <1>4, <2>1, <2>3, <2>4, <2>5, <2>6 DEF History
<1>6. /\ Len(answered) = before[t] + 2 /\ answered[before[t] + 1] = Question(t)
      /\ Len(silent) = before[t] + 2 /\ silent[before[t] + 1] = Question(t)
  <2>1. ASSUME NEW m
        PROVE  Len(Append(held[t], m)) = before[t] + 2 /\ Append(held[t], m)[before[t] + 1] = Question(t)
    <3>1. ASSUME NEW s \in Seq(Talk(Turns)), NEW k \in Nat, Len(s) = k + 1
          PROVE  Len(Append(s, m)) = k + 2 /\ Append(s, m)[k + 1] = s[k + 1]
      <4> HIDE DEF Talk
      <4>1. QED
        BY <3>1
    <3>2. QED
      BY <1>3, <1>4, <3>1 DEF History
  <2>2. QED
    BY <2>1
<1> HIDE DEF answered, silent
<1>7. /\ ms \in History /\ \A x \in AskedIn(ms) : x \in AskedIn(held[t])
      /\ \A x : Told(held[t], x) => Told(ms, x)
      /\ Told(ms, t) \/ IsNoReply(Last(ms))
      /\ Len(ms) < Len(answered) \/ (Len(ms) = before[t] + 2 /\ ms[before[t] + 1] = Question(t))
  <2>1. CASE ms = silent \/ ms = answered
    BY <1>5, <1>6, <2>1
  <2>2. CASE ms = PruneHeartbeatTurns(answered)
    <3>1. /\ PruneHeartbeatTurns(answered) \in Seq(Talk(Turns))
          /\ AskedIn(PruneHeartbeatTurns(answered)) \subseteq AskedIn(answered)
          /\ \A x : Told(answered, x) => Told(PruneHeartbeatTurns(answered), x)
          /\ Len(PruneHeartbeatTurns(answered)) <= Len(answered)
          /\ Len(PruneHeartbeatTurns(answered)) = Len(answered) => PruneHeartbeatTurns(answered) = answered
      BY <1>5, PruneTalk DEF History
    <3>2. Len(ms) \in Nat /\ Len(answered) \in Nat
      <4>1. \A s \in Seq(Talk(Turns)) : Len(s) \in Nat
        <5> HIDE DEF Talk
        <5>1. QED
          OBVIOUS
      <4>2. QED
        BY <1>5, <2>2, <3>1, <4>1 DEF History
    <3>3. Len(ms) < Len(answered) \/ ms = answered
      BY <2>2, <3>1, <3>2
    <3>4. QED
      BY <1>5, <1>6, <2>2, <3>1, <3>3 DEF History
  <2>3. QED
    BY <1>1a, <2>1, <2>2
<1>8. /\ DOMAIN rows' \subseteq DOMAIN rows \cup {sid[t]} /\ DOMAIN rows \subseteq DOMAIN rows'
      /\ \A s \in DOMAIN rows' : s # sid[t] => rows'[s] = rows[s]
      /\ sid[t] \in DOMAIN rows' => rows'[sid[t]] = ms \/ (sid[t] \in DOMAIN rows /\ rows'[sid[t]] = rows[sid[t]])
      /\ t \notin unstored' => sid[t] \in DOMAIN rows' /\ rows'[sid[t]] = ms
      /\ rows' \in [DOMAIN rows' -> History]
  <2>1. /\ DOMAIN Saved(sid[t], ms) = DOMAIN rows \cup {sid[t]} /\ Saved(sid[t], ms)[sid[t]] = ms
        /\ \A x \in DOMAIN rows : x # sid[t] => Saved(sid[t], ms)[x] = rows[x]
        /\ Saved(sid[t], ms) \in [DOMAIN Saved(sid[t], ms) -> History]
    BY <1>0, <1>3, <1>7, SavedIs, Zenon
  <2>2. CASE rows' = Saved(sid[t], ms)
    <3>1. /\ DOMAIN rows' = DOMAIN rows \cup {sid[t]} /\ rows'[sid[t]] = ms
          /\ \A x \in DOMAIN rows : x # sid[t] => rows'[x] = rows[x]
          /\ rows' \in [DOMAIN rows' -> History]
      BY <2>1, <2>2, Zenon
    <3>2. QED
      BY <3>1
  <2>3. CASE rows' = rows /\ unstored' = unstored \cup {t}
    BY <1>0, <2>3 DEF SessionsTyped
  <2>4. QED
    BY <1>1a, <2>2, <2>3
<1>9. /\ stage'[t] = "saved" /\ held'[t] = ms
      /\ \A u \in Turns : u # t => stage'[u] = stage[u] /\ held'[u] = held[u]
      /\ InFlight' = InFlight /\ shrunk \subseteq shrunk' /\ shrunk' \subseteq shrunk \cup {t}
      /\ unstored \subseteq unstored' /\ unstored' \subseteq unstored \cup {t}
  BY <1>0, <1>1a, <1>2 DEF SessionsTyped, InFlight
<1>10. SessionsTyped'
  <2>1. /\ stage' \in [Turns -> {"none", "compact", "loop", "saved", "merge", "return", "done"}]
        /\ held' \in [Turns -> History]
    BY <1>0, <1>1a, <1>2, <1>7 DEF SessionsTyped
  <2>2. DOMAIN rows' \subseteq 1 .. made /\ Marked' \subseteq Turns
    BY <1>0, <1>2, <1>3, <1>8, <1>9 DEF SessionsTyped, Marked
  <2>3. QED
    BY <1>0, <1>2, <1>8, <2>1, <2>2 DEF SessionsTyped, Compaction
<1>11. Stages'
  BY <1>0, <1>2, <1>3, <1>9 DEF Stages, SessionsTyped, Marked
<1>12. Alone'
  BY <1>0, <1>2, <1>9 DEF Alone
<1>13. Own'
  <2>1. \A x \in AskedIn(ms) : sid[x] = sid[t]
    BY <1>0, <1>3, <1>7 DEF Own
  <2>2. \A s \in DOMAIN rows' : \A x \in AskedIn(rows'[s]) : sid[x] = s
    BY <1>0, <1>8, <2>1 DEF Own
  <2>3. \A u \in InFlight : \A x \in AskedIn(held'[u]) : sid[x] = sid[u]
    <3>1. InFlight \subseteq Turns
      BY DEF InFlight
    <3>2. QED
      BY <1>0, <1>9, <2>1, <3>1 DEF Own
  <2>4. QED
    BY <1>0, <1>2, <1>9, <2>2, <2>3 DEF Own
<1>14. Kept'
  <2>1. ASSUME NEW x \in said \cap alone, x \notin unstored, sid[x] \notin deleted
        PROVE  /\ Present(x)'
               /\ \A u \in InFlight' : sid[u] = sid[x] => Told(held'[u], x)
               /\ \A c \in 0 .. MaxMessages : comp[c].pc # "idle" /\ comp[c].sid = sid[x] =>
                     x \in comp[c].dropped \/ Told(comp[c].kept, x)
    <3>1. /\ Present(x)
          /\ \A u \in InFlight : sid[u] = sid[x] => Told(held[u], x)
          /\ \A c \in 0 .. MaxMessages : comp[c].pc # "idle" /\ comp[c].sid = sid[x] =>
                     x \in comp[c].dropped \/ Told(comp[c].kept, x)
      BY <1>0, <2>1 DEF Kept
    <3>2. sid[t] = sid[x] => Told(ms, x)
      BY <1>3, <1>7, <3>1
    <3>3. Present(x)'
      <4>1. sid' = sid /\ sid[x] \in DOMAIN rows /\ Told(rows[sid[x]], x) /\ sid[x] \in DOMAIN rows'
        BY <1>2, <1>8, <3>1 DEF Present
      <4>2. rows'[sid[x]] = rows[sid[x]] \/ (sid[t] = sid[x] /\ rows'[sid[x]] = ms)
        BY <1>8, <4>1
      <4>3. QED
        BY <3>2, <4>1, <4>2 DEF Present
    <3>4. InFlight \subseteq Turns
      BY DEF InFlight
    <3>5. \A u \in InFlight' : sid[u] = sid[x] => Told(held'[u], x)
      BY <1>9, <3>1, <3>2, <3>4
    <3>6. QED
      BY <3>1, <3>3, <3>5
  <2>2. ASSUME NEW x \in alone, stage'[x] \in {"saved", "merge", "return"}
        PROVE  Present(x)' \/ x \in unstored' \/ IsNoReply(Last(held'[x]))
    <3>1. x = t
      BY <1>0, <1>3, <1>9, <2>2 DEF SessionsTyped, Marked
    <3>2. QED
      BY <1>2, <1>7, <1>8, <1>9, <3>1 DEF Present
  <2>3. QED
    BY <1>2, <1>9, <2>1, <2>2 DEF Kept
<1>15. Remembered'
  <2>1. Excused \subseteq Excused' /\ canonical' = canonical /\ Mentions(canonical') = Mentions(canonical) /\ alone \subseteq Turns
    BY <1>0, <1>2, <1>9 DEF Excused, SessionsTyped, Marked
  <2>2. \A u \in Turns : stage'[u] = "loop" => Len(held'[u]) = before'[u] + 1 /\ held'[u][before'[u] + 1] = Question(u)
    BY <1>0, <1>2, <1>9 DEF Remembered
  <2>3. t \in shrunk' \/ (Len(held'[t]) = before[t] + 2 /\ held'[t][before[t] + 1] = Question(t))
    BY <1>1a, <1>6, <1>7, <1>9
  <2>4. \A u \in Turns : stage'[u] \in {"saved", "merge"} =>
          u \in shrunk' \/ (Len(held'[u]) = before'[u] + 2 /\ held'[u][before'[u] + 1] = Question(u))
    BY <1>0, <1>2, <1>9, <2>3 DEF Remembered
  <2>5. \A x \in alone : stage'[x] = "return" \/ x \in said => x \in Mentions(canonical) \cup Excused'
    BY <1>0, <1>9, <2>1 DEF Remembered
  <2>6. \A x \in alone \cap said, u \in Turns : stage'[u] = "merge" => x \in Mentions(copy[u]) \cup Excused'
    BY <1>0, <1>9, <2>1 DEF Remembered
  <2>7. QED
    BY <1>2, <2>1, <2>2, <2>4, <2>5, <2>6 DEF Remembered
<1>16. QED
  BY <1>10, <1>11, <1>12, <1>13, <1>14, <1>15 DEF SessionsInv

\* Sequences one after the other.
LEMMA Concat ==
    ASSUME NEW S, NEW a \in Seq(S), NEW b \in Seq(S)
    PROVE  a \o b \in Seq(S) /\ ToSet(a) \subseteq ToSet(a \o b) /\ ToSet(b) \subseteq ToSet(a \o b)
<1> DEFINE r == a \o b
<1>1. /\ r \in Seq(S) /\ Len(r) = Len(a) + Len(b) /\ Len(a) \in Nat /\ Len(b) \in Nat
      /\ DOMAIN r = 1 .. Len(r) /\ DOMAIN a = 1 .. Len(a) /\ DOMAIN b = 1 .. Len(b)
      /\ \A i \in 1 .. Len(a) : r[i] = a[i]
      /\ \A i \in (Len(a) + 1) .. Len(r) : r[i] = b[i - Len(a)]
  OBVIOUS
<1> HIDE DEF r
<1>2. \A i \in DOMAIN a : i \in DOMAIN r /\ r[i] = a[i]
  BY <1>1
<1>3. ASSUME NEW i \in DOMAIN b PROVE \E k \in DOMAIN r : r[k] = b[i]
  <2>1. Len(a) + i \in (Len(a) + 1) .. Len(r) /\ Len(a) + i - Len(a) = i
    BY <1>1
  <2>2. PICK k \in (Len(a) + 1) .. Len(r) : k = Len(a) + i /\ k - Len(a) = i
    BY <2>1
  <2>3. r[k] = b[k - Len(a)]
    BY <1>1, Zenon
  <2>4. k \in DOMAIN r
    BY <1>1, <2>2
  <2>5. QED
    BY <2>2, <2>3, <2>4
<1>4. ToSet(a) \subseteq ToSet(r) /\ ToSet(b) \subseteq ToSet(r)
  BY <1>2, <1>3 DEF ToSet
<1>5. QED
  BY <1>1, <1>4 DEF r

LEMMA ConcatTalk ==
    ASSUME NEW T, NEW a \in Seq(Talk(T)), NEW b \in Seq(Talk(T))
    PROVE  a \o b \in Seq(Talk(T)) /\ AskedIn(a) \subseteq AskedIn(a \o b) /\ AskedIn(b) \subseteq AskedIn(a \o b)
<1>1. a \o b \in Seq(Talk(T)) /\ ToSet(a) \subseteq ToSet(a \o b) /\ ToSet(b) \subseteq ToSet(a \o b)
  BY Concat, Zenon
<1>2. \A s, x : x \in AskedIn(s) <=> \E m \in ToSet(s) : Asks(m, x)
  BY AskedIs DEF ToSet
<1>3. QED
  BY <1>1, <1>2

LEMMA AskedInTalk ==
    ASSUME NEW T, NEW a \in Seq(Talk(T))
    PROVE  AskedIn(a) \subseteq T
<1>1. ASSUME NEW x \in AskedIn(a) PROVE x \in T
  <2>1. PICK i \in DOMAIN a : Asks(a[i], x)
    BY AskedIs
  <2>2. \A j \in DOMAIN a[i].blocks : a[i].blocks[j].id \in T
    BY TalkType
  <2>3. QED
    BY <2>1, <2>2 DEF Asks, BlocksOf
<1>2. QED
  BY <1>1

LEMMA TailTalk ==
    ASSUME NEW T, NEW a \in Seq(Talk(T)), NEW k \in Nat
    PROVE  /\ SubSeq(a, k + 1, Len(a)) \in Seq(Talk(T))
           /\ \A x : k < Len(a) /\ Asks(a[k + 1], x) => x \in AskedIn(SubSeq(a, k + 1, Len(a)))
<1> DEFINE r == SubSeq(a, k + 1, Len(a))
<1>1. /\ r \in Seq(Talk(T))
      /\ k < Len(a) => 1 \in DOMAIN r /\ r[1] = a[k + 1]
  <2> HIDE DEF Talk
  <2>1. QED
    OBVIOUS
<1> HIDE DEF r
<1>2. ASSUME NEW x, k < Len(a), Asks(a[k + 1], x) PROVE x \in AskedIn(r)
  BY <1>1, <1>2, AskedIs
<1>3. QED
  BY <1>1, <1>2 DEF r

\* What is cut from lines is in one part, what is kept in the other.
LEMMA CutLines ==
    ASSUME NEW S, NEW s \in Seq(S), NEW n \in 0 .. Len(s)
    PROVE  /\ LastN(s, n) \in Seq(S) /\ SubSeq(s, 1, Len(s) - n) \in Seq(S)
           /\ ToSet(s) \subseteq ToSet(SubSeq(s, 1, Len(s) - n)) \cup ToSet(LastN(s, n))
<1> DEFINE k == Len(s) - n
           q == SubSeq(s, 1, k)
           r == SubSeq(s, k + 1, Len(s))
<1>1. /\ Len(s) \in Nat /\ k \in 0 .. Len(s) /\ Len(s) = k + n /\ n \in Nat /\ DOMAIN s = 1 .. Len(s)
      /\ \A i \in DOMAIN s : s[i] \in S
  OBVIOUS
<1> HIDE DEF k
<1>2. q \in Seq(S) /\ q = [i \in 1 .. k |-> s[i]] /\ DOMAIN q = 1 .. k
  BY <1>1
<1>3. r \in Seq(S) /\ r = [i \in 1 .. n |-> s[k + i]] /\ DOMAIN r = 1 .. n
  BY <1>1
<1> HIDE DEF q, r
<1>4. ASSUME NEW i \in DOMAIN s PROVE (\E j \in DOMAIN q : q[j] = s[i]) \/ (\E j \in DOMAIN r : r[j] = s[i])
  <2>1. CASE i > k
    <3>1. PICK j \in 1 .. n : k + j = i
      <4>1. i - k \in 1 .. n /\ k + (i - k) = i
        BY <1>1, <2>1
      <4>2. QED
        BY <4>1
    <3>2. QED
      BY <1>3, <3>1
  <2>2. CASE ~ (i > k)
    BY <1>1, <1>2, <2>2
  <2>3. QED
    BY <2>1, <2>2
<1>5. ToSet(s) \subseteq ToSet(q) \cup ToSet(r)
  BY <1>4 DEF ToSet
<1>6. QED
  BY <1>2, <1>3, <1>5 DEF LastN, q, r, k

\* The lines that the summary gains from the older messages.
Older(ms, W) == Retain(ms, {i \in 1 .. (Len(ms) - W) : ms[i].role = "user"})
Lines(summary, ms, W) == summary \o [i \in DOMAIN Older(ms, W) |-> AskedIn(<<Older(ms, W)[i]>>)]

LEMMA SummaryLines ==
    ASSUME NEW T, NEW ms \in Seq(Talk(T)), NEW W \in Nat, W < Len(ms), NEW summary \in Seq(SUBSET T)
    PROVE  /\ Lines(summary, ms, W) \in Seq(SUBSET T)
           /\ UNION ToSet(summary) \subseteq UNION ToSet(Lines(summary, ms, W))
           /\ AskedIn(ms) \subseteq AskedIn(LastN(ms, W)) \cup UNION ToSet(Lines(summary, ms, W))
<1> DEFINE I == {i \in 1 .. (Len(ms) - W) : ms[i].role = "user"}
           older == Retain(ms, I)
           new == [i \in DOMAIN older |-> AskedIn(<<older[i]>>)]
           lines == summary \o new
<1>0. lines = Lines(summary, ms, W)
  BY Zenon DEF Lines, Older
<1>1. /\ older \in Seq(Talk(T))
      /\ \A i \in 1 .. Len(ms) : i \in I => \E k \in 1 .. Len(older) : older[k] = ms[i]
  <2> HIDE DEF I
  <2>1. QED
    BY RetainElements
<1>2. \A k \in DOMAIN older : <<older[k]>> \in Seq(Talk(T)) /\ AskedIn(<<older[k]>>) \subseteq T
  <2> HIDE DEF older
  <2>1. \A k \in DOMAIN older : <<older[k]>> \in Seq(Talk(T))
    <3> HIDE DEF Talk
    <3>1. QED
      BY <1>1
  <2>2. QED
    BY <2>1, AskedInTalk
<1>3. DOMAIN older = 1 .. Len(older) /\ Len(older) \in Nat
  <2> HIDE DEF older, Talk
  <2>1. QED
    BY <1>1
<1>4. new \in Seq(SUBSET T) /\ DOMAIN new = DOMAIN older
  <2> HIDE DEF older
  <2>1. \A i \in 1 .. Len(older) : AskedIn(<<older[i]>>) \in SUBSET T
    BY <1>2, <1>3
  <2>2. QED
    BY <1>3, <2>1
<1>5. lines \in Seq(SUBSET T) /\ ToSet(summary) \subseteq ToSet(lines) /\ ToSet(new) \subseteq ToSet(lines)
  <2> HIDE DEF new
  <2>1. QED
    BY <1>4, Concat
<1> HIDE DEF lines
<1>6. ASSUME NEW x \in AskedIn(ms) PROVE x \in UNION ToSet(lines) \/ x \in AskedIn(LastN(ms, W))
  <2>1. Len(ms) \in Nat /\ DOMAIN ms = 1 .. Len(ms)
    BY TalkType
  <2>2. x \in AskedIn(SubSeq(ms, 1, Len(ms) - W)) \/ x \in AskedIn(LastN(ms, W))
    <3>1. W <= Len(ms)
      BY <2>1
    <3>2. \A y \in AskedIn(ms) : y \in AskedIn(SubSeq(ms, 1, Len(ms) - W)) \/ y \in AskedIn(LastN(ms, W))
      BY <3>1, LastTalk, Zenon
    <3>3. QED
      BY <3>2
  <2>3. ASSUME x \in AskedIn(SubSeq(ms, 1, Len(ms) - W)) PROVE x \in UNION ToSet(lines)
    <3> DEFINE q == SubSeq(ms, 1, Len(ms) - W)
    <3>1. PICK i \in DOMAIN q : Asks(q[i], x)
      BY <2>3, AskedIs
    <3>2. DOMAIN q = 1 .. (Len(ms) - W) /\ \A j \in 1 .. (Len(ms) - W) : q[j] = ms[j]
      BY <2>1
    <3>3. i \in 1 .. (Len(ms) - W) /\ Asks(ms[i], x) /\ i \in 1 .. Len(ms)
      BY <2>1, <3>1, <3>2
    <3>4. i \in I
      BY <3>3 DEF Asks
    <3> HIDE DEF I, older
    <3>5. PICK k \in 1 .. Len(older) : older[k] = ms[i]
      BY <1>1, <3>3, <3>4
    <3>6. x \in AskedIn(<<older[k]>>)
      <4>1. 1 \in DOMAIN <<older[k]>> /\ <<older[k]>>[1] = ms[i]
        BY <3>5
      <4>2. QED
        BY <3>3, <4>1, AskedIs
    <3>7. new[k] \in ToSet(new) /\ new[k] = AskedIn(<<older[k]>>)
      BY <1>3, <1>4 DEF ToSet
    <3>8. QED
      BY <1>5, <3>6, <3>7
  <2>4. QED
    BY <2>2, <2>3
<1>7. /\ UNION ToSet(summary) \subseteq UNION ToSet(lines)
      /\ AskedIn(ms) \subseteq AskedIn(LastN(ms, W)) \cup UNION ToSet(lines)
  <2>1. \A A, B : A \subseteq B => UNION A \subseteq UNION B
    OBVIOUS
  <2>2. UNION ToSet(summary) \subseteq UNION ToSet(lines)
    BY <1>5, <2>1, Zenon
  <2>3. AskedIn(ms) \subseteq AskedIn(LastN(ms, W)) \cup UNION ToSet(lines)
    BY <1>6, Zenon
  <2>4. QED
    BY <2>2, <2>3
<1>8. QED
  BY <1>0, <1>5, <1>7, Zenon

\* The canonical session is written by a turn, or cannot be written.
LEMMA StoreKeeps ==
    ASSUME SessionsInv, NEW t \in Turns, stage[t] = "merge",
           canonical' \in CanonicalSession, faded \subseteq faded', faded' \subseteq Turns,
           canonical' = canonical \/ Mentions(copy[t]) \subseteq Mentions(canonical') \cup faded',
           t \in shrunk \cup Mentions(canonical') \cup faded',
           stage' = [stage EXCEPT ![t] = "return"], copy' = [copy EXCEPT ![t] = NoCanonical],
           UNCHANGED <<rows, active, saved, sid, held, before, comp, resetting,
                       alone, said, unstored, deleted, shrunk, replaced, made>>
    PROVE  SessionsInv'
<1>0. SessionsTyped /\ Stages /\ Alone /\ Own /\ Kept /\ Remembered
  BY DEF SessionsInv
<1>1. /\ t \in InFlight /\ t \notin said /\ \A x \in alone : x # t => stage[x] = "done"
      /\ t \in alone => InFlight = {t}
  BY FlightIs
<1>2. /\ stage'[t] = "return"
      /\ \A u \in Turns : u # t => stage'[u] = stage[u] /\ copy'[u] = copy[u]
      /\ InFlight' = InFlight
  BY <1>0 DEF SessionsTyped, InFlight
<1>3. SessionsTyped'
  <2>1. /\ stage' \in [Turns -> {"none", "compact", "loop", "saved", "merge", "return", "done"}]
        /\ copy' \in [Turns -> CanonicalSession]
    BY <1>0, NothingSaid DEF SessionsTyped
  <2>2. Marked' \subseteq Turns
    BY <1>0 DEF SessionsTyped, Marked
  <2>3. QED
    BY <1>0, <2>1, <2>2 DEF SessionsTyped, Compaction
<1>4. Stages'
  <2>1. /\ \A u \in Turns : stage'[u] = "none" <=> stage[u] = "none"
        /\ \A u \in Turns : stage[u] \in {"compact", "done"} => stage'[u] = stage[u]
    BY <1>2
  <2>2. alone' = alone /\ said' = said /\ sid' = sid /\ comp' = comp /\ alone \subseteq Turns /\ said \subseteq Turns
    BY <1>0 DEF SessionsTyped, Marked
  <2>3. QED
    BY <1>0, <2>1, <2>2 DEF Stages
<1>5. Alone' /\ Own'
  BY <1>0, <1>2 DEF Alone, Own
<1>6. Kept'
  <2>1. \A x \in Turns : Present(x)' = Present(x)
    BY DEF Present
  <2>2. alone \subseteq Turns
    BY <1>0 DEF SessionsTyped, Marked
  <2>3. QED
    BY <1>0, <1>1, <1>2, <2>1, <2>2 DEF Kept
<1>7. Remembered'
  <2>1. Excused \subseteq Excused' /\ shrunk \subseteq Excused /\ faded' \subseteq Excused' /\ alone \subseteq Turns
    BY <1>0 DEF Excused, SessionsTyped, Marked
  <2>2. \A u \in Turns : stage'[u] = "loop" => Len(held'[u]) = before'[u] + 1 /\ held'[u][before'[u] + 1] = Question(u)
    BY <1>0, <1>2 DEF Remembered
  <2>3. \A u \in Turns : stage'[u] \in {"saved", "merge"} =>
          u \in shrunk \/ (Len(held'[u]) = before'[u] + 2 /\ held'[u][before'[u] + 1] = Question(u))
    BY <1>0, <1>2 DEF Remembered
  <2>4. ASSUME NEW x \in alone, stage'[x] = "return" \/ x \in said PROVE x \in Mentions(canonical') \cup Excused'
    <3>1. CASE x = t
      BY <2>1, <3>1
    <3>2. CASE x # t
      <4>1. x \in said
        BY <1>1, <1>2, <2>1, <2>4, <3>2
      <4>2. x \in Mentions(copy[t]) \cup Excused /\ x \in Mentions(canonical) \cup Excused
        BY <1>0, <2>4, <4>1 DEF Remembered
      <4>3. QED
        BY <2>1, <4>2
    <3>3. QED
      BY <3>1, <3>2
  <2>5. ASSUME NEW x \in alone \cap said, NEW u \in Turns, stage'[u] = "merge" PROVE x \in Mentions(copy'[u]) \cup Excused'
    BY <1>0, <1>2, <2>1, <2>5 DEF Remembered
  <2>6. QED
    BY <2>2, <2>3, <2>4, <2>5 DEF Remembered
<1>8. QED
  BY <1>3, <1>4, <1>5, <1>6, <1>7 DEF SessionsInv

LEMMA CanonicalKeeps ==
    ASSUME SessionsInv, NEW t \in Turns, SaveCanonical(t)
    PROVE  SessionsInv'
<1> DEFINE tail == SubSeq(held[t], before[t] + 1, Len(held[t]))
           ms == copy[t].messages \o tail
           lines == Lines(copy[t].summary, ms, CanonicalWindow)
           moved == stage' = [stage EXCEPT ![t] = "return"] /\ copy' = [copy EXCEPT ![t] = NoCanonical]
                    /\ UNCHANGED <<held, before>>
           frame == UNCHANGED <<rows, active, saved, sid, comp, resetting, alone, said, unstored, deleted, shrunk, replaced, made>>
<1>0. SessionsTyped /\ Remembered
  BY DEF SessionsInv
<1>1. stage[t] = "merge" /\ frame
      /\ \/ faded' = faded \cup {t} /\ moved /\ canonical' = canonical
         \/ /\ canonical' = [copy[t] EXCEPT !.messages = ms]
            /\ moved /\ faded' = faded
         \/ /\ Len(ms) > CanonicalAbove
            /\ \E n \in 0 .. Len(lines) :
                 /\ canonical' = [messages |-> LastN(ms, CanonicalWindow), summary |-> LastN(lines, n)]
                 /\ faded' = faded \cup UNION ToSet(SubSeq(lines, 1, Len(lines) - n))
            /\ moved
         \/ LeaveTurn(t) /\ UNCHANGED <<canonical, faded, events>>
  BY DEF SaveCanonical, Lines, Older
<1>2. /\ held[t] \in Seq(Talk(Turns)) /\ before[t] \in Nat
      /\ copy[t] \in CanonicalSession /\ copy[t].messages \in Seq(Talk(Turns)) /\ copy[t].summary \in Seq(SUBSET Turns)
      /\ faded \subseteq Turns
  BY <1>0 DEF SessionsTyped, CanonicalSession, History, Marked
<1>3. /\ CanonicalWindow \in Nat /\ CanonicalAbove \in Nat /\ CanonicalWindow < CanonicalAbove
  BY BoundsType
<1>4. tail \in Seq(Talk(Turns)) /\ (t \in shrunk \/ t \in AskedIn(tail))
  <2>1. /\ tail \in Seq(Talk(Turns))
        /\ before[t] < Len(held[t]) /\ Asks(held[t][before[t] + 1], t) => t \in AskedIn(tail)
    BY <1>2, TailTalk
  <2>2. t \in shrunk \/ (before[t] < Len(held[t]) /\ held[t][before[t] + 1] = Question(t))
    <3>1. t \in shrunk \/ (Len(held[t]) = before[t] + 2 /\ held[t][before[t] + 1] = Question(t))
      BY <1>0, <1>1 DEF Remembered
    <3>2. QED
      BY <1>2, <3>1
  <2>3. Asks(Question(t), t)
    BY Words
  <2>4. QED
    BY <2>1, <2>2, <2>3
<1> HIDE DEF tail
<1>5. ms \in Seq(Talk(Turns)) /\ AskedIn(copy[t].messages) \subseteq AskedIn(ms) /\ AskedIn(tail) \subseteq AskedIn(ms)
  BY <1>2, <1>4, ConcatTalk
<1>5a. Len(ms) \in Nat
  BY <1>5, TalkType
<1> HIDE DEF ms
<1>6. CASE canonical' = [copy[t] EXCEPT !.messages = ms] /\ moved /\ faded' = faded
  <2>1. canonical' = [messages |-> ms, summary |-> copy[t].summary]
    BY <1>2, <1>6 DEF CanonicalSession
  <2>2. canonical' \in CanonicalSession /\ Mentions(canonical') = AskedIn(ms) \cup UNION ToSet(copy[t].summary)
    BY <1>2, <1>5, <2>1 DEF CanonicalSession, History, Mentions
  <2>3. Mentions(copy[t]) \subseteq Mentions(canonical') \cup faded'
    BY <1>5, <2>2 DEF Mentions
  <2>4. t \in shrunk \cup Mentions(canonical') \cup faded'
    BY <1>4, <1>5, <2>2
  <2>5. QED
    BY <1>1, <1>2, <1>6, <2>2, <2>3, <2>4, StoreKeeps
<1>7. CASE Len(ms) > CanonicalAbove /\ moved /\ \E n \in 0 .. Len(lines) :
                 /\ canonical' = [messages |-> LastN(ms, CanonicalWindow), summary |-> LastN(lines, n)]
                 /\ faded' = faded \cup UNION ToSet(SubSeq(lines, 1, Len(lines) - n))
  <2>0. CanonicalWindow < Len(ms) /\ CanonicalWindow <= Len(ms)
    BY <1>3, <1>5a, <1>7
  <2>1. /\ lines \in Seq(SUBSET Turns)
        /\ UNION ToSet(copy[t].summary) \subseteq UNION ToSet(lines)
        /\ AskedIn(ms) \subseteq AskedIn(LastN(ms, CanonicalWindow)) \cup UNION ToSet(lines)
    BY <1>2, <1>3, <1>5, <2>0, SummaryLines, Zenon
  <2>2. LastN(ms, CanonicalWindow) \in Seq(Talk(Turns))
    BY <1>3, <1>5, <2>0, LastTalk, Zenon
  <2> HIDE DEF lines
  <2>3. PICK n \in 0 .. Len(lines) :
           /\ canonical' = [messages |-> LastN(ms, CanonicalWindow), summary |-> LastN(lines, n)]
           /\ faded' = faded \cup UNION ToSet(SubSeq(lines, 1, Len(lines) - n))
    BY <1>7
  <2> DEFINE gone == SubSeq(lines, 1, Len(lines) - n)
             rest == LastN(lines, n)
  <2>4. rest \in Seq(SUBSET Turns) /\ gone \in Seq(SUBSET Turns) /\ ToSet(lines) \subseteq ToSet(gone) \cup ToSet(rest)
    BY <2>1, CutLines
  <2> HIDE DEF gone, rest
  <2>5. canonical' = [messages |-> LastN(ms, CanonicalWindow), summary |-> rest] /\ faded' = faded \cup UNION ToSet(gone)
    BY <2>3 DEF gone, rest
  <2>6. UNION ToSet(gone) \subseteq Turns
    BY <2>4 DEF ToSet
  <2>7. \A x \in UNION ToSet(lines) : x \in UNION ToSet(gone) \/ x \in UNION ToSet(rest)
    BY <2>4
  <2>8. /\ canonical' \in CanonicalSession
        /\ Mentions(canonical') = AskedIn(LastN(ms, CanonicalWindow)) \cup UNION ToSet(rest)
    BY <2>2, <2>4, <2>5 DEF CanonicalSession, History, Mentions
  <2>9. AskedIn(ms) \subseteq Mentions(canonical') \cup faded' /\ UNION ToSet(lines) \subseteq Mentions(canonical') \cup faded'
    BY <2>1, <2>5, <2>7, <2>8
  <2>10. Mentions(copy[t]) \subseteq Mentions(canonical') \cup faded'
    BY <1>5, <2>1, <2>9 DEF Mentions
  <2>11. t \in shrunk \cup Mentions(canonical') \cup faded'
    BY <1>4, <1>5, <2>9
  <2>12. faded \subseteq faded' /\ faded' \subseteq Turns
    BY <1>2, <2>5, <2>6
  <2>13. QED
    BY <1>1, <1>7, <2>8, <2>10, <2>11, <2>12, StoreKeeps
<1>8. CASE LeaveTurn(t) /\ UNCHANGED <<canonical, faded, events>>
  BY <1>1, <1>8, LeaveKeeps DEF boundVars
<1>9. CASE faded' = faded \cup {t} /\ moved /\ canonical' = canonical
  <2>1. canonical' \in CanonicalSession /\ faded' \subseteq Turns /\ faded \subseteq faded'
    BY <1>0, <1>2, <1>9 DEF SessionsTyped
  <2>2. QED
    BY <1>1, <1>9, <2>1, StoreKeeps
<1>10. QED
  BY <1>1, <1>6, <1>7, <1>8, <1>9

-----------------------------------------------------------------------------
(* Sessions: compaction keeps the invariant *)

\* A compaction ends: it may have written its session, and the turn that waited
\* for it goes on with its own copy or with the row.
Resumed(u) ==
    \/ stage'[u] = stage[u] /\ held'[u] = held[u] /\ before'[u] = before[u]
    \/ /\ stage[u] = "compact" /\ stage'[u] = "loop" /\ comp'[u].pc = "idle"
       /\ \E ms \in History :
            /\ ms = held[u] \/ (sid[u] \in DOMAIN rows' /\ ms = rows'[sid[u]])
            /\ held'[u] = Append(ms, Question(u)) /\ before'[u] = Len(ms)

LEMMA ResumedIs ==
    ASSUME SessionsTyped, rows' \in [DOMAIN rows' -> History],
           \/ UNCHANGED <<stage, held, before>>
           \/ \E t \in Turns : stage[t] = "compact" /\ comp'[t].pc = "idle"
                /\ (StartLoop(t, held[t]) \/ (sid[t] \in DOMAIN rows' /\ StartLoop(t, rows'[sid[t]])))
    PROVE  /\ stage' \in [Turns -> {"none", "compact", "loop", "saved", "merge", "return", "done"}]
           /\ held' \in [Turns -> History] /\ before' \in [Turns -> Nat]
           /\ \A u \in Turns : Resumed(u)
<1>0. /\ stage \in [Turns -> {"none", "compact", "loop", "saved", "merge", "return", "done"}]
      /\ held \in [Turns -> History] /\ before \in [Turns -> Nat]
  BY DEF SessionsTyped
<1>1. CASE UNCHANGED <<stage, held, before>>
  BY <1>0, <1>1 DEF Resumed
<1>2. ASSUME NEW t \in Turns, stage[t] = "compact", comp'[t].pc = "idle", NEW ms \in History,
             ms = held[t] \/ (sid[t] \in DOMAIN rows' /\ ms = rows'[sid[t]]),
             StartLoop(t, ms)
      PROVE  /\ stage' \in [Turns -> {"none", "compact", "loop", "saved", "merge", "return", "done"}]
             /\ held' \in [Turns -> History] /\ before' \in [Turns -> Nat]
             /\ \A u \in Turns : Resumed(u)
  <2> DEFINE q == Append(ms, Question(t))
  <2>1. q \in History /\ Len(ms) \in Nat
    BY Words, AppendTalk, TalkType DEF History
  <2> HIDE DEF q
  <2>2. /\ stage' = [stage EXCEPT ![t] = "loop"] /\ held' = [held EXCEPT ![t] = q]
        /\ before' = [before EXCEPT ![t] = Len(ms)]
    BY <1>2 DEF StartLoop, q
  <2>3. ASSUME NEW u \in Turns PROVE Resumed(u)
    <3>1. CASE u = t
      <4>1. stage'[u] = "loop" /\ held'[u] = q /\ before'[u] = Len(ms)
        BY <1>0, <2>2, <3>1
      <4>2. QED
        BY <1>2, <3>1, <4>1, Zenon DEF Resumed, q
    <3>2. CASE u # t
      BY <1>0, <2>2, <3>2 DEF Resumed
    <3>3. QED
      BY <3>1, <3>2
  <2>4. QED
    BY <1>0, <2>1, <2>2, <2>3
<1>3. ASSUME NEW t \in Turns, stage[t] = "compact", comp'[t].pc = "idle",
             StartLoop(t, held[t]) \/ (sid[t] \in DOMAIN rows' /\ StartLoop(t, rows'[sid[t]]))
      PROVE  \E ms \in History : /\ ms = held[t] \/ (sid[t] \in DOMAIN rows' /\ ms = rows'[sid[t]])
                                 /\ StartLoop(t, ms)
  <2>1. held[t] \in History
    BY <1>0
  <2>2. sid[t] \in DOMAIN rows' => rows'[sid[t]] \in History
    OBVIOUS
  <2>3. QED
    BY <1>3, <2>1, <2>2, Zenon
<1>4. QED
  BY <1>1, <1>2, <1>3, Zenon

LEMMA ResumeKeeps ==
    ASSUME SessionsInv,
           rows' \in [DOMAIN rows' -> History], DOMAIN rows' \subseteq 1 .. made,
           \A s \in DOMAIN rows' : \A x \in AskedIn(rows'[s]) : sid[x] = s,
           alone' \subseteq alone, unstored \subseteq unstored', unstored' \subseteq Turns,
           \A x \in said \cap alone' : x \in unstored' \/ sid[x] \in deleted \/ Present(x)',
           rows' = rows \/ \A x \in alone : stage[x] \notin {"saved", "merge", "return"},
           comp' \in [0 .. MaxMessages -> Compaction],
           \A c \in 0 .. MaxMessages : comp'[c] = comp[c] \/ comp'[c].pc = "idle",
           \/ UNCHANGED <<stage, held, before>>
           \/ \E t \in Turns : stage[t] = "compact" /\ comp'[t].pc = "idle"
                /\ (StartLoop(t, held[t]) \/ (sid[t] \in DOMAIN rows' /\ StartLoop(t, rows'[sid[t]]))),
           UNCHANGED <<canonical, active, saved, sid, copy, said, deleted, shrunk, faded, replaced, made>>
    PROVE  SessionsInv'
<1>0. SessionsTyped /\ Stages /\ Alone /\ Own /\ Kept /\ Remembered
  BY DEF SessionsInv
<1>1. /\ stage' \in [Turns -> {"none", "compact", "loop", "saved", "merge", "return", "done"}]
      /\ held' \in [Turns -> History] /\ before' \in [Turns -> Nat]
      /\ \A u \in Turns : Resumed(u)
  BY <1>0, ResumedIs, Zenon
<1>2. /\ \A u \in Turns : stage'[u] = stage[u] \/ (stage[u] = "compact" /\ stage'[u] = "loop" /\ comp'[u].pc = "idle")
      /\ InFlight' = InFlight
  <2>1. \A u \in Turns : stage'[u] = stage[u] \/ (stage[u] = "compact" /\ stage'[u] = "loop" /\ comp'[u].pc = "idle")
    BY <1>1 DEF Resumed
  <2>2. QED
    BY <2>1 DEF InFlight
<1>3. SessionsTyped'
  <2>1. Marked' \subseteq Turns
    BY <1>0 DEF SessionsTyped, Marked
  <2>2. comp' \in [0 .. MaxMessages -> Compaction']
    BY DEF Compaction
  <2>3. QED
    BY <1>0, <1>1, <2>1, <2>2 DEF SessionsTyped
<1>4. Stages'
  <2>1. said' = said /\ sid' = sid /\ alone' \subseteq alone /\ alone \subseteq Turns /\ said \subseteq Turns
    BY <1>0 DEF SessionsTyped, Marked
  <2>2. \A c \in Turns : comp'[c].pc # "idle" => comp[c].pc # "idle" /\ stage'[c] = stage[c]
    BY <1>2, NothingSaid
  <2>3. QED
    BY <1>0, <1>2, <2>1, <2>2 DEF Stages
<1>5. Alone'
  BY <1>0, <1>2, NothingSaid DEF Alone
<1>6. Own'
  <2>1. ASSUME NEW u \in InFlight, NEW x \in AskedIn(held'[u]) PROVE sid[x] = sid[u]
    <3>1. u \in Turns /\ Resumed(u)
      BY <1>1 DEF InFlight
    <3>2. CASE held'[u] = held[u]
      BY <1>0, <2>1, <3>2 DEF Own
    <3>3. CASE \E ms \in History : /\ ms = held[u] \/ (sid[u] \in DOMAIN rows' /\ ms = rows'[sid[u]])
                                   /\ held'[u] = Append(ms, Question(u))
      <4>1. PICK ms \in History : /\ ms = held[u] \/ (sid[u] \in DOMAIN rows' /\ ms = rows'[sid[u]])
                                  /\ held'[u] = Append(ms, Question(u))
        BY <3>3
      <4>2. x \in AskedIn(ms) \/ x = u
        <5>1. Question(u) \in Talk(Turns) /\ \A y : Asks(Question(u), y) <=> y = u
          BY <3>1, Words
        <5>2. \A y \in AskedIn(Append(ms, Question(u))) : y \in AskedIn(ms) \/ Asks(Question(u), y)
          BY <5>1, AppendTalk, Zenon DEF History
        <5>3. QED
          BY <2>1, <4>1, <5>1, <5>2, Zenon
      <4>3. QED
        BY <1>0, <4>1, <4>2 DEF Own
    <3>4. QED
      BY <3>1, <3>2, <3>3, Zenon DEF Resumed
  <2>2. \A c \in 0 .. MaxMessages : comp'[c].pc # "idle" => \A x \in AskedIn(comp'[c].kept) : sid[x] = comp'[c].sid
    BY <1>0 DEF Own
  <2>3. sid' = sid
    OBVIOUS
  <2>4. QED
    BY <1>2, <2>1, <2>2, <2>3 DEF Own
<1>7. Kept'
  <2>1. said' = said /\ sid' = sid /\ deleted' = deleted /\ alone' \subseteq alone /\ alone \subseteq Turns
    BY <1>0 DEF SessionsTyped, Marked
  <2>2. ASSUME NEW x \in said \cap alone', x \notin unstored', sid[x] \notin deleted
        PROVE  /\ Present(x)'
               /\ \A u \in InFlight : sid[u] = sid[x] => Told(held'[u], x)
               /\ \A c \in 0 .. MaxMessages : comp'[c].pc # "idle" /\ comp'[c].sid = sid[x] =>
                     x \in comp'[c].dropped \/ Told(comp'[c].kept, x)
    <3>1. Present(x)' /\ sid[x] \in DOMAIN rows' /\ Told(rows'[sid[x]], x)
      BY <2>2 DEF Present
    <3>2. /\ \A u \in InFlight : sid[u] = sid[x] => Told(held[u], x)
          /\ \A c \in 0 .. MaxMessages : comp[c].pc # "idle" /\ comp[c].sid = sid[x] =>
                     x \in comp[c].dropped \/ Told(comp[c].kept, x)
      BY <1>0, <2>1, <2>2 DEF Kept
    <3>3. ASSUME NEW u \in InFlight, sid[u] = sid[x] PROVE Told(held'[u], x)
      <4>1. u \in Turns /\ Resumed(u)
        BY <1>1 DEF InFlight
      <4>2. CASE held'[u] = held[u]
        BY <3>2, <3>3, <4>2
      <4>3. CASE \E ms \in History : /\ ms = held[u] \/ (sid[u] \in DOMAIN rows' /\ ms = rows'[sid[u]])
                                     /\ held'[u] = Append(ms, Question(u))
        <5>1. PICK ms \in History : /\ ms = held[u] \/ (sid[u] \in DOMAIN rows' /\ ms = rows'[sid[u]])
                                    /\ held'[u] = Append(ms, Question(u))
          BY <4>3
        <5>2. Told(ms, x)
          BY <3>1, <3>2, <3>3, <5>1
        <5>3. Question(u) \in Talk(Turns)
          BY <4>1, Words
        <5>4. Told(Append(ms, Question(u)), x)
          BY <5>2, <5>3, AppendTalk, Zenon DEF History
        <5>5. QED
          BY <5>1, <5>4
      <4>4. QED
        BY <4>1, <4>2, <4>3, Zenon DEF Resumed
    <3>4. \A c \in 0 .. MaxMessages : comp'[c].pc # "idle" /\ comp'[c].sid = sid[x] =>
             x \in comp'[c].dropped \/ Told(comp'[c].kept, x)
      BY <3>2
    <3>5. QED
      BY <3>1, <3>3, <3>4
  <2>3. ASSUME NEW x \in alone', stage'[x] \in {"saved", "merge", "return"}
        PROVE  Present(x)' \/ x \in unstored' \/ sid[x] \in deleted \/ IsNoReply(Last(held'[x]))
    <3>1. x \in Turns /\ x \in alone
      BY <2>1, <2>3
    <3>2. stage'[x] = stage[x] /\ held'[x] = held[x]
      <4>1. Resumed(x)
        BY <1>1, <3>1
      <4>2. stage'[x] # "loop"
        BY <2>3
      <4>3. QED
        BY <4>1, <4>2, Zenon DEF Resumed
    <3>3. rows' = rows
      BY <2>3, <3>1, <3>2
    <3>4. Present(x) \/ x \in unstored \/ sid[x] \in deleted \/ IsNoReply(Last(held[x]))
      BY <1>0, <2>3, <3>1, <3>2 DEF Kept
    <3>5. QED
      BY <2>1, <3>2, <3>3, <3>4 DEF Present
  <2>4. QED
    BY <1>2, <2>1, <2>2, <2>3 DEF Kept
<1>8. Remembered'
  <2>1. /\ Excused' = Excused /\ Mentions(canonical') = Mentions(canonical) /\ canonical' = canonical /\ copy' = copy
        /\ alone' \subseteq alone /\ said' = said /\ shrunk' = shrunk /\ alone \subseteq Turns
    BY <1>0 DEF Excused, SessionsTyped, Marked
  <2>2. ASSUME NEW u \in Turns, stage'[u] = "loop"
        PROVE  Len(held'[u]) = before'[u] + 1 /\ held'[u][before'[u] + 1] = Question(u)
    <3>1. Resumed(u)
      BY <1>1
    <3>2. CASE stage'[u] = stage[u] /\ held'[u] = held[u] /\ before'[u] = before[u]
      BY <1>0, <2>2, <3>2 DEF Remembered
    <3>3. CASE \E ms \in History : held'[u] = Append(ms, Question(u)) /\ before'[u] = Len(ms)
      <4>1. PICK ms \in History : held'[u] = Append(ms, Question(u)) /\ before'[u] = Len(ms)
        BY <3>3
      <4> DEFINE q == Question(u)
      <4>2. ms \in Seq(Talk(Turns)) /\ q \in Talk(Turns)
        BY Words DEF History
      <4> HIDE DEF q, Talk
      <4>3. Len(Append(ms, q)) = Len(ms) + 1 /\ Append(ms, q)[Len(ms) + 1] = q
        BY <4>2
      <4>4. QED
        BY <4>1, <4>3 DEF q
    <3>4. QED
      BY <3>1, <3>2, <3>3, Zenon DEF Resumed
  <2>3. ASSUME NEW u \in Turns, stage'[u] \in {"saved", "merge", "return"}
        PROVE  stage'[u] = stage[u] /\ held'[u] = held[u] /\ before'[u] = before[u]
    <3>1. Resumed(u) /\ stage'[u] # "loop"
      BY <1>1, <2>3
    <3>2. QED
      BY <3>1, Zenon DEF Resumed
  <2>4. \A u \in Turns : stage'[u] \in {"saved", "merge"} =>
          u \in shrunk \/ (Len(held'[u]) = before'[u] + 2 /\ held'[u][before'[u] + 1] = Question(u))
    BY <1>0, <2>3 DEF Remembered
  <2>5. \A x \in alone' : stage'[x] = "return" \/ x \in said => x \in Mentions(canonical) \cup Excused
    BY <1>0, <2>1, <2>3 DEF Remembered
  <2>6. \A x \in alone' \cap said, u \in Turns : stage'[u] = "merge" => x \in Mentions(copy[u]) \cup Excused
    BY <1>0, <2>1, <2>3 DEF Remembered
  <2>7. QED
    BY <2>1, <2>2, <2>4, <2>5, <2>6 DEF Remembered
<1>9. QED
  BY <1>3, <1>4, <1>5, <1>6, <1>7, <1>8 DEF SessionsInv

LEMMA NothingKeeps ==
    ASSUME SessionsInv, NEW c \in 0 .. MaxMessages, CompactNothing(c)
    PROVE  SessionsInv'
<1>0. SessionsTyped /\ Stages /\ Own /\ Kept
  BY DEF SessionsInv
<1>1. /\ Requested(c) /\ rows' = rows /\ Resume(c)
      /\ UNCHANGED <<canonical, active, saved, sid, copy, comp, resetting, said, unstored, deleted, shrunk, faded, replaced, made>>
  BY DEF CompactNothing
<1>2. alone' \subseteq alone /\ (c # 0 => c \in Turns /\ stage[c] = "compact" /\ comp[c].pc = "idle")
  BY <1>1, NothingSaid DEF Requested
<1>3. \/ UNCHANGED <<stage, held, before>>
      \/ \E t \in Turns : stage[t] = "compact" /\ comp'[t].pc = "idle"
                /\ (StartLoop(t, held[t]) \/ (sid[t] \in DOMAIN rows' /\ StartLoop(t, rows'[sid[t]])))
  <2>1. CASE c = 0
    BY <1>1, <2>1 DEF Resume
  <2>2. CASE c # 0
    <3>1. StartLoop(c, held[c]) \/ (sid[c] \in DOMAIN rows' /\ StartLoop(c, rows'[sid[c]]))
      BY <1>1, <2>2, Zenon DEF Resume
    <3>2. QED
      BY <1>1, <1>2, <2>2, <3>1
  <2>3. QED
    BY <2>1, <2>2
<1>4. /\ rows' \in [DOMAIN rows' -> History] /\ DOMAIN rows' \subseteq 1 .. made
      /\ comp' \in [0 .. MaxMessages -> Compaction] /\ unstored' \subseteq Turns
      /\ said \subseteq Turns
  BY <1>0, <1>1 DEF SessionsTyped, Marked
<1>5. \A s \in DOMAIN rows' : \A x \in AskedIn(rows'[s]) : sid[x] = s
  BY <1>0, <1>1 DEF Own
<1>6. \A x \in said \cap alone' : x \in unstored' \/ sid[x] \in deleted \/ Present(x)'
  BY <1>0, <1>1, <1>2 DEF Kept, Present
<1>7. QED
  BY <1>1, <1>2, <1>3, <1>4, <1>5, <1>6, ResumeKeeps

LEMMA FailsKeeps ==
    ASSUME SessionsInv, NEW t \in Turns, CompactFails(t)
    PROVE  SessionsInv'
<1>0. SessionsTyped /\ Own /\ Kept
  BY DEF SessionsInv
<1>1. /\ stage[t] = "compact" /\ comp[t].pc = "idle" /\ StartLoop(t, held[t])
      /\ UNCHANGED <<rows, canonical, active, saved, sid, copy, comp, resetting,
                     alone, said, unstored, deleted, shrunk, faded, replaced, made>>
  BY DEF CompactFails, historyVars, boundVars
<1>2. /\ rows' \in [DOMAIN rows' -> History] /\ DOMAIN rows' \subseteq 1 .. made
      /\ comp' \in [0 .. MaxMessages -> Compaction] /\ unstored' \subseteq Turns
  BY <1>0, <1>1 DEF SessionsTyped, Marked
<1>3. \A s \in DOMAIN rows' : \A x \in AskedIn(rows'[s]) : sid[x] = s
  BY <1>0, <1>1 DEF Own
<1>4. \A x \in said \cap alone' : x \in unstored' \/ sid[x] \in deleted \/ Present(x)'
  BY <1>0, <1>1 DEF Kept, Present
<1>5. QED
  BY <1>1, <1>2, <1>3, <1>4, ResumeKeeps

\* While a compaction is under way, no turn that is alone is past its loop.
LEMMA CompactingIs ==
    ASSUME SessionsInv, NEW c \in 0 .. MaxMessages, comp[c].pc # "idle"
    PROVE  /\ \A x \in alone : stage[x] \notin {"saved", "merge", "return"}
           /\ c # 0 => c \in Turns /\ stage[c] = "compact"
<1>0. SessionsTyped /\ Stages
  BY DEF SessionsInv
<1>1. c # 0 => c \in Turns /\ stage[c] = "compact" /\ c \in InFlight
  BY <1>0, NothingSaid DEF Stages, InFlight
<1>2. ASSUME NEW x \in alone, stage[x] \in {"saved", "merge", "return"} PROVE FALSE
  <2>1. x \in Turns
    BY <1>0 DEF SessionsTyped, Marked
  <2>2. InFlight = {x} /\ comp[0].pc = "idle"
    BY <1>2, <2>1, FlightIs
  <2>3. c # 0 /\ c = x
    BY <1>1, <2>2
  <2>4. QED
    BY <1>1, <1>2, <2>3
<1>3. QED
  BY <1>1, <1>2

LEMMA CompactedKeeps ==
    ASSUME SessionsInv, NEW c \in 0 .. MaxMessages, SaveCompacted(c)
    PROVE  SessionsInv'
<1> DEFINE ms == ValidateAndRepair(comp[c].kept)
<1>0. SessionsTyped /\ Stages /\ Own /\ Kept
  BY DEF SessionsInv
<1>1. /\ comp[c].pc = "save" /\ rows' = Saved(comp[c].sid, ms)
      /\ unstored' = unstored \cup comp[c].dropped /\ comp' = [comp EXCEPT ![c] = NoCompaction] /\ Resume(c)
      /\ UNCHANGED <<canonical, active, saved, sid, copy, alone, said, deleted, shrunk, faded, replaced, made>>
  BY DEF SaveCompacted, boundVars
<1>2. /\ comp[c].sid \in 1 .. made /\ comp[c].sid \in Nat /\ comp[c].kept \in Seq(Talk(Turns))
      /\ comp[c].dropped \subseteq Turns /\ made \in Nat
  BY <1>0, CompactionIs DEF SessionsTyped, History
<1>3. /\ ms \in Seq(Talk(Turns)) /\ AskedIn(ms) \subseteq AskedIn(comp[c].kept)
      /\ \A t : Told(comp[c].kept, t) => Told(ms, t)
  BY <1>2, RepairedTalk, Zenon
<1> HIDE DEF ms
<1>4. /\ DOMAIN rows' = DOMAIN rows \cup {comp[c].sid} /\ rows'[comp[c].sid] = ms
      /\ \A x \in DOMAIN rows : x # comp[c].sid => rows'[x] = rows[x]
      /\ rows' \in [DOMAIN rows' -> History]
  <2>1. ms \in History
    BY <1>3 DEF History
  <2>2. /\ DOMAIN Saved(comp[c].sid, ms) = DOMAIN rows \cup {comp[c].sid} /\ Saved(comp[c].sid, ms)[comp[c].sid] = ms
        /\ \A x \in DOMAIN rows : x # comp[c].sid => Saved(comp[c].sid, ms)[x] = rows[x]
        /\ Saved(comp[c].sid, ms) \in [DOMAIN Saved(comp[c].sid, ms) -> History]
    BY <1>0, <1>2, <2>1, SavedIs, Zenon
  <2>3. QED
    BY <1>1, <2>2, Zenon
<1>5. DOMAIN rows' \subseteq 1 .. made
  BY <1>0, <1>2, <1>4 DEF SessionsTyped
<1>6. \A s \in DOMAIN rows' : \A x \in AskedIn(rows'[s]) : sid[x] = s
  BY <1>0, <1>1, <1>3, <1>4 DEF Own
<1>7. unstored' \subseteq Turns /\ unstored \subseteq unstored'
  BY <1>0, <1>1, <1>2 DEF SessionsTyped, Marked
<1>8. ASSUME NEW x \in said \cap alone, x \notin unstored', sid[x] \notin deleted PROVE Present(x)'
  <2>1. /\ sid[x] \in DOMAIN rows /\ Told(rows[sid[x]], x)
        /\ comp[c].sid = sid[x] => x \in comp[c].dropped \/ Told(comp[c].kept, x)
    BY <1>0, <1>1, <1>7, <1>8 DEF Kept, Present
  <2>2. sid[x] \in DOMAIN rows' /\ Told(rows'[sid[x]], x)
    <3>1. CASE comp[c].sid = sid[x]
      BY <1>1, <1>3, <1>4, <1>8, <2>1, <3>1
    <3>2. CASE comp[c].sid # sid[x]
      BY <1>4, <2>1, <3>2
    <3>3. QED
      BY <3>1, <3>2
  <2>3. QED
    BY <1>1, <2>2 DEF Present
<1>9. /\ comp' \in [0 .. MaxMessages -> Compaction] /\ comp'[c].pc = "idle"
      /\ \A d \in 0 .. MaxMessages : comp'[d] = comp[d] \/ comp'[d].pc = "idle"
  <2>1. NoCompaction \in Compaction /\ NoCompaction.pc = "idle"
    BY <1>2, NothingSaid DEF NoCompaction
  <2>2. comp \in [0 .. MaxMessages -> Compaction]
    BY <1>0 DEF SessionsTyped
  <2> HIDE DEF NoCompaction, Compaction
  <2>3. QED
    BY <1>1, <2>1, <2>2
<1>10. \A x \in alone : stage[x] \notin {"saved", "merge", "return"}
  BY <1>1, CompactingIs
<1>11. \/ UNCHANGED <<stage, held, before>>
       \/ \E t \in Turns : stage[t] = "compact" /\ comp'[t].pc = "idle"
                /\ (StartLoop(t, held[t]) \/ (sid[t] \in DOMAIN rows' /\ StartLoop(t, rows'[sid[t]])))
  <2>1. CASE c = 0
    BY <1>1, <2>1 DEF Resume
  <2>2. CASE c # 0
    <3>1. StartLoop(c, held[c]) \/ (sid[c] \in DOMAIN rows' /\ StartLoop(c, rows'[sid[c]]))
      BY <1>1, <2>2, Zenon DEF Resume
    <3>2. c \in Turns /\ stage[c] = "compact"
      BY <1>1, <2>2, CompactingIs
    <3>3. QED
      BY <1>9, <3>1, <3>2, Zenon
  <2>3. QED
    BY <2>1, <2>2
<1>12. \A x \in said \cap alone' : x \in unstored' \/ sid[x] \in deleted \/ Present(x)'
  BY <1>1, <1>8
<1>13. QED
  BY <1>1, <1>4, <1>5, <1>6, <1>7, <1>9, <1>10, <1>11, <1>12, ResumeKeeps

LEMMA StopsKeeps ==
    ASSUME SessionsInv, NEW c \in 0 .. MaxMessages, CompactStops(c)
    PROVE  SessionsInv'
<1>0. SessionsTyped /\ Own /\ Kept
  BY DEF SessionsInv
<1>1. /\ comp[c].pc # "idle" /\ comp' = [comp EXCEPT ![c] = NoCompaction]
      /\ IF c = 0 THEN UNCHANGED <<stage, held, before>> ELSE StartLoop(c, held[c])
      /\ UNCHANGED <<rows, canonical, active, saved, sid, copy,
                     alone, said, unstored, deleted, shrunk, faded, replaced, made>>
  BY DEF CompactStops, historyVars
<1>2. /\ rows' \in [DOMAIN rows' -> History] /\ DOMAIN rows' \subseteq 1 .. made
      /\ unstored' \subseteq Turns /\ made \in Nat /\ 1 <= made
  BY <1>0, <1>1 DEF SessionsTyped, Marked
<1>3. /\ comp' \in [0 .. MaxMessages -> Compaction] /\ comp'[c].pc = "idle"
      /\ \A d \in 0 .. MaxMessages : comp'[d] = comp[d] \/ comp'[d].pc = "idle"
  <2>1. NoCompaction \in Compaction /\ NoCompaction.pc = "idle"
    BY <1>2, NothingSaid DEF NoCompaction
  <2>2. comp \in [0 .. MaxMessages -> Compaction]
    BY <1>0 DEF SessionsTyped
  <2> HIDE DEF NoCompaction, Compaction
  <2>3. QED
    BY <1>1, <2>1, <2>2
<1>4. c # 0 => c \in Turns /\ stage[c] = "compact"
  BY <1>1, CompactingIs
<1>5. \/ UNCHANGED <<stage, held, before>>
      \/ \E t \in Turns : stage[t] = "compact" /\ comp'[t].pc = "idle"
                /\ (StartLoop(t, held[t]) \/ (sid[t] \in DOMAIN rows' /\ StartLoop(t, rows'[sid[t]])))
  BY <1>1, <1>3, <1>4, Zenon
<1>6. \A s \in DOMAIN rows' : \A x \in AskedIn(rows'[s]) : sid[x] = s
  BY <1>0, <1>1 DEF Own
<1>7. \A x \in said \cap alone' : x \in unstored' \/ sid[x] \in deleted \/ Present(x)'
  BY <1>0, <1>1 DEF Kept, Present
<1>8. QED
  BY <1>1, <1>2, <1>3, <1>5, <1>6, <1>7, ResumeKeeps

\* A compaction takes its copy of the active session.
LEMMA SelectKeeps ==
    ASSUME SessionsInv, NEW c \in 0 .. MaxMessages, CompactRead(c)
    PROVE  SessionsInv'
<1> DEFINE kept == LastN(Read(active), CompactKeep)
           dropped == AskedIn(SubSeq(Read(active), 1, Len(Read(active)) - CompactKeep))
           task == [pc |-> "llm", sid |-> active, kept |-> kept, dropped |-> dropped]
<1>0. SessionsTyped /\ Stages /\ Alone /\ Own /\ Kept /\ Remembered
  BY DEF SessionsInv
<1>1. /\ Requested(c) /\ Len(Read(active)) > CompactAbove /\ comp' = [comp EXCEPT ![c] = task]
      /\ UNCHANGED <<rows, canonical, active, saved, stage, sid, held, before, copy, resetting,
                     said, unstored, deleted, shrunk, faded, replaced, made>>
  BY DEF CompactRead, turnVars
<1>2. /\ alone' \subseteq alone /\ alone \subseteq Turns
      /\ c = 0 => alone' = alone \ InFlight
      /\ c # 0 => c \in Turns /\ stage[c] = "compact"
  <2>1. alone \subseteq Turns
    BY <1>0 DEF SessionsTyped, Marked
  <2>2. c # 0 => c \in Turns
    BY NothingSaid
  <2>3. QED
    BY <1>1, <2>1, <2>2 DEF Requested
<1>3. /\ Read(active) \in Seq(Talk(Turns)) /\ active \in 1 .. made
      /\ active \in DOMAIN rows => Read(active) = rows[active]
      /\ active \notin DOMAIN rows => Read(active) = <<>>
  BY <1>0, ReadIs DEF SessionsTyped, History
<1>4. Len(Read(active)) \in Nat /\ CompactKeep \in Nat /\ CompactAbove \in Nat /\ CompactKeep <= Len(Read(active))
  <2>1. CompactKeep \in Nat /\ CompactAbove \in Nat /\ CompactKeep <= CompactAbove
    BY BoundsType
  <2>2. Len(Read(active)) \in Nat
    BY <1>3, TalkType
  <2>3. QED
    BY <1>1, <2>1, <2>2
<1>5. /\ kept \in Seq(Talk(Turns)) /\ AskedIn(kept) \subseteq AskedIn(Read(active))
      /\ dropped \subseteq AskedIn(Read(active))
      /\ \A t : Told(Read(active), t) => t \in dropped \/ Told(kept, t)
  BY <1>3, <1>4, LastTalk, Zenon
<1>6. dropped \subseteq Turns
  <2>1. AskedIn(Read(active)) \subseteq Turns
    BY <1>3, AskedInTalk, Zenon
  <2>2. QED
    BY <1>5, <2>1
<1> HIDE DEF kept, dropped
<1>7. /\ comp' \in [0 .. MaxMessages -> Compaction]
      /\ comp'[c] = task /\ \A d \in 0 .. MaxMessages : d # c => comp'[d] = comp[d]
  <2>1. task \in Compaction
    BY <1>3, <1>5, <1>6 DEF Compaction, History
  <2>2. comp \in [0 .. MaxMessages -> Compaction]
    BY <1>0 DEF SessionsTyped
  <2> HIDE DEF task, Compaction
  <2>3. QED
    BY <1>1, <2>1, <2>2
<1>8. SessionsTyped'
  <2>1. Marked' \subseteq Turns
    BY <1>0, <1>1, <1>2 DEF SessionsTyped, Marked
  <2>2. comp' \in [0 .. MaxMessages -> Compaction']
    BY <1>1, <1>7 DEF Compaction
  <2>3. QED
    BY <1>0, <1>1, <2>1, <2>2 DEF SessionsTyped
<1>9. Stages'
  <2>1. \A d \in Turns : comp'[d].pc # "idle" => stage[d] = "compact"
    BY <1>0, <1>2, <1>7, NothingSaid DEF Stages
  <2>2. QED
    BY <1>0, <1>1, <1>2, <2>1 DEF Stages
<1>10. InFlight' = InFlight
  BY <1>1 DEF InFlight
<1>11. Alone'
  <2>1. CASE c = 0
    BY <1>2, <1>10, <2>1 DEF Alone
  <2>2. CASE c # 0
    BY <1>0, <1>2, <1>7, <1>10, <2>2, NothingSaid DEF Alone
  <2>3. QED
    BY <2>1, <2>2
<1>12. Own'
  <2>1. \A x \in AskedIn(Read(active)) : sid[x] = active
    BY <1>0, <1>3, NothingSaid DEF Own
  <2>2. \A d \in 0 .. MaxMessages : comp'[d].pc # "idle" => \A x \in AskedIn(comp'[d].kept) : sid[x] = comp'[d].sid
    <3>1. \A x \in AskedIn(comp'[c].kept) : sid[x] = comp'[c].sid
      BY <1>5, <1>7, <2>1
    <3>2. QED
      BY <1>0, <1>7, <3>1 DEF Own
  <2>3. QED
    BY <1>0, <1>1, <1>10, <2>2 DEF Own
<1>13. Kept'
  <2>1. ASSUME NEW x \in said \cap alone, x \notin unstored, sid[x] \notin deleted
        PROVE  /\ Present(x)
               /\ \A u \in InFlight : sid[u] = sid[x] => Told(held[u], x)
               /\ \A d \in 0 .. MaxMessages : comp'[d].pc # "idle" /\ comp'[d].sid = sid[x] =>
                     x \in comp'[d].dropped \/ Told(comp'[d].kept, x)
    <3>1. /\ Present(x)
          /\ \A u \in InFlight : sid[u] = sid[x] => Told(held[u], x)
          /\ \A d \in 0 .. MaxMessages : comp[d].pc # "idle" /\ comp[d].sid = sid[x] =>
                     x \in comp[d].dropped \/ Told(comp[d].kept, x)
      BY <1>0, <2>1 DEF Kept
    <3>2. active = sid[x] => x \in dropped \/ Told(kept, x)
      BY <1>3, <1>5, <3>1 DEF Present
    <3>3. QED
      BY <1>7, <3>1, <3>2
  <2>2. \A x : Present(x)' = Present(x)
    BY <1>1 DEF Present
  <2>3. \A x \in alone : stage[x] \in {"saved", "merge", "return"} =>
          Present(x) \/ x \in unstored \/ sid[x] \in deleted \/ IsNoReply(Last(held[x]))
    BY <1>0 DEF Kept
  <2>4. QED
    BY <1>1, <1>2, <1>10, <2>1, <2>2, <2>3 DEF Kept
<1>14. Remembered'
  <2>1. Excused' = Excused /\ Mentions(canonical') = Mentions(canonical) /\ canonical' = canonical
    BY <1>1 DEF Excused
  <2>2. QED
    BY <1>0, <1>1, <1>2, <2>1 DEF Remembered
<1>15. QED
  BY <1>8, <1>9, <1>11, <1>12, <1>13, <1>14 DEF SessionsInv

\* A compaction replaces the canonical session.
LEMMA SummaryKeeps ==
    ASSUME SessionsInv, NEW c \in 0 .. MaxMessages, StoreSummary(c)
    PROVE  SessionsInv'
<1>0. SessionsTyped /\ Stages /\ Alone /\ Own /\ Kept /\ Remembered
  BY DEF SessionsInv
<1>1. /\ comp[c].pc = "llm" /\ comp' = [comp EXCEPT ![c].pc = "save"] /\ replaced' = replaced \cup said
      /\ \E told \in {<<comp[c].dropped>>, <<>>} : canonical' = [messages |-> comp[c].kept, summary |-> told]
      /\ UNCHANGED <<rows, active, saved, stage, sid, held, before, copy, resetting,
                     alone, said, unstored, deleted, shrunk, faded, made>>
  BY DEF StoreSummary, turnVars, boundVars
<1>2. comp[c].kept \in History /\ comp[c].dropped \in SUBSET Turns /\ comp \in [0 .. MaxMessages -> Compaction]
  BY <1>0, CompactionIs DEF SessionsTyped
<1>3. canonical' \in CanonicalSession
  <2> DEFINE dropped == comp[c].dropped
  <2>1. dropped \in SUBSET Turns
    BY <1>2
  <2> HIDE DEF dropped
  <2>2. <<dropped>> \in Seq(SUBSET Turns) /\ <<>> \in Seq(SUBSET Turns)
    BY <2>1
  <2>3. PICK told \in {<<comp[c].dropped>>, <<>>} : canonical' = [messages |-> comp[c].kept, summary |-> told]
    BY <1>1
  <2>4. told \in Seq(SUBSET Turns)
    BY <2>2, <2>3 DEF dropped
  <2>5. QED
    BY <1>2, <2>3, <2>4 DEF CanonicalSession
<1>4. \A d \in 0 .. MaxMessages : /\ comp'[d].sid = comp[d].sid /\ comp'[d].kept = comp[d].kept
                                  /\ comp'[d].dropped = comp[d].dropped
                                  /\ comp'[d].pc = "idle" <=> comp[d].pc = "idle"
  BY <1>1, <1>2 DEF Compaction
<1>5. comp' \in [0 .. MaxMessages -> Compaction]
  BY <1>1, <1>2 DEF Compaction
<1>6. SessionsTyped'
  <2>1. Marked' \subseteq Turns
    BY <1>0, <1>1 DEF SessionsTyped, Marked
  <2>2. comp' \in [0 .. MaxMessages -> Compaction']
    BY <1>1, <1>5 DEF Compaction
  <2>3. QED
    BY <1>0, <1>1, <1>3, <2>1, <2>2 DEF SessionsTyped
<1>7. InFlight' = InFlight
  BY <1>1 DEF InFlight
<1>8. Stages' /\ Alone' /\ Own'
  BY <1>0, <1>1, <1>4, <1>7, NothingSaid DEF Stages, Alone, Own
<1>9. Kept'
  <2>1. \A x : Present(x)' = Present(x)
    BY <1>1 DEF Present
  <2>2. QED
    BY <1>0, <1>1, <1>4, <1>7, <2>1 DEF Kept
<1>10. Remembered'
  <2>1. Excused \subseteq Excused' /\ said \subseteq Excused'
    BY <1>1 DEF Excused
  <2>2. \A x \in alone : stage[x] # "return"
    BY <1>1, CompactingIs
  <2>3. QED
    BY <1>0, <1>1, <2>1, <2>2 DEF Remembered
<1>11. QED
  BY <1>6, <1>8, <1>9, <1>10 DEF SessionsInv

-----------------------------------------------------------------------------
(* Sessions: resets, new sessions and the crash keep the invariant *)

LEMMA DeleteKeeps ==
    ASSUME SessionsInv, ResetDelete
    PROVE  SessionsInv'
<1>0. SessionsTyped /\ Stages /\ Alone /\ Own /\ Kept /\ Remembered
  BY DEF SessionsInv
<1>1. /\ rows' = [s \in DOMAIN rows \ {active} |-> rows[s]] /\ deleted' = deleted \cup {active}
      /\ UNCHANGED <<canonical, active, saved, stage, sid, held, before, copy, comp,
                     alone, said, unstored, shrunk, faded, replaced, made>>
  BY DEF ResetDelete, turnVars
<1>2. DOMAIN rows' = DOMAIN rows \ {active} /\ \A s \in DOMAIN rows' : rows'[s] = rows[s]
  BY <1>1
<1>3. SessionsTyped'
  <2>1. DOMAIN rows' \subseteq 1 .. made /\ rows' \in [DOMAIN rows' -> History]
    BY <1>0, <1>1, <1>2 DEF SessionsTyped
  <2>2. QED
    BY <1>0, <1>1, <2>1 DEF SessionsTyped, Compaction, Marked
<1>4. Stages' /\ Alone' /\ Own' /\ Remembered'
  <2>1. InFlight' = InFlight /\ Mentions(canonical') = Mentions(canonical) /\ Excused' = Excused
    BY <1>1 DEF InFlight, Excused
  <2>2. Stages' /\ Alone'
    BY <1>0, <1>1, <2>1 DEF Stages, Alone
  <2>3. Own'
    BY <1>0, <1>1, <1>2, <2>1 DEF Own
  <2>4. canonical' = canonical
    BY <1>1
  <2>5. Remembered'
    BY <1>0, <1>1, <2>1, <2>4 DEF Remembered
  <2>6. QED
    BY <2>2, <2>3, <2>5
<1>5. Kept'
  <2>1. InFlight' = InFlight
    BY <1>1 DEF InFlight
  <2>2. \A x : sid[x] \notin deleted' /\ Present(x) => Present(x)'
    BY <1>1, <1>2 DEF Present
  <2>3. deleted \subseteq deleted'
    BY <1>1
  <2>4. QED
    BY <1>0, <1>1, <2>1, <2>2, <2>3 DEF Kept
<1>6. QED
  BY <1>3, <1>4, <1>5 DEF SessionsInv

LEMMA NewKeeps ==
    ASSUME SessionsInv, ResetCreate \/ CreateSession
    PROVE  SessionsInv'
<1>0. SessionsTyped /\ Stages /\ Alone /\ Own /\ Kept /\ Remembered
  BY DEF SessionsInv
<1>1. /\ made' = made + 1 /\ rows' = Saved(made + 1, <<>>) /\ active' = made + 1
      /\ UNCHANGED <<canonical, saved, stage, sid, held, before, copy, comp,
                     alone, said, unstored, deleted, shrunk, faded, replaced>>
  BY DEF ResetCreate, CreateSession, NewSession, turnVars, historyVars
<1>2. made \in Nat /\ 1 .. made \subseteq 1 .. (made + 1) /\ 0 .. made \subseteq 0 .. (made + 1)
      /\ made + 1 \in 1 .. (made + 1) /\ made + 1 \in Nat /\ made + 1 \notin 1 .. made /\ made + 1 \notin 0 .. made
  <2>1. made \in Nat
    BY <1>0 DEF SessionsTyped
  <2>2. QED
    BY <2>1
<1>3. /\ DOMAIN rows' = DOMAIN rows \cup {made + 1} /\ rows'[made + 1] = <<>>
      /\ \A x \in DOMAIN rows : rows'[x] = rows[x]
      /\ rows' \in [DOMAIN rows' -> History]
  <2> DEFINE n == made + 1
  <2>1. n \in Nat /\ <<>> \in History /\ n \notin DOMAIN rows
    BY <1>0, <1>2, NothingSaid DEF SessionsTyped
  <2>2. rows' = Saved(n, <<>>)
    BY <1>1
  <2> HIDE DEF n
  <2>3. /\ DOMAIN Saved(n, <<>>) = DOMAIN rows \cup {n} /\ Saved(n, <<>>)[n] = <<>>
        /\ \A x \in DOMAIN rows : x # n => Saved(n, <<>>)[x] = rows[x]
        /\ Saved(n, <<>>) \in [DOMAIN Saved(n, <<>>) -> History]
    BY <1>0, <2>1, SavedIs, Zenon
  <2>4. /\ DOMAIN rows' = DOMAIN rows \cup {n} /\ rows'[n] = <<>>
        /\ \A x \in DOMAIN rows : rows'[x] = rows[x]
        /\ rows' \in [DOMAIN rows' -> History]
    BY <2>1, <2>2, <2>3, Zenon
  <2>5. QED
    BY <2>4 DEF n
<1>4. SessionsTyped'
  <2>1. DOMAIN rows' \subseteq 1 .. made'
    BY <1>0, <1>1, <1>2, <1>3 DEF SessionsTyped
  <2>2. Compaction \subseteq Compaction'
    BY <1>1, <1>2 DEF Compaction
  <2>3. comp' \in [0 .. MaxMessages -> Compaction']
    BY <1>0, <1>1, <2>2 DEF SessionsTyped
  <2>4. Marked' \subseteq Turns
    BY <1>0, <1>1 DEF SessionsTyped, Marked
  <2>5. sid' \in [Turns -> 0 .. made']
    BY <1>0, <1>1, <1>2 DEF SessionsTyped
  <2>6. active' \in 1 .. made' /\ saved' \in 1 .. made' /\ made' \in Nat
    BY <1>0, <1>1, <1>2 DEF SessionsTyped
  <2>7. QED
    BY <1>0, <1>1, <1>3, <2>1, <2>3, <2>4, <2>5, <2>6 DEF SessionsTyped
<1>5. InFlight' = InFlight /\ Mentions(canonical') = Mentions(canonical) /\ Excused' = Excused /\ canonical' = canonical
  BY <1>1 DEF InFlight, Excused
<1>6. Stages' /\ Alone' /\ Remembered'
  <2>1. Stages' /\ Alone'
    BY <1>0, <1>1, <1>5 DEF Stages, Alone
  <2>2. Remembered'
    BY <1>0, <1>1, <1>5 DEF Remembered
  <2>3. QED
    BY <2>1, <2>2
<1>7. Own'
  <2>1. \A s \in DOMAIN rows' : \A x \in AskedIn(rows'[s]) : sid[x] = s
    BY <1>0, <1>3, NothingSaid DEF Own
  <2>2. QED
    BY <1>0, <1>1, <1>5, <2>1 DEF Own
<1>8. Kept'
  <2>1. \A x : Present(x) => Present(x)'
    BY <1>1, <1>3 DEF Present
  <2>2. QED
    BY <1>0, <1>1, <1>5, <2>1 DEF Kept
<1>9. QED
  BY <1>4, <1>6, <1>7, <1>8 DEF SessionsInv

LEMMA CrashKeeps ==
    ASSUME SessionsInv, Crash
    PROVE  SessionsInv'
<1>0. SessionsTyped /\ Stages /\ Alone /\ Own /\ Kept /\ Remembered
  BY DEF SessionsInv
<1>1. /\ active' = saved
      /\ stage' = [t \in Turns |-> IF stage[t] = "none" THEN "none" ELSE "done"]
      /\ held' = [t \in Turns |-> <<>>] /\ before' = [t \in Turns |-> 0]
      /\ copy' = [t \in Turns |-> NoCanonical]
      /\ comp' = [c \in 0 .. MaxMessages |-> NoCompaction]
      /\ UNCHANGED <<rows, canonical, saved, sid, alone, said, unstored, deleted, shrunk, faded, replaced, made>>
  BY DEF Crash, historyVars
<1>2. /\ \A t \in Turns : stage'[t] \in {"none", "done"} /\ (stage'[t] = "none" <=> stage[t] = "none")
      /\ InFlight' = {} /\ \A c \in 0 .. MaxMessages : comp'[c].pc = "idle"
  BY <1>1 DEF InFlight, NoCompaction
<1>3. SessionsTyped'
  <2>1. stage' \in [Turns -> {"none", "compact", "loop", "saved", "merge", "return", "done"}]
    BY <1>1
  <2>2. held' \in [Turns -> History] /\ before' \in [Turns -> Nat] /\ copy' \in [Turns -> CanonicalSession]
    BY <1>1, NothingSaid
  <2>3. NoCompaction \in Compaction
    <3>1. 1 <= made /\ made \in Nat
      BY <1>0 DEF SessionsTyped
    <3>2. QED
      BY <3>1, NothingSaid
  <2>4. comp' \in [0 .. MaxMessages -> Compaction']
    BY <1>1, <2>3 DEF Compaction
  <2>5. Marked' \subseteq Turns
    BY <1>0, <1>1 DEF SessionsTyped, Marked
  <2>6. QED
    BY <1>0, <1>1, <2>1, <2>2, <2>4, <2>5 DEF SessionsTyped
<1>4. alone \subseteq Turns /\ said \subseteq Turns
  BY <1>0 DEF SessionsTyped, Marked
<1>5. Stages'
  <2>1. \A c \in Turns : comp'[c].pc = "idle"
    BY <1>2, NothingSaid
  <2>2. \A t \in said : stage'[t] = "done"
    BY <1>0, <1>2, <1>4 DEF Stages
  <2>3. QED
    BY <1>0, <1>1, <1>2, <1>4, <2>1, <2>2 DEF Stages
<1>6. Alone' /\ Own'
  BY <1>0, <1>1, <1>2 DEF Alone, Own
<1>7. Kept'
  <2>1. \A x : Present(x)' = Present(x)
    BY <1>1 DEF Present
  <2>2. QED
    BY <1>0, <1>1, <1>2, <1>4, <2>1 DEF Kept
<1>8. Remembered'
  <2>1. Mentions(canonical') = Mentions(canonical) /\ Excused' = Excused /\ canonical' = canonical
    BY <1>1 DEF Excused
  <2>2. QED
    BY <1>0, <1>1, <1>2, <1>4, <2>1 DEF Remembered
<1>9. QED
  BY <1>3, <1>5, <1>6, <1>7, <1>8 DEF SessionsInv

\* SessionsInv is inductive: from every state of it, each step of a turn, of a
\* compaction, of the sessions and the crash leads to a state of it.
LEMMA SessionsNextKeeps ==
    ASSUME SessionsInv, SessionsNext
    PROVE  SessionsInv'
<1>1. ASSUME NEW t \in Turns, TurnStep(t) PROVE SessionsInv'
  <2>1. \/ BeginBlocking(t) \/ BeginStreaming(t)
        \/ CompactFails(t) \/ SaveProgress(t) \/ Answer(t) \/ AnswerCutOff(t) \/ Fail(t) \/ Drop(t)
        \/ LoadCanonical(t) \/ SaveCanonical(t) \/ Return(t)
    BY <1>1 DEF TurnStep
  <2>2. QED
    BY <2>1, BeginKeeps, FailsKeeps, ProgressKeeps, AnswerKeeps, EndsKeep, LoadKeeps, CanonicalKeeps, Zenon
<1>2. ASSUME NEW c \in 0 .. MaxMessages, CompactStep(c) PROVE SessionsInv'
  BY <1>2, NothingKeeps, SelectKeeps, SummaryKeeps, CompactedKeeps, StopsKeeps, Zenon DEF CompactStep
<1>3. QED
  BY <1>1, <1>2, DeleteKeeps, NewKeeps, EntryKeeps, CrashKeeps, Zenon DEF SessionsNext

\* In every reachable state the invariant holds, for every number of messages,
\* of sessions and of events, and every threshold.
THEOREM SessionsInvariant == SessionsSpec => []SessionsInv
<1>1. SessionsInv /\ [SessionsNext]_sessionVars => SessionsInv'
  BY SessionsNextKeeps, SessionsStutter
<1>2. QED
  BY SessionsInitInv, <1>1, PTL DEF SessionsSpec

\* A turn that was answered while nothing overlapped it stays in its session,
\* unless a compaction summarised it, its answer was a partial one that could
\* not be saved (agent_loop.rs:681), or the session was deleted; and no turn,
\* compaction, reset or switch ever puts a question into another session
\* (kernel.rs:2535, kernel.rs:2872, kernel.rs:3266).
THEOREM SessionsKeepWhatWasSaid == SessionsSpec => []SessionsHoldWhatWasSaid
<1>1. SessionsInv => SessionsHoldWhatWasSaid
  <2> SUFFICES ASSUME SessionsInv PROVE SessionsHoldWhatWasSaid
    OBVIOUS
  <2>1. SessionsTyped /\ Own /\ Kept
    BY DEF SessionsInv
  <2>2. ASSUME NEW t \in said \cap alone
        PROVE  t \in AskedIn(Read(sid[t])) \/ t \in unstored \/ sid[t] \in deleted
    <3>1. CASE Present(t)
      <4> DEFINE ms == rows[sid[t]]
      <4>1. sid[t] \in DOMAIN rows /\ Told(ms, t) /\ Read(sid[t]) = ms /\ ms \in Seq(Talk(Turns))
        BY <2>1, <3>1 DEF Present, Read, SessionsTyped, History
      <4> HIDE DEF ms
      <4>2. PICK i \in 1 .. (Len(ms) - 1) : Asks(ms[i], t)
        BY <4>1 DEF Told
      <4>3. i \in DOMAIN ms
        BY <4>1, TalkType
      <4>4. QED
        BY <4>1, <4>2, <4>3, AskedIs
    <3>2. QED
      BY <2>1, <3>1 DEF Kept
  <2>3. LossNeedsOverlap
    BY <2>2 DEF LossNeedsOverlap
  <2>4. SessionsKeepTheirOwn
    BY <2>1 DEF Own, SessionsKeepTheirOwn
  <2>5. QED
    BY <2>3, <2>4 DEF SessionsHoldWhatWasSaid
<1>2. QED
  BY SessionsInvariant, <1>1, PTL

\* A turn that was answered while nothing overlapped it is in the canonical
\* session, as a message or in the summary, unless a compaction replaced that
\* later, appending to it failed, the summary outgrew its limit, or the turn
\* pruned silent turns (kernel.rs:2794, kernel.rs:2796, session.rs:342).
THEOREM CanonicalRemembers == SessionsSpec => []RememberedAcrossSessions
<1>1. SessionsInv => RememberedAcrossSessions
  <2> SUFFICES ASSUME SessionsInv, NEW t \in said \cap alone
               PROVE  \/ t \in AskedIn(canonical.messages) \cup UNION ToSet(canonical.summary)
                      \/ t \in shrunk \cup faded \cup replaced
    BY DEF RememberedAcrossSessions
  <2>1. t \in Mentions(canonical) \cup Excused
    BY DEF SessionsInv, Remembered
  <2>2. QED
    BY <2>1 DEF Mentions, Excused
<1>2. QED
  BY SessionsInvariant, <1>1, PTL

-----------------------------------------------------------------------------
(* Sessions: the bounds of the type invariant *)

Bounded ==
    /\ events \in 0 .. MaxEvents /\ made \in SessionIds /\ resetting \in BOOLEAN
    /\ Len(canonical.messages) <= CanonicalAbove
    /\ \A c \in 0 .. MaxMessages : comp[c].pc # "idle" => Len(comp[c].kept) <= CanonicalAbove

LEMMA BoundedInit == SessionsInit => Bounded
<1> SUFFICES ASSUME SessionsInit PROVE Bounded
  OBVIOUS
<1>1. MaxEvents \in Nat /\ MaxSessions \in Nat \ {0} /\ CanonicalAbove \in Nat
  BY BoundsType
<1>2. events = 0 /\ made = 1 /\ resetting = FALSE /\ canonical.messages = <<>>
      /\ comp = [c \in 0 .. MaxMessages |-> NoCompaction]
  BY DEF SessionsInit, NoCanonical
<1>3. Len(canonical.messages) <= CanonicalAbove
  BY <1>1, <1>2, NothingSaid
<1>4. QED
  <2>1. \A c \in 0 .. MaxMessages : comp[c].pc = "idle"
    BY <1>2 DEF NoCompaction
  <2>2. events \in 0 .. MaxEvents /\ made \in SessionIds /\ resetting \in BOOLEAN
    <3>1. 0 \in 0 .. MaxEvents /\ 1 \in 1 .. MaxSessions
      BY <1>1
    <3>2. events = 0 /\ made = 1 /\ resetting = FALSE
      BY <1>2
    <3>3. QED
      BY <3>1, <3>2, Zenon DEF SessionIds
  <2>3. QED
    BY <1>3, <2>1, <2>2 DEF Bounded

\* Who does not begin a compaction, nor writes the canonical session.
LEMMA BoundedFrame ==
    ASSUME Bounded, events' \in 0 .. MaxEvents, made' \in SessionIds, resetting' \in BOOLEAN,
           canonical' = canonical,
           \A c \in 0 .. MaxMessages : comp'[c] = comp[c] \/ comp'[c].pc = "idle"
    PROVE  Bounded'
BY DEF Bounded

LEMMA BoundedKeeps ==
    ASSUME SessionsInv, Bounded, SessionsNext
    PROVE  Bounded'
<1> USE DEF turnVars, historyVars, boundVars
<1>0. /\ SessionsTyped /\ MaxEvents \in Nat /\ MaxSessions \in Nat /\ CanonicalAbove \in Nat
      /\ comp \in [0 .. MaxMessages -> Compaction]
      /\ events \in 0 .. MaxEvents /\ made \in SessionIds /\ resetting \in BOOLEAN
  BY BoundsType DEF SessionsInv, SessionsTyped, Bounded
<1>1. ASSUME NEW t \in Turns, TurnStep(t), ~ SaveCanonical(t) PROVE Bounded'
  <2>0. events' = events \/ (events < MaxEvents /\ events' = events + 1)
    BY <1>1 DEF TurnStep, BeginBlocking, BeginStreaming, Admit, CompactFails, SaveProgress, Answer, AnswerCutOff,
                Fail, Drop, LoadCanonical, Return, Event
  <2>1. UNCHANGED <<made, resetting, canonical>> /\ events' \in 0 .. MaxEvents
    <3>1. UNCHANGED <<made, resetting, canonical>>
      BY <1>1 DEF TurnStep, BeginBlocking, BeginStreaming, Admit, CompactFails, SaveProgress, Answer, AnswerCutOff,
                  Fail, Drop, LoadCanonical, Return
    <3>2. QED
      BY <1>0, <2>0, <3>1
  <2>2. comp' = comp \/ comp' = [comp EXCEPT ![t] = NoCompaction]
    BY <1>1 DEF TurnStep, BeginBlocking, BeginStreaming, Admit, CompactFails, SaveProgress, Answer, AnswerCutOff,
                Fail, Drop, LoadCanonical, Return
  <2>3. \A c \in 0 .. MaxMessages : comp'[c] = comp[c] \/ comp'[c].pc = "idle"
    <3>1. NoCompaction.pc = "idle"
      BY DEF NoCompaction
    <3>2. QED
      BY <1>0, <2>2, <3>1
  <2>4. QED
    BY <1>0, <2>1, <2>3, BoundedFrame
<1>2. ASSUME NEW t \in Turns, SaveCanonical(t) PROVE Bounded'
  <2> DEFINE ms == copy[t].messages \o SubSeq(held[t], before[t] + 1, Len(held[t]))
  <2>1. UNCHANGED <<made, resetting, comp>> /\ events' \in 0 .. MaxEvents
    <3>1. UNCHANGED <<made, resetting, comp>> /\ (events' = events \/ (events < MaxEvents /\ events' = events + 1))
      BY <1>2 DEF SaveCanonical, Event
    <3>2. QED
      BY <1>0, <3>1
  <2>2. \/ canonical' = canonical
        \/ Len(ms) <= CanonicalAbove /\ canonical' = [copy[t] EXCEPT !.messages = ms]
        \/ Len(ms) > CanonicalAbove /\ \E x : canonical' = [messages |-> LastN(ms, CanonicalWindow), summary |-> x]
    BY <1>2 DEF SaveCanonical
  <2>3. ms \in Seq(Talk(Turns)) /\ copy[t] \in CanonicalSession
    <3>1. held[t] \in Seq(Talk(Turns)) /\ before[t] \in Nat /\ copy[t] \in CanonicalSession
          /\ copy[t].messages \in Seq(Talk(Turns))
      BY <1>0 DEF SessionsTyped, CanonicalSession, History
    <3>2. SubSeq(held[t], before[t] + 1, Len(held[t])) \in Seq(Talk(Turns))
      BY <3>1, TailTalk
    <3>3. QED
      BY <3>1, <3>2, ConcatTalk
  <2> HIDE DEF ms
  <2>4. Len(canonical'.messages) <= CanonicalAbove
    <3>1. CASE canonical' = canonical
      BY <3>1 DEF Bounded
    <3>2. CASE Len(ms) <= CanonicalAbove /\ canonical' = [copy[t] EXCEPT !.messages = ms]
      BY <2>3, <3>2 DEF CanonicalSession
    <3>3. CASE Len(ms) > CanonicalAbove /\ \E x : canonical' = [messages |-> LastN(ms, CanonicalWindow), summary |-> x]
      <4>1. CanonicalWindow \in Nat /\ CanonicalWindow <= CanonicalAbove
        BY <1>0, BoundsType
      <4>2. Len(ms) \in Nat
        BY <2>3, TalkType
      <4>3. CanonicalWindow <= Len(ms)
        BY <1>0, <3>3, <4>1, <4>2
      <4>4. Len(LastN(ms, CanonicalWindow)) = CanonicalWindow
        BY <2>3, <4>1, <4>3, LastTalk, Zenon
      <4>5. QED
        BY <3>3, <4>1, <4>4
    <3>4. QED
      BY <2>2, <3>1, <3>2, <3>3
  <2>5. QED
    BY <1>0, <2>1, <2>4 DEF Bounded
<1>3. ASSUME NEW c \in 0 .. MaxMessages, CompactStep(c) PROVE Bounded'
  <2>1. UNCHANGED <<made, resetting>> /\ events' \in 0 .. MaxEvents
    <3>1. UNCHANGED <<made, resetting>> /\ (events' = events \/ (events < MaxEvents /\ events' = events + 1))
      BY <1>3 DEF CompactStep, CompactNothing, CompactRead, StoreSummary, SaveCompacted, CompactStops, Requested, Event
    <3>2. QED
      BY <1>0, <3>1
  <2>2. CASE CompactNothing(c)
    <3>1. canonical' = canonical /\ comp' = comp
      BY <2>2 DEF CompactNothing
    <3>2. QED
      BY <1>0, <2>1, <3>1, BoundedFrame
  <2>3. CASE SaveCompacted(c) \/ CompactStops(c)
    <3>1. canonical' = canonical /\ comp' = [comp EXCEPT ![c] = NoCompaction]
      BY <2>3 DEF SaveCompacted, CompactStops
    <3>2. \A d \in 0 .. MaxMessages : comp'[d] = comp[d] \/ comp'[d].pc = "idle"
      BY <1>0, <3>1 DEF NoCompaction
    <3>3. QED
      BY <1>0, <2>1, <3>1, <3>2, BoundedFrame
  <2>4. CASE StoreSummary(c)
    <3>1. /\ comp[c].pc = "llm" /\ comp' = [comp EXCEPT ![c].pc = "save"]
          /\ \E told : canonical' = [messages |-> comp[c].kept, summary |-> told]
      BY <2>4 DEF StoreSummary
    <3>2. \A d \in 0 .. MaxMessages : comp'[d].kept = comp[d].kept /\ (comp'[d].pc = "idle" <=> comp[d].pc = "idle")
      BY <1>0, <3>1 DEF Compaction
    <3>3. Len(canonical'.messages) <= CanonicalAbove
      BY <3>1 DEF Bounded
    <3>4. QED
      BY <1>0, <2>1, <3>2, <3>3 DEF Bounded
  <2>5. CASE CompactRead(c)
    <3> DEFINE kept == LastN(Read(active), CompactKeep)
    <3>1. /\ Len(Read(active)) > CompactAbove /\ canonical' = canonical
          /\ \E x : comp' = [comp EXCEPT ![c] = [pc |-> "llm", sid |-> active, kept |-> kept, dropped |-> x]]
      BY <2>5 DEF CompactRead
    <3>2. Read(active) \in Seq(Talk(Turns))
      BY <1>0, ReadIs DEF History
    <3>3. CompactKeep \in Nat /\ CompactKeep <= Len(Read(active)) /\ CompactKeep <= CanonicalAbove
      <4>1. Len(Read(active)) \in Nat
        BY <3>2, TalkType
      <4>2. CompactKeep \in Nat /\ CompactAbove \in Nat /\ CompactKeep <= CompactAbove /\ CompactKeep <= CanonicalAbove
        BY BoundsType
      <4>3. QED
        BY <3>1, <4>1, <4>2
    <3>4. Len(kept) <= CanonicalAbove
      <4>1. Len(kept) = CompactKeep
        BY <3>2, <3>3, LastTalk, Zenon
      <4>2. QED
        BY <3>3, <4>1
    <3> HIDE DEF kept
    <3>5. \A d \in 0 .. MaxMessages : comp'[d] = comp[d] \/ comp'[d].kept = kept
      BY <1>0, <3>1
    <3>6. QED
      BY <1>0, <2>1, <3>1, <3>4, <3>5 DEF Bounded
  <2>6. QED
    BY <1>3, <2>2, <2>3, <2>4, <2>5 DEF CompactStep
<1>4. ASSUME ResetDelete \/ ResetCreate \/ CreateSession \/ SaveEntry \/ (\E s \in SessionIds : SwitchSession(s)) \/ Crash
      PROVE  Bounded'
  <2>1. /\ canonical' = canonical
        /\ comp' = comp \/ comp' = [c \in 0 .. MaxMessages |-> NoCompaction]
        /\ resetting' \in BOOLEAN
        /\ made' = made \/ (made < MaxSessions /\ made' = made + 1)
        /\ events' = events \/ (events < MaxEvents /\ events' = events + 1)
    BY <1>0, <1>4 DEF ResetDelete, ResetCreate, CreateSession, NewSession, SaveEntry, SwitchSession, Crash, Event
  <2>2. made' \in SessionIds /\ events' \in 0 .. MaxEvents
    BY <1>0, <2>1 DEF SessionIds
  <2>3. \A d \in 0 .. MaxMessages : comp'[d] = comp[d] \/ comp'[d].pc = "idle"
    <3>1. NoCompaction.pc = "idle"
      BY DEF NoCompaction
    <3>2. QED
      BY <2>1, <3>1
  <2>4. QED
    BY <2>1, <2>2, <2>3, BoundedFrame
<1>5. QED
  BY <1>1, <1>2, <1>3, <1>4 DEF SessionsNext

\* Every session, copy and marker has its type; the canonical session stays
\* within its threshold, whatever turns and compactions write to it
\* (session.rs:420).
THEOREM SessionsTypeCorrect == SessionsSpec => []SessionsTypeOK
<1>1. Bounded /\ SessionsInv /\ [SessionsNext]_sessionVars => Bounded'
  <2>1. Bounded /\ UNCHANGED sessionVars => Bounded'
    BY DEF Bounded, sessionVars, boundVars
  <2>2. QED
    BY <2>1, BoundedKeeps
<1>2. SessionsInv /\ Bounded => SessionsTypeOK
  <2> SUFFICES ASSUME SessionsInv, Bounded PROVE SessionsTypeOK
    OBVIOUS
  <2>1. SessionsTyped
    BY DEF SessionsInv
  <2>2. \A ms \in History : IsSession(ms)
    <3>1. ASSUME NEW ms \in History PROVE IsSession(ms)
      <4>1. ms \in Seq(Talk(Turns))
        BY DEF History
      <4>2. DOMAIN ms = 1 .. Len(ms)
        BY <4>1, TalkType
      <4>3. QED
        BY <4>1, <4>2, AskedInTalk DEF IsSession
    <3>2. QED
      BY <3>1
  <2>3. made \in Nat /\ made \in SessionIds /\ MaxSessions \in Nat
    BY <2>1, BoundsType DEF SessionsTyped, Bounded
  <2>4. DOMAIN rows \subseteq SessionIds /\ \A s \in DOMAIN rows : IsSession(rows[s])
    BY <2>1, <2>2, <2>3 DEF SessionsTyped, SessionIds
  <2>5. IsSession(canonical.messages) /\ canonical.summary \in Seq(SUBSET Turns)
    BY <2>1, <2>2 DEF SessionsTyped, CanonicalSession
  <2>6. \A t \in Turns : IsSession(held[t])
    BY <2>1, <2>2 DEF SessionsTyped
  <2>7. \A c \in 0 .. MaxMessages : comp[c].pc \in {"idle", "llm", "save"} /\ comp[c].sid \in 1 .. made
    BY <2>1 DEF SessionsTyped, Compaction
  <2>8. QED
    BY <2>1, <2>3, <2>4, <2>5, <2>6, <2>7 DEF SessionsTypeOK, SessionsTyped, Bounded
<1>3. QED
  BY BoundedInit, SessionsInvariant, <1>1, <1>2, PTL DEF SessionsSpec

-----------------------------------------------------------------------------
(* AgentLoop: the inductive invariant *)

Session == Seq(Messages(Blocks))
PendingCall == [call : Calls, id : Nat]
Results == Seq([kind : {"result"}, id : Nat])
Asking(t) == User(<<TextBlock("text", t)>>)

TurnTyped ==
    /\ stored \in Session /\ work \in Session /\ turn \in Nat
    /\ pc \in {"idle", "loop", "llm", "tools"}
    /\ reply \in Replies
    /\ lastId \in Nat /\ calls \in Seq(PendingCall) /\ results \in Results
    /\ guard \in Guard /\ guard.breaker = CircuitBreaker
    /\ executed \in [Calls -> Nat]

\* The session of a turn extends the stored one and holds its question, and
\* says nothing silent since.
Extends(ms, base) == Len(base) <= Len(ms) /\ \A i \in 1 .. Len(base) : ms[i] = base[i]
SpeaksAfter(ms, n) == \A i \in 1 .. Len(ms) : i > n => ~ IsNoReply(ms[i])
Asked(ms, t) == \E q \in 1 .. Len(ms) : ms[q] = Asking(t) /\ SpeaksAfter(ms, q)
Opened == pc # "idle" => Extends(work, stored) /\ SpeaksAfter(work, Len(stored)) /\ Asked(work, turn)

AnswerKept == AnsweredIsStored /\ (reply = "answer" => pc = "idle")

\* Every execution was counted by the guard.
Counted ==
    /\ \A c \in Calls : executed[c] <= guard.counts[c] /\ executed[c] < BlockThreshold * Multiplier(c)
    /\ SumFunction(executed) <= guard.total /\ guard.total <= CircuitBreaker

TurnInv == TurnTyped /\ Opened /\ AnswerKept /\ Counted

-----------------------------------------------------------------------------
(* The guard *)

LEMMA LimitsAre ==
    ASSUME NEW c \in Calls
    PROVE  /\ BlockThreshold * Multiplier(c) \in Nat /\ 0 < BlockThreshold * Multiplier(c)
           /\ WarnThreshold * Multiplier(c) \in Nat
<1>1. /\ WarnThreshold \in Nat /\ BlockThreshold \in Nat /\ BlockThreshold # 0
      /\ Multiplier(c) \in Nat /\ Multiplier(c) # 0
  BY ThresholdsType DEF Multiplier
<1>2. \A a, b \in Nat : a * b \in Nat /\ (a # 0 /\ b # 0 => 0 < a * b)
  OBVIOUS
<1>3. QED
  BY <1>1, <1>2

LEMMA BreakerIs == CircuitBreaker \in Nat /\ NewGuard(CircuitBreaker) \in Guard
<1>1. CircuitBreaker \in Nat
  BY LimitsType DEF CircuitBreaker
<1>2. <<>> \in Seq(Calls)
  OBVIOUS
<1>3. QED
  BY <1>1, <1>2 DEF NewGuard, Guard

LEMMA RememberIs ==
    ASSUME NEW r \in Seq(Calls), NEW c \in Calls
    PROVE  Remember(r, c) \in Seq(Calls)
<1>1. HistorySize \in Nat /\ HistorySize # 0
  BY ThresholdsType
<1>2. Len(r) >= HistorySize => Tail(r) \in Seq(Calls)
  BY <1>1
<1>3. QED
  BY <1>2 DEF Remember

\* What check does: it counts every call that it does not break on, and lets
\* none through that was counted often enough.
LEMMA CheckIs ==
    ASSUME NEW g \in Guard, NEW c \in Calls
    PROVE  /\ Check(g, c).guard \in Guard /\ Check(g, c).guard.breaker = g.breaker
           /\ Check(g, c).guard.total = g.total + 1
           /\ Check(g, c).verdict \in {"allow", "warn", "block", "break"}
           /\ Check(g, c).verdict = "break" <=> g.total + 1 > g.breaker
           /\ Check(g, c).verdict # "break" => Check(g, c).guard.counts = [g.counts EXCEPT ![c] = @ + 1]
           /\ Check(g, c).verdict \in {"allow", "warn"} => g.counts[c] + 1 < BlockThreshold * Multiplier(c)
<1> DEFINE total == g.total + 1
           count == g.counts[c] + 1
           recent == Remember(g.recent, c)
           limit == BlockThreshold * Multiplier(c)
           soft == WarnThreshold * Multiplier(c)
           slow == count >= soft /\ count < limit
           ping == count < soft /\ count < limit /\ PingPong(recent) /\ Repeats(recent) < MinRepeats
           after == IF total > g.breaker THEN [g EXCEPT !.total = total]
                    ELSE [g EXCEPT !.total = total, !.counts[c] = count, !.recent = recent,
                                   !.warned[c] = IF slow THEN @ + 1 ELSE @,
                                   !.pingWarned[c] = IF ping THEN @ + 1 ELSE @]
           verdict == Verdict(g, c, total, count, recent)
<1>1. Check(g, c) = [verdict |-> verdict, guard |-> after]
  BY DEF Check
<1>2. Check(g, c).verdict = verdict /\ Check(g, c).guard = after
  BY <1>1
<1>3. /\ g.breaker \in Nat /\ g.total \in Nat /\ g.counts \in [Calls -> Nat] /\ g.recent \in Seq(Calls)
      /\ g.warned \in [Calls -> Nat] /\ g.pingWarned \in [Calls -> Nat]
      /\ g.counts[c] \in Nat /\ g.warned[c] \in Nat /\ g.pingWarned[c] \in Nat
  BY DEF Guard
<1>4. recent \in Seq(Calls)
  BY <1>3, RememberIs
<1>5. limit \in Nat /\ soft \in Nat
  BY LimitsAre
<1>6. /\ verdict \in {"allow", "warn", "block", "break"}
      /\ verdict = "break" <=> total > g.breaker
      /\ verdict \in {"allow", "warn"} => ~ (count >= limit)
  BY DEF Verdict
<1>7. verdict \in {"allow", "warn"} => count < limit
  <2> HIDE DEF limit, verdict
  <2>1. count \in Nat
    BY <1>3
  <2>2. QED
    BY <1>5, <1>6, <2>1
<1> HIDE DEF limit, soft, recent, verdict
<1>8. after \in Guard /\ after.breaker = g.breaker /\ after.total = total
  <2> HIDE DEF slow, ping
  <2>1. CASE total > g.breaker
    <3>1. after = [g EXCEPT !.total = total]
      BY <2>1
    <3> HIDE DEF after
    <3>2. total \in Nat
      BY <1>3
    <3>3. QED
      BY <3>1, <3>2 DEF Guard
  <2>2. CASE ~ (total > g.breaker)
    <3> DEFINE counts == [g.counts EXCEPT ![c] = count]
               warned == [g.warned EXCEPT ![c] = IF slow THEN @ + 1 ELSE @]
               pingWarned == [g.pingWarned EXCEPT ![c] = IF ping THEN @ + 1 ELSE @]
    <3>1. after = [g EXCEPT !.total = total, !.counts = counts, !.recent = recent,
                            !.warned = warned, !.pingWarned = pingWarned]
      BY <2>2 DEF Guard
    <3>2. counts \in [Calls -> Nat] /\ warned \in [Calls -> Nat] /\ pingWarned \in [Calls -> Nat] /\ total \in Nat
      BY <1>3
    <3> HIDE DEF after, counts, warned, pingWarned, total
    <3>3. QED
      BY <1>4, <3>1, <3>2 DEF Guard
  <2>3. QED
    BY <2>1, <2>2
<1>9. ~ (total > g.breaker) => after.counts = [g.counts EXCEPT ![c] = @ + 1]
  <2> HIDE DEF slow, ping
  <2>1. QED
    BY <1>3 DEF Guard
<1>10. QED
  BY <1>2, <1>6, <1>7, <1>8, <1>9 DEF limit

-----------------------------------------------------------------------------
(* The session of a turn *)

\* The messages that a turn adds.
LEMMA Adds ==
    /\ \A t \in Nat : Asking(t) \in Messages(Blocks) /\ Asking(t).role = "user" /\ ~ IsNoReply(Asking(t))
    /\ User(<<TextBlock("text", 0)>>) = Asking(0)
    /\ Assistant(<<TextBlock("text", 0)>>) \in Messages(Blocks)
    /\ Assistant(<<TextBlock("text", 0)>>).role = "assistant"
    /\ ~ IsNoReply(Assistant(<<TextBlock("text", 0)>>))
    /\ Assistant(<<TextBlock("noreply", 0)>>) \in Messages(Blocks)
<1>1. ASSUME NEW k \in {"text", "noreply"}, NEW t \in Nat
      PROVE  /\ <<TextBlock(k, t)>> \in Seq(Blocks)
             /\ Len(<<TextBlock(k, t)>>) = 1 /\ <<TextBlock(k, t)>>[1].kind = k
  <2> DEFINE b == TextBlock(k, t)
  <2>1. b \in Blocks /\ b.kind = k
    BY DEF TextBlock, Blocks
  <2> HIDE DEF b
  <2>2. <<b>> \in Seq(Blocks) /\ Len(<<b>>) = 1 /\ <<b>>[1] = b
    BY <2>1
  <2>3. QED
    BY <2>1, <2>2 DEF b
<1>2. QED
  BY <1>1 DEF Asking, User, Assistant, Messages, IsNoReply

LEMMA SessionIs ==
    ASSUME NEW ms \in Session
    PROVE  /\ Len(ms) \in Nat /\ DOMAIN ms = 1 .. Len(ms)
           /\ \A i \in 1 .. Len(ms) : ms[i] \in Messages(Blocks)
           /\ Extends(ms, ms) /\ SpeaksAfter(ms, Len(ms))
<1> DEFINE M == Messages(Blocks)
<1>1. ms \in Seq(M)
  BY DEF Session
<1> HIDE DEF M
<1>2. /\ Len(ms) \in Nat /\ DOMAIN ms = 1 .. Len(ms)
      /\ \A i \in 1 .. Len(ms) : ms[i] \in M
  BY <1>1
<1>3. QED
  BY <1>2 DEF M, Extends, SpeaksAfter

\* One message more.
LEMMA AppendIs ==
    ASSUME NEW ms \in Session, NEW m \in Messages(Blocks)
    PROVE  /\ Append(ms, m) \in Session /\ Len(Append(ms, m)) = Len(ms) + 1
           /\ Append(ms, m)[Len(ms) + 1] = m /\ \A i \in 1 .. Len(ms) : Append(ms, m)[i] = ms[i]
           /\ Last(Append(ms, m)) = m
<1> DEFINE M == Messages(Blocks)
<1>1. ms \in Seq(M) /\ m \in M
  BY DEF Session
<1> HIDE DEF M
<1>2. /\ Append(ms, m) \in Seq(M) /\ Len(Append(ms, m)) = Len(ms) + 1
      /\ Append(ms, m)[Len(ms) + 1] = m /\ \A i \in 1 .. Len(ms) : Append(ms, m)[i] = ms[i]
  BY <1>1
<1>3. QED
  BY <1>2 DEF M, Session, Last

LEMMA AppendSpeaks ==
    ASSUME NEW ms \in Session, NEW m \in Messages(Blocks), ~ IsNoReply(m)
    PROVE  /\ \A base \in Session : Extends(ms, base) => Extends(Append(ms, m), base)
           /\ \A n : SpeaksAfter(ms, n) => SpeaksAfter(Append(ms, m), n)
           /\ \A t : Asked(ms, t) => Asked(Append(ms, m), t)
<1> DEFINE r == Append(ms, m)
<1>1. /\ Len(ms) \in Nat /\ Len(r) = Len(ms) + 1 /\ r[Len(ms) + 1] = m
      /\ \A i \in 1 .. Len(ms) : r[i] = ms[i]
  BY SessionIs, AppendIs, Zenon
<1> HIDE DEF r
<1>2. ASSUME NEW base \in Session, Extends(ms, base) PROVE Extends(r, base)
  <2>1. Len(base) \in Nat
    BY SessionIs
  <2>2. QED
    BY <1>1, <1>2, <2>1 DEF Extends
<1>3. ASSUME NEW n, SpeaksAfter(ms, n) PROVE SpeaksAfter(r, n)
  <2>1. ASSUME NEW i \in 1 .. Len(r), i > n PROVE ~ IsNoReply(r[i])
    <3>1. i = Len(ms) + 1 \/ i \in 1 .. Len(ms)
      BY <1>1
    <3>2. CASE i = Len(ms) + 1
      BY <1>1, <3>2
    <3>3. CASE i \in 1 .. Len(ms)
      BY <1>1, <1>3, <2>1, <3>3 DEF SpeaksAfter
    <3>4. QED
      BY <3>1, <3>2, <3>3
  <2>2. QED
    BY <2>1 DEF SpeaksAfter
<1>4. ASSUME NEW t, Asked(ms, t) PROVE Asked(r, t)
  <2>1. PICK q \in 1 .. Len(ms) : ms[q] = Asking(t) /\ SpeaksAfter(ms, q)
    BY <1>4 DEF Asked
  <2>2. q \in 1 .. Len(r) /\ r[q] = Asking(t) /\ SpeaksAfter(r, q)
    BY <1>1, <1>3, <2>1
  <2>3. QED
    BY <2>2 DEF Asked
<1>5. QED
  BY <1>2, <1>3, <1>4 DEF r

\* The pruning keeps a question that is not followed by a silent answer, and
\* the last message if that is an answer.
LEMMA PruneKeeps ==
    ASSUME NEW ms \in Session
    PROVE  /\ PruneHeartbeatTurns(ms) \in Session
           /\ \A i \in 1 .. Len(ms) : ms[i].role = "user" /\ (i < Len(ms) => ~ IsNoReply(ms[i + 1])) =>
                  ms[i] \in ToSet(PruneHeartbeatTurns(ms))
           /\ ms # <<>> /\ ms[Len(ms)].role = "assistant" /\ ~ IsNoReply(ms[Len(ms)]) =>
                  PruneHeartbeatTurns(ms) # <<>> /\ Last(PruneHeartbeatTurns(ms)) = ms[Len(ms)]
<1> DEFINE M == Messages(Blocks)
           silent == {i \in 1 .. (Len(ms) - KeepRecent) : ms[i].role = "assistant" /\ IsNoReply(ms[i])}
           asked == {i - 1 : i \in {k \in silent : k > 1 /\ ms[k - 1].role = "user"}}
           I == DOMAIN ms \ (silent \cup asked)
           r == Retain(ms, I)
<1>1. PruneHeartbeatTurns(ms) = r
  BY DEF PruneHeartbeatTurns
<1>2. Len(ms) \in Nat /\ DOMAIN ms = 1 .. Len(ms) /\ KeepRecent \in Nat /\ Len(ms) - KeepRecent \in Int /\ ms \in Seq(M)
  <2>1. Len(ms) \in Nat /\ DOMAIN ms = 1 .. Len(ms) /\ KeepRecent \in Nat
    BY SessionIs, KeepsType
  <2>2. ms \in Seq(M)
    BY DEF Session
  <2>3. QED
    BY <2>1, <2>2
<1>3. /\ r \in Seq(M) /\ \A i \in 1 .. Len(ms) : i \in I => \E k \in 1 .. Len(r) : r[k] = ms[i]
      /\ Len(ms) \in I /\ ms # <<>> => r # <<>> /\ r[Len(r)] = ms[Len(ms)]
  <2> HIDE DEF I, M
  <2>1. r \in Seq(M) /\ \A i \in 1 .. Len(ms) : i \in I => \E k \in 1 .. Len(r) : r[k] = ms[i]
    <3>1. ms \in Seq(M)
      BY <1>2
    <3>2. /\ Retain(ms, I) \in Seq(M)
          /\ \A i \in 1 .. Len(ms) : i \in I =>
                \E k \in 1 .. Len(Retain(ms, I)) : Retain(ms, I)[k] = ms[i]
      BY <3>1, RetainElements
    <3>3. QED
      BY <3>2
  <2>2. Len(ms) \in I /\ ms # <<>> => r # <<>> /\ r[Len(r)] = ms[Len(ms)]
    BY <1>2, RetainNeighbours
  <2>3. QED
    BY <2>1, <2>2
<1>4. ASSUME NEW i \in 1 .. Len(ms), ms[i].role = "user", i < Len(ms) => ~ IsNoReply(ms[i + 1])
      PROVE  i \in I
  <2>1. i \notin silent
    BY <1>4
  <2>2. ASSUME NEW k \in silent, i = k - 1 PROVE FALSE
    <3>1. k = i + 1 /\ i < Len(ms)
      BY <1>2, <2>2
    <3>2. QED
      BY <1>4, <2>2, <3>1
  <2>3. i \notin asked
    BY <2>2
  <2>4. QED
    BY <1>2, <2>1, <2>3
<1>5. ASSUME ms # <<>>, ms[Len(ms)].role = "assistant", ~ IsNoReply(ms[Len(ms)]) PROVE Len(ms) \in I
  <2>1. Len(ms) \in DOMAIN ms
    <3>1. Len(ms) # 0
      <4> HIDE DEF M
      <4>1. QED
        BY <1>2, <1>5
    <3>2. QED
      BY <1>2, <3>1
  <2>2. Len(ms) \notin silent
    BY <1>5
  <2>3. \A k \in silent : Len(ms) # k - 1
    BY <1>2
  <2>4. Len(ms) \notin asked
    BY <2>3
  <2>5. QED
    BY <2>1, <2>2, <2>4
<1> HIDE DEF I, M
<1>6. ASSUME NEW i \in 1 .. Len(ms), ms[i].role = "user", i < Len(ms) => ~ IsNoReply(ms[i + 1])
      PROVE  ms[i] \in ToSet(r)
  <2>1. PICK k \in 1 .. Len(r) : r[k] = ms[i]
    BY <1>3, <1>4, <1>6
  <2> HIDE DEF r
  <2>2. DOMAIN r = 1 .. Len(r)
    BY <1>3
  <2>3. QED
    BY <2>1, <2>2 DEF ToSet
<1>7. QED
  BY <1>1, <1>3, <1>5, <1>6 DEF Session, M, Last

-----------------------------------------------------------------------------
(* AgentLoop: each action keeps the invariant *)

LEMMA TurnInit == Init => TurnInv
<1> SUFFICES ASSUME Init PROVE TurnInv
  OBVIOUS
<1>1. CircuitBreaker \in Nat /\ NewGuard(CircuitBreaker) \in Guard
  BY BreakerIs
<1>2. <<>> \in Session /\ <<>> \in Seq(PendingCall) /\ <<>> \in Results
  <2> DEFINE M == Messages(Blocks)
             R == [kind : {"result"}, id : Nat]
  <2> HIDE DEF M, R
  <2>1. <<>> \in Seq(M) /\ <<>> \in Seq(PendingCall) /\ <<>> \in Seq(R)
    OBVIOUS
  <2>2. QED
    BY <2>1 DEF Session, Results, M, R
<1>3. /\ guard = NewGuard(CircuitBreaker) /\ executed = [c \in Calls |-> 0] /\ pc = "idle" /\ reply = "none"
      /\ stored = <<>> /\ work = <<>> /\ calls = <<>> /\ results = <<>> /\ turn = 0 /\ lastId = 0
  BY DEF Init
<1>4. guard.breaker = CircuitBreaker /\ guard.total = 0 /\ \A c \in Calls : guard.counts[c] = 0
  BY <1>3 DEF NewGuard
<1>5. TurnTyped
  BY <1>1, <1>2, <1>3, <1>4 DEF TurnTyped, Replies
<1>6. Opened /\ AnswerKept
  BY <1>3 DEF Opened, AnswerKept, AnsweredIsStored
<1>7. Counted
  <2>1. SumFunction(executed) = 0
    BY <1>3, CallsFinite, SumZero
  <2>2. \A c \in Calls : executed[c] = 0
    BY <1>3
  <2>3. QED
    BY <1>1, <1>4, <2>1, <2>2, LimitsAre DEF Counted
<1>8. QED
  BY <1>5, <1>6, <1>7 DEF TurnInv

\* A turn ends, and only an answer that is stored is one.
LEMMA EndKeeps ==
    ASSUME TurnInv, NEW r \in Replies, EndTurn(r), stored' \in Session,
           r = "answer" => /\ stored' # <<>> /\ Last(stored') = Assistant(<<TextBlock("text", 0)>>)
                           /\ Asking(turn) \in ToSet(stored')
    PROVE  TurnInv'
<1>1. CircuitBreaker \in Nat /\ NewGuard(CircuitBreaker) \in Guard
  BY BreakerIs
<1>2. <<>> \in Session /\ <<>> \in Seq(PendingCall) /\ <<>> \in Results
  <2> DEFINE M == Messages(Blocks)
             R == [kind : {"result"}, id : Nat]
  <2> HIDE DEF M, R
  <2>1. <<>> \in Seq(M) /\ <<>> \in Seq(PendingCall) /\ <<>> \in Seq(R)
    OBVIOUS
  <2>2. QED
    BY <2>1 DEF Session, Results, M, R
<1>3. /\ guard' = NewGuard(CircuitBreaker) /\ executed' = [c \in Calls |-> 0] /\ pc' = "idle" /\ reply' = r
      /\ work' = <<>> /\ calls' = <<>> /\ results' = <<>> /\ turn' = turn /\ lastId' = lastId
  BY DEF EndTurn
<1>4. guard'.breaker = CircuitBreaker /\ guard'.total = 0 /\ \A c \in Calls : guard'.counts[c] = 0
  BY <1>3 DEF NewGuard
<1>5. TurnTyped'
  BY <1>1, <1>2, <1>3, <1>4 DEF TurnInv, TurnTyped
<1>6. Opened' /\ AnswerKept'
  BY <1>3 DEF Opened, AnswerKept, AnsweredIsStored, Asking
<1>7. Counted'
  <2>1. SumFunction(executed') = 0
    BY <1>3, CallsFinite, SumZero
  <2>2. \A c \in Calls : executed'[c] = 0
    BY <1>3
  <2>3. QED
    BY <1>1, <1>4, <2>1, <2>2, LimitsAre DEF Counted
<1>8. QED
  BY <1>5, <1>6, <1>7 DEF TurnInv

\* A turn goes on, without a call.
LEMMA StayKeeps ==
    ASSUME TurnInv, pc # "idle", pc' \in {"loop", "llm", "tools"}, turn' = turn, reply' = reply,
           stored' \in Session, work' \in Session,
           Extends(work', stored'), SpeaksAfter(work', Len(stored')), Asked(work', turn),
           calls' \in Seq(PendingCall), results' \in Results, lastId' \in Nat, guard' = guard, executed' = executed
    PROVE  TurnInv'
<1>1. TurnTyped'
  BY DEF TurnInv, TurnTyped
<1>2. Opened'
  BY DEF Opened
<1>3. AnswerKept'
  BY DEF TurnInv, AnswerKept, AnsweredIsStored
<1>4. Counted'
  BY DEF TurnInv, Counted
<1>5. QED
  BY <1>1, <1>2, <1>3, <1>4 DEF TurnInv

LEMMA OpenIs ==
    ASSUME TurnInv, pc # "idle"
    PROVE  /\ work \in Session /\ stored \in Session /\ turn \in Nat /\ lastId \in Nat
           /\ Extends(work, stored) /\ SpeaksAfter(work, Len(stored)) /\ Asked(work, turn)
           /\ calls \in Seq(PendingCall) /\ results \in Results
BY DEF TurnInv, TurnTyped, Opened

LEMMA BeginTurnKeeps ==
    ASSUME TurnInv, Begin
    PROVE  TurnInv'
<1> DEFINE question == Asking(turn + 1)
<1>1. /\ pc = "idle" /\ turn' = turn + 1 /\ work' = Append(stored, question) /\ pc' = "loop" /\ reply' = "none"
      /\ UNCHANGED <<stored, guard, calls, results, lastId, executed>>
  BY DEF Begin, Asking
<1>2. stored \in Session /\ turn \in Nat /\ turn + 1 \in Nat
  BY DEF TurnInv, TurnTyped
<1>3. question \in Messages(Blocks) /\ ~ IsNoReply(question)
  BY <1>2, Adds
<1>4. /\ work' \in Session /\ Len(work') = Len(stored) + 1 /\ work'[Len(stored) + 1] = question
      /\ \A i \in 1 .. Len(stored) : work'[i] = stored[i]
      /\ Len(stored) \in Nat
  BY <1>1, <1>2, <1>3, AppendIs, SessionIs
<1> HIDE DEF question
<1>5. Extends(work', stored) /\ SpeaksAfter(work', Len(stored))
  <2>1. \A i \in 1 .. Len(work') : i > Len(stored) => i = Len(stored) + 1
    BY <1>4
  <2>2. QED
    BY <1>3, <1>4, <2>1 DEF Extends, SpeaksAfter
<1>6. Asked(work', turn + 1)
  <2>1. Len(work') \in 1 .. Len(work') /\ Len(work') = Len(stored) + 1
    BY <1>4
  <2>2. SpeaksAfter(work', Len(work'))
    BY <1>4, SessionIs
  <2>3. QED
    BY <1>4, <2>1, <2>2 DEF Asked, question
<1>7. TurnTyped'
  BY <1>1, <1>2, <1>4 DEF TurnInv, TurnTyped, Replies
<1>8. Opened'
  BY <1>1, <1>5, <1>6 DEF Opened
<1>9. AnswerKept' /\ Counted'
  BY <1>1 DEF TurnInv, AnswerKept, AnsweredIsStored, Counted
<1>10. QED
  BY <1>7, <1>8, <1>9 DEF TurnInv

\* The actions that neither save nor extend the session.
LEMMA RequestKeeps ==
    ASSUME TurnInv, SendRequest \/ RetryRequest \/ AnswerEmptyFirst
    PROVE  TurnInv'
<1>1. /\ pc # "idle" /\ pc' \in {"loop", "llm", "tools"}
      /\ UNCHANGED <<stored, turn, work, guard, calls, results, lastId, reply, executed>>
  BY DEF SendRequest, RetryRequest, AnswerEmptyFirst, NextIteration, history
<1>2. QED
  BY <1>1, OpenIs, StayKeeps

\* The actions that end a turn without an answer.
LEMMA FailureKeeps ==
    ASSUME TurnInv, GiveUp \/ RequestFails \/ AnswerSilent \/ AnswerPartialLast \/ CircuitBreak \/ Abort
    PROVE  TurnInv'
<1> DEFINE silent == Append(work, Assistant(<<TextBlock("noreply", 0)>>))
           partial == Append(work, Assistant(<<TextBlock("text", 0)>>))
<1>1. work \in Session /\ stored \in Session /\ silent \in Session /\ partial \in Session
  BY Adds, AppendIs DEF TurnInv, TurnTyped
<1>2. \E r \in {"error", "silent", "partial", "aborted"} : EndTurn(r) /\ stored' \in {stored, work, silent, partial}
  <2>1. CASE GiveUp
    BY <2>1 DEF GiveUp, Save
  <2>2. CASE RequestFails
    BY <2>2 DEF RequestFails
  <2>3. CASE AnswerSilent
    BY <2>3 DEF AnswerSilent, Save
  <2>4. CASE AnswerPartialLast
    BY <2>4 DEF AnswerPartialLast, Save
  <2>5. CASE CircuitBreak
    BY <2>5 DEF CircuitBreak, Save
  <2>6. CASE Abort
    BY <2>6 DEF Abort
  <2>7. QED
    BY <2>1, <2>2, <2>3, <2>4, <2>5, <2>6
<1> HIDE DEF silent, partial
<1>3. PICK r \in {"error", "silent", "partial", "aborted"} : EndTurn(r) /\ stored' \in {stored, work, silent, partial}
  BY <1>2
<1>4. r \in Replies /\ r # "answer" /\ stored' \in Session
  BY <1>1, <1>3 DEF Replies
<1>5. QED
  BY <1>3, <1>4, EndKeeps

\* The answer: what is stored with it.
LEMMA TextKeeps ==
    ASSUME TurnInv, AnswerText
    PROVE  TurnInv'
<1> DEFINE answer == Assistant(<<TextBlock("text", 0)>>)
           whole == Append(work, answer)
           pruned == PruneHeartbeatTurns(whole)
<1>1. PICK ok \in BOOLEAN : Save(pruned, ok) /\ EndTurn(IF ok THEN "answer" ELSE "error")
  BY DEF AnswerText
<1>2. pc # "idle"
  BY DEF AnswerText
<1>3. answer \in Messages(Blocks) /\ answer.role = "assistant" /\ ~ IsNoReply(answer)
  BY Adds
<1>4. /\ whole \in Session /\ Len(whole) = Len(work) + 1 /\ whole[Len(work) + 1] = answer /\ Len(work) \in Nat
      /\ Asked(whole, turn)
  BY <1>2, <1>3, OpenIs, AppendIs, AppendSpeaks, SessionIs
<1>5. whole # <<>> /\ whole[Len(whole)] = answer
  <2>1. Len(whole) # 0
    BY <1>4
  <2>2. Len(<<>>) = 0
    OBVIOUS
  <2>3. whole # <<>>
    BY <2>1, <2>2
  <2>4. QED
    BY <1>4, <2>3
<1> HIDE DEF answer, whole
<1>6. pruned \in Session /\ pruned # <<>> /\ Last(pruned) = answer
  BY <1>3, <1>4, <1>5, PruneKeeps
<1>7. Asking(turn) \in ToSet(pruned)
  <2>1. PICK q \in 1 .. Len(whole) : whole[q] = Asking(turn) /\ SpeaksAfter(whole, q)
    BY <1>4 DEF Asked
  <2>2. q < Len(whole) => ~ IsNoReply(whole[q + 1])
    <3>1. q < Len(whole) => q + 1 \in 1 .. Len(whole) /\ q + 1 > q
      BY <1>4
    <3>2. QED
      BY <2>1, <3>1 DEF SpeaksAfter
  <2>3. Asking(turn).role = "user"
    BY Adds DEF TurnInv, TurnTyped
  <2>4. QED
    BY <1>4, <2>1, <2>2, <2>3, PruneKeeps
<1> HIDE DEF pruned
<1>8. CASE ok
  BY <1>1, <1>6, <1>7, <1>8, EndKeeps DEF Save, Replies, answer
<1>9. CASE ~ ok
  BY <1>1, <1>2, <1>9, OpenIs, EndKeeps DEF Save, Replies
<1>10. QED
  BY <1>8, <1>9

\* The actions that extend the session and go on.
LEMMA ExtendKeeps ==
    ASSUME TurnInv, pc # "idle", NEW m \in Messages(Blocks), ~ IsNoReply(m)
    PROVE  /\ Append(work, m) \in Session
           /\ Extends(Append(work, m), stored) /\ SpeaksAfter(Append(work, m), Len(stored)) /\ Asked(Append(work, m), turn)
           /\ Extends(Append(work, m), Append(work, m)) /\ SpeaksAfter(Append(work, m), Len(Append(work, m)))
<1>1. /\ work \in Session /\ stored \in Session
      /\ Extends(work, stored) /\ SpeaksAfter(work, Len(stored)) /\ Asked(work, turn)
  BY OpenIs
<1>2. Append(work, m) \in Session
  BY <1>1, AppendIs
<1>3. Extends(Append(work, m), stored) /\ SpeaksAfter(Append(work, m), Len(stored)) /\ Asked(Append(work, m), turn)
  BY <1>1, AppendSpeaks
<1>4. Extends(Append(work, m), Append(work, m)) /\ SpeaksAfter(Append(work, m), Len(Append(work, m)))
  BY <1>2, SessionIs
<1>5. QED
  BY <1>2, <1>3, <1>4

LEMMA BuiltSequence ==
    ASSUME NEW B, NEW n \in Nat, NEW c, c = [k \in 1 .. n |-> c[k]], \A k \in 1 .. n : c[k] \in B
    PROVE  c \in Seq(B) /\ Len(c) = n
<1>1. c \in [1 .. n -> B]
  OBVIOUS
<1>2. QED
  BY <1>1

LEMMA ToolUseKeeps ==
    ASSUME TurnInv, AnswerToolUse
    PROVE  TurnInv'
<1>1. PICK n \in 0 .. MaxCallsPerResponse, bare \in BOOLEAN :
        \E cs \in [1 .. n -> UsedCalls] :
         /\ lastId + n <= MaxCalls
         /\ calls' = [k \in 1 .. n |-> [call |-> cs[k], id |-> lastId + k]]
         /\ lastId' = lastId + n
         /\ work' = Append(work, Assistant(IF bare THEN <<>> ELSE [k \in 1 .. n |-> UseBlock(lastId + k)]))
  BY DEF AnswerToolUse
<1>2. PICK cs \in [1 .. n -> UsedCalls] :
         /\ calls' = [k \in 1 .. n |-> [call |-> cs[k], id |-> lastId + k]]
         /\ lastId' = lastId + n
         /\ work' = Append(work, Assistant(IF bare THEN <<>> ELSE [k \in 1 .. n |-> UseBlock(lastId + k)]))
  BY <1>1
<1>3. pc = "llm" /\ results' = <<>> /\ pc' = "tools" /\ UNCHANGED <<stored, turn, guard, reply, executed>>
  BY DEF AnswerToolUse, history
<1>4. n \in Nat /\ lastId \in Nat /\ UsedCalls \subseteq Calls
  <2>1. MaxCallsPerResponse \in Nat
    BY LimitsType
  <2>2. QED
    BY <1>3, <2>1, OpenIs, UsedCallsType
<1>5. calls' \in Seq(PendingCall)
  <2>1. \A k \in 1 .. n : [call |-> cs[k], id |-> lastId + k] \in PendingCall
    BY <1>4 DEF PendingCall
  <2>2. QED
    BY <1>2, <1>4, <2>1
<1> DEFINE content == IF bare THEN <<>> ELSE [k \in 1 .. n |-> UseBlock(lastId + k)]
<1>6. content \in Seq(Blocks) /\ (Len(content) = 1 => content[1].kind = "use")
  <2>1. CASE bare
    <3>1. content = <<>>
      BY <2>1
    <3> HIDE DEF content
    <3>2. QED
      BY <3>1
  <2>2. CASE ~ bare
    <3>1. \A k \in 1 .. n : UseBlock(lastId + k) \in Blocks /\ UseBlock(lastId + k).kind = "use"
      BY <1>4 DEF UseBlock, Blocks
    <3>2. content = [k \in 1 .. n |-> UseBlock(lastId + k)]
      BY <2>2
    <3> HIDE DEF content
    <3>3. content = [k \in 1 .. n |-> content[k]] /\ \A k \in 1 .. n : content[k] \in Blocks
      <4> DEFINE u(k) == UseBlock(lastId + k)
      <4>1. content = [k \in 1 .. n |-> u(k)] /\ \A k \in 1 .. n : u(k) \in Blocks
        BY <3>1, <3>2
      <4> HIDE DEF u
      <4>2. QED
        BY <4>1
    <3>3a. content \in Seq(Blocks) /\ Len(content) = n
      BY <1>4, <3>3, BuiltSequence
    <3>4. n = 1 => content[1].kind = "use"
      BY <3>1, <3>2
    <3>5. QED
      BY <3>3a, <3>4
  <2>3. QED
    BY <2>1, <2>2
<1>7. work' = Append(work, Assistant(content))
  BY <1>2
<1> HIDE DEF content
<1>8. Assistant(content) \in Messages(Blocks) /\ ~ IsNoReply(Assistant(content))
  BY <1>6 DEF Assistant, Messages, IsNoReply
<1>9. /\ work' \in Session /\ Extends(work', stored) /\ SpeaksAfter(work', Len(stored)) /\ Asked(work', turn)
      /\ stored \in Session
  BY <1>3, <1>7, <1>8, ExtendKeeps, OpenIs
<1>10. results' \in Results /\ lastId' \in Nat
  <2> DEFINE R == [kind : {"result"}, id : Nat]
  <2> HIDE DEF R
  <2>1. <<>> \in Seq(R)
    OBVIOUS
  <2>2. QED
    BY <1>2, <1>3, <1>4, <2>1 DEF Results, R
<1>11. QED
  BY <1>3, <1>5, <1>9, <1>10, StayKeeps

\* The message with the results of a response.
LEMMA ResultsAreSaid ==
    ASSUME NEW rs \in Results
    PROVE  User(rs) \in Messages(Blocks) /\ ~ IsNoReply(User(rs))
<1>1. rs \in Seq(Blocks) /\ (Len(rs) = 1 => rs[1].kind = "result")
  <2> DEFINE R == [kind : {"result"}, id : Nat]
  <2>1. R \subseteq Blocks /\ \A b \in R : b.kind = "result"
    BY DEF Blocks
  <2>2. rs \in Seq(R)
    BY DEF Results
  <2> HIDE DEF R
  <2>3. rs \in Seq(Blocks) /\ (Len(rs) = 1 => rs[1] \in R)
    BY <2>1, <2>2
  <2>4. QED
    BY <2>1, <2>3
<1>2. QED
  BY <1>1 DEF User, Messages, IsNoReply

LEMMA DoneKeeps ==
    ASSUME TurnInv, CallsDone
    PROVE  TurnInv'
<1>1. /\ pc = "tools" /\ pc' = "loop" /\ work' = Append(work, User(results))
      /\ \E ok \in BOOLEAN : Save(Append(work, User(results)), ok)
      /\ UNCHANGED <<turn, guard, calls, results, lastId, reply, executed>>
  BY DEF CallsDone, NextIteration
<1>2. results \in Results /\ calls \in Seq(PendingCall) /\ lastId \in Nat /\ stored \in Session
  BY <1>1, OpenIs
<1>3. User(results) \in Messages(Blocks) /\ ~ IsNoReply(User(results))
  BY <1>2, ResultsAreSaid
<1>4. /\ work' \in Session /\ Extends(work', stored) /\ SpeaksAfter(work', Len(stored)) /\ Asked(work', turn)
      /\ Extends(work', work') /\ SpeaksAfter(work', Len(work'))
  BY <1>1, <1>3, ExtendKeeps
<1>5. stored' = stored \/ stored' = work'
  BY <1>1 DEF Save
<1>6. stored' \in Session /\ Extends(work', stored') /\ SpeaksAfter(work', Len(stored'))
  BY <1>2, <1>4, <1>5
<1>7. QED
  BY <1>1, <1>2, <1>4, <1>6, StayKeeps

LEMMA PartialKeeps ==
    ASSUME TurnInv, NEW blank \in BOOLEAN, AnswerPartial(blank)
    PROVE  TurnInv'
<1> DEFINE a == Assistant(<<TextBlock("text", 0)>>)
           u == User(<<TextBlock("text", 0)>>)
<1>1. /\ pc = "llm" /\ pc' = "loop"
      /\ work' = work \o ((IF blank THEN <<>> ELSE <<a>>) \o <<u>>)
      /\ UNCHANGED <<stored, turn, guard, calls, results, lastId, reply, executed>>
  BY DEF AnswerPartial, NextIteration, history
<1>2. a \in Messages(Blocks) /\ ~ IsNoReply(a) /\ u \in Messages(Blocks) /\ ~ IsNoReply(u)
  BY Adds
<1> HIDE DEF a, u
<1>3. work' = IF blank THEN Append(work, u) ELSE Append(Append(work, a), u)
  <2> DEFINE M == Messages(Blocks)
  <2>1. work \in Seq(M) /\ a \in M /\ u \in M
    BY <1>1, <1>2, OpenIs DEF Session
  <2> HIDE DEF M
  <2>2. work \o (<<>> \o <<u>>) = Append(work, u)
    BY <2>1
  <2>3. work \o (<<a>> \o <<u>>) = Append(Append(work, a), u)
    BY <2>1
  <2>4. QED
    BY <1>1, <2>2, <2>3
<1>4. work' \in Session /\ Extends(work', stored) /\ SpeaksAfter(work', Len(stored)) /\ Asked(work', turn)
  <2>1. CASE blank
    BY <1>1, <1>2, <1>3, <2>1, ExtendKeeps
  <2>2. CASE ~ blank
    <3> DEFINE w == Append(work, a)
    <3>1. w \in Session /\ Extends(w, stored) /\ SpeaksAfter(w, Len(stored)) /\ Asked(w, turn) /\ stored \in Session
      BY <1>1, <1>2, ExtendKeeps, OpenIs
    <3>2. work' = Append(w, u)
      BY <1>3, <2>2
    <3> HIDE DEF w
    <3>3. QED
      BY <1>2, <3>1, <3>2, AppendIs, AppendSpeaks
  <2>3. QED
    BY <2>1, <2>2
<1>5. QED
  BY <1>1, <1>4, OpenIs, StayKeeps

\* A call that the guard lets through, or not.
LEMMA CallKeeps ==
    ASSUME TurnInv, CallTool
    PROVE  TurnInv'
<1> DEFINE c == Head(calls).call
           checked == Check(guard, c)
<1>1. /\ pc = "tools" /\ calls # <<>> /\ checked.verdict # "break" /\ guard' = checked.guard
      /\ executed' = executed \/ (checked.verdict # "block" /\ executed' = [executed EXCEPT ![c] = @ + 1])
      /\ results' = Append(results, ResultBlock(Head(calls).id)) /\ calls' = Tail(calls)
      /\ UNCHANGED <<stored, turn, pc, work, lastId, reply>>
  BY DEF CallTool
<1>2. /\ guard \in Guard /\ guard.breaker = CircuitBreaker /\ executed \in [Calls -> Nat] /\ Counted
      /\ calls \in Seq(PendingCall) /\ results \in Results
  BY DEF TurnInv, TurnTyped
<1>3. /\ Head(calls) \in PendingCall /\ calls' \in Seq(PendingCall)
  BY <1>1, <1>2
<1>4. c \in Calls /\ results' \in Results
  <2>1. Head(calls).call \in Calls /\ ResultBlock(Head(calls).id) \in [kind : {"result"}, id : Nat]
    BY <1>3 DEF PendingCall, ResultBlock
  <2> DEFINE R == [kind : {"result"}, id : Nat]
             b == ResultBlock(Head(calls).id)
  <2>2. b \in R /\ results \in Seq(R)
    BY <1>2, <2>1 DEF Results
  <2> HIDE DEF R, b
  <2>3. Append(results, b) \in Seq(R)
    BY <2>2
  <2>4. QED
    BY <1>1, <2>1, <2>3 DEF Results, R, b
<1> HIDE DEF c, checked
<1>5. /\ guard' \in Guard /\ guard'.breaker = guard.breaker /\ guard'.total = guard.total + 1
      /\ ~ (guard.total + 1 > guard.breaker)
      /\ guard'.counts = [guard.counts EXCEPT ![c] = @ + 1]
      /\ checked.verdict # "block" => guard.counts[c] + 1 < BlockThreshold * Multiplier(c)
  <2>1. /\ checked.guard \in Guard /\ checked.guard.breaker = guard.breaker
        /\ checked.guard.total = guard.total + 1
        /\ checked.verdict \in {"allow", "warn", "block", "break"}
        /\ checked.verdict = "break" <=> guard.total + 1 > guard.breaker
        /\ checked.verdict # "break" => checked.guard.counts = [guard.counts EXCEPT ![c] = @ + 1]
        /\ checked.verdict \in {"allow", "warn"} => guard.counts[c] + 1 < BlockThreshold * Multiplier(c)
    BY <1>2, <1>4, CheckIs DEF checked
  <2>2. QED
    BY <1>1, <2>1
<1>6. guard.counts \in [Calls -> Nat] /\ guard.total \in Nat /\ guard.breaker \in Nat
  BY <1>2 DEF Guard
<1>7. executed' \in [Calls -> Nat]
  BY <1>1, <1>2, <1>4
<1>8. TurnTyped'
  BY <1>1, <1>2, <1>3, <1>4, <1>5, <1>7 DEF TurnInv, TurnTyped
<1>9. Opened' /\ AnswerKept'
  BY <1>1 DEF TurnInv, Opened, AnswerKept, AnsweredIsStored
<1>10. Counted'
  <2>1. ASSUME NEW d \in Calls
        PROVE executed'[d] <= guard'.counts[d] /\ executed'[d] < BlockThreshold * Multiplier(d)
    <3> DEFINE limit == BlockThreshold * Multiplier(d)
    <3>1. /\ executed[d] <= guard.counts[d] /\ executed[d] < limit /\ executed[d] \in Nat /\ guard.counts[d] \in Nat
          /\ limit \in Nat
      BY <1>2, <1>6, LimitsAre DEF Counted
    <3>2. d = c /\ checked.verdict # "block" => guard.counts[d] + 1 < limit
      BY <1>5
    <3> HIDE DEF limit
    <3>3. guard'.counts[d] = IF d = c THEN guard.counts[d] + 1 ELSE guard.counts[d]
      BY <1>4, <1>5, <1>6
    <3>4. executed'[d] = executed[d] \/ (d = c /\ checked.verdict # "block" /\ executed'[d] = executed[d] + 1)
      BY <1>1, <1>2, <1>4
    <3>5. executed'[d] <= guard'.counts[d] /\ executed'[d] < limit
      BY <3>1, <3>2, <3>3, <3>4
    <3>6. QED
      BY <3>5 DEF limit
  <2>2. SumFunction(executed') = SumFunction(executed) \/ SumFunction(executed') = SumFunction(executed) + 1
    BY <1>1, <1>2, <1>4, CallsFinite, SumStep
  <2>3. SumFunction(executed) \in Nat
    BY <1>2, <1>4, CallsFinite, SumStep
  <2>4. SumFunction(executed) <= guard.total
    BY <1>2 DEF Counted
  <2>5. SumFunction(executed') <= guard'.total /\ guard'.total <= CircuitBreaker
    BY <1>2, <1>5, <1>6, <2>2, <2>3, <2>4
  <2>6. QED
    BY <2>1, <2>5 DEF Counted
<1>11. QED
  BY <1>8, <1>9, <1>10 DEF TurnInv

LEMMA TurnStutter == TurnInv /\ UNCHANGED vars => TurnInv'
BY DEF TurnInv, TurnTyped, Opened, AnswerKept, AnsweredIsStored, Counted, vars, loop, history

LEMMA TurnNextKeeps ==
    ASSUME TurnInv, Next
    PROVE  TurnInv'
<1>1. \/ Begin \/ SendRequest \/ GiveUp \/ RetryRequest \/ RequestFails
      \/ AnswerSilent \/ AnswerEmptyFirst \/ AnswerText \/ AnswerToolUse
      \/ (\E blank \in BOOLEAN : AnswerPartial(blank)) \/ AnswerPartialLast
      \/ CallTool \/ CircuitBreak \/ CallsDone \/ Abort
  BY DEF Next, LoopStep
<1>2. QED
  BY <1>1, BeginTurnKeeps, RequestKeeps, FailureKeeps, TextKeeps, ToolUseKeeps, DoneKeeps, PartialKeeps, CallKeeps, Zenon

\* In every reachable state the invariant holds, for every set of calls and
\* every limit.
THEOREM TurnInvariant == Spec => []TurnInv
<1>1. TurnInv /\ [Next]_vars => TurnInv'
  BY TurnNextKeeps, TurnStutter
<1>2. QED
  BY TurnInit, <1>1, PTL DEF Spec

\* A caller that got an answer finds its question and the answer in the
\* database, whatever silent turns the pruning took out (agent_loop.rs:394).
THEOREM AnswersAreStored == Spec => []AnsweredIsStored
<1>1. TurnInv => AnsweredIsStored
  BY DEF TurnInv, AnswerKept
<1>2. QED
  BY TurnInvariant, <1>1, PTL

\* In one turn no call is executed as often as the threshold that blocks it,
\* and no more calls are executed than the circuit breaker allows
\* (loop_guard.rs:146).
THEOREM ExecutionsStayBounded == Spec => []ExecutionsBounded
<1>1. TurnInv => ExecutionsBounded
  <2> SUFFICES ASSUME TurnInv PROVE ExecutionsBounded
    OBVIOUS
  <2>1. Counted /\ executed \in [Calls -> Nat] /\ guard \in Guard
    BY DEF TurnInv, TurnTyped
  <2>2. SumFunction(executed) \in Nat
    <3>1. CASE Calls = {}
      <4>1. executed = [c \in Calls |-> 0]
        BY <2>1, <3>1
      <4>2. QED
        BY <4>1, CallsFinite, SumZero
    <3>2. CASE Calls # {}
      BY <2>1, <3>2, CallsFinite, SumStep
    <3>3. QED
      BY <3>1, <3>2
  <2>3. guard.total \in Nat /\ CircuitBreaker \in Nat
    BY <2>1, BreakerIs DEF Guard
  <2>4. SumFunction(executed) <= guard.total /\ guard.total <= CircuitBreaker
    BY <2>1 DEF Counted
  <2>5. SumFunction(executed) <= CircuitBreaker
    BY <2>2, <2>3, <2>4
  <2>6. QED
    BY <2>1, <2>5 DEF Counted, ExecutionsBounded
<1>2. QED
  BY TurnInvariant, <1>1, PTL

-----------------------------------------------------------------------------
(* AgentLoop: what leaves the database *)

LEMMA ExtensionHolds ==
    ASSUME NEW base \in Session, NEW ms \in Session, Extends(ms, base), NEW i \in 1 .. Len(base)
    PROVE  base[i] \in ToSet(ms) /\ \A m \in Messages(Blocks) : base[i] \in ToSet(Append(ms, m))
<1>1. Len(base) \in Nat /\ Len(ms) \in Nat /\ DOMAIN ms = 1 .. Len(ms)
  BY SessionIs
<1>2. i \in 1 .. Len(ms) /\ ms[i] = base[i]
  BY <1>1 DEF Extends
<1>3. base[i] \in ToSet(ms)
  BY <1>1, <1>2 DEF ToSet
<1>4. ASSUME NEW m \in Messages(Blocks) PROVE base[i] \in ToSet(Append(ms, m))
  <2> DEFINE r == Append(ms, m)
  <2>1. r \in Session /\ Len(r) = Len(ms) + 1 /\ r[i] = ms[i]
    BY <1>2, AppendIs
  <2> HIDE DEF r
  <2>2. DOMAIN r = 1 .. Len(r) /\ i \in 1 .. Len(r)
    BY <1>1, <1>2, <2>1, SessionIs
  <2>3. base[i] \in ToSet(r)
    BY <1>2, <2>1, <2>2 DEF ToSet
  <2>4. QED
    BY <2>3 DEF r
<1>5. QED
  BY <1>3, <1>4

\* What an answer leaves of the database: the pruning takes a question out
\* only with the silent answer after it.
LEMMA TextSpares ==
    ASSUME TurnInv, AnswerText, NEW i \in 1 .. Len(stored), NEW t \in Nat, stored[i] = Asking(t),
           i < Len(stored) => ~ IsNoReply(stored[i + 1])
    PROVE  stored[i] \in ToSet(stored')
<1> DEFINE answer == Assistant(<<TextBlock("text", 0)>>)
           whole == Append(work, answer)
           pruned == PruneHeartbeatTurns(whole)
<1>1. PICK ok \in BOOLEAN : Save(pruned, ok)
  BY DEF AnswerText
<1>2. pc # "idle"
  BY DEF AnswerText
<1>3. answer \in Messages(Blocks) /\ ~ IsNoReply(answer)
  BY Adds
<1>4. /\ work \in Session /\ stored \in Session /\ Extends(work, stored) /\ SpeaksAfter(work, Len(stored))
  BY <1>2, OpenIs
<1>5. whole \in Session /\ Extends(whole, stored) /\ SpeaksAfter(whole, Len(stored)) /\ Len(whole) = Len(work) + 1
  <2>1. whole \in Session /\ Len(whole) = Len(work) + 1
    BY <1>3, <1>4, AppendIs
  <2>2. Extends(whole, stored) /\ SpeaksAfter(whole, Len(stored))
    BY <1>3, <1>4, AppendSpeaks
  <2>3. QED
    BY <2>1, <2>2
<1>6. Len(stored) \in Nat /\ Len(work) \in Nat /\ DOMAIN stored = 1 .. Len(stored)
  BY <1>4, SessionIs
<1> HIDE DEF answer, whole
<1>7. i \in 1 .. Len(whole) /\ whole[i] = stored[i] /\ stored[i].role = "user"
  BY <1>5, <1>6, Adds DEF Extends
<1>8. ASSUME i < Len(whole) PROVE ~ IsNoReply(whole[i + 1])
  <2>1. CASE i < Len(stored)
    <3>1. i + 1 \in 1 .. Len(stored)
      BY <1>6, <2>1
    <3>2. whole[i + 1] = stored[i + 1]
      BY <1>5, <3>1 DEF Extends
    <3>3. QED
      BY <2>1, <3>2
  <2>2. CASE i = Len(stored)
    <3>1. i + 1 \in 1 .. Len(whole) /\ i + 1 > Len(stored)
      BY <1>5, <1>6, <1>8, <2>2
    <3>2. QED
      BY <1>5, <3>1 DEF SpeaksAfter
  <2>3. QED
    BY <1>6, <2>1, <2>2
<1>9. whole[i] \in ToSet(PruneHeartbeatTurns(whole))
  BY <1>5, <1>7, <1>8, PruneKeeps
<1>10. stored[i] \in ToSet(stored)
  BY <1>6 DEF ToSet
<1>11. QED
  BY <1>1, <1>7, <1>9, <1>10 DEF Save

LEMMA StepSpares ==
    ASSUME TurnInv, [Next]_vars, NEW i \in 1 .. Len(stored), NEW t \in Nat, stored[i] = Asking(t),
           i < Len(stored) => ~ IsNoReply(stored[i + 1])
    PROVE  stored[i] \in ToSet(stored')
<1>1. stored \in Session /\ Len(stored) \in Nat /\ DOMAIN stored = 1 .. Len(stored)
  BY SessionIs DEF TurnInv, TurnTyped
<1>2. stored[i] \in ToSet(stored)
  BY <1>1 DEF ToSet
<1>3. ASSUME pc # "idle", NEW ms \in Session, Extends(ms, stored), NEW ok \in BOOLEAN, Save(ms, ok)
      PROVE  stored[i] \in ToSet(stored')
  BY <1>1, <1>2, <1>3, ExtensionHolds DEF Save
<1>4. ASSUME pc # "idle", NEW m \in Messages(Blocks), NEW ok \in BOOLEAN, Save(Append(work, m), ok)
      PROVE  stored[i] \in ToSet(stored')
  <2>1. work \in Session /\ Extends(work, stored)
    BY <1>4, OpenIs
  <2>2. stored[i] \in ToSet(Append(work, m))
    BY <1>1, <2>1, ExtensionHolds
  <2>3. QED
    BY <1>2, <1>4, <2>2 DEF Save
<1>5. CASE GiveUp \/ CircuitBreak
  <2>1. pc # "idle" /\ \E ok \in BOOLEAN : Save(work, ok)
    BY <1>5 DEF GiveUp, CircuitBreak
  <2>2. work \in Session /\ Extends(work, stored)
    BY <2>1, OpenIs
  <2>3. QED
    BY <1>3, <2>1, <2>2
<1>6. CASE AnswerSilent
  <2>1. pc # "idle" /\ \E ok \in BOOLEAN : Save(Append(work, Assistant(<<TextBlock("noreply", 0)>>)), ok)
    BY <1>6 DEF AnswerSilent
  <2>2. QED
    BY <1>4, <2>1, Adds
<1>7. CASE AnswerPartialLast
  <2>1. pc # "idle" /\ \E ok \in BOOLEAN : Save(Append(work, Assistant(<<TextBlock("text", 0)>>)), ok)
    BY <1>7 DEF AnswerPartialLast
  <2>2. QED
    BY <1>4, <2>1, Adds
<1>8. CASE CallsDone
  <2>1. pc # "idle" /\ \E ok \in BOOLEAN : Save(Append(work, User(results)), ok)
    BY <1>8 DEF CallsDone
  <2>2. User(results) \in Messages(Blocks)
    BY <2>1, OpenIs, ResultsAreSaid
  <2>3. QED
    BY <1>4, <2>1, <2>2
<1>9. CASE \/ Begin \/ SendRequest \/ RetryRequest \/ RequestFails \/ AnswerEmptyFirst \/ AnswerToolUse
           \/ (\E blank \in BOOLEAN : AnswerPartial(blank)) \/ CallTool \/ Abort \/ UNCHANGED vars
  <2>1. stored' = stored
    BY <1>9 DEF Begin, SendRequest, RetryRequest, RequestFails, AnswerEmptyFirst, AnswerToolUse, AnswerPartial,
        CallTool, Abort, vars
  <2>2. QED
    BY <1>2, <2>1
<1>10. CASE AnswerText
  BY <1>10, TextSpares
<1>11. QED
  BY <1>5, <1>6, <1>7, <1>8, <1>9, <1>10 DEF Next, LoopStep

\* A question that was saved leaves the database only if the agent chose not
\* to answer it, whatever the length of the history and however many silent
\* turns it holds (session_repair.rs:616).
THEOREM QuestionsAreKept == Spec => OnlySilentTurnsVanish
<1>1. TurnInv /\ [Next]_vars =>
        [\A i \in DOMAIN stored : \A t \in 1 .. MaxTurns :
          /\ stored[i] = User(<<TextBlock("text", t)>>)
          /\ stored[i] \notin ToSet(stored')
          => i < Len(stored) /\ IsNoReply(stored[i + 1])]_vars
  <2> SUFFICES ASSUME TurnInv, [Next]_vars, NEW i \in DOMAIN stored, NEW t \in 1 .. MaxTurns,
                      stored[i] = User(<<TextBlock("text", t)>>), stored[i] \notin ToSet(stored')
               PROVE  i < Len(stored) /\ IsNoReply(stored[i + 1])
    OBVIOUS
  <2>1. i \in 1 .. Len(stored) /\ stored \in Session
    BY SessionIs DEF TurnInv, TurnTyped
  <2>2. t \in Nat
    BY LimitsType
  <2>3. stored[i] = Asking(t)
    BY DEF Asking
  <2>4. QED
    BY <2>1, <2>2, <2>3, StepSpares
<1>2. QED
  BY TurnInvariant, <1>1, PTL DEF Spec, OnlySilentTurnsVanish

-----------------------------------------------------------------------------
(* Calls and results in a history *)

\* Messages that say something, and hold each result once.
Full == {m \in Proper : m.blocks # <<>>}
Single(m) ==
    \A j, l \in 1 .. Len(m.blocks) :
        m.blocks[j].kind = "result" /\ m.blocks[l].kind = "result" /\ m.blocks[j].id = m.blocks[l].id => j = l
Once == {m \in Full : Single(m)}

\* No two messages make one call; each result follows the message with its
\* call; each call is followed by the message with its result.
Apart(ms) == \A i, k \in 1 .. Len(ms) : UsesOf(ms[i]) \cap UsesOf(ms[k]) # {} => i = k
Linked(ms) == \A i \in 1 .. Len(ms) : \A id \in ResultsOf(ms[i]) : i > 1 /\ id \in UsesOf(ms[i - 1])
Closed(ms) == \A i \in 1 .. Len(ms) : \A id \in UsesOf(ms[i]) : i < Len(ms) /\ id \in ResultsOf(ms[i + 1])

LEMMA ProperIs ==
    ASSUME NEW m \in Proper
    PROVE  /\ m \in Messages(Blocks) /\ m.blocks \in Seq(Blocks) /\ m = [role |-> m.role, blocks |-> m.blocks]
           /\ Len(m.blocks) \in Nat /\ DOMAIN m.blocks = 1 .. Len(m.blocks)
           /\ m.role = "user" \/ m.role = "assistant"
           /\ m.role = "user" => UsesOf(m) = {}
           /\ m.role = "assistant" => ResultsOf(m) = {}
<1>1. m \in Messages(Blocks) /\ (m.role = "user" => UsesOf(m) = {}) /\ (m.role # "user" => ResultsOf(m) = {})
  BY DEF Proper
<1>2. m.blocks \in Seq(Blocks) /\ m = [role |-> m.role, blocks |-> m.blocks] /\ m.role \in {"user", "assistant"}
  BY <1>1 DEF Messages
<1> HIDE DEF Blocks
<1>3. Len(m.blocks) \in Nat /\ DOMAIN m.blocks = 1 .. Len(m.blocks)
  BY <1>2
<1>4. QED
  BY <1>1, <1>2, <1>3

LEMMA IdIn ==
    ASSUME NEW m, NEW kind, NEW id
    PROVE  id \in IdsOf(m, kind) <=> \E j \in DOMAIN m.blocks : m.blocks[j].kind = kind /\ m.blocks[j].id = id
BY DEF IdsOf

LEMMA HistoryIs ==
    ASSUME NEW T, NEW ms \in Seq(T)
    PROVE  Len(ms) \in Nat /\ DOMAIN ms = 1 .. Len(ms) /\ \A i \in 1 .. Len(ms) : ms[i] \in T
OBVIOUS

LEMMA ProperSets == Once \subseteq Full /\ Full \subseteq Proper /\ Proper \subseteq Messages(Blocks)
BY DEF Once, Full, Proper

LEMMA AllIn ==
    ASSUME NEW T, NEW ms \in Seq(T)
    PROVE  /\ \A id : id \in AllUses(ms) <=> \E i \in 1 .. Len(ms) : id \in UsesOf(ms[i])
           /\ \A id : id \in AllResults(ms) <=> \E i \in 1 .. Len(ms) : id \in ResultsOf(ms[i])
<1>1. DOMAIN ms = 1 .. Len(ms)
  OBVIOUS
<1>2. QED
  BY <1>1 DEF AllUses, AllResults

\* A message without some of its blocks.
Strip(m, I) == [m EXCEPT !.blocks = Retain(m.blocks, I)]
Holds(m, I, kind, id) == \E j \in 1 .. Len(m.blocks) : j \in I /\ m.blocks[j].kind = kind /\ m.blocks[j].id = id

LEMMA BlocksKept ==
    ASSUME NEW m \in Messages(Blocks), NEW I
    PROVE  /\ Strip(m, I) \in Messages(Blocks) /\ Strip(m, I).role = m.role
           /\ Strip(m, I).blocks = Retain(m.blocks, I)
           /\ \A kind, id : id \in IdsOf(Strip(m, I), kind) <=> Holds(m, I, kind, id)
<1>1. m.blocks \in Seq(Blocks) /\ m = [role |-> m.role, blocks |-> m.blocks] /\ m.role \in {"user", "assistant"}
  BY DEF Messages
<1> DEFINE b == m.blocks
           kept == Retain(b, I)
           r == Strip(m, I)
<1>2. /\ kept \in Seq(Blocks)
      /\ \A k \in 1 .. Len(kept) : \E i \in 1 .. Len(b) : i \in I /\ kept[k] = b[i]
      /\ \A i \in 1 .. Len(b) : i \in I => \E k \in 1 .. Len(kept) : kept[k] = b[i]
  <2> HIDE DEF Blocks
  <2>1. QED
    BY <1>1, RetainElements
<1>3. r = [role |-> m.role, blocks |-> kept] /\ r.blocks = kept /\ r.role = m.role
  BY <1>1 DEF Strip
<1> HIDE DEF kept, b, r
<1>4. r \in Messages(Blocks)
  BY <1>1, <1>2, <1>3 DEF Messages
<1>5. DOMAIN kept = 1 .. Len(kept)
  <2> HIDE DEF Blocks
  <2>1. QED
    BY <1>2
<1>6. ASSUME NEW kind, NEW id
      PROVE  id \in IdsOf(r, kind) <=> \E j \in 1 .. Len(b) : j \in I /\ b[j].kind = kind /\ b[j].id = id
  <2>1. id \in IdsOf(r, kind) <=> \E j \in 1 .. Len(kept) : kept[j].kind = kind /\ kept[j].id = id
    BY <1>3, <1>5 DEF IdsOf
  <2>2. QED
    BY <1>2, <2>1
<1>7. QED
  BY <1>3, <1>4, <1>6 DEF b, kept, r, Holds

\* Where what makes calls or gives results stays, it stays as linked as it was.
LEMMA PickedChain ==
    ASSUME NEW T, NEW ms \in Seq(T), NEW I,
           \A i \in 1 .. Len(ms) : UsesOf(ms[i]) # {} \/ ResultsOf(ms[i]) # {} => i \in I,
           NEW r \in Seq(T), Picked(ms, I, r)
    PROVE  /\ Apart(ms) => Apart(r)
           /\ Linked(ms) => Linked(r)
           /\ Closed(ms) => Closed(r)
           /\ AllUses(r) = AllUses(ms) /\ AllResults(r) = AllResults(ms)
<1>1. r \in Seq(T) /\ Picked(ms, I, r)
  OBVIOUS
<1>2. PICK pos \in [1 .. Len(r) -> 1 .. Len(ms)] :
        /\ \A k \in 1 .. Len(r) : pos[k] \in I /\ r[k] = ms[pos[k]]
        /\ \A k, l \in 1 .. Len(r) : k < l => pos[k] < pos[l]
        /\ \A i \in 1 .. Len(ms) : i \in I => \E k \in 1 .. Len(r) : pos[k] = i
  BY <1>1 DEF Picked
<1>3. Len(r) \in Nat /\ Len(ms) \in Nat
  BY <1>1
<1>4. ASSUME NEW k \in 1 .. Len(r), NEW l \in 1 .. Len(r), pos[l] = pos[k] + 1 PROVE l = k + 1
  <2>1. k < l
    <3>1. l = k \/ l < k => pos[l] <= pos[k]
      BY <1>2, <1>3
    <3>2. pos[k] \in Nat
      BY <1>3
    <3>3. QED
      BY <1>3, <1>4, <3>1, <3>2
  <2>2. ~ (k + 1 < l)
    <3>1. ASSUME k + 1 < l PROVE FALSE
      <4>1. k + 1 \in 1 .. Len(r)
        BY <1>3, <3>1
      <4>2. pos[k] < pos[k + 1] /\ pos[k + 1] < pos[l]
        BY <1>2, <1>3, <3>1, <4>1
      <4>3. pos[k] \in Nat /\ pos[k + 1] \in Nat
        BY <1>3, <4>1
      <4>4. QED
        BY <1>4, <4>2, <4>3
    <3>2. QED
      BY <3>1
  <2>3. QED
    BY <1>3, <2>1, <2>2
<1>5. ASSUME Apart(ms) PROVE Apart(r)
  <2> SUFFICES ASSUME NEW k \in 1 .. Len(r), NEW l \in 1 .. Len(r), UsesOf(r[k]) \cap UsesOf(r[l]) # {}
               PROVE  k = l
    BY DEF Apart
  <2>1. pos[k] = pos[l]
    <3>1. r[k] = ms[pos[k]] /\ r[l] = ms[pos[l]] /\ pos[k] \in 1 .. Len(ms) /\ pos[l] \in 1 .. Len(ms)
      BY <1>2
    <3>2. UsesOf(ms[pos[k]]) \cap UsesOf(ms[pos[l]]) # {}
      BY <3>1
    <3>3. QED
      BY <1>5, <3>1, <3>2 DEF Apart
  <2>2. ~ (k < l) /\ ~ (l < k)
    BY <1>2, <1>3, <2>1
  <2>3. QED
    BY <1>3, <2>2
<1>6. ASSUME Linked(ms) PROVE Linked(r)
  <2> SUFFICES ASSUME NEW k \in 1 .. Len(r), NEW id \in ResultsOf(r[k])
               PROVE  k > 1 /\ id \in UsesOf(r[k - 1])
    BY DEF Linked
  <2>1. pos[k] \in 1 .. Len(ms) /\ id \in ResultsOf(ms[pos[k]])
    BY <1>2
  <2>2. pos[k] > 1 /\ id \in UsesOf(ms[pos[k] - 1])
    BY <1>6, <2>1 DEF Linked
  <2>3. pos[k] - 1 \in 1 .. Len(ms)
    BY <1>3, <2>1, <2>2
  <2>4. PICK l \in 1 .. Len(r) : pos[l] = pos[k] - 1
    BY <1>2, <2>2, <2>3
  <2>5. k = l + 1
    BY <1>4, <2>1, <2>4
  <2>6. r[k - 1] = ms[pos[k] - 1]
    BY <1>2, <1>3, <2>4, <2>5
  <2>7. QED
    BY <1>3, <2>2, <2>5, <2>6
<1>7. ASSUME Closed(ms) PROVE Closed(r)
  <2> SUFFICES ASSUME NEW k \in 1 .. Len(r), NEW id \in UsesOf(r[k])
               PROVE  k < Len(r) /\ id \in ResultsOf(r[k + 1])
    BY DEF Closed
  <2>1. pos[k] \in 1 .. Len(ms) /\ id \in UsesOf(ms[pos[k]])
    BY <1>2
  <2>2. pos[k] < Len(ms) /\ id \in ResultsOf(ms[pos[k] + 1])
    BY <1>7, <2>1 DEF Closed
  <2>3. pos[k] + 1 \in 1 .. Len(ms)
    BY <1>3, <2>1, <2>2
  <2>4. PICK l \in 1 .. Len(r) : pos[l] = pos[k] + 1
    BY <1>2, <2>2, <2>3
  <2>5. l = k + 1
    BY <1>4, <2>4
  <2>6. r[k + 1] = ms[pos[k] + 1]
    BY <1>2, <2>4, <2>5
  <2>7. QED
    BY <1>3, <2>2, <2>5, <2>6
<1>8. AllUses(r) = AllUses(ms) /\ AllResults(r) = AllResults(ms)
  <2>1. /\ \A id : id \in AllUses(ms) <=> \E i \in 1 .. Len(ms) : id \in UsesOf(ms[i])
        /\ \A id : id \in AllResults(ms) <=> \E i \in 1 .. Len(ms) : id \in ResultsOf(ms[i])
        /\ \A id : id \in AllUses(r) <=> \E i \in 1 .. Len(r) : id \in UsesOf(r[i])
        /\ \A id : id \in AllResults(r) <=> \E i \in 1 .. Len(r) : id \in ResultsOf(r[i])
    BY <1>1, AllIn
  <2>2. ASSUME NEW i \in 1 .. Len(ms), UsesOf(ms[i]) # {} \/ ResultsOf(ms[i]) # {}
        PROVE  \E k \in 1 .. Len(r) : r[k] = ms[i]
    BY <1>2, <2>2
  <2>3. ASSUME NEW k \in 1 .. Len(r) PROVE \E i \in 1 .. Len(ms) : r[k] = ms[i]
    BY <1>2
  <2>4. AllUses(r) = AllUses(ms)
    <3>1. ASSUME NEW id \in AllUses(r) PROVE id \in AllUses(ms)
      BY <2>1, <2>3
    <3>2. ASSUME NEW id \in AllUses(ms) PROVE id \in AllUses(r)
      <4>1. PICK i \in 1 .. Len(ms) : id \in UsesOf(ms[i])
        BY <2>1
      <4>2. PICK k \in 1 .. Len(r) : r[k] = ms[i]
        BY <2>2, <4>1
      <4>3. QED
        BY <2>1, <4>1, <4>2
    <3>3. QED
      BY <3>1, <3>2
  <2>5. AllResults(r) = AllResults(ms)
    <3>1. ASSUME NEW id \in AllResults(r) PROVE id \in AllResults(ms)
      BY <2>1, <2>3
    <3>2. ASSUME NEW id \in AllResults(ms) PROVE id \in AllResults(r)
      <4>1. PICK i \in 1 .. Len(ms) : id \in ResultsOf(ms[i])
        BY <2>1
      <4>2. PICK k \in 1 .. Len(r) : r[k] = ms[i]
        BY <2>2, <4>1
      <4>3. QED
        BY <2>1, <4>1, <4>2
    <3>3. QED
      BY <3>1, <3>2
  <2>6. QED
    BY <2>4, <2>5
<1>9. QED
  BY <1>5, <1>6, <1>7, <1>8

\* A history each of whose messages lost some blocks.
StripAll(ms, K) == [i \in DOMAIN ms |-> Strip(ms[i], K[i])]

LEMMA Stripped ==
    ASSUME NEW ms \in Seq(Proper), NEW K
    PROVE  /\ StripAll(ms, K) \in Seq(Proper) /\ Len(StripAll(ms, K)) = Len(ms)
           /\ \A i \in 1 .. Len(ms) :
                /\ StripAll(ms, K)[i].role = ms[i].role
                /\ StripAll(ms, K)[i].blocks = Retain(ms[i].blocks, K[i])
                /\ \A kind, id : id \in IdsOf(StripAll(ms, K)[i], kind) <=> Holds(ms[i], K[i], kind, id)
<1> DEFINE ks == StripAll(ms, K)
<1>0. ks = [i \in DOMAIN ms |-> Strip(ms[i], K[i])]
  BY DEF StripAll
<1> HIDE DEF ks
<1>1. Len(ms) \in Nat /\ DOMAIN ms = 1 .. Len(ms) /\ \A i \in 1 .. Len(ms) : ms[i] \in Proper
  BY HistoryIs
<1>2. ASSUME NEW m \in Proper, NEW I
      PROVE  /\ Strip(m, I) \in Proper /\ Strip(m, I).role = m.role /\ Strip(m, I).blocks = Retain(m.blocks, I)
             /\ \A kind, id : id \in IdsOf(Strip(m, I), kind) <=> Holds(m, I, kind, id)
  <2> DEFINE k == Strip(m, I)
  <2>1. /\ m \in Messages(Blocks) /\ m.role \in {"user", "assistant"} /\ DOMAIN m.blocks = 1 .. Len(m.blocks)
        /\ m.role = "user" => UsesOf(m) = {}
        /\ m.role = "assistant" => ResultsOf(m) = {}
    BY ProperIs
  <2>2. /\ k \in Messages(Blocks) /\ k.role = m.role /\ k.blocks = Retain(m.blocks, I)
        /\ \A kind, id : id \in IdsOf(k, kind) <=> Holds(m, I, kind, id)
    BY <2>1, BlocksKept
  <2> HIDE DEF k
  <2>3. \A kind, id : Holds(m, I, kind, id) => id \in IdsOf(m, kind)
    BY <2>1 DEF Holds, IdsOf
  <2>4. k \in Proper
    BY <2>1, <2>2, <2>3 DEF Proper, UsesOf, ResultsOf
  <2>5. QED
    BY <2>2, <2>4 DEF k
<1>3. \A i \in 1 .. Len(ms) : ks[i] = Strip(ms[i], K[i])
  BY <1>0, <1>1
<1>4. \A i \in 1 .. Len(ms) :
        /\ ks[i] \in Proper /\ ks[i].role = ms[i].role /\ ks[i].blocks = Retain(ms[i].blocks, K[i])
        /\ \A kind, id : id \in IdsOf(ks[i], kind) <=> Holds(ms[i], K[i], kind, id)
  BY <1>1, <1>2, <1>3
<1>5. ks = [i \in 1 .. Len(ms) |-> ks[i]]
  BY <1>0, <1>1
<1>6. ks \in Seq(Proper) /\ Len(ks) = Len(ms)
  <2>1. \A i \in 1 .. Len(ms) : ks[i] \in Proper
    BY <1>4
  <2>2. QED
    BY <1>1, <1>5, <2>1, BuiltSequence
<1>7. QED
  BY <1>4, <1>6 DEF ks

\* DropEmpty takes out nothing that makes a call or gives a result.
LEMMA DropEmptyChain ==
    ASSUME NEW ms \in Seq(Proper), NEW r, r = DropEmpty(ms)
    PROVE  /\ r \in Seq(Full)
           /\ Apart(ms) => Apart(r)
           /\ Linked(ms) => Linked(r)
           /\ Closed(ms) => Closed(r)
           /\ AllUses(r) = AllUses(ms) /\ AllResults(r) = AllResults(ms)
<1> DEFINE I == {i \in DOMAIN ms : ms[i].blocks # <<>>}
<1>1. Len(ms) \in Nat /\ DOMAIN ms = 1 .. Len(ms) /\ \A i \in 1 .. Len(ms) : ms[i] \in Proper
  BY HistoryIs
<1>2. r = Retain(ms, I)
  BY DEF DropEmpty
<1>3. ASSUME NEW i \in 1 .. Len(ms), UsesOf(ms[i]) # {} \/ ResultsOf(ms[i]) # {} PROVE i \in I
  <2>1. PICK kind, id : id \in IdsOf(ms[i], kind)
    BY <1>3 DEF UsesOf, ResultsOf
  <2>2. PICK j \in DOMAIN ms[i].blocks : TRUE
    BY <2>1, IdIn
  <2>3. ms[i].blocks # <<>>
    BY <2>2
  <2>4. QED
    BY <1>1, <2>3
<1>4. \A i \in I : ms[i] \in Full
  BY <1>1 DEF Full
<1> HIDE DEF I
<1>5. /\ r \in Seq(Proper) /\ \A k \in 1 .. Len(r) : \E i \in 1 .. Len(ms) : i \in I /\ r[k] = ms[i]
  BY <1>2, RetainElements
<1>6. r \in Seq(Full)
  <2>1. \A k \in 1 .. Len(r) : r[k] \in Full
    BY <1>4, <1>5
  <2>2. Len(r) \in Nat /\ r = [k \in 1 .. Len(r) |-> r[k]]
    BY <1>5
  <2>3. QED
    BY <2>1, <2>2, BuiltSequence
<1>7. QED
  <2>1. Picked(ms, I, r)
    BY <1>2, RetainPicks
  <2>2. QED
    BY <1>3, <1>5, <1>6, <2>1, PickedChain

\* After the first phase every result has a call.
LEMMA DropOrphansIs ==
    ASSUME NEW ms \in Seq(Proper), Apart(ms), NEW r, r = DropOrphans(ms)
    PROVE  r \in Seq(Full) /\ Apart(r) /\ AllUses(r) = AllUses(ms) /\ AllResults(r) \subseteq AllUses(r)
<1> DEFINE ok(i, j) == ms[i].blocks[j].kind = "result" => ms[i].blocks[j].id \in AllUses(ms)
           K == [i \in DOMAIN ms |-> {j \in DOMAIN ms[i].blocks : ok(i, j)}]
           ks == StripAll(ms, K)
<1>1. r = DropEmpty(ks)
  BY DEF DropOrphans, KeepBlocks, StripAll, Strip
<1>2. Len(ms) \in Nat /\ DOMAIN ms = 1 .. Len(ms) /\ \A i \in 1 .. Len(ms) : ms[i] \in Proper
  BY HistoryIs
<1>3. \A i \in 1 .. Len(ms) : \A j \in 1 .. Len(ms[i].blocks) : j \in K[i] <=> ok(i, j)
  BY <1>2, ProperIs
<1> HIDE DEF K
<1>4. /\ ks \in Seq(Proper) /\ Len(ks) = Len(ms)
      /\ \A i \in 1 .. Len(ms) :
           /\ ks[i].role = ms[i].role /\ ks[i].blocks = Retain(ms[i].blocks, K[i])
           /\ \A kind, id : id \in IdsOf(ks[i], kind) <=> Holds(ms[i], K[i], kind, id)
  BY Stripped, Zenon
<1> HIDE DEF ks
<1>5. ASSUME NEW i \in 1 .. Len(ms) PROVE UsesOf(ks[i]) = UsesOf(ms[i]) /\ ResultsOf(ks[i]) \subseteq AllUses(ms)
  <2>1. DOMAIN ms[i].blocks = 1 .. Len(ms[i].blocks)
    BY <1>2, ProperIs
  <2>2. ASSUME NEW id PROVE id \in IdsOf(ks[i], "use") <=> id \in IdsOf(ms[i], "use")
    <3>1. \A j \in 1 .. Len(ms[i].blocks) : ms[i].blocks[j].kind = "use" => j \in K[i]
      BY <1>3
    <3>2. QED
      <4>1. id \in IdsOf(ks[i], "use") <=> Holds(ms[i], K[i], "use", id)
        BY <1>4
      <4>2. Holds(ms[i], K[i], "use", id) <=> id \in IdsOf(ms[i], "use")
        BY <2>1, <3>1 DEF Holds, IdsOf
      <4>3. QED
        BY <4>1, <4>2
  <2>3. ASSUME NEW id \in IdsOf(ks[i], "result") PROVE id \in AllUses(ms)
    <3>1. Holds(ms[i], K[i], "result", id)
      BY <1>4
    <3>2. QED
      BY <1>3, <3>1 DEF Holds
  <2>4. QED
    BY <2>2, <2>3 DEF UsesOf, ResultsOf
<1>6. Apart(ks)
  BY <1>4, <1>5 DEF Apart
<1>7. AllUses(ks) = AllUses(ms)
  <2>1. \A id : id \in AllUses(ks) <=> id \in AllUses(ms)
    BY <1>4, <1>5, AllIn
  <2>2. QED
    BY <2>1
<1>8. AllResults(ks) \subseteq AllUses(ms)
  BY <1>4, <1>5, AllIn
<1>9. QED
  BY <1>1, <1>4, <1>6, <1>7, <1>8, DropEmptyChain

-----------------------------------------------------------------------------
(* Messages that are given results *)

IdsIn(bs) == {bs[j].id : j \in 1 .. Len(bs)}
Give(m, bs) == [m EXCEPT !.blocks = @ \o bs]

LEMMA ResultsIs ==
    ASSUME NEW bs \in Results
    PROVE  /\ bs \in Seq(Blocks) /\ Len(bs) \in Nat /\ DOMAIN bs = 1 .. Len(bs)
           /\ \A j \in 1 .. Len(bs) : bs[j].kind = "result"
<1> DEFINE R == [kind : {"result"}, id : Nat]
<1>1. R \subseteq Blocks /\ \A b \in R : b.kind = "result"
  BY DEF Blocks
<1>2. bs \in Seq(R)
  BY DEF Results
<1> HIDE DEF R
<1>3. bs \in Seq(Blocks) /\ Len(bs) \in Nat /\ DOMAIN bs = 1 .. Len(bs) /\ \A j \in 1 .. Len(bs) : bs[j] \in R
  BY <1>1, <1>2
<1>4. QED
  BY <1>1, <1>3

LEMMA UserIs ==
    ASSUME NEW bs \in Results, bs # <<>>
    PROVE  User(bs) \in Full /\ User(bs).role = "user" /\ UsesOf(User(bs)) = {} /\ ResultsOf(User(bs)) = IdsIn(bs)
<1>1. /\ bs \in Seq(Blocks) /\ Len(bs) \in Nat /\ DOMAIN bs = 1 .. Len(bs)
      /\ \A j \in 1 .. Len(bs) : bs[j].kind = "result"
  BY ResultsIs
<1>2. User(bs) \in Messages(Blocks) /\ User(bs).role = "user" /\ User(bs).blocks = bs
  BY <1>1 DEF User, Messages
<1>3. UsesOf(User(bs)) = {} /\ ResultsOf(User(bs)) = IdsIn(bs)
  <2> DEFINE m == User(bs)
  <2>1. m.blocks = bs
    BY <1>2
  <2> HIDE DEF m
  <2>2. IdsOf(m, "use") = {} /\ IdsOf(m, "result") = IdsIn(bs)
    BY <1>1, <2>1 DEF IdsOf, IdsIn
  <2>3. QED
    BY <2>2 DEF UsesOf, ResultsOf, m
<1>4. QED
  BY <1>2, <1>3 DEF Full, Proper

LEMMA GiveIs ==
    ASSUME NEW m \in Full, m.role = "user", NEW bs \in Results
    PROVE  /\ Give(m, bs) \in Full /\ Give(m, bs).role = "user"
           /\ UsesOf(Give(m, bs)) = {} /\ ResultsOf(Give(m, bs)) = ResultsOf(m) \cup IdsIn(bs)
<1> DEFINE g == Give(m, bs)
           old == m.blocks
<1>1. /\ bs \in Seq(Blocks) /\ Len(bs) \in Nat /\ DOMAIN bs = 1 .. Len(bs)
      /\ \A j \in 1 .. Len(bs) : bs[j].kind = "result"
  BY ResultsIs
<1>2. /\ m \in Proper /\ old # <<>> /\ old \in Seq(Blocks) /\ m = [role |-> m.role, blocks |-> old]
      /\ Len(old) \in Nat /\ DOMAIN old = 1 .. Len(old) /\ UsesOf(m) = {}
  BY ProperIs DEF Full
<1>3. g = [role |-> "user", blocks |-> old \o bs] /\ g.role = "user" /\ g.blocks = old \o bs
  <2>1. ASSUME NEW y, NEW z, y = [role |-> y.role, blocks |-> y.blocks]
        PROVE  [y EXCEPT !.blocks = z] = [role |-> y.role, blocks |-> z]
    BY <2>1
  <2>2. g = [role |-> m.role, blocks |-> old \o bs]
    BY <1>2, <2>1, Zenon DEF Give
  <2> HIDE DEF g, old
  <2>3. QED
    BY <2>2
<1> HIDE DEF g, old
<1>4. /\ old \o bs \in Seq(Blocks) /\ Len(old \o bs) = Len(old) + Len(bs) /\ DOMAIN (old \o bs) = 1 .. (Len(old) + Len(bs))
      /\ \A j \in 1 .. Len(old) : (old \o bs)[j] = old[j]
      /\ \A j \in 1 .. Len(bs) : (old \o bs)[Len(old) + j] = bs[j]
      /\ Len(old) # 0
  <2> HIDE DEF Blocks
  <2>1. QED
    BY <1>1, <1>2
<1> DEFINE all == old \o bs
<1>5. /\ all \in Seq(Blocks) /\ Len(all) = Len(old) + Len(bs) /\ DOMAIN all = 1 .. (Len(old) + Len(bs))
      /\ \A j \in 1 .. Len(old) : all[j] = old[j]
      /\ \A j \in 1 .. Len(bs) : all[Len(old) + j] = bs[j]
      /\ Len(old) # 0 /\ g.blocks = all /\ g.role = "user" /\ g = [role |-> "user", blocks |-> all]
  BY <1>3, <1>4
<1> HIDE DEF all
<1>6. ASSUME NEW j \in 1 .. (Len(old) + Len(bs)) PROVE j \in 1 .. Len(old) \/ \E l \in 1 .. Len(bs) : j = Len(old) + l
  <2>1. j > Len(old) => j - Len(old) \in 1 .. Len(bs) /\ j = Len(old) + (j - Len(old))
    BY <1>1, <1>2
  <2>2. QED
    BY <1>1, <1>2, <2>1
<1>7. ASSUME NEW kind, NEW id
      PROVE  id \in IdsOf(g, kind) <=> id \in IdsOf(m, kind) \/ (kind = "result" /\ id \in IdsIn(bs))
  <2>1. id \in IdsOf(g, kind) <=> \E j \in 1 .. (Len(old) + Len(bs)) : all[j].kind = kind /\ all[j].id = id
    BY <1>5 DEF IdsOf
  <2>2. id \in IdsOf(m, kind) <=> \E j \in 1 .. Len(old) : old[j].kind = kind /\ old[j].id = id
    BY <1>2 DEF IdsOf, old
  <2>3. id \in IdsIn(bs) <=> \E j \in 1 .. Len(bs) : bs[j].id = id
    BY DEF IdsIn
  <2>4. ASSUME id \in IdsOf(g, kind) PROVE id \in IdsOf(m, kind) \/ (kind = "result" /\ id \in IdsIn(bs))
    <3>1. PICK j \in 1 .. (Len(old) + Len(bs)) : all[j].kind = kind /\ all[j].id = id
      BY <2>1, <2>4
    <3>2. CASE j \in 1 .. Len(old)
      <4>1. all[j] = old[j]
        BY <1>5, <3>2
      <4>2. QED
        BY <2>2, <3>1, <3>2, <4>1
    <3>3. ASSUME NEW l \in 1 .. Len(bs), j = Len(old) + l PROVE kind = "result" /\ id \in IdsIn(bs)
      <4>1. all[j] = bs[l] /\ bs[l].kind = "result"
        BY <1>1, <1>5, <3>3
      <4>2. QED
        BY <2>3, <3>1, <4>1
    <3>4. QED
      BY <1>6, <3>2, <3>3
  <2>5. ASSUME id \in IdsOf(m, kind) PROVE id \in IdsOf(g, kind)
    <3>1. PICK j \in 1 .. Len(old) : old[j].kind = kind /\ old[j].id = id
      BY <2>2, <2>5
    <3>2. j \in 1 .. (Len(old) + Len(bs)) /\ all[j] = old[j]
      BY <1>1, <1>2, <1>5, <3>1
    <3>3. QED
      BY <2>1, <3>1, <3>2
  <2>6. ASSUME kind = "result", id \in IdsIn(bs) PROVE id \in IdsOf(g, kind)
    <3>1. PICK j \in 1 .. Len(bs) : bs[j].id = id
      BY <2>3, <2>6
    <3>2. Len(old) + j \in 1 .. (Len(old) + Len(bs)) /\ all[Len(old) + j] = bs[j]
      BY <1>1, <1>2, <1>5, <3>1
    <3>3. QED
      BY <1>1, <2>1, <2>6, <3>1, <3>2
  <2>7. QED
    BY <2>4, <2>5, <2>6
<1>8. UsesOf(g) = {} /\ ResultsOf(g) = ResultsOf(m) \cup IdsIn(bs)
  <2>1. \A id : id \in UsesOf(g) <=> id \in UsesOf(m)
    BY <1>7 DEF UsesOf
  <2>2. \A id : id \in ResultsOf(g) <=> id \in ResultsOf(m) \cup IdsIn(bs)
    BY <1>7 DEF ResultsOf
  <2>3. QED
    BY <1>2, <2>1, <2>2
<1>9. g \in Full
  <2>1. all # <<>>
    <3> HIDE DEF Blocks
    <3>1. QED
      BY <1>1, <1>2, <1>5
  <2>2. g \in Messages(Blocks)
    BY <1>5 DEF Messages
  <2>3. QED
    BY <1>5, <1>8, <2>1, <2>2 DEF Full, Proper
<1>10. QED
  BY <1>5, <1>8, <1>9 DEF g

-----------------------------------------------------------------------------
(* One message more *)

LastUses(g) == IF g = <<>> THEN {} ELSE UsesOf(g[Len(g)])
\* Each call but those of the last message is answered by the next.
Held(g) == \A i \in 1 .. (Len(g) - 1) : \A id \in UsesOf(g[i]) : id \in ResultsOf(g[i + 1])

LEMMA HeldCloses ==
    ASSUME NEW T, NEW g \in Seq(T), Held(g), LastUses(g) = {}
    PROVE  Closed(g)
<1>1. Len(g) \in Nat /\ (Len(g) # 0 => g # <<>>)
  OBVIOUS
<1> SUFFICES ASSUME NEW i \in 1 .. Len(g), NEW id \in UsesOf(g[i])
             PROVE  i < Len(g) /\ id \in ResultsOf(g[i + 1])
  BY DEF Closed
<1>2. i # Len(g)
  BY <1>1 DEF LastUses
<1>3. i \in 1 .. (Len(g) - 1)
  BY <1>1, <1>2
<1>4. QED
  BY <1>1, <1>3 DEF Held

LEMMA AppendChain ==
    ASSUME NEW T, NEW g \in Seq(T), NEW m \in T
    PROVE  /\ Append(g, m) \in Seq(T)
           /\ Apart(g) /\ AllUses(g) \cap UsesOf(m) = {} => Apart(Append(g, m))
           /\ Linked(g) /\ ResultsOf(m) \subseteq LastUses(g) => Linked(Append(g, m))
           /\ Held(g) /\ LastUses(g) \subseteq ResultsOf(m) => Held(Append(g, m))
           /\ AllUses(Append(g, m)) = AllUses(g) \cup UsesOf(m)
           /\ LastUses(Append(g, m)) = UsesOf(m)
<1> DEFINE r == Append(g, m)
<1>1. /\ r \in Seq(T) /\ Len(g) \in Nat /\ Len(r) = Len(g) + 1 /\ r[Len(g) + 1] = m /\ r # <<>>
      /\ \A i \in 1 .. Len(g) : r[i] = g[i]
      /\ g = <<>> => Len(g) = 0
  OBVIOUS
<1> HIDE DEF r
<1>2. \A i \in 1 .. Len(r) : i \in 1 .. Len(g) \/ i = Len(g) + 1
  BY <1>1
<1>3. /\ \A id : id \in AllUses(g) <=> \E i \in 1 .. Len(g) : id \in UsesOf(g[i])
      /\ \A id : id \in AllUses(r) <=> \E i \in 1 .. Len(r) : id \in UsesOf(r[i])
  BY <1>1, AllIn
<1>4. ASSUME Apart(g), AllUses(g) \cap UsesOf(m) = {} PROVE Apart(r)
  <2> SUFFICES ASSUME NEW i \in 1 .. Len(r), NEW k \in 1 .. Len(r), NEW id, id \in UsesOf(r[i]), id \in UsesOf(r[k])
               PROVE  i = k
    BY DEF Apart
  <2>1. CASE i \in 1 .. Len(g) /\ k \in 1 .. Len(g)
    <3>1. UsesOf(g[i]) \cap UsesOf(g[k]) # {}
      BY <1>1, <2>1
    <3>2. QED
      BY <1>4, <2>1, <3>1 DEF Apart
  <2>2. CASE i \in 1 .. Len(g) /\ k = Len(g) + 1
    BY <1>1, <1>3, <1>4, <2>2
  <2>3. CASE i = Len(g) + 1 /\ k \in 1 .. Len(g)
    BY <1>1, <1>3, <1>4, <2>3
  <2>4. QED
    BY <1>2, <2>1, <2>2, <2>3
<1>5. ASSUME Linked(g), ResultsOf(m) \subseteq LastUses(g) PROVE Linked(r)
  <2> SUFFICES ASSUME NEW i \in 1 .. Len(r), NEW id \in ResultsOf(r[i])
               PROVE  i > 1 /\ id \in UsesOf(r[i - 1])
    BY DEF Linked
  <2>1. CASE i \in 1 .. Len(g)
    <3>1. i > 1 /\ id \in UsesOf(g[i - 1])
      BY <1>1, <1>5, <2>1 DEF Linked
    <3>2. i - 1 \in 1 .. Len(g)
      BY <1>1, <2>1, <3>1
    <3>3. QED
      BY <1>1, <3>1, <3>2
  <2>2. CASE i = Len(g) + 1
    <3>1. id \in LastUses(g)
      BY <1>1, <1>5, <2>2
    <3>2. g # <<>> /\ id \in UsesOf(g[Len(g)])
      BY <3>1 DEF LastUses
    <3>3. Len(g) # 0
      BY <3>2
    <3>4. Len(g) \in 1 .. Len(g) /\ i - 1 = Len(g)
      BY <1>1, <2>2, <3>3
    <3>5. QED
      BY <1>1, <3>2, <3>4
  <2>3. QED
    BY <1>2, <2>1, <2>2
<1>6. ASSUME Held(g), LastUses(g) \subseteq ResultsOf(m) PROVE Held(r)
  <2> SUFFICES ASSUME NEW i \in 1 .. (Len(r) - 1), NEW id \in UsesOf(r[i]) PROVE id \in ResultsOf(r[i + 1])
    BY DEF Held
  <2>1. i \in 1 .. Len(g) /\ id \in UsesOf(g[i])
    BY <1>1
  <2>2. CASE i = Len(g)
    <3>1. g # <<>>
      BY <1>1, <2>1, <2>2
    <3>2. id \in LastUses(g)
      BY <2>1, <2>2, <3>1 DEF LastUses
    <3>3. QED
      BY <1>1, <1>6, <2>2, <3>2
  <2>3. CASE i # Len(g)
    <3>1. i \in 1 .. (Len(g) - 1) /\ i + 1 \in 1 .. Len(g)
      BY <1>1, <2>1, <2>3
    <3>2. id \in ResultsOf(g[i + 1])
      BY <1>6, <2>1, <3>1 DEF Held
    <3>3. QED
      BY <1>1, <3>1, <3>2
  <2>4. QED
    BY <2>2, <2>3
<1>7. AllUses(r) = AllUses(g) \cup UsesOf(m)
  <2>1. ASSUME NEW id \in AllUses(r) PROVE id \in AllUses(g) \cup UsesOf(m)
    BY <1>1, <1>2, <1>3
  <2>2. ASSUME NEW id \in AllUses(g) PROVE id \in AllUses(r)
    <3>1. PICK i \in 1 .. Len(g) : id \in UsesOf(g[i])
      BY <1>3
    <3>2. i \in 1 .. Len(r) /\ r[i] = g[i]
      BY <1>1
    <3>3. QED
      BY <1>3, <3>1, <3>2
  <2>3. ASSUME NEW id \in UsesOf(m) PROVE id \in AllUses(r)
    <3>1. Len(g) + 1 \in 1 .. Len(r) /\ r[Len(g) + 1] = m
      BY <1>1
    <3>2. QED
      BY <1>3, <3>1
  <2>4. QED
    BY <2>1, <2>2, <2>3
<1>8. LastUses(r) = UsesOf(m)
  BY <1>1 DEF LastUses
<1>9. QED
  BY <1>1, <1>4, <1>5, <1>6, <1>7, <1>8 DEF r

-----------------------------------------------------------------------------
(* PlaceAfter: the results go behind the calls *)

UsesUpTo(ms, n) == UNION {UsesOf(ms[i]) : i \in 1 .. n}
\* A message of the user follows; each call is answered by what is placed or by
\* the message that follows.
UserNext(ms, n) == n < Len(ms) /\ ms[n + 1].role = "user"
Covered(ms, after) ==
    \A n \in 1 .. Len(ms) : \A id \in UsesOf(ms[n]) :
        id \in IdsIn(after[n]) \/ (n < Len(ms) /\ id \in ResultsOf(ms[n + 1]))
\* What is placed after a message answers calls of that message.
Fits(ms, after) ==
    /\ after = [n \in DOMAIN ms |-> after[n]]
    /\ \A n \in 1 .. Len(ms) : after[n] \in Results /\ IdsIn(after[n]) \subseteq UsesOf(ms[n])

\* What the first n messages have become.
Placed(g, ms, after, n) ==
    /\ g \in Seq(Full) /\ Apart(g) /\ Linked(g)
    /\ AllUses(g) = UsesUpTo(ms, n)
    /\ n > 0 /\ UserNext(ms, n) => LastUses(g) = UsesOf(ms[n])
    /\ n = 0 => LastUses(g) = {}
    /\ Covered(ms, after) => Held(g) /\ (~ UserNext(ms, n) => LastUses(g) = {})

\* A message with what it is given, and the new message after it.
Taken(ms, after, i) == IF i > 1 /\ ms[i].role = "user" THEN Give(ms[i], after[i - 1]) ELSE ms[i]
Extra(ms, after, i) == ~ (after[i] = <<>> \/ UserNext(ms, i))
PlacedNext(g, ms, after, i) ==
    IF Extra(ms, after, i) THEN Append(Append(g, Taken(ms, after, i)), User(after[i]))
    ELSE Append(g, Taken(ms, after, i))

LEMMA TakenIs ==
    ASSUME NEW ms \in Seq(Full), NEW after, Fits(ms, after), NEW i \in 1 .. Len(ms)
    PROVE  /\ Taken(ms, after, i) \in Full /\ UsesOf(Taken(ms, after, i)) = UsesOf(ms[i])
           /\ ResultsOf(Taken(ms, after, i)) =
                ResultsOf(ms[i]) \cup (IF i > 1 /\ ms[i].role = "user" THEN IdsIn(after[i - 1]) ELSE {})
<1>1. Len(ms) \in Nat /\ ms[i] \in Full
  BY HistoryIs
<1>2. CASE i > 1 /\ ms[i].role = "user"
  <2>1. i - 1 \in 1 .. Len(ms)
    BY <1>1, <1>2
  <2>2. after[i - 1] \in Results
    BY <2>1 DEF Fits
  <2>3. UsesOf(ms[i]) = {}
    BY <1>1, <1>2, ProperIs DEF Full
  <2>4. QED
    BY <1>1, <1>2, <2>2, <2>3, GiveIs DEF Taken
<1>3. CASE ~ (i > 1 /\ ms[i].role = "user")
  BY <1>1, <1>3 DEF Taken
<1>4. QED
  BY <1>2, <1>3

LEMMA PlaceStep ==
    ASSUME NEW ms \in Seq(Full), Apart(ms), Linked(ms), NEW after, Fits(ms, after),
           NEW n \in 0 .. (Len(ms) - 1), NEW g, Placed(g, ms, after, n)
    PROVE  Placed(PlacedNext(g, ms, after, n + 1), ms, after, n + 1)
<1> DEFINE i == n + 1
           m == Taken(ms, after, i)
           h == Append(g, m)
<1>1. Len(ms) \in Nat /\ n \in Nat /\ i \in 1 .. Len(ms) /\ i \in Nat /\ i - 1 = n /\ ms[i] \in Full
  BY HistoryIs
<1>2. /\ m \in Full /\ UsesOf(m) = UsesOf(ms[i])
      /\ ResultsOf(m) = ResultsOf(ms[i]) \cup (IF i > 1 /\ ms[i].role = "user" THEN IdsIn(after[i - 1]) ELSE {})
  BY <1>1, TakenIs
<1>3. /\ ms[i].role = "user" \/ ms[i].role = "assistant"
      /\ ms[i].role = "user" => UsesOf(ms[i]) = {}
      /\ ms[i].role = "assistant" => ResultsOf(ms[i]) = {}
  BY <1>1, ProperIs DEF Full
<1>4. /\ after[i] \in Results /\ IdsIn(after[i]) \subseteq UsesOf(ms[i])
      /\ n > 0 => after[n] \in Results /\ IdsIn(after[n]) \subseteq UsesOf(ms[n])
  <2>1. \A k \in 1 .. Len(ms) : after[k] \in Results /\ IdsIn(after[k]) \subseteq UsesOf(ms[k])
    BY DEF Fits
  <2>2. n > 0 => n \in 1 .. Len(ms)
    BY <1>1
  <2> HIDE DEF i
  <2>3. QED
    BY <1>1, <2>1, <2>2, Zenon
<1>5. /\ g \in Seq(Full) /\ Apart(g) /\ Linked(g) /\ AllUses(g) = UsesUpTo(ms, n)
      /\ n > 0 /\ ms[i].role = "user" => LastUses(g) = UsesOf(ms[n])
      /\ n = 0 => LastUses(g) = {}
      /\ Covered(ms, after) => Held(g) /\ (~ (ms[i].role = "user") => LastUses(g) = {})
  BY <1>1 DEF Placed, UserNext
<1>6. \A id \in ResultsOf(ms[i]) : i > 1 /\ id \in UsesOf(ms[n])
  BY <1>1 DEF Linked
<1>7. AllUses(g) \cap UsesOf(m) = {}
  <2>1. ASSUME NEW id \in UsesUpTo(ms, n), id \in UsesOf(ms[i]) PROVE FALSE
    <3>1. PICK k \in 1 .. n : id \in UsesOf(ms[k])
      BY <2>1 DEF UsesUpTo
    <3>2. k \in 1 .. Len(ms) /\ k # i
      BY <1>1, <3>1
    <3>3. UsesOf(ms[i]) \cap UsesOf(ms[k]) # {}
      BY <2>1, <3>1
    <3>4. QED
      BY <1>1, <3>2, <3>3 DEF Apart
  <2>2. QED
    BY <1>2, <1>5, <2>1
<1>8. ResultsOf(m) \subseteq LastUses(g)
  <2>1. CASE ms[i].role = "assistant"
    BY <1>2, <1>3, <2>1
  <2>2. CASE ms[i].role = "user" /\ n = 0
    <3>1. ~ (i > 1)
      BY <1>1, <2>2
    <3>2. QED
      BY <1>2, <1>6, <3>1
  <2>3. CASE ms[i].role = "user" /\ n > 0
    BY <1>1, <1>2, <1>4, <1>5, <1>6, <2>3
  <2>4. QED
    BY <1>1, <1>3, <2>1, <2>2, <2>3
<1>9. ASSUME Covered(ms, after) PROVE LastUses(g) \subseteq ResultsOf(m)
  <2>1. CASE ms[i].role = "user" /\ n > 0
    <3>1. ASSUME NEW id \in UsesOf(ms[n]) PROVE id \in IdsIn(after[n]) \/ id \in ResultsOf(ms[i])
      <4>1. n \in 1 .. Len(ms)
        BY <1>1, <2>1
      <4>2. QED
        BY <1>9, <4>1 DEF Covered
    <3>2. i > 1
      BY <1>1, <2>1
    <3>3. QED
      BY <1>1, <1>2, <1>5, <2>1, <3>1, <3>2
  <2>2. CASE ~ (ms[i].role = "user") \/ n = 0
    BY <1>5, <1>9, <2>2
  <2>3. QED
    BY <1>1, <2>1, <2>2
<1> HIDE DEF m
<1>10. /\ h \in Seq(Full) /\ Apart(h) /\ Linked(h) /\ (Covered(ms, after) => Held(h))
       /\ AllUses(h) = AllUses(g) \cup UsesOf(m) /\ LastUses(h) = UsesOf(m)
  <2>1. /\ Append(g, m) \in Seq(Full)
        /\ Apart(g) /\ AllUses(g) \cap UsesOf(m) = {} => Apart(Append(g, m))
        /\ Linked(g) /\ ResultsOf(m) \subseteq LastUses(g) => Linked(Append(g, m))
        /\ Held(g) /\ LastUses(g) \subseteq ResultsOf(m) => Held(Append(g, m))
        /\ AllUses(Append(g, m)) = AllUses(g) \cup UsesOf(m)
        /\ LastUses(Append(g, m)) = UsesOf(m)
    BY <1>2, <1>5, AppendChain
  <2>2. QED
    BY <1>5, <1>7, <1>8, <1>9, <2>1, Zenon
<1>11. UsesUpTo(ms, i) = UsesUpTo(ms, n) \cup UsesOf(ms[i])
  <2>1. \A k : k \in 1 .. i <=> k \in 1 .. n \/ k = i
    BY <1>1
  <2>2. QED
    BY <2>1 DEF UsesUpTo
<1> HIDE DEF h
<1>12. ASSUME ~ UserNext(ms, i), Covered(ms, after) PROVE UsesOf(ms[i]) \subseteq IdsIn(after[i])
  <2>1. ASSUME NEW id \in UsesOf(ms[i]), id \notin IdsIn(after[i]) PROVE FALSE
    <3>1. i < Len(ms) /\ id \in ResultsOf(ms[i + 1])
      BY <1>1, <1>12, <2>1 DEF Covered
    <3>2. i + 1 \in 1 .. Len(ms)
      BY <1>1, <3>1
    <3>3. ms[i + 1] \in Proper
      BY <3>2, HistoryIs DEF Full
    <3>4. ms[i + 1].role = "user"
      BY <3>1, <3>3, ProperIs
    <3>5. QED
      BY <1>12, <3>1, <3>4 DEF UserNext
  <2>2. QED
    BY <2>1
<1>13. CASE Extra(ms, after, i)
  <2> DEFINE u == User(after[i])
  <2>1. after[i] # <<>> /\ ~ UserNext(ms, i)
    BY <1>13 DEF Extra
  <2>2. u \in Full /\ UsesOf(u) = {} /\ ResultsOf(u) = IdsIn(after[i])
    BY <1>4, <2>1, UserIs
  <2> HIDE DEF u
  <2>3. /\ Append(h, u) \in Seq(Full)
        /\ Apart(h) /\ AllUses(h) \cap UsesOf(u) = {} => Apart(Append(h, u))
        /\ Linked(h) /\ ResultsOf(u) \subseteq LastUses(h) => Linked(Append(h, u))
        /\ Held(h) /\ LastUses(h) \subseteq ResultsOf(u) => Held(Append(h, u))
        /\ AllUses(Append(h, u)) = AllUses(h) \cup UsesOf(u)
        /\ LastUses(Append(h, u)) = UsesOf(u)
    BY <1>10, <2>2, AppendChain
  <2>4. ResultsOf(u) \subseteq LastUses(h)
    BY <1>2, <1>4, <1>10, <2>2
  <2>5. Covered(ms, after) => LastUses(h) \subseteq ResultsOf(u)
    BY <1>2, <1>10, <1>12, <2>1, <2>2
  <2>6. AllUses(Append(h, u)) = UsesUpTo(ms, i)
    BY <1>2, <1>5, <1>10, <1>11, <2>2, <2>3
  <2>7. PlacedNext(g, ms, after, i) = Append(h, u)
    BY <1>13 DEF PlacedNext, h, u, m
  <2> DEFINE q == Append(h, u)
  <2>8. q \in Seq(Full) /\ Apart(q) /\ Linked(q) /\ LastUses(q) = {} /\ (Covered(ms, after) => Held(q))
    BY <1>10, <2>2, <2>3, <2>4, <2>5
  <2> HIDE DEF q
  <2>9. Placed(q, ms, after, i)
    <3>1. AllUses(q) = UsesUpTo(ms, i) /\ i # 0
      BY <1>1, <2>6 DEF q
    <3>2. QED
      BY <2>1, <2>8, <3>1 DEF Placed
  <2>10. QED
    BY <2>7, <2>9 DEF q
<1>14. CASE ~ Extra(ms, after, i)
  <2>1. PlacedNext(g, ms, after, i) = h
    BY <1>14 DEF PlacedNext, h, m
  <2>2. ASSUME Covered(ms, after), ~ UserNext(ms, i) PROVE LastUses(h) = {}
    <3>1. after[i] = <<>>
      BY <1>14, <2>2 DEF Extra
    <3>2. IdsIn(after[i]) = {}
      BY <3>1 DEF IdsIn
    <3>3. QED
      BY <1>2, <1>10, <1>12, <2>2, <3>2
  <2>3. AllUses(h) = UsesUpTo(ms, i) /\ LastUses(h) = UsesOf(ms[i]) /\ i # 0
    BY <1>1, <1>2, <1>5, <1>10, <1>11
  <2>4. Placed(h, ms, after, i)
    BY <1>10, <2>2, <2>3 DEF Placed
  <2>5. QED
    BY <2>1, <2>4
<1>15. QED
  BY <1>13, <1>14

LEMMA PlaceChain ==
    ASSUME NEW ms \in Seq(Full), Apart(ms), Linked(ms), NEW after, Fits(ms, after)
    PROVE  /\ PlaceAfter(ms, after) \in Seq(Full)
           /\ Apart(PlaceAfter(ms, after)) /\ Linked(PlaceAfter(ms, after))
           /\ AllUses(PlaceAfter(ms, after)) = AllUses(ms)
           /\ Covered(ms, after) => Closed(PlaceAfter(ms, after))
<1> DEFINE rest(i) == IF after[i] = <<>> \/ UserNext(ms, i) THEN <<>> ELSE << User(after[i]) >>
           ss == [i \in DOMAIN ms |-> << Taken(ms, after, i) >> \o rest(i)]
           N == Len(ms)
<1>1. PlaceAfter(ms, after) = FlattenSeq(ss)
  BY DEF PlaceAfter, Taken, Give, UserNext
<1>2. N \in Nat /\ DOMAIN ms = 1 .. N
  BY HistoryIs
<1>3. ASSUME NEW i \in 1 .. N
      PROVE  /\ ss[i] \in Seq(Full)
             /\ \A g \in Seq(Full) : g \o ss[i] = PlacedNext(g, ms, after, i)
  <2> DEFINE m == Taken(ms, after, i)
             u == User(after[i])
  <2>1. m \in Full /\ after[i] \in Results
    BY TakenIs DEF Fits
  <2>2. ss[i] = <<m>> \o rest(i)
    BY <1>2
  <2>3. CASE Extra(ms, after, i)
    <3>1. rest(i) = <<u>> /\ u \in Full
      BY <2>1, <2>3, UserIs DEF Extra
    <3> HIDE DEF m, u
    <3>2. <<m>> \o <<u>> \in Seq(Full) /\ \A g \in Seq(Full) : g \o (<<m>> \o <<u>>) = Append(Append(g, m), u)
      BY <2>1, <3>1
    <3>3. QED
      BY <2>2, <2>3, <3>1, <3>2 DEF PlacedNext, m, u
  <2>4. CASE ~ Extra(ms, after, i)
    <3>1. rest(i) = <<>>
      BY <2>4 DEF Extra
    <3> HIDE DEF m
    <3>2. <<m>> \o <<>> \in Seq(Full) /\ \A g \in Seq(Full) : g \o (<<m>> \o <<>>) = Append(g, m)
      BY <2>1
    <3>3. QED
      BY <2>2, <2>4, <3>1, <3>2 DEF PlacedNext, m
  <2>5. QED
    BY <2>3, <2>4
<1>4. ss = [i \in 1 .. N |-> ss[i]]
  BY <1>2
<1> HIDE DEF ss
<1>5. ss \in Seq(Seq(Full)) /\ Len(ss) = N
  <2>1. \A i \in 1 .. N : ss[i] \in Seq(Full)
    BY <1>3
  <2>2. QED
    BY <1>2, <1>4, <2>1, BuiltSequence
<1>6. PICK f : FlattensUpTo(f, ss, Full) /\ FlattenSeq(ss) = f[Len(ss)]
  BY <1>5, FlattenStep, Zenon
<1>7. /\ f \in [0 .. N -> Seq(Full)] /\ f[0] = <<>>
      /\ \A n \in 1 .. N : f[n] = f[n - 1] \o ss[n]
  BY <1>5, <1>6 DEF FlattensUpTo
<1> DEFINE S == {n \in 0 .. N : Placed(f[n], ms, after, n)}
<1>8. 0 \in S
  <2>1. /\ <<>> \in Seq(Full) /\ Len(<<>>) = 0 /\ \A i \in 1 .. Len(<<>>) : FALSE
    OBVIOUS
  <2>2. Apart(<<>>) /\ Linked(<<>>) /\ Held(<<>>) /\ LastUses(<<>>) = {}
    BY <2>1 DEF Apart, Linked, Held, LastUses
  <2>3. AllUses(<<>>) = {} /\ UsesUpTo(ms, 0) = {}
    BY DEF AllUses, UsesUpTo
  <2>4. Placed(f[0], ms, after, 0)
    <3> DEFINE e == f[0]
    <3>1. e \in Seq(Full) /\ Apart(e) /\ Linked(e) /\ Held(e) /\ LastUses(e) = {} /\ AllUses(e) = UsesUpTo(ms, 0)
      BY <1>7, <2>1, <2>2, <2>3
    <3> HIDE DEF e
    <3>2. Placed(e, ms, after, 0)
      BY <3>1 DEF Placed
    <3>3. QED
      BY <3>2 DEF e
  <2>5. QED
    BY <1>2, <2>4
<1>9. ASSUME NEW n \in 0 .. (N - 1), n \in S PROVE n + 1 \in S
  <2>1. n + 1 \in 1 .. N /\ n + 1 - 1 = n /\ n \in 0 .. N /\ n + 1 \in 0 .. N
    BY <1>2
  <2>2. f[n + 1] = f[n] \o ss[n + 1] /\ f[n] \in Seq(Full)
    <3> DEFINE p == n + 1
    <3>1. p \in 1 .. N /\ p - 1 = n
      BY <2>1
    <3> HIDE DEF p
    <3>2. f[p] = f[p - 1] \o ss[p]
      BY <1>7, <3>1
    <3>3. f[n] \in Seq(Full)
      BY <1>7, <2>1
    <3>4. QED
      BY <3>1, <3>2, <3>3 DEF p
  <2>3. f[n + 1] = PlacedNext(f[n], ms, after, n + 1)
    BY <1>3, <2>1, <2>2
  <2>4. Placed(PlacedNext(f[n], ms, after, n + 1), ms, after, n + 1)
    BY <1>9, PlaceStep
  <2>5. QED
    BY <2>1, <2>3, <2>4
<1>10. Placed(f[N], ms, after, N)
  <2> HIDE DEF S
  <2>1. 0 .. N \subseteq S
    BY <1>2, <1>8, <1>9, Induction
  <2>2. N \in 0 .. N
    BY <1>2
  <2>3. QED
    BY <2>1, <2>2 DEF S
<1> DEFINE r == f[N]
<1>11. PlaceAfter(ms, after) = r
  BY <1>1, <1>5, <1>6
<1>12. /\ r \in Seq(Full) /\ Apart(r) /\ Linked(r) /\ AllUses(r) = UsesUpTo(ms, N)
       /\ Covered(ms, after) => Held(r) /\ (~ UserNext(ms, N) => LastUses(r) = {})
  BY <1>10 DEF Placed
<1> HIDE DEF r
<1>13. UsesUpTo(ms, N) = AllUses(ms)
  BY <1>2 DEF UsesUpTo, AllUses
<1>14. ~ UserNext(ms, N)
  BY <1>2 DEF UserNext
<1>15. Covered(ms, after) => Closed(r)
  BY <1>12, <1>14, HeldCloses
<1>16. QED
  BY <1>11, <1>12, <1>13, <1>15

-----------------------------------------------------------------------------
(* ReorderResults *)

LEMMA UseAtIs ==
    ASSUME NEW ms \in Seq(Proper), Apart(ms), NEW a \in 1 .. Len(ms), NEW id \in UsesOf(ms[a])
    PROVE  UseAt(ms, id) = a /\ ms[a].role = "assistant"
<1> DEFINE at == {i \in DOMAIN ms : ms[i].role = "assistant" /\ id \in UsesOf(ms[i])}
<1>1. Len(ms) \in Nat /\ DOMAIN ms = 1 .. Len(ms) /\ ms[a] \in Proper
  BY HistoryIs
<1>2. ms[a].role = "assistant"
  BY <1>1, ProperIs
<1>3. ASSUME NEW i \in at PROVE i = a
  <2>1. UsesOf(ms[i]) \cap UsesOf(ms[a]) # {}
    BY <1>3
  <2>2. QED
    BY <1>1, <1>3, <2>1 DEF Apart
<1>4. at = {a}
  BY <1>1, <1>2, <1>3
<1>5. Max({a}) = a
  <2>1. a \in {a} /\ \A y \in {a} : a >= y
    BY <1>1
  <2>2. QED
    BY <2>1 DEF Max
<1>6. UseAt(ms, id) = IF at = {} THEN 0 ELSE Max(at)
  BY DEF UseAt
<1> HIDE DEF at
<1>7. QED
  BY <1>2, <1>4, <1>5, <1>6

\* What ReorderResults works with: where a result belongs, and the messages
\* without those that are elsewhere.
LEMMA MisplacedIs ==
    ASSUME NEW ms \in Seq(Proper), Apart(ms), AllResults(ms) \subseteq AllUses(ms),
           NEW i \in 1 .. Len(ms), NEW j \in 1 .. Len(ms[i].blocks), ms[i].blocks[j].kind = "result"
    PROVE  /\ UseAt(ms, ms[i].blocks[j].id) \in 1 .. Len(ms)
           /\ ms[i].blocks[j].id \in UsesOf(ms[UseAt(ms, ms[i].blocks[j].id)])
           /\ Misplaced(ms, i, j) <=> i # UseAt(ms, ms[i].blocks[j].id) + 1
<1> DEFINE id == ms[i].blocks[j].id
<1>1. Len(ms) \in Nat /\ ms[i] \in Proper /\ DOMAIN ms[i].blocks = 1 .. Len(ms[i].blocks)
  BY HistoryIs, ProperIs
<1>2. id \in ResultsOf(ms[i])
  BY <1>1, IdIn DEF ResultsOf
<1>3. ms[i].role = "user"
  BY <1>1, <1>2, ProperIs
<1>4. PICK a \in 1 .. Len(ms) : id \in UsesOf(ms[a])
  BY <1>2, AllIn
<1>5. UseAt(ms, id) = a
  BY <1>4, UseAtIs
<1>6. QED
  BY <1>1, <1>3, <1>4, <1>5 DEF Misplaced

LEMMA FlattenIs ==
    ASSUME NEW T, NEW ss \in Seq(Seq(T))
    PROVE  FlattenSeq(ss) \in Seq(T)
<1>1. PICK f : FlattensUpTo(f, ss, T) /\ FlattenSeq(ss) = f[Len(ss)]
  BY FlattenStep, Zenon
<1>2. Len(ss) \in 0 .. Len(ss)
  OBVIOUS
<1>3. QED
  BY <1>1, <1>2 DEF FlattensUpTo

Moved(ms, a) ==
    FlattenSeq([i \in DOMAIN ms |->
        Retain(ms[i].blocks, {j \in DOMAIN ms[i].blocks :
            Misplaced(ms, i, j) /\ UseAt(ms, ms[i].blocks[j].id) = a})])

LEMMA RetainedIn ==
    ASSUME NEW B, NEW s \in Seq(B), NEW I, NEW T, \A j \in 1 .. Len(s) : j \in I => s[j] \in T
    PROVE  Retain(s, I) \in Seq(T)
<1> DEFINE r == Retain(s, I)
<1>1. r \in Seq(B) /\ \A k \in 1 .. Len(r) : \E j \in 1 .. Len(s) : j \in I /\ r[k] = s[j]
  BY RetainElements
<1> HIDE DEF r
<1>2. \A k \in 1 .. Len(r) : r[k] \in T
  BY <1>1
<1>3. Len(r) \in Nat /\ r = [k \in 1 .. Len(r) |-> r[k]]
  BY <1>1
<1>4. r \in Seq(T)
  BY <1>2, <1>3, BuiltSequence
<1>5. QED
  BY <1>4 DEF r

LEMMA MovedIs ==
    ASSUME NEW ms \in Seq(Proper), Apart(ms), AllResults(ms) \subseteq AllUses(ms), NEW a \in 1 .. Len(ms)
    PROVE  Moved(ms, a) \in Results /\ IdsIn(Moved(ms, a)) \subseteq UsesOf(ms[a])
<1> DEFINE R == [kind : {"result"}, id : Nat]
           T == {b \in R : b.id \in UsesOf(ms[a])}
           J(i) == {j \in DOMAIN ms[i].blocks : Misplaced(ms, i, j) /\ UseAt(ms, ms[i].blocks[j].id) = a}
           ss == [i \in DOMAIN ms |-> Retain(ms[i].blocks, J(i))]
<1>1. Len(ms) \in Nat /\ DOMAIN ms = 1 .. Len(ms) /\ \A i \in 1 .. Len(ms) : ms[i] \in Proper
  BY HistoryIs
<1>2. ASSUME NEW i \in 1 .. Len(ms) PROVE Retain(ms[i].blocks, J(i)) \in Seq(T)
  <2>1. ms[i].blocks \in Seq(Blocks) /\ DOMAIN ms[i].blocks = 1 .. Len(ms[i].blocks)
    BY <1>1, ProperIs
  <2>2. ASSUME NEW j \in 1 .. Len(ms[i].blocks), j \in J(i) PROVE ms[i].blocks[j] \in T
    <3>1. ms[i].blocks[j] \in Blocks /\ ms[i].blocks[j].kind = "result" /\ UseAt(ms, ms[i].blocks[j].id) = a
      <4> HIDE DEF Blocks
      <4>1. QED
        BY <2>1, <2>2 DEF Misplaced
    <3>2. ms[i].blocks[j].id \in UsesOf(ms[a])
      BY <1>2, <3>1, MisplacedIs
    <3> DEFINE b == ms[i].blocks[j]
    <3>3. b \in Blocks /\ b.kind = "result"
      BY <3>1
    <3> HIDE DEF b
    <3>4. b \in R
      BY <3>3 DEF Blocks
    <3>5. QED
      BY <3>2, <3>4 DEF b
  <2> DEFINE s == ms[i].blocks
             I == J(i)
  <2>3. s \in Seq(Blocks) /\ \A j \in 1 .. Len(s) : j \in I => s[j] \in T
    <3> HIDE DEF T, Blocks, J
    <3>1. QED
      BY <2>1, <2>2
  <2> HIDE DEF s, I, T, Blocks
  <2>4. Retain(s, I) \in Seq(T)
    BY <2>3, RetainedIn
  <2>5. QED
    BY <2>4 DEF s, I
<1> HIDE DEF J
<1>3. ss = [i \in 1 .. Len(ms) |-> ss[i]] /\ \A i \in 1 .. Len(ms) : ss[i] \in Seq(T)
  <2> HIDE DEF T
  <2>1. QED
    BY <1>1, <1>2
<1>4. Moved(ms, a) = FlattenSeq(ss)
  BY DEF Moved, J
<1> HIDE DEF ss
<1>5. FlattenSeq(ss) \in Seq(T)
  <2> HIDE DEF T
  <2>1. ss \in Seq(Seq(T))
    BY <1>1, <1>3, BuiltSequence
  <2>2. QED
    BY <2>1, FlattenIs
<1> DEFINE q == Moved(ms, a)
<1>6. T \subseteq R /\ \A b \in T : b.id \in UsesOf(ms[a])
  OBVIOUS
<1> HIDE DEF T, R
<1>7. q \in Seq(T)
  BY <1>4, <1>5
<1> HIDE DEF q
<1>8. q \in Seq(R) /\ \A j \in 1 .. Len(q) : q[j].id \in UsesOf(ms[a])
  BY <1>6, <1>7
<1>9. QED
  BY <1>8 DEF q, R, Results, IdsIn

LEMMA ReorderIs ==
    ASSUME NEW ms \in Seq(Full), Apart(ms), AllResults(ms) \subseteq AllUses(ms)
    PROVE  ReorderResults(ms) \in Seq(Full) /\ Apart(ReorderResults(ms)) /\ Linked(ReorderResults(ms))
<1> DEFINE K == [i \in DOMAIN ms |-> {j \in DOMAIN ms[i].blocks : ~ Misplaced(ms, i, j)}]
           ks == [i \in DOMAIN ms |-> [ms[i] EXCEPT !.blocks =
                    Retain(ms[i].blocks, {j \in DOMAIN ms[i].blocks : ~ Misplaced(ms, i, j)})]]
           idx == [i \in DOMAIN ms |-> i]
           I == {i \in DOMAIN ms : ks[i].blocks # <<>>}
           left == Retain(idx, I)
           kept == [n \in DOMAIN left |-> ks[left[n]]]
           after == [n \in DOMAIN left |-> Moved(ms, left[n])]
<1>1. ReorderResults(ms) = PlaceAfter(kept, after)
  BY DEF ReorderResults, KeepBlocks, Moved
<1>2. /\ Len(ms) \in Nat /\ DOMAIN ms = 1 .. Len(ms) /\ ms \in Seq(Proper)
      /\ \A i \in 1 .. Len(ms) : ms[i] \in Proper /\ DOMAIN ms[i].blocks = 1 .. Len(ms[i].blocks)
  <2>1. Len(ms) \in Nat /\ DOMAIN ms = 1 .. Len(ms) /\ \A i \in 1 .. Len(ms) : ms[i] \in Full
    BY HistoryIs
  <2>2. ms \in Seq(Proper)
    BY ProperSets
  <2>3. QED
    BY <2>1, <2>2, ProperSets, ProperIs
<1>3. \A i \in 1 .. Len(ms) : \A j \in 1 .. Len(ms[i].blocks) : j \in K[i] <=> ~ Misplaced(ms, i, j)
  BY <1>2
<1>3a. ks = StripAll(ms, K)
  BY DEF StripAll, Strip
<1> HIDE DEF K, ks
<1>4. /\ ks \in Seq(Proper) /\ Len(ks) = Len(ms)
      /\ \A i \in 1 .. Len(ms) :
           /\ ks[i].role = ms[i].role
           /\ ks[i].blocks = Retain(ms[i].blocks, K[i])
           /\ \A kind, id : id \in IdsOf(ks[i], kind) <=> Holds(ms[i], K[i], kind, id)
  BY <1>2, <1>3a, Stripped, Zenon
<1>5. ASSUME NEW i \in 1 .. Len(ms) PROVE UsesOf(ks[i]) = UsesOf(ms[i])
  <2>1. \A j \in 1 .. Len(ms[i].blocks) : ms[i].blocks[j].kind = "use" => j \in K[i]
    BY <1>3 DEF Misplaced
  <2>2. ASSUME NEW id PROVE id \in IdsOf(ks[i], "use") <=> id \in IdsOf(ms[i], "use")
    <3>1. id \in IdsOf(ks[i], "use") <=> Holds(ms[i], K[i], "use", id)
      BY <1>4
    <3>2. Holds(ms[i], K[i], "use", id) <=> id \in IdsOf(ms[i], "use")
      BY <1>2, <2>1 DEF Holds, IdsOf
    <3>3. QED
      BY <3>1, <3>2
  <2>3. QED
    BY <2>2 DEF UsesOf
<1>6. Apart(ks)
  BY <1>4, <1>5 DEF Apart
<1>7. Linked(ks)
  <2> SUFFICES ASSUME NEW i \in 1 .. Len(ks), NEW id \in ResultsOf(ks[i]) PROVE i > 1 /\ id \in UsesOf(ks[i - 1])
    BY DEF Linked
  <2>1. i \in 1 .. Len(ms) /\ Holds(ms[i], K[i], "result", id)
    BY <1>4 DEF ResultsOf
  <2>2. PICK j \in 1 .. Len(ms[i].blocks) : j \in K[i] /\ ms[i].blocks[j].kind = "result" /\ ms[i].blocks[j].id = id
    BY <2>1 DEF Holds
  <2>3. /\ UseAt(ms, id) \in 1 .. Len(ms) /\ id \in UsesOf(ms[UseAt(ms, id)])
        /\ Misplaced(ms, i, j) <=> i # UseAt(ms, id) + 1
    BY <1>2, <2>1, <2>2, MisplacedIs
  <2>4. i = UseAt(ms, id) + 1
    BY <1>3, <2>1, <2>2, <2>3
  <2>5. i > 1 /\ i - 1 = UseAt(ms, id)
    BY <1>2, <2>3, <2>4
  <2>6. UsesOf(ks[i - 1]) = UsesOf(ms[i - 1])
    BY <1>5, <2>3, <2>5
  <2>7. QED
    BY <2>3, <2>5, <2>6
<1>8. ASSUME NEW i \in 1 .. Len(ks), UsesOf(ks[i]) # {} \/ ResultsOf(ks[i]) # {} PROVE i \in I
  <2>1. PICK kind, id : id \in IdsOf(ks[i], kind)
    BY <1>8 DEF UsesOf, ResultsOf
  <2>2. PICK j \in DOMAIN ks[i].blocks : TRUE
    BY <2>1, IdIn
  <2>3. ks[i].blocks # <<>>
    BY <2>2
  <2>4. QED
    BY <1>2, <1>4, <2>3
<1>9. \A i \in I : ks[i] \in Full
  BY <1>2, <1>4, HistoryIs DEF Full
<1>10. idx \in Seq(Nat) /\ Len(idx) = Len(ms) /\ \A i \in 1 .. Len(ms) : idx[i] = i
  BY <1>2
<1> HIDE DEF I, idx
<1>11. left \in Seq(Nat) /\ Picked(idx, I, left)
  BY <1>10, RetainPicks
<1> HIDE DEF left
<1>12. DOMAIN left = 1 .. Len(left) /\ Len(left) \in Nat
  BY <1>11
<1>13. PICK pos \in [1 .. Len(left) -> 1 .. Len(idx)] :
        /\ \A k \in 1 .. Len(left) : pos[k] \in I /\ left[k] = idx[pos[k]]
        /\ \A k, l \in 1 .. Len(left) : k < l => pos[k] < pos[l]
        /\ \A i \in 1 .. Len(idx) : i \in I => \E k \in 1 .. Len(left) : pos[k] = i
  BY <1>11 DEF Picked
<1>14. \A k \in 1 .. Len(left) : left[k] = pos[k] /\ left[k] \in 1 .. Len(ms) /\ left[k] \in I
  BY <1>10, <1>13
<1>15. kept \in Seq(Full) /\ Len(kept) = Len(left) /\ \A k \in 1 .. Len(left) : kept[k] = ks[left[k]]
  <2>1. kept = [k \in 1 .. Len(left) |-> kept[k]] /\ \A k \in 1 .. Len(left) : kept[k] = ks[left[k]]
    BY <1>12
  <2> HIDE DEF kept
  <2>2. \A k \in 1 .. Len(left) : kept[k] \in Full
    BY <1>9, <1>14, <2>1
  <2>3. QED
    BY <1>12, <2>1, <2>2, BuiltSequence
<1>16. after = [k \in 1 .. Len(left) |-> after[k]] /\ \A k \in 1 .. Len(left) : after[k] = Moved(ms, left[k])
  BY <1>12
<1> HIDE DEF kept, after
<1>17. Picked(ks, I, kept)
  <2>1. /\ pos \in [1 .. Len(kept) -> 1 .. Len(ks)]
        /\ \A k \in 1 .. Len(kept) : pos[k] \in I /\ kept[k] = ks[pos[k]]
        /\ \A k, l \in 1 .. Len(kept) : k < l => pos[k] < pos[l]
        /\ \A i \in 1 .. Len(ks) : i \in I => \E k \in 1 .. Len(kept) : pos[k] = i
    BY <1>4, <1>10, <1>13, <1>14, <1>15
  <2>2. QED
    BY <2>1 DEF Picked
<1>18. Apart(kept) /\ Linked(kept)
  <2>1. kept \in Seq(Proper)
    BY <1>15, ProperSets
  <2>2. QED
    BY <1>4, <1>6, <1>7, <1>8, <1>17, <2>1, PickedChain
<1>19. Fits(kept, after)
  <2>1. after = [n \in DOMAIN kept |-> after[n]]
    BY <1>15, <1>16, HistoryIs
  <2>2. ASSUME NEW n \in 1 .. Len(kept) PROVE after[n] \in Results /\ IdsIn(after[n]) \subseteq UsesOf(kept[n])
    <3>1. left[n] \in 1 .. Len(ms) /\ after[n] = Moved(ms, left[n]) /\ kept[n] = ks[left[n]]
      BY <1>14, <1>15, <1>16
    <3>2. Moved(ms, left[n]) \in Results /\ IdsIn(Moved(ms, left[n])) \subseteq UsesOf(ms[left[n]])
      BY <1>2, <3>1, MovedIs
    <3>3. UsesOf(ks[left[n]]) = UsesOf(ms[left[n]])
      BY <1>5, <3>1
    <3>4. QED
      BY <3>1, <3>2, <3>3
  <2>3. QED
    BY <2>1, <2>2 DEF Fits
<1>20. QED
  BY <1>1, <1>15, <1>18, <1>19, PlaceChain

-----------------------------------------------------------------------------
(* InsertSynthetic *)

LEMMA InsertIs ==
    ASSUME NEW ms \in Seq(Full), Apart(ms), Linked(ms)
    PROVE  /\ InsertSynthetic(ms) \in Seq(Full)
           /\ Apart(InsertSynthetic(ms)) /\ Linked(InsertSynthetic(ms)) /\ Closed(InsertSynthetic(ms))
<1> DEFINE J(i) == {j \in DOMAIN ms[i].blocks :
                       /\ ms[i].role = "assistant" /\ ms[i].blocks[j].kind = "use"
                       /\ ms[i].blocks[j].id \notin AllResults(ms)}
           missing(i) == Retain(ms[i].blocks, J(i))
           after == [i \in DOMAIN ms |-> [n \in DOMAIN missing(i) |-> ResultBlock(missing(i)[n].id)]]
<1>1. InsertSynthetic(ms) = PlaceAfter(ms, after)
  BY DEF InsertSynthetic
<1>2. /\ Len(ms) \in Nat /\ DOMAIN ms = 1 .. Len(ms) /\ ms \in Seq(Proper)
      /\ \A i \in 1 .. Len(ms) : ms[i] \in Proper
  <2>1. Len(ms) \in Nat /\ DOMAIN ms = 1 .. Len(ms) /\ \A i \in 1 .. Len(ms) : ms[i] \in Full
    BY HistoryIs
  <2>2. QED
    BY <2>1, ProperSets
<1>3. ASSUME NEW i \in 1 .. Len(ms)
      PROVE  /\ after[i] \in Results /\ IdsIn(after[i]) \subseteq UsesOf(ms[i])
             /\ \A id \in UsesOf(ms[i]) : id \notin AllResults(ms) => id \in IdsIn(after[i])
  <2> DEFINE I == J(i)
             bl == ms[i].blocks
             q == Retain(bl, I)
             a == [n \in DOMAIN q |-> ResultBlock(q[n].id)]
  <2>1. after[i] = a
    BY <1>2
  <2>2. /\ bl \in Seq(Blocks) /\ DOMAIN bl = 1 .. Len(bl)
        /\ UsesOf(ms[i]) # {} => ms[i].role = "assistant"
    BY <1>2, ProperIs
  <2>3. \A j \in 1 .. Len(bl) : j \in I => bl[j].kind = "use"
    OBVIOUS
  <2>4. \A j \in 1 .. Len(bl) : bl[j].kind = "use" /\ bl[j].id \notin AllResults(ms) => j \in I
    <3>1. ASSUME NEW j \in 1 .. Len(bl), bl[j].kind = "use" PROVE ms[i].role = "assistant"
      <4>1. bl[j].id \in UsesOf(ms[i])
        BY <2>2, <3>1, IdIn DEF UsesOf
      <4>2. QED
        BY <2>2, <4>1
    <3>2. QED
      BY <2>2, <3>1
  <2>5. \A id : id \in UsesOf(ms[i]) <=> \E j \in 1 .. Len(bl) : bl[j].kind = "use" /\ bl[j].id = id
    BY <2>2 DEF UsesOf, IdsOf
  <2> HIDE DEF I, bl, Blocks
  <2>6. /\ Retain(bl, I) \in Seq(Blocks)
        /\ \A k \in 1 .. Len(Retain(bl, I)) : \E l \in 1 .. Len(bl) : l \in I /\ Retain(bl, I)[k] = bl[l]
        /\ \A l \in 1 .. Len(bl) : l \in I => \E k \in 1 .. Len(Retain(bl, I)) : Retain(bl, I)[k] = bl[l]
    <3>1. bl \in Seq(Blocks)
      BY <2>2
    <3>2. QED
      BY <3>1, RetainElements
  <2>7. /\ q \in Seq(Blocks) /\ Len(q) \in Nat /\ DOMAIN q = 1 .. Len(q)
        /\ \A k \in 1 .. Len(q) : \E l \in 1 .. Len(bl) : l \in I /\ q[k] = bl[l]
        /\ \A l \in 1 .. Len(bl) : l \in I => \E k \in 1 .. Len(q) : q[k] = bl[l]
    BY <2>6
  <2> HIDE DEF q
  <2>8. \A k \in 1 .. Len(q) : q[k].id \in Nat
    <3>1. \A k \in 1 .. Len(q) : q[k] \in Blocks
      BY <2>7
    <3>2. QED
      BY <3>1 DEF Blocks
  <2>9. a = [k \in 1 .. Len(q) |-> a[k]] /\ \A k \in 1 .. Len(q) : a[k] = ResultBlock(q[k].id)
    BY <2>7
  <2> HIDE DEF a
  <2> DEFINE R == [kind : {"result"}, id : Nat]
  <2>10. \A k \in 1 .. Len(q) : a[k] \in R /\ a[k].id = q[k].id
    BY <2>8, <2>9 DEF ResultBlock
  <2> HIDE DEF R
  <2>11. a \in Seq(R) /\ Len(a) = Len(q)
    BY <2>7, <2>9, <2>10, BuiltSequence
  <2>12. a \in Results
    BY <2>11 DEF Results, R
  <2>13. \A id : id \in IdsIn(a) <=> \E k \in 1 .. Len(q) : q[k].id = id
    BY <2>10, <2>11 DEF IdsIn
  <2>14. ASSUME NEW id \in IdsIn(a) PROVE id \in UsesOf(ms[i])
    <3>1. PICK k \in 1 .. Len(q) : q[k].id = id
      BY <2>13
    <3>2. PICK l \in 1 .. Len(bl) : l \in I /\ q[k] = bl[l]
      BY <2>7
    <3>3. QED
      BY <2>3, <2>5, <3>1, <3>2
  <2>15. ASSUME NEW id \in UsesOf(ms[i]), id \notin AllResults(ms) PROVE id \in IdsIn(a)
    <3>1. PICK l \in 1 .. Len(bl) : bl[l].kind = "use" /\ bl[l].id = id
      BY <2>5
    <3>2. PICK k \in 1 .. Len(q) : q[k] = bl[l]
      BY <2>4, <2>7, <2>15, <3>1
    <3>3. QED
      BY <2>13, <3>1, <3>2
  <2>16. QED
    BY <2>1, <2>12, <2>14, <2>15
<1>4. after = [i \in DOMAIN ms |-> after[i]]
  OBVIOUS
<1> HIDE DEF after
<1>5. Fits(ms, after)
  BY <1>2, <1>3, <1>4 DEF Fits
<1>6. Covered(ms, after)
  <2> SUFFICES ASSUME NEW n \in 1 .. Len(ms), NEW id \in UsesOf(ms[n]), id \notin IdsIn(after[n])
               PROVE  n < Len(ms) /\ id \in ResultsOf(ms[n + 1])
    BY DEF Covered
  <2>1. id \in AllResults(ms)
    BY <1>3
  <2>2. PICK k \in 1 .. Len(ms) : id \in ResultsOf(ms[k])
    BY <2>1, AllIn
  <2>3. k > 1 /\ id \in UsesOf(ms[k - 1])
    BY <2>2 DEF Linked
  <2>4. k - 1 \in 1 .. Len(ms)
    BY <1>2, <2>2, <2>3
  <2>5. UsesOf(ms[n]) \cap UsesOf(ms[k - 1]) # {}
    BY <2>3
  <2>6. n = k - 1
    BY <2>4, <2>5 DEF Apart
  <2>7. QED
    BY <1>2, <2>2, <2>6
<1>7. QED
  BY <1>1, <1>5, <1>6, PlaceChain

-----------------------------------------------------------------------------
(* Deduplicate *)

\* Retain keeps single what is single.
LEMMA RetainSingle ==
    ASSUME NEW bl \in Seq(Blocks), NEW I,
           \A j, l \in 1 .. Len(bl) :
               j \in I /\ l \in I /\ bl[j].kind = "result" /\ bl[l].kind = "result" /\ bl[j].id = bl[l].id => j = l
    PROVE  \A k, h \in 1 .. Len(Retain(bl, I)) :
               Retain(bl, I)[k].kind = "result" /\ Retain(bl, I)[h].kind = "result"
                 /\ Retain(bl, I)[k].id = Retain(bl, I)[h].id => k = h
<1> DEFINE q == Retain(bl, I)
<1> HIDE DEF Blocks
<1>1. q \in Seq(Blocks) /\ Picked(bl, I, q)
  BY RetainPicks
<1> HIDE DEF q
<1>2. PICK pos \in [1 .. Len(q) -> 1 .. Len(bl)] :
        /\ \A k \in 1 .. Len(q) : pos[k] \in I /\ q[k] = bl[pos[k]]
        /\ \A k, l \in 1 .. Len(q) : k < l => pos[k] < pos[l]
  BY <1>1 DEF Picked
<1>3. Len(q) \in Nat /\ Len(bl) \in Nat
  BY <1>1
<1>4. ASSUME NEW k \in 1 .. Len(q), NEW h \in 1 .. Len(q), q[k].kind = "result", q[h].kind = "result", q[k].id = q[h].id
      PROVE  k = h
  <2>1. pos[k] = pos[h]
    BY <1>2, <1>4
  <2>2. ~ (k < h) /\ ~ (h < k)
    BY <1>2, <1>3, <2>1
  <2>3. QED
    BY <1>3, <2>2
<1>5. \A k, h \in 1 .. Len(q) : q[k].kind = "result" /\ q[h].kind = "result" /\ q[k].id = q[h].id => k = h
  BY <1>4
<1>6. QED
  BY <1>5 DEF q

LEMMA DeduplicateIs ==
    ASSUME NEW ms \in Seq(Full), Apart(ms), Linked(ms), Closed(ms)
    PROVE  /\ Deduplicate(ms) \in Seq(Once)
           /\ Apart(Deduplicate(ms)) /\ Linked(Deduplicate(ms)) /\ Closed(Deduplicate(ms))
<1> DEFINE first(i, j) ==
               LET b == ms[i].blocks[j] IN
               b.kind = "result" =>
                   /\ \A k \in 1 .. (i - 1) : b.id \notin ResultsOf(ms[k])
                   /\ \A l \in 1 .. (j - 1) : ms[i].blocks[l].kind = "result" => ms[i].blocks[l].id # b.id
           ks == [i \in DOMAIN ms |-> [ms[i] EXCEPT !.blocks =
                     Retain(ms[i].blocks, {j \in DOMAIN ms[i].blocks : first(i, j)})]]
           K == [i \in DOMAIN ms |-> {j \in DOMAIN ms[i].blocks : first(i, j)}]
<1>1. Deduplicate(ms) = DropEmpty(ks)
  BY DEF Deduplicate, KeepBlocks
<1>2. /\ Len(ms) \in Nat /\ DOMAIN ms = 1 .. Len(ms) /\ ms \in Seq(Proper)
      /\ \A i \in 1 .. Len(ms) : /\ ms[i] \in Proper /\ ms[i].blocks # <<>> /\ ms[i].blocks \in Seq(Blocks)
                                 /\ DOMAIN ms[i].blocks = 1 .. Len(ms[i].blocks) /\ Len(ms[i].blocks) \in Nat
  <2>1. Len(ms) \in Nat /\ DOMAIN ms = 1 .. Len(ms) /\ \A i \in 1 .. Len(ms) : ms[i] \in Full
    BY HistoryIs
  <2>2. ms \in Seq(Proper)
    BY ProperSets
  <2>3. QED
    BY <2>1, <2>2, ProperIs DEF Full
<1>3. \A i \in 1 .. Len(ms) : \A j \in 1 .. Len(ms[i].blocks) : j \in K[i] <=> first(i, j)
  <2> HIDE DEF first
  <2>1. QED
    BY <1>2
<1>4. ks = StripAll(ms, K)
  <2> HIDE DEF first
  <2>1. QED
    BY DEF StripAll, Strip
<1> HIDE DEF K, ks
<1>5. /\ ks \in Seq(Proper) /\ Len(ks) = Len(ms)
      /\ \A i \in 1 .. Len(ms) :
           /\ ks[i].role = ms[i].role
           /\ ks[i].blocks = Retain(ms[i].blocks, K[i])
           /\ \A kind, id : id \in IdsOf(ks[i], kind) <=> Holds(ms[i], K[i], kind, id)
  <2> HIDE DEF first
  <2>1. QED
    BY <1>2, <1>4, Stripped, Zenon
\* The results of one message are in no earlier one.
<1>6. ASSUME NEW i \in 1 .. Len(ms), NEW k \in 1 .. (i - 1), NEW id \in ResultsOf(ms[i]), id \in ResultsOf(ms[k])
      PROVE  FALSE
  <2>1. k \in 1 .. Len(ms) /\ k # i
    BY <1>2
  <2>2. i > 1 /\ id \in UsesOf(ms[i - 1]) /\ k > 1 /\ id \in UsesOf(ms[k - 1])
    BY <1>6, <2>1 DEF Linked
  <2>3. i - 1 \in 1 .. Len(ms) /\ k - 1 \in 1 .. Len(ms) /\ i - 1 # k - 1
    BY <1>2, <2>1, <2>2
  <2>4. UsesOf(ms[i - 1]) \cap UsesOf(ms[k - 1]) # {}
    BY <2>2
  <2>5. QED
    BY <2>3, <2>4 DEF Apart
<1>7. ASSUME NEW i \in 1 .. Len(ms), NEW j \in 1 .. Len(ms[i].blocks)
      PROVE  j \in K[i] <=> (ms[i].blocks[j].kind = "result" =>
                 \A l \in 1 .. (j - 1) : ms[i].blocks[l].kind = "result" => ms[i].blocks[l].id # ms[i].blocks[j].id)
  <2>1. ms[i].blocks[j].kind = "result" => ms[i].blocks[j].id \in ResultsOf(ms[i])
    BY <1>2 DEF ResultsOf, IdsOf
  <2>2. QED
    BY <1>3, <1>6, <2>1
<1> HIDE DEF first
<1>8. ASSUME NEW i \in 1 .. Len(ms)
      PROVE  ks[i] \in Once /\ UsesOf(ks[i]) = UsesOf(ms[i]) /\ ResultsOf(ks[i]) = ResultsOf(ms[i])
  <2> DEFINE bl == ms[i].blocks
             I == K[i]
             q == Retain(bl, I)
  <2>1. /\ bl \in Seq(Blocks) /\ bl # <<>> /\ DOMAIN bl = 1 .. Len(bl) /\ Len(bl) \in Nat
        /\ \A j \in 1 .. Len(bl) : j \in I <=>
             (bl[j].kind = "result" => \A l \in 1 .. (j - 1) : bl[l].kind = "result" => bl[l].id # bl[j].id)
    BY <1>2, <1>7
  <2>2. /\ ks[i] \in Proper /\ ks[i].blocks = q
        /\ \A kind, id : id \in IdsOf(ks[i], kind) <=> \E j \in 1 .. Len(bl) : j \in I /\ bl[j].kind = kind /\ bl[j].id = id
    BY <1>5, HistoryIs DEF Holds
  <2>3. \A kind, id : id \in IdsOf(ms[i], kind) <=> \E j \in 1 .. Len(bl) : bl[j].kind = kind /\ bl[j].id = id
    BY <1>2 DEF IdsOf
  <2> HIDE DEF bl, I
  <2>4. UsesOf(ks[i]) = UsesOf(ms[i])
    <3>1. ASSUME NEW id PROVE id \in IdsOf(ks[i], "use") <=> id \in IdsOf(ms[i], "use")
      <4>1. \A j \in 1 .. Len(bl) : bl[j].kind = "use" => j \in I
        BY <2>1
      <4>2. QED
        BY <2>2, <2>3, <4>1
    <3>2. QED
      BY <3>1 DEF UsesOf
  <2>5. ResultsOf(ks[i]) = ResultsOf(ms[i])
    <3>1. ASSUME NEW id \in IdsOf(ms[i], "result") PROVE id \in IdsOf(ks[i], "result")
      <4> DEFINE S == {j \in 1 .. Len(bl) : bl[j].kind = "result" /\ bl[j].id = id}
      <4>1. S \in SUBSET Nat /\ S # {}
        BY <2>1, <2>3
      <4>2. PICK x \in S : \A y \in S : x <= y
        BY <4>1, Least
      <4>3. \A l \in 1 .. (x - 1) : l \notin S
        BY <2>1, <4>2
      <4>4. x \in 1 .. Len(bl) /\ bl[x].kind = "result" /\ bl[x].id = id
        OBVIOUS
      <4>5. \A l \in 1 .. (x - 1) : bl[l].kind = "result" => bl[l].id # id
        BY <2>1, <4>3, <4>4
      <4>6. x \in I
        BY <2>1, <4>4, <4>5
      <4>7. QED
        BY <2>2, <4>4, <4>6
    <3>2. ASSUME NEW id \in IdsOf(ks[i], "result") PROVE id \in IdsOf(ms[i], "result")
      BY <2>2, <2>3
    <3>3. QED
      BY <3>1, <3>2 DEF ResultsOf
  <2>6. 1 \in 1 .. Len(bl) /\ 1 \in I
    <3>1. Len(bl) # 0
      <4> HIDE DEF Blocks
      <4>1. QED
        BY <2>1
    <3>2. 1 \in 1 .. Len(bl) /\ \A l \in 1 .. (1 - 1) : FALSE
      BY <2>1, <3>1
    <3>3. QED
      BY <2>1, <3>2
  <2>7. q # <<>>
    <3> HIDE DEF Blocks
    <3>1. /\ Retain(bl, I) \in Seq(Blocks)
          /\ \A l \in 1 .. Len(bl) : l \in I => \E k \in 1 .. Len(Retain(bl, I)) : Retain(bl, I)[k] = bl[l]
      <4>1. bl \in Seq(Blocks)
        BY <2>1
      <4>2. QED
        BY <4>1, RetainElements
    <3>2. PICK k \in 1 .. Len(q) : q[k] = bl[1]
      BY <2>6, <3>1
    <3>3. QED
      BY <3>2
  <2>8. Single(ks[i])
    <3>1. ASSUME NEW j \in 1 .. Len(bl), NEW l \in 1 .. Len(bl), j \in I, l \in I,
                 bl[j].kind = "result", bl[l].kind = "result", bl[j].id = bl[l].id
          PROVE  j = l
      <4>1. ~ (j < l) /\ ~ (l < j)
        BY <2>1, <3>1
      <4>2. QED
        BY <2>1, <4>1
    <3>2. \A k, h \in 1 .. Len(q) : q[k].kind = "result" /\ q[h].kind = "result" /\ q[k].id = q[h].id => k = h
      <4>1. bl \in Seq(Blocks)
        BY <2>1
      <4>2. \A j, l \in 1 .. Len(bl) :
               j \in I /\ l \in I /\ bl[j].kind = "result" /\ bl[l].kind = "result" /\ bl[j].id = bl[l].id => j = l
        BY <3>1
      <4>3. QED
        BY <4>1, <4>2, RetainSingle
    <3>3. QED
      BY <2>2, <3>2 DEF Single
  <2>9. QED
    BY <2>2, <2>4, <2>5, <2>7, <2>8 DEF Once, Full
<1>9. ks \in Seq(Once)
  <2>1. ks = [i \in 1 .. Len(ms) |-> ks[i]]
    BY <1>5, HistoryIs
  <2>2. \A i \in 1 .. Len(ms) : ks[i] \in Once
    BY <1>8
  <2>3. QED
    BY <1>2, <2>1, <2>2, BuiltSequence
<1>10. DropEmpty(ks) = ks
  <2> DEFINE I == {i \in DOMAIN ks : ks[i].blocks # <<>>}
  <2>1. 1 .. Len(ks) \subseteq I
    BY <1>5, <1>8, HistoryIs DEF Once, Full
  <2> HIDE DEF I
  <2>2. Retain(ks, I) = ks
    BY <1>5, <2>1, RetainLength
  <2>3. QED
    BY <2>2 DEF DropEmpty, I
<1>11. Apart(ks)
  BY <1>5, <1>8 DEF Apart
<1>12. Linked(ks)
  <2> SUFFICES ASSUME NEW i \in 1 .. Len(ks), NEW id \in ResultsOf(ks[i]) PROVE i > 1 /\ id \in UsesOf(ks[i - 1])
    BY DEF Linked
  <2>1. i > 1 /\ id \in UsesOf(ms[i - 1])
    BY <1>5, <1>8 DEF Linked
  <2>2. i - 1 \in 1 .. Len(ms)
    BY <1>2, <1>5, <2>1
  <2>3. QED
    BY <1>8, <2>1, <2>2
<1>13. Closed(ks)
  <2> SUFFICES ASSUME NEW i \in 1 .. Len(ks), NEW id \in UsesOf(ks[i]) PROVE i < Len(ks) /\ id \in ResultsOf(ks[i + 1])
    BY DEF Closed
  <2>1. i < Len(ms) /\ id \in ResultsOf(ms[i + 1])
    BY <1>5, <1>8 DEF Closed
  <2>2. i + 1 \in 1 .. Len(ms)
    BY <1>2, <1>5, <2>1
  <2>3. QED
    BY <1>5, <1>8, <2>1, <2>2
<1>14. QED
  BY <1>1, <1>9, <1>10, <1>11, <1>12, <1>13

-----------------------------------------------------------------------------
(* RemoveAborted: what was aborted holds no calls and no results *)

\* The message is not an answer that was cut off before anything was said.
Heard(m) == ~ (m.role = "assistant" /\ IsBlank(m))
Voiced(ms) == \A i \in 1 .. (Len(ms) - 1) : Heard(ms[i])

LEMMA RemoveAbortedIs ==
    ASSUME NEW ms \in Seq(Once), Apart(ms), Linked(ms), Closed(ms)
    PROVE  /\ RemoveAborted(ms) \in Seq(Once)
           /\ Apart(RemoveAborted(ms)) /\ Linked(RemoveAborted(ms)) /\ Closed(RemoveAborted(ms))
           /\ Voiced(RemoveAborted(ms))
<1> DEFINE I == {i \in DOMAIN ms : ~ (ms[i].role = "assistant" /\ IsBlank(ms[i]) /\ i < Len(ms))}
           r == Retain(ms, I)
<1>1. RemoveAborted(ms) = r
  BY DEF RemoveAborted
<1>2. Len(ms) \in Nat /\ DOMAIN ms = 1 .. Len(ms) /\ \A i \in 1 .. Len(ms) : ms[i] \in Once
  BY HistoryIs
<1>3. \A i \in 1 .. Len(ms) : UsesOf(ms[i]) # {} \/ ResultsOf(ms[i]) # {} => i \in I
  <2>1. \A i \in 1 .. Len(ms) : IsBlank(ms[i]) => UsesOf(ms[i]) = {} /\ ResultsOf(ms[i]) = {}
    BY DEF IsBlank, UsesOf, ResultsOf, IdsOf
  <2>2. QED
    BY <1>2, <2>1
<1>4. \A i \in I : i = Len(ms) \/ Heard(ms[i])
  BY <1>2 DEF Heard
<1> HIDE DEF I
<1>5. r \in Seq(Once) /\ Picked(ms, I, r)
  BY RetainPicks
<1> HIDE DEF r
<1>6. Apart(r) /\ Linked(r) /\ Closed(r)
  BY <1>3, <1>5, PickedChain
<1>7. Voiced(r)
  <2>1. PICK pos \in [1 .. Len(r) -> 1 .. Len(ms)] :
          /\ \A k \in 1 .. Len(r) : pos[k] \in I /\ r[k] = ms[pos[k]]
          /\ \A k, l \in 1 .. Len(r) : k < l => pos[k] < pos[l]
    BY <1>5 DEF Picked
  <2>2. Len(r) \in Nat
    BY <1>5, HistoryIs
  <2>3. ASSUME NEW k \in 1 .. (Len(r) - 1) PROVE Heard(r[k])
    <3>1. k \in 1 .. Len(r) /\ k + 1 \in 1 .. Len(r) /\ k < k + 1
      BY <2>2
    <3>2. pos[k] < pos[k + 1] /\ pos[k] \in 1 .. Len(ms) /\ pos[k + 1] \in 1 .. Len(ms)
      BY <2>1, <3>1
    <3>3. pos[k] # Len(ms)
      BY <1>2, <3>2
    <3>4. QED
      BY <1>4, <2>1, <3>1, <3>3
  <2>4. QED
    BY <2>3 DEF Voiced
<1>8. QED
  BY <1>1, <1>5, <1>6, <1>7

-----------------------------------------------------------------------------
(* MergeRoles: two messages of one role, of which the first makes no calls   *)
(* and the second gives no results                                           *)

Join(a, m) == [role |-> m.role, blocks |-> a.blocks \o m.blocks]

LEMMA JoinIs ==
    ASSUME NEW a \in Once, NEW m \in Once, a.role = m.role, UsesOf(a) = {}, ResultsOf(m) = {}
    PROVE  /\ Join(a, m) \in Once /\ Join(a, m).role = m.role
           /\ UsesOf(Join(a, m)) = UsesOf(m) /\ ResultsOf(Join(a, m)) = ResultsOf(a)
           /\ Heard(m) => Heard(Join(a, m))
<1> DEFINE g == Join(a, m)
           old == a.blocks
           bs == m.blocks
           all == old \o bs
<1>1. /\ old # <<>> /\ old \in Seq(Blocks) /\ Len(old) \in Nat /\ DOMAIN old = 1 .. Len(old)
      /\ bs # <<>> /\ bs \in Seq(Blocks) /\ Len(bs) \in Nat /\ DOMAIN bs = 1 .. Len(bs)
      /\ a \in Proper /\ m \in Proper /\ m \in Messages(Blocks) /\ Single(a)
  BY ProperIs DEF Once, Full
<1>2. g.role = m.role /\ g.blocks = all /\ g = [role |-> m.role, blocks |-> all]
  BY DEF Join
<1>3. /\ all \in Seq(Blocks) /\ Len(all) = Len(old) + Len(bs) /\ DOMAIN all = 1 .. (Len(old) + Len(bs))
      /\ \A j \in 1 .. Len(old) : all[j] = old[j]
      /\ \A j \in 1 .. Len(bs) : all[Len(old) + j] = bs[j]
      /\ Len(old) # 0
  <2> HIDE DEF Blocks, old, bs
  <2>1. QED
    BY <1>1
<1> HIDE DEF all, g
<1>4. ASSUME NEW j \in 1 .. (Len(old) + Len(bs)) PROVE j \in 1 .. Len(old) \/ \E l \in 1 .. Len(bs) : j = Len(old) + l
  <2>0. Len(old) \in Nat /\ Len(bs) \in Nat
    BY <1>1
  <2> HIDE DEF old, bs
  <2>1. j > Len(old) => j - Len(old) \in 1 .. Len(bs) /\ j = Len(old) + (j - Len(old))
    BY <2>0
  <2>2. QED
    BY <2>0, <2>1
<1>5. ASSUME NEW kind, NEW id
      PROVE  id \in IdsOf(g, kind) <=> id \in IdsOf(a, kind) \/ id \in IdsOf(m, kind)
  <2>1. id \in IdsOf(g, kind) <=> \E j \in 1 .. (Len(old) + Len(bs)) : all[j].kind = kind /\ all[j].id = id
    BY <1>2, <1>3 DEF IdsOf
  <2>2. id \in IdsOf(a, kind) <=> \E j \in 1 .. Len(old) : old[j].kind = kind /\ old[j].id = id
    BY <1>1 DEF IdsOf
  <2>3. id \in IdsOf(m, kind) <=> \E j \in 1 .. Len(bs) : bs[j].kind = kind /\ bs[j].id = id
    BY <1>1 DEF IdsOf
  <2> HIDE DEF old, bs
  <2>4. ASSUME id \in IdsOf(g, kind) PROVE id \in IdsOf(a, kind) \/ id \in IdsOf(m, kind)
    <3>1. PICK j \in 1 .. (Len(old) + Len(bs)) : all[j].kind = kind /\ all[j].id = id
      BY <2>1, <2>4
    <3>2. CASE j \in 1 .. Len(old)
      BY <1>3, <2>2, <3>1, <3>2
    <3>3. ASSUME NEW l \in 1 .. Len(bs), j = Len(old) + l PROVE id \in IdsOf(m, kind)
      BY <1>3, <2>3, <3>1, <3>3
    <3>4. QED
      BY <1>4, <3>2, <3>3
  <2>5. ASSUME id \in IdsOf(a, kind) PROVE id \in IdsOf(g, kind)
    <3>1. PICK j \in 1 .. Len(old) : old[j].kind = kind /\ old[j].id = id
      BY <2>2, <2>5
    <3>2. j \in 1 .. (Len(old) + Len(bs)) /\ all[j] = old[j]
      BY <1>1, <1>3, <3>1
    <3>3. QED
      BY <2>1, <3>1, <3>2
  <2>6. ASSUME id \in IdsOf(m, kind) PROVE id \in IdsOf(g, kind)
    <3>1. PICK j \in 1 .. Len(bs) : bs[j].kind = kind /\ bs[j].id = id
      BY <2>3, <2>6
    <3>2. Len(old) + j \in 1 .. (Len(old) + Len(bs)) /\ all[Len(old) + j] = bs[j]
      BY <1>1, <1>3, <3>1
    <3>3. QED
      BY <2>1, <3>1, <3>2
  <2>7. QED
    BY <2>4, <2>5, <2>6
<1>6. UsesOf(g) = UsesOf(m) /\ ResultsOf(g) = ResultsOf(a)
  <2>1. \A id : id \in UsesOf(g) <=> id \in UsesOf(m)
    BY <1>5 DEF UsesOf
  <2>2. \A id : id \in ResultsOf(g) <=> id \in ResultsOf(a)
    BY <1>5 DEF ResultsOf
  <2>3. QED
    BY <2>1, <2>2
<1>7. Single(g)
  <2>1. ASSUME NEW j \in 1 .. (Len(old) + Len(bs)), all[j].kind = "result" PROVE j \in 1 .. Len(old)
    <3>1. ASSUME NEW l \in 1 .. Len(bs), j = Len(old) + l PROVE FALSE
      <4>1. bs[l].kind = "result"
        BY <1>3, <2>1, <3>1
      <4>2. bs[l].id \in ResultsOf(m)
        BY <1>1, <4>1 DEF ResultsOf, IdsOf
      <4>3. QED
        BY <4>2
    <3>2. QED
      BY <1>4, <3>1
  <2>2. \A j, l \in 1 .. Len(old) :
           old[j].kind = "result" /\ old[l].kind = "result" /\ old[j].id = old[l].id => j = l
    BY <1>1 DEF Single
  <2> HIDE DEF old, bs
  <2>3. ASSUME NEW j \in 1 .. Len(g.blocks), NEW l \in 1 .. Len(g.blocks),
               g.blocks[j].kind = "result", g.blocks[l].kind = "result", g.blocks[j].id = g.blocks[l].id
        PROVE  j = l
    <3>1. /\ j \in 1 .. (Len(old) + Len(bs)) /\ l \in 1 .. (Len(old) + Len(bs))
          /\ all[j].kind = "result" /\ all[l].kind = "result" /\ all[j].id = all[l].id
      BY <1>2, <1>3, <2>3
    <3>2. j \in 1 .. Len(old) /\ l \in 1 .. Len(old)
      BY <2>1, <3>1
    <3>3. QED
      BY <1>3, <2>2, <3>1, <3>2
  <2>4. QED
    BY <2>3 DEF Single
<1>8. all # <<>>
  <2> HIDE DEF Blocks, old, bs
  <2>1. QED
    BY <1>1, <1>3
<1>9. g \in Once
  <2>1. g \in Messages(Blocks)
    BY <1>1, <1>2, <1>3 DEF Messages
  <2>2. m.role = "user" => UsesOf(m) = {}
    BY <1>1 DEF Proper
  <2>3. m.role # "user" => ResultsOf(a) = {}
    BY <1>1 DEF Proper
  <2>4. g \in Proper
    BY <1>2, <1>6, <2>1, <2>2, <2>3 DEF Proper
  <2>5. QED
    BY <1>2, <1>7, <1>8, <2>4 DEF Once, Full
<1>10. Heard(m) => Heard(g)
  <2>1. ASSUME NEW j \in DOMAIN bs PROVE Len(old) + j \in DOMAIN all /\ all[Len(old) + j] = bs[j]
    <3> HIDE DEF old, bs
    <3>1. QED
      BY <1>1, <1>3
  <2>2. IsBlank(g) => IsBlank(m)
    BY <1>2, <2>1 DEF IsBlank
  <2>3. QED
    BY <1>2, <2>2 DEF Heard
<1>11. QED
  BY <1>2, <1>6, <1>9, <1>10 DEF g

\* What is merged so far, with its last message exchanged.
LEMMA ExchangeChain ==
    ASSUME NEW T, NEW g \in Seq(T), g # <<>>, NEW r \in Seq(T), Len(r) = Len(g),
           \A i \in 1 .. (Len(g) - 1) : r[i] = g[i],
           LastUses(g) = {}, ResultsOf(r[Len(g)]) = ResultsOf(g[Len(g)]), Held(g)
    PROVE  /\ Apart(g) /\ AllUses(g) \cap UsesOf(r[Len(g)]) = {} => Apart(r)
           /\ Linked(g) => Linked(r)
           /\ Held(r)
           /\ AllUses(r) = AllUses(g) \cup UsesOf(r[Len(g)])
           /\ LastUses(r) = UsesOf(r[Len(g)])
<1> DEFINE N == Len(g)
<1>1. N \in Nat /\ N # 0 /\ N \in 1 .. N /\ r # <<>>
  OBVIOUS
<1>2. \A i \in 1 .. N : i \in 1 .. (N - 1) \/ i = N
  BY <1>1
<1>3. UsesOf(g[N]) = {}
  BY DEF LastUses
<1>4. /\ \A id : id \in AllUses(g) <=> \E i \in 1 .. N : id \in UsesOf(g[i])
      /\ \A id : id \in AllUses(r) <=> \E i \in 1 .. N : id \in UsesOf(r[i])
  BY AllIn
<1>5. \A i \in 1 .. N : ResultsOf(r[i]) = ResultsOf(g[i]) /\ (i # N => UsesOf(r[i]) = UsesOf(g[i]))
  BY <1>2
<1>6. Len(r) = N
  OBVIOUS
<1> HIDE DEF N
<1>7. ASSUME Apart(g), AllUses(g) \cap UsesOf(r[N]) = {} PROVE Apart(r)
  <2> SUFFICES ASSUME NEW i \in 1 .. N, NEW k \in 1 .. N, NEW id, id \in UsesOf(r[i]), id \in UsesOf(r[k])
               PROVE  i = k
    BY <1>6 DEF Apart
  <2>1. CASE i # N /\ k # N
    <3>1. UsesOf(g[i]) \cap UsesOf(g[k]) # {}
      BY <1>5, <2>1
    <3>2. QED
      BY <1>7, <2>1, <3>1 DEF Apart, N
  <2>2. CASE i # N /\ k = N
    BY <1>4, <1>5, <1>7, <2>2
  <2>3. CASE i = N /\ k # N
    BY <1>4, <1>5, <1>7, <2>3
  <2>4. QED
    BY <2>1, <2>2, <2>3
<1>8. ASSUME Linked(g) PROVE Linked(r)
  <2> SUFFICES ASSUME NEW i \in 1 .. N, NEW id \in ResultsOf(r[i])
               PROVE  i > 1 /\ id \in UsesOf(r[i - 1])
    BY <1>6 DEF Linked
  <2>1. i > 1 /\ id \in UsesOf(g[i - 1])
    BY <1>5, <1>8 DEF Linked, N
  <2>2. i - 1 \in 1 .. N /\ i - 1 # N
    BY <1>1, <2>1
  <2>3. QED
    BY <1>5, <2>1, <2>2
<1>9. Held(r)
  <2> SUFFICES ASSUME NEW i \in 1 .. (N - 1), NEW id \in UsesOf(r[i]) PROVE id \in ResultsOf(r[i + 1])
    BY <1>6 DEF Held
  <2>1. i \in 1 .. N /\ i + 1 \in 1 .. N /\ i # N
    BY <1>1
  <2>2. id \in UsesOf(g[i])
    BY <1>5, <2>1
  <2>3. id \in ResultsOf(g[i + 1])
    BY <2>2 DEF Held, N
  <2>4. QED
    BY <1>5, <2>1, <2>3
<1>10. AllUses(r) = AllUses(g) \cup UsesOf(r[N])
  <2>1. ASSUME NEW id PROVE id \in AllUses(r) <=> id \in AllUses(g) \/ id \in UsesOf(r[N])
    BY <1>1, <1>3, <1>4, <1>5
  <2>2. QED
    BY <2>1
<1>11. LastUses(r) = UsesOf(r[N])
  BY <1>1, <1>6 DEF LastUses
<1>12. QED
  BY <1>7, <1>8, <1>9, <1>10, <1>11 DEF N

\* No two neighbours of one role.
Alternates(ms) == \A i \in 1 .. (Len(ms) - 1) : ms[i].role # ms[i + 1].role

\* What the first n messages are merged into.
MergedWell(g, ms, n) ==
    /\ g \in Seq(Once) /\ Apart(g) /\ Linked(g) /\ Held(g) /\ Alternates(g) /\ Voiced(g)
    /\ AllUses(g) = UsesUpTo(ms, n)
    /\ n # 0 => /\ g # <<>> /\ Last(g).role = ms[n].role /\ LastUses(g) = UsesOf(ms[n])
                /\ n < Len(ms) => Heard(Last(g))
    /\ n = 0 => g = <<>>

LEMMA MergedChain ==
    ASSUME NEW ms \in Seq(Once), Apart(ms), Linked(ms), Closed(ms), Voiced(ms),
           NEW n \in 0 .. (Len(ms) - 1), NEW g, MergedWell(g, ms, n)
    PROVE  MergedWell(Merged(g, ms[n + 1]), ms, n + 1)
<1> DEFINE p == n + 1
           m == ms[p]
           r == Merged(g, m)
<1>1. /\ Len(ms) \in Nat /\ DOMAIN ms = 1 .. Len(ms) /\ \A i \in 1 .. Len(ms) : ms[i] \in Once
      /\ p \in 1 .. Len(ms) /\ n = p - 1 /\ n \in Nat /\ p # 0 /\ (n # 0 => n \in 1 .. Len(ms)) /\ n < Len(ms)
  BY HistoryIs
<1>2. /\ g \in Seq(Once) /\ Apart(g) /\ Linked(g) /\ Held(g) /\ Alternates(g) /\ Voiced(g)
      /\ AllUses(g) = UsesUpTo(ms, n) /\ Len(g) \in Nat
      /\ n # 0 => g # <<>> /\ Last(g).role = ms[n].role /\ LastUses(g) = UsesOf(ms[n]) /\ Heard(Last(g))
      /\ n = 0 => g = <<>>
  BY <1>1 DEF MergedWell
<1> HIDE DEF p
<1>3. m \in Once /\ m \in Proper
  BY <1>1 DEF Once, Full
<1>4. UsesUpTo(ms, p) = UsesUpTo(ms, n) \cup UsesOf(m)
  <2>1. \A i : i \in 1 .. p <=> i \in 1 .. n \/ i = p
    BY <1>1
  <2>2. QED
    BY <2>1 DEF UsesUpTo
<1>5. AllUses(g) \cap UsesOf(m) = {}
  <2>1. ASSUME NEW id \in UsesOf(m), id \in AllUses(g) PROVE FALSE
    <3>1. PICK i \in 1 .. n : id \in UsesOf(ms[i])
      BY <1>2, <2>1 DEF UsesUpTo
    <3>2. i \in 1 .. Len(ms) /\ i # p
      BY <1>1
    <3>3. UsesOf(ms[i]) \cap UsesOf(ms[p]) # {}
      BY <2>1, <3>1
    <3>4. QED
      BY <1>1, <3>2, <3>3 DEF Apart
  <2>2. QED
    BY <2>1
<1>6. ResultsOf(m) \subseteq LastUses(g) /\ LastUses(g) \subseteq ResultsOf(m)
  <2>1. ASSUME NEW id \in ResultsOf(m) PROVE id \in LastUses(g)
    <3>1. p > 1 /\ id \in UsesOf(ms[p - 1])
      BY <1>1 DEF Linked
    <3>2. n # 0
      BY <1>1, <3>1
    <3>3. QED
      BY <1>1, <1>2, <3>1, <3>2
  <2>2. ASSUME NEW id \in LastUses(g) PROVE id \in ResultsOf(m)
    <3>1. n # 0
      BY <1>2, <2>2 DEF LastUses
    <3>2. id \in UsesOf(ms[n]) /\ n \in 1 .. Len(ms)
      BY <1>1, <1>2, <2>2, <3>1
    <3>3. id \in ResultsOf(ms[n + 1])
      BY <3>2 DEF Closed
    <3>4. QED
      BY <3>3 DEF p
  <2>3. QED
    BY <2>1, <2>2
<1>7. p < Len(ms) => Heard(m)
  BY <1>1 DEF Voiced
<1>8. Seq(Once) \subseteq Seq(Messages(Blocks)) /\ Once \subseteq Messages(Blocks)
  <2>1. Once \subseteq Messages(Blocks)
    BY ProperSets
  <2> HIDE DEF Once, Messages
  <2>2. QED
    BY <2>1
<1>9. CASE g # <<>> /\ Last(g).role = m.role
  <2>1. Last(g) = g[Len(g)] /\ Len(g) \in 1 .. Len(g) /\ g[Len(g)] \in Once /\ LastUses(g) = UsesOf(g[Len(g)])
    BY <1>2, <1>9 DEF Last, LastUses
  <2> DEFINE a == g[Len(g)]
  <2>2. a \in Once /\ a \in Proper /\ a.role = m.role
    BY <1>9, <2>1 DEF Once, Full
  <2> HIDE DEF a
  <2>3. UsesOf(a) = {} /\ ResultsOf(m) = {}
    <3>1. a.role = "user" \/ a.role = "assistant"
      BY <2>2, ProperIs
    <3>2. CASE a.role = "user"
      <4>1. UsesOf(a) = {}
        BY <2>2, <3>2, ProperIs
      <4>2. QED
        BY <1>6, <2>1, <4>1 DEF a
    <3>3. CASE a.role = "assistant"
      <4>1. ResultsOf(m) = {}
        BY <1>3, <2>2, <3>3, ProperIs
      <4>2. QED
        BY <1>6, <2>1, <4>1 DEF a
    <3>4. QED
      BY <3>1, <3>2, <3>3
  <2>4. /\ r \in Seq(Messages(Blocks)) /\ r # <<>> /\ Len(r) = Len(g)
        /\ Last(r) = Join(a, m)
        /\ \A i \in 1 .. (Len(g) - 1) : r[i] = g[i]
    <3>1. g \in Seq(Messages(Blocks)) /\ m \in Messages(Blocks)
      BY <1>2, <1>3, <1>8
    <3> HIDE DEF m, r, Blocks, Messages
    <3>2. /\ Merged(g, m) \in Seq(Messages(Blocks))
          /\ Merged(g, m) # <<>>
          /\ Len(Merged(g, m)) = Len(g)
          /\ Last(Merged(g, m)) = [role |-> m.role, blocks |-> Last(g).blocks \o m.blocks]
          /\ \A i \in 1 .. (Len(g) - 1) : Merged(g, m)[i] = g[i]
      BY <1>9, <3>1, MergedIs
    <3>3. QED
      BY <2>1, <3>2 DEF Join, a, r
  <2>5. r[Len(g)] = Join(a, m)
    BY <2>4 DEF Last
  <2>6. /\ Join(a, m) \in Once /\ Join(a, m).role = m.role
        /\ UsesOf(Join(a, m)) = UsesOf(m) /\ ResultsOf(Join(a, m)) = ResultsOf(a)
        /\ Heard(m) => Heard(Join(a, m))
    BY <1>3, <2>2, <2>3, JoinIs
  <2> HIDE DEF r
  <2>7. r \in Seq(Once)
    <3>1. r = [i \in 1 .. Len(g) |-> r[i]]
      BY <2>4, HistoryIs
    <3>2. \A i \in 1 .. Len(g) : g[i] \in Once
      BY <1>2, HistoryIs
    <3>3. \A i \in 1 .. Len(g) : r[i] \in Once
      BY <1>2, <2>4, <2>5, <2>6, <3>2
    <3>4. QED
      BY <1>2, <3>1, <3>3, BuiltSequence
  <2>8. LastUses(g) = {} /\ ResultsOf(r[Len(g)]) = ResultsOf(g[Len(g)]) /\ UsesOf(r[Len(g)]) = UsesOf(m)
    BY <2>1, <2>3, <2>5, <2>6 DEF a
  <2>9. /\ Apart(g) /\ AllUses(g) \cap UsesOf(r[Len(g)]) = {} => Apart(r)
        /\ Linked(g) => Linked(r)
        /\ Held(r)
        /\ AllUses(r) = AllUses(g) \cup UsesOf(r[Len(g)])
        /\ LastUses(r) = UsesOf(r[Len(g)])
    BY <1>2, <1>9, <2>4, <2>7, <2>8, ExchangeChain
  <2>10. Alternates(r)
    <3> SUFFICES ASSUME NEW i \in 1 .. (Len(g) - 1) PROVE r[i].role # r[i + 1].role
      BY <2>4 DEF Alternates
    <3>1. i + 1 \in 1 .. (Len(g) - 1) \/ i + 1 = Len(g)
      BY <1>2
    <3>2. r[i + 1].role = g[i + 1].role
      BY <2>2, <2>4, <2>5, <2>6, <3>1 DEF a
    <3>3. QED
      BY <1>2, <2>4, <3>2 DEF Alternates
  <2>11. Voiced(r)
    BY <1>2, <2>4 DEF Voiced
  <2>12. QED
    BY <1>1, <1>2, <1>4, <1>5, <1>7, <2>4, <2>6, <2>7, <2>8, <2>9, <2>10, <2>11 DEF MergedWell, p, r
<1>10. CASE ~ (g # <<>> /\ Last(g).role = m.role)
  <2>1. r = Append(g, m)
    BY <1>10 DEF Merged
  <2> HIDE DEF r
  <2>2. /\ Len(r) = Len(g) + 1 /\ r[Len(g) + 1] = m /\ r # <<>> /\ Last(r) = m
        /\ \A i \in 1 .. Len(g) : r[i] = g[i]
    BY <1>2, <1>3, <2>1 DEF Last
  <2>3. /\ r \in Seq(Once)
        /\ Apart(r) /\ Linked(r) /\ Held(r)
        /\ AllUses(r) = AllUses(g) \cup UsesOf(m)
        /\ LastUses(r) = UsesOf(m)
    BY <1>2, <1>3, <1>5, <1>6, <2>1, AppendChain
  <2>4. \A i \in 1 .. (Len(r) - 1) : i \in 1 .. (Len(g) - 1) \/ (i = Len(g) /\ g # <<>> /\ g[Len(g)] = Last(g))
    BY <1>2, <2>2 DEF Last
  <2>5. Alternates(r)
    <3> SUFFICES ASSUME NEW i \in 1 .. (Len(r) - 1) PROVE r[i].role # r[i + 1].role
      BY DEF Alternates
    <3>1. CASE i \in 1 .. (Len(g) - 1)
      <4>1. i \in 1 .. Len(g) /\ i + 1 \in 1 .. Len(g)
        BY <1>2, <3>1
      <4>2. QED
        BY <1>2, <2>2, <3>1, <4>1 DEF Alternates
    <3>2. CASE i = Len(g) /\ g # <<>> /\ g[Len(g)] = Last(g)
      <4>1. i \in 1 .. Len(g)
        BY <1>2, <2>2, <3>2
      <4>2. QED
        BY <1>10, <2>2, <3>2, <4>1
    <3>3. QED
      BY <2>4, <3>1, <3>2
  <2>6. Voiced(r)
    <3> SUFFICES ASSUME NEW i \in 1 .. (Len(r) - 1) PROVE Heard(r[i])
      BY DEF Voiced
    <3>1. i \in 1 .. Len(g)
      BY <1>2, <2>2
    <3>2. QED
      BY <1>2, <2>2, <2>4, <3>1 DEF Voiced
  <2>7. QED
    BY <1>1, <1>2, <1>4, <1>7, <2>2, <2>3, <2>5, <2>6 DEF MergedWell, p, r
<1>11. QED
  BY <1>9, <1>10

LEMMA MergeIs ==
    ASSUME NEW ms \in Seq(Once), Apart(ms), Linked(ms), Closed(ms), Voiced(ms)
    PROVE  /\ MergeRoles(ms) \in Seq(Once)
           /\ Apart(MergeRoles(ms)) /\ Linked(MergeRoles(ms)) /\ Closed(MergeRoles(ms))
           /\ Voiced(MergeRoles(ms)) /\ Alternates(MergeRoles(ms))
           /\ AllUses(MergeRoles(ms)) = AllUses(ms)
<1>1. Len(ms) \in Nat /\ DOMAIN ms = 1 .. Len(ms) /\ ms \in Seq(Messages(Blocks))
  <2>1. Once \subseteq Messages(Blocks)
    BY ProperSets
  <2> HIDE DEF Once, Messages
  <2>2. QED
    BY <2>1
<1>2. PICK f : MergesUpTo(f, ms, Blocks) /\ MergeRoles(ms) = f[Len(ms)]
  BY <1>1, MergeStep, Zenon
<1>3. f[0] = <<>> /\ \A n \in 1 .. Len(ms) : f[n] = Merged(f[n - 1], ms[n])
  BY <1>2, Zenon DEF MergesUpTo
<1> DEFINE S == {n \in 0 .. Len(ms) : MergedWell(f[n], ms, n)}
<1>4. 0 \in S
  <2>1. <<>> \in Seq(Once) /\ Len(<<>>) = 0
    OBVIOUS
  <2>2. AllUses(<<>>) = UsesUpTo(ms, 0)
    BY DEF AllUses, UsesUpTo
  <2>3. \A i \in 1 .. 0 : FALSE
    OBVIOUS
  <2>4. Apart(<<>>) /\ Linked(<<>>) /\ Held(<<>>) /\ Alternates(<<>>) /\ Voiced(<<>>)
    BY <2>1, <2>3 DEF Apart, Linked, Held, Alternates, Voiced
  <2>5. MergedWell(<<>>, ms, 0)
    BY <2>1, <2>2, <2>4 DEF MergedWell
  <2>6. 0 \in 0 .. Len(ms)
    BY <1>1
  <2>7. QED
    BY <1>3, <2>5, <2>6
<1>5. ASSUME NEW n \in 0 .. (Len(ms) - 1), n \in S PROVE n + 1 \in S
  <2> DEFINE k == n + 1
  <2>1. k \in 1 .. Len(ms) /\ k - 1 = n /\ k \in 0 .. Len(ms)
    BY <1>1
  <2>2. MergedWell(f[n], ms, n)
    BY <1>5
  <2>3. MergedWell(Merged(f[n], ms[k]), ms, k)
    BY <2>2, MergedChain
  <2> HIDE DEF k
  <2>4. f[k] = Merged(f[n], ms[k])
    <3>1. f[k] = Merged(f[k - 1], ms[k])
      BY <1>3, <2>1, Zenon
    <3>2. QED
      BY <2>1, <3>1, Zenon
  <2>5. k \in S
    BY <2>1, <2>3, <2>4
  <2>6. QED
    BY <2>5 DEF k
<1>6. 0 .. Len(ms) \subseteq S
  <2> HIDE DEF S
  <2>1. QED
    BY <1>1, <1>4, <1>5, Induction
<1> DEFINE r == f[Len(ms)]
<1>7. MergedWell(r, ms, Len(ms))
  BY <1>1, <1>6
<1> HIDE DEF r, S
<1>8. /\ r \in Seq(Once) /\ Apart(r) /\ Linked(r) /\ Held(r) /\ Alternates(r) /\ Voiced(r)
      /\ AllUses(r) = UsesUpTo(ms, Len(ms))
      /\ Len(ms) # 0 => LastUses(r) = UsesOf(ms[Len(ms)])
      /\ Len(ms) = 0 => r = <<>>
  BY <1>7 DEF MergedWell
<1>9. LastUses(r) = {}
  <2>1. Len(ms) # 0 => UsesOf(ms[Len(ms)]) = {}
    BY <1>1 DEF Closed
  <2>2. QED
    BY <1>8, <2>1 DEF LastUses
<1>10. Closed(r)
  BY <1>8, <1>9, HeldCloses
<1>11. AllUses(ms) = UsesUpTo(ms, Len(ms))
  BY <1>1 DEF AllUses, UsesUpTo
<1>12. QED
  BY <1>2, <1>8, <1>10, <1>11 DEF r

-----------------------------------------------------------------------------
(* What repair leaves *)

\* The histories that repair leaves alone.
Sound(ms) ==
    ms \in Seq(Once) /\ Apart(ms) /\ Linked(ms) /\ Closed(ms) /\ Voiced(ms) /\ Alternates(ms)

LEMMA RepairIs ==
    ASSUME NEW ms \in Seq(Proper), Apart(ms)
    PROVE  Sound(ValidateAndRepair(ms))
<1> DEFINE a == DropOrphans(ms)
           b == ReorderResults(a)
           c == InsertSynthetic(b)
           d == Deduplicate(c)
           e == RemoveAborted(d)
<1>1. a \in Seq(Full) /\ Apart(a) /\ AllResults(a) \subseteq AllUses(a)
  BY DropOrphansIs
<1> HIDE DEF a
<1>2. b \in Seq(Full) /\ Apart(b) /\ Linked(b)
  BY <1>1, ReorderIs
<1> HIDE DEF b
<1>3. c \in Seq(Full) /\ Apart(c) /\ Linked(c) /\ Closed(c)
  BY <1>2, InsertIs
<1> HIDE DEF c
<1>4. d \in Seq(Once) /\ Apart(d) /\ Linked(d) /\ Closed(d)
  BY <1>3, DeduplicateIs
<1> HIDE DEF d
<1>5. e \in Seq(Once) /\ Apart(e) /\ Linked(e) /\ Closed(e) /\ Voiced(e)
  BY <1>4, RemoveAbortedIs
<1> HIDE DEF e
<1>6. Sound(MergeRoles(e))
  BY <1>5, MergeIs DEF Sound
<1>7. QED
  BY <1>6 DEF ValidateAndRepair, a, b, c, d, e

\* A provider accepts it.
LEMMA SoundIsWellFormed ==
    ASSUME NEW ms, Sound(ms)
    PROVE  WellFormed(ms)
<1>1. ms \in Seq(Once) /\ Apart(ms) /\ Linked(ms) /\ Closed(ms) /\ Alternates(ms)
  BY DEF Sound
<1>2. Len(ms) \in Nat /\ DOMAIN ms = 1 .. Len(ms) /\ \A i \in 1 .. Len(ms) : ms[i] \in Once
  BY <1>1, HistoryIs
<1>3. UsesAnsweredIn(ms)
  <2> SUFFICES ASSUME NEW i \in DOMAIN ms, NEW id \in UsesOf(ms[i])
               PROVE  /\ i < Len(ms) /\ ms[i + 1].role = "user"
                      /\ Cardinality({j \in DOMAIN ms[i + 1].blocks :
                             ms[i + 1].blocks[j].kind = "result" /\ ms[i + 1].blocks[j].id = id}) = 1
    BY DEF UsesAnsweredIn
  <2>1. i < Len(ms) /\ id \in ResultsOf(ms[i + 1])
    BY <1>1, <1>2 DEF Closed
  <2> DEFINE m == ms[i + 1]
             S == {j \in DOMAIN m.blocks : m.blocks[j].kind = "result" /\ m.blocks[j].id = id}
  <2>2. m \in Proper /\ Single(m)
    BY <1>2, <2>1 DEF Once, Full
  <2> HIDE DEF m
  <2>3. DOMAIN m.blocks = 1 .. Len(m.blocks) /\ m.role = "user"
    BY <2>1, <2>2, ProperIs DEF m
  <2>4. PICK j \in S : TRUE
    BY <2>1 DEF ResultsOf, IdsOf, m
  <2>5. \A l \in S : l = j
    BY <2>2, <2>3 DEF Single
  <2>6. S = {j}
    BY <2>4, <2>5
  <2>7. Cardinality({j}) = 1
    BY FS_Singleton
  <2>8. QED
    BY <2>1, <2>3, <2>6, <2>7 DEF m
<1>4. NoOrphansIn(ms)
  BY <1>1, <1>2 DEF NoOrphansIn, Linked
<1>5. \A i \in DOMAIN ms : ms[i].blocks # <<>>
  BY <1>2 DEF Once, Full
<1>6. QED
  BY <1>1, <1>3, <1>4, <1>5 DEF WellFormed, Alternates

\* Messages of alternating roles are not merged.
LEMMA AlternatesStays ==
    ASSUME NEW B, NEW ms \in Seq(Messages(B)), Alternates(ms)
    PROVE  MergeRoles(ms) = ms
<1>1. Len(ms) \in Nat /\ DOMAIN ms = 1 .. Len(ms) /\ \A i \in 1 .. Len(ms) : ms[i] \in Messages(B)
  <2> HIDE DEF Messages
  <2>1. QED
    OBVIOUS
<1>2. PICK f : MergesUpTo(f, ms, B) /\ MergeRoles(ms) = f[Len(ms)]
  BY MergeStep, Zenon
<1>3. f \in [0 .. Len(ms) -> Seq(Messages(B))] /\ f[0] = <<>> /\ \A n \in 1 .. Len(ms) : f[n] = Merged(f[n - 1], ms[n])
  BY <1>2, Zenon DEF MergesUpTo
<1> HIDE DEF Messages
<1> DEFINE Upto(n) == Len(f[n]) = n /\ \A i \in 1 .. n : f[n][i] = ms[i]
           S == {n \in 0 .. Len(ms) : Upto(n)}
<1>4. 0 \in S
  BY <1>1, <1>3
<1>5. ASSUME NEW n \in 0 .. (Len(ms) - 1), n \in S PROVE n + 1 \in S
  <2> DEFINE k == n + 1
  <2>1. k \in 1 .. Len(ms) /\ k - 1 = n /\ k \in 0 .. Len(ms) /\ n \in Nat /\ n \in 0 .. Len(ms)
    BY <1>1
  <2>2. Len(f[n]) = n /\ \A i \in 1 .. n : f[n][i] = ms[i]
    BY <1>5
  <2>3. n # 0 => ms[n].role # ms[k].role
    BY <1>1, <2>1 DEF Alternates
  <2>4. \A i \in 1 .. k : i \in 1 .. n \/ i = k
    BY <2>1
  <2>5. k = n + 1
    OBVIOUS
  <2> HIDE DEF k
  <2>6. f[k] = Merged(f[n], ms[k])
    <3>1. f[k] = Merged(f[k - 1], ms[k])
      BY <1>3, <2>1, Zenon
    <3>2. QED
      BY <2>1, <3>1, Zenon
  <2> DEFINE g == f[n]
  <2>7. g \in Seq(Messages(B)) /\ Len(g) = n /\ \A i \in 1 .. n : g[i] = ms[i]
    BY <1>3, <2>1, <2>2
  <2> HIDE DEF g
  <2>8. ~ (g # <<>> /\ Last(g).role = ms[k].role)
    <3>1. g # <<>> => n # 0
      BY <2>7
    <3>2. n # 0 => Last(g) = ms[n]
      BY <2>1, <2>7 DEF Last
    <3>3. QED
      BY <2>3, <3>1, <3>2
  <2>9. Merged(g, ms[k]) = Append(g, ms[k])
    BY <2>8 DEF Merged
  <2>10. /\ Len(Append(g, ms[k])) = n + 1 /\ Append(g, ms[k])[n + 1] = ms[k]
         /\ \A i \in 1 .. n : Append(g, ms[k])[i] = ms[i]
    BY <2>7
  <2>11. Upto(k)
    BY <2>4, <2>5, <2>6, <2>9, <2>10 DEF g
  <2>12. QED
    BY <2>1, <2>5, <2>11
<1>6. 0 .. Len(ms) \subseteq S
  <2> HIDE DEF S
  <2>1. QED
    BY <1>1, <1>4, <1>5, Induction
<1> DEFINE r == f[Len(ms)]
<1>7. r \in Seq(Messages(B)) /\ Upto(Len(ms))
  BY <1>1, <1>3, <1>6
<1>8. r = ms
  BY <1>1, <1>7
<1>9. QED
  BY <1>2, <1>8

\* Repair has nothing to do in what it left.
LEMMA SoundStays ==
    ASSUME NEW ms, Sound(ms)
    PROVE  ValidateAndRepair(ms) = ms
<1>1. ms \in Seq(Once) /\ Apart(ms) /\ Linked(ms) /\ Closed(ms) /\ Voiced(ms) /\ Alternates(ms)
  BY DEF Sound
<1>2. Len(ms) \in Nat /\ DOMAIN ms = 1 .. Len(ms) /\ \A i \in 1 .. Len(ms) : ms[i] \in Once
  BY <1>1, HistoryIs
<1>3. ms \in Seq(Proper) /\ ms \in Seq(Messages(Blocks))
  <2>1. Once \subseteq Proper /\ Once \subseteq Messages(Blocks)
    BY ProperSets
  <2> HIDE DEF Once, Messages, Proper
  <2>2. QED
    BY <1>1, <2>1
<1>4. ASSUME NEW i \in DOMAIN ms
      PROVE  /\ ms[i] \in Proper /\ ms[i].blocks # <<>> /\ Single(ms[i]) /\ DOMAIN ms[i].blocks = 1 .. Len(ms[i].blocks)
             /\ \A j \in DOMAIN ms[i].blocks : ms[i].blocks[j].kind = "result" => ms[i].blocks[j].id \in ResultsOf(ms[i])
             /\ \A j \in DOMAIN ms[i].blocks : ms[i].blocks[j].kind = "use" => ms[i].blocks[j].id \in UsesOf(ms[i])
  <2>1. ms[i] \in Proper /\ ms[i].blocks # <<>> /\ Single(ms[i])
    BY <1>2 DEF Once, Full
  <2>2. QED
    BY <2>1, ProperIs, IdIn DEF ResultsOf, UsesOf
<1>5. AllResults(ms) \subseteq AllUses(ms)
  <2>1. ASSUME NEW id \in AllResults(ms) PROVE id \in AllUses(ms)
    <3>1. PICK i \in 1 .. Len(ms) : id \in ResultsOf(ms[i])
      BY <1>1, <2>1, AllIn
    <3>2. i > 1 /\ id \in UsesOf(ms[i - 1])
      BY <1>1, <3>1 DEF Linked
    <3>3. i - 1 \in 1 .. Len(ms)
      BY <1>2, <3>2
    <3>4. QED
      BY <1>1, <3>2, <3>3, AllIn
  <2>2. QED
    BY <2>1
<1>6. ASSUME NEW i \in DOMAIN ms, NEW j \in DOMAIN ms[i].blocks, ms[i].blocks[j].kind = "result"
      PROVE  ms[i].blocks[j].id \in AllUses(ms) /\ ~ Misplaced(ms, i, j) /\ FirstResult(ms, i, j)
  <2> DEFINE id == ms[i].blocks[j].id
  <2>1. id \in ResultsOf(ms[i]) /\ i \in 1 .. Len(ms) /\ j \in 1 .. Len(ms[i].blocks)
    BY <1>2, <1>4, <1>6
  <2>2. i > 1 /\ id \in UsesOf(ms[i - 1])
    BY <1>1, <2>1 DEF Linked
  <2>3. i - 1 \in 1 .. Len(ms) /\ (i - 1) + 1 = i
    BY <1>2, <2>1, <2>2
  <2>4. id \in AllUses(ms)
    BY <1>1, <2>2, <2>3, AllIn
  <2>5. UseAt(ms, id) = i - 1
    BY <1>1, <1>3, <2>2, <2>3, UseAtIs
  <2>6. ~ Misplaced(ms, i, j)
    BY <2>3, <2>5 DEF Misplaced
  <2>7. ASSUME NEW k \in 1 .. (i - 1), id \in ResultsOf(ms[k]) PROVE FALSE
    <3>1. k \in 1 .. Len(ms) /\ k # i
      BY <1>2, <2>1
    <3>2. k > 1 /\ id \in UsesOf(ms[k - 1])
      BY <1>1, <2>7, <3>1 DEF Linked
    <3>3. k - 1 \in 1 .. Len(ms) /\ k - 1 # i - 1
      BY <1>2, <2>1, <3>1, <3>2
    <3>4. UsesOf(ms[i - 1]) \cap UsesOf(ms[k - 1]) # {}
      BY <2>2, <3>2
    <3>5. QED
      BY <1>1, <2>3, <3>3, <3>4 DEF Apart
  <2>8. ASSUME NEW l \in 1 .. (j - 1), ms[i].blocks[l].kind = "result", ms[i].blocks[l].id = id PROVE FALSE
    <3>1. l \in 1 .. Len(ms[i].blocks) /\ l # j
      <4>1. Len(ms[i].blocks) \in Nat
        BY <1>4, ProperIs
      <4>2. QED
        BY <2>1, <4>1
    <3>2. QED
      BY <1>4, <1>6, <2>1, <2>8, <3>1 DEF Single
  <2>9. QED
    BY <2>4, <2>6, <2>7, <2>8 DEF FirstResult
<1>7. ASSUME NEW i \in DOMAIN ms, NEW j \in DOMAIN ms[i].blocks, ms[i].blocks[j].kind = "use"
      PROVE  ms[i].blocks[j].id \in AllResults(ms)
  <2> DEFINE id == ms[i].blocks[j].id
  <2>1. id \in UsesOf(ms[i]) /\ i \in 1 .. Len(ms)
    BY <1>2, <1>4, <1>7
  <2>2. i < Len(ms) /\ id \in ResultsOf(ms[i + 1])
    BY <1>1, <2>1 DEF Closed
  <2>3. i + 1 \in 1 .. Len(ms)
    BY <1>2, <2>1, <2>2
  <2>4. QED
    BY <1>1, <2>2, <2>3, AllIn
<1>8. \A i \in DOMAIN ms : ms[i].role = "assistant" /\ i < Len(ms) => ~ IsBlank(ms[i])
  BY <1>1, <1>2 DEF Voiced, Heard
<1>9. Settled(ms)
  BY <1>4, <1>6, <1>7, <1>8 DEF Settled
<1>10. ValidateAndRepair(ms) = MergeRoles(ms)
  BY <1>3, <1>9, SettledStays
<1>11. MergeRoles(ms) = ms
  BY <1>1, <1>3, AlternatesStays
<1>12. QED
  BY <1>10, <1>11

-----------------------------------------------------------------------------
(* Repair, for histories of any length *)

\* Repair turns every history, misplaced, duplicate, missing and orphaned
\* results included, into one that a provider accepts, and has nothing to do in
\* one it has repaired, whatever the length of the history
\* (session_repair.rs:44).
THEOREM RepairStaysSound == Spec => []RepairIsSound
<1>1. RepairIsSound
  <2> SUFFICES ASSUME NEW n \in 0 .. MaxRepair, NEW ms \in [1 .. n -> RepairMessages],
                      \A i, k \in 1 .. n : UsesOf(ms[i]) \cap UsesOf(ms[k]) # {} => i = k
               PROVE  /\ WellFormed(ValidateAndRepair(ms))
                      /\ ValidateAndRepair(ValidateAndRepair(ms)) = ValidateAndRepair(ms)
    BY DEF RepairIsSound
  <2>1. n \in Nat
    BY LimitsType
  <2>2. ms \in Seq(Proper) /\ Len(ms) = n
    <3>1. ms = [i \in 1 .. n |-> ms[i]] /\ \A i \in 1 .. n : ms[i] \in RepairMessages
      OBVIOUS
    <3>2. \A i \in 1 .. n : ms[i] \in Proper
      BY <3>1, RepairMessagesType
    <3>3. QED
      BY <2>1, <3>1, <3>2, BuiltSequence
  <2>3. Apart(ms)
    BY <2>2 DEF Apart
  <2>4. Sound(ValidateAndRepair(ms))
    BY <2>2, <2>3, RepairIs
  <2>5. QED
    BY <2>4, SoundIsWellFormed, SoundStays
<1>2. QED
  BY <1>1, PTL DEF Spec

-----------------------------------------------------------------------------
(* Requests: the calls in a history are numbered, and the calls in what is   *)
(* sent are answered by the message after them                               *)

\* m answers the calls of a, each once.
AnswersAll(a, m) ==
    \A id \in UsesOf(a) :
        /\ m.role = "user"
        /\ Cardinality({j \in DOMAIN m.blocks : m.blocks[j].kind = "result" /\ m.blocks[j].id = id}) = 1
Chain(ms) == \A i \in 1 .. (Len(ms) - 1) : AnswersAll(ms[i], ms[i + 1])
Sendable(ms) == ms \in Session /\ Chain(ms) /\ LastUses(ms) = {}

\* No call has a number above n.
Numbered(ms, n) == ms \in Seq(Proper) /\ Apart(ms) /\ AllUses(ms) \subseteq 1 .. n

\* The number before those of the current response; the calls that were made
\* have results and the others follow.
Given == lastId - Len(calls) - Len(results)
Awaiting ==
    /\ msgs # <<>> /\ Chain(msgs) /\ Given \in Nat
    /\ LastUses(msgs) \subseteq (Given + 1) .. lastId
    /\ \A k \in 1 .. Len(results) : results[k].id = Given + k
    /\ \A k \in 1 .. Len(calls) : calls[k].id = Given + Len(results) + k

RequestInv ==
    /\ iter \in Nat /\ msgs \in Session
    /\ Numbered(stored, lastId) /\ Numbered(work, lastId)
    /\ pc \in {"loop", "llm"} => Sendable(msgs) /\ (iter = 0 /\ ~ cut => WellFormed(msgs))
    /\ pc = "tools" => Awaiting

LEMMA SendableIs ==
    ASSUME NEW ms \in Session
    PROVE  UsesAnsweredIn(ms) <=> Chain(ms) /\ LastUses(ms) = {}
<1>1. Len(ms) \in Nat /\ DOMAIN ms = 1 .. Len(ms)
  BY SessionIs
<1>2. ms = <<>> <=> Len(ms) = 0
  <2> DEFINE M == Messages(Blocks)
  <2>1. ms \in Seq(M)
    BY DEF Session
  <2> HIDE DEF M
  <2>2. QED
    BY <2>1
<1>3. ASSUME UsesAnsweredIn(ms) PROVE Chain(ms) /\ LastUses(ms) = {}
  <2>1. ASSUME NEW i \in 1 .. (Len(ms) - 1) PROVE AnswersAll(ms[i], ms[i + 1])
    <3>1. i \in DOMAIN ms
      BY <1>1
    <3>2. QED
      BY <1>3, <3>1 DEF UsesAnsweredIn, AnswersAll
  <2>2. Len(ms) # 0 => UsesOf(ms[Len(ms)]) = {}
    <3>1. ASSUME Len(ms) # 0, NEW id \in UsesOf(ms[Len(ms)]) PROVE FALSE
      <4>1. Len(ms) \in DOMAIN ms /\ ~ (Len(ms) < Len(ms))
        BY <1>1, <3>1
      <4>2. Len(ms) < Len(ms)
        BY <1>3, <3>1, <4>1, Zenon DEF UsesAnsweredIn
      <4>3. QED
        BY <4>1, <4>2
    <3>2. QED
      BY <3>1
  <2>3. QED
    BY <1>2, <2>1, <2>2 DEF Chain, LastUses
<1>4. ASSUME Chain(ms), LastUses(ms) = {} PROVE UsesAnsweredIn(ms)
  <2> SUFFICES ASSUME NEW i \in DOMAIN ms, NEW id \in UsesOf(ms[i])
               PROVE  /\ i < Len(ms) /\ ms[i + 1].role = "user"
                      /\ Cardinality({j \in DOMAIN ms[i + 1].blocks :
                             ms[i + 1].blocks[j].kind = "result" /\ ms[i + 1].blocks[j].id = id}) = 1
    BY DEF UsesAnsweredIn
  <2>1. i # Len(ms)
    BY <1>1, <1>2, <1>4 DEF LastUses
  <2>2. i \in 1 .. (Len(ms) - 1) /\ i < Len(ms)
    BY <1>1, <2>1
  <2>3. AnswersAll(ms[i], ms[i + 1])
    BY <1>4, <2>2 DEF Chain
  <2>4. QED
    BY <2>2, <2>3 DEF AnswersAll
<1>5. QED
  BY <1>3, <1>4

LEMMA ChainAppend ==
    ASSUME NEW ms \in Session, NEW m \in Messages(Blocks), Chain(ms),
           ms # <<>> => AnswersAll(ms[Len(ms)], m)
    PROVE  /\ Append(ms, m) \in Session /\ Append(ms, m) # <<>>
           /\ Chain(Append(ms, m)) /\ LastUses(Append(ms, m)) = UsesOf(m)
<1> DEFINE r == Append(ms, m)
<1>1. /\ r \in Session /\ Len(r) = Len(ms) + 1 /\ r[Len(ms) + 1] = m /\ Len(ms) \in Nat
      /\ \A i \in 1 .. Len(ms) : r[i] = ms[i]
  BY AppendIs, SessionIs
<1> HIDE DEF r
<1>2. r # <<>> /\ (Len(ms) # 0 => ms # <<>>)
  <2>1. Len(r) # 0 /\ Len(<<>>) = 0
    BY <1>1
  <2>2. QED
    BY <2>1
<1>3. Chain(r)
  <2> SUFFICES ASSUME NEW i \in 1 .. (Len(r) - 1) PROVE AnswersAll(r[i], r[i + 1])
    BY DEF Chain
  <2>1. i \in 1 .. Len(ms) /\ r[i] = ms[i]
    BY <1>1
  <2>2. CASE i = Len(ms)
    <3>1. ms # <<>> /\ r[i + 1] = m
      BY <1>1, <1>2, <2>1, <2>2
    <3>2. QED
      BY <2>1, <2>2, <3>1
  <2>3. CASE i # Len(ms)
    <3>1. i \in 1 .. (Len(ms) - 1) /\ i + 1 \in 1 .. Len(ms)
      BY <1>1, <2>1, <2>3
    <3>2. QED
      BY <1>1, <2>1, <3>1 DEF Chain
  <2>4. QED
    BY <2>2, <2>3
<1>4. LastUses(r) = UsesOf(m)
  BY <1>1, <1>2 DEF LastUses
<1>5. QED
  BY <1>1, <1>2, <1>3, <1>4 DEF r

LEMMA SendableAppend ==
    ASSUME NEW ms, Sendable(ms), NEW m \in Messages(Blocks), UsesOf(m) = {}
    PROVE  Sendable(Append(ms, m))
<1>1. ms \in Session /\ Chain(ms) /\ LastUses(ms) = {}
  BY DEF Sendable
<1>2. ms # <<>> => AnswersAll(ms[Len(ms)], m)
  BY <1>1 DEF LastUses, AnswersAll
<1>3. QED
  BY <1>1, <1>2, ChainAppend DEF Sendable

LEMMA SendableTail ==
    ASSUME NEW ms, Sendable(ms), NEW n \in Nat, n <= Len(ms)
    PROVE  Sendable(LastN(ms, n))
<1> DEFINE k == Len(ms) - n
           r == SubSeq(ms, k + 1, Len(ms))
           M == Messages(Blocks)
<1>1. ms \in Session /\ Chain(ms) /\ LastUses(ms) = {}
  BY DEF Sendable
<1>2. /\ Len(ms) \in Nat /\ k \in Nat /\ DOMAIN ms = 1 .. Len(ms) /\ Len(ms) = k + n /\ ms \in Seq(M)
      /\ \A i \in 1 .. Len(ms) : ms[i] \in M
  BY <1>1, SessionIs DEF Session
<1> HIDE DEF k, M
<1>3. /\ r = [i \in 1 .. n |-> ms[k + i]] /\ Len(r) = n
  BY <1>2
<1>4. \A i \in 1 .. n : r[i] = ms[k + i] /\ k + i \in 1 .. Len(ms)
  BY <1>2, <1>3
<1> HIDE DEF r
<1>5. r \in Seq(M)
  <2>1. r = [i \in 1 .. n |-> r[i]] /\ \A i \in 1 .. n : r[i] \in M
    BY <1>2, <1>3, <1>4
  <2>2. QED
    BY <2>1, BuiltSequence
<1>6. Chain(r)
  <2> SUFFICES ASSUME NEW i \in 1 .. (n - 1) PROVE AnswersAll(r[i], r[i + 1])
    BY <1>3 DEF Chain
  <2>1. i \in 1 .. n /\ i + 1 \in 1 .. n /\ k + i \in 1 .. (Len(ms) - 1) /\ k + (i + 1) = (k + i) + 1
    BY <1>2
  <2>2. AnswersAll(ms[k + i], ms[(k + i) + 1])
    BY <1>1, <2>1 DEF Chain
  <2>3. r[i] = ms[k + i] /\ r[i + 1] = ms[k + (i + 1)]
    BY <1>4, <2>1
  <2>4. QED
    BY <2>1, <2>2, <2>3
<1>7. LastUses(r) = {}
  <2>1. r # <<>> => n # 0
    BY <1>3, <1>5
  <2>2. n # 0 => n \in 1 .. n /\ r[n] = ms[Len(ms)] /\ ms # <<>>
    BY <1>2, <1>4
  <2>3. QED
    BY <1>1, <1>3, <2>1, <2>2 DEF LastUses
<1>8. QED
  BY <1>5, <1>6, <1>7 DEF Sendable, LastN, Session, M, r, k

LEMMA SendablePrepend ==
    ASSUME NEW ms, Sendable(ms), NEW u \in Messages(Blocks), UsesOf(u) = {}
    PROVE  Sendable(<<u>> \o ms)
<1> DEFINE r == <<u>> \o ms
           M == Messages(Blocks)
<1>1. ms \in Seq(M) /\ Chain(ms) /\ LastUses(ms) = {} /\ u \in M
  BY DEF Sendable, Session
<1> HIDE DEF M
<1>2. /\ r \in Seq(M) /\ Len(r) = Len(ms) + 1 /\ r[1] = u /\ Len(ms) \in Nat /\ r # <<>>
      /\ \A i \in 1 .. Len(ms) : r[i + 1] = ms[i]
      /\ ms # <<>> <=> Len(ms) # 0
  BY <1>1
<1> HIDE DEF r
<1>3. Chain(r)
  <2> SUFFICES ASSUME NEW i \in 1 .. (Len(r) - 1) PROVE AnswersAll(r[i], r[i + 1])
    BY DEF Chain
  <2>1. CASE i = 1
    BY <1>2, <2>1 DEF AnswersAll
  <2>2. CASE i # 1
    <3>1. PICK k \in 1 .. (Len(ms) - 1) : k = i - 1
      BY <1>2, <2>2
    <3>2. AnswersAll(ms[k], ms[k + 1])
      BY <1>1 DEF Chain
    <3>3. k \in 1 .. Len(ms) /\ k + 1 \in 1 .. Len(ms) /\ i = k + 1
      BY <1>2, <3>1
    <3>4. r[i] = ms[k] /\ r[i + 1] = ms[k + 1]
      BY <1>2, <3>3
    <3>5. QED
      BY <3>2, <3>4
  <2>3. QED
    BY <2>1, <2>2
<1>4. LastUses(r) = {}
  <2>1. CASE Len(ms) = 0
    BY <1>2, <2>1 DEF LastUses
  <2>2. CASE Len(ms) # 0
    <3>1. Len(ms) \in 1 .. Len(ms) /\ r[Len(ms) + 1] = ms[Len(ms)]
      BY <1>2, <2>2
    <3>2. QED
      BY <1>1, <1>2, <2>2, <3>1 DEF LastUses
  <2>3. QED
    BY <2>1, <2>2
<1>5. QED
  BY <1>2, <1>3, <1>4 DEF Sendable, Session, M, r

\* The messages that a turn adds, other than the calls of the model.
LEMMA AddsNoCalls ==
    /\ \A t \in Nat : Asking(t) \in Proper /\ UsesOf(Asking(t)) = {}
    /\ Assistant(<<TextBlock("text", 0)>>) \in Proper /\ UsesOf(Assistant(<<TextBlock("text", 0)>>)) = {}
    /\ Assistant(<<TextBlock("noreply", 0)>>) \in Proper /\ UsesOf(Assistant(<<TextBlock("noreply", 0)>>)) = {}
<1>1. ASSUME NEW m \in Messages(Blocks), NEW k \in {"text", "noreply"}, NEW t, m.blocks = <<TextBlock(k, t)>>
      PROVE  m \in Proper /\ UsesOf(m) = {}
  <2> DEFINE b == TextBlock(k, t)
  <2>1. b.kind = k
    BY DEF TextBlock
  <2> HIDE DEF b
  <2>2. DOMAIN m.blocks = {1} /\ m.blocks[1] = b
    BY <1>1 DEF b
  <2>3. \A j \in DOMAIN m.blocks : m.blocks[j].kind # "use" /\ m.blocks[j].kind # "result"
    BY <2>1, <2>2
  <2>4. UsesOf(m) = {} /\ ResultsOf(m) = {}
    BY <2>3 DEF UsesOf, ResultsOf, IdsOf
  <2>5. QED
    BY <2>4 DEF Proper
<1>2. QED
  BY <1>1, Adds DEF Asking, User, Assistant

LEMMA SendableRecover ==
    ASSUME NEW ms, Sendable(ms), NEW r \in RecoverFromOverflow(ms)
    PROVE  Sendable(r)
<1> DEFINE moderate == IF Len(ms) > KeepModerate THEN LastN(ms, KeepModerate) ELSE ms
           u == User(<<TextBlock("text", 0)>>)
           aggressive(s) == IF Len(s) > KeepAggressive THEN <<u>> \o LastN(s, KeepAggressive) ELSE s
<1>1. r \in {ms, moderate, aggressive(moderate), aggressive(ms)}
  BY DEF RecoverFromOverflow
<1>2. u \in Messages(Blocks) /\ UsesOf(u) = {}
  BY Adds, AddsNoCalls
<1>3. KeepModerate \in Nat /\ KeepAggressive \in Nat
  BY KeepsType
<1>4. ASSUME NEW s, Sendable(s) PROVE Len(s) \in Nat
  BY <1>4, SessionIs DEF Sendable
<1> HIDE DEF u
<1>5. Sendable(moderate)
  BY <1>3, <1>4, SendableTail
<1>6. ASSUME NEW s, Sendable(s) PROVE Sendable(aggressive(s))
  <2>1. CASE Len(s) > KeepAggressive
    <3>1. Sendable(LastN(s, KeepAggressive))
      BY <1>3, <1>4, <1>6, <2>1, SendableTail
    <3>2. Sendable(<<u>> \o LastN(s, KeepAggressive))
      BY <1>2, <3>1, SendablePrepend
    <3>3. QED
      BY <2>1, <3>2
  <2>2. CASE ~ (Len(s) > KeepAggressive)
    BY <1>6, <2>2
  <2>3. QED
    BY <2>1, <2>2
<1> HIDE DEF moderate, aggressive
<1>7. QED
  BY <1>1, <1>5, <1>6

LEMMA SendableTrim ==
    ASSUME NEW ms, Sendable(ms)
    PROVE  Sendable(TrimHistory(ms))
<1>1. MaxHistory \in Nat /\ Len(ms) \in Nat
  BY KeepsType, SessionIs DEF Sendable
<1>2. QED
  BY <1>1, SendableTail DEF TrimHistory

LEMMA NumberedAppend ==
    ASSUME NEW ms, NEW n \in Nat, Numbered(ms, n), NEW m \in Proper, NEW k \in Nat,
           UsesOf(m) \subseteq (n + 1) .. (n + k)
    PROVE  Numbered(Append(ms, m), n + k)
<1>1. ms \in Seq(Proper) /\ Apart(ms) /\ AllUses(ms) \subseteq 1 .. n
  BY DEF Numbered
<1>2. AllUses(ms) \cap UsesOf(m) = {}
  <2>1. \A x \in 1 .. n : x \notin (n + 1) .. (n + k)
    OBVIOUS
  <2>2. QED
    BY <1>1, <2>1
<1>3. /\ Append(ms, m) \in Seq(Proper) /\ Apart(Append(ms, m))
      /\ AllUses(Append(ms, m)) = AllUses(ms) \cup UsesOf(m)
  BY <1>1, <1>2, AppendChain
<1>4. 1 .. n \subseteq 1 .. (n + k) /\ (n + 1) .. (n + k) \subseteq 1 .. (n + k)
  OBVIOUS
<1>5. QED
  BY <1>1, <1>3, <1>4 DEF Numbered

LEMMA NumberedMore ==
    ASSUME NEW ms, NEW n \in Nat, Numbered(ms, n), NEW k \in Nat
    PROVE  Numbered(ms, n + k)
<1>1. 1 .. n \subseteq 1 .. (n + k)
  OBVIOUS
<1>2. QED
  BY <1>1 DEF Numbered

LEMMA NumberedQuiet ==
    ASSUME NEW ms, NEW n \in Nat, Numbered(ms, n), NEW m \in Proper, UsesOf(m) = {}
    PROVE  Numbered(Append(ms, m), n)
<1>1. Numbered(Append(ms, m), n + 0)
  BY NumberedAppend
<1>2. QED
  BY <1>1

LEMMA NumberedRetain ==
    ASSUME NEW ms, NEW n \in Nat, Numbered(ms, n), NEW I
    PROVE  Numbered(Retain(ms, I), n)
<1> DEFINE r == Retain(ms, I)
<1>1. ms \in Seq(Proper) /\ Apart(ms) /\ AllUses(ms) \subseteq 1 .. n
  BY DEF Numbered
<1>2. r \in Seq(Proper) /\ Picked(ms, I, r)
  BY <1>1, RetainPicks
<1> HIDE DEF r
<1>3. PICK pos \in [1 .. Len(r) -> 1 .. Len(ms)] :
        /\ \A k \in 1 .. Len(r) : r[k] = ms[pos[k]]
        /\ \A k, l \in 1 .. Len(r) : k < l => pos[k] < pos[l]
  BY <1>2 DEF Picked
<1>4. Len(r) \in Nat /\ Len(ms) \in Nat
  BY <1>1, <1>2, HistoryIs
<1>5. ASSUME NEW k \in 1 .. Len(r), NEW l \in 1 .. Len(r), UsesOf(r[k]) \cap UsesOf(r[l]) # {} PROVE k = l
  <2>1. pos[k] = pos[l]
    <3>1. pos[k] \in 1 .. Len(ms) /\ pos[l] \in 1 .. Len(ms) /\ r[k] = ms[pos[k]] /\ r[l] = ms[pos[l]]
      BY <1>3
    <3>2. UsesOf(ms[pos[k]]) \cap UsesOf(ms[pos[l]]) # {}
      BY <1>5, <3>1
    <3>3. QED
      BY <1>1, <3>1, <3>2 DEF Apart
  <2>2. ~ (k < l) /\ ~ (l < k)
    BY <1>3, <1>4, <2>1
  <2>3. QED
    BY <1>4, <2>2
<1>6. Apart(r)
  BY <1>5 DEF Apart
<1>7. AllUses(r) \subseteq AllUses(ms)
  BY <1>1, <1>2, <1>3, AllIn
<1>8. QED
  BY <1>1, <1>2, <1>6, <1>7 DEF Numbered, r

LEMMA NothingNumbered ==
    ASSUME NEW n \in Nat
    PROVE  Numbered(<<>>, n) /\ <<>> \in Session
<1>1. <<>> \in Seq(Proper) /\ Len(<<>>) = 0
  OBVIOUS
<1>2. Apart(<<>>) /\ AllUses(<<>>) = {}
  <2>1. \A i \in 1 .. 0 : FALSE
    OBVIOUS
  <2>2. Apart(<<>>)
    BY <1>1, <2>1 DEF Apart
  <2>3. AllUses(<<>>) = {}
    BY DEF AllUses
  <2>4. QED
    BY <2>2, <2>3
<1>3. <<>> \in Session
  <2> DEFINE M == Messages(Blocks)
  <2> HIDE DEF M
  <2>1. <<>> \in Seq(M)
    OBVIOUS
  <2>2. QED
    BY <2>1 DEF Session, M
<1>4. QED
  BY <1>1, <1>2, <1>3 DEF Numbered

LEMMA RequestInit == Init => RequestInv
<1> SUFFICES ASSUME Init PROVE RequestInv
  OBVIOUS
<1>1. stored = <<>> /\ work = <<>> /\ msgs = <<>> /\ iter = 0 /\ lastId = 0 /\ pc = "idle"
  BY DEF Init
<1>2. QED
  BY <1>1, NothingNumbered DEF RequestInv

LEMMA BeginRequests ==
    ASSUME TurnInv, RequestInv, Begin
    PROVE  RequestInv'
<1> DEFINE question == Asking(turn + 1)
           w == Append(stored, question)
           repaired == ValidateAndRepair(w)
<1>1. /\ work' = w /\ msgs' = TrimHistory(repaired) /\ cut' = (TrimHistory(repaired) # repaired)
      /\ pc' = "loop" /\ stored' = stored /\ iter' = iter /\ lastId' = lastId
  BY DEF Begin, Asking
<1>2. turn + 1 \in Nat /\ lastId \in Nat /\ Numbered(stored, lastId) /\ iter \in Nat
  BY DEF TurnInv, TurnTyped, RequestInv
<1>3. question \in Proper /\ UsesOf(question) = {}
  BY <1>2, AddsNoCalls
<1> HIDE DEF question
<1>4. Numbered(w, lastId)
  BY <1>2, <1>3, NumberedQuiet
<1>5. Sound(repaired)
  BY <1>4, RepairIs DEF Numbered
<1> HIDE DEF repaired, w
<1>6. WellFormed(repaired)
  BY <1>5, SoundIsWellFormed
<1>7. repaired \in Session
  <2>1. Once \subseteq Messages(Blocks)
    BY ProperSets
  <2> DEFINE M == Messages(Blocks)
  <2> HIDE DEF Once, M
  <2>2. repaired \in Seq(M)
    BY <1>5, <2>1 DEF Sound, M
  <2>3. QED
    BY <2>2 DEF Session, M
<1>8. Sendable(repaired)
  BY <1>6, <1>7, SendableIs DEF WellFormed, Sendable
<1>9. Sendable(TrimHistory(repaired))
  BY <1>8, SendableTrim
<1>10. ~ cut' => WellFormed(msgs')
  BY <1>1, <1>6
<1>11. msgs' \in Session
  BY <1>1, <1>9 DEF Sendable
<1>12. QED
  BY <1>1, <1>2, <1>4, <1>9, <1>10, <1>11 DEF RequestInv

LEMMA SendRequests ==
    ASSUME RequestInv, SendRequest
    PROVE  RequestInv'
<1>1. PICK ms \in RecoverFromOverflow(msgs) : msgs' = ms /\ cut' = (cut \/ ms # msgs)
  BY DEF SendRequest
<1>2. /\ pc = "loop" /\ pc' = "llm" /\ stored' = stored /\ work' = work /\ lastId' = lastId /\ iter' = iter
  BY DEF SendRequest
<1>3. Sendable(ms)
  BY <1>2, SendableRecover DEF RequestInv
<1>4. iter' = 0 /\ ~ cut' => WellFormed(msgs')
  BY <1>1, <1>2 DEF RequestInv
<1>5. QED
  BY <1>1, <1>2, <1>3, <1>4 DEF RequestInv, Sendable

\* A turn ends: what is stored is what was, or what the turn said.
LEMMA EndRequests ==
    ASSUME TurnInv, RequestInv, NEW r, EndTurn(r), Numbered(stored', lastId)
    PROVE  RequestInv'
<1>1. pc' = "idle" /\ work' = <<>> /\ msgs' = <<>> /\ iter' = 0 /\ lastId' = lastId
  BY DEF EndTurn
<1>2. lastId \in Nat
  BY DEF TurnInv, TurnTyped
<1>3. QED
  BY <1>1, <1>2, NothingNumbered DEF RequestInv

LEMMA EndsRequests ==
    ASSUME TurnInv, RequestInv,
           GiveUp \/ RequestFails \/ AnswerSilent \/ AnswerText \/ AnswerPartialLast \/ CircuitBreak \/ Abort
    PROVE  RequestInv'
<1> DEFINE silent == Append(work, Assistant(<<TextBlock("noreply", 0)>>))
           spoken == Append(work, Assistant(<<TextBlock("text", 0)>>))
           pruned == PruneHeartbeatTurns(spoken)
<1>1. lastId \in Nat /\ Numbered(stored, lastId) /\ Numbered(work, lastId)
  BY DEF TurnInv, TurnTyped, RequestInv
<1>2. Numbered(silent, lastId) /\ Numbered(spoken, lastId)
  BY <1>1, AddsNoCalls, NumberedQuiet
<1>3. \E r : EndTurn(r) /\ stored' \in {stored, work, silent, spoken, pruned}
  <2>1. CASE GiveUp
    BY <2>1 DEF GiveUp, Save
  <2>2. CASE RequestFails
    BY <2>2 DEF RequestFails
  <2>3. CASE AnswerSilent
    BY <2>3 DEF AnswerSilent, Save
  <2>4. CASE AnswerPartialLast
    BY <2>4 DEF AnswerPartialLast, Save
  <2>5. CASE CircuitBreak
    BY <2>5 DEF CircuitBreak, Save
  <2>6. CASE Abort
    BY <2>6 DEF Abort
  <2>7. CASE AnswerText
    BY <2>7 DEF AnswerText, Save
  <2>8. QED
    BY <2>1, <2>2, <2>3, <2>4, <2>5, <2>6, <2>7
<1> HIDE DEF silent, spoken
<1>4. Numbered(pruned, lastId)
  <2> DEFINE quiet == {i \in 1 .. (Len(spoken) - KeepRecent) :
                           spoken[i].role = "assistant" /\ IsNoReply(spoken[i])}
             asked == {i - 1 : i \in {k \in quiet : k > 1 /\ spoken[k - 1].role = "user"}}
             I == DOMAIN spoken \ (quiet \cup asked)
  <2>1. pruned = Retain(spoken, I)
    BY DEF PruneHeartbeatTurns
  <2> HIDE DEF I, pruned
  <2>2. Numbered(Retain(spoken, I), lastId)
    BY <1>1, <1>2, NumberedRetain
  <2>3. QED
    BY <2>1, <2>2
<1> HIDE DEF pruned
<1>5. PICK r : EndTurn(r) /\ stored' \in {stored, work, silent, spoken, pruned}
  BY <1>3
<1>6. Numbered(stored', lastId)
  BY <1>1, <1>2, <1>4, <1>5
<1>7. QED
  BY <1>5, <1>6, EndRequests

\* The model is asked again, or to go on.
LEMMA EmptyRequests ==
    ASSUME RequestInv, AnswerEmptyFirst
    PROVE  RequestInv'
<1> DEFINE a == Assistant(<<TextBlock("text", 0)>>)
           u == User(<<TextBlock("text", 0)>>)
           M == Messages(Blocks)
<1>1. /\ pc = "llm" /\ pc' = "loop" /\ msgs' = msgs \o <<a, u>> /\ iter' = iter + 1
      /\ stored' = stored /\ work' = work /\ lastId' = lastId
  BY DEF AnswerEmptyFirst, NextIteration
<1>2. a \in M /\ UsesOf(a) = {} /\ u \in M /\ UsesOf(u) = {}
  BY Adds, AddsNoCalls
<1>3. Sendable(msgs) /\ msgs \in Seq(M) /\ iter \in Nat
  BY <1>1 DEF RequestInv, Session
<1> HIDE DEF a, u
<1>4. Sendable(Append(Append(msgs, a), u))
  BY <1>2, <1>3, SendableAppend
<1>5. msgs \o <<a, u>> = Append(Append(msgs, a), u)
  <2> HIDE DEF M
  <2>1. QED
    BY <1>2, <1>3
<1>6. Sendable(msgs')
  BY <1>1, <1>4, <1>5
<1>7. iter' \in Nat /\ iter' # 0
  BY <1>1, <1>3
<1>8. QED
  BY <1>1, <1>6, <1>7 DEF RequestInv, Sendable

LEMMA PartialRequests ==
    ASSUME TurnInv, RequestInv, NEW blank \in BOOLEAN, AnswerPartial(blank)
    PROVE  RequestInv'
<1> DEFINE a == Assistant(<<TextBlock("text", 0)>>)
           u == User(<<TextBlock("text", 0)>>)
           M == Messages(Blocks)
           more(s) == IF blank THEN Append(s, u) ELSE Append(Append(s, a), u)
<1>1. /\ pc = "llm" /\ pc' = "loop" /\ iter' = iter + 1 /\ stored' = stored /\ lastId' = lastId
      /\ msgs' = msgs \o ((IF blank THEN <<>> ELSE <<a>>) \o <<u>>)
      /\ work' = work \o ((IF blank THEN <<>> ELSE <<a>>) \o <<u>>)
  BY DEF AnswerPartial, NextIteration
<1>2. a \in M /\ a \in Proper /\ UsesOf(a) = {} /\ u \in M /\ u \in Proper /\ UsesOf(u) = {}
  BY Adds, AddsNoCalls
<1>3. /\ Sendable(msgs) /\ msgs \in Seq(M) /\ iter \in Nat /\ work \in Seq(M) /\ lastId \in Nat
      /\ Numbered(work, lastId) /\ Numbered(stored, lastId)
  BY <1>1 DEF RequestInv, Session, TurnInv, TurnTyped
<1> HIDE DEF a, u
<1>4. ASSUME NEW s \in Seq(M) PROVE s \o ((IF blank THEN <<>> ELSE <<a>>) \o <<u>>) = more(s)
  <2> HIDE DEF M
  <2>1. s \o (<<>> \o <<u>>) = Append(s, u)
    BY <1>2
  <2>2. s \o (<<a>> \o <<u>>) = Append(Append(s, a), u)
    BY <1>2
  <2>3. QED
    BY <2>1, <2>2
<1>5. Sendable(more(msgs))
  BY <1>2, <1>3, SendableAppend
<1>6. Numbered(more(work), lastId)
  BY <1>2, <1>3, NumberedQuiet
<1>7. msgs' = more(msgs) /\ work' = more(work)
  BY <1>1, <1>3, <1>4
<1> HIDE DEF more
<1>8. iter' \in Nat /\ iter' # 0
  BY <1>1, <1>3
<1>9. QED
  BY <1>1, <1>3, <1>5, <1>6, <1>7, <1>8 DEF RequestInv, Sendable

\* The model makes calls, numbered from where the last response ended.
LEMMA ToolRequests ==
    ASSUME TurnInv, RequestInv, AnswerToolUse
    PROVE  RequestInv'
<1>1. PICK n \in 0 .. MaxCallsPerResponse, bare \in BOOLEAN :
        \E cs \in [1 .. n -> UsedCalls] :
         /\ calls' = [k \in 1 .. n |-> [call |-> cs[k], id |-> lastId + k]]
         /\ lastId' = lastId + n
         /\ work' = Append(work, Assistant(IF bare THEN <<>> ELSE [k \in 1 .. n |-> UseBlock(lastId + k)]))
         /\ msgs' = Append(msgs, Assistant(IF bare THEN <<>> ELSE [k \in 1 .. n |-> UseBlock(lastId + k)]))
  BY DEF AnswerToolUse
<1> DEFINE content == IF bare THEN <<>> ELSE [k \in 1 .. n |-> UseBlock(lastId + k)]
           m == Assistant(content)
<1>2. PICK cs \in [1 .. n -> UsedCalls] :
         /\ calls' = [k \in 1 .. n |-> [call |-> cs[k], id |-> lastId + k]]
         /\ lastId' = lastId + n /\ work' = Append(work, m) /\ msgs' = Append(msgs, m)
  BY <1>1
<1>3. pc = "llm" /\ results' = <<>> /\ pc' = "tools" /\ stored' = stored /\ iter' = iter
  BY DEF AnswerToolUse
<1>4. /\ n \in Nat /\ lastId \in Nat /\ iter \in Nat /\ msgs \in Session /\ Sendable(msgs)
      /\ Numbered(stored, lastId) /\ Numbered(work, lastId)
  BY <1>3, LimitsType DEF TurnInv, TurnTyped, RequestInv
<1>5. /\ content \in Seq(Blocks) /\ DOMAIN content \subseteq 1 .. n
      /\ \A k \in DOMAIN content : content[k].kind = "use" /\ content[k].id = lastId + k
  <2>1. CASE bare
    <3>1. content = <<>>
      BY <2>1
    <3> HIDE DEF content
    <3>2. QED
      BY <3>1
  <2>2. CASE ~ bare
    <3> DEFINE u(k) == UseBlock(lastId + k)
    <3>1. \A k \in 1 .. n : u(k) \in Blocks /\ u(k).kind = "use" /\ u(k).id = lastId + k
      BY <1>4 DEF UseBlock, Blocks
    <3>2. content = [k \in 1 .. n |-> u(k)]
      BY <2>2
    <3> HIDE DEF content, u
    <3>3. content = [k \in 1 .. n |-> content[k]] /\ \A k \in 1 .. n : content[k] = u(k)
      BY <3>2
    <3>4. content \in Seq(Blocks)
      BY <1>4, <3>1, <3>3, BuiltSequence
    <3>5. QED
      BY <3>1, <3>2, <3>3, <3>4
  <2>3. QED
    BY <2>1, <2>2
<1> HIDE DEF content
<1>6. m \in Messages(Blocks) /\ m.role = "assistant" /\ m.blocks = content
  BY <1>5 DEF Assistant, Messages
<1> HIDE DEF m
<1>7. UsesOf(m) \subseteq (lastId + 1) .. (lastId + n) /\ ResultsOf(m) = {}
  <2>1. ResultsOf(m) = {}
    BY <1>5, <1>6 DEF ResultsOf, IdsOf
  <2>2. ASSUME NEW id \in UsesOf(m) PROVE id \in (lastId + 1) .. (lastId + n)
    <3>1. PICK k \in DOMAIN content : id = lastId + k
      BY <1>5, <1>6, <2>2 DEF UsesOf, IdsOf
    <3>2. k \in 1 .. n
      BY <1>5
    <3>3. QED
      BY <1>4, <3>1, <3>2
  <2>3. QED
    BY <2>1, <2>2
<1>8. m \in Proper
  BY <1>6, <1>7 DEF Proper
<1>9. Numbered(work', lastId') /\ Numbered(stored', lastId')
  BY <1>2, <1>3, <1>4, <1>7, <1>8, NumberedAppend, NumberedMore
<1>10. msgs' \in Session /\ msgs' # <<>> /\ Chain(msgs') /\ LastUses(msgs') = UsesOf(m)
  <2>1. Chain(msgs) /\ LastUses(msgs) = {}
    BY <1>4 DEF Sendable
  <2>2. msgs # <<>> => AnswersAll(msgs[Len(msgs)], m)
    BY <2>1 DEF LastUses, AnswersAll
  <2>3. QED
    BY <1>2, <1>4, <1>6, <2>1, <2>2, ChainAppend
<1>11. Len(calls') = n /\ Len(results') = 0 /\ \A k \in 1 .. n : calls'[k].id = lastId + k
  <2>1. Len(calls') = n
    BY <1>2, <1>4
  <2>2. Len(results') = 0
    BY <1>3
  <2>3. \A k \in 1 .. n : calls'[k].id = lastId + k
    BY <1>2
  <2>4. QED
    BY <2>1, <2>2, <2>3
<1>12. Given' = lastId
  BY <1>2, <1>4, <1>11 DEF Given
<1>13. Awaiting'
  <2>1. \A k \in 1 .. Len(results') : FALSE
    BY <1>11
  <2>2. \A k \in 1 .. Len(calls') : calls'[k].id = Given' + Len(results') + k
    BY <1>4, <1>11, <1>12
  <2>3. QED
    BY <1>2, <1>4, <1>7, <1>10, <1>12, <2>1, <2>2 DEF Awaiting
<1>14. QED
  BY <1>3, <1>4, <1>9, <1>10, <1>13 DEF RequestInv

\* A call has its result, and the next is the first that waits.
LEMMA CallRequests ==
    ASSUME TurnInv, RequestInv, CallTool
    PROVE  RequestInv'
<1>1. /\ pc = "tools" /\ calls # <<>> /\ pc' = pc
      /\ results' = Append(results, ResultBlock(Head(calls).id)) /\ calls' = Tail(calls)
      /\ UNCHANGED <<stored, work, msgs, iter, lastId>>
  BY DEF CallTool
<1>2. Awaiting /\ calls \in Seq(PendingCall) /\ results \in Results /\ lastId \in Nat
  BY <1>1 DEF RequestInv, TurnInv, TurnTyped
<1> DEFINE b == ResultBlock(Head(calls).id)
           R == [kind : {"result"}, id : Nat]
<1>3. /\ Len(calls) \in Nat /\ Len(calls) # 0 /\ Len(calls') = Len(calls) - 1 /\ Head(calls) = calls[1]
      /\ \A k \in 1 .. Len(calls') : calls'[k] = calls[k + 1]
  BY <1>1, <1>2
<1>4. b.id = calls[1].id /\ b \in R
  <2>1. calls[1] \in PendingCall
    BY <1>1, <1>2, <1>3
  <2>2. QED
    BY <1>3, <2>1 DEF ResultBlock, PendingCall
<1>5. results \in Seq(R)
  BY <1>2 DEF Results
<1> HIDE DEF b, R
<1>6. /\ Len(results) \in Nat /\ Len(results') = Len(results) + 1 /\ results'[Len(results) + 1] = b
      /\ \A k \in 1 .. Len(results) : results'[k] = results[k]
  BY <1>1, <1>4, <1>5 DEF b
<1>7. Given' = Given
  BY <1>1, <1>2, <1>3, <1>6 DEF Given
<1>8. /\ Given \in Nat
      /\ \A k \in 1 .. Len(results) : results[k].id = Given + k
      /\ \A k \in 1 .. Len(calls) : calls[k].id = Given + Len(results) + k
  BY <1>2 DEF Awaiting
<1>9. \A k \in 1 .. Len(results') : results'[k].id = Given' + k
  <2>1. \A k \in 1 .. Len(results') : k \in 1 .. Len(results) \/ k = Len(results) + 1
    BY <1>6
  <2>2. b.id = Given + Len(results) + 1
    BY <1>3, <1>4, <1>8
  <2>3. b.id = Given + (Len(results) + 1)
    BY <1>6, <1>8, <2>2
  <2>4. QED
    BY <1>6, <1>7, <1>8, <2>1, <2>3
<1>10. \A k \in 1 .. Len(calls') : calls'[k].id = Given' + Len(results') + k
  <2> SUFFICES ASSUME NEW k \in 1 .. Len(calls') PROVE calls'[k].id = Given' + Len(results') + k
    OBVIOUS
  <2>1. k + 1 \in 1 .. Len(calls) /\ calls'[k] = calls[k + 1]
    BY <1>3
  <2>2. calls[k + 1].id = Given + Len(results) + (k + 1)
    BY <1>8, <2>1
  <2>3. QED
    BY <1>6, <1>7, <1>8, <2>1, <2>2
<1>11. Awaiting'
  BY <1>1, <1>2, <1>7, <1>9, <1>10 DEF Awaiting
<1>12. QED
  BY <1>1, <1>11 DEF RequestInv

\* The results of all calls are the next message.
LEMMA DoneRequests ==
    ASSUME TurnInv, RequestInv, CallsDone
    PROVE  RequestInv'
<1> DEFINE m == User(results)
<1>1. /\ pc = "tools" /\ calls = <<>> /\ pc' = "loop" /\ work' = Append(work, m) /\ msgs' = Append(msgs, m)
      /\ stored' = Append(work, m) \/ stored' = stored
      /\ iter' = iter + 1 /\ lastId' = lastId
  BY DEF CallsDone, NextIteration, Save
<1>2. /\ Awaiting /\ results \in Results /\ lastId \in Nat /\ iter \in Nat /\ msgs \in Session
      /\ Numbered(stored, lastId) /\ Numbered(work, lastId)
  BY <1>1 DEF RequestInv, TurnInv, TurnTyped
<1>3. m \in Messages(Blocks) /\ m.role = "user" /\ m.blocks = results
  BY <1>2, ResultsAreSaid DEF User
<1>4. /\ Len(results) \in Nat /\ DOMAIN results = 1 .. Len(results)
      /\ \A j \in 1 .. Len(results) : results[j].kind = "result"
  BY <1>2, ResultsIs
<1> HIDE DEF m
<1>5. UsesOf(m) = {} /\ m \in Proper
  <2>1. UsesOf(m) = {}
    BY <1>3, <1>4 DEF UsesOf, IdsOf
  <2>2. QED
    BY <1>3, <2>1 DEF Proper
<1>6. Len(calls) = 0 /\ Given = lastId - Len(results) /\ Given \in Nat
  <2>1. Len(calls) = 0
    BY <1>1
  <2>2. QED
    BY <1>2, <1>4, <2>1 DEF Given, Awaiting
<1>7. msgs # <<>> => AnswersAll(msgs[Len(msgs)], m)
  <2> SUFFICES ASSUME msgs # <<>>, NEW id \in UsesOf(msgs[Len(msgs)])
               PROVE  /\ m.role = "user"
                      /\ Cardinality({j \in DOMAIN m.blocks : m.blocks[j].kind = "result" /\ m.blocks[j].id = id}) = 1
    BY DEF AnswersAll
  <2>1. id \in (Given + 1) .. lastId
    BY <1>2 DEF Awaiting, LastUses
  <2>2. PICK j \in 1 .. Len(results) : id = Given + j
    <3>1. ASSUME NEW g \in Nat, NEW l \in Nat, NEW n \in Nat, n = l - g, NEW x \in (g + 1) .. l
          PROVE  \E j \in 1 .. n : x = g + j
      <4>1. x - g \in 1 .. n /\ x = g + (x - g)
        BY <3>1
      <4>2. QED
        BY <4>1
    <3>2. Given \in Nat /\ lastId \in Nat /\ Len(results) \in Nat /\ Len(results) = lastId - Given
      BY <1>2, <1>4, <1>6
    <3>3. \E j \in 1 .. Len(results) : id = Given + j
      BY <2>1, <3>1, <3>2, Zenon
    <3>4. QED
      BY <3>3
  <2>3. \A k \in 1 .. Len(results) : results[k].id = id <=> k = j
    <3>1. \A k \in 1 .. Len(results) : results[k].id = Given + k
      BY <1>2 DEF Awaiting
    <3>2. QED
      BY <1>4, <1>6, <2>2, <3>1
  <2>4. {k \in DOMAIN m.blocks : m.blocks[k].kind = "result" /\ m.blocks[k].id = id} = {j}
    BY <1>3, <1>4, <2>3
  <2>5. QED
    BY <1>3, <2>4, FS_Singleton
<1>8. Sendable(msgs')
  <2>1. Chain(msgs)
    BY <1>2 DEF Awaiting
  <2>2. QED
    BY <1>1, <1>2, <1>3, <1>5, <1>7, <2>1, ChainAppend DEF Sendable
<1>9. Numbered(Append(work, m), lastId)
  BY <1>2, <1>5, NumberedQuiet
<1>10. iter' \in Nat /\ iter' # 0
  BY <1>1, <1>2
<1>11. QED
  BY <1>1, <1>2, <1>8, <1>9, <1>10 DEF RequestInv, Sendable

LEMMA SameRequests ==
    ASSUME RequestInv, UNCHANGED <<iter, msgs, stored, work, lastId, pc, cut, calls, results>>
    PROVE  RequestInv'
BY DEF RequestInv, Awaiting, Given

LEMMA RequestNext ==
    ASSUME TurnInv, RequestInv, [Next]_vars
    PROVE  RequestInv'
<1>1. CASE UNCHANGED vars
  BY <1>1, SameRequests DEF vars, loop, history
<1>2. CASE RetryRequest
  BY <1>2, SameRequests DEF RetryRequest, history
<1>3. QED
  BY <1>1, <1>2, BeginRequests, SendRequests, EndsRequests, EmptyRequests, PartialRequests, ToolRequests,
     CallRequests, DoneRequests DEF Next, LoopStep

\* In every request each call is answered once by the message after it, and the
\* first of a turn whose history was not cut is one that a provider accepts,
\* whatever the turns before left in the database (agent_loop.rs:505).
THEOREM RequestsStayAccepted == Spec => []RequestsAccepted
<1>1. RequestInv => RequestsAccepted
  BY SendableIs DEF RequestInv, RequestsAccepted, Sendable
<1>2. TurnInv /\ RequestInv /\ [Next]_vars => RequestInv'
  BY RequestNext
<1>3. QED
  BY <1>1, <1>2, RequestInit, TurnInvariant, PTL DEF Spec

-----------------------------------------------------------------------------
(* The type of a turn *)

NumberedCalls == [call : Calls, id : Ids]
TurnBounded ==
    /\ turn \in 0 .. MaxTurns /\ attempt \in 0 .. MaxRetries /\ conts \in Nat
    /\ iter \in 0 .. MaxIterations /\ (pc \in {"llm", "tools"} => iter < MaxIterations)
    /\ lastId \in Ids /\ calls \in Seq(NumberedCalls) /\ cut \in BOOLEAN

LEMMA EndBounded ==
    ASSUME TurnBounded, NEW r, EndTurn(r)
    PROVE  TurnBounded'
<1>1. 0 \in 0 .. MaxRetries /\ 0 \in 0 .. MaxIterations
  BY LimitsType
<1>2. <<>> \in Seq(NumberedCalls)
  OBVIOUS
<1> HIDE DEF NumberedCalls
<1>3. QED
  BY <1>1, <1>2 DEF EndTurn, TurnBounded

LEMMA TurnBoundedInit == Init => TurnBounded
<1> SUFFICES ASSUME Init PROVE TurnBounded
  OBVIOUS
<1>1. 0 \in 0 .. MaxTurns /\ 0 \in 0 .. MaxRetries /\ 0 \in 0 .. MaxIterations /\ 0 \in Ids
  BY LimitsType DEF Ids
<1>2. <<>> \in Seq(NumberedCalls)
  OBVIOUS
<1> HIDE DEF NumberedCalls
<1>3. QED
  BY <1>1, <1>2 DEF Init, TurnBounded

LEMMA ToolUseBounded ==
    ASSUME TurnBounded, AnswerToolUse
    PROVE  TurnBounded'
<1>1. PICK n \in 0 .. MaxCallsPerResponse, bare \in BOOLEAN :
        \E cs \in [1 .. n -> UsedCalls] :
          /\ lastId + n <= MaxCalls
          /\ calls' = [k \in 1 .. n |-> [call |-> cs[k], id |-> lastId + k]]
          /\ lastId' = lastId + n
  BY DEF AnswerToolUse
<1>2. PICK cs \in [1 .. n -> UsedCalls] :
          /\ lastId + n <= MaxCalls
          /\ calls' = [k \in 1 .. n |-> [call |-> cs[k], id |-> lastId + k]]
          /\ lastId' = lastId + n
  BY <1>1
<1>3. n \in Nat /\ MaxCalls \in Nat /\ lastId \in 0 .. MaxCalls
  BY LimitsType DEF TurnBounded, Ids
<1>4. lastId' \in Ids
  BY <1>2, <1>3 DEF Ids
<1>5. \A k \in 1 .. n : [call |-> cs[k], id |-> lastId + k] \in NumberedCalls
  <2>1. ASSUME NEW k \in 1 .. n PROVE cs[k] \in Calls /\ lastId + k \in Ids
    BY <1>2, <1>3, UsedCallsType DEF Ids
  <2>2. QED
    BY <2>1 DEF NumberedCalls
<1> HIDE DEF NumberedCalls
<1>6. calls' \in Seq(NumberedCalls)
  <2> DEFINE f(k) == [call |-> cs[k], id |-> lastId + k]
  <2>1. \A k \in 1 .. n : f(k) \in NumberedCalls
    BY <1>5
  <2>2. calls' = [k \in 1 .. n |-> f(k)]
    BY <1>2
  <2> HIDE DEF f
  <2>3. QED
    BY <1>3, <2>1, <2>2
<1>7. QED
  BY <1>4, <1>6 DEF TurnBounded, AnswerToolUse, history

LEMMA TurnBoundedNext ==
    ASSUME TurnBounded, [Next]_vars
    PROVE  TurnBounded'
<1> USE DEF TurnBounded
<1>1. MaxTurns \in Nat /\ MaxRetries \in Nat /\ MaxIterations \in Nat /\ 0 \in 0 .. MaxRetries
  BY LimitsType
<1>2. CASE Begin
  <2> HIDE DEF NumberedCalls
  <2>1. turn' \in 0 .. MaxTurns
    BY <1>1, <1>2 DEF Begin
  <2>2. cut' \in BOOLEAN
    BY <1>2, Zenon DEF Begin
  <2>3. QED
    BY <1>2, <2>1, <2>2 DEF Begin
<1>3. CASE SendRequest
  <2> HIDE DEF NumberedCalls
  <2>1. cut' \in BOOLEAN
    BY <1>3, Zenon DEF SendRequest
  <2>2. QED
    BY <1>1, <1>3, <2>1 DEF SendRequest
<1>4. CASE RetryRequest
  <2> HIDE DEF NumberedCalls
  <2>1. attempt' \in 0 .. MaxRetries
    BY <1>1, <1>4 DEF RetryRequest
  <2>2. QED
    BY <1>4, <2>1 DEF RetryRequest, history
<1>5. ASSUME NextIteration, pc \in {"llm", "tools"}, conts' \in Nat,
             UNCHANGED <<turn, lastId, calls, cut>>
      PROVE  TurnBounded'
  <2> HIDE DEF NumberedCalls
  <2>1. iter' \in 0 .. MaxIterations
    BY <1>1, <1>5 DEF NextIteration
  <2>2. QED
    BY <1>1, <1>5, <2>1 DEF NextIteration
<1>6. CASE AnswerEmptyFirst
  BY <1>5, <1>6 DEF AnswerEmptyFirst, history
<1>7. ASSUME NEW blank \in BOOLEAN, AnswerPartial(blank) PROVE TurnBounded'
  <2>1. conts' \in Nat
    BY <1>7 DEF AnswerPartial
  <2>2. QED
    BY <1>5, <1>7, <2>1 DEF AnswerPartial, history
<1>8. CASE CallsDone
  BY <1>5, <1>8 DEF CallsDone
<1>9. CASE CallTool
  <2> HIDE DEF NumberedCalls
  <2>1. calls' \in Seq(NumberedCalls)
    BY <1>9 DEF CallTool
  <2>2. QED
    BY <1>9, <2>1 DEF CallTool
<1>10. CASE UNCHANGED vars
  BY <1>10 DEF vars, loop, history
<1>11. ASSUME GiveUp \/ RequestFails \/ AnswerSilent \/ AnswerText \/ AnswerPartialLast \/ CircuitBreak \/ Abort
       PROVE  TurnBounded'
  <2>1. \E r : EndTurn(r)
    <3> HIDE DEF TurnBounded
    <3>1. QED
      BY <1>11, Zenon DEF GiveUp, RequestFails, AnswerSilent, AnswerText, AnswerPartialLast, CircuitBreak, Abort
  <2>2. QED
    BY <2>1, EndBounded
<1> HIDE DEF TurnBounded
<1>12. QED
  BY <1>2, <1>3, <1>4, <1>6, <1>7, <1>8, <1>9, <1>10, <1>11, ToolUseBounded DEF Next, LoopStep

\* Every history, counter and pending call of a turn has its type: the counters
\* of turns, iterations and retries stay within their limits, and a call has
\* the number it was given (agent_loop.rs:257, agent_loop.rs:498).
THEOREM TurnTypeCorrect == Spec => []TypeOK
<1>1. TurnBounded /\ [Next]_vars => TurnBounded'
  BY TurnBoundedNext
<1>2. TurnInv /\ RequestInv /\ TurnBounded => TypeOK
  <2> SUFFICES ASSUME TurnInv, RequestInv, TurnBounded PROVE TypeOK
    OBVIOUS
  <2>1. ASSUME NEW ms \in Session PROVE IsHistory(ms)
    <3>1. DOMAIN ms = 1 .. Len(ms) /\ \A i \in 1 .. Len(ms) : ms[i] \in Messages(Blocks)
      <4> DEFINE M == Messages(Blocks)
      <4>1. ms \in Seq(M)
        BY DEF Session
      <4> HIDE DEF M
      <4>2. DOMAIN ms = 1 .. Len(ms) /\ \A i \in 1 .. Len(ms) : ms[i] \in M
        BY <4>1
      <4>3. QED
        BY <4>2 DEF M
    <3>2. \A m \in Messages(Blocks) : m.role \in {"user", "assistant"}
      BY DEF Messages
    <3>3. QED
      BY <3>1, <3>2, Zenon DEF IsHistory
  <2>2. IsHistory(stored) /\ IsHistory(work) /\ IsHistory(msgs)
    BY <2>1 DEF TurnInv, TurnTyped, RequestInv
  <2>3. guard.total \in Nat /\ guard.counts \in [Calls -> Nat]
    BY DEF TurnInv, TurnTyped, Guard
  <2>4. QED
    BY <2>2, <2>3 DEF TypeOK, TurnInv, TurnTyped, TurnBounded, NumberedCalls
<1>3. TurnInv /\ RequestInv /\ [Next]_vars => RequestInv'
  BY RequestNext
<1>4. QED
  BY <1>1, <1>2, <1>3, TurnBoundedInit, RequestInit, TurnInvariant, PTL DEF Spec

-----------------------------------------------------------------------------
(* The guard over a whole sequence of calls *)

\* A set of numbers up to N that has a member has a greatest one.
LEMMA Greatest ==
    ASSUME NEW N \in Nat, NEW S \in SUBSET (0 .. N), S # {}
    PROVE  \E x \in S : \A y \in S : y <= x
<1> DEFINE D == {N - x : x \in S}
<1>1. D \in SUBSET Nat /\ D # {}
  <2>1. PICK x \in S : TRUE
    OBVIOUS
  <2>2. N - x \in D
    BY <2>1
  <2>3. D \in SUBSET Nat
    OBVIOUS
  <2>4. QED
    BY <2>2, <2>3
<1>2. PICK d \in D : \A e \in D : d <= e
  <2> HIDE DEF D
  <2>1. QED
    BY <1>1, Least
<1>3. PICK x \in S : d = N - x
  OBVIOUS
<1>4. ASSUME NEW y \in S PROVE y <= x
  <2>1. N - x <= N - y
    BY <1>2, <1>3
  <2>2. QED
    BY <2>1
<1>5. QED
  BY <1>4

\* Where a cycle of two or three calls has come round three times, three rounds
\* of it are counted.
LEMMA PingPongRepeats ==
    ASSUME NEW r \in Seq(Calls), PingPong(r)
    PROVE  Repeats(r) \in Nat /\ Repeats(r) >= 3
<1> DEFINE rounds(p) == {n \in 2 .. Len(r) : Cycle(r, p, n)}
           most(S) == CHOOSE n \in S : \A k \in S : k <= n
<1>1. Repeats(r) = IF rounds(2) # {} THEN most(rounds(2)) ELSE IF rounds(3) # {} THEN most(rounds(3)) ELSE 0
  BY DEF Repeats
<1>2. Len(r) \in Nat
  OBVIOUS
<1>3. ASSUME NEW p \in {2, 3}, Cycle(r, p, 3) PROVE most(rounds(p)) \in Nat /\ most(rounds(p)) >= 3
  <2> DEFINE S == rounds(p)
  <2>1. 3 \in 2 .. Len(r)
    BY <1>2, <1>3 DEF Cycle
  <2>2. 3 \in S /\ S \in SUBSET (0 .. Len(r))
    BY <1>2, <1>3, <2>1
  <2> HIDE DEF S
  <2>3. \E x \in S : \A y \in S : y <= x
    BY <1>2, <2>2, Greatest
  <2>4. most(S) \in S /\ 3 <= most(S)
    BY <2>2, <2>3
  <2>5. QED
    BY <1>2, <2>2, <2>4 DEF S
<1>4. CASE Cycle(r, 2, 3)
  <2>1. 3 \in rounds(2)
    BY <1>2, <1>4 DEF Cycle
  <2>2. QED
    BY <1>1, <1>3, <1>4, <2>1
<1>5. CASE ~ Cycle(r, 2, 3)
  <2>1. Cycle(r, 3, 3)
    BY <1>5 DEF PingPong
  <2>2. ASSUME NEW n \in 2 .. Len(r), Cycle(r, 2, n) PROVE FALSE
    <3> DEFINE x(k) == r[Len(r) + 1 - k]
    <3>1. \A k \in 1 .. 6 : x(k) = x(k + 3)
      <4>1. \A k \in 1 .. 6 : r[Len(r) + 1 - k] = r[Len(r) + 1 - k - 3]
        <5>1. \A k \in 1 .. (3 * (3 - 1)) : r[Len(r) + 1 - k] = r[Len(r) + 1 - k - 3]
          BY <2>1, Zenon DEF Cycle
        <5>2. 3 * (3 - 1) = 6
          OBVIOUS
        <5>3. QED
          BY <5>1, <5>2
      <4>2. \A k \in 1 .. 6 : Len(r) + 1 - k - 3 = Len(r) + 1 - (k + 3)
        BY <1>2
      <4>3. QED
        BY <4>1, <4>2
    <3>2. x(1) = x(3) /\ x(2) = x(4)
      <4>1. 1 \in 1 .. (2 * (n - 1)) /\ 2 \in 1 .. (2 * (n - 1))
        OBVIOUS
      <4>2. \A k \in 1 .. (2 * (n - 1)) : r[Len(r) + 1 - k] = r[Len(r) + 1 - k - 2]
        BY <2>2 DEF Cycle
      <4>3. Len(r) + 1 - 1 - 2 = Len(r) + 1 - 3 /\ Len(r) + 1 - 2 - 2 = Len(r) + 1 - 4
        BY <1>2
      <4>4. QED
        BY <4>1, <4>2, <4>3
    <3>3. x(1) # x(2)
      <4>1. PICK k \in 1 .. 2 : r[Len(r) + 1 - k] # r[Len(r)]
        BY <2>2 DEF Cycle
      <4>2. Len(r) + 1 - 1 = Len(r)
        BY <1>2
      <4>3. k = 1 \/ k = 2
        OBVIOUS
      <4>4. QED
        BY <4>1, <4>2, <4>3
    <3>4. x(1) = x(4)
      <4>1. 1 \in 1 .. 6 /\ 1 + 3 = 4
        OBVIOUS
      <4> HIDE DEF x
      <4>2. QED
        BY <3>1, <4>1
    <3> HIDE DEF x
    <3>5. QED
      BY <3>2, <3>3, <3>4
  <2>3. rounds(2) = {}
    BY <2>2
  <2>4. 3 \in rounds(3)
    <3>1. Len(r) >= 3 * 3
      BY <2>1, Zenon DEF Cycle
    <3>2. 3 \in 2 .. Len(r)
      BY <1>2, <3>1
    <3>3. QED
      BY <2>1, <3>2
  <2>5. QED
    BY <1>1, <1>3, <2>1, <2>3, <2>4
<1>6. QED
  BY <1>4, <1>5

\* r holds the last of the first n calls.
Recalls(r, cs, n) ==
    /\ Len(r) = IF n <= HistorySize THEN n ELSE HistorySize
    /\ \A k \in 1 .. Len(r) : r[Len(r) + 1 - k] = cs[n + 1 - k]

LEMMA RememberRecalls ==
    ASSUME NEW r \in Seq(Calls), NEW cs, NEW n \in Nat, Recalls(r, cs, n), cs[n + 1] \in Calls
    PROVE  Recalls(Remember(r, cs[n + 1]), cs, n + 1)
<1> DEFINE c == cs[n + 1]
           s == IF Len(r) >= HistorySize THEN Tail(r) ELSE r
           q == Append(s, c)
<1>1. HistorySize \in Nat /\ HistorySize # 0 /\ Len(r) \in Nat
  BY ThresholdsType
<1>2. Remember(r, cs[n + 1]) = q
  BY DEF Remember
<1>3. /\ s \in Seq(Calls) /\ Len(s) = IF n + 1 <= HistorySize THEN n ELSE HistorySize - 1
      /\ \A k \in 1 .. Len(s) : s[Len(s) + 1 - k] = cs[n + 1 - k]
  <2>1. CASE Len(r) >= HistorySize
    <3>1. Len(r) = HistorySize /\ HistorySize <= n /\ s = Tail(r) /\ r # <<>>
      BY <1>1, <2>1 DEF Recalls
    <3>2. s \in Seq(Calls) /\ Len(s) = Len(r) - 1 /\ \A i \in 1 .. Len(s) : s[i] = r[i + 1]
      BY <3>1
    <3> HIDE DEF s
    <3>3. ASSUME NEW k \in 1 .. Len(s) PROVE s[Len(s) + 1 - k] = cs[n + 1 - k]
      <4>1. Len(s) + 1 - k \in 1 .. Len(s) /\ Len(s) + 1 - k + 1 = Len(r) + 1 - k /\ k \in 1 .. Len(r)
        BY <1>1, <3>2
      <4>2. s[Len(s) + 1 - k] = r[Len(r) + 1 - k]
        BY <3>2, <4>1
      <4>3. QED
        BY <4>1, <4>2 DEF Recalls
    <3>4. QED
      BY <1>1, <3>1, <3>2, <3>3
  <2>2. CASE ~ (Len(r) >= HistorySize)
    <3>1. s = r /\ Len(r) = n /\ n + 1 <= HistorySize
      BY <1>1, <2>2 DEF Recalls
    <3>2. QED
      BY <3>1 DEF Recalls
  <2>3. QED
    BY <2>1, <2>2
<1> HIDE DEF s
<1>4. Len(q) = Len(s) + 1 /\ q[Len(s) + 1] = c /\ \A i \in 1 .. Len(s) : q[i] = s[i]
  BY <1>3
<1> HIDE DEF q
<1>5. ASSUME NEW k \in 1 .. Len(q) PROVE q[Len(q) + 1 - k] = cs[n + 1 + 1 - k]
  <2>1. Len(s) \in Nat
    BY <1>3
  <2>2. CASE k = 1
    <3>1. Len(q) + 1 - k = Len(s) + 1 /\ n + 1 + 1 - k = n + 1
      BY <1>4, <2>1, <2>2
    <3>2. QED
      BY <1>4, <3>1
  <2>3. CASE k # 1
    <3>1. PICK j \in 1 .. Len(s) : j = k - 1
      BY <1>4, <2>1, <2>3
    <3>2. Len(q) + 1 - k = Len(s) + 1 - j /\ n + 1 + 1 - k = n + 1 - j /\ Len(s) + 1 - j \in 1 .. Len(s)
      <4>1. ASSUME NEW a \in Nat, NEW b \in Nat, b = a + 1
            PROVE  b + 1 - k = a + 1 - j
        BY <3>1, <4>1
      <4>2. Len(q) + 1 - k = Len(s) + 1 - j
        BY <1>4, <2>1, <4>1
      <4>3. n + 1 + 1 - k = n + 1 - j
        BY <3>1
      <4>4. Len(s) + 1 - j \in 1 .. Len(s)
        BY <2>1
      <4>5. QED
        BY <4>2, <4>3, <4>4
    <3>3. QED
      BY <1>3, <1>4, <3>2
  <2>4. QED
    BY <2>2, <2>3
<1>6. Len(q) = IF n + 1 <= HistorySize THEN n + 1 ELSE HistorySize
  BY <1>1, <1>3, <1>4
<1>7. QED
  BY <1>2, <1>5, <1>6 DEF Recalls

\* The first k calls of cs end in three rounds of a cycle of p.
Cycled(cs, k, p) ==
    /\ k >= 3 * p
    /\ \A l \in (k - 2 * p + 1) .. k : cs[l] = cs[l - p]
    /\ \E l \in (k - p + 1) .. k : cs[l] # cs[k]

LEMMA CycleSeen ==
    ASSUME NEW r \in Seq(Calls), NEW cs, NEW k \in Nat, Recalls(r, cs, k), NEW p \in {2, 3}
    PROVE  Cycle(r, p, 3) <=> Cycled(cs, k, p)
<1> DEFINE n == Len(r)
<1>1. HistorySize \in Nat /\ HistorySize >= 9 /\ n \in Nat
  BY ThresholdsType, DefaultsOrdered
<1>2. n = IF k <= HistorySize THEN k ELSE HistorySize
  BY DEF Recalls
<1>3. p \in Nat /\ 3 * p <= 9 /\ p * (3 - 1) = 2 * p /\ 0 < p /\ 2 * p + p = 3 * p
  OBVIOUS
<1>4. n >= 3 * p <=> k >= 3 * p
  BY <1>1, <1>2, <1>3
<1>5. SUFFICES ASSUME n >= 3 * p, k >= 3 * p PROVE Cycle(r, p, 3) <=> Cycled(cs, k, p)
  BY <1>3, <1>4 DEF Cycle, Cycled
<1>6. \A j \in 1 .. (3 * p) : r[n + 1 - j] = cs[k + 1 - j]
  BY <1>1, <1>3, <1>5 DEF Recalls
<1>7. r[n] = cs[k]
  <2>1. 1 \in 1 .. (3 * p) /\ n + 1 - 1 = n /\ k + 1 - 1 = k
    BY <1>1, <1>3
  <2>2. QED
    BY <1>6, <2>1
<1>8. (\A j \in 1 .. (2 * p) : r[n + 1 - j] = r[n + 1 - j - p])
        <=> \A l \in (k - 2 * p + 1) .. k : cs[l] = cs[l - p]
  <2>1. ASSUME NEW j \in 1 .. (2 * p) PROVE r[n + 1 - j] = cs[k + 1 - j] /\ r[n + 1 - j - p] = cs[k + 1 - j - p]
    <3>1. j \in 1 .. (3 * p) /\ j + p \in 1 .. (3 * p)
      BY <1>3
    <3>2. n + 1 - (j + p) = n + 1 - j - p /\ k + 1 - (j + p) = k + 1 - j - p
      BY <1>1, <1>3
    <3>3. r[n + 1 - (j + p)] = cs[k + 1 - (j + p)]
      BY <1>6, <3>1
    <3>4. QED
      BY <1>6, <3>1, <3>2, <3>3
  <2>2. ASSUME NEW l \in (k - 2 * p + 1) .. k PROVE k + 1 - l \in 1 .. (2 * p) /\ k + 1 - (k + 1 - l) = l
    BY <1>3
  <2>3. ASSUME NEW j \in 1 .. (2 * p) PROVE k + 1 - j \in (k - 2 * p + 1) .. k
    BY <1>3
  <2>4. ASSUME \A j \in 1 .. (2 * p) : r[n + 1 - j] = r[n + 1 - j - p], NEW l \in (k - 2 * p + 1) .. k
        PROVE  cs[l] = cs[l - p]
    <3>1. PICK j \in 1 .. (2 * p) : k + 1 - j = l
      BY <2>2
    <3>2. cs[k + 1 - j] = cs[k + 1 - j - p]
      BY <2>1, <2>4
    <3>3. QED
      BY <3>1, <3>2
  <2>5. ASSUME \A l \in (k - 2 * p + 1) .. k : cs[l] = cs[l - p], NEW j \in 1 .. (2 * p)
        PROVE  r[n + 1 - j] = r[n + 1 - j - p]
    BY <2>1, <2>3, <2>5
  <2>6. QED
    BY <2>4, <2>5
<1>9. (\E j \in 1 .. p : r[n + 1 - j] # r[n]) <=> \E l \in (k - p + 1) .. k : cs[l] # cs[k]
  <2>1. ASSUME NEW j \in 1 .. p PROVE r[n + 1 - j] = cs[k + 1 - j] /\ k + 1 - j \in (k - p + 1) .. k
    BY <1>3, <1>6
  <2>2. ASSUME NEW l \in (k - p + 1) .. k PROVE k + 1 - l \in 1 .. p /\ k + 1 - (k + 1 - l) = l
    BY <1>3
  <2>3. ASSUME NEW l \in (k - p + 1) .. k, cs[l] # cs[k] PROVE \E j \in 1 .. p : r[n + 1 - j] # r[n]
    <3>1. PICK j \in 1 .. p : k + 1 - j = l
      BY <2>2
    <3>2. QED
      BY <1>7, <2>1, <2>3, <3>1
  <2>4. QED
    BY <1>7, <2>1, <2>3
<1> DEFINE same(m) == \A j \in 1 .. m : r[n + 1 - j] = r[n + 1 - j - p]
           differ == \E j \in 1 .. p : r[n + 1 - j] # r[n]
<1>10. Cycle(r, p, 3) <=> n >= p * 3 /\ same(p * (3 - 1)) /\ differ
  BY Zenon DEF Cycle
<1>11. p * 3 = 3 * p /\ p * (3 - 1) = 2 * p
  BY <1>3
<1> HIDE DEF same, differ, n
<1>12. Cycle(r, p, 3) <=> same(2 * p) /\ differ
  BY <1>5, <1>10, <1>11
<1>13. QED
  BY <1>5, <1>8, <1>9, <1>12, Zenon DEF Cycled, same, differ

\* How often c is among the first n of cs, and the verdict v on the call k of cs.
Made(cs, n, c) == Cardinality({l \in 1 .. n : cs[l] = c})
Times(cs, k) == Made(cs, k, cs[k])
Looping(cs, k) == Cycled(cs, k, 2) \/ Cycled(cs, k, 3)
Judged(cs, k, v) ==
    /\ v \in {"allow", "warn", "block"}
    /\ v \in {"allow", "warn"} => Times(cs, k) < BlockThreshold * Multiplier(cs[k])
    /\ Looping(cs, k) /\ v \in {"allow", "warn"} => Times(cs, k) >= WarnThreshold * Multiplier(cs[k])
    /\ Looping(cs, k) \/ Times(cs, k) >= WarnThreshold * Multiplier(cs[k]) \/ v = "allow"

LEMMA VerdictIs ==
    ASSUME NEW g \in Guard, NEW c \in Calls, NEW total \in Nat, NEW count \in Nat, NEW r \in Seq(Calls),
           ~ (total > g.breaker), NEW v, v = Verdict(g, c, total, count, r)
    PROVE  /\ v \in {"allow", "warn", "block"}
           /\ v \in {"allow", "warn"} => count < BlockThreshold * Multiplier(c)
           /\ PingPong(r) /\ v \in {"allow", "warn"} => count >= WarnThreshold * Multiplier(c)
           /\ PingPong(r) \/ count >= WarnThreshold * Multiplier(c) \/ v = "allow"
<1> DEFINE limit == BlockThreshold * Multiplier(c)
           soft == WarnThreshold * Multiplier(c)
<1>1. limit \in Nat /\ soft \in Nat /\ soft <= limit
  <2>1. \A a, b, m \in Nat : a <= b => a * m <= b * m
    OBVIOUS
  <2>2. WarnThreshold \in Nat /\ BlockThreshold \in Nat /\ Multiplier(c) \in Nat
    BY ThresholdsType DEF Multiplier
  <2>3. QED
    BY <2>1, <2>2, DefaultsOrdered, LimitsAre
<1>2. MinRepeats \in Nat /\ MinRepeats <= 3
  BY ThresholdsType, DefaultsOrdered
<1>3. PingPong(r) => Repeats(r) >= MinRepeats
  BY <1>2, PingPongRepeats
<1>4. v = IF count >= limit THEN "block"
          ELSE IF count >= soft THEN IF g.warned[c] + 1 > MaxWarnings THEN "block" ELSE "warn"
          ELSE IF PingPong(r) THEN "block" ELSE "allow"
  BY <1>3, Zenon DEF Verdict
<1> HIDE DEF limit, soft
<1>5. /\ v \in {"allow", "warn", "block"}
      /\ v \in {"allow", "warn"} => count < limit
      /\ PingPong(r) /\ v \in {"allow", "warn"} => count >= soft
      /\ PingPong(r) \/ count >= soft \/ v = "allow"
  BY <1>1, <1>4
<1>6. QED
  BY <1>5 DEF limit, soft

\* What check remembers.
LEMMA CheckRemembers ==
    ASSUME NEW g \in Guard, NEW c \in Calls, ~ (g.total + 1 > g.breaker)
    PROVE  /\ Check(g, c).guard.recent = Remember(g.recent, c)
           /\ Check(g, c).verdict = Verdict(g, c, g.total + 1, g.counts[c] + 1, Remember(g.recent, c))
<1> DEFINE count == g.counts[c] + 1
           r == Remember(g.recent, c)
           slow == count >= WarnThreshold * Multiplier(c) /\ count < BlockThreshold * Multiplier(c)
           ping == count < WarnThreshold * Multiplier(c) /\ count < BlockThreshold * Multiplier(c)
                   /\ PingPong(r) /\ Repeats(r) < MinRepeats
           after == [g EXCEPT !.total = g.total + 1, !.counts[c] = count, !.recent = r,
                              !.warned[c] = IF slow THEN @ + 1 ELSE @,
                              !.pingWarned[c] = IF ping THEN @ + 1 ELSE @]
           v == Verdict(g, c, g.total + 1, count, r)
<1>1. Check(g, c) = [verdict |-> v, guard |-> after]
  BY DEF Check
<1> HIDE DEF slow, ping, r, v
<1>2. after.recent = r
  BY DEF Guard
<1>3. QED
  <2> HIDE DEF after
  <2>1. QED
    BY <1>1, <1>2 DEF v, r

\* The calls up to n that are c, with the one after them.
LEMMA TimesStep ==
    ASSUME NEW N \in Nat, NEW cs \in [1 .. N -> Calls], NEW n \in Nat, n < N, NEW c
    PROVE  /\ Made(cs, n, c) \in Nat
           /\ Made(cs, n + 1, c) =
                Made(cs, n, c) + IF cs[n + 1] = c THEN 1 ELSE 0
<1> DEFINE S == {l \in 1 .. n : cs[l] = c}
           T == {l \in 1 .. (n + 1) : cs[l] = c}
<1>1. IsFiniteSet(S)
  <2>1. IsFiniteSet(1 .. n) /\ S \subseteq 1 .. n
    BY FS_Interval
  <2>2. QED
    BY <2>1, FS_Subset
<1>2. n + 1 \notin S
  OBVIOUS
<1>3. T = IF cs[n + 1] = c THEN S \cup {n + 1} ELSE S
  OBVIOUS
<1> HIDE DEF S, T
<1>4. Cardinality(S) \in Nat /\ Cardinality(S \cup {n + 1}) = Cardinality(S) + 1
  BY <1>1, <1>2, FS_CardinalityType, FS_AddElement
<1>5. Cardinality(T) = Cardinality(S) + IF cs[n + 1] = c THEN 1 ELSE 0
  BY <1>3, <1>4
<1>6. QED
  BY <1>4, <1>5 DEF S, T, Made

\* The run of the guard over the first n of the calls cs, none of which broke.
Rulings == Seq({"allow", "warn", "block", "break"})
GuardAt(cs, n, b, acc) ==
    /\ acc.broken = FALSE /\ acc.guard \in Guard /\ acc.guard.breaker = b /\ acc.guard.total = n
    /\ \A c \in Calls : acc.guard.counts[c] = Made(cs, n, c)
    /\ Recalls(acc.guard.recent, cs, n)
    /\ acc.verdicts \in Rulings /\ Len(acc.verdicts) = n
    /\ \A k \in 1 .. n : Judged(cs, k, acc.verdicts[k])

LEMMA RuledStep ==
    ASSUME NEW N \in Nat, NEW cs \in [1 .. N -> Calls], NEW n \in Nat, n < N, NEW b \in Nat, n + 1 <= b,
           NEW acc, GuardAt(cs, n, b, acc), NEW next, next = Ruled(acc, cs[n + 1])
    PROVE  GuardAt(cs, n + 1, b, next)
<1> DEFINE g == acc.guard
           c == cs[n + 1]
           r == Check(g, c)
           q == Remember(g.recent, c)
           times == Made(cs, n + 1, c)
<1>1. /\ g \in Guard /\ g.breaker = b /\ g.total = n /\ acc.broken = FALSE /\ Recalls(g.recent, cs, n)
      /\ acc.verdicts \in Rulings /\ Len(acc.verdicts) = n
      /\ \A d \in Calls : g.counts[d] = Made(cs, n, d)
      /\ \A k \in 1 .. n : Judged(cs, k, acc.verdicts[k])
  BY DEF GuardAt
<1>2. c \in Calls
  <2>1. n + 1 \in 1 .. N
    OBVIOUS
  <2>2. QED
    BY <2>1
<1>3. g.recent \in Seq(Calls) /\ g.counts \in [Calls -> Nat]
  BY <1>1 DEF Guard
<1>4. ~ (g.total + 1 > g.breaker)
  BY <1>1
<1> HIDE DEF g, c
<1>5. /\ r.guard \in Guard /\ r.guard.breaker = b /\ r.guard.total = n + 1 /\ r.verdict # "break"
      /\ r.guard.counts = [g.counts EXCEPT ![c] = @ + 1] /\ r.guard.recent = q
  <2> HIDE DEF q
  <2>1. /\ r.guard \in Guard /\ r.guard.breaker = g.breaker /\ r.guard.total = g.total + 1
        /\ r.verdict = "break" <=> g.total + 1 > g.breaker
    BY <1>1, <1>2, CheckIs, Zenon
  <2>2. r.verdict # "break"
    BY <1>4, <2>1
  <2>3. r.guard.counts = [g.counts EXCEPT ![c] = @ + 1]
    BY <1>1, <1>2, <2>2, CheckIs, Zenon
  <2>4. r.guard.recent = Remember(g.recent, c)
    BY <1>1, <1>2, <1>4, CheckRemembers, Zenon
  <2>5. QED
    BY <1>1, <2>1, <2>2, <2>3, <2>4 DEF q
<1>6. next = [guard |-> r.guard, broken |-> FALSE, verdicts |-> Append(acc.verdicts, r.verdict)]
  <2>1. next = [guard |-> r.guard, broken |-> r.verdict = "break", verdicts |-> Append(acc.verdicts, r.verdict)]
    BY <1>1, Zenon DEF Ruled, g, c
  <2>2. QED
    BY <1>5, <2>1
<1>7. Recalls(q, cs, n + 1) /\ q \in Seq(Calls)
  <2>1. Recalls(Remember(g.recent, cs[n + 1]), cs, n + 1)
    BY <1>1, <1>2, <1>3, RememberRecalls DEF c
  <2>2. QED
    BY <1>2, <1>3, <2>1, RememberIs DEF c
<1>8. \A d \in Calls : r.guard.counts[d] = Made(cs, n + 1, d)
  <2>1. ASSUME NEW d \in Calls PROVE r.guard.counts[d] = Made(cs, n + 1, d)
    <3> DEFINE old == Made(cs, n, d)
               new == Made(cs, n + 1, d)
    <3>1. old \in Nat /\ new = old + IF cs[n + 1] = d THEN 1 ELSE 0
      BY TimesStep, Zenon
    <3>2. g.counts[d] = old
      BY <1>1
    <3> HIDE DEF old, new, r
    <3>3. r.guard.counts[d] = IF c = d THEN g.counts[d] + 1 ELSE g.counts[d]
      BY <1>2, <1>3, <1>5
    <3>4. r.guard.counts[d] = new
      BY <3>1, <3>2, <3>3 DEF c
    <3>5. QED
      BY <3>4 DEF new
  <2>2. QED
    BY <2>1
<1>9. g.counts[c] + 1 = times /\ times \in Nat
  <2> DEFINE old == Made(cs, n, c)
  <2>1. old \in Nat /\ times = old + IF cs[n + 1] = c THEN 1 ELSE 0
    BY TimesStep, Zenon
  <2>2. g.counts[c] = old
    BY <1>1, <1>2
  <2> HIDE DEF old, times
  <2>3. QED
    BY <2>1, <2>2 DEF c
<1>10. Judged(cs, n + 1, r.verdict)
  <2> DEFINE v == r.verdict
  <2>1. v = Verdict(g, c, g.total + 1, g.counts[c] + 1, q)
    BY <1>1, <1>2, <1>4, CheckRemembers, Zenon
  <2>2. times = Times(cs, n + 1)
    BY DEF Times, c
  <2>3. PingPong(q) <=> Looping(cs, n + 1)
    <3> HIDE DEF q
    <3>1. n + 1 \in Nat
      OBVIOUS
    <3>2. QED
      BY <1>7, <3>1, CycleSeen DEF PingPong, Looping
  <2> HIDE DEF v, q, times
  <2>4. g.total + 1 \in Nat
    BY <1>1
  <2>5. /\ v \in {"allow", "warn", "block"}
        /\ v \in {"allow", "warn"} => times < BlockThreshold * Multiplier(c)
        /\ PingPong(q) /\ v \in {"allow", "warn"} => times >= WarnThreshold * Multiplier(c)
        /\ PingPong(q) \/ times >= WarnThreshold * Multiplier(c) \/ v = "allow"
    <3>1. v = Verdict(g, c, g.total + 1, times, q)
      BY <1>9, <2>1
    <3>2. QED
      BY <1>1, <1>2, <1>4, <1>7, <1>9, <2>4, <3>1, VerdictIs
  <2>6. Judged(cs, n + 1, v)
    BY <2>2, <2>3, <2>5 DEF Judged, c
  <2>7. QED
    BY <2>6 DEF v
<1> DEFINE vs == Append(acc.verdicts, r.verdict)
<1>11. /\ vs \in Rulings /\ Len(vs) = n + 1
       /\ \A k \in 1 .. (n + 1) : Judged(cs, k, vs[k])
  <2> DEFINE v == r.verdict
             old == acc.verdicts
  <2>1. v \in {"allow", "warn", "block", "break"} /\ Judged(cs, n + 1, v)
    BY <1>10 DEF Judged
  <2>2. old \in Rulings /\ Len(old) = n /\ \A k \in 1 .. n : Judged(cs, k, old[k])
    BY <1>1
  <2>3. vs = Append(old, v)
    OBVIOUS
  <2> HIDE DEF v, old, vs
  <2>4. vs \in Rulings /\ Len(vs) = n + 1 /\ vs[n + 1] = v /\ \A k \in 1 .. n : vs[k] = old[k]
    BY <2>1, <2>2, <2>3 DEF Rulings
  <2>5. \A k \in 1 .. (n + 1) : k = n + 1 \/ k \in 1 .. n
    OBVIOUS
  <2>6. QED
    BY <2>1, <2>2, <2>4, <2>5
<1> HIDE DEF r, vs, q
<1>12. next.broken = FALSE /\ next.guard = r.guard /\ next.verdicts = vs
  BY <1>6 DEF vs
<1>13. QED
  BY <1>5, <1>7, <1>8, <1>11, <1>12 DEF GuardAt

LEMMA RuledBreak ==
    ASSUME NEW N \in Nat, NEW cs \in [1 .. N -> Calls], NEW n \in Nat, n < N,
           NEW acc, GuardAt(cs, n, n, acc)
    PROVE  Ruled(acc, cs[n + 1]).verdicts = Append(acc.verdicts, "break")
<1> DEFINE g == acc.guard
           c == cs[n + 1]
           r == Check(g, c)
<1>1. g \in Guard /\ g.breaker = n /\ g.total = n /\ acc.broken = FALSE
  BY DEF GuardAt
<1>2. c \in Calls
  <2>1. n + 1 \in 1 .. N
    OBVIOUS
  <2>2. QED
    BY <2>1
<1>3. g.total + 1 > g.breaker
  BY <1>1
<1> HIDE DEF g, c
<1>4. r.verdict = "break"
  <2>1. r.verdict = "break" <=> g.total + 1 > g.breaker
    BY <1>1, <1>2, CheckIs, Zenon
  <2>2. QED
    BY <1>3, <2>1
<1>5. Ruled(acc, cs[n + 1]) = [guard |-> r.guard, broken |-> r.verdict = "break", verdicts |-> Append(acc.verdicts, r.verdict)]
  BY <1>1, Zenon DEF Ruled, g, c
<1>6. QED
  BY <1>4, <1>5

\* A run, call by call.
Runs(f, cs, b) == f[0] = Ready(b) /\ \A n \in 1 .. Len(cs) : f[n] = Ruled(f[n - 1], cs[n])

LEMMA RunIs ==
    ASSUME NEW cs \in Seq(Calls), NEW b \in Nat
    PROVE  \E f : Runs(f, cs, b) /\ Verdicts(cs, b) = f[Len(cs)].verdicts
<1> DEFINE N == Len(cs)
           X == [guard : Guard, broken : BOOLEAN, verdicts : Rulings]
           step == [p \in (1 .. N) \X X |-> Ruled(p[2], cs[p[1]])]
           body(f, n) == IF n = 0 THEN Ready(b) ELSE Ruled(f[n - 1], cs[n])
           Is(f) == f = [n \in 0 .. N |-> body(f, n)]
<1>1. N \in Nat /\ \A n \in 1 .. N : cs[n] \in Calls
  OBVIOUS
<1>2. Ready(b) \in X
  <2>1. NewGuard(b) \in Guard
    <3>1. <<>> \in Seq(Calls)
      OBVIOUS
    <3>2. QED
      BY <3>1 DEF NewGuard, Guard
  <2>2. <<>> \in Rulings
    BY DEF Rulings
  <2> HIDE DEF Guard, Rulings
  <2>3. QED
    BY <2>1, <2>2 DEF Ready
<1>3. ASSUME NEW acc \in X, NEW c \in Calls PROVE Ruled(acc, c) \in X
  <2> DEFINE r == Check(acc.guard, c)
  <2>1. acc.guard \in Guard /\ acc.verdicts \in Rulings
    OBVIOUS
  <2>2. r.guard \in Guard /\ r.verdict \in {"allow", "warn", "block", "break"}
    BY <2>1, CheckIs, Zenon
  <2> HIDE DEF r
  <2>3. Append(acc.verdicts, r.verdict) \in Rulings
    BY <2>1, <2>2 DEF Rulings
  <2>4. Ruled(acc, c) = IF acc.broken THEN acc
                        ELSE [guard |-> r.guard, broken |-> r.verdict = "break", verdicts |-> Append(acc.verdicts, r.verdict)]
    BY DEF Ruled, r
  <2>5. QED
    BY <2>2, <2>3, <2>4
<1> HIDE DEF X
<1>4. step \in [(1 .. N) \X X -> X]
  <2>1. ASSUME NEW p \in (1 .. N) \X X PROVE step[p] \in X
    <3>1. p[2] \in X /\ cs[p[1]] \in Calls
      BY <1>1
    <3>2. QED
      BY <1>3, <3>1
  <2>2. QED
    BY <2>1
<1>5. \A n \in 1 .. N, acc \in X : step[<<n, acc>>] = Ruled(acc, cs[n])
  OBVIOUS
<1> HIDE DEF step, N
<1>6. PICK f : Recurs(f, N, X, Ready(b), step)
  BY <1>1, <1>2, <1>4, Recursion, Zenon
<1>7. f \in [0 .. N -> X] /\ f[0] = Ready(b) /\ \A n \in 1 .. N : f[n] = step[<<n, f[n - 1]>>]
  BY <1>6 DEF Recurs
<1>8. \A n \in 1 .. N : f[n - 1] \in X
  BY <1>1, <1>7
<1>9. \A n \in 0 .. N : f[n] = body(f, n)
  <2>1. \A n \in 1 .. N : f[n] = Ruled(f[n - 1], cs[n])
    BY <1>5, <1>7, <1>8
  <2>2. \A n \in 0 .. N : n = 0 \/ n \in 1 .. N
    BY <1>1
  <2>3. \A n \in 1 .. N : n # 0
    OBVIOUS
  <2>4. QED
    BY <1>7, <2>1, <2>2, <2>3, Zenon
<1>10. Is(f)
  <2> HIDE DEF body
  <2>1. QED
    BY <1>7, <1>9
<1> DEFINE g == CHOOSE h : Is(h)
<1>11. Is(g)
  <2> HIDE DEF Is
  <2>1. QED
    BY <1>10, Zenon
<1>12. Verdicts(cs, b) = g[N].verdicts
  BY DEF Verdicts, N
<1> HIDE DEF g
<1>13. \A n \in 0 .. N : g[n] = body(g, n)
  <2> HIDE DEF body
  <2>1. QED
    BY <1>11
<1>14. g[0] = Ready(b) /\ \A n \in 1 .. N : g[n] = Ruled(g[n - 1], cs[n])
  BY <1>1, <1>13
<1>15. QED
  BY <1>12, <1>14 DEF Runs, N

\* The guard breaks on the call that is one above its breaker, and has judged
\* every one before.
LEMMA VerdictsAre ==
    ASSUME NEW N \in Nat, N # 0, NEW cs \in [1 .. N -> Calls], NEW vs, vs = Verdicts(cs, N - 1)
    PROVE  /\ vs \in Rulings /\ Len(vs) = N /\ vs[N] = "break"
           /\ \A k \in 1 .. (N - 1) : Judged(cs, k, vs[k])
<1>1. cs \in Seq(Calls) /\ Len(cs) = N /\ N - 1 \in Nat
  OBVIOUS
<1>2. PICK f : Runs(f, cs, N - 1) /\ vs = f[N].verdicts
  BY <1>1, RunIs
<1> DEFINE S == {n \in 0 .. (N - 1) : GuardAt(cs, n, N - 1, f[n])}
<1>3. GuardAt(cs, 0, N - 1, f[0])
  <2> DEFINE g == NewGuard(N - 1)
  <2>1. f[0] = [guard |-> g, broken |-> FALSE, verdicts |-> <<>>]
    BY <1>2 DEF Runs, Ready
  <2>2. <<>> \in Seq(Calls) /\ Len(<<>>) = 0 /\ <<>> \in Rulings
    BY DEF Rulings
  <2>3. /\ g \in Guard /\ g.breaker = N - 1 /\ g.total = 0 /\ g.recent = <<>>
        /\ \A c \in Calls : g.counts[c] = 0
    BY <1>1, <2>2 DEF NewGuard, Guard
  <2>4. \A c \in Calls : Made(cs, 0, c) = 0
    <3>1. ASSUME NEW c \in Calls PROVE Made(cs, 0, c) = 0
      <4>1. {l \in 1 .. 0 : cs[l] = c} = {}
        OBVIOUS
      <4>2. QED
        BY <4>1, FS_EmptySet DEF Made
    <3>2. QED
      BY <3>1
  <2>5. Recalls(<<>>, cs, 0)
    <3>1. HistorySize \in Nat /\ Len(<<>>) = 0
      BY ThresholdsType
    <3>2. QED
      BY <3>1 DEF Recalls
  <2> HIDE DEF g
  <2>6. f[0].guard = g /\ f[0].broken = FALSE /\ f[0].verdicts = <<>>
    BY <2>1
  <2>7. \A k \in 1 .. 0 : Judged(cs, k, f[0].verdicts[k])
    OBVIOUS
  <2>8. QED
    BY <2>2, <2>3, <2>4, <2>5, <2>6, <2>7 DEF GuardAt
<1>4. ASSUME NEW n \in 0 .. (N - 2), n \in S PROVE n + 1 \in S
  <2>1. GuardAt(cs, n, N - 1, f[n]) /\ n \in Nat /\ n < N /\ n + 1 <= N - 1
    BY <1>1, <1>4
  <2>2. f[n + 1] = Ruled(f[n], cs[n + 1])
    <3>1. PICK k \in 1 .. N : k = n + 1 /\ k - 1 = n
      BY <1>1
    <3>2. f[k] = Ruled(f[k - 1], cs[k])
      BY <1>1, <1>2, Zenon DEF Runs
    <3>3. QED
      BY <3>1, <3>2
  <2>3. GuardAt(cs, n + 1, N - 1, f[n + 1])
    BY <1>1, <2>1, <2>2, RuledStep
  <2>4. QED
    BY <1>1, <2>3
<1>5. GuardAt(cs, N - 1, N - 1, f[N - 1])
  <2> DEFINE M == N - 1
  <2>1. M \in Nat /\ 0 \in S /\ \A n \in 0 .. (M - 1) : n \in S => n + 1 \in S
    BY <1>1, <1>3, <1>4
  <2>2. 0 .. M \subseteq S
    <3> HIDE DEF S, M
    <3>1. QED
      BY <2>1, Induction
  <2>3. M \in 0 .. M
    BY <2>1
  <2>4. QED
    BY <2>2, <2>3
<1> HIDE DEF S
<1> DEFINE old == f[N - 1].verdicts
<1>6. vs = Append(old, "break")
  <2>1. f[N] = Ruled(f[N - 1], cs[N])
    <3>1. N \in 1 .. N
      BY <1>1
    <3>2. QED
      BY <1>1, <1>2, <3>1, Zenon DEF Runs
  <2>2. PICK n \in Nat : n = N - 1 /\ n + 1 = N /\ n < N
    BY <1>1
  <2>3. GuardAt(cs, n, n, f[n])
    BY <1>5, <2>2, Zenon
  <2>4. Ruled(f[n], cs[n + 1]).verdicts = Append(f[n].verdicts, "break")
    BY <2>2, <2>3, RuledBreak
  <2>5. QED
    BY <1>2, <2>1, <2>2, <2>4
<1>7. old \in Rulings /\ Len(old) = N - 1 /\ \A k \in 1 .. (N - 1) : Judged(cs, k, old[k])
  BY <1>5 DEF GuardAt
<1> HIDE DEF old
<1>8. /\ vs \in Rulings /\ Len(vs) = N /\ vs[N] = "break"
      /\ \A k \in 1 .. (N - 1) : vs[k] = old[k]
  BY <1>1, <1>6, <1>7 DEF Rulings
<1>9. QED
  BY <1>7, <1>8

\* In one turn, and over whatever sequence of calls, no call is executed as often
\* as the threshold that blocks it; one that ends three rounds of a cycle is
\* executed only if its own count already drew the warning, and one that neither
\* repeats nor ends a cycle is let through; and the breaker ends it all
\* (loop_guard.rs:146).
THEOREM GuardStaysSound == Spec => []GuardIsSound
<1>1. ASSUME NEW cs \in [1 .. MaxGuarded -> Calls], NEW vs, vs = Verdicts(cs, MaxGuarded - 1)
      PROVE  /\ \A k \in DOMAIN vs : Looping(cs, k) /\ vs[k] \in {"allow", "warn"} =>
                   Times(cs, k) >= WarnThreshold * Multiplier(cs[k])
             /\ \A c \in Calls :
                   Cardinality({k \in DOMAIN vs : cs[k] = c /\ vs[k] \in {"allow", "warn"}}) < BlockThreshold * Multiplier(c)
             /\ \A k \in DOMAIN vs :
                   \/ k = MaxGuarded \/ Looping(cs, k)
                   \/ Times(cs, k) >= WarnThreshold * Multiplier(cs[k])
                   \/ vs[k] = "allow"
             /\ vs[Len(vs)] = "break" /\ Len(vs) = MaxGuarded
  <2> DEFINE N == MaxGuarded
             ran(k) == vs[k] \in {"allow", "warn"}
  <2>1. N \in Nat /\ N # 0
    BY LimitsType
  <2>2. vs \in Rulings /\ Len(vs) = N /\ vs[N] = "break" /\ \A k \in 1 .. (N - 1) : Judged(cs, k, vs[k])
    BY <1>1, <2>1, VerdictsAre
  <2>3. DOMAIN vs = 1 .. N /\ \A k \in 1 .. N : k = N \/ k \in 1 .. (N - 1)
    BY <2>1, <2>2 DEF Rulings
  <2>4. \A k \in 1 .. N : ran(k) => k \in 1 .. (N - 1)
    BY <2>2, <2>3
  <2>5. ASSUME NEW c \in Calls
        PROVE  Cardinality({k \in DOMAIN vs : cs[k] = c /\ ran(k)}) < BlockThreshold * Multiplier(c)
    <3> DEFINE K == {k \in DOMAIN vs : cs[k] = c /\ ran(k)}
               limit == BlockThreshold * Multiplier(c)
    <3>1. limit \in Nat /\ 0 < limit
      BY LimitsAre
    <3>2. CASE K = {}
      <4> HIDE DEF K, limit
      <4>1. QED
        BY <3>1, <3>2, FS_EmptySet DEF K, limit
    <3>3. CASE K # {}
      <4>1. K \in SUBSET (0 .. N)
        BY <2>3
      <4>2. PICK x \in K : \A y \in K : y <= x
        <5> HIDE DEF K
        <5>1. QED
          BY <2>1, <3>3, <4>1, Greatest
      <4>3. cs[x] = c /\ ran(x) /\ x \in 1 .. (N - 1)
        BY <2>3, <2>4
      <4> DEFINE T == {l \in 1 .. x : cs[l] = cs[x]}
      <4>4. K \subseteq T
        BY <2>3, <4>2, <4>3
      <4>5. IsFiniteSet(T)
        <5>1. IsFiniteSet(1 .. x) /\ T \subseteq 1 .. x
          BY <4>3, FS_Interval
        <5> HIDE DEF T
        <5>2. QED
          BY <5>1, FS_Subset
      <4>6. Cardinality(T) < limit
        <5>1. Times(cs, x) < BlockThreshold * Multiplier(cs[x])
          BY <2>2, <4>3 DEF Judged
        <5>2. QED
          BY <4>3, <5>1 DEF Times, Made
      <4> HIDE DEF T, K, limit
      <4>7. Cardinality(K) <= Cardinality(T) /\ Cardinality(K) \in Nat /\ Cardinality(T) \in Nat
        BY <4>4, <4>5, FS_Subset, FS_CardinalityType
      <4>8. Cardinality(K) < limit
        BY <3>1, <4>6, <4>7
      <4>9. QED
        BY <4>8 DEF K, limit
    <3>4. QED
      BY <3>2, <3>3
  <2>6. \A k \in 1 .. N : Looping(cs, k) /\ ran(k) => Times(cs, k) >= WarnThreshold * Multiplier(cs[k])
    BY <2>2, <2>4, Zenon DEF Judged
  <2>7. \A k \in 1 .. N :
            k = N \/ Looping(cs, k) \/ Times(cs, k) >= WarnThreshold * Multiplier(cs[k]) \/ vs[k] = "allow"
    BY <2>2, <2>3, Zenon DEF Judged
  <2>8. QED
    BY <2>2, <2>3, <2>5, <2>6, <2>7
<1>2. ExecutionsBounded => GuardIsSound
  BY <1>1, Zenon DEF GuardIsSound, Looping, Cycled, Times, Made
<1>3. QED
  BY <1>2, ExecutionsStayBounded, PTL
=============================================================================
