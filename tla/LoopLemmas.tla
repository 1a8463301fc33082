----------------------------- MODULE LoopLemmas -----------------------------
(***************************************************************************)
(* Induction, and what the loops of the model compute.  The code's loops   *)
(* are folds over sequences (FoldLeft) and rounds of one step (Repeat):    *)
(* each passes through the states of a trace, one per round, and the value *)
(* is the last one.  A proof about a loop is an induction along its trace. *)
(*                                                                         *)
(* The step is a constant of this module: a proof module takes one         *)
(* instance per loop body; `c` and `d` are what the body reads from around *)
(* the loop.                                                               *)
(***************************************************************************)
EXTENDS Integers, Sequences, Folds, WellFoundedInduction, TLAPS

CONSTANTS Body(_, _, _, _)   \* the body: surroundings, state, and element or round

Greatest(S) == CHOOSE x \in S : \A y \in S : x >= y

\* Of some natural numbers there is a least one.
LEMMA LeastNumber ==
    ASSUME NEW T \in SUBSET Nat, T # {}
    PROVE  \E n \in T : \A m \in T : n <= m
<1>. DEFINE R == OpToRel(<, Nat)
<1>1. \A m, n \in Nat : <<m, n>> \in R <=> m < n
  BY DEF OpToRel
<1>2. IsWellFoundedOn(R, Nat)
  BY NatLessThanWellFounded
<1>. HIDE DEF R
<1>3. PICK n \in T : \A m \in T : ~ (<<m, n>> \in R)
  BY <1>2, WFMin
<1>4. ASSUME NEW m \in T PROVE n <= m
  <2>1. n \in Nat /\ m \in Nat
    OBVIOUS
  <2>2. ~ (m < n)
    BY <1>1, <1>3, <2>1, Zenon
  <2>. QED
    BY <2>1, <2>2, SMT
<1>. QED
  BY <1>4

\* Induction up to `n`: a set with 0 that has the next of each of its numbers
\* below `n` has them all.
LEMMA Induction ==
    ASSUME NEW n \in Nat, NEW T, 0 \in T,
           \A k \in 0 .. n - 1 : k \in T => k + 1 \in T
    PROVE  \A k \in 0 .. n : k \in T
<1>. DEFINE Missing == {k \in Nat : k <= n /\ k \notin T}
<1>1. SUFFICES ASSUME Missing # {} PROVE FALSE
  OBVIOUS
<1>2. Missing \in SUBSET Nat
  OBVIOUS
<1>3. PICK m \in Missing : \A k \in Missing : m <= k
  <2>. HIDE DEF Missing
  <2>. QED
    BY <1>1, <1>2, LeastNumber
<1>4. m # 0 /\ m \in Nat /\ m <= n /\ m \notin T
  OBVIOUS
<1>5. m - 1 \in 0 .. n - 1 /\ (m - 1) + 1 = m
  BY <1>4
<1>6. m - 1 \in T
  BY <1>3, <1>4, <1>5
<1>. QED
  BY <1>4, <1>5, <1>6

\* The states a loop passes through: `trace[k]` after k rounds over `elems`.
Trace(c, d, start, elems, n, trace) ==
    /\ trace[0] = start
    /\ \A k \in 1 .. n : trace[k] = Body(c, d, trace[k - 1], elems[k])

\* Two traces over the same elements are the same.
LEMMA TraceUnique ==
    ASSUME NEW c, NEW d, NEW start, NEW n \in Nat, NEW e, NEW f, NEW t, NEW u,
           \A k \in 1 .. n : e[k] = f[k],
           Trace(c, d, start, e, n, t), Trace(c, d, start, f, n, u)
    PROVE  \A k \in 0 .. n : t[k] = u[k]
<1>. DEFINE T == {k \in 0 .. n : t[k] = u[k]}
<1>1. 0 \in T
  BY DEF Trace
<1>2. ASSUME NEW k \in 0 .. n - 1, k \in T PROVE k + 1 \in T
  <2>1. k + 1 \in 1 .. n /\ (k + 1) - 1 = k
    OBVIOUS
  <2>2. t[k + 1] = Body(c, d, t[(k + 1) - 1], e[k + 1]) /\ u[k + 1] = Body(c, d, u[(k + 1) - 1], f[k + 1])
    BY <2>1, Zenon DEF Trace
  <2>3. e[k + 1] = f[k + 1] /\ t[k] = u[k]
    BY <2>1, <1>2
  <2>. QED
    BY <2>1, <2>2, <2>3
<1>. HIDE DEF T
<1>3. \A k \in 0 .. n : k \in T
  BY <1>1, <1>2, Induction
<1>. QED
  BY <1>3 DEF T

\* The set of the numbers up to `k`, without its largest.
LEMMA LargestTakenOut ==
    ASSUME NEW k \in Nat \ {0}
    PROVE  /\ Greatest(1 .. k) = k
           /\ (1 .. k) \ {k} = 1 .. k - 1
<1>1. k \in 1 .. k /\ \A y \in 1 .. k : k >= y
  OBVIOUS
<1>2. \A x \in 1 .. k : (\A y \in 1 .. k : x >= y) => x = k
  BY <1>1, SMT
<1>. DEFINE Largest(x) == \A y \in 1 .. k : x >= y
<1>3. Greatest(1 .. k) = CHOOSE x \in 1 .. k : Largest(x)
  BY Zenon DEF Greatest
<1>4. (CHOOSE x \in 1 .. k : Largest(x)) = k
  <2>1. k \in 1 .. k /\ Largest(k) /\ \A x \in 1 .. k : Largest(x) => x = k
    BY <1>1, <1>2
  <2>. HIDE DEF Largest
  <2>. QED
    BY <2>1, Zenon
<1>. QED
  BY <1>3, <1>4

\* n rounds of the body: the last state of a trace.
RoundsOf(c, d, start, n) ==
    LET round[k \in 0 .. n] == IF k = 0 THEN start ELSE Body(c, d, round[k - 1], k) IN round[n]

\* A recursive function on 0..n exists and its values are a trace.
LEMMA RoundsTrace ==
    ASSUME NEW c, NEW d, NEW start, NEW n \in Nat
    PROVE  \E t : Trace(c, d, start, [k \in 1 .. n |-> k], n, t) /\ RoundsOf(c, d, start, n) = t[n]
<1>. DEFINE Defines(f, m) == f = [k \in 0 .. m |-> IF k = 0 THEN start ELSE Body(c, d, f[k - 1], k)]
            T == {m \in 0 .. n : \E f : Defines(f, m)}
<1>1. 0 \in T
  <2>. DEFINE f == [k \in 0 .. 0 |-> start]
  <2>1. Defines(f, 0)
    OBVIOUS
  <2>. HIDE DEF Defines
  <2>. QED
    BY <2>1
<1>2. ASSUME NEW m \in 0 .. n - 1, m \in T PROVE m + 1 \in T
  <2>1. PICK f : Defines(f, m)
    BY <1>2
  <2>. DEFINE g == [k \in 0 .. m + 1 |-> IF k = m + 1 THEN Body(c, d, f[m], m + 1) ELSE f[k]]
              h == [k \in 0 .. m + 1 |-> IF k = 0 THEN start ELSE Body(c, d, g[k - 1], k)]
  <2>2. ASSUME NEW k \in 0 .. m + 1 PROVE g[k] = h[k]
    <3>1. CASE k = 0
      BY <2>1, <3>1
    <3>2. CASE k = m + 1
      <4>1. k - 1 = m /\ k # 0 /\ m \in 0 .. m + 1 /\ m # m + 1
        BY <3>2
      <4>2. g[k - 1] = f[m] /\ g[k] = Body(c, d, f[m], m + 1)
        BY <4>1, <3>2
      <4>. QED
        BY <3>2, <4>1, <4>2, Zenon
    <3>3. CASE k # 0 /\ k # m + 1
      <4>1. k \in 1 .. m /\ k - 1 \in 0 .. m /\ k - 1 # m + 1 /\ k \in 0 .. m
        BY <3>3
      <4>2. g[k - 1] = f[k - 1] /\ g[k] = f[k] /\ h[k] = Body(c, d, g[k - 1], k)
        BY <4>1, <3>3
      <4>3. f[k] = Body(c, d, f[k - 1], k)
        BY <2>1, <4>1, <3>3
      <4>. QED
        BY <4>2, <4>3, Zenon
    <3>. QED
      BY <3>1, <3>2, <3>3
  <2>3. g = h
    <3>. HIDE DEF h, g
    <3>1. h = [k \in 0 .. m + 1 |-> h[k]] /\ g = [k \in 0 .. m + 1 |-> g[k]]
      BY DEF h, g
    <3>. QED
      BY <3>1, <2>2
  <2>4. Defines(g, m + 1)
    BY <2>3, Zenon
  <2>5. m + 1 \in 0 .. n
    OBVIOUS
  <2>. HIDE DEF Defines
  <2>. QED
    BY <2>4, <2>5
<1>3. n \in T
  <2>. HIDE DEF T
  <2>. QED
    BY <1>1, <1>2, Induction
<1>. DEFINE round == CHOOSE f : Defines(f, n)
<1>4. Defines(round, n)
  <2>1. \E f : Defines(f, n)
    BY <1>3
  <2>. HIDE DEF Defines
  <2>. QED
    BY <2>1, Zenon
<1>5. RoundsOf(c, d, start, n) = round[n]
  BY Zenon DEF RoundsOf
<1>6. Trace(c, d, start, [k \in 1 .. n |-> k], n, round)
  <2>. HIDE DEF round
  <2>. QED
    BY <1>4 DEF Trace
<1>. QED
  BY <1>5, <1>6

\* A fold over a sequence, in the shape of a loop: FoldLeft of SequencesExt,
\* written out, since an instance of this module would carry all of that one.
FoldOf(c, d, start, seq) ==
    MapThenFoldSet(LAMBDA x, acc : Body(c, d, acc, x), start, LAMBDA i : seq[i],
                   LAMBDA S : Greatest(S), DOMAIN seq)

\* A fold exists and its states are a trace: it takes the elements in order.
LEMMA FoldTrace ==
    ASSUME NEW c, NEW d, NEW start, NEW n \in Nat, NEW seq, DOMAIN seq = 1 .. n
    PROVE  \E t : Trace(c, d, start, seq, n, t) /\ FoldOf(c, d, start, seq) = t[n]
<1>. DEFINE Val(f, s) == IF s = {} THEN start ELSE Body(c, d, f[s \ {Greatest(s)}], seq[Greatest(s)])
            Defines(f, m) == f = [s \in SUBSET (1 .. m) |-> Val(f, s)]
            T == {m \in 0 .. n : \E f : Defines(f, m)}
<1>1. 0 \in T
  <2>. DEFINE f == [s \in SUBSET (1 .. 0) |-> start]
  <2>1. \A s \in SUBSET (1 .. 0) : Val(f, s) = start
    OBVIOUS
  <2>2. Defines(f, 0)
    <3>. HIDE DEF Val
    <3>. QED
      BY <2>1
  <2>. HIDE DEF Defines
  <2>. QED
    BY <2>2
<1>2. ASSUME NEW m \in 0 .. n - 1, m \in T PROVE m + 1 \in T
  <2>1. PICK f : Defines(f, m)
    BY <1>2
  <2>. DEFINE g == [s \in SUBSET (1 .. m + 1) |->
                      IF m + 1 \in s THEN Body(c, d, f[s \ {m + 1}], seq[m + 1]) ELSE f[s]]
              h == [s \in SUBSET (1 .. m + 1) |-> Val(g, s)]
  <2>2. ASSUME NEW s \in SUBSET (1 .. m + 1) PROVE g[s] = h[s]
    <3>1. CASE s = {}
      <4>1. h[s] = start
        BY <3>1
      <4>2. g[s] = f[s]
        BY <3>1
      <4>3. {} \in SUBSET (1 .. m) /\ f[{}] = Val(f, {})
        <5>. HIDE DEF Val
        <5>. QED
          BY <2>1
      <4>. QED
        BY <4>1, <4>2, <4>3, <3>1
    <3>2. CASE m + 1 \in s
      <4>1. Greatest(s) = m + 1
        <5>1. s \in SUBSET Nat /\ \A y \in s : m + 1 >= y
          OBVIOUS
        <5>2. (CHOOSE x \in s : \A y \in s : x >= y) = m + 1
          <6>. DEFINE Largest(x) == \A y \in s : x >= y
          <6>1. Largest(m + 1) /\ \A x \in s : Largest(x) => x = m + 1
            BY <3>2, <5>1, SMT
          <6>. HIDE DEF Largest
          <6>2. (CHOOSE x \in s : Largest(x)) = m + 1
            BY <6>1, <3>2, Zenon
          <6>. QED
            BY <6>2, Zenon DEF Largest
        <5>. QED
          BY <5>2, Zenon DEF Greatest
      <4>2. s \ {m + 1} \in SUBSET (1 .. m + 1) /\ ~(m + 1 \in s \ {m + 1}) /\ s # {}
        BY <3>2
      <4>3. g[s \ {m + 1}] = f[s \ {m + 1}] /\ g[s] = Body(c, d, f[s \ {m + 1}], seq[m + 1])
        BY <4>2, <3>2, Zenon
      <4>4. h[s] = Body(c, d, g[s \ {m + 1}], seq[m + 1])
        <5>1. h[s] = Val(g, s)
          BY Zenon
        <5>2. Val(g, s) = Body(c, d, g[s \ {Greatest(s)}], seq[Greatest(s)])
          <6>. HIDE DEF g
          <6>. QED
            BY <4>2, Zenon
        <5>. QED
          BY <5>1, <5>2, <4>1, Zenon
      <4>. QED
        BY <4>3, <4>4, Zenon
    <3>3. CASE s # {} /\ m + 1 \notin s
      <4>1. s \in SUBSET (1 .. m)
        BY <3>3
      <4>2. s \ {Greatest(s)} \in SUBSET (1 .. m + 1) /\ s \ {Greatest(s)} \in SUBSET (1 .. m)
            /\ m + 1 \notin s \ {Greatest(s)}
        BY <3>3, <4>1
      <4>3. g[s] = f[s] /\ g[s \ {Greatest(s)}] = f[s \ {Greatest(s)}]
        BY <3>3, <4>2, Zenon
      <4>4. f[s] = Val(f, s)
        <5>. HIDE DEF Val
        <5>. QED
          BY <2>1, <4>1
      <4>5. h[s] = Val(g, s)
        BY Zenon
      <4>. QED
        BY <3>3, <4>3, <4>4, <4>5, Zenon
    <3>. QED
      BY <3>1, <3>2, <3>3
  <2>3. g = h
    <3>. HIDE DEF Val
    <3>1. h = [s \in SUBSET (1 .. m + 1) |-> h[s]] /\ g = [s \in SUBSET (1 .. m + 1) |-> g[s]]
      BY Zenon
    <3>. HIDE DEF h, g
    <3>. QED
      BY <3>1, <2>2, Zenon
  <2>4. Defines(g, m + 1)
    <3>. HIDE DEF Val
    <3>. QED
      BY <2>3, Zenon
  <2>5. m + 1 \in 0 .. n
    OBVIOUS
  <2>. HIDE DEF Defines
  <2>. QED
    BY <2>4, <2>5
<1>3. n \in T
  <2>. HIDE DEF T, Val, Defines
  <2>1. \A k \in 0 .. n : k \in T
    BY <1>1, <1>2, Induction
  <2>. QED
    BY <2>1
<1>. DEFINE iter == CHOOSE f : Defines(f, n)
<1>4. Defines(iter, n)
  <2>1. \E f : Defines(f, n)
    BY <1>3
  <2>. HIDE DEF Defines
  <2>. QED
    BY <2>1, Zenon
<1>5. FoldOf(c, d, start, seq) = iter[1 .. n]
  BY Zenon DEF FoldOf, MapThenFoldSet
<1>. DEFINE t == [k \in 0 .. n |-> iter[1 .. k]]
<1>6. Trace(c, d, start, seq, n, t)
  <2>. HIDE DEF iter
  <2>1. \A k \in 0 .. n : iter[1 .. k] = Val(iter, 1 .. k)
    <3>1. \A k \in 0 .. n : 1 .. k \in SUBSET (1 .. n)
      OBVIOUS
    <3>. HIDE DEF Val
    <3>. QED
      BY <3>1, <1>4
  <2>2. t[0] = start
    <3>1. 0 \in 0 .. n /\ 1 .. 0 = {}
      OBVIOUS
    <3>2. t[0] = iter[1 .. 0]
      BY <3>1
    <3>3. iter[1 .. 0] = Val(iter, {})
      BY <2>1, <3>1, Zenon
    <3>4. Val(iter, {}) = start
      BY Zenon
    <3>. QED
      BY <3>2, <3>3, <3>4, Zenon
  <2>3. ASSUME NEW k \in 1 .. n PROVE t[k] = Body(c, d, t[k - 1], seq[k])
    <3>1. k \in Nat \ {0} /\ k \in 0 .. n /\ k - 1 \in 0 .. n /\ 1 .. k # {}
      <4>1. k \in Nat \ {0} /\ k \in 0 .. n /\ k - 1 \in 0 .. n
        OBVIOUS
      <4>2. k \in 1 .. k
        BY <4>1
      <4>. QED
        BY <4>1, <4>2, Zenon
    <3>2. Greatest(1 .. k) = k /\ (1 .. k) \ {k} = 1 .. k - 1
      BY <3>1, LargestTakenOut
    <3>3. Val(iter, 1 .. k) = Body(c, d, iter[1 .. k - 1], seq[k])
      BY <3>1, <3>2, Zenon
    <3>4. t[k] = iter[1 .. k] /\ t[k - 1] = iter[1 .. k - 1]
      BY <3>1
    <3>. QED
      BY <2>1, <3>1, <3>3, <3>4, Zenon
  <2>. HIDE DEF t
  <2>. QED
    BY <2>2, <2>3 DEF Trace
<1>7. t[n] = iter[1 .. n]
  <2>. HIDE DEF iter
  <2>. QED
    OBVIOUS
<1>. HIDE DEF t, iter
<1>. QED
  BY <1>5, <1>6, <1>7

\* What holds of the start and is kept by the body holds after a fold.
LEMMA FoldIn ==
    ASSUME NEW c, NEW d, NEW start, NEW n \in Nat, NEW seq, DOMAIN seq = 1 .. n,
           NEW Inv, start \in Inv,
           \A acc \in Inv, k \in 1 .. n : Body(c, d, acc, seq[k]) \in Inv
    PROVE  FoldOf(c, d, start, seq) \in Inv
<1>1. PICK t : Trace(c, d, start, seq, n, t) /\ FoldOf(c, d, start, seq) = t[n]
  BY FoldTrace
<1>. DEFINE T == {k \in 0 .. n : t[k] \in Inv}
<1>2. 0 \in T
  BY <1>1 DEF Trace
<1>3. ASSUME NEW k \in 0 .. n - 1, k \in T PROVE k + 1 \in T
  <2>1. k + 1 \in 1 .. n /\ (k + 1) - 1 = k /\ t[k] \in Inv
    BY <1>3
  <2>2. t[k + 1] = Body(c, d, t[(k + 1) - 1], seq[k + 1])
    BY <1>1, <2>1, Zenon DEF Trace
  <2>3. t[k + 1] \in Inv
    BY <2>1, <2>2, Zenon
  <2>. QED
    BY <2>1, <2>3
<1>. HIDE DEF T
<1>4. \A k \in 0 .. n : k \in T
  BY <1>2, <1>3, Induction
<1>. QED
  BY <1>1, <1>4 DEF T

\* The same for what holds after so many elements: `Inv[k]` after k of them.
LEMMA FoldAlong ==
    ASSUME NEW c, NEW d, NEW start, NEW n \in Nat, NEW seq, DOMAIN seq = 1 .. n,
           NEW Inv, start \in Inv[0],
           \A k \in 0 .. n - 1 : \A acc \in Inv[k] : Body(c, d, acc, seq[k + 1]) \in Inv[k + 1]
    PROVE  FoldOf(c, d, start, seq) \in Inv[n]
<1>1. PICK t : Trace(c, d, start, seq, n, t) /\ FoldOf(c, d, start, seq) = t[n]
  BY FoldTrace
<1>. DEFINE T == {k \in 0 .. n : t[k] \in Inv[k]}
<1>2. 0 \in T
  BY <1>1 DEF Trace
<1>3. ASSUME NEW k \in 0 .. n - 1, k \in T PROVE k + 1 \in T
  <2>1. k + 1 \in 1 .. n /\ (k + 1) - 1 = k /\ t[k] \in Inv[k]
    BY <1>3
  <2>2. t[k + 1] = Body(c, d, t[(k + 1) - 1], seq[k + 1])
    BY <1>1, <2>1, Zenon DEF Trace
  <2>3. t[k + 1] \in Inv[k + 1]
    BY <2>1, <2>2, Zenon
  <2>. QED
    BY <2>1, <2>3
<1>. HIDE DEF T
<1>4. \A k \in 0 .. n : k \in T
  BY <1>2, <1>3, Induction
<1>. QED
  BY <1>1, <1>4 DEF T

\* What holds of the start and is kept by the body holds after any rounds.
LEMMA RoundsIn ==
    ASSUME NEW c, NEW d, NEW start, NEW n \in Nat,
           NEW Inv, start \in Inv,
           \A acc \in Inv, k \in 1 .. n : Body(c, d, acc, k) \in Inv
    PROVE  RoundsOf(c, d, start, n) \in Inv
<1>. DEFINE e == [k \in 1 .. n |-> k]
<1>1. PICK t : Trace(c, d, start, e, n, t) /\ RoundsOf(c, d, start, n) = t[n]
  BY RoundsTrace
<1>. DEFINE T == {k \in 0 .. n : t[k] \in Inv}
<1>2. 0 \in T
  BY <1>1 DEF Trace
<1>3. ASSUME NEW k \in 0 .. n - 1, k \in T PROVE k + 1 \in T
  <2>1. k + 1 \in 1 .. n /\ (k + 1) - 1 = k /\ t[k] \in Inv /\ e[k + 1] = k + 1
    BY <1>3
  <2>2. t[k + 1] = Body(c, d, t[(k + 1) - 1], e[k + 1])
    BY <1>1, <2>1, Zenon DEF Trace
  <2>3. t[k + 1] \in Inv
    BY <2>1, <2>2, Zenon
  <2>. QED
    BY <2>1, <2>3
<1>. HIDE DEF T
<1>4. \A k \in 0 .. n : k \in T
  BY <1>2, <1>3, Induction
<1>. QED
  BY <1>1, <1>4 DEF T

\* A fold over nothing, and over one element more.
LEMMA FoldEmpty ==
    ASSUME NEW c, NEW d, NEW start
    PROVE  FoldOf(c, d, start, << >>) = start
<1>1. DOMAIN << >> = 1 .. 0 /\ 0 \in Nat
  OBVIOUS
<1>2. PICK t : Trace(c, d, start, << >>, 0, t) /\ FoldOf(c, d, start, << >>) = t[0]
  <2>. DEFINE none == << >>
  <2>1. DOMAIN none = 1 .. 0
    BY <1>1
  <2>. HIDE DEF none
  <2>2. \E t : Trace(c, d, start, none, 0, t) /\ FoldOf(c, d, start, none) = t[0]
    BY <1>1, <2>1, FoldTrace
  <2>. QED
    BY <2>2 DEF none
<1>. QED
  BY <1>2, Zenon DEF Trace

\* A fold over one more element does one more step.
LEMMA FoldAppend ==
    ASSUME NEW c, NEW d, NEW start, NEW S, NEW seq \in Seq(S), NEW x \in S
    PROVE  FoldOf(c, d, start, Append(seq, x)) = Body(c, d, FoldOf(c, d, start, seq), x)
<1>. DEFINE n == Len(seq)
            all == Append(seq, x)
<1>1. n \in Nat /\ DOMAIN seq = 1 .. n
  OBVIOUS
<1>2. DOMAIN all = 1 .. n + 1 /\ all[n + 1] = x /\ \A k \in 1 .. n : all[k] = seq[k]
  OBVIOUS
<1>3. PICK t : Trace(c, d, start, seq, n, t) /\ FoldOf(c, d, start, seq) = t[n]
  BY <1>1, FoldTrace
<1>. HIDE DEF n, all
<1>4. n + 1 \in Nat
  BY <1>1
<1>5. PICK u : Trace(c, d, start, all, n + 1, u) /\ FoldOf(c, d, start, all) = u[n + 1]
  BY <1>2, <1>4, FoldTrace
<1>6. Trace(c, d, start, all, n, u)
  BY <1>1, <1>5 DEF Trace
<1>7. u[n] = t[n]
  <2>1. n \in Nat /\ \A k \in 1 .. n : seq[k] = all[k]
    BY <1>1, <1>2
  <2>2. \A k \in 0 .. n : t[k] = u[k]
    BY <1>3, <1>6, <2>1, TraceUnique, SMTT(30)
  <2>. QED
    BY <2>2, <1>1
<1>8. u[n + 1] = Body(c, d, u[n], x)
  <2>1. n + 1 \in 1 .. n + 1 /\ (n + 1) - 1 = n
    BY <1>1
  <2>2. u[n + 1] = Body(c, d, u[(n + 1) - 1], all[n + 1])
    BY <1>5, <2>1, Zenon DEF Trace
  <2>. QED
    BY <1>2, <2>1, <2>2, Zenon
<1>. QED
  BY <1>3, <1>5, <1>7, <1>8, Zenon DEF all

\* Some numbers up to `n` have a largest.
LEMMA LargestNumber ==
    ASSUME NEW n \in Nat, NEW I \in SUBSET (1 .. n), I # {}
    PROVE  Greatest(I) \in I /\ \A y \in I : Greatest(I) >= y
<1>. DEFINE D == {k \in Nat : \E i \in I : k = n - i}
            Largest(x) == \A y \in I : x >= y
<1>1. D \in SUBSET Nat /\ D # {}
  <2>1. PICK i \in I : TRUE
    OBVIOUS
  <2>2. i \in 1 .. n /\ n - i \in Nat
    OBVIOUS
  <2>3. n - i \in D
    BY <2>1, <2>2
  <2>. QED
    BY <2>3
<1>2. PICK k \in D : \A m \in D : k <= m
  <2>. HIDE DEF D
  <2>. QED
    BY <1>1, LeastNumber
<1>3. PICK i \in I : k = n - i
  OBVIOUS
<1>4. Largest(i)
  <2>1. SUFFICES ASSUME NEW y \in I PROVE i >= y
    OBVIOUS
  <2>2. y \in 1 .. n /\ i \in 1 .. n /\ n - y \in Nat
    OBVIOUS
  <2>3. n - y \in D
    BY <2>2
  <2>4. k <= n - y
    BY <1>2, <2>3
  <2>. QED
    BY <1>3, <2>2, <2>4
<1>5. Greatest(I) = CHOOSE x \in I : Largest(x)
  BY Zenon DEF Greatest
<1>. HIDE DEF Largest
<1>6. Greatest(I) \in I /\ Largest(Greatest(I))
  BY <1>4, <1>5, Zenon
<1>. QED
  BY <1>6 DEF Largest

\* The first k + 1 elements are the first k and one more.
LEMMA OneMore ==
    ASSUME NEW S, NEW seq \in Seq(S), NEW k \in 0 .. Len(seq) - 1
    PROVE  /\ SubSeq(seq, 1, k) \in Seq(S)
           /\ SubSeq(seq, 1, k + 1) = Append(SubSeq(seq, 1, k), seq[k + 1])
           /\ seq[k + 1] \in S
<1>1. k \in Nat /\ k + 1 \in 1 .. Len(seq)
  OBVIOUS
<1>2. seq[k + 1] \in S
  BY <1>1
<1>3. SubSeq(seq, 1, k) \in Seq(S) /\ Len(SubSeq(seq, 1, k)) = k
      /\ \A i \in 1 .. k : SubSeq(seq, 1, k)[i] = seq[i]
  BY <1>1
<1>4. SubSeq(seq, 1, k + 1) \in Seq(S) /\ Len(SubSeq(seq, 1, k + 1)) = k + 1
      /\ \A i \in 1 .. k + 1 : SubSeq(seq, 1, k + 1)[i] = seq[i]
  BY <1>1
<1>. DEFINE new == Append(SubSeq(seq, 1, k), seq[k + 1])
            all == SubSeq(seq, 1, k + 1)
<1>5. new \in Seq(S) /\ Len(new) = k + 1 /\ \A i \in 1 .. k + 1 : new[i] = seq[i]
  BY <1>1, <1>2, <1>3
<1>6. all = new
  <2>1. all \in Seq(S) /\ Len(all) = Len(new) /\ \A i \in 1 .. Len(all) : all[i] = new[i]
    BY <1>1, <1>4, <1>5
  <2>. HIDE DEF new, all
  <2>. QED
    BY <1>5, <2>1
<1>. QED
  BY <1>2, <1>3, <1>6

\* Three sequences one after the other.
LEMMA ThreeInARow ==
    ASSUME NEW X, NEW f \in Seq(X), NEW g \in Seq(X), NEW h \in Seq(X)
    PROVE  g \o h \in Seq(X) /\ (f \o g) \o h = f \o (g \o h)
<1>1. g \o h \in Seq(X)
  OBVIOUS
<1>2. (f \o g) \o h = f \o (g \o h)
  OBVIOUS
<1>. QED
  BY <1>1, <1>2

\* The body appends to a sequence of S something that it makes of an element.
Appends(c, d, S, U) ==
    \A acc \in Seq(S), x \in U : /\ Body(c, d, << >>, x) \in Seq(S)
                                 /\ Body(c, d, acc, x) = acc \o Body(c, d, << >>, x)

\* The fold of two sequences one after the other is the folds of the two so.
Splits(c, d, s, t) == FoldOf(c, d, << >>, s \o t) = FoldOf(c, d, << >>, s) \o FoldOf(c, d, << >>, t)

\* A fold whose body only appends takes two sequences one after the other.
LEMMA FoldConcat ==
    ASSUME NEW c, NEW d, NEW S, NEW U, NEW s \in Seq(U), NEW t \in Seq(U),
           Appends(c, d, S, U)
    PROVE  /\ FoldOf(c, d, << >>, s) \in Seq(S) /\ FoldOf(c, d, << >>, t) \in Seq(S)
           /\ Splits(c, d, s, t)
<1>. DEFINE F(r) == FoldOf(c, d, << >>, r)
            B(x) == Body(c, d, << >>, x)
            Good(k) == F(SubSeq(t, 1, k)) \in Seq(S)
                       /\ F(s \o SubSeq(t, 1, k)) = F(s) \o F(SubSeq(t, 1, k))
            T == {k \in 0 .. Len(t) : Good(k)}
<1>1. \A r \in Seq(U) : F(r) \in Seq(S)
  <2>1. SUFFICES ASSUME NEW r \in Seq(U) PROVE F(r) \in Seq(S)
    OBVIOUS
  <2>2. Len(r) \in Nat /\ DOMAIN r = 1 .. Len(r) /\ << >> \in Seq(S)
    OBVIOUS
  <2>3. \A acc \in Seq(S), k \in 1 .. Len(r) : Body(c, d, acc, r[k]) \in Seq(S)
    <3>1. SUFFICES ASSUME NEW acc \in Seq(S), NEW k \in 1 .. Len(r)
                   PROVE  Body(c, d, acc, r[k]) \in Seq(S)
      OBVIOUS
    <3>2. r[k] \in U
      OBVIOUS
    <3>3. B(r[k]) \in Seq(S) /\ Body(c, d, acc, r[k]) = acc \o B(r[k])
      BY <3>2, Zenon DEF Appends
    <3>. HIDE DEF B
    <3>. QED
      BY <3>3
  <2>. QED
    BY <2>2, <2>3, FoldIn
<1>2. 0 \in T
  <2>1. SubSeq(t, 1, 0) = << >> /\ s \o << >> = s
    OBVIOUS
  <2>2. F(<< >>) = << >>
    BY FoldEmpty
  <2>3. F(s) \in Seq(S) /\ << >> \in Seq(S)
    BY <1>1
  <2>4. F(s) = F(s) \o << >>
    <3>. HIDE DEF F
    <3>. QED
      BY <2>3
  <2>5. Good(0)
    BY <2>1, <2>2, <2>3, <2>4
  <2>. HIDE DEF Good
  <2>. QED
    BY <2>5
<1>3. ASSUME NEW k \in 0 .. Len(t) - 1, k \in T PROVE k + 1 \in T
  <2>. DEFINE p == SubSeq(t, 1, k)
              x == t[k + 1]
  <2>1. p \in Seq(U) /\ SubSeq(t, 1, k + 1) = Append(p, x) /\ x \in U
    BY OneMore
  <2>2. Good(k)
    <3>. HIDE DEF Good
    <3>. QED
      BY <1>3
  <2>3. F(p) \in Seq(S) /\ F(s \o p) = F(s) \o F(p)
    BY <2>2
  <2>4. s \o p \in Seq(U) /\ s \o Append(p, x) = Append(s \o p, x)
    <3>. HIDE DEF p, x
    <3>. QED
      BY <2>1
  <2>5. F(Append(p, x)) = Body(c, d, F(p), x) /\ F(Append(s \o p, x)) = Body(c, d, F(s \o p), x)
    <3>. HIDE DEF p, x
    <3>1. F(Append(p, x)) = Body(c, d, F(p), x)
      BY <2>1, FoldAppend
    <3>. DEFINE q == s \o p
    <3>2. q \in Seq(U)
      BY <2>4
    <3>. HIDE DEF q
    <3>3. F(Append(q, x)) = Body(c, d, F(q), x)
      BY <2>1, <3>2, FoldAppend
    <3>. QED
      BY <3>1, <3>3 DEF q
  <2>6. B(x) \in Seq(S) /\ Body(c, d, F(p), x) = F(p) \o B(x)
        /\ Body(c, d, F(s \o p), x) = F(s \o p) \o B(x)
    <3>1. F(s \o p) \in Seq(S)
      BY <1>1, <2>4
    <3>. HIDE DEF p, x, F
    <3>. QED
      BY <2>1, <2>3, <3>1, Zenon DEF Appends
  <2>7. F(s) \in Seq(S)
    BY <1>1
  <2>8. F(p) \o B(x) \in Seq(S) /\ (F(s) \o F(p)) \o B(x) = F(s) \o (F(p) \o B(x))
    <3>1. \A f, g, h \in Seq(S) : g \o h \in Seq(S) /\ (f \o g) \o h = f \o (g \o h)
      BY ThreeInARow, SMTT(40)
    <3>. HIDE DEF F, B, p, x
    <3>. QED
      BY <2>3, <2>6, <2>7, <3>1
  <2>9. Good(k + 1)
    <3>. HIDE DEF F, B, p, x
    <3>. QED
      BY <2>1, <2>3, <2>4, <2>5, <2>6, <2>8, Zenon
  <2>10. k + 1 \in 0 .. Len(t)
    OBVIOUS
  <2>. HIDE DEF Good
  <2>. QED
    BY <2>9, <2>10
<1>4. Good(Len(t))
  <2>1. Len(t) \in Nat
    OBVIOUS
  <2>. HIDE DEF T
  <2>2. \A k \in 0 .. Len(t) : k \in T
    BY <1>2, <1>3, <2>1, Induction
  <2>3. Len(t) \in T
    BY <2>1, <2>2
  <2>. HIDE DEF Good
  <2>. QED
    BY <2>3 DEF T
<1>5. SubSeq(t, 1, Len(t)) = t
  OBVIOUS
<1>. QED
  BY <1>1, <1>4, <1>5, Zenon DEF Splits

\* The body adds to a number something that it makes of an element.
Adds(c, d, U) ==
    \A acc \in Nat, x \in U : /\ Body(c, d, 0, x) \in Nat
                              /\ Body(c, d, acc, x) = acc + Body(c, d, 0, x)

\* A fold whose body only adds is a sum: that of two sequences one after the
\* other is the sum of the two sums.
LEMMA FoldSums ==
    ASSUME NEW c, NEW d, NEW U, NEW s \in Seq(U), NEW t \in Seq(U), Adds(c, d, U)
    PROVE  /\ FoldOf(c, d, 0, s) \in Nat /\ FoldOf(c, d, 0, t) \in Nat
           /\ FoldOf(c, d, 0, s \o t) = FoldOf(c, d, 0, s) + FoldOf(c, d, 0, t)
<1>. DEFINE F(r) == FoldOf(c, d, 0, r)
            B(x) == Body(c, d, 0, x)
            Good(k) == F(s \o SubSeq(t, 1, k)) = F(s) + F(SubSeq(t, 1, k))
            T == {k \in 0 .. Len(t) : Good(k)}
<1>1. \A r \in Seq(U) : F(r) \in Nat
  <2>1. SUFFICES ASSUME NEW r \in Seq(U) PROVE F(r) \in Nat
    OBVIOUS
  <2>2. Len(r) \in Nat /\ DOMAIN r = 1 .. Len(r) /\ 0 \in Nat
    OBVIOUS
  <2>3. \A acc \in Nat, k \in 1 .. Len(r) : Body(c, d, acc, r[k]) \in Nat
    <3>1. SUFFICES ASSUME NEW acc \in Nat, NEW k \in 1 .. Len(r)
                   PROVE  Body(c, d, acc, r[k]) \in Nat
      OBVIOUS
    <3>2. r[k] \in U
      OBVIOUS
    <3>3. B(r[k]) \in Nat /\ Body(c, d, acc, r[k]) = acc + B(r[k])
      BY <3>2, Zenon DEF Adds
    <3>. HIDE DEF B
    <3>. QED
      BY <3>3
  <2>. QED
    BY <2>2, <2>3, FoldIn
<1>2. 0 \in T
  <2>1. SubSeq(t, 1, 0) = << >> /\ s \o << >> = s
    OBVIOUS
  <2>2. F(<< >>) = 0
    BY FoldEmpty
  <2>3. F(s) \in Nat
    BY <1>1
  <2>4. F(s) = F(s) + 0
    <3>. HIDE DEF F
    <3>. QED
      BY <2>3
  <2>5. Good(0)
    BY <2>1, <2>2, <2>4
  <2>. HIDE DEF Good
  <2>. QED
    BY <2>5
<1>3. ASSUME NEW k \in 0 .. Len(t) - 1, k \in T PROVE k + 1 \in T
  <2>. DEFINE p == SubSeq(t, 1, k)
              x == t[k + 1]
  <2>1. p \in Seq(U) /\ SubSeq(t, 1, k + 1) = Append(p, x) /\ x \in U
    BY OneMore
  <2>2. Good(k)
    <3>. HIDE DEF Good
    <3>. QED
      BY <1>3
  <2>3. F(s \o p) = F(s) + F(p)
    BY <2>2
  <2>4. s \o p \in Seq(U) /\ s \o Append(p, x) = Append(s \o p, x)
    <3>. HIDE DEF p, x
    <3>. QED
      BY <2>1
  <2>5. F(Append(p, x)) = Body(c, d, F(p), x) /\ F(Append(s \o p, x)) = Body(c, d, F(s \o p), x)
    <3>. HIDE DEF p, x
    <3>1. F(Append(p, x)) = Body(c, d, F(p), x)
      BY <2>1, FoldAppend
    <3>. DEFINE q == s \o p
    <3>2. q \in Seq(U)
      BY <2>4
    <3>. HIDE DEF q
    <3>3. F(Append(q, x)) = Body(c, d, F(q), x)
      BY <2>1, <3>2, FoldAppend
    <3>. QED
      BY <3>1, <3>3 DEF q
  <2>6. F(p) \in Nat /\ F(s \o p) \in Nat /\ F(s) \in Nat
    BY <1>1, <2>1, <2>4
  <2>7. B(x) \in Nat /\ Body(c, d, F(p), x) = F(p) + B(x)
        /\ Body(c, d, F(s \o p), x) = F(s \o p) + B(x)
    <3>. HIDE DEF p, x, F
    <3>. QED
      BY <2>1, <2>6, Zenon DEF Adds
  <2>8. (F(s) + F(p)) + B(x) = F(s) + (F(p) + B(x))
    <3>. HIDE DEF F, B, p, x
    <3>. QED
      BY <2>6, <2>7
  <2>9. Good(k + 1)
    <3>. HIDE DEF F, B, p, x
    <3>. QED
      BY <2>1, <2>3, <2>4, <2>5, <2>7, <2>8, Zenon
  <2>10. k + 1 \in 0 .. Len(t)
    OBVIOUS
  <2>. HIDE DEF Good
  <2>. QED
    BY <2>9, <2>10
<1>4. Good(Len(t))
  <2>1. Len(t) \in Nat
    OBVIOUS
  <2>. HIDE DEF T
  <2>2. \A k \in 0 .. Len(t) : k \in T
    BY <1>2, <1>3, <2>1, Induction
  <2>3. Len(t) \in T
    BY <2>1, <2>2
  <2>. HIDE DEF Good
  <2>. QED
    BY <2>3 DEF T
<1>5. SubSeq(t, 1, Len(t)) = t
  OBVIOUS
<1>. QED
  BY <1>1, <1>4, <1>5, Zenon

\* A recursive function over lo..hi whose values look at those further on: a
\* parser's, that goes on behind what it has taken.  The body has the function
\* and the place.
Ahead(c, d, lo, hi) == LET from[i \in lo .. hi] == Body(c, d, from, i) IN from

LooksAhead(c, d, lo, hi) ==
    \A i \in lo .. hi : \A f, g :
        (\A j \in i + 1 .. hi : f[j] = g[j]) => Body(c, d, f, i) = Body(c, d, g, i)

\* Such a function exists.
LEMMA AheadDefined ==
    ASSUME NEW c, NEW d, NEW lo \in Int, NEW hi \in Int, lo <= hi, LooksAhead(c, d, lo, hi)
    PROVE  \A i \in lo .. hi : Ahead(c, d, lo, hi)[i] = Body(c, d, Ahead(c, d, lo, hi), i)
<1>. DEFINE n == hi - lo
            Defines(f, m) == f = [i \in hi - m .. hi |-> Body(c, d, f, i)]
            T == {m \in 0 .. n : \E f : Defines(f, m)}
<1>0. n \in Nat /\ hi - n = lo
  OBVIOUS
<1>. HIDE DEF n
<1>1. 0 \in T
  <2>1. PICK f : f = [i \in hi - 0 .. hi |-> Body(c, d, [j \in {} |-> 0], i)]
    OBVIOUS
  <2>. DEFINE h == [i \in hi - 0 .. hi |-> Body(c, d, f, i)]
  <2>2. ASSUME NEW i \in hi - 0 .. hi PROVE f[i] = h[i]
    <3>1. i \in lo .. hi /\ i + 1 .. hi = {}
      OBVIOUS
    <3>2. Body(c, d, [j \in {} |-> 0], i) = Body(c, d, f, i)
      BY <3>1 DEF LooksAhead
    <3>. QED
      BY <2>1, <3>2
  <2>3. f = h
    <3>1. h = [i \in hi - 0 .. hi |-> h[i]] /\ f = [i \in hi - 0 .. hi |-> f[i]]
      BY <2>1
    <3>. HIDE DEF h
    <3>. QED
      BY <3>1, <2>2
  <2>4. Defines(f, 0)
    BY <2>3, Zenon
  <2>5. 0 \in 0 .. n
    BY <1>0
  <2>. HIDE DEF Defines
  <2>. QED
    BY <2>4, <2>5
<1>2. ASSUME NEW m \in 0 .. n - 1, m \in T PROVE m + 1 \in T
  <2>1. PICK f : Defines(f, m)
    BY <1>2
  <2>2. PICK k : k = hi - (m + 1)
    OBVIOUS
  <2>3. k \in lo .. hi /\ k \in Int /\ hi - m = k + 1 /\ (k + 1 .. hi) \cup {k} = k .. hi /\ k \notin k + 1 .. hi
    BY <1>0, <2>2
  <2>4. f = [i \in k + 1 .. hi |-> Body(c, d, f, i)]
    BY <2>1, <2>3
  <2>5. PICK g : g = [i \in k .. hi |-> IF i = k THEN Body(c, d, f, i) ELSE f[i]]
    OBVIOUS
  <2>. DEFINE h == [i \in k .. hi |-> Body(c, d, g, i)]
  <2>6. \A i \in k + 1 .. hi : g[i] = f[i] /\ i \in k .. hi
    BY <2>3, <2>5
  <2>7. ASSUME NEW i \in k .. hi PROVE g[i] = h[i]
    <3>1. i \in lo .. hi /\ \A j \in i + 1 .. hi : j \in k + 1 .. hi
      BY <2>3
    <3>2. \A j \in i + 1 .. hi : f[j] = g[j]
      BY <2>6, <3>1
    <3>3. Body(c, d, f, i) = Body(c, d, g, i)
      BY <3>1, <3>2, Zenon DEF LooksAhead
    <3>4. g[i] = Body(c, d, f, i)
      <4>1. CASE i = k
        BY <2>5, <4>1
      <4>2. CASE i # k
        <5>1. i \in k + 1 .. hi
          BY <2>3, <4>2
        <5>. QED
          BY <2>4, <2>6, <5>1
      <4>. QED
        BY <4>1, <4>2
    <3>. QED
      BY <3>3, <3>4
  <2>8. g = h
    <3>1. h = [i \in k .. hi |-> h[i]] /\ g = [i \in k .. hi |-> g[i]]
      BY <2>5
    <3>. HIDE DEF h
    <3>. QED
      BY <3>1, <2>7
  <2>9. Defines(g, m + 1)
    BY <2>2, <2>8, Zenon
  <2>10. m + 1 \in 0 .. n
    BY <1>0
  <2>. HIDE DEF Defines
  <2>. QED
    BY <2>9, <2>10
<1>3. n \in T
  <2>. HIDE DEF T
  <2>1. \A k \in 0 .. n : k \in T
    BY <1>0, <1>1, <1>2, Induction
  <2>2. n \in 0 .. n
    BY <1>0
  <2>. QED
    BY <2>1, <2>2
<1>4. \E f : f = [i \in lo .. hi |-> Body(c, d, f, i)]
  BY <1>0, <1>3
<1>. DEFINE from == CHOOSE f : f = [i \in lo .. hi |-> Body(c, d, f, i)]
<1>5. from = [i \in lo .. hi |-> Body(c, d, from, i)]
  BY <1>4, Zenon
<1>6. Ahead(c, d, lo, hi) = from
  BY Zenon DEF Ahead
<1>. HIDE DEF from
<1>. QED
  BY <1>5, <1>6

\* Induction from the far end: a set that has a number whenever it has those
\* further on.
LEMMA Downward ==
    ASSUME NEW lo \in Int, NEW hi \in Int, NEW T,
           \A i \in lo .. hi : (\A j \in i + 1 .. hi : j \in T) => i \in T
    PROVE  \A i \in lo .. hi : i \in T
<1>. DEFINE Missing == {m \in Nat : m <= hi - lo /\ hi - m \notin T}
<1>1. SUFFICES ASSUME Missing # {} PROVE FALSE
  <2>1. SUFFICES ASSUME NEW i \in lo .. hi PROVE i \in T
    OBVIOUS
  <2>2. hi - i \in Nat /\ hi - i <= hi - lo /\ hi - (hi - i) = i
    OBVIOUS
  <2>3. hi - i \notin Missing
    BY Zenon
  <2>. QED
    BY <2>2, <2>3
<1>2. PICK m \in Missing : \A k \in Missing : m <= k
  <2>1. Missing \in SUBSET Nat
    OBVIOUS
  <2>. HIDE DEF Missing
  <2>. QED
    BY <1>1, <2>1, LeastNumber
<1>3. hi - m \in lo .. hi /\ m \in Nat
  OBVIOUS
<1>4. ASSUME NEW j \in (hi - m) + 1 .. hi PROVE j \in T
  <2>1. hi - j \in Nat /\ hi - j <= hi - lo /\ ~(m <= hi - j) /\ hi - (hi - j) = j
    BY <1>3
  <2>2. hi - j \notin Missing
    BY <1>2, <2>1, Zenon
  <2>. QED
    BY <2>1, <2>2
<1>5. hi - m \in T
  BY <1>3, <1>4
<1>. QED
  BY <1>5

\* Induction over sizes: a set that has a number whenever it has the smaller
\* ones.
LEMMA Upward ==
    ASSUME NEW T, \A n \in Nat : (\A k \in 0 .. n - 1 : k \in T) => n \in T
    PROVE  \A n \in Nat : n \in T
<1>. DEFINE Missing == {n \in Nat : n \notin T}
<1>1. SUFFICES ASSUME Missing # {} PROVE FALSE
  OBVIOUS
<1>2. PICK m \in Missing : \A k \in Missing : m <= k
  <2>1. Missing \in SUBSET Nat
    OBVIOUS
  <2>. HIDE DEF Missing
  <2>. QED
    BY <1>1, <2>1, LeastNumber
<1>3. ASSUME NEW k \in 0 .. m - 1 PROVE k \in T
  <2>1. k \in Nat /\ ~(m <= k)
    OBVIOUS
  <2>. QED
    BY <1>2, <2>1
<1>. QED
  BY <1>2, <1>3

\* What the body makes of a place up to `mid` for `e` is what it makes for `c`
\* of the one `k` further on.
ShiftsBy(c, e, d, lo, mid, k) ==
    \A i \in lo .. mid : \A f, g :
        (\A j \in i + 1 .. mid : f[j] = g[j + k]) => Body(e, d, f, i) = Body(c, d, g, i + k)

Apart(c, e, d, lo, hi, mid, k) ==
    \A i \in lo .. mid : Ahead(e, d, lo, mid)[i] = Ahead(c, d, lo, hi)[i + k]

\* So the two functions agree, `k` places apart.
LEMMA Shifted ==
    ASSUME NEW c, NEW d, NEW e, NEW lo, NEW hi, NEW mid, NEW k,
           lo \in Int, hi \in Int, mid \in Int, k \in Nat, mid = hi - k, lo <= mid,
           LooksAhead(c, d, lo, hi), LooksAhead(e, d, lo, mid), ShiftsBy(c, e, d, lo, mid, k)
    PROVE  Apart(c, e, d, lo, hi, mid, k)
<1>. DEFINE F == Ahead(e, d, lo, mid)
            G == Ahead(c, d, lo, hi)
            T == {i \in lo .. mid : F[i] = G[i + k]}
<1>1. \A i \in lo .. hi : G[i] = Body(c, d, G, i)
  <2>1. lo <= hi
    OBVIOUS
  <2>. QED
    BY <2>1, AheadDefined
<1>2. \A i \in lo .. mid : F[i] = Body(e, d, F, i)
  BY AheadDefined
<1>. HIDE DEF F, G
<1>3. ASSUME NEW i \in lo .. mid, \A j \in i + 1 .. mid : j \in T PROVE i \in T
  <2>1. \A j \in i + 1 .. mid : F[j] = G[j + k]
    BY <1>3
  <2>2. Body(e, d, F, i) = Body(c, d, G, i + k)
    BY <2>1, Zenon DEF ShiftsBy
  <2>3. i + k \in lo .. hi
    OBVIOUS
  <2>. QED
    BY <1>1, <1>2, <2>2, <2>3
<1>4. \A i \in lo .. mid : i \in T
  <2>. HIDE DEF T
  <2>. QED
    BY <1>3, Downward
<1>. QED
  BY <1>4, Zenon DEF F, G, Apart

=============================================================================
