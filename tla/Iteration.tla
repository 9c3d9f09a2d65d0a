------------------------------ MODULE Iteration ------------------------------
(***************************************************************************)
(* Induction, and what a loop over a sequence computes.                    *)
(*                                                                         *)
(* Round is the body of the loop: what it makes of the value so far and of *)
(* the next element.  The specifications write such a loop as a FoldLeft;  *)
(* a module of proofs instantiates this one for each body it has to reason *)
(* about, and Fold is then the FoldLeft of that body.                      *)
(***************************************************************************)
EXTENDS Integers, Sequences, WellFoundedInduction, TLAPS

CONSTANT Round(_, _)

Fold(base, s) ==
  LET iter[S \in SUBSET (DOMAIN s)] ==
        IF S = {} THEN base
        ELSE LET x == CHOOSE x \in S : \A y \in S : x >= y
             IN  Round(iter[S \ {x}], s[x])
  IN  iter[DOMAIN s]

-----------------------------------------------------------------------------
(* Induction over the numbers, with a set for the numbers that the claim   *)
(* is true of.                                                             *)

LEMMA LeastNumber ==
  ASSUME NEW T, T \subseteq Nat, T # {}
  PROVE  \E x \in T : \A y \in T : x <= y
<1> DEFINE R == OpToRel(<, Nat)
<1>1. IsWellFoundedOn(R, Nat)
  BY NatLessThanWellFounded
<1>2. \A x, y \in Nat : y < x => <<y, x>> \in R
  BY DEF OpToRel
<1> HIDE DEF R
<1>3. PICK x \in T : \A y \in T : ~ (<<y, x>> \in R)
  BY <1>1, WFMin
<1>4. ASSUME NEW y \in T
      PROVE  x <= y
  <2>1. x \in Nat /\ y \in Nat
    OBVIOUS
  <2>2. ~ (y < x)
    BY <1>2, <1>3, <2>1
  <2> QED BY <2>1, <2>2
<1> QED BY <1>4

LEMMA Induct ==
  ASSUME NEW T, 0 \in T, \A n \in Nat : n \in T => n + 1 \in T
  PROVE  \A n \in Nat : n \in T
<1>1. CASE Nat \ T # {}
  <2>1. PICK x \in Nat \ T : \A y \in Nat \ T : x <= y
    BY <1>1, LeastNumber
  <2>2. x - 1 \in Nat /\ x - 1 \in T
    BY <2>1
  <2> QED BY <2>1, <2>2
<1> QED BY <1>1

(* Up to a bound, as over the places of a sequence.                        *)
LEMMA InductTo ==
  ASSUME NEW N \in Nat, NEW T, 0 \in T, \A n \in 0 .. N - 1 : n \in T => n + 1 \in T
  PROVE  \A n \in 0 .. N : n \in T
<1> DEFINE U == {n \in Nat : n \in T \/ n > N}
<1>1. \A n \in Nat : n \in U => n + 1 \in U
  OBVIOUS
<1>2. \A n \in Nat : n \in U
  <2> 0 \in U
    OBVIOUS
  <2> HIDE DEF U
  <2> QED BY <1>1, Induct
<1> QED BY <1>2

-----------------------------------------------------------------------------
(* The loop.                                                               *)

(* The value after each round.                                             *)
IsRun(r, base, s) ==
  /\ r = [k \in 0 .. Len(s) |-> r[k]]
  /\ r[0] = base
  /\ \A k \in 1 .. Len(s) : r[k] = Round(r[k - 1], s[k])

(* What makes iter the function that Fold speaks of, on subsets of S.      *)
Iterates(g, base, s, n) ==
  g = [S \in SUBSET (1 .. n) |->
         IF S = {} THEN base
         ELSE LET x == CHOOSE x \in S : \A y \in S : x >= y
              IN  Round(g[S \ {x}], s[x])]

LEMMA Greatest ==
  ASSUME NEW n \in Nat, NEW S \in SUBSET (1 .. n + 1), n + 1 \in S
  PROVE  (CHOOSE x \in S : \A y \in S : x >= y) = n + 1
<1>1. \A y \in S : n + 1 >= y
  OBVIOUS
<1>2. \A x \in S : (\A y \in S : x >= y) => x = n + 1
  OBVIOUS
<1> QED BY <1>1, <1>2

LEMMA IterationExists ==
  ASSUME NEW base, NEW s, NEW N \in Nat
  PROVE  \E g : Iterates(g, base, s, N)
<1> DEFINE T == {n \in Nat : \E g : Iterates(g, base, s, n)}
<1>1. 0 \in T
  <2> DEFINE g == [S \in SUBSET (1 .. 0) |-> base]
  <2>1. \A S \in SUBSET (1 .. 0) : S = {}
    OBVIOUS
  <2>2. Iterates(g, base, s, 0)
    BY <2>1 DEF Iterates
  <2> QED BY <2>2
<1>2. ASSUME NEW n \in Nat, n \in T
      PROVE  n + 1 \in T
  <2>1. PICK g : Iterates(g, base, s, n)
    BY <1>2
  <2> DEFINE h == [S \in SUBSET (1 .. n + 1) |->
                     IF n + 1 \in S THEN Round(g[S \ {n + 1}], s[n + 1]) ELSE g[S]]
  <2>2. ASSUME NEW S \in SUBSET (1 .. n + 1)
        PROVE  h[S] = IF S = {} THEN base
                      ELSE LET x == CHOOSE x \in S : \A y \in S : x >= y
                           IN  Round(h[S \ {x}], s[x])
    <3> DEFINE m == CHOOSE x \in S : \A y \in S : x >= y
    <3>1. CASE n + 1 \in S
      <4>1. m = n + 1
        BY <3>1, Greatest
      <4>2. S \ {n + 1} \in SUBSET (1 .. n) /\ S \ {n + 1} \in SUBSET (1 .. n + 1)
        OBVIOUS
      <4>3. h[S \ {n + 1}] = g[S \ {n + 1}]
        BY <4>2
      <4>4. h[S] = Round(g[S \ {n + 1}], s[n + 1])
        BY <3>1
      <4> QED BY <3>1, <4>1, <4>3, <4>4
    <3>2. CASE n + 1 \notin S
      <4>1. S \in SUBSET (1 .. n)
        BY <3>2
      <4>2. h[S] = g[S]
        BY <3>2
      <4>3. h[S \ {m}] = g[S \ {m}]
        <5>1. S \ {m} \in SUBSET (1 .. n + 1) /\ n + 1 \notin S \ {m}
          BY <3>2
        <5> HIDE DEF m
        <5> QED BY <5>1
      <4>4. g[S] = IF S = {} THEN base ELSE Round(g[S \ {m}], s[m])
        BY <2>1, <4>1 DEF Iterates
      <4> QED BY <4>2, <4>3, <4>4
    <3> QED BY <3>1, <3>2
  <2>3. Iterates(h, base, s, n + 1)
    BY <2>2 DEF Iterates
  <2> QED BY <2>3
<1> HIDE DEF T
<1>3. N \in T
  BY <1>1, <1>2, Induct
<1> QED BY <1>3 DEF T

(* A loop goes through its rounds one by one.                              *)
LEMMA FoldRun ==
  ASSUME NEW base, NEW E, NEW s \in Seq(E)
  PROVE  \E r : IsRun(r, base, s) /\ Fold(base, s) = r[Len(s)]
<1> DEFINE N == Len(s)
           iter == CHOOSE g : Iterates(g, base, s, N)
           r == [k \in 0 .. N |-> iter[1 .. k]]
<1>1. N \in Nat /\ DOMAIN s = 1 .. N
  OBVIOUS
<1>2. Fold(base, s) = iter[1 .. N]
  BY <1>1 DEF Fold, Iterates
<1>3. Iterates(iter, base, s, N)
  BY <1>1, IterationExists
<1> HIDE DEF iter
<1>4. iter[1 .. 0] = base
  <2>1. 1 .. 0 = {} /\ 1 .. 0 \in SUBSET (1 .. N)
    BY <1>1
  <2> QED BY <1>3, <2>1 DEF Iterates
<1>5. ASSUME NEW k \in 1 .. N
      PROVE  iter[1 .. k] = Round(iter[1 .. k - 1], s[k])
  <2>0. k \in Nat /\ 1 <= k /\ k <= N
    BY <1>1
  <2>1. 1 .. k \in SUBSET (1 .. N) /\ 1 .. k # {} /\ (1 .. k) \ {k} = 1 .. k - 1
    <3> HIDE DEF N, r
    <3>1. k \in 1 .. k /\ 1 .. k \subseteq 1 .. N
      BY <1>1, <2>0
    <3>2. (1 .. k) \ {k} = 1 .. k - 1
      BY <2>0
    <3> QED BY <3>1, <3>2
  <2>2. (CHOOSE x \in 1 .. k : \A y \in 1 .. k : x >= y) = k
    <3>1. k - 1 \in Nat /\ (k - 1) + 1 = k
      BY <1>1
    <3>2. 1 .. k \in SUBSET (1 .. (k - 1) + 1) /\ (k - 1) + 1 \in 1 .. k
      BY <3>1
    <3> QED BY <3>1, <3>2, Greatest
  <2>3. iter[1 .. k] =
          IF 1 .. k = {} THEN base
          ELSE LET x == CHOOSE x \in 1 .. k : \A y \in 1 .. k : x >= y
               IN  Round(iter[(1 .. k) \ {x}], s[x])
    BY <1>3, <2>1 DEF Iterates
  <2> QED BY <2>1, <2>2, <2>3
<1>6. IsRun(r, base, s)
  BY <1>1, <1>4, <1>5 DEF IsRun
<1>7. Fold(base, s) = r[Len(s)]
  BY <1>1, <1>2
<1> HIDE DEF r
<1> QED BY <1>6, <1>7

(* There is one such run.                                                  *)
LEMMA RunDecides ==
  ASSUME NEW base, NEW E, NEW s \in Seq(E), NEW r, IsRun(r, base, s)
  PROVE  Fold(base, s) = r[Len(s)]
<1>1. PICK q : IsRun(q, base, s) /\ Fold(base, s) = q[Len(s)]
  BY FoldRun
<1> DEFINE T == {n \in 0 .. Len(s) : q[n] = r[n]}
<1>2. Len(s) \in Nat
  OBVIOUS
<1>3. 0 \in T
  BY <1>1, <1>2 DEF IsRun
<1>4. ASSUME NEW n \in 0 .. Len(s) - 1, n \in T
      PROVE  n + 1 \in T
  <2>1. n + 1 \in 1 .. Len(s) /\ (n + 1) - 1 = n
    BY <1>2
  <2>2. q[n + 1] = Round(q[n], s[n + 1]) /\ r[n + 1] = Round(r[n], s[n + 1])
    BY <1>1, <2>1 DEF IsRun
  <2> QED BY <1>4, <2>1, <2>2
<1>5. Len(s) \in T
  <2> HIDE DEF T
  <2>1. \A n \in 0 .. Len(s) : n \in T
    BY <1>2, <1>3, <1>4, InductTo
  <2> QED BY <1>2, <2>1
<1> QED BY <1>1, <1>5

(* What the loop starts with and every round keeps is true of its result;  *)
(* kept[k] are the values there may be after k rounds.                     *)
LEMMA FoldKeeps ==
  ASSUME NEW base, NEW E, NEW s \in Seq(E), NEW kept, base \in kept[0],
         \A k \in 1 .. Len(s) : \A a \in kept[k - 1] : Round(a, s[k]) \in kept[k]
  PROVE  Fold(base, s) \in kept[Len(s)]
<1>1. PICK r : IsRun(r, base, s) /\ Fold(base, s) = r[Len(s)]
  BY FoldRun
<1> DEFINE T == {n \in 0 .. Len(s) : r[n] \in kept[n]}
<1>2. Len(s) \in Nat
  OBVIOUS
<1>3. 0 \in T
  BY <1>1, <1>2 DEF IsRun
<1>4. ASSUME NEW n \in 0 .. Len(s) - 1, n \in T
      PROVE  n + 1 \in T
  <2>1. n + 1 \in 1 .. Len(s) /\ (n + 1) - 1 = n
    BY <1>2
  <2>2. r[n + 1] = Round(r[n], s[n + 1])
    BY <1>1, <2>1 DEF IsRun
  <2> QED BY <1>4, <2>1, <2>2
<1>5. Len(s) \in T
  <2> HIDE DEF T
  <2>1. \A n \in 0 .. Len(s) : n \in T
    BY <1>2, <1>3, <1>4, InductTo
  <2> QED BY <1>2, <2>1
<1> QED BY <1>1, <1>5

LEMMA FoldEmpty ==
  ASSUME NEW base
  PROVE  Fold(base, << >>) = base
<1> DEFINE r == [k \in 0 .. 0 |-> base]
<1>1. IsRun(r, base, << >>) /\ r[Len(<< >>)] = base /\ << >> \in Seq({})
  BY DEF IsRun
<1> HIDE DEF r
<1> QED BY <1>1, RunDecides

(* A loop over two sequences, one after the other.                         *)
LEMMA FoldConcat ==
  ASSUME NEW base, NEW E, NEW s \in Seq(E), NEW t \in Seq(E)
  PROVE  Fold(base, s \o t) = Fold(Fold(base, s), t)
<1> DEFINE M == Len(s)  N == Len(t)
<1>1. PICK p : IsRun(p, base, s) /\ Fold(base, s) = p[M]
  BY FoldRun
<1>2. PICK q : IsRun(q, Fold(base, s), t) /\ Fold(Fold(base, s), t) = q[N]
  BY FoldRun
<1> DEFINE r == [k \in 0 .. M + N |-> IF k <= M THEN p[k] ELSE q[k - M]]
<1>3. /\ M \in Nat /\ N \in Nat /\ s \o t \in Seq(E) /\ Len(s \o t) = M + N
      /\ \A k \in 1 .. M : (s \o t)[k] = s[k]
      /\ \A k \in M + 1 .. M + N : (s \o t)[k] = t[k - M]
  OBVIOUS
<1> HIDE DEF M, N
<1>4. ASSUME NEW k \in 1 .. M + N
      PROVE  r[k] = Round(r[k - 1], (s \o t)[k])
  <2>1. k \in 0 .. M + N /\ k - 1 \in 0 .. M + N
    BY <1>3
  <2>2. CASE k <= M
    <3>1. k \in 1 .. M /\ r[k] = p[k] /\ r[k - 1] = p[k - 1]
      BY <1>3, <2>1, <2>2
    <3>2. p[k] = Round(p[k - 1], s[k])
      BY <1>1, <3>1 DEF IsRun, M
    <3> HIDE DEF r
    <3> QED BY <1>3, <3>1, <3>2
  <2>3. CASE k > M
    <3>1. k \in M + 1 .. M + N /\ k - M \in 1 .. N /\ r[k] = q[k - M]
      BY <1>3, <2>1, <2>3
    <3>2. r[k - 1] = q[(k - M) - 1]
      <4>1. CASE k - 1 = M
        <5>1. r[k - 1] = p[M] /\ (k - M) - 1 = 0
          BY <1>3, <2>1, <4>1
        <5>2. q[0] = p[M]
          BY <1>1, <1>2 DEF IsRun
        <5> HIDE DEF r
        <5> QED BY <5>1, <5>2
      <4>2. CASE k - 1 # M
        <5>1. ~(k - 1 <= M) /\ (k - 1) - M = (k - M) - 1
          BY <1>3, <2>1, <2>3, <4>2
        <5> QED BY <2>1, <5>1
      <4> HIDE DEF r
      <4> QED BY <4>1, <4>2
    <3>3. q[k - M] = Round(q[(k - M) - 1], t[k - M])
      BY <1>2, <3>1 DEF IsRun, N
    <3> HIDE DEF r
    <3> QED BY <1>3, <3>1, <3>2, <3>3
  <2> HIDE DEF r
  <2> QED BY <1>3, <2>2, <2>3
<1>5. r[0] = base
  BY <1>1, <1>3 DEF IsRun
<1>6. r[M + N] = q[N]
  <2>1. CASE N = 0
    <3>1. M + N = M /\ r[M] = p[M] /\ q[N] = q[0]
      BY <1>3, <2>1
    <3>2. q[0] = p[M]
      BY <1>1, <1>2 DEF IsRun
    <3> QED BY <3>1, <3>2
  <2>2. CASE N # 0
    BY <1>3, <2>2
  <2> QED BY <2>1, <2>2
<1>7. IsRun(r, base, s \o t)
  BY <1>3, <1>4, <1>5 DEF IsRun
<1> HIDE DEF r
<1>8. Fold(base, s \o t) = r[Len(s \o t)]
  BY <1>3, <1>7, RunDecides
<1> QED BY <1>2, <1>3, <1>6, <1>8

LEMMA FoldOne ==
  ASSUME NEW base, NEW e
  PROVE  Fold(base, <<e>>) = Round(base, e)
<1> DEFINE r == [k \in 0 .. 1 |-> IF k = 0 THEN base ELSE Round(base, e)]
           s == <<e>>
<1>1. s \in Seq({e}) /\ Len(s) = 1 /\ s[1] = e
  OBVIOUS
<1>2. \A k \in 1 .. 1 : r[k] = Round(r[k - 1], s[k])
  OBVIOUS
<1>3. IsRun(r, base, s) /\ r[Len(s)] = Round(base, e)
  BY <1>1, <1>2 DEF IsRun
<1> HIDE DEF r, s
<1>4. Fold(base, s) = Round(base, e)
  BY <1>1, <1>3, RunDecides
<1> QED BY <1>4 DEF s

(* One more round.                                                         *)
LEMMA FoldLast ==
  ASSUME NEW base, NEW E, NEW s \in Seq(E), NEW e \in E
  PROVE  Fold(base, Append(s, e)) = Round(Fold(base, s), e)
<1> DEFINE t == <<e>>
<1>1. Append(s, e) = s \o t /\ t \in Seq(E)
  OBVIOUS
<1>2. Fold(Fold(base, s), t) = Round(Fold(base, s), e)
  BY FoldOne
<1> HIDE DEF t
<1>3. Fold(base, s \o t) = Fold(Fold(base, s), t)
  BY <1>1, FoldConcat
<1> QED BY <1>1, <1>2, <1>3
=============================================================================
