------------------------------- MODULE FoldFacts -------------------------------
(***************************************************************************)
(* What a loop over a sequence computes, for sequences of any length: the  *)
(* loops of merge (internal/dpf/merge.go) are FoldLeft of their bodies.    *)
(* The body is a constant, so that every loop has an instance of its own.  *)
(***************************************************************************)
EXTENDS Integers, SequencesExt, WellFoundedInduction, TLAPS

CONSTANT Step(_, _)     \* the body: what is carried, and the next element

Fold(base, seq) == FoldLeft(Step, base, seq)

-----------------------------------------------------------------------------
\* A set of numbers that is not empty has a least one.
LEMMA LeastNumber ==
    ASSUME NEW S \in SUBSET Nat, S # {}
    PROVE  \E m \in S : \A k \in S : m <= k
<1>. DEFINE R == OpToRel(<, Nat)
<1>1. IsWellFoundedOn(R, Nat)
    BY NatLessThanWellFounded, Zenon
<1>2. \A x, y \in Nat : <<x, y>> \in R <=> x < y
    BY DEF OpToRel
<1>. HIDE DEF R
<1>3. PICK m \in S : \A k \in S : ~(<<k, m>> \in R)
    BY <1>1, WFMin
<1>4. ASSUME NEW k \in S PROVE m <= k
    <2>1. ~(k < m)
        BY <1>2, <1>3
    <2>. QED  BY <2>1
<1>. QED  BY <1>4

\* Induction up to the length of a sequence.
LEMMA UpTo ==
    ASSUME NEW n \in Nat, NEW T, 0 \in T, \A i \in 1 .. n : i - 1 \in T => i \in T
    PROVE  \A i \in 0 .. n : i \in T
<1>. DEFINE S == { i \in 0 .. n : i \notin T }
<1>1. S = {}
    <2>. SUFFICES ASSUME S # {} PROVE FALSE
        OBVIOUS
    <2>1. S \in SUBSET Nat
        OBVIOUS
    <2>. HIDE DEF S
    <2>2. PICK m \in S : \A k \in S : m <= k
        BY <2>1, LeastNumber
    <2>3. m \in 1 .. n /\ m \notin T
        BY <2>2 DEF S
    <2>4. m - 1 \notin S
        BY <2>2, <2>3
    <2>5. m - 1 \in T
        BY <2>3, <2>4 DEF S
    <2>. QED  BY <2>3, <2>5
<1>. QED  BY <1>1

-----------------------------------------------------------------------------
LEMMA MaxIsIt ==
    ASSUME NEW S \in SUBSET Nat, NEW n \in S, \A m \in S : m <= n
    PROVE  Max(S) = n
<1>1. \A x \in S : (\A y \in S : x >= y) <=> x = n
    BY Z3
<1>. QED  BY <1>1 DEF Max

LEMMA MaxExists ==
    ASSUME NEW n \in Nat, NEW S \in SUBSET (1 .. n), S # {}
    PROVE  Max(S) \in S
<1>. DEFINE V == { m \in Nat : \A x \in S : x <= m }
<1>1. n \in V /\ V \subseteq Nat
    OBVIOUS
<1>2. PICK m \in V : \A k \in V : m <= k
    <2>. HIDE DEF V
    <2>. QED  BY <1>1, LeastNumber
<1>3. m \in S
    <2>1. m # 0
        <3>1. PICK x \in S : TRUE
            OBVIOUS
        <3>2. x \in 1 .. n /\ x <= m
            BY <3>1
        <3>. QED  BY <3>2
    <2>2. m - 1 \notin V
        BY <1>2, <2>1
    <2>. QED  BY <2>1, <2>2
<1>. QED  BY <1>3, MaxIsIt

\* The recursion behind FoldLeft: sets of indices are taken apart from above.
Unrolled(g, base, seq, n) ==
    g = [s \in SUBSET (1 .. n) |->
            IF s = {} THEN base ELSE Step(g[s \ {Max(s)}], seq[Max(s)])]

LEMMA UnrolledExists ==
    ASSUME NEW base, NEW seq, NEW n \in Nat
    PROVE  \E g : Unrolled(g, base, seq, n)
<1>. DEFINE T == { k \in 0 .. n : \E g : Unrolled(g, base, seq, k) }
<1>1. 0 \in T
    <2>. DEFINE g == [s \in SUBSET (1 .. 0) |-> base]
    <2>1. \A s \in SUBSET (1 .. 0) : s = {}
        OBVIOUS
    <2>2. Unrolled(g, base, seq, 0)
        BY <2>1 DEF Unrolled
    <2>. QED  BY <2>2
<1>2. ASSUME NEW k \in 1 .. n, k - 1 \in T
      PROVE  k \in T
    <2>1. PICK g : Unrolled(g, base, seq, k - 1)
        BY <1>2
    <2>. DEFINE h == [s \in SUBSET (1 .. k) |->
                         IF k \in s THEN Step(g[s \ {k}], seq[k]) ELSE g[s]]
    <2>2. ASSUME NEW s \in SUBSET (1 .. k)
          PROVE  h[s] = IF s = {} THEN base
                        ELSE Step(h[s \ {Max(s)}], seq[Max(s)])
        <3>1. CASE k \in s
            <4>1. Max(s) = k
                BY <3>1, MaxIsIt
            <4>2. s \ {k} \in SUBSET (1 .. k) /\ k \notin s \ {k}
                OBVIOUS
            <4>3. h[s \ {k}] = g[s \ {k}]
                BY <4>2
            <4>. QED  BY <3>1, <4>1, <4>3
        <3>2. CASE k \notin s
            <4>1. s \in SUBSET (1 .. (k - 1))
                BY <3>2
            <4>2. CASE s = {}
                BY <2>1, <3>2, <4>1, <4>2 DEF Unrolled
            <4>3. CASE s # {}
                <5>1. Max(s) \in s
                    BY <4>3, MaxExists
                <5>2. h[s] = g[s] /\ h[s \ {Max(s)}] = g[s \ {Max(s)}]
                    BY <3>2
                <5>3. g[s] = Step(g[s \ {Max(s)}], seq[Max(s)])
                    BY <2>1, <4>1, <4>3 DEF Unrolled
                <5>. QED  BY <4>3, <5>2, <5>3
            <4>. QED  BY <4>2, <4>3
        <3>. QED  BY <3>1, <3>2
    <2>3. Unrolled(h, base, seq, k)
        <3>. HIDE DEF h
        <3>1. h = [s \in SUBSET (1 .. k) |-> h[s]]
            BY DEF h
        <3>. QED  BY <2>2, <3>1 DEF Unrolled
    <2>. QED  BY <2>3
<1>. HIDE DEF T
<1>3. n \in T
    BY <1>1, <1>2, UpTo
<1>. QED  BY <1>3 DEF T

(***************************************************************************)
(* A fold is what the loop leaves: it carries base, takes one element at a *)
(* time from the first to the last, and returns what it then carries.      *)
(***************************************************************************)
THEOREM FoldIsALoop ==
    ASSUME NEW base, NEW S, NEW seq \in Seq(S)
    PROVE  \E run : /\ run[0] = base
                    /\ \A i \in 1 .. Len(seq) :
                          run[i] = Step(run[i - 1], seq[i])
                    /\ run[Len(seq)] = Fold(base, seq)
<1>. DEFINE n == Len(seq)
            f == CHOOSE g : Unrolled(g, base, seq, n)
            run == [i \in 0 .. n |-> f[1 .. i]]
<1>1. n \in Nat /\ DOMAIN seq = 1 .. n
    OBVIOUS
<1>2. Unrolled(f, base, seq, n)
    BY <1>1, UnrolledExists
<1>3. Fold(base, seq) = f[1 .. n]
    BY <1>1 DEF Fold, FoldLeft, MapThenFoldSet, Unrolled
<1>. HIDE DEF f
<1>4. run[0] = base
    BY <1>1, <1>2 DEF Unrolled
<1>5. ASSUME NEW i \in 1 .. n
      PROVE  run[i] = Step(run[i - 1], seq[i])
    <2>1. Max(1 .. i) = i
        <3>1. /\ i \in 1 .. i /\ \A m \in 1 .. i : m <= i
              /\ 1 .. i \in SUBSET Nat
            OBVIOUS
        <3>. HIDE DEF n
        <3>. QED  BY <3>1, MaxIsIt
    <2>2. (1 .. i) \ {i} = 1 .. (i - 1)
        OBVIOUS
    <2>3. 1 .. i \in SUBSET (1 .. n) /\ 1 .. i # {}
        OBVIOUS
    <2>4. f[1 .. i] = Step(f[(1 .. i) \ {Max(1 .. i)}], seq[Max(1 .. i)])
        BY <1>2, <2>3 DEF Unrolled
    <2>5. i \in 0 .. n /\ i - 1 \in 0 .. n
        BY <1>1
    <2>. HIDE DEF n
    <2>. QED  BY <2>1, <2>2, <2>4, <2>5
<1>6. run[n] = Fold(base, seq)
    BY <1>1, <1>3
<1>. QED  BY <1>4, <1>5, <1>6

=============================================================================
