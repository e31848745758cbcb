-------------------------- MODULE InductionLemmas --------------------------
(***************************************************************************)
(* Induction over the natural numbers, stated for sets, and what the folds *)
(* of the community modules rest on, stated for functions: the library's   *)
(* theorems take an operator as a parameter.                               *)
(***************************************************************************)
EXTENDS Integers, Sequences, FiniteSetsExt, WellFoundedInduction, TLAPS

\* A set of numbers that has a member has a least one.
LEMMA LeastNumber ==
  ASSUME NEW S \in SUBSET Nat, S # {}
  PROVE  \E least \in S : \A n \in S : least <= n
<1> DEFINE less == OpToRel(<, Nat)
<1>1. IsWellFoundedOn(less, Nat)
  BY NatLessThanWellFounded
<1>2. \A m, n \in Nat : m < n => <<m, n>> \in less
  BY DEF OpToRel
<1> HIDE DEF less
<1>3. PICK least \in S : \A n \in S : ~(<<n, least>> \in less)
  BY <1>1, WFMin
<1>4. \A n \in S : ~(n < least)
  BY <1>2, <1>3, Zenon
<1>. QED
  BY <1>4

\* A set that has 0, and the successor of each number in it, has all numbers.
LEMMA SetInduction ==
  ASSUME NEW S, 0 \in S, \A n \in Nat : n \in S => n + 1 \in S
  PROVE  Nat \subseteq S
<1>. SUFFICES ASSUME Nat \ S # {} PROVE FALSE
  OBVIOUS
<1>1. PICK least \in Nat \ S : \A n \in Nat \ S : least <= n
  <2>1. Nat \ S \in SUBSET Nat
    OBVIOUS
  <2>. QED
    BY <2>1, LeastNumber
<1>2. least # 0 /\ least - 1 \in Nat
  BY <1>1
<1>. QED
  BY <1>1, <1>2

\* A set of numbers below a bound has a greatest one, which is its Max.
LEMMA MaxOfSome ==
  ASSUME NEW k \in Nat, NEW s \in SUBSET (1..k), s # {}
  PROVE  Max(s) \in s /\ \A n \in s : n <= Max(s)
<1> DEFINE below == {k - n : n \in s}
<1>1. below \in SUBSET Nat /\ below # {}
  <2>1. \A m \in s : m \in Int /\ k - m \in Nat
    OBVIOUS
  <2>. QED
    BY <2>1
<1>2. PICK least \in below : \A n \in below : least <= n
  BY <1>1, LeastNumber
<1>3. PICK max \in s : least = k - max
  BY <1>2
<1>4. \A n \in s : max >= n
  BY <1>2, <1>3
<1>. QED
  BY <1>4 DEF Max

\* f folds 1..n from base: G[i][c] is what it makes of c and the element at i.
FoldsOver(f, n, base, G) ==
  \A s \in SUBSET (1..n) : f[s] = IF s = {} THEN base ELSE G[Max(s)][f[s \ {Max(s)}]]

\* The function that defines a fold exists.
LEMMA FoldExists ==
  ASSUME NEW n \in Nat, NEW C, NEW base \in C, NEW G \in [1..n -> [C -> C]]
  PROVE  \E f \in [SUBSET (1..n) -> C] : FoldsOver(f, n, base, G)
<1> DEFINE Folds(f, k) ==
      \A s \in SUBSET (1..k) : f[s] = IF s = {} THEN base ELSE G[Max(s)][f[s \ {Max(s)}]]
    Foldable(k) == \E f \in [SUBSET (1..k) -> C] : Folds(f, k)
    foldable == {k \in Nat : k <= n => Foldable(k)}
<1>1. Foldable(0)
  <2> DEFINE f == [s \in SUBSET (1..0) |-> base]
  <2>1. f \in [SUBSET (1..0) -> C] /\ Folds(f, 0)
    OBVIOUS
  <2>. QED
    BY <2>1
<1>2. ASSUME NEW k \in Nat, Foldable(k), k + 1 <= n
      PROVE  Foldable(k + 1)
  <2>1. PICK f \in [SUBSET (1..k) -> C] : Folds(f, k)
    BY <1>2
  <2> DEFINE g == [s \in SUBSET (1..k + 1) |->
                     IF k + 1 \in s THEN G[k + 1][f[s \ {k + 1}]] ELSE f[s]]
  <2>2. \A s \in SUBSET (1..k + 1) : k + 1 \notin s => s \in SUBSET (1..k)
    OBVIOUS
  <2>3. G[k + 1] \in [C -> C]
    BY <1>2
  <2>4. ASSUME NEW s \in SUBSET (1..k + 1)
        PROVE  g[s] \in C
    <3>1. CASE k + 1 \in s
      <4>1. s \ {k + 1} \in SUBSET (1..k)
        BY <2>2
      <4>2. f[s \ {k + 1}] \in C
        BY <4>1
      <4>. QED
        BY <2>3, <3>1, <4>2
    <3>2. CASE k + 1 \notin s
      BY <2>2, <3>2
    <3>. QED
      BY <3>1, <3>2
  <2>5. ASSUME NEW s \in SUBSET (1..k + 1)
        PROVE  g[s] = IF s = {} THEN base ELSE G[Max(s)][g[s \ {Max(s)}]]
    <3>1. CASE s = {}
      <4>1. f[{}] = base
        BY <2>1
      <4>. QED
        BY <3>1, <4>1
    <3>2. CASE s # {} /\ k + 1 \in s
      <4>1. Max(s) \in s /\ \A i \in s : i <= Max(s)
        <5>1. k + 1 \in Nat /\ s \in SUBSET (1..k + 1) /\ s # {}
          BY <3>2
        <5>. QED
          BY <5>1, MaxOfSome
      <4>2. Max(s) = k + 1
        <5>1. Max(s) \in 1..k + 1 /\ k + 1 <= Max(s)
          BY <3>2, <4>1
        <5>. QED
          BY <5>1
      <4>3. s \ {k + 1} \in SUBSET (1..k + 1)
        OBVIOUS
      <4>4. g[s \ {k + 1}] = f[s \ {k + 1}]
        BY <4>3
      <4>5. g[s] = G[k + 1][f[s \ {k + 1}]]
        BY <3>2
      <4> HIDE DEF g
      <4>. QED
        BY <3>2, <4>2, <4>4, <4>5
    <3>3. CASE s # {} /\ k + 1 \notin s
      <4>1. s \in SUBSET (1..k)
        BY <2>2, <3>3
      <4>2. f[s] = G[Max(s)][f[s \ {Max(s)}]]
        BY <2>1, <3>3, <4>1
      <4>3. g[s] = f[s] /\ g[s \ {Max(s)}] = f[s \ {Max(s)}]
        BY <3>3
      <4> HIDE DEF g
      <4>. QED
        BY <3>3, <4>2, <4>3
    <3>. QED
      BY <3>1, <3>2, <3>3
  <2>6. g \in [SUBSET (1..k + 1) -> C]
    BY <2>4
  <2> HIDE DEF g
  <2>. QED
    BY <2>5, <2>6
<1> HIDE DEF Foldable
<1>3. \A k \in Nat : k \in foldable => k + 1 \in foldable
  BY <1>2
<1>4. 0 \in foldable
  BY <1>1
<1> HIDE DEF foldable
<1>5. n \in foldable
  BY <1>3, <1>4, SetInduction
<1>6. Foldable(n)
  BY <1>5 DEF foldable
<1>. QED
  BY <1>6 DEF Foldable, FoldsOver

\* The same for the numbers up to n.
LEMMA InductionUpTo ==
  ASSUME NEW n \in Nat, NEW S, 0 \in S, \A k \in 0..n - 1 : k \in S => k + 1 \in S
  PROVE  \A k \in 0..n : k \in S
<1> DEFINE reached == {k \in Nat : k <= n => k \in S}
<1>1. 0 \in reached /\ \A k \in Nat : k \in reached => k + 1 \in reached
  OBVIOUS
<1> HIDE DEF reached
<1>2. Nat \subseteq reached
  BY <1>1, SetInduction
<1>. QED
  BY <1>2 DEF reached

\* The greatest number up to k, and what is left below it.
LEMMA TopOfInterval ==
  ASSUME NEW k \in Nat, k # 0
  PROVE  Max(1..k) = k /\ (1..k) \ {k} = 1..k - 1
<1>1. 1..k \in SUBSET (1..k) /\ 1..k # {} /\ k \in 1..k
  OBVIOUS
<1>2. Max(1..k) \in 1..k /\ k <= Max(1..k)
  BY <1>1, MaxOfSome
<1>. QED
  BY <1>2

\* h[k] is what f makes of the first k elements.
GoesThrough(h, n, base, G) ==
  /\ h[0] = base
  /\ \A k \in 1..n : h[k] = G[k][h[k - 1]]

\* A fold takes one element after the other.
LEMMA FoldSteps ==
  ASSUME NEW n \in Nat, NEW C, NEW base, NEW G, NEW S, S = 1..n, NEW f \in [SUBSET S -> C],
         FoldsOver(f, n, base, G)
  PROVE  \E h \in [0..n -> C] : GoesThrough(h, n, base, G) /\ h[n] = f[S]
<1> DEFINE h == [k \in 0..n |-> f[1..k]]
<1>0. /\ \A s \in SUBSET (1..n) : f[s] \in C
      /\ \A s \in SUBSET (1..n) : f[s] = IF s = {} THEN base ELSE G[Max(s)][f[s \ {Max(s)}]]
  BY DEF FoldsOver
<1>1. h[0] = base
  <2>1. 1..0 = {} /\ h[0] = f[1..0]
    OBVIOUS
  <2>. QED
    BY <1>0, <2>1
<1>2. h \in [0..n -> C]
  BY <1>0
<1>3. ASSUME NEW k \in 1..n PROVE h[k] = G[k][h[k - 1]]
  <2>1. k \in Nat /\ k # 0
    OBVIOUS
  <2>2. Max(1..k) = k /\ (1..k) \ {k} = 1..k - 1 /\ 1..k # {}
    BY <2>1, TopOfInterval
  <2>3. 1..k \in SUBSET (1..n)
    OBVIOUS
  <2>4. h[k] = f[1..k] /\ h[k - 1] = f[1..k - 1]
    OBVIOUS
  <2> HIDE DEF h
  <2>5. f[1..k] = G[Max(1..k)][f[(1..k) \ {Max(1..k)}]]
    BY <1>0, <2>2, <2>3
  <2>. QED
    BY <2>2, <2>4, <2>5
<1>4. h[n] = f[S]
  OBVIOUS
<1> HIDE DEF h
<1>. QED
  BY <1>1, <1>2, <1>3, <1>4 DEF GoesThrough

-----------------------------------------------------------------------------
(* Machines: H[c][t] is the state that the token t leads to from the state c *)

Closed(H, C, T) == \A c \in C : \A t \in T : H[c][t] \in C

\* h[k] is the state after the first k tokens.
Steps(h, H, c, s) ==
  h = [k \in 0..Len(s) |-> IF k = 0 THEN c ELSE H[h[k - 1]][s[k]]]

\* The state after all tokens.
Run(H, c, s) == (CHOOSE h : Steps(h, H, c, s))[Len(s)]

\* The function by which Steps is defined exists.
LEMMA StepsExist ==
  ASSUME NEW C, NEW T, NEW H, Closed(H, C, T), NEW c \in C, NEW s \in Seq(T)
  PROVE  \E h \in [0..Len(s) -> C] : Steps(h, H, c, s)
<1> DEFINE n == Len(s)
    G == [i \in 1..n |-> [d \in C |-> H[d][s[i]]]]
<1>1. n \in Nat /\ \A i \in 1..n : s[i] \in T
  OBVIOUS
<1>2. G \in [1..n -> [C -> C]]
  BY <1>1 DEF Closed
<1>3. PICK f \in [SUBSET (1..n) -> C] : FoldsOver(f, n, c, G)
  <2> HIDE DEF n, G
  <2>. QED
    BY <1>1, <1>2, FoldExists
<1>4. PICK h \in [0..n -> C] : GoesThrough(h, n, c, G)
  <2> HIDE DEF n, G
  <2> DEFINE S == 1..n
  <2>1. S = 1..n /\ f \in [SUBSET S -> C]
    OBVIOUS
  <2> HIDE DEF S
  <2>. QED
    BY <1>1, <1>3, <2>1, FoldSteps
<1>5. ASSUME NEW k \in 0..n
      PROVE  h[k] = IF k = 0 THEN c ELSE H[h[k - 1]][s[k]]
  <2>1. CASE k = 0
    BY <1>4, <2>1 DEF GoesThrough
  <2>2. CASE k # 0
    <3>1. k \in 1..n /\ k - 1 \in 0..n
      BY <1>1, <2>2
    <3>2. h[k] = G[k][h[k - 1]] /\ h[k - 1] \in C
      <4> HIDE DEF G, n
      <4>. QED
        BY <1>4, <3>1 DEF GoesThrough
    <3>. QED
      BY <2>2, <3>1, <3>2
  <2>. QED
    BY <2>1, <2>2
<1>6. h = [k \in 0..n |-> h[k]]
  OBVIOUS
<1> HIDE DEF n
<1>7. h = [k \in 0..n |-> IF k = 0 THEN c ELSE H[h[k - 1]][s[k]]]
  BY <1>5, <1>6
<1>. QED
  BY <1>7 DEF Steps, n

\* h[k] is the state after the first k tokens, wherever h comes from.
Path(h, H, c, s) ==
  /\ h[0] = c
  /\ \A k \in 1..Len(s) : h[k] = H[h[k - 1]][s[k]]

PathOfRun(h, H, c, s) == Path(h, H, c, s) /\ Run(H, c, s) = h[Len(s)]

\* The states that Run goes through.
LEMMA RunSteps ==
  ASSUME NEW C, NEW T, NEW H, Closed(H, C, T), NEW c \in C, NEW s \in Seq(T)
  PROVE  \E h \in [0..Len(s) -> C] : PathOfRun(h, H, c, s)
<1> DEFINE h == CHOOSE h : Steps(h, H, c, s)
<1>1. \E g : Steps(g, H, c, s)
  BY StepsExist
<1>2. Steps(h, H, c, s)
  BY <1>1
<1>3. Run(H, c, s) = h[Len(s)]
  BY DEF Run
<1> HIDE DEF h
<1>4. /\ Len(s) \in Nat
      /\ h[0] = c
      /\ \A k \in 1..Len(s) : h[k] = H[h[k - 1]][s[k]] /\ s[k] \in T /\ k - 1 \in 0..Len(s)
  BY <1>2 DEF Steps
<1>5. \A k \in 0..Len(s) : h[k] \in C
  <2> DEFINE good == {k \in Nat : h[k] \in C}
  <2>1. 0 \in good /\ \A k \in 0..Len(s) - 1 : k \in good => k + 1 \in good
    <3>1. ASSUME NEW k \in 0..Len(s) - 1, h[k] \in C
          PROVE  h[k + 1] \in C
      <4>1. k + 1 \in 1..Len(s) /\ (k + 1) - 1 = k
        BY <1>4
      <4>2. h[k + 1] = H[h[k]][s[k + 1]] /\ s[k + 1] \in T
        BY <1>4, <4>1
      <4>. QED
        BY <3>1, <4>2 DEF Closed
    <3>. QED
      BY <1>4, <3>1
  <2> HIDE DEF good
  <2>2. \A k \in 0..Len(s) : k \in good
    BY <1>4, <2>1, InductionUpTo
  <2>. QED
    BY <2>2 DEF good
<1>6. h \in [0..Len(s) -> C]
  <2>1. h = [k \in 0..Len(s) |-> h[k]]
    BY <1>2 DEF Steps
  <2>. QED
    BY <1>5, <2>1
<1>. QED
  BY <1>3, <1>4, <1>6 DEF Path, PathOfRun

\* A run stays where every token stays.
LEMMA RunType ==
  ASSUME NEW C, NEW T, NEW H, Closed(H, C, T), NEW c \in C, NEW s \in Seq(T)
  PROVE  Run(H, c, s) \in C
<1>1. PICK h \in [0..Len(s) -> C] : PathOfRun(h, H, c, s)
  BY RunSteps
<1>. QED
  BY <1>1 DEF PathOfRun

\* There is one way to go through the tokens.
LEMMA RunUnique ==
  ASSUME NEW C, NEW T, NEW H, Closed(H, C, T), NEW c \in C, NEW s \in Seq(T),
         NEW h, Path(h, H, c, s)
  PROVE  Run(H, c, s) = h[Len(s)]
<1>1. PICK g \in [0..Len(s) -> C] : PathOfRun(g, H, c, s)
  BY RunSteps
<1> DEFINE same == {k \in Nat : g[k] = h[k]}
<1>2. Len(s) \in Nat /\ 0 \in same
  BY <1>1 DEF Path, PathOfRun
<1>3. ASSUME NEW k \in 0..Len(s) - 1, g[k] = h[k]
      PROVE  g[k + 1] = h[k + 1]
  <2>1. k + 1 \in 1..Len(s) /\ (k + 1) - 1 = k
    BY <1>2
  <2>2. g[k + 1] = H[g[k]][s[k + 1]]
    BY <1>1, <2>1 DEF Path, PathOfRun
  <2>3. h[k + 1] = H[h[k]][s[k + 1]]
    BY <2>1 DEF Path
  <2>. QED
    BY <1>3, <2>2, <2>3
<1>4. \A k \in 0..Len(s) - 1 : k \in same => k + 1 \in same
  BY <1>3
<1> HIDE DEF same
<1>5. \A k \in 0..Len(s) : k \in same
  BY <1>2, <1>4, InductionUpTo
<1>6. Len(s) \in same
  BY <1>2, <1>5
<1>. QED
  BY <1>1, <1>6 DEF same, PathOfRun

\* Tokens one after the other: none, one, or two pieces.
LEMMA RunNone ==
  ASSUME NEW C, NEW T, NEW H, Closed(H, C, T), NEW c \in C
  PROVE  Run(H, c, <<>>) = c
<1> DEFINE s == <<>>
<1>1. s \in Seq(T) /\ Len(s) = 0
  OBVIOUS
<1> HIDE DEF s
<1>2. PICK h \in [0..Len(s) -> C] : PathOfRun(h, H, c, s)
  BY <1>1, RunSteps
<1>3. Run(H, c, s) = c
  BY <1>1, <1>2 DEF Path, PathOfRun
<1>. QED
  BY <1>3 DEF s

\* A run over one token is a step.
LEMMA RunOne ==
  ASSUME NEW C, NEW T, NEW H, Closed(H, C, T), NEW c \in C, NEW t \in T
  PROVE  Run(H, c, <<t>>) = H[c][t]
<1> DEFINE s == <<t>>
<1>1. s \in Seq(T) /\ Len(s) = 1 /\ s[1] = t
  OBVIOUS
<1> HIDE DEF s
<1>2. PICK h \in [0..Len(s) -> C] : PathOfRun(h, H, c, s)
  BY <1>1, RunSteps
<1>3. h[1] = H[h[0]][s[1]]
  BY <1>1, <1>2 DEF Path, PathOfRun
<1>. QED
  BY <1>1, <1>2, <1>3 DEF s, Path, PathOfRun

\* A run over two pieces is a run over the second from the end of the first.
LEMMA RunBoth ==
  ASSUME NEW C, NEW T, NEW H, Closed(H, C, T), NEW c \in C, NEW s \in Seq(T), NEW t \in Seq(T)
  PROVE  Run(H, c, s \o t) = Run(H, Run(H, c, s), t)
<1> DEFINE st == s \o t
<1>1. /\ st \in Seq(T) /\ Len(s) \in Nat /\ Len(t) \in Nat /\ Len(st) = Len(s) + Len(t)
      /\ \A k \in 1..Len(s) : st[k] = s[k]
      /\ \A k \in 1..Len(t) : st[Len(s) + k] = t[k]
  OBVIOUS
<1> HIDE DEF st
<1>2. PICK h \in [0..Len(st) -> C] : PathOfRun(h, H, c, st)
  BY <1>1, RunSteps
<1>3. Run(H, c, s) = h[Len(s)]
  <2>1. \A k \in 1..Len(s) : h[k] = H[h[k - 1]][s[k]]
    BY <1>1, <1>2 DEF Path, PathOfRun
  <2>2. Path(h, H, c, s)
    BY <1>2, <2>1 DEF Path, PathOfRun
  <2>. QED
    BY <2>2, RunUnique
<1> DEFINE g == [k \in 0..Len(t) |-> h[Len(s) + k]]
<1>4. g[0] = h[Len(s)] /\ h[Len(s)] \in C
  BY <1>1
<1>5. ASSUME NEW k \in 1..Len(t)
      PROVE  g[k] = H[g[k - 1]][t[k]]
  <2>1. Len(s) + k \in 1..Len(st) /\ (Len(s) + k) - 1 = Len(s) + (k - 1) /\ k - 1 \in 0..Len(t)
    BY <1>1
  <2>2. h[Len(s) + k] = H[h[Len(s) + (k - 1)]][t[k]]
    BY <1>1, <1>2, <2>1 DEF Path, PathOfRun
  <2>. QED
    BY <2>1, <2>2
<1>6. g[Len(t)] = h[Len(st)]
  BY <1>1
<1> HIDE DEF g
<1>7. Run(H, h[Len(s)], t) = g[Len(t)]
  <2>1. Path(g, H, h[Len(s)], t)
    BY <1>4, <1>5 DEF Path
  <2>. QED
    BY <1>4, <2>1, RunUnique
<1>. QED
  BY <1>2, <1>3, <1>6, <1>7 DEF st, PathOfRun

\* A run takes its first token first.
LEMMA RunFirst ==
  ASSUME NEW C, NEW T, NEW H, Closed(H, C, T), NEW c \in C, NEW s \in Seq(T), s # <<>>
  PROVE  Run(H, c, s) = Run(H, H[c][Head(s)], Tail(s))
<1> DEFINE first == <<Head(s)>>
    rest == Tail(s)
<1>1. Head(s) \in T /\ rest \in Seq(T) /\ first \in Seq(T) /\ s = first \o rest
  OBVIOUS
<1>2. Run(H, c, first) = H[c][Head(s)]
  BY <1>1, RunOne
<1> HIDE DEF first, rest
<1>3. Run(H, c, first \o rest) = Run(H, Run(H, c, first), rest)
  BY <1>1, RunBoth
<1>. QED
  BY <1>1, <1>2, <1>3 DEF rest

\* What a fold of the community modules over s is defined by, as far as the
\* accumulator stays in C.
Accumulates(iter, C, H, c, s) ==
  /\ iter[{}] = c
  /\ \A S \in SUBSET (1..Len(s)) :
       S # {} /\ iter[S \ {Max(S)}] \in C =>
         iter[S] = H[iter[S \ {Max(S)}]][s[Max(S)]]

\* A fold is a run.
LEMMA FoldIsRun ==
  ASSUME NEW C, NEW T, NEW H, Closed(H, C, T), NEW c \in C, NEW s \in Seq(T),
         NEW iter, Accumulates(iter, C, H, c, s)
  PROVE  iter[DOMAIN s] = Run(H, c, s)
<1> DEFINE h == [k \in 0..Len(s) |-> iter[1..k]]
<1>1. Len(s) \in Nat /\ DOMAIN s = 1..Len(s) /\ \A k \in 1..Len(s) : s[k] \in T
  OBVIOUS
<1>2. h[0] = c
  <2>1. 1..0 = {} /\ h[0] = iter[1..0]
    BY <1>1
  <2>. QED
    BY <2>1 DEF Accumulates
<1>3. ASSUME NEW k \in 1..Len(s), h[k - 1] \in C
      PROVE  h[k] = H[h[k - 1]][s[k]]
  <2>1. k \in Nat /\ k # 0
    OBVIOUS
  <2>2. Max(1..k) = k /\ (1..k) \ {k} = 1..k - 1 /\ 1..k # {}
    BY <2>1, TopOfInterval
  <2>3. 1..k \in SUBSET (1..Len(s)) /\ k - 1 \in 0..Len(s)
    BY <1>1
  <2>4. h[k] = iter[1..k] /\ h[k - 1] = iter[1..k - 1]
    BY <1>1, <2>3
  <2> HIDE DEF h
  <2>5. iter[(1..k) \ {Max(1..k)}] \in C
    BY <1>3, <2>2, <2>4
  <2>6. iter[1..k] = H[iter[(1..k) \ {Max(1..k)}]][s[Max(1..k)]]
    BY <2>2, <2>3, <2>5 DEF Accumulates
  <2>. QED
    BY <2>2, <2>4, <2>6
<1> HIDE DEF h
<1> DEFINE typed == {k \in Nat : h[k] \in C}
<1>4. ASSUME NEW k \in 0..Len(s) - 1, h[k] \in C
      PROVE  h[k + 1] \in C
  <2>1. k + 1 \in 1..Len(s) /\ (k + 1) - 1 = k
    BY <1>1
  <2>2. h[k + 1] = H[h[k]][s[k + 1]] /\ s[k + 1] \in T
    BY <1>1, <1>3, <1>4, <2>1
  <2>. QED
    BY <1>4, <2>2 DEF Closed
<1>5. 0 \in typed /\ \A k \in 0..Len(s) - 1 : k \in typed => k + 1 \in typed
  BY <1>2, <1>4
<1> HIDE DEF typed
<1>6. \A k \in 0..Len(s) : k \in typed
  BY <1>1, <1>5, InductionUpTo
<1>7. \A k \in 1..Len(s) : h[k] = H[h[k - 1]][s[k]]
  <2>1. ASSUME NEW k \in 1..Len(s) PROVE h[k - 1] \in C
    <3>1. k - 1 \in 0..Len(s)
      BY <1>1
    <3>. QED
      BY <1>6, <3>1 DEF typed
  <2>. QED
    BY <1>3, <2>1
<1>8. Run(H, c, s) = h[Len(s)]
  <2>1. Path(h, H, c, s)
    BY <1>2, <1>7 DEF Path
  <2>. QED
    BY <2>1, RunUnique
<1>9. h[Len(s)] = iter[DOMAIN s]
  BY <1>1 DEF h
<1>. QED
  BY <1>8, <1>9

=============================================================================
