------------------------ MODULE GeneratedService_proofs ------------------------
(* What is proved of GeneratedService, for every program the macros may     *)
(* meet.                                                                    *)
EXTENDS GeneratedService, SequenceTheorems, FiniteSetTheorems,
        WellFoundedInduction, TLAPS

------------------------------------------------------------------------------
(* Folds over a sequence.  A fold is recursive over the set of positions;   *)
(* that there is such a function at all, and what it computes, is by        *)
(* induction, from the least counterexample.                                *)
LEMMA LeastNatural ==
  ASSUME NEW S \in SUBSET Nat, S # {}
  PROVE  \E m \in S : \A k \in S : m <= k
  <1>1. \E R : IsWellFoundedOn(R, Nat) /\ \A x, y \in Nat : y < x => <<y, x>> \in R
    <2>1. \A x, y \in Nat : y < x => <<y, x>> \in OpToRel(<, Nat)
      BY DEF OpToRel
    <2> QED  BY <2>1, NatLessThanWellFounded
  <1>2. PICK R : IsWellFoundedOn(R, Nat) /\ \A x, y \in Nat : y < x => <<y, x>> \in R
    BY <1>1
  <1>3. PICK x \in S : \A y \in S : <<y, x>> \notin R
    BY <1>2, WFMin
  <1>4. \A y \in S : ~(y < x)
    BY <1>2, <1>3
  <1>5. \A y \in S : x <= y
    BY <1>4
  <1> QED  BY <1>5

LEMMA SetInduction ==
  ASSUME NEW S \in SUBSET Nat, 0 \in S, \A n \in S : n + 1 \in S
  PROVE  \A n \in Nat : n \in S
  <1> SUFFICES ASSUME Nat \ S # {} PROVE FALSE
    OBVIOUS
  <1>1. PICK m \in Nat \ S : \A k \in Nat \ S : m <= k
    BY LeastNatural
  <1>2. m # 0 /\ m-1 \in Nat /\ m-1 < m
    BY <1>1
  <1> QED  BY <1>1, <1>2

LEMMA MaxOf ==
  ASSUME NEW n \in Nat, NEW S \in SUBSET (1 .. n), S # {}
  PROVE  /\ Max(S) \in S /\ \A y \in S : y <= Max(S)
         /\ S \ {Max(S)} \in SUBSET (1 .. Max(S) - 1)
         /\ Max(S) \in 1 .. n
  <1> DEFINE T == {n - x : x \in S}
  <1>0. \A x \in S : x \in Nat /\ x <= n /\ x >= 1 /\ n - x \in Nat
    OBVIOUS
  <1>1. T \in SUBSET Nat /\ T # {}
    BY <1>0
  <1>2. PICK m \in T : \A k \in T : m <= k
    BY <1>1, LeastNatural
  <1>3. PICK x \in S : m = n - x
    OBVIOUS
  <1>4. \A y \in S : x >= y
    <2> SUFFICES ASSUME NEW y \in S PROVE x >= y
      OBVIOUS
    <2>1. n - x <= n - y
      BY <1>2, <1>3
    <2> QED  BY <2>1
  <1>5. Max(S) \in S /\ \A y \in S : Max(S) >= y
    BY <1>4 DEF Max
  <1>6. Max(S) \in 1 .. n
    BY <1>5
  <1>7. ASSUME NEW y \in S \ {Max(S)} PROVE y \in 1 .. Max(S) - 1
    BY <1>0, <1>5, <1>6
  <1>8. S \ {Max(S)} \in SUBSET (1 .. Max(S) - 1)
    BY <1>7
  <1>9. \A y \in S : y <= Max(S)
    BY <1>0, <1>5, <1>6
  <1> QED  BY <1>5, <1>6, <1>8, <1>9

LEMMA MaxOfPrefix ==
  ASSUME NEW k \in Nat \ {0} PROVE Max(1 .. k) = k /\ (1 .. k) \ {k} = 1 .. k-1
  <1>1. k \in 1 .. k /\ 1 .. k # {} /\ 1 .. k \in SUBSET (1 .. k)
    OBVIOUS
  <1>2. Max(1 .. k) \in 1 .. k /\ k <= Max(1 .. k)
    BY <1>1, MaxOf
  <1> QED  BY <1>2

(* g takes the steps of the positions in d, in order. *)
Folds(g, n, base, step) ==
    \A d \in SUBSET (1 .. n) :
        g[d] = IF d = {} THEN base ELSE step[<<Max(d), g[d \ {Max(d)}]>>]

LEMMA FoldExists ==
  ASSUME NEW n \in Nat, NEW V, NEW base \in V, NEW step \in [(1 .. n) \X V -> V]
  PROVE  \E g \in [SUBSET (1 .. n) -> V] : Folds(g, n, base, step)
  <1> DEFINE Good == {k \in Nat : k <= n =>
                         \E g \in [SUBSET (1 .. k) -> V] : Folds(g, k, base, step)}
  <1>1. 0 \in Good
    <2> DEFINE g == [d \in SUBSET (1 .. 0) |-> base]
    <2>1. \A d \in SUBSET (1 .. 0) : d = {}
      OBVIOUS
    <2>2. g \in [SUBSET (1 .. 0) -> V] /\ Folds(g, 0, base, step)
      BY <2>1 DEF Folds
    <2> QED  BY <2>2
  <1>2. ASSUME NEW k \in Good PROVE k + 1 \in Good
    <2>0. k \in Nat /\ k + 1 \in Nat
      OBVIOUS
    <2> SUFFICES ASSUME k + 1 <= n
                 PROVE  \E h \in [SUBSET (1 .. k+1) -> V] : Folds(h, k+1, base, step)
      BY Zenon, <2>0
    <2>1. k \in Nat /\ k <= n
      BY <2>0
    <2>2. PICK g \in [SUBSET (1 .. k) -> V] : Folds(g, k, base, step)
      BY <2>1
    <2> HIDE DEF Good
    <2> DEFINE h == [d \in SUBSET (1 .. k+1) |->
                        IF d = {} THEN base ELSE step[<<Max(d), g[d \ {Max(d)}]>>]]
    <2>3. \A d \in SUBSET (1 .. k+1) : d # {} =>
             Max(d) \in 1 .. n /\ d \ {Max(d)} \in SUBSET (1 .. k)
      <3> SUFFICES ASSUME NEW d \in SUBSET (1 .. k+1), d # {}
                   PROVE  Max(d) \in 1 .. n /\ d \ {Max(d)} \in SUBSET (1 .. k)
        OBVIOUS
      <3>1. Max(d) \in 1 .. k+1 /\ d \ {Max(d)} \in SUBSET (1 .. Max(d) - 1)
        BY <2>1, MaxOf
      <3>2. Max(d) \in 1 .. n /\ 1 .. Max(d) - 1 \subseteq 1 .. k
        BY <2>1, <3>1
      <3> QED  BY <3>1, <3>2
    <2>4. h \in [SUBSET (1 .. k+1) -> V]
      <3>1. \A d \in SUBSET (1 .. k+1) : d # {} =>
               <<Max(d), g[d \ {Max(d)}]>> \in (1 .. n) \X V
        BY <2>3
      <3> QED  BY <3>1
    <2>5. \A d \in SUBSET (1 .. k) : h[d] = g[d]
      <3>1. SUBSET (1 .. k) \subseteq SUBSET (1 .. k+1)
        BY <2>1
      <3> QED  BY <2>2, <3>1 DEF Folds
    <2>6. \A d \in SUBSET (1 .. k+1) :
             h[d] = IF d = {} THEN base ELSE step[<<Max(d), h[d \ {Max(d)}]>>]
      BY <2>3, <2>5
    <2> HIDE DEF h
    <2> QED  BY <2>4, <2>6 DEF Folds
  <1> HIDE DEF Good
  <1>3. n \in Good
    BY <1>1, <1>2, SetInduction DEF Good
  <1>4. n <= n
    OBVIOUS
  <1> QED  BY Zenon, <1>3, <1>4 DEF Good

(* Two functions that take the same steps are one; f[1 .. k] is what the    *)
(* first k steps have made.                                                 *)
Alike(f, g, n) ==
    /\ f[{}] = g[{}]
    /\ \A d \in SUBSET (1 .. n) :
          d # {} /\ f[d \ {Max(d)}] = g[d \ {Max(d)}] => f[d] = g[d]

LEMMA FoldsAgree ==
  ASSUME NEW n \in Nat, NEW f, NEW g, Alike(f, g, n)
  PROVE  \A k \in 0 .. n : f[1 .. k] = g[1 .. k]
  <1> DEFINE Good == {k \in Nat : k <= n => f[1 .. k] = g[1 .. k]}
  <1>1. 0 \in Good
    <2>1. 1 .. 0 = {}
      OBVIOUS
    <2> QED  BY <2>1 DEF Alike
  <1>2. ASSUME NEW k \in Good PROVE k + 1 \in Good
    <2>0. k \in Nat /\ k + 1 \in Nat
      OBVIOUS
    <2> SUFFICES ASSUME k + 1 <= n PROVE f[1 .. k+1] = g[1 .. k+1]
      BY Zenon, <2>0
    <2>1. k <= n /\ k + 1 \in Nat \ {0} /\ (k + 1) - 1 = k /\ k + 1 \in 1 .. k+1
      BY <2>0
    <2>2. f[1 .. k] = g[1 .. k]
      BY Zenon, <2>1
    <2> HIDE DEF Good
    <2>3. Max(1 .. k+1) = k + 1 /\ (1 .. k+1) \ {k+1} = 1 .. k
      BY <2>1, MaxOfPrefix
    <2>4. 1 .. k+1 \in SUBSET (1 .. n) /\ 1 .. k+1 # {}
      <3>1. \A i \in 1 .. k+1 : i \in 1 .. n
        BY <2>0, <2>1
      <3> QED  BY <2>1, <3>1
    <2> QED  BY <2>2, <2>3, <2>4 DEF Alike
  <1> HIDE DEF Good
  <1>3. \A k \in Nat : k \in Good
    BY <1>1, <1>2, SetInduction DEF Good
  <1>4. \A k \in 0 .. n : k \in Nat /\ k <= n
    OBVIOUS
  <1> QED  BY Zenon, <1>3, <1>4 DEF Good

Steps(F, n, V, base, step) ==
    /\ F \in [0 .. n -> V]
    /\ F[0] = base
    /\ \A k \in 1 .. n : F[k] = step[<<k, F[k-1]>>]

LEMMA FoldSteps ==
  ASSUME NEW n \in Nat, NEW V, NEW base, NEW step,
         NEW f \in [SUBSET (1 .. n) -> V], Folds(f, n, base, step)
  PROVE  Steps([k \in 0 .. n |-> f[1 .. k]], n, V, base, step)
  <1> DEFINE F == [k \in 0 .. n |-> f[1 .. k]]
  <1>1. \A k \in 0 .. n : 1 .. k \in SUBSET (1 .. n)
    OBVIOUS
  <1>2. F \in [0 .. n -> V]
    BY <1>1
  <1>3. F[0] = base
    <2>1. 1 .. 0 = {} /\ 0 \in 0 .. n /\ {} \in SUBSET (1 .. n)
      OBVIOUS
    <2> QED  BY <2>1 DEF Folds
  <1>4. ASSUME NEW k \in 1 .. n PROVE F[k] = step[<<k, F[k-1]>>]
    <2>1. k \in Nat \ {0} /\ k \in 0 .. n /\ k-1 \in 0 .. n /\ k \in 1 .. k
      OBVIOUS
    <2>2. Max(1 .. k) = k /\ (1 .. k) \ {k} = 1 .. k-1
      BY <2>1, MaxOfPrefix
    <2>3. f[1 .. k] = step[<<k, f[1 .. k-1]>>]
      BY <1>1, <2>1, <2>2 DEF Folds
    <2> QED  BY <2>1, <2>3
  <1> QED  BY <1>2, <1>3, <1>4 DEF Steps

(* So a fold is found from any function that takes its steps.               *)
Folded(F, n, V, base, step, result) ==
    Steps(F, n, V, base, step) /\ result = F[n]

Takes(g, n, V, base, step) ==
    /\ g[{}] = base
    /\ \A v \in V : \A d \in SUBSET (1 .. n) :
          d # {} /\ g[d \ {Max(d)}] = v => g[d] = step[<<Max(d), v>>]

LEMMA FoldIs ==
  ASSUME NEW n \in Nat, NEW V, NEW base \in V, NEW step \in [(1 .. n) \X V -> V],
         NEW g, Takes(g, n, V, base, step)
  PROVE  \E F : Folded(F, n, V, base, step, g[1 .. n])
  <1>1. PICK f \in [SUBSET (1 .. n) -> V] : Folds(f, n, base, step)
    BY FoldExists
  <1>2. \A d \in SUBSET (1 .. n) : d # {} => d \ {Max(d)} \in SUBSET (1 .. n)
    BY MaxOf
  <1>3. f[{}] = g[{}]
    BY <1>1 DEF Folds, Takes
  <1>4. \A d \in SUBSET (1 .. n) :
           d # {} /\ f[d \ {Max(d)}] = g[d \ {Max(d)}] => f[d] = g[d]
    <2> SUFFICES ASSUME NEW d \in SUBSET (1 .. n), d # {},
                        f[d \ {Max(d)}] = g[d \ {Max(d)}]
                 PROVE  f[d] = g[d]
      OBVIOUS
    <2>1. f[d \ {Max(d)}] \in V
      BY <1>2
    <2>2. g[d] = step[<<Max(d), f[d \ {Max(d)}]>>]
      BY <2>1 DEF Takes
    <2>3. f[d] = step[<<Max(d), f[d \ {Max(d)}]>>]
      BY <1>1 DEF Folds
    <2> QED  BY <2>2, <2>3
  <1>5. f[1 .. n] = g[1 .. n]
    <2>1. Alike(f, g, n)
      BY <1>3, <1>4 DEF Alike
    <2>2. n \in 0 .. n
      OBVIOUS
    <2> QED  BY <2>1, <2>2, FoldsAgree
  <1> DEFINE F == [k \in 0 .. n |-> f[1 .. k]]
  <1>6. Steps(F, n, V, base, step)
    BY <1>1, FoldSteps
  <1>7. F[n] = g[1 .. n]
    BY <1>5
  <1> QED  BY <1>6, <1>7 DEF Folded

------------------------------------------------------------------------------
(* Only. *)
Keep(S, l, x) == IF x \in S THEN Append(l, x) ELSE l

(* F holds what has been kept of each prefix of seq. *)
Keeps(F, S, seq, T) ==
    /\ F \in [0 .. Len(seq) -> Seq(T)]
    /\ F[0] = <<>>
    /\ \A k \in 1 .. Len(seq) : F[k] = Keep(S, F[k-1], seq[k])
    /\ Only(S, seq) = F[Len(seq)]

LEMMA OnlyFold ==
  ASSUME NEW T, NEW seq \in Seq(T), NEW S
  PROVE  \E F : Keeps(F, S, seq, T)
  <1> DEFINE n == Len(seq)
             V == Seq(T)
             step == [p \in (1 .. n) \X V |-> Keep(S, p[2], seq[p[1]])]
             Iter(g) == g = [d \in SUBSET (1 .. n) |->
                                IF d = {} THEN <<>>
                                ELSE Keep(S, g[d \ {Max(d)}], seq[Max(d)])]
             g == CHOOSE g : Iter(g)
  <1>1. n \in Nat /\ DOMAIN seq = 1 .. n /\ \A i \in 1 .. n : seq[i] \in T
    BY LenProperties, ElementOfSeq
  <1>2. Only(S, seq) = g[1 .. n]
    BY <1>1 DEF Only, FoldLeft, MapThenFoldSet, Keep
  <1>3. step \in [(1 .. n) \X V -> V] /\ <<>> \in V
    BY <1>1, AppendProperties, EmptySeq DEF Keep
  <1>4. \A v \in V : \A k \in 1 .. n : step[<<k, v>>] = Keep(S, v, seq[k])
    OBVIOUS
  <1>5. \A d \in SUBSET (1 .. n) : d # {} =>
           Max(d) \in 1 .. n /\ d \ {Max(d)} \in SUBSET (1 .. n)
    BY <1>1, MaxOf
  <1> HIDE DEF step, n, V
  <1>6. PICK f \in [SUBSET (1 .. n) -> V] : Folds(f, n, <<>>, step)
    BY <1>1, <1>3, FoldExists
  <1>7. Iter(f)
    <2>1. \A d \in SUBSET (1 .. n) :
             f[d] = IF d = {} THEN <<>> ELSE Keep(S, f[d \ {Max(d)}], seq[Max(d)])
      BY <1>4, <1>5, <1>6 DEF Folds
    <2> QED  BY <2>1
  <1>8. Iter(g)
    BY <1>7
  <1> HIDE DEF g
  <1>9. \A d \in SUBSET (1 .. n) :
           g[d] = IF d = {} THEN <<>> ELSE Keep(S, g[d \ {Max(d)}], seq[Max(d)])
    BY <1>8
  <1> HIDE DEF Iter
  <1>10. PICK F : Folded(F, n, V, <<>>, step, g[1 .. n])
    <2>1. {} \in SUBSET (1 .. n)
      OBVIOUS
    <2>2. Takes(g, n, V, <<>>, step)
      BY <1>4, <1>5, <1>9, <2>1 DEF Takes
    <2> QED  BY <1>1, <1>3, <2>2, FoldIs
  <1>11. \A k \in 1 .. n : F[k] = Keep(S, F[k-1], seq[k])
    <2>1. \A k \in 1 .. n : k-1 \in 0 .. n
      BY <1>1
    <2> QED  BY <1>4, <1>10, <2>1 DEF Folded, Steps
  <1> QED  BY <1>2, <1>10, <1>11 DEF n, V, Keeps, Folded, Steps

(* at tells where in seq the elements of l, a list of those in S, come from; *)
(* none of the first k is missing.                                          *)
Drawn(l, seq, S, k, at) ==
    /\ at \in [1 .. Len(l) -> 1 .. k]
    /\ \A i \in 1 .. Len(l) : l[i] = seq[at[i]] /\ seq[at[i]] \in S
    /\ \A i, j \in 1 .. Len(l) : i < j => at[i] < at[j]
    /\ \A j \in 1 .. k : seq[j] \in S => \E i \in 1 .. Len(l) : at[i] = j

LEMMA DrawnNext ==
  ASSUME NEW T, NEW seq \in Seq(T), NEW S, NEW k \in Nat, k + 1 <= Len(seq),
         NEW l \in Seq(T), NEW at, Drawn(l, seq, S, k, at)
  PROVE  \E to : Drawn(Keep(S, l, seq[k+1]), seq, S, k+1, to)
  <1> DEFINE x == seq[k+1]
             n == Len(l)
  <1>0. /\ n \in Nat /\ k + 1 \in 1 .. Len(seq) /\ x \in T
        /\ at \in [1 .. n -> 1 .. k]
    BY LenProperties, ElementOfSeq DEF Drawn
  <1>1. CASE x \notin S
    <2>1. Keep(S, l, x) = l
      BY <1>1 DEF Keep
    <2>2. \A i \in 1 .. n : at[i] \in 1 .. k+1
      BY <1>0
    <2>3. at \in [1 .. n -> 1 .. k+1]
      BY <1>0, <2>2
    <2>4. \A j \in 1 .. k+1 : seq[j] \in S => \E i \in 1 .. n : at[i] = j
      <3> SUFFICES ASSUME NEW j \in 1 .. k+1, seq[j] \in S
                   PROVE  \E i \in 1 .. n : at[i] = j
        OBVIOUS
      <3>1. j # k + 1
        BY <1>1
      <3>2. j \in 1 .. k
        BY <3>1
      <3> QED  BY <3>2 DEF Drawn
    <2>5. Drawn(l, seq, S, k+1, at)
      BY <2>3, <2>4 DEF Drawn
    <2> QED  BY <2>1, <2>5
  <1>2. CASE x \in S
    <2> DEFINE m == Append(l, x)
               to == [i \in 1 .. n+1 |-> IF i = n+1 THEN k+1 ELSE at[i]]
    <2>1. /\ Keep(S, l, x) = m /\ Len(m) = n + 1 /\ m[n+1] = x
          /\ \A i \in 1 .. n : m[i] = l[i]
      BY <1>0, <1>2, AppendProperties DEF Keep
    <2>2. \A i \in 1 .. n+1 : i # n + 1 => i \in 1 .. n
      BY <1>0
    <2>3. /\ to[n+1] = k + 1 /\ \A i \in 1 .. n : to[i] = at[i] /\ to[i] \in 1 .. k
          /\ to \in [1 .. n+1 -> 1 .. k+1]
      <3>1. \A i \in 1 .. n : i \in 1 .. n+1 /\ i # n + 1 /\ at[i] \in 1 .. k /\ at[i] \in 1 .. k+1
        BY <1>0
      <3>2. n + 1 \in 1 .. n+1 /\ k + 1 \in 1 .. k+1
        BY <1>0
      <3> QED  BY <2>2, <3>1, <3>2
    <2> HIDE DEF to, m, n, x
    <2>4. \A i \in 1 .. n+1 : m[i] = seq[to[i]] /\ seq[to[i]] \in S
      <3>1. \A i \in 1 .. n : l[i] = seq[at[i]] /\ seq[at[i]] \in S
        BY DEF Drawn, n
      <3> QED  BY <1>2, <2>1, <2>2, <2>3, <3>1 DEF x
    <2>5. \A i, j \in 1 .. n+1 : i < j => to[i] < to[j]
      <3> SUFFICES ASSUME NEW i \in 1 .. n+1, NEW j \in 1 .. n+1, i < j
                   PROVE  to[i] < to[j]
        OBVIOUS
      <3>1. i \in 1 .. n
        BY <1>0
      <3>2. CASE j = n + 1
        BY <2>3, <3>1, <3>2
      <3>3. CASE j # n + 1
        <4>1. j \in 1 .. n
          BY <2>2, <3>3
        <4>2. at[i] < at[j]
          BY <3>1, <4>1 DEF Drawn, n
        <4> QED  BY <2>3, <3>1, <4>1, <4>2
      <3> QED  BY <3>2, <3>3
    <2>6. \A j \in 1 .. k+1 : seq[j] \in S => \E i \in 1 .. n+1 : to[i] = j
      <3> SUFFICES ASSUME NEW j \in 1 .. k+1, seq[j] \in S
                   PROVE  \E i \in 1 .. n+1 : to[i] = j
        OBVIOUS
      <3>1. CASE j = k + 1
        <4>1. n + 1 \in 1 .. n+1
          BY <1>0
        <4> QED  BY <2>3, <3>1, <4>1
      <3>2. CASE j # k + 1
        <4>1. j \in 1 .. k
          BY <3>2
        <4>2. PICK i \in 1 .. n : at[i] = j
          BY <4>1 DEF Drawn, n
        <4>3. i \in 1 .. n+1
          BY <1>0
        <4> QED  BY <2>3, <4>2, <4>3
      <3> QED  BY <3>1, <3>2
    <2>7. Drawn(m, seq, S, k+1, to)
      BY <2>1, <2>3, <2>4, <2>5, <2>6 DEF Drawn
    <2> QED  BY <2>1, <2>7 DEF x
  <1> QED  BY <1>1, <1>2

LEMMA OnlyDrawn ==
  ASSUME NEW T, NEW seq \in Seq(T), NEW S
  PROVE  /\ Only(S, seq) \in Seq(T)
         /\ \E at : Drawn(Only(S, seq), seq, S, Len(seq), at)
  <1> DEFINE n == Len(seq)
  <1>0. n \in Nat
    BY LenProperties
  <1>1. PICK F : Keeps(F, S, seq, T)
    BY OnlyFold
  <1> DEFINE Good == {k \in Nat : k <= n => \E at : Drawn(F[k], seq, S, k, at)}
  <1>2. 0 \in Good
    <2> DEFINE at == [i \in 1 .. 0 |-> 1]
    <2>1. Len(F[0]) = 0
      BY <1>1, EmptySeq DEF Keeps
    <2>2. Drawn(F[0], seq, S, 0, at)
      BY <2>1 DEF Drawn
    <2> QED  BY <2>2
  <1>3. ASSUME NEW k \in Good PROVE k + 1 \in Good
    <2>0. k \in Nat /\ k + 1 \in Nat
      OBVIOUS
    <2> SUFFICES ASSUME k + 1 <= n PROVE \E at : Drawn(F[k+1], seq, S, k+1, at)
      BY Zenon, <2>0
    <2>1. k <= n /\ k + 1 \in 1 .. n /\ k \in 0 .. n /\ (k + 1) - 1 = k
      BY <1>0, <2>0
    <2>2. PICK at : Drawn(F[k], seq, S, k, at)
      BY Zenon, <2>1
    <2>3. F[k+1] = Keep(S, F[k], seq[k+1]) /\ F[k] \in Seq(T)
      BY <1>1, <2>1 DEF Keeps
    <2>4. \E to : Drawn(Keep(S, F[k], seq[k+1]), seq, S, k+1, to)
      BY <2>0, <2>2, <2>3, DrawnNext
    <2> QED  BY <2>3, <2>4
  <1> HIDE DEF Good
  <1>4. n \in Good
    BY <1>0, <1>2, <1>3, SetInduction DEF Good
  <1>5. n <= n /\ n \in 0 .. n
    BY <1>0
  <1>6. \E at : Drawn(F[n], seq, S, n, at)
    BY Zenon, <1>4, <1>5 DEF Good
  <1> QED  BY <1>1, <1>5, <1>6 DEF Keeps

(* What is taken is just what was there, once if it was there once.          *)
LEMMA OnlyIs ==
  ASSUME NEW T, NEW seq \in Seq(T), NEW S
  PROVE  /\ Only(S, seq) \in Seq(T)
         /\ ToSet(Only(S, seq)) = ToSet(seq) \cap S
         /\ NamesDistinct(seq) => NamesDistinct(Only(S, seq))
  <1> DEFINE l == Only(S, seq)
  <1>1. PICK at : Drawn(l, seq, S, Len(seq), at)
    BY OnlyDrawn
  <1>2. /\ l \in Seq(T) /\ Len(seq) \in Nat /\ Len(l) \in Nat
        /\ DOMAIN l = 1 .. Len(l) /\ DOMAIN seq = 1 .. Len(seq)
    BY OnlyDrawn, LenProperties
  <1> HIDE DEF l
  <1>3. ToSet(l) = ToSet(seq) \cap S
    <2>1. ASSUME NEW i \in 1 .. Len(l)
          PROVE  l[i] \in S /\ \E j \in 1 .. Len(seq) : seq[j] = l[i]
      BY <1>1 DEF Drawn
    <2>2. ASSUME NEW j \in 1 .. Len(seq), seq[j] \in S
          PROVE  \E i \in 1 .. Len(l) : l[i] = seq[j]
      BY <1>1, <2>2 DEF Drawn
    <2>3. /\ ToSet(l) = {l[i] : i \in 1 .. Len(l)}
          /\ ToSet(seq) = {seq[j] : j \in 1 .. Len(seq)}
      BY <1>2 DEF ToSet
    <2>4. \A e : e \in ToSet(l) <=> e \in ToSet(seq) /\ e \in S
      BY <2>1, <2>2, <2>3
    <2> QED  BY <2>4
  <1>4. ASSUME NamesDistinct(seq), NEW i \in DOMAIN l, NEW j \in DOMAIN l,
               l[i].name = l[j].name
        PROVE  i = j
    <2>1. at[i] = at[j]
      BY <1>1, <1>2, <1>4 DEF Drawn, NamesDistinct
    <2>2. ~(i < j) /\ ~(j < i)
      <3>1. at[i] \in Int /\ at[j] \in Int
        BY <1>1, <1>2 DEF Drawn
      <3> QED  BY <1>1, <1>2, <2>1, <3>1 DEF Drawn
    <2> QED  BY <1>2, <2>2
  <1> QED  BY <1>2, <1>3, <1>4 DEF l, NamesDistinct
------------------------------------------------------------------------------
(* The statements left of spawn_with. *)
Kinds == {"seed", "cells", "subscribe", "spawn", "push"}
(* (The provers do not know that a literal is in STRING.) *)
Names == STRING \cup {"", MainLoop, Expirer}
Statement == [do : Kinds, name : Names]
Starting == {"spawn", "push"}

NamesIn(q, what) == {q[i].name : i \in {j \in DOMAIN q : q[j].do = what}}

(* What is spawned is spawned last, pushed at once, and only once. *)
InOrder(q) ==
    /\ \A j \in DOMAIN q : q[j].do = "push" => j = 1
    /\ \A i, j \in DOMAIN q : i < j /\ q[i].do \in Starting => q[j].do = "spawn"
Once(q) ==
    \A i, j \in DOMAIN q :
        q[i].do \in Starting /\ q[j].do \in Starting /\ q[i].name = q[j].name => i = j

LEMMA TailIs ==
  ASSUME NEW q \in Seq(Statement), q # <<>>
  PROVE  /\ Tail(q) \in Seq(Statement) /\ Head(q) = q[1] /\ Head(q) \in Statement
         /\ Len(q) \in Nat /\ Len(q) >= 1 /\ DOMAIN q = 1 .. Len(q)
         /\ DOMAIN Tail(q) = 1 .. Len(q) - 1
         /\ \A i \in DOMAIN Tail(q) : i + 1 \in DOMAIN q /\ Tail(q)[i] = q[i+1]
  BY HeadTailProperties, LenProperties, ElementOfSeq, EmptySeq

LEMMA TailKeeps ==
  ASSUME NEW q \in Seq(Statement), q # <<>>, InOrder(q), Once(q)
  PROVE  /\ InOrder(Tail(q)) /\ Once(Tail(q))
         /\ \A what \in Kinds : NamesIn(q, what)
               = NamesIn(Tail(q), what)
                 \cup (IF Head(q).do = what THEN {Head(q).name} ELSE {})
         /\ Head(q).do \in Starting =>
               /\ \A i \in DOMAIN Tail(q) : Tail(q)[i].do = "spawn"
               /\ \A what \in Starting : Head(q).name \notin NamesIn(Tail(q), what)
  <1> DEFINE r == Tail(q)
             n == Len(q)
  <1>1. /\ n \in Nat /\ n >= 1 /\ DOMAIN q = 1 .. n /\ DOMAIN r = 1 .. n-1
        /\ Head(q) = q[1] /\ \A i \in 1 .. n-1 : i + 1 \in 1 .. n /\ r[i] = q[i+1]
    BY TailIs
  <1> HIDE DEF r, n
  <1>2. InOrder(r)
    <2>1. ASSUME NEW j \in 1 .. n-1, r[j].do = "push" PROVE FALSE
      <3>1. j + 1 = 1
        BY <1>1, <2>1 DEF InOrder
      <3> QED  BY <1>1, <3>1
    <2>2. ASSUME NEW i \in 1 .. n-1, NEW j \in 1 .. n-1, i < j, r[i].do \in Starting
          PROVE  r[j].do = "spawn"
      <3>1. i + 1 < j + 1 /\ i + 1 \in DOMAIN q /\ j + 1 \in DOMAIN q
        BY <1>1, <2>2
      <3>2. q[i+1].do \in Starting
        BY <1>1, <2>2
      <3>3. q[j+1].do = "spawn"
        BY <3>1, <3>2 DEF InOrder
      <3> QED  BY <1>1, <3>3
    <2> QED  BY <1>1, <2>1, <2>2 DEF InOrder
  <1>3. Once(r)
    <2> SUFFICES ASSUME NEW i \in 1 .. n-1, NEW j \in 1 .. n-1, r[i].do \in Starting,
                        r[j].do \in Starting, r[i].name = r[j].name
                 PROVE  i = j
      BY <1>1 DEF Once
    <2>1. i + 1 = j + 1
      BY <1>1 DEF Once
    <2> QED  BY <2>1
  <1>4. ASSUME NEW what \in Kinds
        PROVE  NamesIn(q, what) = NamesIn(r, what)
                   \cup (IF Head(q).do = what THEN {Head(q).name} ELSE {})
    <2>1. \A x \in NamesIn(q, what) :
             x \in NamesIn(r, what) \/ (Head(q).do = what /\ x = Head(q).name)
      <3> SUFFICES ASSUME NEW i \in 1 .. n, q[i].do = what
                   PROVE  \/ q[i].name \in NamesIn(r, what)
                          \/ Head(q).do = what /\ q[i].name = Head(q).name
        BY <1>1 DEF NamesIn
      <3>1. CASE i = 1
        BY <1>1, <3>1
      <3>2. CASE i # 1
        <4>1. i-1 \in 1 .. n-1 /\ (i-1) + 1 = i
          BY <1>1, <3>2
        <4>2. r[i-1] = q[i]
          BY <1>1, <4>1
        <4> QED  BY <1>1, <4>1, <4>2 DEF NamesIn
      <3> QED  BY <3>1, <3>2
    <2>2. \A x \in NamesIn(r, what) : x \in NamesIn(q, what)
      BY <1>1 DEF NamesIn
    <2>3. 1 \in 1 .. n
      BY <1>1
    <2>4. Head(q).do = what => Head(q).name \in NamesIn(q, what)
      BY <1>1, <2>3 DEF NamesIn
    <2> QED  BY <2>1, <2>2, <2>4
  <1>5. ASSUME Head(q).do \in Starting
        PROVE  /\ \A i \in DOMAIN r : r[i].do = "spawn"
               /\ \A what \in Starting : Head(q).name \notin NamesIn(r, what)
    <2>0. 1 \in DOMAIN q /\ q[1].do \in Starting
      BY <1>1, <1>5
    <2>1. ASSUME NEW i \in DOMAIN r PROVE r[i].do = "spawn"
      <3>1. 1 < i + 1 /\ i + 1 \in DOMAIN q
        BY <1>1
      <3>2. q[i+1].do = "spawn"
        BY <2>0, <3>1 DEF InOrder
      <3> QED  BY <1>1, <3>2
    <2>2. ASSUME NEW i \in DOMAIN r PROVE r[i].name # Head(q).name
      <3>1. 1 # i + 1 /\ i + 1 \in DOMAIN q
        BY <1>1
      <3>2. q[i+1].do \in Starting
        BY <1>1, <2>1 DEF Starting
      <3>3. q[1].name # q[i+1].name
        BY <2>0, <3>1, <3>2 DEF Once
      <3> QED  BY <1>1, <3>3
    <2> QED  BY <2>1, <2>2 DEF NamesIn
  <1> QED  BY <1>2, <1>3, <1>4, <1>5 DEF r

LEMMA Pushing ==
  ASSUME NEW q \in Seq(Statement), q # <<>>, InOrder(q), Once(q), Head(q).do = "spawn",
         NEW r, r = [q EXCEPT ![1].do = "push"]
  PROVE  /\ r \in Seq(Statement) /\ r # <<>> /\ InOrder(r) /\ Once(r)
         /\ \A i \in DOMAIN r : r[i].do \in Starting
         /\ NamesIn(q, "push") = {}
         /\ NamesIn(r, "push") = {Head(q).name}
         /\ NamesIn(q, "spawn") = NamesIn(r, "spawn") \cup {Head(q).name}
  <1> DEFINE n == Len(q)
  <1>1. /\ n \in Nat /\ n >= 1 /\ DOMAIN q = 1 .. n /\ 1 \in 1 .. n
        /\ Head(q) = q[1] /\ \A i \in 1 .. n : q[i] \in Statement
    BY TailIs, ElementOfSeq
  <1>2. /\ DOMAIN r = 1 .. n /\ r[1] = [q[1] EXCEPT !.do = "push"]
        /\ \A i \in 1 .. n : i # 1 => r[i] = q[i]
    BY <1>1
  <1>3. r[1] \in Statement /\ r[1].do = "push" /\ r[1].name = Head(q).name
    BY <1>1, <1>2 DEF Statement, Kinds
  <1>4. r \in Seq(Statement) /\ r # <<>>
    <2>1. r \in [1 .. n -> Statement]
      BY <1>1, <1>2, <1>3
    <2> QED  BY <1>1, <2>1, SeqDef, EmptySeq
  <1>5. \A i \in 1 .. n : i # 1 => q[i].do = "spawn"
    BY <1>1 DEF InOrder, Starting
  <1> HIDE DEF n
  <1>6. InOrder(r)
    BY <1>1, <1>2, <1>5 DEF InOrder, Starting
  <1>7. Once(r)
    <2>1. \A i \in 1 .. n : r[i].name = q[i].name /\ q[i].do \in Starting
      BY <1>1, <1>2, <1>3, <1>5 DEF Starting
    <2> QED  BY <1>1, <1>2, <2>1 DEF Once
  <1>8. \A i \in 1 .. n : r[i].do \in Starting
    BY <1>2, <1>3, <1>5 DEF Starting
  <1>9. \A x \in NamesIn(q, "spawn") : x \in NamesIn(r, "spawn") \/ x = Head(q).name
    BY <1>1, <1>2, <1>3 DEF NamesIn
  <1>10. \A x \in NamesIn(r, "spawn") : x \in NamesIn(q, "spawn")
    BY <1>1, <1>2, <1>3 DEF NamesIn
  <1>11. Head(q).name \in NamesIn(q, "spawn")
    BY <1>1 DEF NamesIn
  <1>12. NamesIn(q, "push") = {} /\ NamesIn(r, "push") = {Head(q).name}
    BY <1>1, <1>2, <1>3, <1>5 DEF NamesIn
  <1> QED  BY <1>2, <1>4, <1>6, <1>7, <1>8, <1>9, <1>10, <1>11, <1>12

(* Statements added behind those there are. *)
LEMMA Joined ==
  ASSUME NEW p \in Seq(Statement), NEW q \in Seq(Statement)
  PROVE  /\ p \o q \in Seq(Statement)
         /\ \A what \in Kinds :
               NamesIn(p \o q, what) = NamesIn(p, what) \cup NamesIn(q, what)
  <1> DEFINE a == Len(p)
             b == Len(q)
             r == p \o q
  <1>1. /\ r \in Seq(Statement) /\ a \in Nat /\ b \in Nat
        /\ DOMAIN p = 1 .. a /\ DOMAIN q = 1 .. b /\ DOMAIN r = 1 .. a+b
        /\ \A i \in 1 .. a+b : r[i] = IF i <= a THEN p[i] ELSE q[i-a]
    BY ConcatProperties, LenProperties
  <1> HIDE DEF a, b, r
  <1>2. ASSUME NEW what \in Kinds
        PROVE  NamesIn(r, what) = NamesIn(p, what) \cup NamesIn(q, what)
    <2>1. \A x \in NamesIn(r, what) : x \in NamesIn(p, what) \/ x \in NamesIn(q, what)
      <3> SUFFICES ASSUME NEW i \in 1 .. a+b, r[i].do = what
                   PROVE  r[i].name \in NamesIn(p, what) \/ r[i].name \in NamesIn(q, what)
        BY <1>1 DEF NamesIn
      <3>1. CASE i <= a
        <4>1. i \in 1 .. a /\ r[i] = p[i]
          BY <1>1, <3>1
        <4> QED  BY <1>1, <4>1 DEF NamesIn
      <3>2. CASE ~(i <= a)
        <4>1. i-a \in 1 .. b /\ r[i] = q[i-a]
          BY <1>1, <3>2
        <4> QED  BY <1>1, <4>1 DEF NamesIn
      <3> QED  BY <3>1, <3>2
    <2>2. \A x \in NamesIn(p, what) : x \in NamesIn(r, what)
      <3>1. \A i \in 1 .. a : i \in 1 .. a+b /\ r[i] = p[i]
        BY <1>1
      <3> QED  BY <1>1, <3>1 DEF NamesIn
    <2>3. \A x \in NamesIn(q, what) : x \in NamesIn(r, what)
      <3> SUFFICES ASSUME NEW i \in 1 .. b, q[i].do = what
                   PROVE  q[i].name \in NamesIn(r, what)
        BY <1>1 DEF NamesIn
      <3>1. i + a \in 1 .. a+b /\ ~(i + a <= a) /\ (i + a) - a = i
        BY <1>1
      <3>2. r[i+a] = q[i]
        BY <1>1, <3>1
      <3> QED  BY <1>1, <3>1, <3>2 DEF NamesIn
    <2> QED  BY <2>1, <2>2, <2>3
  <1> QED  BY <1>1, <1>2 DEF r

NoPush(q) == \A i \in DOMAIN q : q[i].do # "push"

LEMMA JoinedInOrder ==
  ASSUME NEW p \in Seq(Statement), NEW q \in Seq(Statement),
         InOrder(p), Once(p), NoPush(p),
         \A i \in DOMAIN q : q[i].do = "spawn" /\ q[i].name \notin NamesIn(p, "spawn"),
         \A i, j \in DOMAIN q : q[i].name = q[j].name => i = j
  PROVE  InOrder(p \o q) /\ Once(p \o q) /\ NoPush(p \o q)
  <1> DEFINE a == Len(p)
             b == Len(q)
             r == p \o q
  <1>1. /\ r \in Seq(Statement) /\ a \in Nat /\ b \in Nat
        /\ DOMAIN p = 1 .. a /\ DOMAIN q = 1 .. b /\ DOMAIN r = 1 .. a+b
        /\ \A i \in 1 .. a+b : r[i] = IF i <= a THEN p[i] ELSE q[i-a]
    BY ConcatProperties, LenProperties
  <1> HIDE DEF a, b, r
  <1>2. ASSUME NEW i \in 1 .. a+b
        PROVE  \/ i \in 1 .. a /\ r[i] = p[i] /\ i \in DOMAIN p
               \/ i-a \in 1 .. b /\ r[i] = q[i-a] /\ i-a \in DOMAIN q /\ i > a
    BY <1>1
  <1>3. NoPush(r)
    BY <1>1, <1>2 DEF NoPush
  <1>4. InOrder(r)
    <2> SUFFICES ASSUME NEW i \in 1 .. a+b, NEW j \in 1 .. a+b, i < j, r[i].do \in Starting
                 PROVE  r[j].do = "spawn"
      BY <1>1, <1>3 DEF InOrder, NoPush
    <2>1. CASE j <= a
      <3>1. i \in DOMAIN p /\ j \in DOMAIN p /\ r[i] = p[i] /\ r[j] = p[j]
        BY <1>1, <2>1
      <3> QED  BY <3>1 DEF InOrder
    <2>2. CASE ~(j <= a)
      <3>1. r[j] = q[j-a] /\ j-a \in DOMAIN q
        BY <1>1, <2>2
      <3> QED  BY <3>1
    <2> QED  BY <2>1, <2>2
  <1>5. Once(r)
    <2>1. \A i \in 1 .. a+b : i \in 1 .. a /\ r[i].do \in Starting
             => r[i].name \in NamesIn(p, "spawn")
      <3> SUFFICES ASSUME NEW i \in 1 .. a, r[i] = p[i], r[i].do \in Starting
                   PROVE  r[i].name \in NamesIn(p, "spawn")
        BY <1>1
      <3>1. i \in DOMAIN p /\ p[i].do = "spawn"
        BY <1>1 DEF Starting, NoPush
      <3> QED  BY <3>1 DEF NamesIn
    <2> SUFFICES ASSUME NEW i \in 1 .. a+b, NEW j \in 1 .. a+b, r[i].name = r[j].name,
                        r[i].do \in Starting, r[j].do \in Starting
                 PROVE  i = j
      BY <1>1 DEF Once
    <2>2. CASE i <= a /\ j <= a
      <3>1. i \in DOMAIN p /\ j \in DOMAIN p /\ r[i] = p[i] /\ r[j] = p[j]
        BY <1>1, <2>2
      <3> QED  BY <3>1 DEF Once
    <2>3. CASE i <= a /\ ~(j <= a)
      <3>1. i \in 1 .. a /\ r[j] = q[j-a] /\ j-a \in DOMAIN q
        BY <1>1, <2>3
      <3>2. r[i].name \in NamesIn(p, "spawn")
        BY <2>1, <3>1
      <3>3. r[j].name \notin NamesIn(p, "spawn")
        BY <3>1
      <3> QED  BY <3>2, <3>3
    <2>4. CASE ~(i <= a) /\ j <= a
      <3>1. j \in 1 .. a /\ r[i] = q[i-a] /\ i-a \in DOMAIN q
        BY <1>1, <2>4
      <3>2. r[j].name \in NamesIn(p, "spawn")
        BY <2>1, <3>1
      <3>3. r[i].name \notin NamesIn(p, "spawn")
        BY <3>1
      <3> QED  BY <3>2, <3>3
    <2>5. CASE ~(i <= a) /\ ~(j <= a)
      <3>1. i-a \in DOMAIN q /\ j-a \in DOMAIN q /\ r[i] = q[i-a] /\ r[j] = q[j-a]
        BY <1>1, <2>5
      <3>2. i-a = j-a
        BY <3>1
      <3> QED  BY <1>1, <3>2
    <2> QED  BY <2>2, <2>3, <2>4, <2>5
  <1> QED  BY <1>3, <1>4, <1>5 DEF r

(* The lists a block of methods is sorted into. *)
LEMMA ListedIs ==
  ASSUME NEW p \in Programs, NEW role
  PROVE  /\ Listed(p.methods, role) \in Seq(MethodSource)
         /\ ToSet(Listed(p.methods, role)) = {m \in ToSet(p.methods) : RoleOf(m) = role}
         /\ NamesDistinct(Listed(p.methods, role))
  <1> DEFINE ms == p.methods
             S == {m \in ToSet(ms) : RoleOf(m) = role}
  <1>1. ms \in Seq(MethodSource) /\ NamesDistinct(ms)
    BY ProgramsAssumption
  <1>2. /\ Only(S, ms) \in Seq(MethodSource) /\ NamesDistinct(Only(S, ms))
        /\ ToSet(Only(S, ms)) = ToSet(ms) \cap S
    <2> HIDE DEF ms, S
    <2> QED  BY <1>1, OnlyIs
  <1> QED  BY <1>2 DEF Listed

Wanted(ms) == {m.name : m \in ToSet(Inputs(ms))}
AllTasks(ms) ==
    {MainLoop} \cup (IF HasDeferred(ms) THEN {Expirer} ELSE {})
    \cup {t.name : t \in ToSet(Tasks(ms))}

LEMMA MethodNames ==
  ASSUME NEW l \in Seq(MethodSource)
  PROVE  \A i \in DOMAIN l : l[i] \in MethodSource /\ l[i].name \in STRING
                             /\ l[i].name # MainLoop /\ l[i].name # Expirer
  <1>1. \A i \in DOMAIN l : l[i] \in MethodSource
    BY ElementOfSeq, LenProperties
  <1>2. \A m \in MethodSource : m.name \in STRING /\ m.name # MainLoop /\ m.name # Expirer
    BY DEF MethodSource
  <1> QED  BY <1>1, <1>2

LEMMA InputsAre ==
  ASSUME NEW p \in Programs
  PROVE  /\ Inputs(p.methods) \in Seq(MethodSource)
         /\ ToSet(Inputs(p.methods))
               = {m \in ToSet(p.methods) : RoleOf(m) \in {"from", "watch"}}
  <1> DEFINE a == Listed(p.methods, "from")
             b == Listed(p.methods, "watch")
             r == a \o b
  <1>1. /\ a \in Seq(MethodSource) /\ b \in Seq(MethodSource)
        /\ ToSet(a) = {m \in ToSet(p.methods) : RoleOf(m) = "from"}
        /\ ToSet(b) = {m \in ToSet(p.methods) : RoleOf(m) = "watch"}
    BY ListedIs
  <1> HIDE DEF a, b
  <1>2. /\ r \in Seq(MethodSource) /\ Len(a) \in Nat /\ Len(b) \in Nat
        /\ DOMAIN a = 1 .. Len(a) /\ DOMAIN b = 1 .. Len(b)
        /\ DOMAIN r = 1 .. Len(a) + Len(b)
        /\ \A i \in 1 .. Len(a) + Len(b) :
              r[i] = IF i <= Len(a) THEN a[i] ELSE b[i-Len(a)]
    BY <1>1, ConcatProperties, LenProperties
  <1> HIDE DEF r
  <1>3. \A x \in ToSet(r) : x \in ToSet(a) \/ x \in ToSet(b)
    <2> SUFFICES ASSUME NEW i \in 1 .. Len(a) + Len(b)
                 PROVE  r[i] \in ToSet(a) \/ r[i] \in ToSet(b)
      BY <1>2 DEF ToSet
    <2>1. \/ i \in DOMAIN a /\ r[i] = a[i]
          \/ i - Len(a) \in DOMAIN b /\ r[i] = b[i - Len(a)]
      BY <1>2
    <2> QED  BY <2>1 DEF ToSet
  <1>4. \A x \in ToSet(a) : x \in ToSet(r)
    <2>1. \A i \in DOMAIN a : i \in DOMAIN r /\ r[i] = a[i]
      BY <1>2
    <2> QED  BY <2>1 DEF ToSet
  <1>5. \A x \in ToSet(b) : x \in ToSet(r)
    <2> SUFFICES ASSUME NEW i \in DOMAIN b PROVE b[i] \in ToSet(r)
      BY DEF ToSet
    <2>1. i + Len(a) \in DOMAIN r /\ ~(i + Len(a) <= Len(a)) /\ (i + Len(a)) - Len(a) = i
      BY <1>2
    <2>2. r[i + Len(a)] = b[i]
      BY <1>2, <2>1
    <2> QED  BY <2>1, <2>2 DEF ToSet
  <1>6. ToSet(r) = ToSet(a) \cup ToSet(b)
    BY <1>3, <1>4, <1>5
  <1>7. Inputs(p.methods) = r
    BY DEF Inputs, r, a, b
  <1> QED  BY <1>1, <1>2, <1>6, <1>7

LEMMA FirstStatements ==
  ASSUME program \in Programs, NEW q, q = SpawnCore \o TaskSpawns
  PROVE  /\ q \in Seq(Statement) /\ InOrder(q) /\ Once(q)
         /\ NamesIn(q, "seed") # {} /\ NamesIn(q, "cells") # {}
         /\ NamesIn(q, "subscribe") = Wanted(methods)
         /\ NamesIn(q, "spawn") = AllTasks(methods)
         /\ NamesIn(q, "push") = {}
  <1> DEFINE ins == Inputs(methods)
             tasks == Tasks(methods)
             a == <<Do("seed", ""), Do("cells", "")>>
             b == [i \in DOMAIN ins |-> Do("subscribe", ins[i].name)]
             c == <<Do("spawn", MainLoop)>>
             d == IF HasDeferred(methods) THEN <<Do("spawn", Expirer)>> ELSE <<>>
             e == [i \in DOMAIN tasks |-> Do("spawn", tasks[i].name)]
  <1> HIDE DEF ins, tasks
  <1>1. /\ ins \in Seq(MethodSource) /\ tasks \in Seq(MethodSource)
        /\ NamesDistinct(tasks)
    BY ListedIs, InputsAre DEF ins, tasks, Tasks, methods
  <1>2. q = (((a \o b) \o c) \o d) \o e
    BY DEF SpawnCore, TaskSpawns, ins, tasks
  <1>3. \A what \in Kinds, name \in Names : Do(what, name) \in Statement
           /\ Do(what, name).do = what /\ Do(what, name).name = name
    BY DEF Do, Statement
  <1>4. \A x, y \in Statement :
           /\ <<x>> \in Seq(Statement) /\ DOMAIN <<x>> = {1} /\ <<x>>[1] = x
           /\ <<x, y>> \in Seq(Statement) /\ DOMAIN <<x, y>> = {1, 2}
           /\ <<x, y>>[1] = x /\ <<x, y>>[2] = y
    OBVIOUS
  <1>5. /\ a \in Seq(Statement) /\ InOrder(a) /\ Once(a) /\ NoPush(a)
        /\ NamesIn(a, "seed") # {} /\ NamesIn(a, "cells") # {}
        /\ NamesIn(a, "subscribe") = {} /\ NamesIn(a, "spawn") = {}
    <2>1. /\ a \in Seq(Statement) /\ DOMAIN a = {1, 2}
          /\ a[1].do = "seed" /\ a[2].do = "cells"
      <3>1. /\ Do("seed", "") \in Statement /\ Do("cells", "") \in Statement
            /\ Do("seed", "").do = "seed" /\ Do("cells", "").do = "cells"
        BY <1>3 DEF Kinds, Names
      <3> QED  BY <1>4, <3>1
    <2> HIDE DEF a
    <2> QED  BY <2>1 DEF InOrder, Once, NoPush, NamesIn, Starting
  <1>6. /\ b \in Seq(Statement) /\ \A i \in DOMAIN b : b[i].do = "subscribe"
        /\ NamesIn(b, "subscribe") = {ins[i].name : i \in DOMAIN ins}
    <2>1. DOMAIN ins = 1 .. Len(ins) /\ Len(ins) \in Nat
      BY <1>1, LenProperties
    <2>2. \A i \in DOMAIN ins : Do("subscribe", ins[i].name) \in Statement
             /\ Do("subscribe", ins[i].name).do = "subscribe"
             /\ Do("subscribe", ins[i].name).name = ins[i].name
      BY <1>1, <1>3, MethodNames DEF Kinds, Names
    <2>3. b \in [1 .. Len(ins) -> Statement]
      BY <2>1, <2>2
    <2>4. /\ b \in Seq(Statement) /\ DOMAIN b = DOMAIN ins
          /\ \A i \in DOMAIN b : b[i].do = "subscribe" /\ b[i].name = ins[i].name
      BY <2>1, <2>2, <2>3, SeqDef
    <2> HIDE DEF b
    <2> QED  BY <2>4 DEF NamesIn
  <1>7. /\ c \in Seq(Statement) /\ DOMAIN c = {1}
        /\ c[1].do = "spawn" /\ c[1].name = MainLoop
    <2>1. MainLoop \in Names /\ "spawn" \in Kinds
      BY DEF Names, Kinds
    <2> QED  BY <1>3, <1>4, <2>1
  <1>8. /\ d \in Seq(Statement)
        /\ DOMAIN d = IF HasDeferred(methods) THEN {1} ELSE {}
        /\ HasDeferred(methods) => d[1].do = "spawn" /\ d[1].name = Expirer
    <2>1. Expirer \in Names /\ "spawn" \in Kinds
      BY DEF Names, Kinds
    <2>2. <<>> \in Seq(Statement) /\ DOMAIN <<>> = {}
      BY EmptySeq
    <2> QED  BY <1>3, <1>4, <2>1, <2>2
  <1>9. /\ e \in Seq(Statement) /\ DOMAIN e = DOMAIN tasks
        /\ \A i \in DOMAIN e : e[i].do = "spawn" /\ e[i].name = tasks[i].name
    <2>1. DOMAIN tasks = 1 .. Len(tasks) /\ Len(tasks) \in Nat
      BY <1>1, LenProperties
    <2>2. \A i \in DOMAIN tasks : Do("spawn", tasks[i].name) \in Statement
             /\ Do("spawn", tasks[i].name).do = "spawn"
             /\ Do("spawn", tasks[i].name).name = tasks[i].name
      BY <1>1, <1>3, MethodNames DEF Kinds, Names
    <2>3. e \in [1 .. Len(tasks) -> Statement]
      BY <2>1, <2>2
    <2> QED  BY <2>1, <2>2, <2>3, SeqDef
  <1> HIDE DEF a, b, c, d, e
  <1> DEFINE ab == a \o b
             abc == ab \o c
             abcd == abc \o d
  <1>10. /\ ab \in Seq(Statement) /\ InOrder(ab) /\ Once(ab) /\ NoPush(ab)
         /\ NamesIn(ab, "seed") # {} /\ NamesIn(ab, "cells") # {}
         /\ NamesIn(ab, "subscribe") = {ins[i].name : i \in DOMAIN ins}
         /\ NamesIn(ab, "spawn") = {}
    <2>1. /\ ab \in Seq(Statement)
          /\ \A what \in Kinds : NamesIn(ab, what) = NamesIn(a, what) \cup NamesIn(b, what)
      BY <1>5, <1>6, Joined
    <2> HIDE DEF ab
    <2>2. NamesIn(b, "spawn") = {} /\ NamesIn(b, "push") = {} /\ NamesIn(a, "push") = {}
      BY <1>5, <1>6 DEF NamesIn, NoPush
    <2>3. NamesIn(ab, "spawn") = {} /\ NamesIn(ab, "push") = {}
      BY <1>5, <2>1, <2>2 DEF Kinds
    <2>4. \A i \in DOMAIN ab : ab[i].do # "spawn" /\ ab[i].do # "push"
      BY <2>3 DEF NamesIn
    <2>5. InOrder(ab) /\ Once(ab) /\ NoPush(ab)
      BY <2>4 DEF InOrder, Once, NoPush, Starting
    <2> QED  BY <1>5, <1>6, <2>1, <2>3, <2>5 DEF Kinds
  <1> HIDE DEF ab
  <1>11. /\ abc \in Seq(Statement) /\ InOrder(abc) /\ Once(abc) /\ NoPush(abc)
         /\ \A what \in Kinds :
               NamesIn(abc, what) = NamesIn(ab, what) \cup NamesIn(c, what)
    BY <1>7, <1>10, Joined, JoinedInOrder
  <1>12. NamesIn(c, "spawn") = {MainLoop} /\ NamesIn(c, "subscribe") = {}
    BY <1>7 DEF NamesIn
  <1> HIDE DEF abc
  <1>13. /\ abcd \in Seq(Statement) /\ InOrder(abcd) /\ Once(abcd) /\ NoPush(abcd)
         /\ \A what \in Kinds :
               NamesIn(abcd, what) = NamesIn(abc, what) \cup NamesIn(d, what)
    <2>1. NamesIn(abc, "spawn") = {MainLoop}
      BY <1>10, <1>11, <1>12 DEF Kinds
    <2>2. \A i \in DOMAIN d : d[i].do = "spawn" /\ d[i].name \notin NamesIn(abc, "spawn")
      BY <1>8, <2>1 DEF MainLoop, Expirer
    <2>3. \A i, j \in DOMAIN d : d[i].name = d[j].name => i = j
      BY <1>8
    <2> QED  BY <1>8, <1>11, <2>2, <2>3, Joined, JoinedInOrder
  <1>14. /\ NamesIn(d, "spawn") = (IF HasDeferred(methods) THEN {Expirer} ELSE {})
         /\ NamesIn(d, "subscribe") = {}
    BY <1>8 DEF NamesIn
  <1> HIDE DEF abcd
  <1>15. /\ q \in Seq(Statement) /\ InOrder(q) /\ Once(q) /\ NoPush(q)
         /\ \A what \in Kinds :
               NamesIn(q, what) = NamesIn(abcd, what) \cup NamesIn(e, what)
    <2>1. NamesIn(abcd, "spawn") = {MainLoop} \cup (IF HasDeferred(methods) THEN {Expirer} ELSE {})
      BY <1>10, <1>11, <1>12, <1>13, <1>14 DEF Kinds
    <2>2. \A i \in DOMAIN e : e[i].do = "spawn" /\ e[i].name \notin NamesIn(abcd, "spawn")
      BY <1>1, <1>9, <2>1, MethodNames
    <2>3. \A i, j \in DOMAIN e : e[i].name = e[j].name => i = j
      BY <1>1, <1>9 DEF NamesDistinct
    <2>4. q = abcd \o e
      BY <1>2 DEF ab, abc, abcd
    <2> QED  BY <1>9, <1>13, <2>2, <2>3, <2>4, Joined, JoinedInOrder
  <1>16. /\ NamesIn(e, "spawn") = {tasks[i].name : i \in DOMAIN tasks}
         /\ NamesIn(e, "subscribe") = {}
    BY <1>9 DEF NamesIn
  <1>17. {tasks[i].name : i \in DOMAIN tasks} = {t.name : t \in ToSet(tasks)}
    BY DEF ToSet
  <1>18. {ins[i].name : i \in DOMAIN ins} = {m.name : m \in ToSet(ins)}
    BY DEF ToSet
  <1>19. NamesIn(q, "subscribe") = Wanted(methods)
    <2>1. NamesIn(q, "subscribe") = {ins[i].name : i \in DOMAIN ins}
      BY <1>10, <1>11, <1>12, <1>13, <1>14, <1>15, <1>16 DEF Kinds
    <2> QED  BY <1>18, <2>1 DEF Wanted, ins
  <1>20. NamesIn(q, "spawn") = AllTasks(methods)
    <2>1. NamesIn(q, "spawn")
             = {MainLoop} \cup (IF HasDeferred(methods) THEN {Expirer} ELSE {})
               \cup {tasks[i].name : i \in DOMAIN tasks}
      BY <1>10, <1>11, <1>12, <1>13, <1>14, <1>15, <1>16 DEF Kinds
    <2> QED  BY <1>17, <2>1 DEF AllTasks, tasks
  <1>21. NamesIn(q, "seed") # {} /\ NamesIn(q, "cells") # {}
    BY <1>10, <1>11, <1>13, <1>15 DEF Kinds
  <1>22. NamesIn(q, "push") = {}
    BY <1>15 DEF NamesIn, NoPush
  <1> QED  BY <1>15, <1>19, <1>20, <1>21, <1>22

LEMMA Appended ==
  ASSUME NEW T, NEW l \in Seq(T), NEW x \in T
  PROVE  /\ Append(l, x) \in Seq(T) /\ Append(l, x) # <<>>
         /\ DOMAIN Append(l, x) = DOMAIN l \cup {Len(l) + 1} /\ Len(l) + 1 \notin DOMAIN l
         /\ \A i \in DOMAIN l : Append(l, x)[i] = l[i]
         /\ Append(l, x)[Len(l) + 1] = x
         /\ ToSet(Append(l, x)) = ToSet(l) \cup {x}
         /\ IsInjective(l) /\ x \notin ToSet(l) => IsInjective(Append(l, x))
  <1> DEFINE r == Append(l, x)
             n == Len(l)
  <1>1. /\ r \in Seq(T) /\ r # <<>> /\ n \in Nat /\ DOMAIN l = 1 .. n /\ DOMAIN r = 1 .. n+1
        /\ r[n+1] = x /\ \A i \in 1 .. n : r[i] = l[i]
    BY AppendProperties, LenProperties, EmptySeq
  <1> HIDE DEF r, n
  <1>2. DOMAIN r = DOMAIN l \cup {n + 1} /\ n + 1 \notin DOMAIN l
    BY <1>1
  <1>3. ToSet(r) = ToSet(l) \cup {x}
    BY <1>1, <1>2 DEF ToSet
  <1>4. IsInjective(l) /\ x \notin ToSet(l) => IsInjective(r)
    BY <1>1, <1>2 DEF ToSet, IsInjective
  <1> QED  BY <1>1, <1>2, <1>3, <1>4 DEF r, n

------------------------------------------------------------------------------
(* Spawning.  What is left to be done, and what has been, make up the whole. *)
Given == Arguments \cup {NoArgument}

SpawnTypes ==
    /\ program \in Programs
    /\ todo \in Seq(Statement) /\ InOrder(todo) /\ Once(todo)
    /\ started \in Seq([task : Names, given : Given])
    /\ pushed \in Seq(Names)

Before == phase \notin {"spawning", "running"} =>
    todo = <<>> /\ started = <<>> /\ pushed = <<>>

After == phase = "running" => todo = <<>>

Meanwhile == phase \in {"spawning", "running"} =>
    /\ armed = ContextTasks(methods)
    /\ NamesIn(todo, "seed") = {} => (Args(s).view => seeded)
    /\ NamesIn(todo, "cells") = {} => sampled = GaugeCells(s, cell)
    /\ Wanted(methods) \subseteq inputs \cup NamesIn(todo, "subscribe")
    /\ Started = ToSet(pushed) \cup NamesIn(todo, "push")
    /\ AllTasks(methods) = Started \cup NamesIn(todo, "spawn")
    /\ IsInjective(pushed)
    /\ \A what \in Starting : NamesIn(todo, what) \cap ToSet(pushed) = {}
    /\ started # <<>> => \A i \in DOMAIN todo : todo[i].do \in Starting

Handed ==
    /\ phase \in {"owned", "spawning", "running"} =>
          /\ ctx \in [ContextTasks(methods) -> Given]
          /\ passed \in [ContextTasks(methods) -> Given]
          /\ armed \subseteq ContextTasks(methods)
          /\ \A t \in armed : ctx[t] = passed[t] /\ ctx[t] \in Arguments
    /\ phase \notin {"owned", "spawning", "running"} => armed = {}
    /\ \A i \in DOMAIN started :
          started[i].task \in ContextTasks(methods) =>
              /\ started[i].given \in Arguments
              /\ started[i].given = passed[started[i].task]

SpawnInv == SpawnTypes /\ Before /\ After /\ Meanwhile /\ Handed

LEMMA SpawnInit == Init => SpawnInv
  <1> SUFFICES ASSUME Init PROVE SpawnInv
    OBVIOUS
  <1>1. <<>> \in Seq(Statement) /\ InOrder(<<>>) /\ Once(<<>>)
    BY EmptySeq DEF InOrder, Once
  <1>2. <<>> \in Seq([task : Names, given : Given]) /\ <<>> \in Seq(Names)
    BY EmptySeq
  <1>3. SpawnTypes
    BY <1>1, <1>2 DEF Init, SpawnTypes
  <1>4. Before /\ After /\ Meanwhile
    BY DEF Init, Before, After, Meanwhile
  <1>5. Handed
    BY DEF Init, Handed
  <1> QED  BY <1>3, <1>4, <1>5 DEF SpawnInv

(* Nothing here depends on the gauges' values or on the commands.           *)
LEMMA SpawnStutter ==
  ASSUME SpawnInv, UNCHANGED <<program, phase, cell, armed, ctx, passed, todo, seeded,
                               sampled, inputs, started, pushed>>
  PROVE  SpawnInv'
  <1>1. methods' = methods /\ s' = s /\ Started' = Started
    BY DEF methods, s, Started
  <1>2. SpawnTypes' /\ Before' /\ After'
    BY DEF SpawnInv, SpawnTypes, Before, After
  <1>3. Handed'
    BY <1>1 DEF SpawnInv, Handed
  <1>4. Meanwhile'
    BY <1>1 DEF SpawnInv, Meanwhile
  <1> QED  BY <1>2, <1>3, <1>4 DEF SpawnInv

(* Until it is being spawned.                                               *)
LEMMA SpawnEarly ==
  ASSUME SpawnInv, UNCHANGED <<program, todo, started, pushed>>,
         phase \notin {"spawning", "running"}, phase' \notin {"spawning", "running"},
         Handed'
  PROVE  SpawnInv'
  BY DEF SpawnInv, SpawnTypes, Before, After, Meanwhile

LEMMA SpawnMacros ==
  ASSUME SpawnInv, Expand \/ New \/ (\E g \in DOMAIN cell : Replace(g))
  PROVE  SpawnInv'
  <1>0. methods' = methods /\ program' = program
    BY DEF methods, Expand, New, Replace, compiler
  <1>1. CASE Expand
    <2>1. phase' \in {"refused", "uncompilable", "compiled"} /\ phase = "source"
      BY <1>1 DEF Expand
    <2>2. UNCHANGED <<armed, ctx, passed, todo, started, pushed>>
      BY <1>1 DEF Expand, builder, spawning
    <2>3. Handed'
      BY <1>0, <2>1, <2>2 DEF SpawnInv, Handed
    <2> QED  BY <1>0, <2>1, <2>2, <2>3, SpawnEarly
  <1>2. CASE New
    <2>1. phase = "compiled" /\ phase' = "owned"
      BY <1>2 DEF New
    <2>2. /\ UNCHANGED <<armed, todo, started, pushed>> /\ armed = {}
          /\ started = <<>> /\ DOMAIN started = {}
      BY <1>2, <2>1 DEF New, spawning, SpawnInv, Before, Handed
    <2>3. /\ ctx' = [t \in ContextTasks(methods) |-> NoArgument] /\ passed' = ctx'
          /\ ctx' \in [ContextTasks(methods) -> Given]
      BY <1>2 DEF New, Given
    <2>4. Handed'
      BY <1>0, <2>1, <2>2, <2>3 DEF Handed
    <2> QED  BY <1>0, <2>1, <2>2, <2>4, SpawnEarly
  <1>3. CASE \E g \in DOMAIN cell : Replace(g)
    <2>1. phase = "owned" /\ phase' = "owned"
      BY <1>3 DEF Replace
    <2>2. UNCHANGED <<armed, ctx, passed, todo, started, pushed>>
      BY <1>3 DEF Replace, builder, spawning
    <2>3. Handed'
      BY <1>0, <2>1, <2>2 DEF SpawnInv, Handed
    <2> QED  BY <1>0, <2>1, <2>2, <2>3, SpawnEarly
  <1> QED  BY <1>1, <1>2, <1>3

LEMMA SpawnArm ==
  ASSUME SpawnInv, NEW t \in ContextTasks(methods), NEW a \in Arguments,
         ArmFirst(t, a) \/ ArmNext(t, a)
  PROVE  SpawnInv'
  <1>0. methods' = methods /\ program' = program
    BY DEF methods, ArmFirst, ArmNext, compiler
  <1>1. /\ phase = "owned" /\ phase' = "owned"
        /\ UNCHANGED <<todo, started, pushed>>
    BY DEF ArmFirst, ArmNext, spawning
  <1>2. /\ ctx \in [ContextTasks(methods) -> Given]
        /\ passed \in [ContextTasks(methods) -> Given]
        /\ armed \subseteq ContextTasks(methods)
        /\ \A u \in armed : ctx[u] = passed[u] /\ ctx[u] \in Arguments
        /\ started = <<>> /\ DOMAIN started = {}
    BY <1>1 DEF SpawnInv, Handed, Before
  <1>3. /\ passed' = [passed EXCEPT ![t] = a]
        /\ passed' \in [ContextTasks(methods) -> Given]
    BY <1>2 DEF ArmFirst, ArmNext, Given
  <1>4. /\ ctx' \in [ContextTasks(methods) -> Given]
        /\ armed' \subseteq ContextTasks(methods)
        /\ \A u \in armed' : ctx'[u] = passed'[u] /\ ctx'[u] \in Arguments
    <2>1. CASE ArmFirst(t, a)
      <3>1. /\ armed' = {t}
            /\ ctx' = [u \in ContextTasks(methods) |-> IF u = t THEN a ELSE NoArgument]
        BY <2>1 DEF ArmFirst
      <3> QED  BY <1>2, <1>3, <3>1 DEF Given
    <2>2. CASE ArmNext(t, a)
      <3>1. armed' = armed \cup {t} /\ ctx' = [ctx EXCEPT ![t] = a]
        BY <2>2 DEF ArmNext
      <3> QED  BY <1>2, <1>3, <3>1 DEF Given
    <2> QED  BY <2>1, <2>2
  <1>5. Handed'
    BY <1>0, <1>1, <1>2, <1>3, <1>4 DEF Handed
  <1> QED  BY <1>0, <1>1, <1>5, SpawnEarly

LEMMA SpawnBegin ==
  ASSUME SpawnInv, BeginSpawn PROVE SpawnInv'
  <1> DEFINE q == SpawnCore \o TaskSpawns
  <1>0. /\ methods' = methods /\ program' = program /\ s' = s /\ Started' = Started
        /\ phase = "owned" /\ phase' = "spawning" /\ todo' = q
        /\ UNCHANGED <<cell, armed, ctx, passed, seeded, sampled, inputs, started, pushed>>
    BY DEF methods, s, Started, BeginSpawn, compiler, owner, builder
  <1>1. program \in Programs /\ started = <<>> /\ pushed = <<>> /\ todo = <<>>
        /\ armed = ContextTasks(methods)
    BY <1>0 DEF SpawnInv, SpawnTypes, Before, BeginSpawn
  <1>2. PICK r : r = q
    OBVIOUS
  <1> HIDE DEF q
  <1>3. /\ r \in Seq(Statement) /\ InOrder(r) /\ Once(r)
        /\ NamesIn(r, "seed") # {} /\ NamesIn(r, "cells") # {}
        /\ NamesIn(r, "subscribe") = Wanted(methods)
        /\ NamesIn(r, "spawn") = AllTasks(methods)
        /\ NamesIn(r, "push") = {}
    BY <1>1, <1>2, FirstStatements DEF q
  <1>4. todo' = r
    BY <1>0, <1>2
  <1>5. SpawnTypes'
    BY <1>0, <1>3, <1>4 DEF SpawnInv, SpawnTypes
  <1>6. Before' /\ After'
    BY <1>0 DEF Before, After
  <1>7. Handed'
    BY <1>0 DEF SpawnInv, Handed
  <1>8. Meanwhile'
    <2>1. Started = {} /\ ToSet(pushed) = {} /\ IsInjective(pushed)
      BY <1>1 DEF Started, ToSet, IsInjective
    <2> QED  BY <1>0, <1>1, <1>3, <1>4, <2>1 DEF Meanwhile
  <1> QED  BY <1>5, <1>6, <1>7, <1>8 DEF SpawnInv

(* The first statements, before anything is spawned.                        *)
LEMMA SpawnPrepare ==
  ASSUME SpawnInv, Seed \/ TakeCells \/ Subscribe PROVE SpawnInv'
  <1>0. /\ methods' = methods /\ program' = program /\ s' = s
        /\ phase = "spawning" /\ phase' = "spawning" /\ todo # <<>> /\ todo' = Tail(todo)
        /\ Head(todo).do \in {"seed", "cells", "subscribe"}
        /\ UNCHANGED <<cell, armed, ctx, passed, started, pushed>>
    BY DEF methods, s, Seed, TakeCells, Subscribe, Step, compiler, owner, builder
  <1>1. PICK q : q = todo
    OBVIOUS
  <1>2. /\ q \in Seq(Statement) /\ q # <<>> /\ InOrder(q) /\ Once(q)
        /\ DOMAIN q = 1 .. Len(q) /\ Len(q) \in Nat /\ Len(q) >= 1 /\ Head(q) = q[1]
        /\ Tail(q) \in Seq(Statement)
    BY <1>0, <1>1, TailIs DEF SpawnInv, SpawnTypes
  <1>3. PICK r : r = Tail(q)
    OBVIOUS
  <1>4. /\ r \in Seq(Statement) /\ InOrder(r) /\ Once(r) /\ todo' = r
        /\ \A what \in Kinds : NamesIn(q, what) = NamesIn(r, what)
              \cup (IF Head(q).do = what THEN {Head(q).name} ELSE {})
    BY <1>0, <1>1, <1>2, <1>3, TailKeeps
  <1>5. started = <<>>
    <2>1. 1 \in DOMAIN todo /\ todo[1].do \notin Starting
      BY <1>0, <1>1, <1>2 DEF Starting
    <2> QED  BY <1>0, <2>1 DEF SpawnInv, Meanwhile
  <1>6. SpawnTypes' /\ Before' /\ After' /\ Handed'
    BY <1>0, <1>4 DEF SpawnInv, SpawnTypes, Before, After, Handed
  <1>7. /\ NamesIn(r, "spawn") = NamesIn(q, "spawn")
        /\ NamesIn(r, "push") = NamesIn(q, "push")
    BY <1>0, <1>1, <1>4 DEF Kinds
  <1>8. NamesIn(r, "seed") = {} => (Args(s).view => seeded')
    <2>1. CASE Seed
      <3>1. Args(s).view => seeded'
        BY <2>1 DEF Seed, Hidden
      <3> QED  BY <3>1
    <2>2. CASE TakeCells \/ Subscribe
      <3>1. seeded' = seeded /\ Head(q).do # "seed"
        BY <1>1, <2>2 DEF TakeCells, Subscribe, Step
      <3>2. NamesIn(r, "seed") = NamesIn(q, "seed")
        BY <1>4, <3>1 DEF Kinds
      <3> QED  BY <1>0, <1>1, <3>1, <3>2 DEF SpawnInv, Meanwhile
    <2> QED  BY <2>1, <2>2
  <1>9. NamesIn(r, "cells") = {} => sampled' = GaugeCells(s, cell)
    <2>1. CASE TakeCells
      BY <2>1 DEF TakeCells
    <2>2. CASE Seed \/ Subscribe
      <3>1. sampled' = sampled /\ Head(q).do # "cells"
        BY <1>1, <2>2 DEF Seed, Subscribe, Step
      <3>2. NamesIn(r, "cells") = NamesIn(q, "cells")
        BY <1>4, <3>1 DEF Kinds
      <3> QED  BY <1>0, <1>1, <3>1, <3>2 DEF SpawnInv, Meanwhile
    <2> QED  BY <2>1, <2>2
  <1>10. Wanted(methods) \subseteq inputs' \cup NamesIn(r, "subscribe")
    <2>1. Wanted(methods) \subseteq inputs \cup NamesIn(q, "subscribe")
      BY <1>0, <1>1 DEF SpawnInv, Meanwhile
    <2>2. inputs \cup NamesIn(q, "subscribe") \subseteq inputs' \cup NamesIn(r, "subscribe")
      <3>1. CASE Subscribe
        <4>1. inputs' = inputs \cup {Head(q).name}
          BY <1>1, <3>1 DEF Subscribe
        <4> QED  BY <1>4, <4>1 DEF Kinds
      <3>2. CASE Seed \/ TakeCells
        <4>1. inputs' = inputs /\ Head(q).do # "subscribe"
          BY <1>1, <3>2 DEF Seed, TakeCells, Step
        <4> QED  BY <1>4, <4>1 DEF Kinds
      <3> QED  BY <3>1, <3>2
    <2> QED  BY <2>1, <2>2
  <1>11. Meanwhile'
    <2>1. Started' = Started
      BY <1>0 DEF Started
    <2>2. /\ armed = ContextTasks(methods)
          /\ Started = ToSet(pushed) \cup NamesIn(r, "push")
          /\ AllTasks(methods) = Started \cup NamesIn(r, "spawn")
          /\ IsInjective(pushed)
          /\ \A what \in Starting : NamesIn(r, what) \cap ToSet(pushed) = {}
      BY <1>0, <1>1, <1>7 DEF SpawnInv, Meanwhile, Starting
    <2> QED  BY <1>0, <1>4, <1>5, <1>8, <1>9, <1>10, <2>1, <2>2 DEF Meanwhile
  <1> QED  BY <1>6, <1>11 DEF SpawnInv

LEMMA SpawnSpawns ==
  ASSUME SpawnInv, SpawnTask PROVE SpawnInv'
  <1>0. /\ methods' = methods /\ program' = program /\ s' = s
        /\ phase = "spawning" /\ phase' = "spawning" /\ todo # <<>>
        /\ Head(todo).do = "spawn" /\ todo' = [todo EXCEPT ![1].do = "push"]
        /\ UNCHANGED <<cell, armed, ctx, passed, seeded, sampled, inputs, pushed>>
    BY DEF methods, s, SpawnTask, Step, compiler, owner, builder
  <1>1. PICK q : q = todo
    OBVIOUS
  <1>2. PICK r : r = [q EXCEPT ![1].do = "push"]
    OBVIOUS
  <1>3. PICK name : name = Head(q).name
    OBVIOUS
  <1>4. /\ q \in Seq(Statement) /\ q # <<>> /\ InOrder(q) /\ Once(q)
        /\ DOMAIN q = 1 .. Len(q) /\ Head(q) = q[1] /\ name \in Names
    BY <1>0, <1>1, <1>3, TailIs DEF SpawnInv, SpawnTypes, Statement
  <1>5. /\ r \in Seq(Statement) /\ r # <<>> /\ InOrder(r) /\ Once(r) /\ todo' = r
        /\ \A i \in DOMAIN r : r[i].do \in Starting
        /\ NamesIn(q, "push") = {}
        /\ NamesIn(r, "push") = {name}
        /\ NamesIn(q, "spawn") = NamesIn(r, "spawn") \cup {name}
    BY <1>0, <1>1, <1>2, <1>3, <1>4, Pushing
  <1>6. \A what \in Kinds \ Starting : NamesIn(q, what) = {}
    <2>1. 1 \in DOMAIN q /\ q[1].do = "spawn" /\ Len(q) \in Nat
      BY <1>0, <1>1, <1>4, TailIs
    <2>2. \A i \in DOMAIN q : i # 1 => q[i].do = "spawn"
      BY <1>4, <2>1 DEF InOrder, Starting
    <2> QED  BY <2>1, <2>2 DEF NamesIn, Kinds, Starting
  <1>7. PICK given : given = IF name \in ContextTasks(methods) THEN ctx[name] ELSE NoArgument
    OBVIOUS
  <1>8. /\ started' = Append(started, [task |-> name, given |-> given])
        /\ armed = ContextTasks(methods)
        /\ given \in Given
        /\ name \in ContextTasks(methods) => given \in Arguments /\ given = passed[name]
    <2>1. started' = Append(started, [task |-> name, given |-> given])
      BY <1>1, <1>3, <1>7 DEF SpawnTask
    <2>2. armed = ContextTasks(methods)
      BY <1>0 DEF SpawnInv, Meanwhile
    <2> QED  BY <1>0, <1>7, <2>1, <2>2 DEF SpawnInv, Handed, Given
  <1>9. PICK one : one = [task |-> name, given |-> given]
    OBVIOUS
  <1>10. /\ one \in [task : Names, given : Given] /\ one.task = name /\ one.given = given
    BY <1>4, <1>8, <1>9
  <1>11. /\ started' \in Seq([task : Names, given : Given])
         /\ DOMAIN started' = DOMAIN started \cup {Len(started) + 1}
         /\ \A i \in DOMAIN started : started'[i] = started[i]
         /\ started'[Len(started) + 1] = one
    BY <1>8, <1>9, <1>10, Appended DEF SpawnInv, SpawnTypes
  <1>12. Started' = Started \cup {name}
    BY <1>10, <1>11 DEF Started
  <1>13. SpawnTypes' /\ Before' /\ After'
    BY <1>0, <1>5, <1>11 DEF SpawnInv, SpawnTypes, Before, After
  <1>14. Handed'
    BY <1>0, <1>8, <1>10, <1>11 DEF SpawnInv, Handed
  <1>15. Meanwhile'
    <2>1. /\ (Args(s).view => seeded) /\ sampled = GaugeCells(s, cell)
          /\ Wanted(methods) \subseteq inputs
      BY <1>0, <1>1, <1>6 DEF SpawnInv, Meanwhile, Kinds, Starting
    <2>2. /\ Started = ToSet(pushed)
          /\ AllTasks(methods) = Started \cup NamesIn(r, "spawn") \cup {name}
          /\ IsInjective(pushed)
          /\ NamesIn(r, "spawn") \cap ToSet(pushed) = {} /\ name \notin ToSet(pushed)
      BY <1>0, <1>1, <1>5 DEF SpawnInv, Meanwhile, Starting
    <2> QED  BY <1>0, <1>5, <1>8, <1>12, <2>1, <2>2 DEF Meanwhile, Starting
  <1> QED  BY <1>13, <1>14, <1>15 DEF SpawnInv

LEMMA SpawnPushes ==
  ASSUME SpawnInv, PushTask PROVE SpawnInv'
  <1>0. /\ methods' = methods /\ program' = program /\ s' = s /\ Started' = Started
        /\ phase = "spawning" /\ phase' = "spawning" /\ todo # <<>>
        /\ Head(todo).do = "push" /\ todo' = Tail(todo)
        /\ pushed' = Append(pushed, Head(todo).name)
        /\ UNCHANGED <<cell, armed, ctx, passed, seeded, sampled, inputs, started>>
    BY DEF methods, s, Started, PushTask, Step, compiler, owner, builder
  <1>1. PICK q : q = todo
    OBVIOUS
  <1>2. PICK r : r = Tail(q)
    OBVIOUS
  <1>3. PICK name : name = Head(q).name
    OBVIOUS
  <1>4. /\ q \in Seq(Statement) /\ q # <<>> /\ InOrder(q) /\ Once(q)
        /\ r \in Seq(Statement) /\ name \in Names
    BY <1>0, <1>1, <1>2, <1>3, TailIs DEF SpawnInv, SpawnTypes, Statement
  <1>5. /\ InOrder(r) /\ Once(r) /\ todo' = r
        /\ \A what \in Kinds : NamesIn(q, what)
              = NamesIn(r, what) \cup (IF what = "push" THEN {name} ELSE {})
        /\ \A i \in DOMAIN r : r[i].do = "spawn"
        /\ \A what \in Starting : name \notin NamesIn(r, what)
    BY <1>0, <1>1, <1>2, <1>3, <1>4, TailKeeps DEF Starting
  <1>6. NamesIn(r, "push") = {}
    BY <1>5 DEF NamesIn
  <1>7. /\ name \in NamesIn(q, "push") /\ NamesIn(q, "push") = {name}
        /\ \A what \in Kinds \ {"push"} : NamesIn(q, what) = NamesIn(r, what)
    BY <1>5, <1>6 DEF Kinds
  <1>8. name \notin ToSet(pushed) /\ pushed \in Seq(Names) /\ IsInjective(pushed)
    BY <1>0, <1>1, <1>7 DEF SpawnInv, SpawnTypes, Meanwhile, Starting
  <1>9. /\ pushed' \in Seq(Names) /\ ToSet(pushed)' = ToSet(pushed) \cup {name}
        /\ IsInjective(pushed')
    BY <1>0, <1>1, <1>3, <1>4, <1>8, Appended
  <1>10. SpawnTypes' /\ Before' /\ After' /\ Handed'
    BY <1>0, <1>4, <1>5, <1>9 DEF SpawnInv, SpawnTypes, Before, After, Handed
  <1>11. Meanwhile'
    <2>1. /\ armed = ContextTasks(methods)
          /\ NamesIn(r, "seed") = {} => (Args(s).view => seeded)
          /\ NamesIn(r, "cells") = {} => sampled = GaugeCells(s, cell)
          /\ Wanted(methods) \subseteq inputs \cup NamesIn(r, "subscribe")
          /\ Started = ToSet(pushed) \cup {name}
          /\ AllTasks(methods) = Started \cup NamesIn(r, "spawn")
          /\ NamesIn(r, "spawn") \cap ToSet(pushed) = {}
      BY <1>0, <1>1, <1>7 DEF SpawnInv, Meanwhile, Kinds, Starting
    <2>2. NamesIn(r, "spawn") \cap (ToSet(pushed) \cup {name}) = {}
      BY <1>5, <2>1 DEF Starting
    <2>3. \A i \in DOMAIN r : r[i].do \in Starting
      BY <1>5 DEF Starting
    <2> QED  BY <1>0, <1>5, <1>6, <1>9, <2>1, <2>2, <2>3 DEF Meanwhile, Starting
  <1> QED  BY <1>10, <1>11 DEF SpawnInv

LEMMA SpawnEnds ==
  ASSUME SpawnInv, SpawnReturns PROVE SpawnInv'
  <1>0. /\ methods' = methods /\ s' = s /\ Started' = Started
        /\ phase = "spawning" /\ phase' = "running" /\ todo = <<>>
        /\ UNCHANGED <<program, cell, armed, ctx, passed, todo, seeded, sampled, inputs,
                       started, pushed>>
    BY DEF methods, s, Started, SpawnReturns, compiler, owner, builder, spawning
  <1>1. SpawnTypes' /\ Before' /\ After' /\ Handed'
    BY <1>0 DEF SpawnInv, SpawnTypes, Before, After, Handed
  <1>2. Meanwhile'
    BY <1>0 DEF SpawnInv, Meanwhile
  <1> QED  BY <1>1, <1>2 DEF SpawnInv

LEMMA SpawnStep == SpawnInv /\ [Next]_vars => SpawnInv'
  <1> SUFFICES ASSUME SpawnInv, [Next]_vars PROVE SpawnInv'
    OBVIOUS
  <1>1. CASE Expand \/ New \/ (\E g \in DOMAIN cell : Replace(g))
    BY <1>1, SpawnMacros
  <1>2. CASE \E g \in DOMAIN cell : \E value \in Values(TypeOf(g)) : Store(g, value)
    BY <1>2, SpawnStutter DEF Store, compiler, builder, spawning
  <1>3. CASE \E t \in ContextTasks(methods), a \in Arguments : ArmFirst(t, a) \/ ArmNext(t, a)
    BY <1>3, SpawnArm
  <1>4. CASE BeginSpawn
    BY <1>4, SpawnBegin
  <1>5. CASE Seed \/ TakeCells \/ Subscribe
    BY <1>5, SpawnPrepare
  <1>6. CASE SpawnTask
    BY <1>6, SpawnSpawns
  <1>7. CASE PushTask
    BY <1>7, SpawnPushes
  <1>8. CASE SpawnReturns
    BY <1>8, SpawnEnds
  <1>9. CASE \/ \E name \in ToSet(NAMES(methods)) : Send(name)
             \/ Execute
             \/ UNCHANGED vars
    <2>1. UNCHANGED <<program, phase, cell, armed, ctx, passed, todo, seeded, sampled,
                      inputs, started, pushed>>
      BY <1>9 DEF Send, Execute, vars, compiler, owner, builder, spawning
    <2> QED  BY <2>1, SpawnStutter
  <1> QED  BY <1>1, <1>2, <1>3, <1>4, <1>5, <1>6, <1>7, <1>8, <1>9 DEF Next

LEMMA SpawnInvariant == Spec => []SpawnInv
  BY SpawnInit, SpawnStep, PTL DEF Spec

LEMMA SpawnConsequence == SpawnInv => SpawnIsWhole
  <1> SUFFICES ASSUME SpawnInv PROVE SpawnIsWhole
    OBVIOUS
  <1>0. program \in Programs
    BY DEF SpawnInv, SpawnTypes
  <1>1. started # <<>> =>
           /\ Args(s).view => seeded
           /\ \A m \in ToSet(methods) : RoleOf(m) \in {"from", "watch"} => m.name \in inputs
    <2> SUFFICES ASSUME started # <<>>
                 PROVE  /\ Args(s).view => seeded
                        /\ \A m \in ToSet(methods) :
                              RoleOf(m) \in {"from", "watch"} => m.name \in inputs
      OBVIOUS
    <2>1. phase \in {"spawning", "running"}
      BY DEF SpawnInv, Before
    <2>2. \A i \in DOMAIN todo : todo[i].do \in Starting
      BY <2>1 DEF SpawnInv, Meanwhile
    <2>3. NamesIn(todo, "seed") = {} /\ NamesIn(todo, "subscribe") = {}
      BY <2>2 DEF NamesIn, Starting
    <2>4. (Args(s).view => seeded) /\ Wanted(methods) \subseteq inputs
      BY <2>1, <2>3 DEF SpawnInv, Meanwhile
    <2> QED  BY <1>0, <2>4, InputsAre DEF Wanted, methods
  <1> DEFINE expirer == IF \E m \in ToSet(methods) : Deferred(m) THEN {Expirer} ELSE {}
             tasks == {m.name : m \in {t \in ToSet(methods) : RoleOf(t) = "task"}}
  <1>2. phase = "running" =>
           /\ IsInjective(pushed)
           /\ ToSet(pushed) = Started
           /\ Started = {MainLoop} \cup expirer \cup tasks
    <2> SUFFICES ASSUME phase = "running"
                 PROVE  /\ IsInjective(pushed) /\ ToSet(pushed) = Started
                        /\ Started = {MainLoop} \cup expirer \cup tasks
      BY Zenon
    <2>1. todo = <<>>
      BY DEF SpawnInv, After
    <2>2. NamesIn(todo, "push") = {} /\ NamesIn(todo, "spawn") = {}
      BY <2>1 DEF NamesIn
    <2>3. /\ IsInjective(pushed) /\ ToSet(pushed) = Started /\ Started = AllTasks(methods)
      BY <2>2 DEF SpawnInv, Meanwhile
    <2>4. ToSet(Tasks(methods)) = {t \in ToSet(methods) : RoleOf(t) = "task"}
      BY <1>0, ListedIs DEF Tasks, methods
    <2>5. HasDeferred(methods) <=> \E m \in ToSet(methods) : Deferred(m)
      BY DEF HasDeferred, ToSet
    <2>6. (IF HasDeferred(methods) THEN {Expirer} ELSE {}) = expirer
      BY <2>5
    <2>7. {t.name : t \in ToSet(Tasks(methods))} = tasks
      BY <2>4
    <2> HIDE DEF expirer, tasks
    <2> QED  BY <2>3, <2>6, <2>7 DEF AllTasks
  <1> QED  BY <1>1, <1>2 DEF SpawnInv, Handed, SpawnIsWhole

(* What SpawnIsWhole says, of every service: nothing runs before the view   *)
(* is seeded and every input is subscribed to; when spawn_with returns, the *)
(* loop, the expirer if there are deferred operations, and every task of    *)
(* the block have been spawned once, each is in the set to be waited for,   *)
(* and each context task was given what its spawn_<task> was called with,   *)
(* in whatever order the builder's methods were called                      *)
(* (handlers.rs:1134-1209, 1259-1281, 1340-1510).                           *)
THEOREM SpawnWhole == Spec => []SpawnIsWhole
  BY SpawnInvariant, SpawnConsequence, PTL

------------------------------------------------------------------------------
(* The numbering of commands and operations. *)
LEMMA FunctionSeq ==
  ASSUME NEW T, NEW n \in Nat, NEW f \in [1 .. n -> T]
  PROVE  f \in Seq(T) /\ Len(f) = n
  <1>1. f \in Seq(T)
    BY SeqDef
  <1>2. DOMAIN f = 1 .. n /\ DOMAIN f = 1 .. Len(f) /\ Len(f) \in Nat
    BY <1>1, LenProperties
  <1>3. ~(n < Len(f)) /\ ~(Len(f) < n)
    <2>1. n < Len(f) => Len(f) \in 1 .. Len(f) /\ Len(f) \notin 1 .. n
      BY <1>2
    <2>2. Len(f) < n => n \in 1 .. n /\ n \notin 1 .. Len(f)
      BY <1>2
    <2> QED  BY <1>2, <2>1, <2>2
  <1> QED  BY <1>1, <1>2, <1>3

Piece == [method : STRING, variant : STRING, idx : Nat]

Numbered(P, N) ==
    /\ P \in Seq(Piece) /\ Len(P) \in Nat /\ DOMAIN P = 1 .. Len(P)
    /\ \A i \in DOMAIN P : P[i].idx = i - 1
    /\ \A i, j \in DOMAIN P : P[i].method = P[j].method => i = j
    /\ DOMAIN N = DOMAIN P /\ \A i \in DOMAIN P : N[i] = P[i].method

LEMMA PiecesAre ==
  ASSUME NEW p \in Programs
  PROVE  Numbered(Pieces(p.methods), NAMES(p.methods))
  <1> DEFINE ms == p.methods
  <1>a. PICK P : P = Pieces(ms)
    OBVIOUS
  <1>b. PICK N : N = NAMES(ms)
    OBVIOUS
  <1> DEFINE cs == Listed(ms, "command")
             os == Listed(ms, "op")
             a == CommandPieces(ms)
             b == OpPieces(ms)
  <1>1. /\ cs \in Seq(MethodSource) /\ NamesDistinct(cs)
        /\ os \in Seq(MethodSource) /\ NamesDistinct(os)
        /\ ToSet(cs) = {m \in ToSet(ms) : RoleOf(m) = "command"}
        /\ ToSet(os) = {m \in ToSet(ms) : RoleOf(m) = "op"}
    BY ListedIs
  <1> HIDE DEF cs, os
  <1>2. /\ Len(cs) \in Nat /\ DOMAIN cs = 1 .. Len(cs)
        /\ Len(os) \in Nat /\ DOMAIN os = 1 .. Len(os)
        /\ \A i \in DOMAIN cs : cs[i] \in MethodSource
        /\ \A i \in DOMAIN os : os[i] \in MethodSource
    BY <1>1, LenProperties, ElementOfSeq
  <1>3. \A m \in MethodSource : m.name \in STRING /\ m.variant \in STRING
    BY DEF MethodSource
  <1>4. /\ a = [i \in 1 .. Len(cs) |-> [method |-> cs[i].name, variant |-> cs[i].variant,
                                        idx |-> i - 1]]
        /\ a \in [1 .. Len(cs) -> Piece]
    <2>1. \A i \in 1 .. Len(cs) :
             [method |-> cs[i].name, variant |-> cs[i].variant, idx |-> i - 1] \in Piece
      BY <1>2, <1>3 DEF Piece
    <2> QED  BY <1>2, <2>1 DEF CommandPieces, cs
  <1>5. /\ b = [i \in 1 .. Len(os) |-> [method |-> os[i].name, variant |-> os[i].variant,
                                        idx |-> Len(cs) + i - 1]]
        /\ b \in [1 .. Len(os) -> Piece]
    <2>1. \A i \in 1 .. Len(os) :
             [method |-> os[i].name, variant |-> os[i].variant, idx |-> Len(cs) + i - 1] \in Piece
      BY <1>2, <1>3 DEF Piece
    <2> QED  BY <1>2, <2>1 DEF OpPieces, os, cs
  <1>6. /\ a \in Seq(Piece) /\ Len(a) = Len(cs) /\ b \in Seq(Piece) /\ Len(b) = Len(os)
    BY <1>2, <1>4, <1>5, FunctionSeq
  <1>7. P = a \o b
    BY <1>a DEF Pieces
  <1> HIDE DEF a, b
  <1>8. /\ P \in Seq(Piece) /\ Len(P) = Len(cs) + Len(os) /\ DOMAIN P = 1 .. Len(P)
        /\ \A i \in 1 .. Len(P) : P[i] = IF i <= Len(cs) THEN a[i] ELSE b[i - Len(cs)]
    <2>1. /\ P \in Seq(Piece) /\ Len(P) = Len(a) + Len(b)
          /\ \A i \in 1 .. Len(a) + Len(b) : P[i] = IF i <= Len(a) THEN a[i] ELSE b[i - Len(a)]
      <3> HIDE DEF Piece
      <3>1. a \in Seq(Piece) /\ b \in Seq(Piece)
        BY <1>6
      <3> QED  BY <3>1, <1>7, ConcatProperties
    <2> QED  BY <1>6, <2>1, LenProperties
  <1>9. ASSUME NEW i \in 1 .. Len(P)
        PROVE  \/ /\ i \in 1 .. Len(cs)
                  /\ P[i].method = cs[i].name /\ P[i].idx = i - 1
               \/ /\ i - Len(cs) \in 1 .. Len(os) /\ i > Len(cs)
                  /\ P[i].method = os[i - Len(cs)].name /\ P[i].idx = i - 1
    <2>1. CASE i <= Len(cs)
      BY <1>2, <1>4, <1>8, <2>1
    <2>2. CASE ~(i <= Len(cs))
      <3>1. i - Len(cs) \in 1 .. Len(os) /\ P[i] = b[i - Len(cs)] /\ i > Len(cs)
        BY <1>2, <1>8, <2>2
      <3>2. Len(cs) + (i - Len(cs)) - 1 = i - 1
        BY <1>2
      <3> QED  BY <1>5, <3>1, <3>2
    <2> QED  BY <2>1, <2>2
  <1>10. \A i \in DOMAIN cs, j \in DOMAIN os : cs[i].name # os[j].name
    <2> SUFFICES ASSUME NEW i \in DOMAIN cs, NEW j \in DOMAIN os, cs[i].name = os[j].name
                 PROVE  FALSE
      OBVIOUS
    <2>1. /\ cs[i] \in ToSet(ms) /\ RoleOf(cs[i]) = "command"
          /\ os[j] \in ToSet(ms) /\ RoleOf(os[j]) = "op"
      <3>1. cs[i] \in ToSet(cs) /\ os[j] \in ToSet(os)
        BY DEF ToSet
      <3> QED  BY <1>1, <3>1
    <2>2. PICK k \in DOMAIN ms : ms[k] = cs[i]
      BY <2>1 DEF ToSet
    <2>3. PICK l \in DOMAIN ms : ms[l] = os[j]
      BY <2>1 DEF ToSet
    <2>4. k = l
      BY <2>2, <2>3, ProgramsAssumption DEF NamesDistinct
    <2> QED  BY <2>1, <2>2, <2>3, <2>4
  <1>11. ASSUME NEW i \in 1 .. Len(P), NEW j \in 1 .. Len(P), P[i].method = P[j].method
         PROVE  i = j
    <2>1. CASE i <= Len(cs) /\ j <= Len(cs)
      <3>1. i \in DOMAIN cs /\ j \in DOMAIN cs /\ cs[i].name = cs[j].name
        BY <1>2, <1>9, <1>11, <2>1
      <3> QED  BY <1>1, <3>1 DEF NamesDistinct
    <2>2. CASE ~(i <= Len(cs)) /\ ~(j <= Len(cs))
      <3>1. /\ i - Len(cs) \in DOMAIN os /\ j - Len(cs) \in DOMAIN os
            /\ os[i - Len(cs)].name = os[j - Len(cs)].name
        BY <1>2, <1>9, <1>11, <2>2
      <3>2. i - Len(cs) = j - Len(cs)
        BY <1>1, <3>1 DEF NamesDistinct
      <3> QED  BY <1>2, <3>2
    <2>3. CASE i <= Len(cs) /\ ~(j <= Len(cs))
      <3>1. /\ i \in DOMAIN cs /\ j - Len(cs) \in DOMAIN os
            /\ cs[i].name = os[j - Len(cs)].name
        BY <1>2, <1>9, <1>11, <2>3
      <3> QED  BY <1>10, <3>1
    <2>4. CASE ~(i <= Len(cs)) /\ j <= Len(cs)
      <3>1. /\ j \in DOMAIN cs /\ i - Len(cs) \in DOMAIN os
            /\ cs[j].name = os[i - Len(cs)].name
        BY <1>2, <1>9, <1>11, <2>4
      <3> QED  BY <1>10, <3>1
    <2> QED  BY <2>1, <2>2, <2>3, <2>4
  <1>12. DOMAIN N = DOMAIN P /\ \A i \in DOMAIN P : N[i] = P[i].method
    BY <1>a, <1>b DEF NAMES
  <1>13. \A i \in DOMAIN P : P[i].idx = i - 1
    BY <1>8, <1>9
  <1>14. Len(P) \in Nat
    BY <1>2, <1>8
  <1> QED  BY <1>a, <1>b, <1>8, <1>11, <1>12, <1>13, <1>14 DEF Numbered

(* The sender of a name and the arm of its variant are one piece. *)
LEMMA SenderIs ==
  ASSUME NEW p \in Programs, NEW i \in DOMAIN NAMES(p.methods)
  PROVE  /\ i \in DOMAIN Pieces(p.methods)
         /\ SenderOf(p.methods, NAMES(p.methods)[i]) = Pieces(p.methods)[i]
         /\ VariantsDistinct(p.methods) =>
               ArmOf(p.methods, Pieces(p.methods)[i].variant) = Pieces(p.methods)[i]
  <1> DEFINE ms == p.methods
             P == Pieces(ms)
             N == NAMES(ms)
  <1>1. /\ \A j, k \in DOMAIN P : P[j].method = P[k].method => j = k
        /\ DOMAIN N = DOMAIN P /\ \A j \in DOMAIN P : N[j] = P[j].method
    BY PiecesAre DEF Numbered
  <1>2. SenderOf(ms, N[i]) = CHOOSE x \in ToSet(P) : x.method = N[i]
    BY DEF SenderOf
  <1>3. ArmOf(ms, P[i].variant) = CHOOSE x \in ToSet(P) : x.variant = P[i].variant
    BY DEF ArmOf
  <1>4. VariantsDistinct(ms) =>
           \A j, k \in DOMAIN P : P[j].variant = P[k].variant => j = k
    BY DEF VariantsDistinct
  <1> HIDE DEF P, N, ms
  <1>5. P[i] \in ToSet(P) /\ P[i].method = N[i] /\ i \in DOMAIN P
    BY <1>1 DEF ToSet, N, ms
  <1>6. \A x \in ToSet(P) : x.method = N[i] => x = P[i]
    BY <1>1, <1>5 DEF ToSet
  <1>7. VariantsDistinct(ms) => \A x \in ToSet(P) : x.variant = P[i].variant => x = P[i]
    BY <1>4, <1>5 DEF ToSet
  <1> QED  BY <1>2, <1>3, <1>5, <1>6, <1>7 DEF P, N, ms

------------------------------------------------------------------------------
(* The counters.  What was sent is what was executed and then what is in    *)
(* the queue, each command under the variant of its sender.                 *)
Owned == {"owned", "spawning", "running"}
Variants(ms) == {p.variant : p \in ToSet(Pieces(ms))}
Calls(l, name) == Cardinality({j \in DOMAIN l : l[j] = name})

LEMMA NoCalls == \A name : Calls(<<>>, name) = 0
  BY FS_EmptySet DEF Calls

LEMMA CallsMore ==
  ASSUME NEW T, NEW l \in Seq(T), NEW x \in T, NEW name
  PROVE  /\ Calls(l, name) \in Nat
         /\ Calls(Append(l, x), name) = Calls(l, name) + (IF x = name THEN 1 ELSE 0)
  <1> DEFINE r == Append(l, x)
             n == Len(l)
             J == {j \in DOMAIN l : l[j] = name}
             K == {j \in DOMAIN r : r[j] = name}
  <1>1. /\ DOMAIN r = DOMAIN l \cup {n + 1} /\ n + 1 \notin DOMAIN l
        /\ \A i \in DOMAIN l : r[i] = l[i]
        /\ r[n + 1] = x
    BY Appended
  <1>2. IsFiniteSet(J) /\ Cardinality(J) \in Nat
    <2>1. DOMAIN l = 1 .. n /\ n \in Nat
      BY LenProperties
    <2>2. IsFiniteSet(1 .. n)
      BY <2>1, FS_Interval
    <2>3. J \in SUBSET (1 .. n)
      BY <2>1
    <2>4. IsFiniteSet(J)
      BY <2>2, <2>3, FS_Subset
    <2> QED  BY <2>4, FS_CardinalityType
  <1>3. K = IF x = name THEN J \cup {n + 1} ELSE J
    BY <1>1
  <1>4. n + 1 \notin J
    BY <1>1
  <1>5. Cardinality(J \cup {n + 1}) = Cardinality(J) + 1
    BY <1>2, <1>4, FS_AddElement
  <1>6. Calls(l, name) = Cardinality(J) /\ Calls(r, name) = Cardinality(K)
    BY DEF Calls
  <1> HIDE DEF J, K, r
  <1>7. CASE x = name
    BY <1>2, <1>3, <1>5, <1>6, <1>7 DEF r
  <1>8. CASE x # name
    BY <1>2, <1>3, <1>6, <1>8 DEF r
  <1> QED  BY <1>7, <1>8

CountTypes ==
    /\ program \in Programs
    /\ phase \in {"compiled"} \cup Owned => VariantsDistinct(methods)
    /\ sent \in Seq(ToSet(NAMES(methods)))
    /\ executed \in Seq(ToSet(NAMES(methods)))
    /\ queue \in Seq(Variants(methods))
    /\ enqueued \in [DOMAIN enqueued -> Nat] /\ processed \in [DOMAIN enqueued -> Nat]

Uncounted ==
    /\ phase \notin Owned => sent = <<>> /\ executed = <<>> /\ queue = <<>>
    /\ DOMAIN enqueued = IF phase \in Owned THEN DOMAIN NAMES(methods) ELSE {}

Underway ==
    /\ Len(sent) = Len(executed) + Len(queue)
    /\ \A j \in DOMAIN executed : executed[j] = sent[j]
    /\ \A j \in DOMAIN queue :
          queue[j] = SenderOf(methods, sent[Len(executed) + j]).variant

Counted ==
    \A i \in DOMAIN enqueued :
        /\ enqueued[i] = Calls(sent, NAMES(methods)[i])
        /\ processed[i] = Calls(executed, NAMES(methods)[i])

CountInv == CountTypes /\ Uncounted /\ Underway /\ Counted

LEMMA CountInit == Init => CountInv
  <1> SUFFICES ASSUME Init PROVE CountInv
    OBVIOUS
  <1>1. CountTypes
    <2>1. \A T : <<>> \in Seq(T)
      BY EmptySeq
    <2>2. DOMAIN <<>> = {} /\ <<>> \in [DOMAIN <<>> -> Nat]
      BY EmptySeq
    <2> QED  BY <2>1, <2>2 DEF Init, CountTypes, Owned
  <1>2. Uncounted /\ Underway /\ Counted
    <2>1. Len(<<>>) = 0 /\ DOMAIN <<>> = {}
      BY EmptySeq
    <2> QED  BY <2>1 DEF Init, Uncounted, Underway, Counted, Owned
  <1> QED  BY <1>1, <1>2 DEF CountInv

LEMMA CountStutter ==
  ASSUME CountInv, UNCHANGED <<program, commands>>,
         phase' \in {"compiled"} \cup Owned => VariantsDistinct(methods),
         phase' \in Owned <=> phase \in Owned
  PROVE  CountInv'
  <1>1. methods' = methods
    BY DEF methods
  <1> QED  BY <1>1 DEF CountInv, CountTypes, Uncounted, Underway, Counted, commands

LEMMA CountNew ==
  ASSUME CountInv, New PROVE CountInv'
  <1>0. /\ methods' = methods /\ program' = program /\ phase = "compiled" /\ phase' = "owned"
        /\ enqueued' = [i \in DOMAIN NAMES(methods) |-> 0] /\ processed' = enqueued'
        /\ UNCHANGED <<queue, sent, executed>>
    BY DEF methods, New, compiler
  <1>1. sent = <<>> /\ executed = <<>> /\ queue = <<>>
    BY <1>0 DEF CountInv, Uncounted, Owned
  <1>2. DOMAIN enqueued' = DOMAIN NAMES(methods) /\ \A i \in DOMAIN enqueued' : enqueued'[i] = 0
    BY <1>0
  <1>3. CountTypes'
    BY <1>0, <1>2 DEF CountInv, CountTypes, Owned
  <1>4. Uncounted' /\ Underway'
    BY <1>0, <1>2 DEF CountInv, Uncounted, Underway, Owned
  <1>5. Counted'
    BY <1>0, <1>1, <1>2, NoCalls DEF Counted
  <1> QED  BY <1>3, <1>4, <1>5 DEF CountInv

LEMMA HeldLate ==
  ASSUME SpawnInv, HandleHeld \/ MainLoop \in Started
  PROVE  phase \in {"spawning", "running"}
  BY DEF SpawnInv, Before, HandleHeld, Started

LEMMA CountSend ==
  ASSUME SpawnInv, CountInv, NEW name \in ToSet(NAMES(methods)), Send(name)
  PROVE  CountInv'
  <1>0. methods' = methods /\ UNCHANGED <<program, phase, executed, processed>>
    BY DEF methods, Send, compiler
  <1>1. phase \in Owned /\ program \in Programs /\ VariantsDistinct(methods)
    BY HeldLate DEF Send, CountInv, CountTypes, Owned
  <1>2. PICK N : N = NAMES(methods)
    OBVIOUS
  <1>3. PICK P : P = Pieces(methods)
    OBVIOUS
  <1>4. Numbered(P, N)
    BY <1>1, <1>2, <1>3, PiecesAre DEF methods
  <1>5. PICK i \in DOMAIN N : N[i] = name
    BY <1>2 DEF ToSet
  <1>6. SenderOf(methods, name) = P[i] /\ i \in DOMAIN P
    BY <1>1, <1>2, <1>3, <1>5, SenderIs DEF methods
  <1>7. P[i].variant \in Variants(methods) /\ P[i].idx + 1 = i
    <2>1. P[i] \in ToSet(P)
      BY <1>6 DEF ToSet
    <2> QED  BY <1>3, <1>4, <1>6, <2>1 DEF Variants, Numbered
  <1>8. /\ queue' = Append(queue, P[i].variant)
        /\ enqueued' = [enqueued EXCEPT ![i] = @ + 1]
        /\ sent' = Append(sent, name)
    BY <1>6, <1>7 DEF Send
  <1>9. /\ sent \in Seq(ToSet(N)) /\ executed \in Seq(ToSet(N)) /\ queue \in Seq(Variants(methods))
        /\ name \in ToSet(N)
        /\ DOMAIN enqueued = DOMAIN N /\ enqueued \in [DOMAIN N -> Nat]
        /\ processed \in [DOMAIN N -> Nat]
    BY <1>1, <1>2 DEF CountInv, CountTypes, Uncounted
  <1>10. /\ sent' \in Seq(ToSet(N)) /\ DOMAIN sent = 1 .. Len(sent) /\ Len(sent) \in Nat
         /\ Len(sent') = Len(sent) + 1 /\ sent'[Len(sent) + 1] = name
         /\ \A j \in 1 .. Len(sent) : sent'[j] = sent[j]
    BY <1>8, <1>9, AppendProperties, LenProperties
  <1>11. /\ queue' \in Seq(Variants(methods)) /\ DOMAIN queue = 1 .. Len(queue)
         /\ Len(queue) \in Nat /\ DOMAIN queue' = 1 .. Len(queue) + 1
         /\ Len(queue') = Len(queue) + 1 /\ queue'[Len(queue) + 1] = P[i].variant
         /\ \A j \in 1 .. Len(queue) : queue'[j] = queue[j]
    BY <1>7, <1>8, <1>9, AppendProperties, LenProperties
  <1>12. /\ DOMAIN enqueued' = DOMAIN N /\ enqueued' \in [DOMAIN N -> Nat]
         /\ \A k \in DOMAIN N : enqueued'[k] = IF k = i THEN enqueued[k] + 1 ELSE enqueued[k]
    BY <1>5, <1>8, <1>9
  <1>13. /\ Len(executed) \in Nat /\ DOMAIN executed = 1 .. Len(executed)
         /\ Len(sent) = Len(executed) + Len(queue)
         /\ \A j \in DOMAIN executed : executed[j] = sent[j]
         /\ \A j \in DOMAIN queue :
               queue[j] = SenderOf(methods, sent[Len(executed) + j]).variant
    BY <1>9, LenProperties DEF CountInv, Underway
  <1>14. CountTypes'
    BY <1>0, <1>1, <1>2, <1>9, <1>10, <1>11, <1>12 DEF CountTypes
  <1>15. Uncounted'
    BY <1>0, <1>1, <1>2, <1>12 DEF Uncounted
  <1>16. Underway'
    <2>1. Len(sent') = Len(executed) + Len(queue')
      BY <1>10, <1>11, <1>13
    <2>2. \A j \in DOMAIN executed : executed[j] = sent'[j]
      <3>1. \A j \in 1 .. Len(executed) : j \in 1 .. Len(sent)
        BY <1>11, <1>13
      <3> QED  BY <1>10, <1>13, <3>1
    <2>3. \A j \in DOMAIN queue' :
             queue'[j] = SenderOf(methods, sent'[Len(executed) + j]).variant
      <3> SUFFICES ASSUME NEW j \in 1 .. Len(queue) + 1
                   PROVE  queue'[j] = SenderOf(methods, sent'[Len(executed) + j]).variant
        BY <1>11
      <3>1. CASE j = Len(queue) + 1
        <4>1. Len(executed) + j = Len(sent) + 1
          BY <1>11, <1>13, <3>1
        <4> QED  BY <1>6, <1>10, <1>11, <3>1, <4>1
      <3>2. CASE j # Len(queue) + 1
        <4>1. j \in 1 .. Len(queue) /\ Len(executed) + j \in 1 .. Len(sent)
          BY <1>11, <1>13, <3>2
        <4> QED  BY <1>10, <1>11, <1>13, <4>1
      <3> QED  BY <3>1, <3>2
    <2> QED  BY <1>0, <2>1, <2>2, <2>3 DEF Underway
  <1>17. Counted'
    <2> SUFFICES ASSUME NEW k \in DOMAIN N
                 PROVE  /\ enqueued'[k] = Calls(sent', N[k])
                        /\ processed[k] = Calls(executed, N[k])
      BY <1>0, <1>2, <1>12 DEF Counted
    <2>1. /\ enqueued[k] = Calls(sent, N[k])
          /\ processed[k] = Calls(executed, N[k])
      BY <1>2, <1>9 DEF CountInv, Counted
    <2>2. /\ Calls(sent, N[k]) \in Nat
          /\ Calls(sent', N[k]) = Calls(sent, N[k]) + (IF name = N[k] THEN 1 ELSE 0)
      BY <1>8, <1>9, CallsMore
    <2>3. name = N[k] <=> k = i
      BY <1>4, <1>5 DEF Numbered
    <2> QED  BY <1>12, <2>1, <2>2, <2>3
  <1> QED  BY <1>14, <1>15, <1>16, <1>17 DEF CountInv

LEMMA CountExecute ==
  ASSUME SpawnInv, CountInv, Execute
  PROVE  CountInv'
  <1>0. methods' = methods /\ UNCHANGED <<program, phase, sent, enqueued>>
    BY DEF methods, Execute, compiler
  <1>1. phase \in Owned /\ program \in Programs /\ VariantsDistinct(methods)
    BY HeldLate DEF Execute, CountInv, CountTypes, Owned
  <1>2. PICK N : N = NAMES(methods)
    OBVIOUS
  <1>3. PICK P : P = Pieces(methods)
    OBVIOUS
  <1>4. Numbered(P, N)
    BY <1>1, <1>2, <1>3, PiecesAre DEF methods
  <1>5. /\ sent \in Seq(ToSet(N)) /\ executed \in Seq(ToSet(N)) /\ queue \in Seq(Variants(methods))
        /\ DOMAIN enqueued = DOMAIN N /\ enqueued \in [DOMAIN N -> Nat]
        /\ processed \in [DOMAIN N -> Nat] /\ queue # <<>>
    BY <1>1, <1>2 DEF CountInv, CountTypes, Uncounted, Execute
  <1>6. /\ Len(sent) \in Nat /\ DOMAIN sent = 1 .. Len(sent)
        /\ Len(executed) \in Nat /\ DOMAIN executed = 1 .. Len(executed)
        /\ Len(queue) \in Nat /\ DOMAIN queue = 1 .. Len(queue)
        /\ Len(queue) >= 1 /\ Head(queue) = queue[1]
        /\ Tail(queue) \in Seq(Variants(methods)) /\ Len(Tail(queue)) = Len(queue) - 1
        /\ \A j \in 1 .. Len(queue) - 1 : Tail(queue)[j] = queue[j+1]
        /\ DOMAIN Tail(queue) = 1 .. Len(queue) - 1
    <2>1. Len(queue) # 0
      BY <1>5, EmptySeq
    <2> QED  BY <1>5, <2>1, HeadTailProperties, LenProperties
  <1>7. /\ Len(sent) = Len(executed) + Len(queue)
        /\ \A j \in DOMAIN executed : executed[j] = sent[j]
        /\ \A j \in DOMAIN queue :
              queue[j] = SenderOf(methods, sent[Len(executed) + j]).variant
    BY DEF CountInv, Underway
  <1>8. PICK name : name = sent[Len(executed) + 1]
    OBVIOUS
  <1>9. name \in ToSet(N) /\ Head(queue) = SenderOf(methods, name).variant
    <2>1. Len(executed) + 1 \in DOMAIN sent /\ 1 \in DOMAIN queue
      BY <1>6, <1>7
    <2> QED  BY <1>5, <1>6, <1>7, <1>8, <2>1, ElementOfSeq
  <1>10. PICK i \in DOMAIN N : N[i] = name
    BY <1>9 DEF ToSet
  <1>11. /\ SenderOf(methods, name) = P[i] /\ i \in DOMAIN P
         /\ ArmOf(methods, P[i].variant) = P[i]
    BY <1>1, <1>2, <1>3, <1>10, SenderIs DEF methods
  <1>12. P[i].method = name /\ P[i].idx + 1 = i
    BY <1>4, <1>10, <1>11 DEF Numbered
  <1>13. /\ executed' = Append(executed, name)
         /\ processed' = [processed EXCEPT ![i] = @ + 1]
         /\ queue' = Tail(queue)
    BY <1>9, <1>11, <1>12 DEF Execute
  <1>14. /\ executed' \in Seq(ToSet(N)) /\ Len(executed') = Len(executed) + 1
         /\ DOMAIN executed' = 1 .. Len(executed) + 1
         /\ executed'[Len(executed) + 1] = name
         /\ \A j \in 1 .. Len(executed) : executed'[j] = executed[j]
    BY <1>5, <1>6, <1>9, <1>13, AppendProperties, LenProperties
  <1>15. /\ processed' \in [DOMAIN N -> Nat]
         /\ \A k \in DOMAIN N : processed'[k] = IF k = i THEN processed[k] + 1 ELSE processed[k]
    BY <1>5, <1>10, <1>13
  <1>16. CountTypes'
    BY <1>0, <1>1, <1>2, <1>5, <1>6, <1>13, <1>14, <1>15 DEF CountTypes
  <1>17. Uncounted'
    BY <1>0, <1>1, <1>2, <1>5 DEF Uncounted
  <1>18. Underway'
    <2>1. Len(sent) = Len(executed') + Len(queue')
      BY <1>6, <1>7, <1>13, <1>14
    <2>2. \A j \in DOMAIN executed' : executed'[j] = sent[j]
      <3> SUFFICES ASSUME NEW j \in 1 .. Len(executed) + 1 PROVE executed'[j] = sent[j]
        BY <1>14
      <3>1. CASE j = Len(executed) + 1
        BY <1>8, <1>14, <3>1
      <3>2. CASE j # Len(executed) + 1
        <4>1. j \in 1 .. Len(executed)
          BY <1>6, <3>2
        <4> QED  BY <1>6, <1>7, <1>14, <4>1
      <3> QED  BY <3>1, <3>2
    <2>3. \A j \in DOMAIN queue' :
             queue'[j] = SenderOf(methods, sent[Len(executed') + j]).variant
      <3> SUFFICES ASSUME NEW j \in 1 .. Len(queue) - 1
                   PROVE  queue'[j] = SenderOf(methods, sent[Len(executed') + j]).variant
        BY <1>6, <1>13
      <3>1. /\ j + 1 \in DOMAIN queue /\ queue'[j] = queue[j+1]
            /\ Len(executed') + j = Len(executed) + (j + 1)
        BY <1>6, <1>13, <1>14
      <3>2. queue[j+1] = SenderOf(methods, sent[Len(executed) + (j + 1)]).variant
        BY <1>7, <3>1
      <3> QED  BY <3>1, <3>2
    <2> QED  BY <1>0, <2>1, <2>2, <2>3 DEF Underway
  <1>19. Counted'
    <2> SUFFICES ASSUME NEW k \in DOMAIN N
                 PROVE  /\ enqueued[k] = Calls(sent, N[k])
                        /\ processed'[k] = Calls(executed', N[k])
      BY <1>0, <1>2, <1>5 DEF Counted
    <2>1. /\ enqueued[k] = Calls(sent, N[k])
          /\ processed[k] = Calls(executed, N[k])
      BY <1>2, <1>5 DEF CountInv, Counted
    <2>2. /\ Calls(executed, N[k]) \in Nat
          /\ Calls(executed', N[k]) = Calls(executed, N[k]) + (IF name = N[k] THEN 1 ELSE 0)
      BY <1>5, <1>9, <1>13, CallsMore
    <2>3. name = N[k] <=> k = i
      BY <1>4, <1>10 DEF Numbered
    <2> QED  BY <1>15, <2>1, <2>2, <2>3
  <1> QED  BY <1>16, <1>17, <1>18, <1>19 DEF CountInv

LEMMA CountStep == SpawnInv /\ CountInv /\ [Next]_vars => CountInv'
  <1> SUFFICES ASSUME SpawnInv, CountInv, [Next]_vars PROVE CountInv'
    OBVIOUS
  <1>1. CASE Expand
    <2>1. /\ phase = "source" /\ UNCHANGED <<program, commands>>
          /\ phase' \in {"refused", "uncompilable", "compiled"}
          /\ phase' = "compiled" => VariantsDistinct(methods)
      BY <1>1 DEF Expand, Compiles, compiler
    <2> QED  BY <2>1, CountStutter DEF Owned
  <1>2. CASE New
    BY <1>2, CountNew
  <1>3. CASE \E name \in ToSet(NAMES(methods)) : Send(name)
    BY <1>3, CountSend
  <1>4. CASE Execute
    BY <1>4, CountExecute
  <1>5. CASE \/ \E g \in DOMAIN cell : \E value \in Values(TypeOf(g)) : Store(g, value)
             \/ \E g \in DOMAIN cell : Replace(g)
             \/ \E t \in ContextTasks(methods), a \in Arguments : ArmFirst(t, a)
             \/ \E t \in ContextTasks(methods), a \in Arguments : ArmNext(t, a)
             \/ BeginSpawn
             \/ Seed \/ TakeCells \/ Subscribe \/ SpawnTask \/ PushTask
             \/ SpawnReturns
             \/ UNCHANGED vars
    <2>1. /\ UNCHANGED <<program, commands>>
          /\ phase' = phase \/ (phase \in Owned /\ phase' \in Owned)
      BY <1>5 DEF Store, Replace, ArmFirst, ArmNext, BeginSpawn, Seed, TakeCells, Subscribe,
                  SpawnTask, PushTask, Step, SpawnReturns, vars, compiler, commands, Owned
    <2>2. phase' \in {"compiled"} \cup Owned => VariantsDistinct(methods)
      BY <2>1 DEF CountInv, CountTypes
    <2> QED  BY <2>1, <2>2, CountStutter
  <1> QED  BY <1>1, <1>2, <1>3, <1>4, <1>5 DEF Next

LEMMA CountInvariant == Spec => []CountInv
  BY SpawnInvariant, CountInit, CountStep, PTL DEF Spec

LEMMA CountConsequence == CountInv => CountedByName
  <1> SUFFICES ASSUME CountInv PROVE CountedByName
    OBVIOUS
  <1>1. \A i \in DOMAIN enqueued :
           /\ enqueued[i] = Cardinality({j \in DOMAIN sent : sent[j] = NAMES(methods)[i]})
           /\ processed[i]
                 = Cardinality({j \in DOMAIN executed : executed[j] = NAMES(methods)[i]})
    BY DEF CountInv, Counted, Calls
  <1>2. PICK T : T = ToSet(NAMES(methods))
    OBVIOUS
  <1>3. PICK e : e = executed
    OBVIOUS
  <1>4. PICK t : t = sent
    OBVIOUS
  <1>5. PICK k : k = Len(e)
    OBVIOUS
  <1>6. /\ e \in Seq(T) /\ t \in Seq(T) /\ k \in Nat /\ Len(t) \in Nat /\ k <= Len(t)
        /\ DOMAIN e = 1 .. k /\ DOMAIN t = 1 .. Len(t)
        /\ \A j \in 1 .. k : e[j] = t[j] /\ e[j] \in T
    <2>1. e \in Seq(T) /\ t \in Seq(T) /\ queue \in Seq(Variants(methods))
      BY <1>2, <1>3, <1>4 DEF CountInv, CountTypes
    <2>2. Len(t) = k + Len(queue) /\ \A j \in DOMAIN e : e[j] = t[j]
      BY <1>3, <1>4, <1>5 DEF CountInv, Underway
    <2>3. k \in Nat /\ Len(t) \in Nat /\ Len(queue) \in Nat
          /\ DOMAIN e = 1 .. k /\ DOMAIN t = 1 .. Len(t)
      BY <1>5, <2>1, LenProperties
    <2>4. \A j \in 1 .. k : e[j] \in T
      BY <1>5, <2>1, <2>3, ElementOfSeq
    <2> QED  BY <2>1, <2>2, <2>3, <2>4
  <1>7. /\ SubSeq(e, 1, k) \in Seq(T) /\ SubSeq(t, 1, k) \in Seq(T)
        /\ Len(SubSeq(e, 1, k)) = k /\ Len(SubSeq(t, 1, k)) = k
        /\ \A j \in 1 .. k : SubSeq(e, 1, k)[j] = SubSeq(t, 1, k)[j]
    <2>1. k - 1 + 1 = k /\ \A j \in 1 .. k : 1 + j - 1 = j
      BY <1>6
    <2>2. /\ SubSeq(e, 1, k) \in Seq(T)
          /\ Len(SubSeq(e, 1, k)) = (IF 1 <= k THEN k - 1 + 1 ELSE 0)
          /\ \A j \in 1 .. k - 1 + 1 : SubSeq(e, 1, k)[j] = e[1 + j - 1]
      BY <1>6, SubSeqProperties
    <2>3. /\ SubSeq(t, 1, k) \in Seq(T)
          /\ Len(SubSeq(t, 1, k)) = (IF 1 <= k THEN k - 1 + 1 ELSE 0)
          /\ \A j \in 1 .. k - 1 + 1 : SubSeq(t, 1, k)[j] = t[1 + j - 1]
      BY <1>6, SubSeqProperties
    <2> QED  BY <1>6, <2>1, <2>2, <2>3
  <1>8. SubSeq(e, 1, k) = SubSeq(t, 1, k)
    BY <1>7, SeqEqual
  <1>9. IsPrefix(executed, sent)
    BY <1>3, <1>4, <1>5, <1>6, <1>8 DEF IsPrefix
  <1>10. Len(sent) = Len(executed) + Len(queue)
    BY DEF CountInv, Underway
  <1> QED  BY <1>1, <1>9, <1>10 DEF CountedByName

(* What CountedByName says, of every service: a command or an operation is  *)
(* counted under the name of its method, where it is sent and where it is   *)
(* executed, however commands and operations are mixed in the block, and    *)
(* what the loop calls is what was called on the handles, in that order     *)
(* (handlers.rs:544-792).                                                   *)
THEOREM CountersAgree == Spec => []CountedByName
  BY CountInvariant, CountConsequence, PTL

------------------------------------------------------------------------------
(* The attributes of a field, met one by one.                               *)
Known == {"get", "gauge", "default", "default ="}
FieldState == [known : BOOLEAN, get : BOOLEAN, gauge : BOOLEAN,
               default : STRING \cup Known \cup {"none"}]

HasMet(b, a, meta) ==
    /\ b.known <=> a.known /\ meta \in Known
    /\ b.get <=> a.get \/ meta = "get"
    /\ b.gauge <=> a.gauge \/ meta = "gauge"

LEMMA FieldMeets ==
  ASSUME NEW a \in FieldState, NEW meta \in STRING
  PROVE  FieldMeet(a, meta) \in FieldState /\ HasMet(FieldMeet(a, meta), a, meta)
  BY DEF FieldMeet, FieldState, Known, HasMet

LEMMA FieldFold ==
  ASSUME NEW f, f.metas \in Seq(STRING)
  PROVE  \E F : /\ F \in [0 .. Len(f.metas) -> FieldState]
                /\ F[0] = NoFieldAttrs
                /\ \A k \in 1 .. Len(f.metas) : F[k] = FieldMeet(F[k-1], f.metas[k])
                /\ FieldAttrs(f) = F[Len(f.metas)]
  <1>0. PICK seq : seq = f.metas
    OBVIOUS
  <1> DEFINE n == Len(seq)
             V == FieldState
             step == [p \in (1 .. n) \X V |-> FieldMeet(p[2], seq[p[1]])]
             Iter(g) == g = [d \in SUBSET (1 .. n) |->
                                IF d = {} THEN NoFieldAttrs
                                ELSE FieldMeet(g[d \ {Max(d)}], seq[Max(d)])]
             g == CHOOSE g : Iter(g)
  <1>1. n \in Nat /\ DOMAIN seq = 1 .. n /\ \A i \in 1 .. n : seq[i] \in STRING
    BY <1>0, LenProperties, ElementOfSeq
  <1>2. FieldAttrs(f) = g[1 .. n]
    BY <1>0, <1>1 DEF FieldAttrs, FoldLeft, MapThenFoldSet
  <1>3. step \in [(1 .. n) \X V -> V] /\ NoFieldAttrs \in V
    <2>1. NoFieldAttrs \in V
      BY DEF NoFieldAttrs, FieldState
    <2>2. \A p \in (1 .. n) \X V : FieldMeet(p[2], seq[p[1]]) \in V
      BY <1>1, FieldMeets
    <2> QED  BY <2>1, <2>2
  <1>4. \A v \in V : \A k \in 1 .. n : step[<<k, v>>] = FieldMeet(v, seq[k])
    OBVIOUS
  <1>5. \A d \in SUBSET (1 .. n) : d # {} =>
           Max(d) \in 1 .. n /\ d \ {Max(d)} \in SUBSET (1 .. n)
    BY <1>1, MaxOf
  <1> HIDE DEF step, n, V
  <1>6. PICK h \in [SUBSET (1 .. n) -> V] : Folds(h, n, NoFieldAttrs, step)
    BY <1>1, <1>3, FoldExists
  <1>7. Iter(h)
    <2>1. \A d \in SUBSET (1 .. n) :
             h[d] = IF d = {} THEN NoFieldAttrs ELSE FieldMeet(h[d \ {Max(d)}], seq[Max(d)])
      BY <1>4, <1>5, <1>6 DEF Folds
    <2> QED  BY <2>1
  <1>8. Iter(g)
    BY <1>7
  <1> HIDE DEF g
  <1>9. \A d \in SUBSET (1 .. n) :
           g[d] = IF d = {} THEN NoFieldAttrs ELSE FieldMeet(g[d \ {Max(d)}], seq[Max(d)])
    BY <1>8
  <1> HIDE DEF Iter
  <1>10. PICK F : Folded(F, n, V, NoFieldAttrs, step, g[1 .. n])
    <2>1. {} \in SUBSET (1 .. n)
      OBVIOUS
    <2>2. Takes(g, n, V, NoFieldAttrs, step)
      BY <1>4, <1>5, <1>9, <2>1 DEF Takes
    <2> QED  BY <1>1, <1>3, <2>2, FoldIs
  <1>11. \A k \in 1 .. n : F[k] = FieldMeet(F[k-1], seq[k])
    <2>1. \A k \in 1 .. n : k-1 \in 0 .. n
      BY <1>1
    <2> QED  BY <1>4, <1>10, <2>1 DEF Folded, Steps
  <1> QED  BY <1>0, <1>2, <1>10, <1>11 DEF n, V, Folded, Steps

LEMMA FieldAttrsAre ==
  ASSUME NEW f, f.metas \in Seq(STRING)
  PROVE  /\ FieldAttrs(f).known <=> ToSet(f.metas) \subseteq Known
         /\ FieldAttrs(f).get <=> "get" \in ToSet(f.metas)
         /\ FieldAttrs(f).gauge <=> "gauge" \in ToSet(f.metas)
  <1>0. PICK seq : seq = f.metas
    OBVIOUS
  <1>1. PICK F : /\ F \in [0 .. Len(seq) -> FieldState]
                 /\ F[0] = NoFieldAttrs
                 /\ \A k \in 1 .. Len(seq) : F[k] = FieldMeet(F[k-1], seq[k])
                 /\ FieldAttrs(f) = F[Len(seq)]
    BY <1>0, FieldFold
  <1> DEFINE n == Len(seq)
             Met(k) == /\ F[k].known <=> \A i \in 1 .. k : seq[i] \in Known
                       /\ F[k].get <=> \E i \in 1 .. k : seq[i] = "get"
                       /\ F[k].gauge <=> \E i \in 1 .. k : seq[i] = "gauge"
             Good == {k \in Nat : k <= n => Met(k)}
  <1>2. n \in Nat /\ DOMAIN seq = 1 .. n /\ \A i \in 1 .. n : seq[i] \in STRING
    BY <1>0, LenProperties, ElementOfSeq
  <1> HIDE DEF n
  <1>3. 0 \in Good
    <2>1. 1 .. 0 = {}
      OBVIOUS
    <2> QED  BY <1>1, <2>1 DEF NoFieldAttrs
  <1>4. ASSUME NEW k \in Good PROVE k + 1 \in Good
    <2>0. k \in Nat /\ k + 1 \in Nat
      OBVIOUS
    <2> SUFFICES ASSUME k + 1 <= n PROVE Met(k + 1)
      BY Zenon, <2>0
    <2>1. /\ k <= n /\ k + 1 \in 1 .. n /\ k \in 0 .. n /\ (k + 1) - 1 = k
          /\ 1 .. k+1 = (1 .. k) \cup {k + 1}
      BY <1>2, <2>0
    <2>2. Met(k)
      BY Zenon, <2>1
    <2> HIDE DEF Good
    <2>3. F[k+1] = FieldMeet(F[k], seq[k+1]) /\ F[k] \in FieldState /\ seq[k+1] \in STRING
      BY <1>1, <1>2, <2>1 DEF n
    <2>4. HasMet(F[k+1], F[k], seq[k+1])
      BY <2>3, FieldMeets
    <2> QED  BY <2>1, <2>2, <2>4 DEF HasMet
  <1> HIDE DEF Good
  <1>5. \A k \in Nat : k \in Good
    BY <1>3, <1>4, SetInduction DEF Good
  <1>6. Met(n)
    <2>1. n <= n
      BY <1>2
    <2> QED  BY Zenon, <1>2, <1>5, <2>1 DEF Good
  <1> QED  BY <1>0, <1>1, <1>2, <1>6 DEF ToSet, n

------------------------------------------------------------------------------
(* Words.  The low bits of a word are those of the value extended into it.  *)
LEMMA PowersExist ==
  ASSUME NEW N \in Nat
  PROVE  \E f \in [0 .. N -> Nat \ {0}] :
            f[0] = 1 /\ \A n \in 1 .. N : f[n] = 2 * f[n-1]
  <1> DEFINE Power(f, k) == /\ f \in [0 .. k -> Nat \ {0}]
                            /\ f[0] = 1 /\ \A n \in 1 .. k : f[n] = 2 * f[n-1]
             Good == {k \in Nat : \E f : Power(f, k)}
  <1>1. 0 \in Good
    <2> DEFINE f == [n \in 0 .. 0 |-> 1]
    <2>1. Power(f, 0)
      OBVIOUS
    <2> QED  BY <2>1
  <1>2. ASSUME NEW k \in Good PROVE k + 1 \in Good
    <2>1. k \in Nat /\ k + 1 \in Nat
      OBVIOUS
    <2>2. PICK f : Power(f, k)
      OBVIOUS
    <2> DEFINE g == [n \in 0 .. k+1 |-> IF n = k + 1 THEN 2 * f[k] ELSE f[n]]
    <2>3. \A n \in 0 .. k+1 : n # k + 1 => n \in 0 .. k
      BY <2>1
    <2>4. f[k] \in Nat \ {0} /\ 2 * f[k] \in Nat \ {0}
      <3>1. k \in 0 .. k
        BY <2>1
      <3>2. f[k] \in Nat \ {0}
        BY <2>2, <3>1
      <3> QED  BY <3>2
    <2>5. g \in [0 .. k+1 -> Nat \ {0}]
      BY <2>2, <2>3, <2>4
    <2>6. g[0] = 1
      BY <2>1, <2>2
    <2>7. \A n \in 1 .. k+1 : g[n] = 2 * g[n-1]
      <3> SUFFICES ASSUME NEW n \in 1 .. k+1 PROVE g[n] = 2 * g[n-1]
        OBVIOUS
      <3>1. n \in 0 .. k+1 /\ n-1 \in 0 .. k+1 /\ n-1 \in 0 .. k /\ n-1 # k + 1
        BY <2>1
      <3>2. CASE n = k + 1
        BY <2>1, <3>1, <3>2
      <3>3. CASE n # k + 1
        <4>1. n \in 1 .. k
          BY <2>1, <3>3
        <4> QED  BY <2>2, <3>1, <3>3, <4>1
      <3> QED  BY <3>2, <3>3
    <2> HIDE DEF g
    <2>8. Power(g, k+1)
      BY <2>5, <2>6, <2>7
    <2> HIDE DEF Power
    <2> QED  BY Zenon, <2>1, <2>8
  <1> HIDE DEF Good
  <1>3. N \in Good
    BY <1>1, <1>2, SetInduction DEF Good
  <1> QED  BY <1>3 DEF Good

LEMMA PowersAre ==
  /\ Pow2 \in [0 .. WordBits -> Nat \ {0}]
  /\ Pow2[0] = 1 /\ \A n \in 1 .. WordBits : Pow2[n] = 2 * Pow2[n-1]
  <1> DEFINE Iter(f) == f = [n \in 0 .. WordBits |-> IF n = 0 THEN 1 ELSE 2 * f[n-1]]
  <1>0. WordBits \in Nat
    BY WordAssumption
  <1>1. PICK f \in [0 .. WordBits -> Nat \ {0}] :
           f[0] = 1 /\ \A n \in 1 .. WordBits : f[n] = 2 * f[n-1]
    BY <1>0, PowersExist
  <1>2. \A n \in 0 .. WordBits : n # 0 => n \in 1 .. WordBits /\ n-1 \in 0 .. WordBits
    BY <1>0
  <1>3. Iter(f)
    <2>1. \A n \in 0 .. WordBits : f[n] = IF n = 0 THEN 1 ELSE 2 * f[n-1]
      BY <1>1, <1>2
    <2> QED  BY <2>1
  <1>4. Iter(Pow2)
    <2>1. Pow2 = CHOOSE g : Iter(g)
      BY DEF Pow2
    <2> HIDE DEF Iter
    <2> QED  BY <1>3, <2>1
  <1>5. \A n \in 0 .. WordBits : Pow2[n] = IF n = 0 THEN 1 ELSE 2 * Pow2[n-1]
    BY <1>4
  <1>6. DOMAIN Pow2 = 0 .. WordBits /\ Pow2 = [n \in 0 .. WordBits |-> Pow2[n]]
    <2> PICK g : g = [n \in 0 .. WordBits |-> IF n = 0 THEN 1 ELSE 2 * Pow2[n-1]]
      OBVIOUS
    <2>1. Pow2 = g /\ DOMAIN g = 0 .. WordBits /\ g = [n \in 0 .. WordBits |-> g[n]]
      BY <1>4
    <2> QED  BY <2>1
  <1> HIDE DEF Iter
  <1> DEFINE Good == {k \in Nat : k <= WordBits => Pow2[k] = f[k]}
  <1>7. \A k \in Nat : k \in Good
    <2>1. 0 \in Good
      BY <1>0, <1>1, <1>5
    <2>2. ASSUME NEW k \in Good PROVE k + 1 \in Good
      <3>1. k \in Nat /\ k + 1 \in Nat
        OBVIOUS
      <3> SUFFICES ASSUME k + 1 <= WordBits PROVE Pow2[k+1] = f[k+1]
        BY Zenon, <3>1
      <3>2. k <= WordBits /\ k + 1 \in 1 .. WordBits /\ k + 1 \in 0 .. WordBits
            /\ (k + 1) - 1 = k /\ k + 1 # 0
        BY <1>0, <3>1
      <3>3. Pow2[k] = f[k]
        BY Zenon, <3>2
      <3> QED  BY <1>1, <1>5, <3>2, <3>3
    <2> HIDE DEF Good
    <2> QED  BY <2>1, <2>2, SetInduction DEF Good
  <1>8. \A k \in 0 .. WordBits : Pow2[k] = f[k]
    <2>1. \A k \in 0 .. WordBits : k \in Nat /\ k <= WordBits
      BY <1>0
    <2> QED  BY Zenon, <1>7, <2>1 DEF Good
  <1>9. Pow2 \in [0 .. WordBits -> Nat \ {0}]
    BY <1>1, <1>6, <1>8
  <1>10. 0 \in 0 .. WordBits
    BY <1>0
  <1> QED  BY <1>2, <1>5, <1>9, <1>10

LEMMA PowersDivide ==
  ASSUME NEW a \in 0 .. WordBits
  PROVE  \E c \in Nat \ {0} : Pow2[WordBits] = c * Pow2[a]
  <1> DEFINE Good == {k \in Nat : a + k <= WordBits =>
                                  \E c \in Nat \ {0} : Pow2[a+k] = c * Pow2[a]}
  <1>0. WordBits \in Nat /\ a \in Nat /\ Pow2[a] \in Nat
    BY WordAssumption, PowersAre
  <1>1. 0 \in Good
    <2>1. a + 0 = a /\ Pow2[a] = 1 * Pow2[a]
      BY <1>0
    <2> QED  BY <2>1
  <1>2. ASSUME NEW k \in Good PROVE k + 1 \in Good
    <2>1. k \in Nat /\ k + 1 \in Nat
      OBVIOUS
    <2> SUFFICES ASSUME a + (k + 1) <= WordBits
                 PROVE  \E c \in Nat \ {0} : Pow2[a + (k + 1)] = c * Pow2[a]
      BY Zenon, <2>1
    <2>2. /\ a + k <= WordBits /\ a + (k + 1) \in 1 .. WordBits
          /\ (a + (k + 1)) - 1 = a + k
      BY <1>0, <2>1
    <2>3. PICK c \in Nat \ {0} : Pow2[a+k] = c * Pow2[a]
      BY Zenon, <2>2
    <2> HIDE DEF Good
    <2>4. Pow2[a + (k + 1)] = 2 * Pow2[a+k]
      BY <2>2, PowersAre
    <2>5. 2 * c \in Nat \ {0} /\ 2 * (c * Pow2[a]) = (2 * c) * Pow2[a]
      BY <1>0
    <2> QED  BY <2>3, <2>4, <2>5
  <1> HIDE DEF Good
  <1>3. \A k \in Nat : k \in Good
    BY <1>1, <1>2, SetInduction DEF Good
  <1>4. WordBits - a \in Nat /\ a + (WordBits - a) = WordBits /\ WordBits <= WordBits
    BY <1>0
  <1>5. a + (WordBits - a) <= WordBits
    BY <1>4
  <1>6. \E c \in Nat \ {0} : Pow2[a + (WordBits - a)] = c * Pow2[a]
    BY Zenon, <1>3, <1>4, <1>5 DEF Good
  <1> QED  BY <1>4, <1>6

LEMMA Divides ==
  ASSUME NEW D \in Nat \ {0}, NEW v \in Int
  PROVE  \E q \in Int : v = q * D + (v % D) /\ v % D \in 0 .. D-1
  <1>1. v \div D \in Int /\ v = (v \div D) * D + (v % D) /\ v % D \in 0 .. D-1
    OBVIOUS
  <1> QED  BY <1>1

LEMMA Remains ==
  ASSUME NEW D \in Nat \ {0}, NEW k \in Int, NEW r \in 0 .. D-1
  PROVE  (k * D + r) % D = r
  OBVIOUS

LEMMA LowBits ==
  ASSUME NEW P \in Nat \ {0}, NEW c \in Nat \ {0}, NEW v \in Int
  PROVE  (v % (c * P)) % P = v % P
  <1>1. c * P \in Nat \ {0}
    OBVIOUS
  <1>2. PICK D \in Nat \ {0} : D = c * P
    BY <1>1
  <1>3. PICK q \in Int : v = q * D + (v % D) /\ v % D \in 0 .. D-1
    BY Divides
  <1>4. PICK r \in Int : r = v % D
    BY <1>3
  <1>5. PICK p \in Int : r = p * P + (r % P) /\ r % P \in 0 .. P-1
    BY Divides
  <1>6. PICK t \in 0 .. P-1 : t = r % P
    BY <1>5
  <1>7. q * D = (q * c) * P /\ q * c \in Int
    BY <1>2
  <1>8. v = (q * c + p) * P + t
    <2>1. v = q * D + r /\ r = p * P + t
      BY <1>3, <1>4, <1>5, <1>6
    <2>2. (q * c + p) * P = (q * c) * P + p * P
      BY <1>7
    <2>3. q * D \in Int /\ p * P \in Int /\ t \in Int
      OBVIOUS
    <2> QED  BY <1>7, <2>1, <2>2, <2>3
  <1>9. v % P = t
    <2>1. q * c + p \in Int
      BY <1>7
    <2> QED  BY <1>8, <2>1, Remains
  <1> QED  BY <1>2, <1>4, <1>6, <1>9

(* What a gauge stores of a value of its type, it reads back, for every     *)
(* width of type and word, signed or not (gauge.rs:50-94).                   *)
THEOREM RoundTrip ==
  ASSUME NEW type \in GaugeTypes, NEW v \in Values(type)
  PROVE  v \in Int /\ ToBits(type, v) \in Int /\ FromBits(type, ToBits(type, v)) = v
  <1>0. /\ WordBits \in Nat \ {0} /\ Pow2[WordBits] \in Nat \ {0}
        /\ \A n \in 0 .. WordBits : Pow2[n] \in Nat \ {0}
        /\ \A n \in 1 .. WordBits : Pow2[n] = 2 * Pow2[n-1]
    BY WordAssumption, PowersAre
  <1>1. PICK D \in Nat \ {0} : D = Pow2[WordBits]
    BY <1>0
  <1>2. CASE type.kind = "bool"
    <2>1. v \in 0 .. 1
      BY <1>2 DEF Values
    <2>2. D >= 2
      <3>1. WordBits \in 1 .. WordBits /\ WordBits - 1 \in 0 .. WordBits
        BY <1>0
      <3> QED  BY <1>0, <1>1, <3>1
    <2>3. v % D = v
      BY <2>1, <2>2
    <2> QED  BY <1>1, <1>2, <2>1, <2>3 DEF ToBits, FromBits
  <1>3. CASE type.kind # "bool"
    <2>1. type.kind \in {"signed", "unsigned"} /\ type.bits \in 2 .. WordBits
      BY <1>3 DEF GaugeTypes
    <2>2. PICK n \in 2 .. WordBits : n = type.bits
      BY <2>1
    <2>3. n \in 0 .. WordBits /\ n \in 1 .. WordBits /\ n-1 \in 0 .. WordBits
      BY <1>0
    <2>4. PICK P \in Nat \ {0} : P = Pow2[n]
      BY <1>0, <2>3
    <2>5. PICK H \in Nat \ {0} : H = Pow2[n-1]
      BY <1>0, <2>3
    <2>6. P = 2 * H
      BY <1>0, <2>3, <2>4, <2>5
    <2>7. PICK c \in Nat \ {0} : D = c * P
      BY <1>1, <2>3, <2>4, PowersDivide
    <2>8. v \in Int
      BY <2>1, <2>2, <2>4, <2>5 DEF Values
    <2>9. ToBits(type, v) = v % D /\ v % D \in Int /\ (v % D) % P = v % P
      <3>1. \A e \in Nat \ {0} : v % e \in Int
        BY <2>8
      <3>2. (v % (c * P)) % P = v % P
        BY <2>8, LowBits
      <3>3. (v % D) % P = v % P
        BY <2>7, <3>2
      <3>4. ToBits(type, v) = v % D
        BY <1>1 DEF ToBits
      <3> QED  BY <3>1, <3>3, <3>4
    <2>10. CASE type.kind = "unsigned"
      <3>1. v \in 0 .. P-1
        BY <2>2, <2>4, <2>10 DEF Values
      <3>2. v % P = v
        BY <3>1
      <3> QED  BY <2>2, <2>4, <2>8, <2>9, <2>10, <3>2 DEF FromBits
    <2>11. CASE type.kind = "signed"
      <3>1. v \in -H .. H-1
        BY <2>2, <2>5, <2>11 DEF Values
      <3>2. FromBits(type, v % D) = IF v % P >= H THEN (v % P) - P ELSE v % P
        BY <2>2, <2>4, <2>5, <2>9, <2>11 DEF FromBits
      <3>3. CASE v >= 0
        <4>1. v \in 0 .. P-1 /\ v < H
          BY <2>6, <3>1, <3>3
        <4>2. v % P = v
          BY <4>1
        <4> QED  BY <2>8, <2>9, <3>2, <4>1, <4>2
      <3>4. CASE ~(v >= 0)
        <4>1. v + P \in 0 .. P-1 /\ v + P >= H
          BY <2>6, <3>1, <3>4
        <4>2. v % P = v + P
          <5>1. v = (-1) * P + (v + P)
            BY <2>8
          <5> QED  BY <4>1, <5>1, Remains
        <4> QED  BY <2>8, <2>9, <3>2, <4>1, <4>2
      <3> QED  BY <3>3, <3>4
    <2> QED  BY <2>1, <2>10, <2>11
  <1> QED  BY <1>2, <1>3

LEMMA EarlyValues ==
  ASSUME NEW type \in GaugeTypes
  PROVE  0 \in Values(type) /\ 1 \in Values(type)
  <1>1. CASE type.kind = "bool"
    BY <1>1 DEF Values
  <1>2. CASE type.kind # "bool"
    <2>1. type.kind \in {"signed", "unsigned"} /\ type.bits \in 2 .. WordBits
      BY <1>2 DEF GaugeTypes
    <2>2. PICK n \in 2 .. WordBits : n = type.bits
      BY <2>1
    <2>3. n \in 1 .. WordBits /\ n-1 \in 1 .. WordBits /\ (n-1) - 1 \in 0 .. WordBits
      BY WordAssumption
    <2>4. PICK Q \in Nat \ {0} : Q = Pow2[(n-1) - 1]
      BY <2>3, PowersAre
    <2>5. Pow2[n-1] = 2 * Q /\ Pow2[n] = 2 * (2 * Q)
      BY <2>3, <2>4, PowersAre
    <2>6. /\ 0 \in 0 .. 2 * (2 * Q) - 1 /\ 1 \in 0 .. 2 * (2 * Q) - 1
          /\ 0 \in -(2 * Q) .. 2 * Q - 1 /\ 1 \in -(2 * Q) .. 2 * Q - 1
      OBVIOUS
    <2>7. CASE type.kind = "unsigned"
      BY <2>2, <2>5, <2>6, <2>7 DEF Values
    <2>8. CASE type.kind = "signed"
      BY <2>2, <2>5, <2>6, <2>8 DEF Values
    <2> QED  BY <2>1, <2>7, <2>8
  <1> QED  BY <1>1, <1>2

(* The gauges of a struct: each is found under its name. *)
FieldSource ==
    [name : STRING, metas : Seq(STRING), type : [kind : STRING, bits : Nat]]

LEMMA GaugesAre ==
  ASSUME NEW p \in Programs, NEW G, G = Gauges(p.struct)
  PROVE  /\ Len(G) \in Nat /\ DOMAIN G = 1 .. Len(G)
         /\ \A i \in DOMAIN G : G[i].type \in GaugeTypes
         /\ \A i \in DOMAIN G : IndexOf(p.struct, G[i].name) = i
         /\ \A i, j \in DOMAIN G : G[i].name = G[j].name => i = j
  <1> DEFINE fs == p.struct.fields
  <1>1. /\ fs \in Seq(FieldSource) /\ NamesDistinct(fs)
        /\ \A f \in ToSet(fs) : "gauge" \in ToSet(f.metas) => f.type \in GaugeTypes
    BY ProgramsAssumption DEF StructSource, FieldSource
  <1>2. PICK S : S = {f \in ToSet(fs) : FieldAttrs(f).gauge}
    OBVIOUS
  <1>3. G = Only(S, fs)
    BY <1>2 DEF Gauges
  <1>4. \A f \in ToSet(fs) : f.metas \in Seq(STRING)
    <2> HIDE DEF fs
    <2>1. \A i \in DOMAIN fs : fs[i] \in FieldSource
      BY <1>1, ElementOfSeq, LenProperties
    <2>2. \A f \in FieldSource : f.metas \in Seq(STRING)
      BY DEF FieldSource
    <2> QED  BY <2>1, <2>2 DEF ToSet
  <1> HIDE DEF fs
  <1>5. G \in Seq(FieldSource) /\ ToSet(G) = ToSet(fs) \cap S /\ NamesDistinct(G)
    BY <1>1, <1>3, OnlyIs
  <1>6. Len(G) \in Nat /\ DOMAIN G = 1 .. Len(G)
    BY <1>5, LenProperties
  <1>7. \A i \in DOMAIN G : G[i].type \in GaugeTypes
    <2> SUFFICES ASSUME NEW i \in DOMAIN G PROVE G[i].type \in GaugeTypes
      OBVIOUS
    <2>1. G[i] \in ToSet(fs) /\ G[i] \in S
      BY <1>5 DEF ToSet
    <2>2. FieldAttrs(G[i]).gauge
      BY <1>2, <2>1
    <2>3. "gauge" \in ToSet(G[i].metas)
      BY <1>4, <2>1, <2>2, FieldAttrsAre
    <2> QED  BY <1>1, <2>1, <2>3
  <1>8. \A i, j \in DOMAIN G : G[i].name = G[j].name => i = j
    BY <1>5 DEF NamesDistinct
  <1>9. \A name : IndexOf(p.struct, name) = CHOOSE i \in DOMAIN G : G[i].name = name
    BY DEF IndexOf
  <1>10. \A i \in DOMAIN G : IndexOf(p.struct, G[i].name) = i
    BY <1>8, <1>9
  <1> QED  BY <1>6, <1>7, <1>8, <1>10

LEMMA NamedGauge ==
  ASSUME program \in Programs, NEW g \in GaugeNames
  PROVE  /\ TypeOf(g) \in GaugeTypes
         /\ IndexOf(s, g) \in DOMAIN Gauges(s) /\ Gauges(s)[IndexOf(s, g)].name = g
  <1>1. PICK G : G = Gauges(s)
    OBVIOUS
  <1>2. /\ \A i \in DOMAIN G : G[i].type \in GaugeTypes
        /\ \A i \in DOMAIN G : IndexOf(s, G[i].name) = i
    BY <1>1, GaugesAre DEF s
  <1>3. PICK i \in DOMAIN G : G[i].name = g
    BY <1>1 DEF GaugeNames, ToSet
  <1> QED  BY <1>1, <1>2, <1>3 DEF TypeOf

(* No two fields hold one cell, and a cell's word is its last value's.      *)
GaugeInv ==
    /\ program \in Programs
    /\ phase \notin Owned => DOMAIN cell = {}
    /\ phase \in Owned =>
          /\ word \in Seq(Int) /\ last \in Seq(Int) /\ Len(last) = Len(word)
          /\ cell \in [GaugeNames -> 1 .. Len(word)]
          /\ \A g, h \in GaugeNames : cell[g] = cell[h] => g = h
          /\ \A g \in GaugeNames :
                /\ last[cell[g]] \in Values(TypeOf(g))
                /\ word[cell[g]] = ToBits(TypeOf(g), last[cell[g]])

LEMMA GaugeInit == Init => GaugeInv
  BY DEF Init, GaugeInv, Owned

LEMMA GaugeStutter ==
  ASSUME GaugeInv, UNCHANGED <<program, owner>>, phase' \in Owned <=> phase \in Owned
  PROVE  GaugeInv'
  <1>1. GaugeNames' = GaugeNames /\ \A g : TypeOf(g)' = TypeOf(g)
    BY DEF GaugeNames, TypeOf, s
  <1> QED  BY <1>1 DEF GaugeInv, owner

LEMMA GaugeNew ==
  ASSUME GaugeInv, New PROVE GaugeInv'
  <1>0. /\ program' = program /\ GaugeNames' = GaugeNames /\ \A g : TypeOf(g)' = TypeOf(g)
        /\ program \in Programs /\ phase' = "owned"
    BY DEF New, compiler, GaugeNames, TypeOf, s, GaugeInv
  <1>1. PICK G : G = Gauges(s)
    OBVIOUS
  <1>2. PICK n \in Nat : n = Len(G) /\ DOMAIN G = 1 .. n
    BY <1>0, <1>1, GaugesAre DEF s
  <1>3. /\ cell' = [g \in GaugeNames |-> IndexOf(s, g)]
        /\ word' = [i \in DOMAIN last' |-> ToBits(G[i].type, last'[i])]
    BY <1>1 DEF New
  <1>4. last' \in [1 .. n -> {0, 1}]
    <2>1. last' \in [DOMAIN G -> {0, 1}]
      BY <1>1 DEF New
    <2> QED  BY <1>2, <2>1
  <1>5. \A g \in GaugeNames : /\ TypeOf(g) \in GaugeTypes /\ TypeOf(g) = G[IndexOf(s, g)].type
                              /\ IndexOf(s, g) \in 1 .. n /\ G[IndexOf(s, g)].name = g
    BY <1>0, <1>1, <1>2, NamedGauge DEF TypeOf
  <1>6. \A i \in 1 .. n : G[i].type \in GaugeTypes
    BY <1>0, <1>1, <1>2, GaugesAre DEF s
  <1>7. last' \in [1 .. n -> Int] /\ word' \in [1 .. n -> Int]
    <2>1. \A i \in 1 .. n : ToBits(G[i].type, last'[i]) \in Int
      <3> SUFFICES ASSUME NEW i \in 1 .. n PROVE ToBits(G[i].type, last'[i]) \in Int
        OBVIOUS
      <3>1. last'[i] \in Values(G[i].type)
        BY <1>4, <1>6, EarlyValues
      <3> QED  BY <1>6, <3>1, RoundTrip
    <2> QED  BY <1>3, <1>4, <2>1
  <1>8. /\ last' \in Seq(Int) /\ word' \in Seq(Int) /\ Len(last') = n /\ Len(word') = n
    BY <1>7, FunctionSeq
  <1>9. cell' \in [GaugeNames -> 1 .. n]
    BY <1>3, <1>5
  <1>10. \A g, h \in GaugeNames : cell'[g] = cell'[h] => g = h
    BY <1>3, <1>5
  <1>11. \A g \in GaugeNames : /\ last'[cell'[g]] \in Values(TypeOf(g))
                               /\ word'[cell'[g]] = ToBits(TypeOf(g), last'[cell'[g]])
    <2> SUFFICES ASSUME NEW g \in GaugeNames
                 PROVE  /\ last'[cell'[g]] \in Values(TypeOf(g))
                        /\ word'[cell'[g]] = ToBits(TypeOf(g), last'[cell'[g]])
      OBVIOUS
    <2>1. PICK i \in 1 .. n : i = cell'[g] /\ TypeOf(g) = G[i].type
      BY <1>3, <1>5
    <2>2. last'[i] \in {0, 1} /\ word'[i] = ToBits(G[i].type, last'[i])
      BY <1>3, <1>4
    <2> QED  BY <1>5, <2>1, <2>2, EarlyValues
  <1> QED  BY <1>0, <1>8, <1>9, <1>10, <1>11 DEF GaugeInv, Owned

LEMMA GaugeStore ==
  ASSUME GaugeInv, NEW g \in DOMAIN cell, NEW value \in Values(TypeOf(g)), Store(g, value)
  PROVE  GaugeInv'
  <1>0. /\ UNCHANGED <<program, phase, cell>> /\ phase \in Owned
        /\ GaugeNames' = GaugeNames /\ \A h : TypeOf(h)' = TypeOf(h)
        /\ program \in Programs
    BY DEF Store, compiler, GaugeNames, TypeOf, s, GaugeInv
  <1>1. PICK i : i = cell[g]
    OBVIOUS
  <1>2. PICK n : n = Len(word)
    OBVIOUS
  <1>3. /\ n \in Nat /\ word \in [1 .. n -> Int] /\ last \in [1 .. n -> Int]
        /\ cell \in [GaugeNames -> 1 .. n] /\ i \in 1 .. n
        /\ \A h \in GaugeNames : cell[h] = i => h = g
        /\ \A h \in GaugeNames : /\ last[cell[h]] \in Values(TypeOf(h))
                                 /\ word[cell[h]] = ToBits(TypeOf(h), last[cell[h]])
    <2>1. word \in Seq(Int) /\ last \in Seq(Int) /\ Len(last) = n
      BY <1>0, <1>2 DEF GaugeInv
    <2>2. n \in Nat /\ word \in [1 .. n -> Int] /\ last \in [1 .. n -> Int]
      BY <1>2, <2>1, LenProperties, ElementOfSeq
    <2> QED  BY <1>0, <1>1, <1>2, <2>2 DEF GaugeInv
  <1>4. value \in Int /\ ToBits(TypeOf(g), value) \in Int
    BY <1>0, <1>3, NamedGauge, RoundTrip
  <1>5. /\ word' = [word EXCEPT ![i] = ToBits(TypeOf(g), value)]
        /\ last' = [last EXCEPT ![i] = value]
    BY <1>1 DEF Store
  <1>6. word' \in [1 .. n -> Int] /\ last' \in [1 .. n -> Int]
    BY <1>3, <1>4, <1>5
  <1>7. word' \in Seq(Int) /\ last' \in Seq(Int) /\ Len(word') = n /\ Len(last') = n
    BY <1>3, <1>6, FunctionSeq
  <1>8. \A h \in GaugeNames : /\ last'[cell[h]] \in Values(TypeOf(h))
                              /\ word'[cell[h]] = ToBits(TypeOf(h), last'[cell[h]])
    <2> SUFFICES ASSUME NEW h \in GaugeNames
                 PROVE  /\ last'[cell[h]] \in Values(TypeOf(h))
                        /\ word'[cell[h]] = ToBits(TypeOf(h), last'[cell[h]])
      OBVIOUS
    <2>1. CASE cell[h] = i
      <3>1. h = g /\ last'[i] = value /\ word'[i] = ToBits(TypeOf(g), value)
        BY <1>3, <1>5, <2>1
      <3> QED  BY <2>1, <3>1
    <2>2. CASE cell[h] # i
      <3>1. last'[cell[h]] = last[cell[h]] /\ word'[cell[h]] = word[cell[h]]
        BY <1>3, <1>5, <2>2
      <3> QED  BY <1>3, <3>1
    <2> QED  BY <2>1, <2>2
  <1> QED  BY <1>0, <1>2, <1>3, <1>7, <1>8 DEF GaugeInv

LEMMA GaugeReplace ==
  ASSUME GaugeInv, NEW g \in DOMAIN cell, Replace(g)
  PROVE  GaugeInv'
  <1>0. /\ UNCHANGED <<program, phase>> /\ phase \in Owned
        /\ GaugeNames' = GaugeNames /\ \A h : TypeOf(h)' = TypeOf(h)
        /\ program \in Programs /\ g \in GaugeNames
    BY DEF Replace, compiler, GaugeNames, TypeOf, s, GaugeInv, Owned
  <1>1. PICK n : n = Len(word)
    OBVIOUS
  <1>2. /\ n \in Nat /\ word \in Seq(Int) /\ last \in Seq(Int) /\ Len(last) = n
        /\ cell \in [GaugeNames -> 1 .. n]
        /\ \A h, k \in GaugeNames : cell[h] = cell[k] => h = k
        /\ \A h \in GaugeNames : /\ last[cell[h]] \in Values(TypeOf(h))
                                 /\ word[cell[h]] = ToBits(TypeOf(h), last[cell[h]])
    <2>1. word \in Seq(Int)
      BY <1>0 DEF GaugeInv
    <2>2. n \in Nat
      BY <1>1, <2>1, LenProperties
    <2> QED  BY <1>0, <1>1, <2>2 DEF GaugeInv
  <1>3. /\ cell' = [cell EXCEPT ![g] = n + 1]
        /\ word' = Append(word, 0) /\ last' = Append(last, 0)
    BY <1>1 DEF Replace
  <1>4. /\ word' \in Seq(Int) /\ last' \in Seq(Int)
        /\ Len(word') = n + 1 /\ Len(last') = n + 1
        /\ \A i \in 1 .. n : word'[i] = word[i] /\ last'[i] = last[i]
        /\ word'[n + 1] = 0 /\ last'[n + 1] = 0
    <2>1. PICK w \in Seq(Int) : w = word
      BY <1>2
    <2>2. PICK l \in Seq(Int) : l = last
      BY <1>2
    <2>3. 0 \in Int
      OBVIOUS
    <2>4. /\ Append(w, 0) \in Seq(Int) /\ Len(Append(w, 0)) = Len(w) + 1
          /\ \A i \in 1 .. Len(w) : Append(w, 0)[i] = w[i]
          /\ Append(w, 0)[Len(w) + 1] = 0
      BY <2>3, AppendProperties
    <2>5. /\ Append(l, 0) \in Seq(Int) /\ Len(Append(l, 0)) = Len(l) + 1
          /\ \A i \in 1 .. Len(l) : Append(l, 0)[i] = l[i]
          /\ Append(l, 0)[Len(l) + 1] = 0
      BY <2>3, AppendProperties
    <2> QED  BY <1>1, <1>2, <1>3, <2>1, <2>2, <2>4, <2>5
  <1>5. \A h \in GaugeNames : cell'[h] = IF h = g THEN n + 1 ELSE cell[h]
    BY <1>2, <1>3
  <1>6. cell' \in [GaugeNames -> 1 .. n+1]
    BY <1>2, <1>3
  <1>7. \A h, k \in GaugeNames : cell'[h] = cell'[k] => h = k
    <2>1. \A h \in GaugeNames : cell[h] # n + 1
      BY <1>2
    <2> QED  BY <1>2, <1>5, <2>1
  <1>8. \A h \in GaugeNames : /\ last'[cell'[h]] \in Values(TypeOf(h))
                              /\ word'[cell'[h]] = ToBits(TypeOf(h), last'[cell'[h]])
    <2> SUFFICES ASSUME NEW h \in GaugeNames
                 PROVE  /\ last'[cell'[h]] \in Values(TypeOf(h))
                        /\ word'[cell'[h]] = ToBits(TypeOf(h), last'[cell'[h]])
      OBVIOUS
    <2>1. CASE h = g
      <3>1. TypeOf(h) \in GaugeTypes
        BY <1>0, NamedGauge
      <3>2. 0 \in Values(TypeOf(h))
        BY <3>1, EarlyValues
      <3>3. ToBits(TypeOf(h), 0) = 0
        <4>1. PICK D \in Nat \ {0} : D = Pow2[WordBits]
          BY PowersAre, WordAssumption
        <4>2. 0 % D = 0
          OBVIOUS
        <4> QED  BY <4>1, <4>2 DEF ToBits
      <3>4. cell'[h] = n + 1
        BY <1>5, <2>1
      <3> QED  BY <1>4, <3>2, <3>3, <3>4
    <2>2. CASE h # g
      <3>1. cell'[h] = cell[h] /\ cell[h] \in 1 .. n
        BY <1>2, <1>5, <2>2
      <3> QED  BY <1>2, <1>4, <3>1
    <2> QED  BY <2>1, <2>2
  <1> QED  BY <1>0, <1>4, <1>6, <1>7, <1>8 DEF GaugeInv

LEMMA GaugeStep == GaugeInv /\ [Next]_vars => GaugeInv'
  <1> SUFFICES ASSUME GaugeInv, [Next]_vars PROVE GaugeInv'
    OBVIOUS
  <1>1. CASE Expand
    <2>1. /\ phase = "source" /\ UNCHANGED <<program, owner>>
          /\ phase' \in {"refused", "uncompilable", "compiled"}
      BY <1>1 DEF Expand, compiler
    <2> QED  BY <2>1, GaugeStutter DEF Owned
  <1>2. CASE New
    BY <1>2, GaugeNew
  <1>3. CASE \E g \in DOMAIN cell : \E value \in Values(TypeOf(g)) : Store(g, value)
    BY <1>3, GaugeStore
  <1>4. CASE \E g \in DOMAIN cell : Replace(g)
    BY <1>4, GaugeReplace
  <1>5. CASE \/ \E t \in ContextTasks(methods), a \in Arguments : ArmFirst(t, a)
             \/ \E t \in ContextTasks(methods), a \in Arguments : ArmNext(t, a)
             \/ BeginSpawn
             \/ Seed \/ TakeCells \/ Subscribe \/ SpawnTask \/ PushTask
             \/ SpawnReturns
             \/ \E name \in ToSet(NAMES(methods)) : Send(name)
             \/ Execute
             \/ UNCHANGED vars
    <2>1. /\ UNCHANGED <<program, owner>>
          /\ phase' = phase \/ (phase \in Owned /\ phase' \in Owned)
      BY <1>5 DEF ArmFirst, ArmNext, BeginSpawn, Seed, TakeCells, Subscribe, SpawnTask,
                  PushTask, Step, SpawnReturns, Send, Execute, vars, compiler, owner, Owned
    <2> QED  BY <2>1, GaugeStutter
  <1> QED  BY <1>1, <1>2, <1>3, <1>4, <1>5 DEF Next

LEMMA GaugeInvariant == Spec => []GaugeInv
  BY GaugeInit, GaugeStep, PTL DEF Spec

LEMMA GaugeConsequence == SpawnInv /\ GaugeInv => SampleIsLatest
  <1> SUFFICES ASSUME SpawnInv, GaugeInv, HandleHeld, NEW g \in GaugeNames
               PROVE  Sample(g) = last[cell[g]]
    BY DEF SampleIsLatest
  <1>1. phase \in {"spawning", "running"} /\ phase \in Owned /\ program \in Programs
    BY HeldLate DEF Owned, GaugeInv
  <1>2. NamesIn(todo, "cells") = {}
    <2>1. CASE phase = "running"
      BY <2>1 DEF SpawnInv, After, NamesIn
    <2>2. CASE phase # "running"
      <3>1. started # <<>>
        BY <2>2 DEF HandleHeld, Started
      <3>2. \A i \in DOMAIN todo : todo[i].do \in Starting
        BY <1>1, <3>1 DEF SpawnInv, Meanwhile
      <3> QED  BY <3>2 DEF NamesIn, Starting
    <2> QED  BY <2>1, <2>2
  <1>3. sampled = GaugeCells(s, cell)
    BY <1>1, <1>2 DEF SpawnInv, Meanwhile
  <1>4. /\ TypeOf(g) \in GaugeTypes
        /\ IndexOf(s, g) \in DOMAIN Gauges(s) /\ Gauges(s)[IndexOf(s, g)].name = g
    BY <1>1, NamedGauge
  <1>5. sampled[IndexOf(s, g)] = cell[g]
    BY <1>3, <1>4 DEF GaugeCells
  <1>6. /\ last[cell[g]] \in Values(TypeOf(g))
        /\ word[cell[g]] = ToBits(TypeOf(g), last[cell[g]])
    BY <1>1 DEF GaugeInv
  <1>7. FromBits(TypeOf(g), ToBits(TypeOf(g), last[cell[g]])) = last[cell[g]]
    BY <1>4, <1>6, RoundTrip
  <1> QED  BY <1>5, <1>6, <1>7 DEF Sample

(* What SampleIsLatest says, of every service and every width of word:      *)
(* whoever holds a handle samples the value last stored into the cell the   *)
(* field holds, of whatever type it is and through whichever clone it was   *)
(* stored, even if the owner had replaced the cell before spawning          *)
(* (gauge.rs:16-17, 50-93; service.rs:595-631).                             *)
THEOREM GaugesSampled == Spec => []SampleIsLatest
  BY SpawnInvariant, GaugeInvariant, GaugeConsequence, PTL

------------------------------------------------------------------------------
(* The attributes of a method, met one by one.                              *)
MetaSource == [is : STRING \cup {"op"}, execute : BOOLEAN, timeout : BOOLEAN]
MethodState == [roles : SUBSET (STRING \cup {"op"}), known : BOOLEAN, op : MetaSource]

HasMetRole(b, a, meta) ==
    /\ b.roles = a.roles \cup {meta.is}
    /\ b.known <=> a.known /\ meta.is \in Roles
    /\ meta.is = "op" => b.op = meta

LEMMA MethodMeets ==
  ASSUME NEW a \in MethodState, NEW meta \in MetaSource
  PROVE  Meet(a, meta) \in MethodState /\ HasMetRole(Meet(a, meta), a, meta)
  <1>1. meta.is \in STRING \cup {"op"}
    BY DEF MetaSource
  <1> QED  BY <1>1 DEF Meet, MethodState, HasMetRole

LEMMA MethodFold ==
  ASSUME NEW m, m.metas \in Seq(MetaSource)
  PROVE  \E F : /\ F \in [0 .. Len(m.metas) -> MethodState]
                /\ F[0] = NoAttrs
                /\ \A k \in 1 .. Len(m.metas) : F[k] = Meet(F[k-1], m.metas[k])
                /\ MethodAttrs(m) = F[Len(m.metas)]
  <1>0. PICK seq : seq = m.metas
    OBVIOUS
  <1> DEFINE n == Len(seq)
             V == MethodState
             step == [p \in (1 .. n) \X V |-> Meet(p[2], seq[p[1]])]
             Iter(g) == g = [d \in SUBSET (1 .. n) |->
                                IF d = {} THEN NoAttrs
                                ELSE Meet(g[d \ {Max(d)}], seq[Max(d)])]
             g == CHOOSE g : Iter(g)
  <1>1. n \in Nat /\ DOMAIN seq = 1 .. n /\ \A i \in 1 .. n : seq[i] \in MetaSource
    BY <1>0, LenProperties, ElementOfSeq
  <1>2. MethodAttrs(m) = g[1 .. n]
    BY <1>0, <1>1 DEF MethodAttrs, FoldLeft, MapThenFoldSet
  <1>3. step \in [(1 .. n) \X V -> V] /\ NoAttrs \in V
    <2>1. NoAttrs \in V
      BY DEF NoAttrs, MethodState, MetaSource, Meta
    <2>2. \A p \in (1 .. n) \X V : Meet(p[2], seq[p[1]]) \in V
      BY <1>1, MethodMeets
    <2> QED  BY <2>1, <2>2
  <1>4. \A v \in V : \A k \in 1 .. n : step[<<k, v>>] = Meet(v, seq[k])
    OBVIOUS
  <1>5. \A d \in SUBSET (1 .. n) : d # {} =>
           Max(d) \in 1 .. n /\ d \ {Max(d)} \in SUBSET (1 .. n)
    BY <1>1, MaxOf
  <1> HIDE DEF step, n, V
  <1>6. PICK h \in [SUBSET (1 .. n) -> V] : Folds(h, n, NoAttrs, step)
    BY <1>1, <1>3, FoldExists
  <1>7. Iter(h)
    <2>1. \A d \in SUBSET (1 .. n) :
             h[d] = IF d = {} THEN NoAttrs ELSE Meet(h[d \ {Max(d)}], seq[Max(d)])
      BY <1>4, <1>5, <1>6 DEF Folds
    <2> QED  BY <2>1
  <1>8. Iter(g)
    BY <1>7
  <1> HIDE DEF g
  <1>9. \A d \in SUBSET (1 .. n) :
           g[d] = IF d = {} THEN NoAttrs ELSE Meet(g[d \ {Max(d)}], seq[Max(d)])
    BY <1>8
  <1> HIDE DEF Iter
  <1>10. PICK F : Folded(F, n, V, NoAttrs, step, g[1 .. n])
    <2>1. {} \in SUBSET (1 .. n)
      OBVIOUS
    <2>2. Takes(g, n, V, NoAttrs, step)
      BY <1>4, <1>5, <1>9, <2>1 DEF Takes
    <2> QED  BY <1>1, <1>3, <2>2, FoldIs
  <1>11. \A k \in 1 .. n : F[k] = Meet(F[k-1], seq[k])
    <2>1. \A k \in 1 .. n : k-1 \in 0 .. n
      BY <1>1
    <2> QED  BY <1>4, <1>10, <2>1 DEF Folded, Steps
  <1> QED  BY <1>0, <1>2, <1>10, <1>11 DEF n, V, Folded, Steps

LEMMA MethodAttrsAre ==
  ASSUME NEW m, m.metas \in Seq(MetaSource)
  PROVE  /\ MethodAttrs(m).roles = {m.metas[i].is : i \in DOMAIN m.metas}
         /\ MethodAttrs(m).known <=> \A i \in DOMAIN m.metas : m.metas[i].is \in Roles
         /\ m.metas # <<>> /\ m.metas[Len(m.metas)].is = "op"
               => MethodAttrs(m).op = m.metas[Len(m.metas)]
  <1>0. PICK seq : seq = m.metas
    OBVIOUS
  <1>1. PICK F : /\ F \in [0 .. Len(seq) -> MethodState]
                 /\ F[0] = NoAttrs
                 /\ \A k \in 1 .. Len(seq) : F[k] = Meet(F[k-1], seq[k])
                 /\ MethodAttrs(m) = F[Len(seq)]
    BY <1>0, MethodFold
  <1> DEFINE n == Len(seq)
             Met(k) == /\ F[k].roles = {seq[i].is : i \in 1 .. k}
                       /\ F[k].known <=> \A i \in 1 .. k : seq[i].is \in Roles
                       /\ k # 0 /\ seq[k].is = "op" => F[k].op = seq[k]
             Good == {k \in Nat : k <= n => Met(k)}
  <1>2. n \in Nat /\ DOMAIN seq = 1 .. n /\ \A i \in 1 .. n : seq[i] \in MetaSource
    BY <1>0, LenProperties, ElementOfSeq
  <1> HIDE DEF n
  <1>3. 0 \in Good
    <2>1. 1 .. 0 = {}
      OBVIOUS
    <2> QED  BY <1>1, <2>1 DEF NoAttrs
  <1>4. ASSUME NEW k \in Good PROVE k + 1 \in Good
    <2>0. k \in Nat /\ k + 1 \in Nat
      OBVIOUS
    <2> SUFFICES ASSUME k + 1 <= n PROVE Met(k + 1)
      BY Zenon, <2>0
    <2>1. /\ k <= n /\ k + 1 \in 1 .. n /\ k \in 0 .. n /\ (k + 1) - 1 = k
          /\ 1 .. k+1 = (1 .. k) \cup {k + 1}
      BY <1>2, <2>0
    <2>2. Met(k)
      BY Zenon, <2>1
    <2> HIDE DEF Good
    <2>3. F[k+1] = Meet(F[k], seq[k+1]) /\ F[k] \in MethodState /\ seq[k+1] \in MetaSource
      BY <1>1, <1>2, <2>1 DEF n
    <2>4. HasMetRole(F[k+1], F[k], seq[k+1])
      BY <2>3, MethodMeets
    <2>5. {seq[i].is : i \in 1 .. k+1} = {seq[i].is : i \in 1 .. k} \cup {seq[k+1].is}
      BY <2>1
    <2> QED  BY <2>1, <2>2, <2>4, <2>5 DEF HasMetRole
  <1> HIDE DEF Good
  <1>5. \A k \in Nat : k \in Good
    BY <1>3, <1>4, SetInduction DEF Good
  <1>6. Met(n)
    <2>1. n <= n
      BY <1>2
    <2> QED  BY Zenon, <1>2, <1>5, <2>1 DEF Good
  <1>7. seq # <<>> => n # 0
    BY <1>0, <1>2, EmptySeq DEF n
  <1> QED  BY <1>0, <1>1, <1>2, <1>6, <1>7 DEF n

(* The arguments of the service attribute, read one by one. *)
ArgSource == [is : STRING, literal : BOOLEAN, n : Nat]
ArgState == [ok : BOOLEAN, view : BOOLEAN, command : Nat, event : Nat]

Readable(arg) ==
    \/ arg.is = "view"
    \/ arg.is \in {"command_capacity", "event_capacity"} /\ arg.literal /\ arg.n > 0

LEMMA ArgReads ==
  ASSUME NEW a \in ArgState, NEW arg \in ArgSource
  PROVE  /\ ReadArg(a, arg) \in ArgState
         /\ ReadArg(a, arg).ok <=> a.ok /\ Readable(arg)
  BY DEF ReadArg, ArgState, ArgSource, Readable

LEMMA ArgFold ==
  ASSUME NEW st, st.args \in Seq(ArgSource)
  PROVE  \E F : /\ F \in [0 .. Len(st.args) -> ArgState]
                /\ F[0] = NoArgs
                /\ \A k \in 1 .. Len(st.args) : F[k] = ReadArg(F[k-1], st.args[k])
                /\ Args(st) = F[Len(st.args)]
  <1>0. PICK seq : seq = st.args
    OBVIOUS
  <1> DEFINE n == Len(seq)
             V == ArgState
             step == [p \in (1 .. n) \X V |-> ReadArg(p[2], seq[p[1]])]
             Iter(g) == g = [d \in SUBSET (1 .. n) |->
                                IF d = {} THEN NoArgs
                                ELSE ReadArg(g[d \ {Max(d)}], seq[Max(d)])]
             g == CHOOSE g : Iter(g)
  <1>1. n \in Nat /\ DOMAIN seq = 1 .. n /\ \A i \in 1 .. n : seq[i] \in ArgSource
    BY <1>0, LenProperties, ElementOfSeq
  <1>2. Args(st) = g[1 .. n]
    BY <1>0, <1>1 DEF Args, FoldLeft, MapThenFoldSet
  <1>3. step \in [(1 .. n) \X V -> V] /\ NoArgs \in V
    <2>1. NoArgs \in V
      BY DEF NoArgs, ArgState, DefaultCapacity
    <2>2. \A p \in (1 .. n) \X V : ReadArg(p[2], seq[p[1]]) \in V
      BY <1>1, ArgReads
    <2> QED  BY <2>1, <2>2
  <1>4. \A v \in V : \A k \in 1 .. n : step[<<k, v>>] = ReadArg(v, seq[k])
    OBVIOUS
  <1>5. \A d \in SUBSET (1 .. n) : d # {} =>
           Max(d) \in 1 .. n /\ d \ {Max(d)} \in SUBSET (1 .. n)
    BY <1>1, MaxOf
  <1> HIDE DEF step, n, V
  <1>6. PICK h \in [SUBSET (1 .. n) -> V] : Folds(h, n, NoArgs, step)
    BY <1>1, <1>3, FoldExists
  <1>7. Iter(h)
    <2>1. \A d \in SUBSET (1 .. n) :
             h[d] = IF d = {} THEN NoArgs ELSE ReadArg(h[d \ {Max(d)}], seq[Max(d)])
      BY <1>4, <1>5, <1>6 DEF Folds
    <2> QED  BY <2>1
  <1>8. Iter(g)
    BY <1>7
  <1> HIDE DEF g
  <1>9. \A d \in SUBSET (1 .. n) :
           g[d] = IF d = {} THEN NoArgs ELSE ReadArg(g[d \ {Max(d)}], seq[Max(d)])
    BY <1>8
  <1> HIDE DEF Iter
  <1>10. PICK F : Folded(F, n, V, NoArgs, step, g[1 .. n])
    <2>1. {} \in SUBSET (1 .. n)
      OBVIOUS
    <2>2. Takes(g, n, V, NoArgs, step)
      BY <1>4, <1>5, <1>9, <2>1 DEF Takes
    <2> QED  BY <1>1, <1>3, <2>2, FoldIs
  <1>11. \A k \in 1 .. n : F[k] = ReadArg(F[k-1], seq[k])
    <2>1. \A k \in 1 .. n : k-1 \in 0 .. n
      BY <1>1
    <2> QED  BY <1>4, <1>10, <2>1 DEF Folded, Steps
  <1> QED  BY <1>0, <1>2, <1>10, <1>11 DEF n, V, Folded, Steps

LEMMA ArgsAre ==
  ASSUME NEW st, st.args \in Seq(ArgSource)
  PROVE  Args(st).ok <=> \A arg \in ToSet(st.args) : Readable(arg)
  <1>0. PICK seq : seq = st.args
    OBVIOUS
  <1>1. PICK F : /\ F \in [0 .. Len(seq) -> ArgState]
                 /\ F[0] = NoArgs
                 /\ \A k \in 1 .. Len(seq) : F[k] = ReadArg(F[k-1], seq[k])
                 /\ Args(st) = F[Len(seq)]
    BY <1>0, ArgFold
  <1> DEFINE n == Len(seq)
             Met(k) == F[k].ok <=> \A i \in 1 .. k : Readable(seq[i])
             Good == {k \in Nat : k <= n => Met(k)}
  <1>2. n \in Nat /\ DOMAIN seq = 1 .. n /\ \A i \in 1 .. n : seq[i] \in ArgSource
    BY <1>0, LenProperties, ElementOfSeq
  <1> HIDE DEF n
  <1>3. 0 \in Good
    <2>1. 1 .. 0 = {}
      OBVIOUS
    <2> QED  BY <1>1, <2>1 DEF NoArgs
  <1>4. ASSUME NEW k \in Good PROVE k + 1 \in Good
    <2>0. k \in Nat /\ k + 1 \in Nat
      OBVIOUS
    <2> SUFFICES ASSUME k + 1 <= n PROVE Met(k + 1)
      BY Zenon, <2>0
    <2>1. /\ k <= n /\ k + 1 \in 1 .. n /\ k \in 0 .. n /\ (k + 1) - 1 = k
          /\ 1 .. k+1 = (1 .. k) \cup {k + 1}
      BY <1>2, <2>0
    <2>2. Met(k)
      BY Zenon, <2>1
    <2> HIDE DEF Good
    <2>3. PICK a \in ArgState : a = F[k]
      BY <1>1, <2>1 DEF n
    <2>4. PICK b : b = F[k+1]
      OBVIOUS
    <2>5. b = ReadArg(a, seq[k+1]) /\ seq[k+1] \in ArgSource
      BY <1>1, <1>2, <2>1, <2>3, <2>4 DEF n
    <2>6. b.ok <=> a.ok /\ Readable(seq[k+1])
      BY <2>5, ArgReads
    <2> QED  BY <2>1, <2>2, <2>3, <2>4, <2>6
  <1> HIDE DEF Good
  <1>5. \A k \in Nat : k \in Good
    BY <1>3, <1>4, SetInduction DEF Good
  <1>6. Met(n)
    <2>1. n <= n
      BY <1>2
    <2> QED  BY Zenon, <1>2, <1>5, <2>1 DEF Good
  <1> QED  BY <1>0, <1>1, <1>2, <1>6 DEF ToSet, n

------------------------------------------------------------------------------
(* The macros refuse what is not legal.                                     *)
LEMMA StructRefusal ==
  ASSUME program \in Programs
  PROVE  StructRefused(s) <=> ~LegalStruct
  <1>1. /\ s.args \in Seq(ArgSource) /\ s.attrs \in Seq([is : STRING, events : Seq(STRING)])
        /\ s.fields \in Seq(FieldSource)
    BY ProgramsAssumption DEF s, StructSource, FieldSource, ArgSource
  <1>2. Args(s).ok <=> \A arg \in ToSet(s.args) : Readable(arg)
    BY <1>1, ArgsAre
  <1>3. StructAttrsKnown(s) <=> \A attr \in ToSet(s.attrs) : attr.is = "emits"
    BY DEF StructAttrsKnown, ToSet
  <1>4. ASSUME NEW i \in DOMAIN s.fields
        PROVE  FieldRefused(s.fields[i]) <=>
                  ~(/\ ToSet(s.fields[i].metas) \subseteq Known
                    /\ ~({"get", "gauge"} \subseteq ToSet(s.fields[i].metas)))
    <2>1. PICK f : f = s.fields[i]
      OBVIOUS
    <2>2. f \in FieldSource
      BY <1>1, <2>1, ElementOfSeq, LenProperties
    <2>3. f.metas \in Seq(STRING)
      BY <2>2 DEF FieldSource
    <2>4. /\ FieldAttrs(f).known <=> ToSet(f.metas) \subseteq Known
          /\ FieldAttrs(f).get <=> "get" \in ToSet(f.metas)
          /\ FieldAttrs(f).gauge <=> "gauge" \in ToSet(f.metas)
      BY <2>3, FieldAttrsAre
    <2> QED  BY <2>1, <2>4 DEF FieldRefused
  <1>5. (\E i \in DOMAIN s.fields : FieldRefused(s.fields[i]))
           <=> ~\A f \in ToSet(s.fields) :
                   /\ ToSet(f.metas) \subseteq Known
                   /\ ~({"get", "gauge"} \subseteq ToSet(f.metas))
    BY <1>4 DEF ToSet
  <1> QED  BY <1>2, <1>3, <1>5 DEF StructRefused, LegalStruct, Readable, Known

(* Attributes are of more than one role exactly when two of them differ.    *)
ValuesAt(f, n) == {f[i] : i \in 1 .. n}

LEMMA OneRole ==
  ASSUME NEW n \in Nat, NEW f, n # 0
  PROVE  Cardinality(ValuesAt(f, n)) > 1
            <=> \E i, j \in 1 .. n : f[i] # f[j]
  <1> DEFINE R == {f[i] : i \in 1 .. n}
  <1>1. IsFiniteSet(R)
    <2>1. IsFiniteSet(1 .. n)
      BY FS_Interval
    <2>2. [i \in 1 .. n |-> f[i]] \in Surjection(1 .. n, R)
      BY DEF Surjection
    <2>3. PICK h \in Surjection(1 .. n, R) : TRUE
      BY <2>2
    <2> HIDE DEF R
    <2> QED  BY <2>1, <2>3, FS_Surjection
  <1>2. Cardinality(R) \in Nat
    BY <1>1, FS_CardinalityType
  <1>3. ASSUME NEW i \in 1 .. n, NEW j \in 1 .. n, f[i] # f[j]
        PROVE  Cardinality(R) > 1
    <2>1. {f[i]} \in SUBSET R /\ f[j] \in R \ {f[i]}
      BY <1>3
    <2>2. IsFiniteSet({f[i]}) /\ Cardinality({f[i]}) = 1
      BY FS_Singleton
    <2>3. Cardinality({f[i]}) <= Cardinality(R)
          /\ (Cardinality(R) = Cardinality({f[i]}) => R = {f[i]})
      BY <1>1, <2>1, FS_Subset
    <2> QED  BY <1>2, <2>1, <2>2, <2>3
  <1>4. ASSUME \A i, j \in 1 .. n : f[i] = f[j]
        PROVE  ~(Cardinality(R) > 1)
    <2>1. 1 \in 1 .. n
      OBVIOUS
    <2>2. R = {f[1]}
      BY <1>4, <2>1
    <2>3. Cardinality(R) = 1
      BY <2>2, FS_Singleton
    <2> QED  BY <2>3
  <1> QED  BY <1>3, <1>4 DEF ValuesAt

(* What the macro refuses of a method is what is not legal in any one role. *)
LEMMA MethodRefusal ==
  ASSUME NEW m \in MethodSource
  PROVE  MethodRefused(m) <=> ~LegalMethod(m)
  <1> DEFINE n == Len(m.metas)
             A == MethodAttrs(m)
             is == [i \in 1 .. n |-> m.metas[i].is]
  <1>0. /\ m.metas \in Seq(MetaSource) /\ m.self \in BOOLEAN /\ m.params \in Nat
        /\ m.args \in {"simple", "unnamed", "pattern"}
    <2>1. m.metas \in Seq([is : STRING, execute : BOOLEAN, timeout : BOOLEAN])
      BY DEF MethodSource
    <2>2. /\ n \in Nat /\ DOMAIN m.metas = 1 .. n
          /\ \A i \in 1 .. n : m.metas[i] \in [is : STRING, execute : BOOLEAN, timeout : BOOLEAN]
      BY <2>1, LenProperties, ElementOfSeq
    <2>3. m.metas \in [1 .. n -> [is : STRING, execute : BOOLEAN, timeout : BOOLEAN]]
      BY <2>1, SeqDef, LenProperties
    <2>4. m.metas \in [1 .. n -> MetaSource]
      BY <2>3 DEF MetaSource
    <2> QED  BY <2>2, <2>4, FunctionSeq DEF MethodSource
  <1>1. /\ n \in Nat /\ DOMAIN m.metas = 1 .. n
        /\ \A i \in 1 .. n : m.metas[i] \in MetaSource
        /\ m.metas = <<>> <=> n = 0
    BY <1>0, LenProperties, ElementOfSeq, EmptySeq
  <1>2. /\ A.roles = {is[i] : i \in 1 .. n}
        /\ A.known <=> \A i \in 1 .. n : is[i] \in Roles
        /\ n # 0 /\ is[n] = "op" => A.op = m.metas[n]
    <2>1. /\ A.roles = {m.metas[i].is : i \in DOMAIN m.metas}
          /\ A.known <=> \A i \in DOMAIN m.metas : m.metas[i].is \in Roles
          /\ m.metas # <<>> /\ m.metas[Len(m.metas)].is = "op"
                => A.op = m.metas[Len(m.metas)]
      BY <1>0, MethodAttrsAre
    <2>2. {m.metas[i].is : i \in DOMAIN m.metas} = {is[i] : i \in 1 .. n}
      BY <1>1
    <2>3. n # 0 => n \in 1 .. n
      BY <1>1
    <2> QED  BY <2>1, <2>2, <2>3, <1>1
  <1>3. \A i \in 1 .. n : m.metas[i].is = is[i]
    OBVIOUS
  <1> HIDE DEF A, is
  <1>4. CASE n = 0
    <2>1. A.roles = {} /\ A.known
      BY <1>2, <1>4
    <2>2. Cardinality(A.roles) = 0 /\ RoleOf(m) = "none"
      BY <2>1, FS_EmptySet DEF RoleOf, A
    <2> QED  BY <1>1, <1>4, <2>1, <2>2 DEF MethodRefused, LegalMethod, A
  <1>5. CASE n # 0 /\ ~(\A i \in 1 .. n : is[i] \in Roles)
    <2>1. MethodRefused(m)
      BY <1>2, <1>5 DEF MethodRefused, A
    <2>2. ~LegalMethod(m)
      BY <1>1, <1>3, <1>5 DEF LegalMethod, LegalAs
    <2> QED  BY <2>1, <2>2
  <1>6. CASE n # 0 /\ \E i, j \in 1 .. n : is[i] # is[j]
    <2>1. Cardinality(ValuesAt(is, n)) > 1
      BY <1>1, <1>6, OneRole
    <2>3. Cardinality(A.roles) > 1
      BY <2>1, <1>2 DEF ValuesAt
    <2>4. MethodRefused(m)
      BY <2>3 DEF MethodRefused, A
    <2>2. ~LegalMethod(m)
      BY <1>1, <1>3, <1>6 DEF LegalMethod, LegalAs
    <2> QED  BY <2>4, <2>2
  <1>7. CASE n # 0 /\ (\A i \in 1 .. n : is[i] \in Roles) /\ \A i, j \in 1 .. n : is[i] = is[j]
    <2>1. PICK r \in Roles : r = is[n]
      <3>1. n \in 1 .. n
        BY <1>1, <1>7
      <3> QED  BY <1>7, <3>1
    <2>2. \A i \in 1 .. n : is[i] = r
      BY <1>1, <1>7, <2>1
    <2>3. A.roles = {r} /\ A.known /\ ~(Cardinality(A.roles) > 1)
      <3>1. 1 \in 1 .. n
        BY <1>1, <1>7
      <3>2. A.roles = {r} /\ A.known
        BY <1>2, <2>2, <3>1
      <3>3. Cardinality({r}) = 1
        BY FS_Singleton
      <3> QED  BY <3>2, <3>3
    <2>4. RoleOf(m) = r
      BY <2>3 DEF RoleOf, A
    <2>5. PICK op \in MetaSource : op = m.metas[n]
      BY <1>1, <1>7
    <2>6. r = "op" => A.op = op
      BY <1>2, <1>7, <2>1, <2>5
    <2>7. LegalMethod(m) <=> LegalAs(m, r)
      <3>1. \A q \in Roles : LegalAs(m, q) => q = r
        BY <1>1, <1>3, <1>7, <2>1, <2>2 DEF LegalAs
      <3> QED  BY <1>1, <1>7, <3>1 DEF LegalMethod
    <2>8. LegalAs(m, r) <=>
             /\ r = "op" => /\ op.execute <=> op.timeout
                            /\ op.execute <=> ~m.self
                            /\ m.returns = IF op.execute THEN "Start" ELSE "Result"
             /\ r = "from" => m.params > 0 /\ m.args # "unnamed"
             /\ r # "watch" => m.args # "pattern"
      <3>1. \A i \in DOMAIN m.metas : m.metas[i].is = r
        BY <1>1, <1>3, <2>2
      <3>2. /\ op.execute \in BOOLEAN /\ op.timeout \in BOOLEAN /\ m.self \in BOOLEAN
        BY <1>0 DEF MetaSource
      <3> QED  BY <2>5, <3>1, <3>2 DEF LegalAs
    <2>9. MethodRefused(m) <=>
             \/ r = "op" /\ OpRefused(m)
             \/ r = "from" /\ EventRefused(m)
             \/ r \in {"command", "direct", "direct_mut", "task"} /\ m.args = "pattern"
      BY <2>3, <2>4 DEF MethodRefused, A
    <2>10. CASE r = "op"
      <3>1. OpRefused(m) <=>
               \/ m.args = "pattern"
               \/ op.execute /\ (m.self \/ ~op.timeout \/ m.returns # "Start")
               \/ ~op.execute /\ (op.timeout \/ ~m.self \/ m.returns # "Result")
        BY <2>6, <2>10 DEF OpRefused, A
      <3>2. LegalAs(m, r) <=>
               /\ op.execute <=> op.timeout
               /\ op.execute <=> ~m.self
               /\ m.returns = (IF op.execute THEN "Start" ELSE "Result")
               /\ m.args # "pattern"
        BY <2>8, <2>10
      <3>3. MethodRefused(m) <=> OpRefused(m)
        BY <2>9, <2>10
      <3> QED  BY <2>7, <3>1, <3>2, <3>3
    <2>11. CASE r = "from"
      <3>1. EventRefused(m) <=> ~(m.params > 0 /\ m.args # "unnamed" /\ m.args # "pattern")
        BY <1>0 DEF EventRefused
      <3> QED  BY <2>7, <2>8, <2>9, <2>11, <3>1
    <2>12. CASE r \notin {"op", "from"}
      BY <2>7, <2>8, <2>9, <2>12 DEF Roles
    <2> QED  BY <2>10, <2>11, <2>12
  <1> QED  BY <1>4, <1>5, <1>6, <1>7

(* The verdict is the macros', and stays. *)
RefusalInv ==
    /\ program \in Programs
    /\ phase # "source" => (phase = "refused" <=> StructRefused(s) \/ BlockRefused(methods))

LEMMA RefusalInit == Init => RefusalInv
  BY DEF Init, RefusalInv

LEMMA RefusalStep == RefusalInv /\ [Next]_vars => RefusalInv'
  <1> SUFFICES ASSUME RefusalInv, [Next]_vars PROVE RefusalInv'
    OBVIOUS
  <1>0. methods' = methods /\ s' = s /\ program' = program
    BY DEF methods, s, Next, Expand, New, Store, Replace, ArmFirst, ArmNext, BeginSpawn, Seed,
           TakeCells, Subscribe, SpawnTask, PushTask, Step, SpawnReturns, Send, Execute, vars,
           compiler
  <1>1. CASE Expand
    <2>1. phase' = "refused" <=> StructRefused(s) \/ BlockRefused(methods)
      BY <1>1 DEF Expand
    <2> QED  BY <1>0, <2>1 DEF RefusalInv
  <1>2. CASE ~Expand
    <2>1. phase' = phase \/ (/\ phase \in {"compiled", "owned", "spawning"}
                             /\ phase' \in {"owned", "spawning", "running"})
      BY <1>2 DEF Next, New, Store, Replace, ArmFirst, ArmNext, BeginSpawn, Seed,
                  TakeCells, Subscribe, SpawnTask, PushTask, Step, SpawnReturns, Send, Execute,
                  vars
    <2> QED  BY <1>0, <2>1 DEF RefusalInv
  <1> QED  BY <1>1, <1>2

LEMMA RefusalConsequence == RefusalInv => RefusedIffIllegal
  <1> SUFFICES ASSUME RefusalInv PROVE RefusedIffIllegal
    OBVIOUS
  <1>1. program \in Programs
    BY DEF RefusalInv
  <1>2. StructRefused(s) <=> ~LegalStruct
    BY <1>1, StructRefusal
  <1>3. BlockRefused(methods) <=> ~\A m \in ToSet(methods) : LegalMethod(m)
    <2>1. methods \in Seq(MethodSource)
      BY <1>1, ProgramsAssumption DEF methods
    <2>2. \A i \in DOMAIN methods : methods[i] \in MethodSource
      BY <2>1, ElementOfSeq, LenProperties
    <2>3. \A i \in DOMAIN methods : MethodRefused(methods[i]) <=> ~LegalMethod(methods[i])
      BY <2>2, MethodRefusal
    <2> QED  BY <2>3 DEF BlockRefused, ToSet
  <1> QED  BY <1>2, <1>3 DEF RefusalInv, RefusedIffIllegal

(* What RefusedIffIllegal says, of every source, with attributes in any     *)
(* number and order: the macros, which look at attributes one by one and    *)
(* stop at the first fault, refuse a source exactly when it is not one of   *)
(* those they describe (handlers.rs:271-360, 397-448; service.rs:159-243,   *)
(* 330-371).                                                                *)
THEOREM MacrosRefuse == Spec => []RefusedIffIllegal
  BY RefusalInit, RefusalStep, RefusalConsequence, PTL DEF Spec
================================================================================
