---------------------------- MODULE Metrics_proofs ----------------------------
(* What is proved of Metrics, for any numbers of commands, indices and       *)
(* readers, any capacity and any intervals: its types, how far a depth may   *)
(* be reported larger than it is, that the statistics read the ring back as  *)
(* it was filled, and the pace the ring is filled at.                        *)
EXTENDS Metrics, FiniteSetTheorems, WellFoundedInduction, TLAPS

------------------------------------------------------------------------------
(* The sum a set is folded into.  SumFunctionOnSet is recursive over the set *)
(* it sums, so what holds of it is by induction over that: from the least    *)
(* counterexample, natural numbers being well founded.                       *)
LEMMA LeastNatural ==
  ASSUME NEW S \in SUBSET Nat, S # {}
  PROVE  \E m \in S : \A k \in S : m <= k
  <1>1. \E R : IsWellFoundedOn(R, Nat) /\ \A x, y \in Nat : y < x => <<y, x>> \in R
    <2>1. \A x, y \in Nat : y < x => <<y, x>> \in OpToRel(<, Nat)
      BY DEF OpToRel
    <2> QED  BY <2>1, NatLessThanWellFounded
  <1>2. PICK R : IsWellFoundedOn(R, Nat) /\ \A x, y \in Nat : y < x => <<y, x>> \in R
    BY <1>1
  <1>3. PICK x \in S : \A y \in S : <<y, x>> \notin R
    BY <1>2, WFMin
  <1>4. \A y \in S : ~(y < x)
    BY <1>2, <1>3
  <1>5. \A y \in S : x <= y
    BY <1>4
  <1> QED  BY <1>5

LEMMA SetInduction ==
  ASSUME NEW S \in SUBSET Nat, 0 \in S, \A n \in S : n + 1 \in S
  PROVE  \A n \in Nat : n \in S
  <1> SUFFICES ASSUME Nat \ S # {} PROVE FALSE
    OBVIOUS
  <1>1. PICK m \in Nat \ S : \A k \in Nat \ S : m <= k
    BY LeastNatural
  <1>2. m # 0 /\ m-1 \in Nat /\ m-1 < m
    BY <1>1
  <1> QED  BY <1>1, <1>2

Picked(s) == CHOOSE x \in s : TRUE

IsSum(f, g, D) ==
    f = [s \in D |-> IF s = {} THEN 0 ELSE g[Picked(s)] + f[s \ {Picked(s)}]]

SumsUp(f, g, S) == IsSum(f, g, SUBSET S)

UpTo(n, S) == {s \in SUBSET S : Cardinality(s) <= n}

LEMMA SmallerSet ==
  ASSUME NEW S, IsFiniteSet(S), S # {}
  PROVE  /\ Picked(S) \in S
         /\ IsFiniteSet(S \ {Picked(S)})
         /\ Cardinality(S) \in Nat
         /\ Cardinality(S \ {Picked(S)}) = Cardinality(S) - 1
         /\ Cardinality(S \ {Picked(S)}) \in Nat
  <1>1. Picked(S) \in S
    BY DEF Picked
  <1> QED  BY <1>1, FS_RemoveElement, FS_CardinalityType

LEMMA SumAt ==
  ASSUME NEW f, NEW g, NEW D, IsSum(f, g, D), NEW s \in D
  PROVE  f[s] = IF s = {} THEN 0 ELSE g[Picked(s)] + f[s \ {Picked(s)}]
  BY DEF IsSum

LEMMA SumExists ==
  ASSUME NEW g, NEW S, IsFiniteSet(S)
  PROVE  \E f : SumsUp(f, g, S)
  <1> DEFINE Good == {n \in Nat : \E f : IsSum(f, g, UpTo(n, S))}
  <1>1. \A s \in SUBSET S : IsFiniteSet(s) /\ Cardinality(s) \in Nat
    BY FS_Subset, FS_CardinalityType
  <1>2. 0 \in Good
    <2> DEFINE f == [s \in UpTo(0, S) |-> 0]
    <2>1. \A s \in UpTo(0, S) : s = {}
      BY <1>1, FS_EmptySet DEF UpTo
    <2>2. IsSum(f, g, UpTo(0, S))
      BY <2>1 DEF IsSum
    <2> QED  BY <2>2
  <1>3. ASSUME NEW n \in Good PROVE n + 1 \in Good
    <2>1. PICK f : IsSum(f, g, UpTo(n, S))
      OBVIOUS
    <2> DEFINE h == [s \in UpTo(n+1, S) |->
                        IF s = {} THEN 0 ELSE g[Picked(s)] + f[s \ {Picked(s)}]]
    <2>2. \A s \in UpTo(n, S) : h[s] = f[s] /\ s \in UpTo(n+1, S)
      <3>1. \A s \in UpTo(n, S) : s \in UpTo(n+1, S)
        BY <1>1 DEF UpTo
      <3>2. \A s \in UpTo(n, S) :
               f[s] = IF s = {} THEN 0 ELSE g[Picked(s)] + f[s \ {Picked(s)}]
        BY <2>1, SumAt
      <3> QED  BY <3>1, <3>2
    <2>3. \A s \in UpTo(n+1, S) : s # {} => s \ {Picked(s)} \in UpTo(n, S)
      <3> SUFFICES ASSUME NEW s \in UpTo(n+1, S), s # {}
                   PROVE  s \ {Picked(s)} \in UpTo(n, S)
        OBVIOUS
      <3>1. IsFiniteSet(s) /\ Cardinality(s) <= n + 1 /\ s \in SUBSET S
        BY <1>1 DEF UpTo
      <3>2. Cardinality(s \ {Picked(s)}) <= n
        BY <3>1, SmallerSet
      <3> QED  BY <3>1, <3>2 DEF UpTo
    <2>4. h = [s \in UpTo(n+1, S) |->
                  IF s = {} THEN 0 ELSE g[Picked(s)] + h[s \ {Picked(s)}]]
      BY <2>2, <2>3
    <2>5. n + 1 \in Nat
      OBVIOUS
    <2> HIDE DEF h
    <2>6. IsSum(h, g, UpTo(n+1, S))
      BY <2>4 DEF IsSum
    <2> QED  BY <2>5, <2>6
  <1> HIDE DEF Good
  <1>4. \A n \in Nat : n \in Good
    BY <1>2, <1>3, SetInduction DEF Good
  <1>5. UpTo(Cardinality(S), S) = SUBSET S
    BY FS_Subset DEF UpTo
  <1>6. Cardinality(S) \in Good
    BY <1>4, <1>1
  <1> QED  BY <1>5, <1>6 DEF Good, SumsUp

LEMMA SumUnique ==
  ASSUME NEW g, NEW S, IsFiniteSet(S), NEW T \in SUBSET S,
         NEW f, SumsUp(f, g, S), NEW h, SumsUp(h, g, T)
  PROVE  f[T] = h[T]
  <1> DEFINE Good == {n \in Nat : \A s \in SUBSET T : Cardinality(s) = n => f[s] = h[s]}
  <1>1. \A s \in SUBSET T : s \in SUBSET S /\ IsFiniteSet(s) /\ Cardinality(s) \in Nat
    BY FS_Subset, FS_CardinalityType
  <1>a. \A s \in SUBSET S : f[s] = IF s = {} THEN 0 ELSE g[Picked(s)] + f[s \ {Picked(s)}]
    BY SumAt DEF SumsUp
  <1>b. \A s \in SUBSET T : h[s] = IF s = {} THEN 0 ELSE g[Picked(s)] + h[s \ {Picked(s)}]
    BY SumAt DEF SumsUp
  <1>2. 0 \in Good
    BY <1>1, <1>a, <1>b, FS_EmptySet
  <1>3. ASSUME NEW n \in Good PROVE n + 1 \in Good
    <2> SUFFICES ASSUME NEW s \in SUBSET T, Cardinality(s) = n + 1 PROVE f[s] = h[s]
      OBVIOUS
    <2>1. s # {}
      <3>1. Cardinality(s) # 0
        OBVIOUS
      <3> QED  BY <3>1, FS_EmptySet
    <2>2. s \ {Picked(s)} \in SUBSET T /\ Cardinality(s \ {Picked(s)}) = n
      BY <1>1, <2>1, SmallerSet
    <2>3. f[s \ {Picked(s)}] = h[s \ {Picked(s)}]
      BY <2>2
    <2> QED  BY <1>1, <1>a, <1>b, <2>1, <2>3
  <1> HIDE DEF Good
  <1>4. \A n \in Nat : n \in Good
    BY <1>2, <1>3, SetInduction DEF Good
  <1> QED  BY <1>1, <1>4 DEF Good

LEMMA SumIs ==
  ASSUME NEW g, NEW S, IsFiniteSet(S)
  PROVE  SumFunctionOnSet(g, S) =
            IF S = {} THEN 0
            ELSE g[Picked(S)] + SumFunctionOnSet(g, S \ {Picked(S)})
  <1> DEFINE T == S \ {Picked(S)}
             fS == CHOOSE f : SumsUp(f, g, S)
             fT == CHOOSE f : SumsUp(f, g, T)
  <1>1. SumFunctionOnSet(g, S) = fS[S] /\ SumFunctionOnSet(g, T) = fT[T]
    BY DEF SumFunctionOnSet, FoldFunctionOnSet, MapThenFoldSet, SumsUp, IsSum, Picked
  <1>2. IsFiniteSet(T) /\ T \in SUBSET S
    BY FS_Subset
  <1> HIDE DEF T
  <1>3. SumsUp(fS, g, S) /\ SumsUp(fT, g, T)
    BY <1>2, SumExists
  <1> HIDE DEF fS, fT
  <1>4. fS[S] = IF S = {} THEN 0 ELSE g[Picked(S)] + fS[T]
    <2>1. S \in SUBSET S
      OBVIOUS
    <2> QED  BY <1>3, <2>1, SumAt DEF T, SumsUp
  <1>5. fS[T] = fT[T]
    BY <1>2, <1>3, SumUnique
  <1> QED  BY <1>1, <1>4, <1>5 DEF T

(* In whatever order. *)
LEMMA SumTyped ==
  ASSUME NEW S, IsFiniteSet(S), NEW g, \A x \in S : g[x] \in Nat
  PROVE  SumFunctionOnSet(g, S) \in Nat
  <1> DEFINE Good == {n \in Nat : \A s \in SUBSET S :
                      Cardinality(s) = n => SumFunctionOnSet(g, s) \in Nat}
  <1>1. \A s \in SUBSET S : IsFiniteSet(s) /\ Cardinality(s) \in Nat
    BY FS_Subset, FS_CardinalityType
  <1>2. 0 \in Good
    BY <1>1, SumIs, FS_EmptySet
  <1>3. ASSUME NEW n \in Good PROVE n + 1 \in Good
    <2> SUFFICES ASSUME NEW s \in SUBSET S, Cardinality(s) = n + 1
                 PROVE  SumFunctionOnSet(g, s) \in Nat
      OBVIOUS
    <2>1. s # {}
      <3>1. Cardinality(s) # 0
        OBVIOUS
      <3> QED  BY <3>1, FS_EmptySet
    <2>2. /\ s \ {Picked(s)} \in SUBSET S
          /\ Cardinality(s \ {Picked(s)}) = n
          /\ Picked(s) \in S
      BY <1>1, <2>1, SmallerSet
    <2>3. SumFunctionOnSet(g, s \ {Picked(s)}) \in Nat
      BY <2>2
    <2>4. SumFunctionOnSet(g, s) = g[Picked(s)] + SumFunctionOnSet(g, s \ {Picked(s)})
      BY <1>1, <2>1, SumIs
    <2>5. g[Picked(s)] \in Nat
      BY <2>2
    <2> QED  BY <2>3, <2>4, <2>5
  <1> HIDE DEF Good
  <1>4. \A n \in Nat : n \in Good
    BY <1>2, <1>3, SetInduction DEF Good
  <1> QED  BY <1>1, <1>4 DEF Good

LEMMA SumAnyOrder ==
  ASSUME NEW S, IsFiniteSet(S), NEW g, \A x \in S : g[x] \in Nat, NEW y \in S
  PROVE  SumFunctionOnSet(g, S) = g[y] + SumFunctionOnSet(g, S \ {y})
  <1> DEFINE Sum(s) == SumFunctionOnSet(g, s)
             Good == {n \in Nat : \A s \in SUBSET S : Cardinality(s) = n =>
                      \A z \in s : Sum(s) = g[z] + Sum(s \ {z})}
  <1>1. \A s \in SUBSET S : IsFiniteSet(s) /\ Cardinality(s) \in Nat /\ Sum(s) \in Nat
    <2> SUFFICES ASSUME NEW s \in SUBSET S
                 PROVE  IsFiniteSet(s) /\ Cardinality(s) \in Nat /\ Sum(s) \in Nat
      OBVIOUS
    <2>1. IsFiniteSet(s)
      BY FS_Subset
    <2> QED  BY <2>1, FS_CardinalityType, SumTyped
  <1>2. \A s \in SUBSET S : s # {} => Sum(s) = g[Picked(s)] + Sum(s \ {Picked(s)})
    BY <1>1, SumIs
  <1> HIDE DEF Sum
  <1>3. 0 \in Good
    BY <1>1, FS_EmptySet
  <1>4. ASSUME NEW n \in Good PROVE n + 1 \in Good
    <2> SUFFICES ASSUME NEW s \in SUBSET S, Cardinality(s) = n + 1, NEW z \in s
                 PROVE  Sum(s) = g[z] + Sum(s \ {z})
      OBVIOUS
    <2> DEFINE p == Picked(s)
    <2>1. Sum(s) = g[p] + Sum(s \ {p}) /\ p \in s
      BY <1>1, <1>2, SmallerSet
    <2>2. CASE p = z
      BY <2>1, <2>2
    <2>3. CASE p # z
      <3>1. Cardinality(s \ {p}) = n /\ Cardinality(s \ {z}) = n
        BY <1>1, <2>1, FS_RemoveElement
      <3>2. Sum(s \ {p}) = g[z] + Sum((s \ {p}) \ {z})
        BY <3>1, <2>1, <2>3
      <3>3. Sum(s \ {z}) = g[p] + Sum((s \ {z}) \ {p})
        BY <3>1, <2>1, <2>3
      <3>4. (s \ {p}) \ {z} = (s \ {z}) \ {p}
        OBVIOUS
      <3>5. Sum((s \ {z}) \ {p}) \in Nat /\ g[p] \in Nat /\ g[z] \in Nat
        BY <1>1, <2>1
      <3> HIDE DEF p
      <3>6. Sum((s \ {p}) \ {z}) = Sum((s \ {z}) \ {p})
        BY <3>4
      <3> QED  BY <2>1, <3>2, <3>3, <3>5, <3>6
    <2> QED  BY <2>2, <2>3
  <1> HIDE DEF Good
  <1>5. \A n \in Nat : n \in Good
    BY <1>3, <1>4, SetInduction DEF Good
  <1>6. Cardinality(S) \in Good
    BY <1>1, <1>5
  <1> QED  BY <1>6 DEF Good, Sum

(* Two functions that agree through an injection have one sum. *)
LEMMA SumThrough ==
  ASSUME NEW S, IsFiniteSet(S), NEW g, \A x \in S : g[x] \in Nat,
         NEW f, \A x, y \in S : f[x] = f[y] => x = y,
         NEW h, \A x \in S : h[f[x]] = g[x]
  PROVE  SumFunctionOnSet(g, S) = SumFunctionOnSet(h, {f[x] : x \in S})
  <1> DEFINE Image(s) == {f[x] : x \in s}
             Good == {n \in Nat : \A s \in SUBSET S : Cardinality(s) = n =>
                      SumFunctionOnSet(g, s) = SumFunctionOnSet(h, Image(s))}
  <1>1. \A s \in SUBSET S : IsFiniteSet(s) /\ Cardinality(s) \in Nat /\ IsFiniteSet(Image(s))
    <2> SUFFICES ASSUME NEW s \in SUBSET S
                 PROVE  /\ IsFiniteSet(s) /\ Cardinality(s) \in Nat
                        /\ IsFiniteSet(Image(s))
      OBVIOUS
    <2>1. IsFiniteSet(s) /\ Cardinality(s) \in Nat
      BY FS_Subset, FS_CardinalityType
    <2>2. [x \in s |-> f[x]] \in Surjection(s, Image(s))
      BY DEF Surjection
    <2> QED  BY <2>1, <2>2, FS_Surjection
  <1>2. 0 \in Good
    <2> SUFFICES ASSUME NEW s \in SUBSET S, Cardinality(s) = 0
                 PROVE  SumFunctionOnSet(g, s) = SumFunctionOnSet(h, Image(s))
      OBVIOUS
    <2>1. s = {} /\ Image(s) = {}
      BY <1>1, FS_EmptySet
    <2> HIDE DEF Image
    <2> QED  BY <1>1, <2>1, SumIs
  <1>3. ASSUME NEW n \in Good PROVE n + 1 \in Good
    <2> SUFFICES ASSUME NEW s \in SUBSET S, Cardinality(s) = n + 1
                 PROVE  SumFunctionOnSet(g, s) = SumFunctionOnSet(h, Image(s))
      OBVIOUS
    <2> DEFINE p == Picked(s)
               r == s \ {p}
    <2>1. s # {}
      <3>1. Cardinality(s) # 0
        OBVIOUS
      <3> QED  BY <3>1, FS_EmptySet
    <2>2. p \in S /\ p \in s /\ r \in SUBSET S /\ Cardinality(r) = n
      <3>1. n \in Nat /\ IsFiniteSet(s)
        BY <1>1
      <3>2. p \in s /\ Cardinality(r) = Cardinality(s) - 1
        BY <3>1, <2>1, SmallerSet
      <3> HIDE DEF Good, Image, p
      <3> QED  BY <3>1, <3>2
    <2>3. SumFunctionOnSet(g, s) = g[p] + SumFunctionOnSet(g, r)
      BY <1>1, <2>1, SumIs
    <2>4. f[p] \in Image(s) /\ Image(r) = Image(s) \ {f[p]}
      BY <2>2
    <2>5. \A y \in Image(s) : h[y] \in Nat
      OBVIOUS
    <2> HIDE DEF Image, r, p
    <2>6. SumFunctionOnSet(h, Image(s)) = h[f[p]] + SumFunctionOnSet(h, Image(r))
      BY <1>1, <2>4, <2>5, SumAnyOrder
    <2>7. SumFunctionOnSet(g, r) = SumFunctionOnSet(h, Image(r))
      BY <2>2
    <2> QED  BY <2>2, <2>3, <2>6, <2>7
  <1> HIDE DEF Good
  <1>4. \A n \in Nat : n \in Good
    BY <1>2, <1>3, SetInduction DEF Good
  <1> QED  BY <1>1, <1>4 DEF Good

------------------------------------------------------------------------------
InRange(S, p) == {c \in S : IndexOf[c] \in sum[p].from .. sum[p].to}
Before(S, p) == {c \in S : IndexOf[c] \in sum[p].from .. sum[p].i - 1}

(* The processed commands p cannot miss: the loop none, and who is inside    *)
(* the mutex none that it was last given up with.                            *)
Due(p) ==
    IF p = Loop THEN processed
    ELSE IF mutex = p THEN released["processed"] ELSE {}

(* What p has loaded.  Of the enqueued, nothing but what has been sent; of   *)
(* the processed, all that is due of the counters it has gone over, and the  *)
(* loop and who is inside the mutex go over every one.                       *)
Loaded(p) ==
    /\ sum[p].i \in sum[p].from .. sum[p].to
    /\ sum[p].seen["enqueued"] \subseteq sent
    /\ Due(p) \subseteq known[p]["processed"]
    /\ sum[p].at = "processed" => Before(Due(p), p) \subseteq sum[p].seen["processed"]
    /\ sum[p].at = "done" => InRange(Due(p), p) \subseteq sum[p].seen["processed"]
    /\ p = Loop /\ sum[p].at # "none" =>
          loop = "sum" /\ sum[p].from = 0 /\ sum[p].to = N-1
    /\ p # Loop /\ mutex = p =>
          sum[p].at # "none" /\ sum[p].from = 0 /\ sum[p].to = N-1

(* No counter of the enqueued ever counted what had not been sent.           *)
SumsRight ==
    /\ \A p \in Summers : Loaded(p)
    /\ \A i \in Indices : \A v \in history["enqueued"][i] : v \subseteq sent

USE MetricsAssumption DEF Indices, Summers

(* The successor of a slot is a slot. *)
LEMMA NextSlot == ASSUME head \in Slots PROVE (head + 1) % Capacity \in Slots
  BY DEF Slots

LEMMA CommandsCounted ==
  ASSUME NEW S \in SUBSET Commands
  PROVE  Cardinality(S) \in Depths
  BY FS_Subset, FS_CardinalityType DEF Depths

LEMMA InitTyped == Init => TypeOK
  BY CommandsCounted DEF Init, TypeOK, Slots, NoSample, NoSum, SumOf, Nothing, Sums, Depths

(* A depth is no larger than the number of commands there are. *)
LEMMA DepthTyped ==
  ASSUME NEW seen \in [Sums -> SUBSET Commands] PROVE DepthOf(seen) \in Depths
  <1>1. /\ Cardinality(seen["enqueued"]) \in Depths
        /\ Cardinality(seen["processed"]) \in Depths
    BY CommandsCounted DEF Sums
  <1>2. Cardinality(Commands) \in Nat
    BY FS_CardinalityType
  <1> QED  BY <1>1, <1>2 DEF DepthOf, Monus, Depths

SumType == [at : Sums \cup {"none", "done"}, from : Indices, to : Indices,
            i : Indices, seen : [Sums -> SUBSET Commands]]

KnownType == [Sums -> SUBSET Commands]

LEMMA BegunTyped ==
  /\ \A i, j \in Indices : Begun(i, j) \in SumType
  /\ 0 \in Indices /\ N-1 \in Indices
  <1>1. \A i, j \in Indices : Begun(i, j) \in SumType
    BY DEF Begun, SumOf, Sums, SumType, Nothing
  <1>2. 0 \in Indices /\ N-1 \in Indices
    OBVIOUS
  <1> QED  BY <1>1, <1>2

(* What a sum over leaves. *)
LEMMA OverTyped ==
  ASSUME TypeOK, NEW p \in Summers, NEW k \in KnownType, SumOver(p, k)
  PROVE  sum' \in [Summers -> SumType] /\ known' \in [Summers -> KnownType]
  <1>1. NoSum \in SumType
    BY DEF NoSum, SumOf, Sums, SumType, Nothing
  <1> QED  BY <1>1 DEF TypeOK, SumOver, SumType, KnownType

LEMMA JoinTyped ==
  ASSUME NEW k \in KnownType, NEW r \in KnownType PROVE Join(k, r) \in KnownType
  BY DEF Join, KnownType, Sums

(* One value of one counter more. *)
LEMMA HistoryTyped ==
  ASSUME TypeOK, NEW s \in Sums, NEW c \in Commands, NEW S \in SUBSET Commands,
         Counts(s, c, S)
  PROVE  history' \in [Sums -> [Indices -> SUBSET SUBSET Commands]]
  <1>1. Of(S, IndexOf[c]) \in SUBSET Commands /\ IndexOf[c] \in Indices
    BY DEF Of
  <1>2. history \in [Sums -> [Indices -> SUBSET SUBSET Commands]]
    BY DEF TypeOK
  <1>3. history[s][IndexOf[c]] \cup {Of(S, IndexOf[c])} \in SUBSET SUBSET Commands
    BY <1>1, <1>2
  <1> QED  BY <1>1, <1>2, <1>3 DEF Counts

LEMMA LoadTyped == ASSUME TypeOK, SumsRight, NEW p \in Summers, Load(p) PROVE TypeOK'
  <1> DEFINE s == sum[p].at
             over == sum[p].i = sum[p].to
  <1>1. sum[p] \in SumType /\ s \in Sums
    BY DEF TypeOK, Load, SumType
  <1>2. PICK v \in Loadable(p, s, sum[p].i) :
            /\ sum' = [sum EXCEPT ![p] = WithLoad(p, v)]
            /\ known' = [known EXCEPT ![p][s] = @ \cup v]
    BY DEF Load
  <1>3. v \in SUBSET Commands
    <2>1. history[s][sum[p].i] \in SUBSET SUBSET Commands
      BY <1>1 DEF TypeOK, SumType
    <2> QED  BY <1>2, <2>1 DEF Loadable
  <1>4. sum[p].i \in sum[p].from .. sum[p].to
    BY DEF SumsRight, Loaded
  <1>5. (IF over THEN sum[p].from ELSE sum[p].i + 1) \in 0 .. N-1
    BY <1>1, <1>4 DEF SumType
  <1>6. WithLoad(p, v) \in SumType
    BY <1>1, <1>3, <1>5 DEF SumType, Then, Sums, WithLoad
  <1>7. sum' \in [Summers -> SumType]
    BY <1>2, <1>6 DEF TypeOK, SumType
  <1>8. known' \in [Summers -> KnownType]
    <2>1. known \in [Summers -> KnownType] /\ known[p][s] \cup v \in SUBSET Commands
      BY <1>1, <1>3 DEF TypeOK, KnownType
    <2> QED  BY <1>1, <1>2, <2>1 DEF KnownType
  <1> QED  BY <1>7, <1>8
           DEF TypeOK, Load, SumType, KnownType, loopVars, ring, sampling, counters

LEMMA PushTyped == ASSUME TypeOK, Push PROVE TypeOK'
  <1> DEFINE new == [at |-> now, depth |-> DepthOf(sum[Loop].seen)]
  <1>1. sum[Loop].seen \in [Sums -> SUBSET Commands]
    BY DEF TypeOK
  <1>2. new \in [at : 0 .. MaxTime, depth : Depths]
    BY <1>1, DepthTyped DEF TypeOK
  <1>3. buffer' \in [Slots -> [at : 0 .. MaxTime, depth : Depths]]
    BY <1>2 DEF TypeOK, Push
  <1>4. head' \in Slots
    BY NextSlot DEF TypeOK, Push
  <1>5. len' \in 0 .. Capacity
    BY DEF TypeOK, Push
  <1>6. released' \in KnownType
    <2>1. known[Loop] \in KnownType /\ released \in KnownType
      BY DEF TypeOK, KnownType
    <2> QED  BY <2>1, JoinTyped DEF Push
  <1>7. sum' \in [Summers -> SumType] /\ known' \in [Summers -> KnownType]
    BY <1>6, OverTyped DEF Push
  <1> QED  BY <1>3, <1>4, <1>5, <1>6, <1>7
           DEF TypeOK, Push, sampling, counters, SumType, KnownType

LEMMA StepTyped == ASSUME TypeOK, SumsRight, [Next]_vars PROVE TypeOK'
  <1> USE DEF loopVars, ring, sampling, summing, counters
  <1>1. CASE Tick
    BY <1>1 DEF TypeOK, Tick
  <1>2. ASSUME NEW c \in Commands, Send(c) PROVE TypeOK'
    BY <1>2 DEF TypeOK, Send
  <1>3. ASSUME NEW c \in Commands, IncEnqueued(c) PROVE TypeOK'
    <2>1. enqueued' \subseteq sent /\ sent \subseteq Commands
      BY <1>3 DEF TypeOK, IncEnqueued
    <2>2. history' \in [Sums -> [Indices -> SUBSET SUBSET Commands]]
      BY <1>3, <2>1, HistoryTyped DEF IncEnqueued, Sums
    <2> QED  BY <1>3, <2>1, <2>2 DEF TypeOK, IncEnqueued
  <1>4. ASSUME NEW p \in Summers, Load(p) PROVE TypeOK'
    BY <1>4, LoadTyped
  <1>5. ASSUME NEW c \in Commands, Receive(c) PROVE TypeOK'
    BY <1>5 DEF TypeOK, Receive
  <1>6. CASE EndTurn
    <2>1. sum' \in [Summers -> SumType]
      <3>1. Begun(0, N-1) \in SumType
        BY BegunTyped
      <3>2. sum \in [Summers -> SumType]
        BY DEF TypeOK, SumType
      <3> QED  BY <1>6, <3>1, <3>2 DEF EndTurn
    <2>2. loop' \in {"select", "turn", "sum", "reset", "count"}
      BY <1>6 DEF EndTurn
    <2>3. since' \in Nat
      BY <1>6 DEF TypeOK, EndTurn
    <2>4. UNCHANGED <<now, sent, counters, taken, hand, ring, mutex, last, known,
                      released>>
      BY <1>6 DEF EndTurn
    <2> QED  BY <2>1, <2>2, <2>3, <2>4 DEF TypeOK, SumType
  <1>7. CASE Push
    BY <1>7, PushTyped
  <1>8. CASE Reset
    BY <1>8 DEF TypeOK, Reset
  <1>9. CASE IncProcessed
    <2>1. PICK c \in hand :
              /\ processed' = processed \cup {c}
              /\ Counts("processed", c, processed')
              /\ known' = [known EXCEPT ![Loop]["processed"] = @ \cup {c}]
      BY <1>9 DEF IncProcessed
    <2>2. c \in Commands /\ processed' \subseteq taken /\ taken \subseteq Commands
      BY <2>1 DEF TypeOK
    <2>3. history' \in [Sums -> [Indices -> SUBSET SUBSET Commands]]
      BY <2>1, <2>2, HistoryTyped DEF Sums
    <2>4. known' \in [Summers -> KnownType]
      <3>1. known \in [Summers -> KnownType] /\ "processed" \in Sums
        BY DEF TypeOK, KnownType, Sums
      <3>2. known[Loop]["processed"] \cup {c} \in SUBSET Commands
        BY <2>2, <3>1 DEF KnownType
      <3> QED  BY <2>1, <3>1, <3>2 DEF KnownType
    <2> QED  BY <1>9, <2>2, <2>3, <2>4 DEF TypeOK, IncProcessed, KnownType
  <1>10. ASSUME NEW p \in Readers, Ask(p) PROVE TypeOK'
    <2>1. sum' \in [Summers -> SumType]
      <3>1. Begun(0, N-1) \in SumType
        BY BegunTyped
      <3>2. sum \in [Summers -> SumType] /\ p \in Summers
        BY DEF TypeOK, SumType
      <3> QED  BY <1>10, <3>1, <3>2 DEF Ask
    <2>2. known' \in [Summers -> KnownType]
      <3>1. Join(known[p], released) \in KnownType
        BY JoinTyped DEF TypeOK, KnownType
      <3>2. known \in [Summers -> KnownType] /\ p \in Summers
        BY DEF TypeOK, KnownType
      <3> QED  BY <1>10, <3>1, <3>2 DEF Ask
    <2> QED  BY <1>10, <2>1, <2>2 DEF TypeOK, Ask, SumType, KnownType
  <1>a. Nothing \in KnownType
    BY DEF Nothing, KnownType
  <1>11. ASSUME NEW p \in Readers, Answer(p) PROVE TypeOK'
    <2>1. sum' \in [Summers -> SumType] /\ known' \in [Summers -> KnownType]
      BY <1>11, <1>a, OverTyped DEF Answer
    <2>2. released' \in KnownType
      BY <1>11 DEF Answer, TypeOK, KnownType
    <2> QED  BY <1>11, <2>1, <2>2 DEF TypeOK, Answer, SumType, KnownType
  <1>12. ASSUME NEW p \in Readers, NEW i \in Indices, AskCommand(p, i) PROVE TypeOK'
    <2>1. sum' \in [Summers -> SumType]
      BY <1>12, BegunTyped DEF TypeOK, AskCommand, SumType
    <2> QED  BY <1>12, <2>1 DEF TypeOK, AskCommand, SumType
  <1>13. ASSUME NEW p \in Readers, AnswerCommand(p) PROVE TypeOK'
    <2>1. sum' \in [Summers -> SumType] /\ known' \in [Summers -> KnownType]
      BY <1>13, <1>a, OverTyped DEF AnswerCommand
    <2> QED  BY <1>13, <2>1 DEF TypeOK, AnswerCommand, SumType, KnownType
  <1>14. CASE UNCHANGED vars
    BY <1>14 DEF TypeOK, vars
  <1> QED  BY <1>1, <1>2, <1>3, <1>4, <1>5, <1>6, <1>7, <1>8, <1>9, <1>10,
              <1>11, <1>12, <1>13, <1>14 DEF Next, LoopStep

------------------------------------------------------------------------------
(* The loads: each action either leaves p's sum alone and adds nothing to    *)
(* what is due to it, or begins the sum, or takes it one load on.            *)
LEMMA InitLoaded == Init => SumsRight
  BY DEF Init, SumsRight, Loaded, Due, NoSum, SumOf, Nothing, Sums

LEMMA Untouched ==
  ASSUME SumsRight, NEW p \in Summers,
         sent \subseteq sent', Due(p)' \subseteq Due(p),
         sum'[p] = sum[p], known'[p] = known[p],
         p = Loop => (loop' = loop \/ loop # "sum"),
         p # Loop /\ mutex' = p => mutex = p
  PROVE  Loaded(p)'
  <1>1. Loaded(p)
    BY DEF SumsRight
  <1>2. /\ InRange(Due(p), p)' \subseteq InRange(Due(p), p)
        /\ Before(Due(p), p)' \subseteq Before(Due(p), p)
    BY DEF InRange, Before
  <1> QED  BY <1>1, <1>2 DEF Loaded

(* Nothing loaded yet, or nothing any longer. *)
LEMMA Fresh ==
  ASSUME NEW p \in Summers, NEW i \in Indices, NEW j \in Indices, i <= j,
         sum'[p] \in {NoSum, Begun(i, j)},
         Due(p)' \subseteq known'[p]["processed"],
         sum'[p] = NoSum => (p = Loop \/ mutex' # p),
         sum'[p] # NoSum /\ p = Loop => loop' = "sum" /\ i = 0 /\ j = N-1,
         p # Loop /\ mutex' = p => i = 0 /\ j = N-1
  PROVE  Loaded(p)'
  <1>1. /\ NoSum.at = "none" /\ Begun(i, j).at = "enqueued"
        /\ Begun(i, j).from = i /\ Begun(i, j).to = j /\ Begun(i, j).i = i
        /\ NoSum.i = 0 /\ NoSum.from = 0 /\ NoSum.to = 0
        /\ NoSum.seen["enqueued"] = {} /\ Begun(i, j).seen["enqueued"] = {}
    BY DEF NoSum, Begun, SumOf, Sums, Nothing
  <1>2. /\ sum'[p].i \in sum'[p].from .. sum'[p].to
        /\ sum'[p].seen["enqueued"] = {}
        /\ sum'[p].at \in {"none", "enqueued"}
        /\ sum'[p].at = "none" => sum'[p] = NoSum
        /\ sum'[p] # NoSum => sum'[p].at # "none" /\ sum'[p].from = i /\ sum'[p].to = j
    BY <1>1
  <1>3. p # Loop /\ mutex' = p => sum'[p] # NoSum
    OBVIOUS
  <1>4. sum'[p].at # "none" => sum'[p] # NoSum
    BY <1>1
  <1> QED  BY <1>2, <1>3, <1>4 DEF Loaded

LEMMA LoadOn ==
  ASSUME TypeOK, SumsRight, NEW p \in Summers, Load(p)
  PROVE  Loaded(p)'
  <1> DEFINE s == sum[p].at
             i == sum[p].i
             seen == sum[p].seen
  <1>0. PICK v \in Loadable(p, s, i) :
            /\ sum' = [sum EXCEPT ![p] = WithLoad(p, v)]
            /\ known' = [known EXCEPT ![p][s] = @ \cup v]
    BY DEF Load
  <1> USE DEF Loaded, InRange, Before
  <1>1. /\ sum'[p] = WithLoad(p, v)
        /\ Loaded(p)
        /\ sent' = sent /\ Due(p)' = Due(p) /\ mutex' = mutex /\ loop' = loop
        /\ sum[p] \in SumType
        /\ s \in {"enqueued", "processed"}
        /\ Due(p) \subseteq Commands
        /\ \A c \in Commands : IndexOf[c] \in Int
    <2>1. sum \in [Summers -> SumType] /\ s \in {"enqueued", "processed"}
      BY DEF TypeOK, SumType, Load, Sums
    <2>2. sum'[p] = WithLoad(p, v)
      BY <1>0, <2>1
    <2>3. sent' = sent /\ Due(p)' = Due(p) /\ mutex' = mutex /\ loop' = loop
      BY DEF Load, loopVars, counters, Due
    <2>4. Due(p) \subseteq Commands
      BY DEF Due, TypeOK, Sums
    <2> QED  BY <2>1, <2>2, <2>3, <2>4 DEF SumsRight
  <1>2. Due(p)' \subseteq known'[p]["processed"]
    <2>1. known \in [Summers -> KnownType] /\ s \in Sums
      BY <1>1 DEF TypeOK, KnownType, Sums
    <2>2. known[p]["processed"] \subseteq known'[p]["processed"]
      BY <1>0, <2>1 DEF KnownType, Sums
    <2> QED  BY <1>1, <2>2
  <1>3. s = "enqueued" => v \subseteq sent
    <2>1. s = "enqueued" => v \in history["enqueued"][i] /\ i \in Indices
      BY <1>0, <1>1 DEF Loadable, SumType
    <2> QED  BY <2>1 DEF SumsRight
  <1>4. s = "processed" => Of(Due(p), i) \subseteq v
    <2>1. s = "processed" => Of(known[p]["processed"], i) \subseteq v
      BY <1>0 DEF Loadable
    <2> QED  BY <1>1, <2>1 DEF Of
  <1>5. CASE s = "enqueued" /\ i # sum[p].to
    <2>1. /\ sum'[p].at = "enqueued" /\ sum'[p].i = i + 1
          /\ sum'[p].from = sum[p].from /\ sum'[p].to = sum[p].to
          /\ sum'[p].seen["enqueued"] = seen["enqueued"] \cup v
      BY <1>1, <1>5 DEF WithLoad, SumType, Sums
    <2>2. i + 1 \in sum[p].from .. sum[p].to
      BY <1>1, <1>5 DEF SumType
    <2> QED  BY <1>1, <1>2, <1>3, <1>5, <2>1, <2>2
  <1>6. CASE s = "enqueued" /\ i = sum[p].to
    <2>1. /\ sum'[p].at = "processed" /\ sum'[p].i = sum[p].from
          /\ sum'[p].from = sum[p].from /\ sum'[p].to = sum[p].to
          /\ sum'[p].seen["enqueued"] = seen["enqueued"] \cup v
      BY <1>1, <1>6 DEF WithLoad, SumType, Sums, Then
    <2>2. sum[p].from \in sum[p].from .. sum[p].to
      BY <1>1 DEF SumType
    <2>3. Before(Due(p), p)' = {}
      BY <1>1, <2>1 DEF SumType
    <2> QED  BY <1>1, <1>2, <1>3, <1>6, <2>1, <2>2, <2>3
  <1>7. CASE s = "processed" /\ i # sum[p].to
    <2>1. /\ sum'[p].at = "processed" /\ sum'[p].i = i + 1
          /\ sum'[p].from = sum[p].from /\ sum'[p].to = sum[p].to
          /\ sum'[p].seen["enqueued"] = seen["enqueued"]
          /\ sum'[p].seen["processed"] = seen["processed"] \cup v
      BY <1>1, <1>7 DEF WithLoad, SumType, Sums
    <2>2. i + 1 \in sum[p].from .. sum[p].to
      BY <1>1, <1>7 DEF SumType
    <2>3. Before(Due(p), p)' \subseteq Before(Due(p), p) \cup Of(Due(p), i)
      BY <1>1, <2>1 DEF SumType, Of
    <2> QED  BY <1>1, <1>2, <1>4, <1>7, <2>1, <2>2, <2>3
  <1>8. CASE s = "processed" /\ i = sum[p].to
    <2>1. /\ sum'[p].at = "done" /\ sum'[p].i = sum[p].from
          /\ sum'[p].from = sum[p].from /\ sum'[p].to = sum[p].to
          /\ sum'[p].seen["enqueued"] = seen["enqueued"]
          /\ sum'[p].seen["processed"] = seen["processed"] \cup v
      BY <1>1, <1>8 DEF WithLoad, SumType, Sums, Then
    <2>2. sum[p].from \in sum[p].from .. sum[p].to
      BY <1>1 DEF SumType
    <2>3. InRange(Due(p), p)' \subseteq Before(Due(p), p) \cup Of(Due(p), i)
      BY <1>1, <1>8, <2>1 DEF SumType, Of
    <2> QED  BY <1>1, <1>2, <1>4, <1>8, <2>1, <2>2, <2>3
  <1> QED  BY <1>1, <1>5, <1>6, <1>7, <1>8

LEMMA StepLoaded == ASSUME TypeOK, SumsRight, [Next]_vars PROVE SumsRight'
  <1> USE DEF loopVars, ring, sampling, summing, counters
  <1>h. ASSUME sent \subseteq sent', UNCHANGED history
        PROVE  \A i \in Indices : \A v \in history'["enqueued"][i] : v \subseteq sent'
    BY <1>h DEF SumsRight
  <1>o. ASSUME NEW q \in Summers,
               UNCHANGED <<sum, known, loop, mutex, processed, released>>,
               sent \subseteq sent'
        PROVE  Loaded(q)'
    <2>1. Due(q)' = Due(q)
      BY <1>o DEF Due
    <2> QED  BY <1>o, <2>1, Untouched
  <1>a. /\ sum \in [Summers -> SumType] /\ known \in [Summers -> KnownType]
        /\ released \in KnownType /\ Loop \in Summers
        /\ "processed" \in Sums /\ "enqueued" \in Sums
        /\ 0 \in Indices /\ N-1 \in Indices /\ 0 <= N-1
    BY DEF TypeOK, SumType, KnownType, Sums
  <1>b. \A q \in Summers : Due(q) \subseteq known[q]["processed"]
    BY DEF SumsRight, Loaded
  <1>1. CASE Tick
    BY <1>1, <1>h, <1>o DEF Tick, SumsRight
  <1>2. ASSUME NEW c \in Commands, Send(c) PROVE SumsRight'
    BY <1>2, <1>h, <1>o DEF Send, SumsRight
  <1>3. ASSUME NEW c \in Commands, IncEnqueued(c) PROVE SumsRight'
    <2>1. /\ Of(enqueued', IndexOf[c]) \subseteq sent /\ IndexOf[c] \in Indices
          /\ sent' = sent
      BY <1>3 DEF IncEnqueued, Of, TypeOK
    <2>2. history["enqueued"] \in [Indices -> SUBSET SUBSET Commands]
      BY <1>a DEF TypeOK
    <2>3. \A i \in Indices : \A v \in history'["enqueued"][i] :
              v \in history["enqueued"][i] \/ v = Of(enqueued', IndexOf[c])
      BY <1>3, <1>a, <2>1, <2>2 DEF IncEnqueued, Counts, TypeOK
    <2>4. \A i \in Indices : \A v \in history'["enqueued"][i] : v \subseteq sent'
      BY <2>1, <2>3 DEF SumsRight
    <2> QED  BY <1>3, <1>o, <2>1, <2>4 DEF IncEnqueued, SumsRight
  <1>4. ASSUME NEW p \in Summers, Load(p) PROVE SumsRight'
    <2>1. ASSUME NEW q \in Summers PROVE Loaded(q)'
      <3>1. CASE p = q
        BY <1>4, <3>1, LoadOn
      <3>2. CASE p # q
        <4>1. sum'[q] = sum[q] /\ known'[q] = known[q]
          BY <1>4, <1>a, <3>2 DEF Load
        <4>2. Due(q)' = Due(q)
          BY <1>4 DEF Load, Due
        <4> QED  BY <1>4, <4>1, <4>2, Untouched DEF Load
      <3> QED  BY <3>1, <3>2
    <2> QED  BY <1>4, <1>h, <2>1 DEF Load, SumsRight
  <1>5. ASSUME NEW c \in Commands, Receive(c) PROVE SumsRight'
    <2>1. \A q \in Summers : Due(q)' = Due(q)
      BY <1>5 DEF Receive, Due
    <2>2. \A q \in Summers : Loaded(q)'
      BY <1>5, <2>1, Untouched DEF Receive
    <2> QED  BY <1>5, <1>h, <2>2 DEF Receive, SumsRight
  <1>6. CASE EndTurn
    <2>1. \A q \in Summers : Due(q)' = Due(q)
      BY <1>6 DEF EndTurn, Due
    <2>2. ASSUME NEW q \in Summers PROVE Loaded(q)'
      <3>1. CASE sum'[q] = sum[q]
        BY <1>6, <2>1, <3>1, Untouched DEF EndTurn
      <3>2. CASE sum'[q] # sum[q]
        <4>1. q = Loop /\ sum'[q] = Begun(0, N-1) /\ loop' = "sum"
          BY <1>6, <1>a, <3>2 DEF EndTurn
        <4>2. Due(q)' \subseteq known'[q]["processed"]
          BY <1>6, <1>b, <2>1 DEF EndTurn
        <4> HIDE DEF Indices
        <4> QED  BY <1>a, <4>1, <4>2, Fresh
      <3> QED  BY <3>1, <3>2
    <2> QED  BY <1>6, <1>h, <2>2 DEF EndTurn, SumsRight
  <1>7. CASE Push
    <2>1. ASSUME NEW q \in Summers, q # Loop PROVE Loaded(q)'
      <3>1. sum'[q] = sum[q] /\ known'[q] = known[q] /\ mutex # q /\ mutex' = mutex
        BY <1>7, <1>a, <2>1 DEF Push, SumOver
      <3>2. Due(q)' = Due(q)
        BY <2>1, <3>1 DEF Due
      <3> QED  BY <1>7, <2>1, <3>1, <3>2, Untouched DEF Push
    <2>2. Loaded(Loop)'
      <3>1. sum'[Loop] = NoSum /\ known'[Loop] = released'
        BY <1>7, <1>a DEF Push, SumOver
      <3>2. known[Loop]["processed"] \subseteq released'["processed"]
        BY <1>7, <1>a DEF Push, Join
      <3>3. Due(Loop)' = Due(Loop)
        BY <1>7 DEF Push, Due
      <3>4. Due(Loop)' \subseteq known'[Loop]["processed"]
        BY <1>a, <1>b, <3>1, <3>2, <3>3
      <3> QED  BY <1>a, <3>1, <3>4, Fresh
    <2> QED  BY <1>7, <1>h, <2>1, <2>2 DEF Push, SumsRight
  <1>8. CASE Reset
    <2>1. \A q \in Summers : Due(q)' = Due(q)
      BY <1>8 DEF Reset, Due
    <2>2. \A q \in Summers : Loaded(q)'
      BY <1>8, <2>1, Untouched DEF Reset
    <2> QED  BY <1>8, <1>h, <2>2 DEF Reset, SumsRight
  <1>9. CASE IncProcessed
    <2>1. PICK c \in hand :
              /\ processed' = processed \cup {c}
              /\ Counts("processed", c, processed')
              /\ known' = [known EXCEPT ![Loop]["processed"] = @ \cup {c}]
      BY <1>9 DEF IncProcessed
    <2>2. ASSUME NEW q \in Summers, q # Loop PROVE Loaded(q)'
      <3>1. known'[q] = known[q]
        BY <1>a, <2>1, <2>2
      <3>2. Due(q)' = Due(q)
        BY <1>9, <2>2 DEF Due, IncProcessed
      <3> QED  BY <1>9, <2>2, <3>1, <3>2, Untouched DEF IncProcessed
    <2>3. Loaded(Loop)'
      <3>1. Loaded(Loop) /\ loop = "count" /\ UNCHANGED <<sum, sent>>
        BY <1>9, <1>a DEF SumsRight, IncProcessed
      <3>2. known'[Loop]["processed"] = known[Loop]["processed"] \cup {c}
        BY <1>a, <2>1 DEF KnownType
      <3>3. Due(Loop)' \subseteq known'[Loop]["processed"]
        BY <1>a, <1>b, <2>1, <3>2 DEF Due
      <3> QED  BY <3>1, <3>3 DEF Loaded
    <2>4. history'["enqueued"] = history["enqueued"]
      BY <2>1 DEF Counts, TypeOK, Sums
    <2> QED  BY <1>9, <2>2, <2>3, <2>4 DEF IncProcessed, SumsRight
  <1>10. ASSUME NEW p \in Readers, Ask(p) PROVE SumsRight'
    <2>1. ASSUME NEW q \in Summers, q # p PROVE Loaded(q)'
      <3>1. sum'[q] = sum[q] /\ known'[q] = known[q] /\ mutex' # q
        BY <1>10, <1>a, <2>1 DEF Ask
      <3>2. Due(q)' \subseteq Due(q)
        BY <1>10, <3>1 DEF Due, Ask
      <3> QED  BY <1>10, <3>1, <3>2, Untouched DEF Ask
    <2>2. Loaded(p)'
      <3>1. p # Loop /\ p \in Summers /\ sum'[p] = Begun(0, N-1)
        BY <1>10, <1>a DEF Ask
      <3>2. Begun(0, N-1) # NoSum
        BY DEF Begun, NoSum, SumOf
      <3>3. Due(p)' = released["processed"]
        BY <1>10, <3>1 DEF Due, Ask
      <3>4. released["processed"] \subseteq known'[p]["processed"]
        BY <1>10, <1>a, <3>1 DEF Ask, Join
      <3> HIDE DEF Indices
      <3> QED  BY <1>a, <3>1, <3>2, <3>3, <3>4, Fresh
    <2> QED  BY <1>10, <1>h, <2>1, <2>2 DEF Ask, SumsRight
  <1>c. ASSUME NEW p \in Readers, NEW i \in Indices, mutex' # p,
               sum'[p] \in {NoSum, Begun(i, i)}
        PROVE  Loaded(p)'
    <2>1. p # Loop /\ p \in Summers /\ i <= i
      OBVIOUS
    <2>2. Due(p)' = {}
      BY <1>c, <2>1 DEF Due
    <2> HIDE DEF Indices
    <2> QED  BY <1>c, <2>1, <2>2, Fresh
  <1>11. ASSUME NEW p \in Readers, Answer(p) PROVE SumsRight'
    <2>1. ASSUME NEW q \in Summers, q # p PROVE Loaded(q)'
      <3>1. /\ sum'[q] = sum[q] /\ known'[q] = known[q]
            /\ q # Loop => mutex' # q
        BY <1>11, <1>a, <2>1 DEF Answer, SumOver
      <3>2. Due(q)' \subseteq Due(q)
        BY <1>11, <3>1 DEF Due, Answer
      <3> QED  BY <1>11, <3>1, <3>2, Untouched DEF Answer
    <2>2. sum'[p] = NoSum /\ mutex' # p
      BY <1>11, <1>a DEF Answer, SumOver
    <2> QED  BY <1>11, <1>h, <1>a, <1>c, <2>1, <2>2 DEF Answer, SumsRight
  <1>12. ASSUME NEW p \in Readers, NEW i \in Indices, AskCommand(p, i) PROVE SumsRight'
    <2>1. ASSUME NEW q \in Summers, q # p PROVE Loaded(q)'
      <3>1. sum'[q] = sum[q] /\ known'[q] = known[q] /\ mutex' = mutex
        BY <1>12, <1>a, <2>1 DEF AskCommand
      <3>2. Due(q)' = Due(q)
        BY <1>12, <3>1 DEF Due, AskCommand
      <3> QED  BY <1>12, <3>1, <3>2, Untouched DEF AskCommand
    <2>2. sum'[p] = Begun(i, i)
      BY <1>12, <1>a DEF AskCommand
    <2>3. mutex # p
      <3>1. Loaded(p) /\ p # Loop /\ sum[p].at = "none"
        BY <1>12 DEF AskCommand, SumsRight
      <3> QED  BY <3>1 DEF Loaded
    <2> QED  BY <1>12, <1>h, <1>c, <2>1, <2>2, <2>3 DEF AskCommand, SumsRight
  <1>13. ASSUME NEW p \in Readers, AnswerCommand(p) PROVE SumsRight'
    <2>1. ASSUME NEW q \in Summers, q # p PROVE Loaded(q)'
      <3>1. sum'[q] = sum[q] /\ known'[q] = known[q] /\ mutex' = mutex
        BY <1>13, <1>a, <2>1 DEF AnswerCommand, SumOver
      <3>2. Due(q)' = Due(q)
        BY <1>13, <3>1 DEF Due, AnswerCommand
      <3> QED  BY <1>13, <3>1, <3>2, Untouched DEF AnswerCommand
    <2>2. sum'[p] = NoSum /\ mutex' # p
      BY <1>13, <1>a DEF AnswerCommand, SumOver
    <2> QED  BY <1>13, <1>h, <1>a, <1>c, <2>1, <2>2 DEF AnswerCommand, SumsRight
  <1>14. CASE UNCHANGED vars
    BY <1>14, <1>h, <1>o DEF vars, SumsRight
  <1> QED  BY <1>1, <1>2, <1>3, <1>4, <1>5, <1>6, <1>7, <1>8, <1>9, <1>10,
              <1>11, <1>12, <1>13, <1>14 DEF Next, LoopStep

(* The counters and the samples stay well typed: nothing is counted before   *)
(* it was sent, and no slot lies outside the ring (metrics.rs:26-35).        *)
THEOREM MetricsTyped == Spec => []TypeOK
  <1>1. Init => TypeOK /\ SumsRight
    BY InitTyped, InitLoaded
  <1>2. TypeOK /\ SumsRight /\ [Next]_vars => TypeOK' /\ SumsRight'
    BY StepTyped, StepLoaded
  <1> QED  BY <1>1, <1>2, PTL DEF Spec

------------------------------------------------------------------------------
(* The ring and the pace of the sampling. *)

SampleType == [at : 0 .. MaxTime, depth : Depths, nth : Nat]

(* The ring holds the last samples, the newest before its head; they are in  *)
(* the order of their times.                                                 *)
RingHeld ==
    /\ samples \in Seq(SampleType)
    /\ len = IF Len(samples) < Capacity THEN Len(samples) ELSE Capacity
    /\ \A i \in 0 .. len-1 :
          LET kept == samples[Len(samples) - i]
          IN  Newest(i) = [at |-> kept.at, depth |-> kept.depth]
    /\ \A i \in DOMAIN samples :
          /\ samples[i].at <= now
          /\ \A j \in DOMAIN samples : i <= j => samples[i].at <= samples[j].at

Nth(i) == IF i = 0 THEN 0 ELSE samples[i].nth
At(i) == IF i = 0 THEN 0 ELSE samples[i].at

(* since counts the commands after the last sample, and last is no earlier;  *)
(* a sum for a sample is taken when one is due.                              *)
Pace ==
    LET n == Cardinality(taken) - Nth(Len(samples))
    IN  /\ loop = "turn" => since = n - 1 /\ since < CommandInterval
        /\ loop \in {"select", "count"} => since = n /\ since < CommandInterval
        /\ loop = "sum" =>
              since = n /\ since <= CommandInterval /\ ShouldSample(since, now)
        /\ loop = "reset" => n = 0
        /\ loop # "reset" => At(Len(samples)) <= last

(* Of the samples one after the other: they were due, and not overdue.       *)
Spaced ==
    \A i \in DOMAIN samples :
        LET n == Nth(i) - Nth(i-1)
        IN  /\ n <= CommandInterval
            /\ n < CommandInterval => At(i) - At(i-1) >= TimeInterval

(* A remainder of what is less than twice the divisor.                       *)
LEMMA Wrap ==
  ASSUME NEW x \in 0 .. 2 * Capacity - 1
  PROVE  x % Capacity = IF x < Capacity THEN x ELSE x - Capacity
  OBVIOUS

LEMMA SlotIs ==
  ASSUME head \in Slots, NEW i \in Slots
  PROVE  SlotOf(i) = IF i < head THEN head - 1 - i ELSE head + Capacity - 1 - i
  <1>1. PICK x \in 0 .. 2 * Capacity - 1 : x = head + Capacity - 1 - i
    BY DEF Slots
  <1>2. SlotOf(i) = x % Capacity
    BY <1>1 DEF SlotOf
  <1>3. x % Capacity = IF x < Capacity THEN x ELSE x - Capacity
    BY Wrap
  <1> QED  BY <1>1, <1>2, <1>3 DEF Slots

(* The head is the slot after the newest; pushing moves each one on.         *)
LEMMA HeadMoves ==
  ASSUME head \in Slots, head' = (head + 1) % Capacity
  PROVE  /\ \A i \in Slots : SlotOf(i)' = IF i = 0 THEN head ELSE SlotOf(i-1)
         /\ \A i \in 0 .. Capacity-2 : SlotOf(i) # head
         /\ head' \in Slots
  <1>1. head' = IF head + 1 = Capacity THEN 0 ELSE head + 1
    <2>1. PICK x \in 0 .. 2 * Capacity - 1 : x = head + 1
      BY DEF Slots
    <2>2. x % Capacity = IF x < Capacity THEN x ELSE x - Capacity
      BY Wrap
    <2> QED  BY <2>1, <2>2 DEF Slots
  <1>2. head' \in Slots
    BY <1>1 DEF Slots
  <1>3. \A i \in Slots : SlotOf(i) = IF i < head THEN head - 1 - i ELSE head + Capacity - 1 - i
    BY SlotIs
  <1>4. \A i \in Slots :
           SlotOf(i)' = IF i < head' THEN head' - 1 - i ELSE head' + Capacity - 1 - i
    <2> SUFFICES ASSUME NEW i \in Slots
                 PROVE  SlotOf(i)' = IF i < head' THEN head' - 1 - i
                                     ELSE head' + Capacity - 1 - i
      OBVIOUS
    <2>1. PICK x \in 0 .. 2 * Capacity - 1 : x = head' + Capacity - 1 - i
      BY <1>2 DEF Slots
    <2>2. SlotOf(i)' = x % Capacity
      BY <2>1 DEF SlotOf
    <2>3. x % Capacity = IF x < Capacity THEN x ELSE x - Capacity
      BY Wrap
    <2> QED  BY <1>2, <2>1, <2>2, <2>3 DEF Slots
  <1>5. \A i \in Slots : SlotOf(i)' = IF i = 0 THEN head ELSE SlotOf(i-1)
    <2> SUFFICES ASSUME NEW i \in Slots
                 PROVE  SlotOf(i)' = IF i = 0 THEN head ELSE SlotOf(i-1)
      OBVIOUS
    <2>1. i # 0 => i-1 \in Slots
      BY DEF Slots
    <2>2. i # 0 => SlotOf(i-1) = IF i-1 < head THEN head - i ELSE head + Capacity - i
      BY <2>1, <1>3 DEF Slots
    <2>3. SlotOf(i)' = IF i < head' THEN head' - 1 - i ELSE head' + Capacity - 1 - i
      BY <1>4
    <2> QED  BY <2>2, <2>3, <1>1 DEF Slots
  <1>6. \A i \in 0 .. Capacity-2 : SlotOf(i) # head
    <2> SUFFICES ASSUME NEW i \in 0 .. Capacity-2 PROVE SlotOf(i) # head
      OBVIOUS
    <2>1. i \in Slots /\ SlotOf(i) = IF i < head THEN head - 1 - i ELSE head + Capacity - 1 - i
      BY <1>3 DEF Slots
    <2> QED  BY <2>1 DEF Slots
  <1> QED  BY <1>2, <1>5, <1>6

LEMMA InitHeld == Init => RingHeld /\ Pace /\ Spaced
  <1> SUFFICES ASSUME Init PROVE RingHeld /\ Pace /\ Spaced
    OBVIOUS
  <1>1. samples = <<>> /\ Len(samples) = 0 /\ DOMAIN samples = {}
    BY DEF Init
  <1>2. Cardinality(taken) = 0
    BY FS_EmptySet DEF Init
  <1>3. RingHeld
    BY <1>1 DEF Init, RingHeld
  <1>4. Pace
    BY <1>1, <1>2 DEF Init, Pace, Nth, At
  <1> QED  BY <1>1, <1>3, <1>4 DEF Spaced

LEMMA RingStill ==
  ASSUME TypeOK, RingHeld, UNCHANGED <<ring, samples>>, now' \in Nat, now <= now'
  PROVE  RingHeld'
  <1>1. \A i : Newest(i)' = Newest(i)
    BY DEF Newest, SlotOf, ring
  <1>2. \A i \in DOMAIN samples : samples[i].at \in Nat
    <2>1. \A i \in DOMAIN samples : samples[i] \in SampleType
      BY DEF RingHeld
    <2>2. \A s \in SampleType : s.at \in Nat
      BY DEF SampleType
    <2> QED  BY <2>1, <2>2
  <1>3. samples' = samples /\ len' = len
    BY DEF ring
  <1>4. samples' \in Seq(SampleType)
    BY <1>3 DEF RingHeld
  <1>5. len' = IF Len(samples') < Capacity THEN Len(samples') ELSE Capacity
    BY <1>3 DEF RingHeld
  <1>6. \A i \in 0 .. len'-1 :
           Newest(i)' = [at |-> samples'[Len(samples') - i].at,
                         depth |-> samples'[Len(samples') - i].depth]
    BY <1>1, <1>3 DEF RingHeld
  <1>7. \A i \in DOMAIN samples : samples[i].at <= now'
    <2>1. now \in Nat
      BY DEF TypeOK
    <2>2. \A i \in DOMAIN samples : samples[i].at <= now
      BY DEF RingHeld
    <2> QED  BY <1>2, <2>1, <2>2
  <1>8. \A i, j \in DOMAIN samples : i <= j => samples[i].at <= samples[j].at
    BY DEF RingHeld
  <1> QED  BY <1>3, <1>4, <1>5, <1>6, <1>7, <1>8 DEF RingHeld

LEMMA PushHolds == ASSUME TypeOK, RingHeld, Push PROVE RingHeld'
  <1> DEFINE d == DepthOf(sum[Loop].seen)
             new == [at |-> now, depth |-> d, nth |-> Cardinality(taken)]
             L == Len(samples)
  <1>1. /\ samples' = Append(samples, new)
        /\ buffer' = [buffer EXCEPT ![head] = [at |-> now, depth |-> d]]
        /\ now' = now
    BY DEF Push
  <1>2. /\ head \in Slots /\ now \in 0 .. MaxTime /\ len \in Nat /\ L \in Nat
        /\ buffer \in [Slots -> [at : 0 .. MaxTime, depth : Depths]]
    BY DEF TypeOK, RingHeld
  <1>3. new \in SampleType
    <2>1. d \in Depths
      BY DepthTyped DEF TypeOK
    <2>2. IsFiniteSet(taken)
      BY FS_Subset DEF TypeOK
    <2> QED  BY <1>2, <2>1, <2>2, FS_CardinalityType DEF SampleType
  <1> HIDE DEF new, d
  <1>4. /\ samples' \in Seq(SampleType)
        /\ Len(samples') = L + 1
        /\ samples'[L+1] = new
        /\ \A i \in 1 .. L : samples'[i] = samples[i]
        /\ DOMAIN samples = 1 .. L /\ DOMAIN samples' = 1 .. L + 1
    BY <1>1, <1>3 DEF RingHeld
  <1>a. len = IF L < Capacity THEN L ELSE Capacity
    BY DEF RingHeld
  <1>5. len' = IF Len(samples') < Capacity THEN Len(samples') ELSE Capacity
    <2>1. len' = IF len < Capacity THEN len + 1 ELSE len
      BY DEF Push
    <2> HIDE DEF L
    <2> QED  BY <1>2, <1>4, <1>a, <2>1
  <1>6. ASSUME NEW i \in 0 .. len'-1
        PROVE  Newest(i)' = [at |-> samples'[Len(samples')-i].at,
                             depth |-> samples'[Len(samples')-i].depth]
    <2>1. i \in Slots /\ i <= L
      BY <1>2, <1>4, <1>5 DEF Slots
    <2>2. SlotOf(i)' = IF i = 0 THEN head ELSE SlotOf(i-1)
      BY <1>2, <2>1, HeadMoves DEF Push
    <2>3. Newest(i)' = buffer'[SlotOf(i)']
      BY DEF Newest
    <2>4. CASE i = 0
      <3>1. Newest(i)' = [at |-> now, depth |-> d]
        BY <1>1, <1>2, <2>2, <2>3, <2>4
      <3>2. samples'[Len(samples')-i] = new
        BY <1>2, <1>4, <2>4
      <3> QED  BY <3>1, <3>2 DEF new
    <2>5. CASE i # 0
      <3>1. i-1 \in 0 .. Capacity-2 /\ i-1 \in Slots /\ i-1 \in 0 .. len-1
        <4> HIDE DEF L
        <4>1. i \in Nat /\ i # 0 /\ i <= len' - 1 /\ i <= Capacity - 1 /\ i <= L
          BY <1>2, <1>4, <1>5, <2>1, <2>5 DEF Slots
        <4> QED  BY <1>2, <1>a, <4>1 DEF Slots
      <3>2. SlotOf(i-1) # head /\ SlotOf(i-1) \in Slots
        <4>1. head' = (head + 1) % Capacity
          BY DEF Push
        <4>2. SlotOf(i-1) # head
          BY <1>2, <3>1, <4>1, HeadMoves
        <4>3. SlotOf(i-1) = IF i-1 < head THEN head - 1 - (i-1)
                            ELSE head + Capacity - 1 - (i-1)
          BY <1>2, <3>1, SlotIs
        <4> QED  BY <1>2, <3>1, <4>2, <4>3 DEF Slots
      <3>3. Newest(i)' = Newest(i-1)
        BY <1>1, <1>2, <2>2, <2>3, <2>5, <3>2 DEF Newest
      <3>4. Newest(i-1) = [at |-> samples[L-(i-1)].at, depth |-> samples[L-(i-1)].depth]
        BY <3>1 DEF RingHeld
      <3>5. Len(samples')-i = L-(i-1) /\ L-(i-1) \in 1 .. L
        BY <1>2, <1>4, <2>1, <2>5
      <3> QED  BY <1>4, <3>3, <3>4, <3>5
    <2> QED  BY <2>4, <2>5
  <1>7. ASSUME NEW i \in DOMAIN samples'
        PROVE  /\ samples'[i].at <= now'
               /\ \A j \in DOMAIN samples' : i <= j => samples'[i].at <= samples'[j].at
    <2>1. \A k \in 1 .. L : samples'[k].at <= now
      BY <1>4 DEF RingHeld
    <2>2. samples'[L+1].at = now
      BY <1>4 DEF new
    <2>3. \A j, k \in 1 .. L : j <= k => samples'[j].at <= samples'[k].at
      BY <1>4 DEF RingHeld
    <2>4. \A k \in 1 .. L+1 : k \in 1 .. L \/ k = L+1
      BY <1>2
    <2> QED  BY <1>1, <1>2, <1>4, <2>1, <2>2, <2>3, <2>4
  <1> QED  BY <1>4, <1>5, <1>6, <1>7 DEF RingHeld

LEMMA StepHeld == ASSUME TypeOK, RingHeld, [Next]_vars PROVE RingHeld'
  <1>1. CASE Push
    BY <1>1, PushHolds
  <1>2. CASE Tick
    <2>1. UNCHANGED <<ring, samples>> /\ now' \in Nat /\ now <= now'
      BY <1>2 DEF Tick, TypeOK
    <2> QED  BY <2>1, RingStill
  <1>3. ASSUME UNCHANGED <<now, ring, samples>> PROVE RingHeld'
    <2>1. now' \in Nat /\ now <= now'
      BY <1>3 DEF TypeOK
    <2> QED  BY <1>3, <2>1, RingStill
  <1>4. ASSUME NEW c \in Commands, Send(c) \/ IncEnqueued(c) \/ Receive(c) PROVE RingHeld'
    BY <1>3, <1>4 DEF Send, IncEnqueued, Receive
  <1>5. ASSUME NEW p \in Summers, Load(p) PROVE RingHeld'
    BY <1>3, <1>5 DEF Load, ring
  <1>6. CASE EndTurn \/ Reset \/ IncProcessed
    BY <1>3, <1>6 DEF EndTurn, Reset, IncProcessed
  <1>7. ASSUME NEW p \in Readers, \/ Ask(p) \/ Answer(p) \/ AnswerCommand(p)
                                  \/ \E i \in Indices : AskCommand(p, i)
        PROVE  RingHeld'
    BY <1>3, <1>7 DEF Ask, Answer, AskCommand, AnswerCommand, ring
  <1>8. CASE UNCHANGED vars
    BY <1>3, <1>8 DEF vars
  <1> QED  BY <1>1, <1>2, <1>4, <1>5, <1>6, <1>7, <1>8 DEF Next, LoopStep

------------------------------------------------------------------------------
(* The pace.  What the last sample says, and how many commands were taken.   *)
LEMMA LastTyped ==
  ASSUME TypeOK, RingHeld
  PROVE  /\ Nth(Len(samples)) \in Nat
         /\ At(Len(samples)) \in Nat /\ At(Len(samples)) <= now
         /\ Cardinality(taken) \in Nat /\ IsFiniteSet(taken)
         /\ since \in Nat /\ last \in Nat /\ now \in Nat
         /\ Len(samples) \in Nat /\ DOMAIN samples = 1 .. Len(samples)
  <1> DEFINE L == Len(samples)
  <1>1. L \in Nat /\ DOMAIN samples = 1 .. L /\ \A i \in 1 .. L : samples[i] \in SampleType
    BY DEF RingHeld
  <1>2. \A s \in SampleType : s.at \in Nat /\ s.nth \in Nat
    BY DEF SampleType
  <1>3. now \in Nat /\ since \in Nat /\ last \in Nat
    BY DEF TypeOK
  <1>4. IsFiniteSet(taken) /\ Cardinality(taken) \in Nat
    BY FS_Subset, FS_CardinalityType DEF TypeOK
  <1>5. CASE L = 0
    BY <1>1, <1>3, <1>4, <1>5 DEF Nth, At
  <1>6. CASE L # 0
    <2>1. L \in 1 .. L
      BY <1>1, <1>6
    <2>2. samples[L].at <= now
      BY <1>1, <2>1 DEF RingHeld
    <2> QED  BY <1>1, <1>2, <1>3, <1>4, <1>6, <2>1, <2>2 DEF Nth, At
  <1> QED  BY <1>5, <1>6

LEMMA PaceStill ==
  ASSUME TypeOK, RingHeld, Pace, UNCHANGED <<taken, loop, sampling, samples>>,
         now' \in Nat, now <= now'
  PROVE  Pace'
  <1>1. /\ Nth(Len(samples))' = Nth(Len(samples))
        /\ At(Len(samples))' = At(Len(samples))
    BY DEF Nth, At
  <1>2. since \in Nat /\ last \in Nat /\ now \in Nat
    BY LastTyped
  <1>3. since' = since /\ last' = last
    BY DEF sampling
  <1>4. ShouldSample(since, now) => ShouldSample(since, now)'
    <2>1. \A a, b, c, t \in Nat : a <= b /\ a - c >= t => b - c >= t
      OBVIOUS
    <2>2. now - last >= TimeInterval => now' - last >= TimeInterval
      BY <1>2, <2>1
    <2> QED  BY <1>3, <2>2 DEF ShouldSample
  <1> QED  BY <1>1, <1>3, <1>4 DEF Pace

LEMMA SpacedStill == ASSUME Spaced, UNCHANGED samples PROVE Spaced'
  BY DEF Spaced, Nth, At

(* A command taken is one more. *)
LEMMA ReceivePaced ==
  ASSUME TypeOK, RingHeld, Pace, NEW c \in Commands, Receive(c)
  PROVE  Pace'
  <1>1. /\ Nth(Len(samples))' = Nth(Len(samples))
        /\ At(Len(samples))' = At(Len(samples))
        /\ since' = since /\ last' = last
        /\ loop = "select" /\ loop' = "turn"
    BY DEF Receive, Nth, At, sampling
  <1>2. Cardinality(taken') = Cardinality(taken) + 1
    BY LastTyped, FS_AddElement DEF Receive
  <1>3. since = Cardinality(taken) - Nth(Len(samples)) /\ since < CommandInterval
        /\ At(Len(samples)) <= last
    BY <1>1 DEF Pace
  <1>4. since = Cardinality(taken') - Nth(Len(samples)) - 1
    BY <1>2, <1>3, LastTyped
  <1> QED  BY <1>1, <1>3, <1>4 DEF Pace

LEMMA EndTurnPaced == ASSUME TypeOK, RingHeld, Pace, EndTurn PROVE Pace'
  <1>1. /\ Nth(Len(samples))' = Nth(Len(samples))
        /\ At(Len(samples))' = At(Len(samples))
        /\ taken' = taken /\ since' = since + 1 /\ last' = last /\ now' = now
        /\ loop = "turn" /\ loop' \in {"sum", "count"}
        /\ loop' = "sum" => ShouldSample(since + 1, now)
        /\ loop' = "count" => ~ShouldSample(since + 1, now)
    BY DEF EndTurn, Nth, At
  <1>2. /\ since = Cardinality(taken) - Nth(Len(samples)) - 1
        /\ since < CommandInterval
        /\ At(Len(samples)) <= last
    BY <1>1 DEF Pace
  <1>3. since' = Cardinality(taken) - Nth(Len(samples)) /\ since' <= CommandInterval
    BY <1>1, <1>2, LastTyped
  <1>4. loop' = "count" => since' < CommandInterval
    BY <1>1, <1>3, LastTyped DEF ShouldSample
  <1>5. loop' = "sum" => ShouldSample(since, now)'
    BY <1>1 DEF ShouldSample
  <1> QED  BY <1>1, <1>2, <1>3, <1>4, <1>5 DEF Pace

LEMMA PushPaced ==
  ASSUME TypeOK, RingHeld, Pace, Spaced, Push
  PROVE  Pace' /\ Spaced'
  <1> DEFINE d == DepthOf(sum[Loop].seen)
             new == [at |-> now, depth |-> d, nth |-> Cardinality(taken)]
  <1>L. PICK L \in Nat : L = Len(samples)
    BY LastTyped
  <1>1. /\ samples' = Append(samples, new)
        /\ now' = now /\ taken' = taken
        /\ loop = "sum" /\ loop' = "reset"
    BY DEF Push
  <1>2. /\ L \in Nat /\ DOMAIN samples = 1 .. L
        /\ now \in Nat /\ Cardinality(taken) \in Nat /\ since \in Nat /\ last \in Nat
        /\ Nth(L) \in Nat /\ At(L) \in Nat
    BY <1>L, LastTyped
  <1>3. /\ Len(samples') = L + 1 /\ DOMAIN samples' = 1 .. L + 1
        /\ samples'[L+1] = new
        /\ \A i \in 1 .. L : samples'[i] = samples[i]
    BY <1>1, <1>L DEF RingHeld
  <1>4. /\ new.nth = Cardinality(taken) /\ new.at = now
    OBVIOUS
  <1>5. /\ since = Cardinality(taken) - Nth(L) /\ since <= CommandInterval
        /\ ShouldSample(since, now) /\ At(L) <= last
    BY <1>1, <1>L DEF Pace
  <1> HIDE DEF new
  <1>6. /\ Nth(L+1)' = Cardinality(taken) /\ At(L+1)' = now
        /\ \A i \in 0 .. L : Nth(i)' = Nth(i) /\ At(i)' = At(i)
    <2>1. L + 1 # 0 /\ \A i \in 0 .. L : i = 0 \/ i \in 1 .. L
      OBVIOUS
    <2> QED  BY <1>3, <1>4, <2>1 DEF Nth, At
  <1>7. Pace'
    <2>1. Cardinality(taken)' - Nth(Len(samples))' = 0
      BY <1>1, <1>2, <1>3, <1>6
    <2> QED  BY <1>1, <2>1 DEF Pace
  <1>8. Spaced'
    <2> SUFFICES ASSUME NEW i \in 1 .. L + 1
                 PROVE  /\ Nth(i)' - Nth(i-1)' <= CommandInterval
                        /\ Nth(i)' - Nth(i-1)' < CommandInterval =>
                              At(i)' - At(i-1)' >= TimeInterval
      BY <1>3 DEF Spaced
    <2>1. CASE i = L + 1
      <3>1. /\ Nth(i)' = Cardinality(taken) /\ At(i)' = now
            /\ Nth(i-1)' = Nth(L) /\ At(i-1)' = At(L)
        BY <1>2, <1>6, <2>1
      <3>2. since < CommandInterval => now - last >= TimeInterval
        BY <1>2, <1>5 DEF ShouldSample
      <3> QED  BY <1>2, <1>5, <3>1, <3>2
    <2>2. CASE i # L + 1
      <3>1. i \in 1 .. L /\ i \in 0 .. L /\ i - 1 \in 0 .. L
        BY <1>2, <2>2
      <3>2. /\ Nth(i) - Nth(i-1) <= CommandInterval
            /\ Nth(i) - Nth(i-1) < CommandInterval => At(i) - At(i-1) >= TimeInterval
        BY <1>2, <3>1 DEF Spaced
      <3> QED  BY <1>6, <3>1, <3>2
    <2> QED  BY <2>1, <2>2
  <1> QED  BY <1>7, <1>8

LEMMA StepPaced ==
  ASSUME TypeOK, RingHeld, Pace, Spaced, [Next]_vars
  PROVE  Pace' /\ Spaced'
  <1>1. CASE Push
    BY <1>1, PushPaced
  <1>2. ASSUME NEW c \in Commands, Receive(c) PROVE Pace' /\ Spaced'
    BY <1>2, ReceivePaced, SpacedStill DEF Receive
  <1>3. CASE EndTurn
    BY <1>3, EndTurnPaced, SpacedStill DEF EndTurn
  <1>4. CASE Reset
    <2>1. /\ Nth(Len(samples))' = Nth(Len(samples))
          /\ At(Len(samples))' = At(Len(samples))
          /\ taken' = taken /\ since' = 0 /\ last' = now
          /\ loop = "reset" /\ loop' = "count"
      BY <1>4 DEF Reset, Nth, At
    <2>2. Cardinality(taken) - Nth(Len(samples)) = 0
      BY <2>1 DEF Pace
    <2>3. At(Len(samples)) <= now
      BY LastTyped
    <2>4. Pace'
      BY <2>1, <2>2, <2>3 DEF Pace
    <2> QED  BY <1>4, <2>4, SpacedStill DEF Reset
  <1>5. CASE IncProcessed
    <2>1. /\ Nth(Len(samples))' = Nth(Len(samples))
          /\ At(Len(samples))' = At(Len(samples))
          /\ taken' = taken /\ since' = since /\ last' = last
          /\ loop = "count" /\ loop' = "select"
      BY <1>5 DEF IncProcessed, Nth, At, sampling
    <2>2. Pace'
      BY <2>1 DEF Pace
    <2> QED  BY <1>5, <2>2, SpacedStill DEF IncProcessed
  <1>6. CASE Tick
    <2>1. now' \in Nat /\ now <= now'
      BY <1>6 DEF Tick, TypeOK
    <2> QED  BY <1>6, <2>1, PaceStill, SpacedStill DEF Tick, loopVars
  <1>7. ASSUME UNCHANGED <<now, taken, loop, sampling, samples>> PROVE Pace' /\ Spaced'
    <2>1. now' \in Nat /\ now <= now'
      BY <1>7 DEF TypeOK
    <2> QED  BY <1>7, <2>1, PaceStill, SpacedStill
  <1>8. ASSUME NEW c \in Commands, Send(c) \/ IncEnqueued(c) PROVE Pace' /\ Spaced'
    BY <1>7, <1>8 DEF Send, IncEnqueued, loopVars
  <1>9. ASSUME NEW p \in Summers, Load(p) PROVE Pace' /\ Spaced'
    BY <1>7, <1>9 DEF Load, loopVars
  <1>10. ASSUME NEW p \in Readers, \/ Ask(p) \/ Answer(p) \/ AnswerCommand(p)
                                   \/ \E i \in Indices : AskCommand(p, i)
         PROVE  Pace' /\ Spaced'
    BY <1>7, <1>10 DEF Ask, Answer, AskCommand, AnswerCommand, loopVars
  <1>11. CASE UNCHANGED vars
    BY <1>7, <1>11 DEF vars, loopVars
  <1> QED  BY <1>1, <1>2, <1>3, <1>4, <1>5, <1>6, <1>8, <1>9, <1>10, <1>11
           DEF Next, LoopStep

LEMMA PacedEnough == TypeOK /\ RingHeld /\ Pace /\ Spaced => SamplesPaced
  <1> SUFFICES ASSUME TypeOK, RingHeld, Pace, Spaced PROVE SamplesPaced
    OBVIOUS
  <1>1. loop = "select" => Cardinality(taken) - Nth(Len(samples)) < CommandInterval
    BY DEF Pace
  <1> QED  BY <1>1 DEF SamplesPaced, Spaced, Nth, At

(* Whatever the two intervals: between two commands fewer than an interval   *)
(* of them await a sample, and a sample comes before its interval of         *)
(* commands only when its interval of time is over (metrics.rs:277-300,      *)
(* handlers.rs:1003-1007).                                                   *)
THEOREM SamplingPaced == Spec => []SamplesPaced
  <1> DEFINE Inv == TypeOK /\ SumsRight /\ RingHeld /\ Pace /\ Spaced
  <1>1. Init => Inv
    BY InitTyped, InitLoaded, InitHeld
  <1>2. Inv /\ [Next]_vars => Inv'
    BY StepTyped, StepLoaded, StepHeld, StepPaced
  <1>3. Inv => SamplesPaced
    BY PacedEnough
  <1> QED  BY <1>1, <1>2, <1>3, PTL DEF Spec

------------------------------------------------------------------------------
(* How far behind the loop the mutex of the ring is.  The loop has counted   *)
(* as processed every command it has taken but the one in its hand; and the  *)
(* mutex was given up, with the last sample, by one who had seen all of them *)
(* then.                                                                     *)
InHand ==
    /\ taken = processed \cup hand
    /\ loop = "select" => hand = {}
    /\ loop # "select" => \E c \in Commands : hand = {c}

Sampled(R) == Cardinality(R["processed"]) + 1 >= Nth(Len(samples))

Caught == InHand /\ Sampled(released)

LEMMA InitCaught == Init => Caught
  <1> SUFFICES ASSUME Init PROVE Caught
    OBVIOUS
  <1>1. Nth(Len(samples)) = 0 /\ Cardinality(released["processed"]) = 0
    BY FS_EmptySet DEF Init, Nth, Nothing, Sums
  <1> QED  BY <1>1 DEF Init, Caught, InHand, Sampled

LEMMA KnownMore ==
  ASSUME NEW R \in KnownType, NEW S \in KnownType, R["processed"] \subseteq S["processed"]
  PROVE  /\ Cardinality(R["processed"]) \in Nat /\ Cardinality(S["processed"]) \in Nat
         /\ Cardinality(R["processed"]) <= Cardinality(S["processed"])
  <1>1. S["processed"] \in SUBSET Commands
    BY DEF KnownType, Sums
  <1>2. IsFiniteSet(S["processed"])
    BY <1>1, FS_Subset
  <1> QED  BY <1>2, FS_Subset, FS_CardinalityType

(* The command in hand is the one the processed lack. *)
LEMMA OneLess ==
  ASSUME TypeOK, InHand
  PROVE  /\ Cardinality(processed) \in Nat /\ Cardinality(taken) \in Nat
         /\ loop = "select" => Cardinality(taken) = Cardinality(processed)
         /\ loop # "select" => Cardinality(taken) = Cardinality(processed) + 1
  <1>1. IsFiniteSet(processed) /\ IsFiniteSet(taken)
    BY FS_Subset DEF TypeOK
  <1>2. CASE loop = "select"
    BY <1>1, <1>2, FS_CardinalityType DEF InHand
  <1>3. CASE loop # "select"
    <2>1. PICK c \in Commands : hand = {c}
      BY <1>3 DEF InHand
    <2>2. c \notin processed /\ taken = processed \cup {c}
      BY <2>1 DEF InHand, TypeOK
    <2> QED  BY <1>1, <1>3, <2>2, FS_AddElement, FS_CardinalityType
  <1> QED  BY <1>2, <1>3

LEMMA StepCaught ==
  ASSUME TypeOK, SumsRight, RingHeld, Caught, [Next]_vars
  PROVE  Caught'
  <1> USE DEF loopVars, ring, sampling, summing, counters
  <1>t. released \in KnownType /\ known \in [Summers -> KnownType] /\ Loop \in Summers
    BY DEF TypeOK, KnownType
  <1>o. ASSUME UNCHANGED <<taken, processed, hand, loop, released, samples>> PROVE Caught'
    BY <1>o DEF Caught, InHand, Sampled, Nth
  <1>r. ASSUME UNCHANGED <<released, samples>> PROVE Sampled(released)'
    BY <1>r DEF Caught, Sampled, Nth
  <1>1. ASSUME \/ Tick \/ \E c \in Commands : Send(c) \/ IncEnqueued(c)
        PROVE  Caught'
    BY <1>1, <1>o DEF Tick, Send, IncEnqueued
  <1>2. ASSUME NEW p \in Summers, Load(p) PROVE Caught'
    BY <1>2, <1>o DEF Load
  <1>3. ASSUME NEW c \in Commands, Receive(c) PROVE Caught'
    <2>1. InHand'
      BY <1>3 DEF Receive, Caught, InHand
    <2> QED  BY <1>3, <1>r, <2>1 DEF Receive, Caught
  <1>4. CASE EndTurn
    <2>1. InHand'
      BY <1>4 DEF EndTurn, Caught, InHand
    <2> QED  BY <1>4, <1>r, <2>1 DEF EndTurn, Caught
  <1>5. CASE Push
    <2>1. InHand'
      BY <1>5 DEF Push, Caught, InHand
    <2>2. processed \subseteq released'["processed"] /\ released' \in KnownType
      <3>1. released' = Join(known[Loop], released) /\ known[Loop] \in KnownType
        BY <1>5, <1>t DEF Push
      <3>2. processed \subseteq known[Loop]["processed"]
        BY <1>t DEF SumsRight, Loaded, Due
      <3> QED  BY <1>t, <3>1, <3>2, JoinTyped DEF Join, Sums
    <2>3. Cardinality(processed) <= Cardinality(released'["processed"])
          /\ Cardinality(released'["processed"]) \in Nat
      <3>1. [s \in Sums |-> processed] \in KnownType
        BY DEF KnownType, TypeOK
      <3>2. [s \in Sums |-> processed]["processed"] = processed
        BY DEF Sums
      <3> QED  BY <2>2, <3>1, <3>2, KnownMore
    <2>4. Nth(Len(samples))' = Cardinality(taken)
      <3> DEFINE new == [at |-> now, depth |-> DepthOf(sum[Loop].seen),
                         nth |-> Cardinality(taken)]
      <3>1. samples' = Append(samples, new) /\ samples \in Seq(SampleType)
        BY <1>5 DEF Push, RingHeld
      <3>2. new.nth = Cardinality(taken)
        OBVIOUS
      <3> HIDE DEF new
      <3>3. /\ Len(samples') = Len(samples) + 1 /\ Len(samples) \in Nat
            /\ samples'[Len(samples')] = new
        BY <3>1
      <3> QED  BY <3>2, <3>3 DEF Nth
    <2>5. Cardinality(taken) = Cardinality(processed) + 1 /\ Cardinality(processed) \in Nat
      BY <1>5, OneLess DEF Caught, Push
    <2> QED  BY <2>1, <2>3, <2>4, <2>5 DEF Caught, Sampled
  <1>6. CASE Reset
    BY <1>6, <1>r DEF Reset, Caught, InHand
  <1>7. CASE IncProcessed
    <2>1. PICK c \in hand : processed' = processed \cup {c}
      BY <1>7 DEF IncProcessed
    <2>2. InHand'
      BY <1>7, <2>1 DEF IncProcessed, Caught, InHand
    <2> QED  BY <1>7, <1>r, <2>2 DEF IncProcessed, Caught
  <1>8. ASSUME NEW p \in Readers, Answer(p) PROVE Caught'
    <2>1. released' = known[p] /\ known[p] \in KnownType
      BY <1>8, <1>t DEF Answer
    <2>2. released["processed"] \subseteq known[p]["processed"]
      <3>1. mutex = p /\ p # Loop
        BY <1>8 DEF Answer
      <3> QED  BY <3>1 DEF SumsRight, Loaded, Due
    <2>3. /\ Cardinality(released["processed"]) <= Cardinality(released'["processed"])
          /\ Cardinality(released["processed"]) \in Nat
          /\ Cardinality(released'["processed"]) \in Nat
      BY <1>t, <2>1, <2>2, KnownMore
    <2>4. Nth(Len(samples))' = Nth(Len(samples)) /\ Nth(Len(samples)) \in Nat
      BY <1>8, LastTyped DEF Answer, Nth
    <2>5. Sampled(released)'
      BY <2>3, <2>4 DEF Caught, Sampled
    <2> QED  BY <1>8, <2>5 DEF Answer, Caught, InHand
  <1>9. ASSUME NEW p \in Readers, \/ Ask(p) \/ AnswerCommand(p)
                                  \/ \E i \in Indices : AskCommand(p, i)
        PROVE  Caught'
    BY <1>9, <1>o DEF Ask, AnswerCommand, AskCommand
  <1>10. CASE UNCHANGED vars
    BY <1>10, <1>o DEF vars
  <1> QED  BY <1>1, <1>2, <1>3, <1>4, <1>5, <1>6, <1>7, <1>8, <1>9, <1>10
           DEF Next, LoopStep

(* ... so that it is at most an interval of commands behind.                 *)
LEMMA Behind ==
  ASSUME TypeOK, RingHeld, Pace, Caught
  PROVE  /\ Cardinality(released["processed"]) \in Nat /\ Cardinality(processed) \in Nat
         /\ Cardinality(processed) <=
               Cardinality(released["processed"]) + CommandInterval
  <1>1. Cardinality(released["processed"]) \in Nat
    BY KnownMore DEF TypeOK, KnownType
  <1>2. /\ Cardinality(processed) \in Nat /\ Cardinality(taken) \in Nat
        /\ loop = "select" => Cardinality(taken) = Cardinality(processed)
        /\ loop # "select" => Cardinality(taken) = Cardinality(processed) + 1
    BY OneLess DEF Caught
  <1>3. /\ Nth(Len(samples)) \in Nat /\ since \in Nat
        /\ Cardinality(released["processed"]) + 1 >= Nth(Len(samples))
    BY LastTyped DEF Caught, Sampled
  <1>4. /\ loop = "select" =>
              Cardinality(taken) - Nth(Len(samples)) < CommandInterval
        /\ loop # "select" =>
              Cardinality(taken) - Nth(Len(samples)) <= CommandInterval
    <2> DEFINE n == Cardinality(taken) - Nth(Len(samples))
    <2>1. loop \in {"select", "turn", "sum", "reset", "count"}
      BY DEF TypeOK
    <2>2. /\ loop = "turn" => since = n - 1 /\ since < CommandInterval
          /\ loop \in {"select", "count"} => since = n /\ since < CommandInterval
          /\ loop = "sum" => since = n /\ since <= CommandInterval
          /\ loop = "reset" => n = 0
          /\ n \in Int
      BY <1>2, <1>3 DEF Pace
    <2> HIDE DEF n
    <2>3. loop = "select" => n < CommandInterval
      BY <2>2
    <2>4. loop # "select" => n <= CommandInterval
      BY <1>3, <2>1, <2>2
    <2> QED  BY <2>3, <2>4 DEF n
  <1>5. /\ loop = "select" => Cardinality(processed)
                                 <= Nth(Len(samples)) + CommandInterval - 1
        /\ loop # "select" => Cardinality(processed) + 1
                                 <= Nth(Len(samples)) + CommandInterval
    BY <1>2, <1>3, <1>4
  <1> QED  BY <1>1, <1>2, <1>3, <1>5

(* Of what has been sent a sum counts what it counts, and of the processed   *)
(* it misses none that are due.                                              *)
LEMMA DepthLoaded ==
  ASSUME TypeOK, SumsRight, NEW p \in Summers, sum[p].at = "done",
         p = Loop \/ mutex = p
  PROVE  DepthOf(sum[p].seen) <= Monus(Cardinality(sent), Cardinality(Due(p)))
         /\ DepthOf(sum[p].seen) \in Nat
  <1> DEFINE E == sum[p].seen["enqueued"]
             P == sum[p].seen["processed"]
             D == Due(p)
  <1>1. /\ E \subseteq sent /\ D \subseteq P
        /\ sent \subseteq Commands /\ P \subseteq Commands /\ D \subseteq Commands
    <2>1. D \subseteq Commands /\ P \subseteq Commands /\ sent \subseteq Commands
      BY DEF Due, TypeOK, Sums
    <2>2. sum[p].from = 0 /\ sum[p].to = N-1 /\ E \subseteq sent /\ InRange(D, p) \subseteq P
      BY DEF SumsRight, Loaded
    <2>3. InRange(D, p) = D
      BY <2>1, <2>2 DEF InRange
    <2> QED  BY <2>1, <2>2, <2>3
  <1> HIDE DEF E, P, D
  <1>2. IsFiniteSet(sent) /\ IsFiniteSet(P) /\ IsFiniteSet(D) /\ IsFiniteSet(E)
    BY <1>1, FS_Subset
  <1>3. Cardinality(E) <= Cardinality(sent) /\ Cardinality(D) <= Cardinality(P)
    BY <1>1, <1>2, FS_Subset
  <1>4. /\ Cardinality(E) \in Nat /\ Cardinality(sent) \in Nat
        /\ Cardinality(P) \in Nat /\ Cardinality(D) \in Nat
    BY <1>2, FS_CardinalityType
  <1>5. /\ Monus(Cardinality(E), Cardinality(P)) <= Monus(Cardinality(sent), Cardinality(D))
        /\ Monus(Cardinality(E), Cardinality(P)) \in Nat
    BY <1>3, <1>4 DEF Monus
  <1> QED  BY <1>5 DEF DepthOf, E, P, D

LEMMA DepthWithin == TypeOK /\ SumsRight /\ RingHeld /\ Pace /\ Caught => DepthBounded
  <1> SUFFICES ASSUME TypeOK, SumsRight, RingHeld, Pace, Caught PROVE DepthBounded
    OBVIOUS
  <1> DEFINE unfinished == Cardinality(sent \ processed)
  <1>1. /\ unfinished = Cardinality(sent) - Cardinality(processed)
        /\ unfinished \in Nat /\ Cardinality(sent) \in Nat /\ Cardinality(processed) \in Nat
    <2>1. IsFiniteSet(sent) /\ processed \subseteq sent
      BY FS_Subset DEF TypeOK
    <2>2. IsFiniteSet(processed) /\ sent \cap processed = processed
      BY <2>1, FS_Subset
    <2>3. unfinished = Cardinality(sent) - Cardinality(processed)
      BY <2>1, <2>2, FS_Difference
    <2> QED  BY <2>1, <2>2, <2>3, FS_CardinalityType, FS_Difference
  <1> HIDE DEF unfinished
  <1>2. ASSUME sum[Loop].at = "done" PROVE DepthOf(sum[Loop].seen) <= unfinished
    <2>1. /\ DepthOf(sum[Loop].seen) <= Monus(Cardinality(sent), Cardinality(processed))
          /\ DepthOf(sum[Loop].seen) \in Nat
      BY <1>2, DepthLoaded DEF Due
    <2> QED  BY <1>1, <2>1 DEF Monus
  <1>3. ASSUME NEW p \in Readers, sum[p].at = "done", mutex = p
        PROVE  DepthOf(sum[p].seen) <= unfinished + CommandInterval
    <2>1. Due(p) = released["processed"] /\ p \in Summers
      BY <1>3 DEF Due
    <2>2. /\ DepthOf(sum[p].seen)
                <= Monus(Cardinality(sent), Cardinality(released["processed"]))
          /\ DepthOf(sum[p].seen) \in Nat
      BY <1>3, <2>1, DepthLoaded
    <2> QED  BY <1>1, <2>2, Behind DEF Monus
  <1> QED  BY <1>2, <1>3 DEF DepthBounded, unfinished

(* With nothing but Relaxed loads of the counters, no sample is larger than  *)
(* the number of commands then unfinished, and no depth of aggregate_stats   *)
(* larger by more than the sampling interval, for any number of counters,    *)
(* readers and commands (metrics.rs:79-91, 110-120).                         *)
THEOREM DepthOverBounded == Spec => []DepthBounded
  <1> DEFINE Inv == TypeOK /\ SumsRight /\ RingHeld /\ Pace /\ Spaced /\ Caught
  <1>1. Init => Inv
    BY InitTyped, InitLoaded, InitHeld, InitCaught
  <1>2. Inv /\ [Next]_vars => Inv'
    BY StepTyped, StepLoaded, StepHeld, StepPaced, StepCaught
  <1>3. Inv => DepthBounded
    BY DepthWithin
  <1> QED  BY <1>1, <1>2, <1>3, PTL DEF Spec

------------------------------------------------------------------------------
(* The statistics: the i-th newest slot of the ring is the sample i before   *)
(* the last, and so what is counted of the ring is what is recent.           *)
Kept(t) == {i \in 0 .. len-1 : \A j \in 0 .. i : Newest(j).at >= t}

Recent(t) ==
    {i \in DOMAIN samples : i > Len(samples) - Capacity /\ samples[i].at >= t}

Back == [i \in 0 .. len-1 |-> Len(samples) - i]

LEMMA RingBack ==
  ASSUME TypeOK, RingHeld
  PROVE  /\ Len(samples) \in Nat /\ len \in Nat
         /\ len <= Len(samples) /\ len <= Capacity
         /\ DOMAIN samples = 1 .. Len(samples)
         /\ (len = Len(samples) \/ len = Capacity)
         /\ \A i \in 0 .. len-1 :
               /\ Back[i] = Len(samples) - i /\ Back[i] \in 1 .. Len(samples)
               /\ Newest(i).at = samples[Back[i]].at
               /\ Newest(i).depth = samples[Back[i]].depth
         /\ \A k \in 1 .. Len(samples) : samples[k].at \in Nat /\ samples[k].depth \in Nat
         /\ \A i, k \in 1 .. Len(samples) : i <= k => samples[i].at <= samples[k].at
  <1>1. /\ Len(samples) \in Nat /\ len \in Nat
        /\ DOMAIN samples = 1 .. Len(samples)
        /\ \A k \in 1 .. Len(samples) : samples[k] \in SampleType
    BY DEF RingHeld, TypeOK
  <1>2. /\ len <= Len(samples) /\ len <= Capacity
        /\ (len = Len(samples) \/ len = Capacity)
    <2> DEFINE L == Len(samples)
    <2>1. len = (IF L < Capacity THEN L ELSE Capacity) /\ L \in Nat
      BY <1>1 DEF RingHeld
    <2> HIDE DEF L
    <2>2. /\ len <= L /\ len <= Capacity
          /\ (len = L \/ len = Capacity)
      BY <2>1
    <2> QED  BY <2>2 DEF L
  <1>3. ASSUME NEW i \in 0 .. len-1
        PROVE  /\ Back[i] = Len(samples) - i /\ Back[i] \in 1 .. Len(samples)
               /\ Newest(i).at = samples[Back[i]].at
               /\ Newest(i).depth = samples[Back[i]].depth
    <2>1. Back[i] = Len(samples) - i
      BY DEF Back
    <2>2. Back[i] \in 1 .. Len(samples)
      <3> DEFINE L == Len(samples)
      <3>1. Back[i] = L - i /\ L \in Nat /\ len \in Nat /\ len <= L
        BY <1>1, <1>2, <2>1
      <3> HIDE DEF L
      <3>2. Back[i] \in 1 .. L
        BY <3>1
      <3> QED  BY <3>2 DEF L
    <2>3. Newest(i) = [at |-> samples[Back[i]].at, depth |-> samples[Back[i]].depth]
      BY <2>1 DEF RingHeld
    <2> QED  BY <2>1, <2>2, <2>3
  <1>4. \A k \in 1 .. Len(samples) : samples[k].at \in Nat /\ samples[k].depth \in Nat
    <2>1. \A s \in SampleType : s.at \in Nat /\ s.depth \in Nat
      BY FS_CardinalityType DEF SampleType, Depths
    <2> QED  BY <1>1, <2>1
  <1>5. \A i, k \in 1 .. Len(samples) : i <= k => samples[i].at <= samples[k].at
    BY <1>1 DEF RingHeld
  <1> QED  BY <1>1, <1>2, <1>3, <1>4, <1>5

LEMMA KeptIsRecent ==
  ASSUME TypeOK, RingHeld, NEW t \in 0 .. MaxTime
  PROVE  /\ {Back[i] : i \in Kept(t)} = Recent(t)
         /\ \A i, j \in Kept(t) : Back[i] = Back[j] => i = j
         /\ Kept(t) \subseteq 0 .. len-1 /\ IsFiniteSet(Kept(t))
  <1> DEFINE L == Len(samples)
  <1>0. t \in Nat
    OBVIOUS
  <1>1. Kept(t) \subseteq 0 .. len-1 /\ IsFiniteSet(Kept(t))
    <2>1. Kept(t) \subseteq 0 .. len-1
      BY DEF Kept
    <2>2. IsFiniteSet(0 .. len-1)
      BY RingBack, FS_Interval
    <2> QED  BY <2>1, <2>2, FS_Subset
  <1>2. \A i, j \in Kept(t) : Back[i] = Back[j] => i = j
    <2> SUFFICES ASSUME NEW i \in 0 .. len-1, NEW j \in 0 .. len-1, Back[i] = Back[j]
                 PROVE  i = j
      BY <1>1
    <2>1. L - i = L - j /\ L \in Nat
      BY RingBack
    <2> QED  BY <2>1
  <1>3. ASSUME NEW i \in Kept(t) PROVE Back[i] \in Recent(t)
    <2>1. i \in 0 .. len-1 /\ \A j \in 0 .. i : Newest(j).at >= t
      BY DEF Kept
    <2>2. i \in 0 .. i
      BY <2>1
    <2>3. samples[Back[i]].at >= t
      BY <2>1, <2>2, RingBack
    <2>4. Back[i] \in 1 .. L /\ Back[i] = L - i /\ L \in Nat /\ len <= Capacity /\ len \in Nat
      BY <2>1, RingBack
    <2>5. Back[i] > L - Capacity
      BY <2>1, <2>4
    <2> QED  BY <2>3, <2>4, <2>5, RingBack DEF Recent
  <1>4. ASSUME NEW k \in Recent(t) PROVE \E i \in Kept(t) : Back[i] = k
    <2>1. /\ k \in 1 .. L /\ k > L - Capacity /\ samples[k].at >= t
          /\ L \in Nat /\ len \in Nat /\ (len = L \/ len = Capacity)
      BY RingBack DEF Recent
    <2>2. PICK i \in 0 .. len-1 : i = L - k
      <3> HIDE DEF L
      <3>1. L - k \in 0 .. len-1
        BY <2>1
      <3> QED  BY <3>1
    <2>3. ASSUME NEW j \in 0 .. i PROVE Newest(j).at >= t
      <3>1. j \in 0 .. len-1
        BY <2>1, <2>2
      <3>2. Back[j] = L - j /\ Back[j] \in 1 .. L /\ Newest(j).at = samples[Back[j]].at
        BY <3>1, RingBack
      <3>3. k <= Back[j]
        BY <2>1, <2>2, <3>2
      <3>4. samples[k].at <= samples[Back[j]].at
        BY <2>1, <3>2, <3>3, RingBack
      <3>5. samples[k].at \in Nat /\ samples[Back[j]].at \in Nat
        BY <2>1, <3>2, RingBack
      <3> QED  BY <1>0, <2>1, <3>2, <3>4, <3>5
    <2>4. i \in Kept(t)
      BY <2>3 DEF Kept
    <2>5. Back[i] = k
      <3>1. Back[i] = L - i
        BY RingBack
      <3> QED  BY <2>1, <2>2, <3>1
    <2> QED  BY <2>4, <2>5
  <1> QED  BY <1>1, <1>2, <1>3, <1>4

LEMMA RingReads == TypeOK /\ RingHeld => RingExact
  <1> SUFFICES ASSUME TypeOK, RingHeld PROVE RingExact
    OBVIOUS
  <1> DEFINE read == [i \in 0 .. len-1 |-> Newest(i).depth]
             depth == [i \in DOMAIN samples |-> samples[i].depth]
             From(S, f) == {f[i] : i \in S}
  <1>1. ASSUME NEW t \in 0 .. MaxTime
        PROVE  /\ SumFunctionOnSet(read, Kept(t)) = SumFunctionOnSet(depth, Recent(t))
               /\ From(Kept(t), read) = From(Recent(t), depth)
               /\ Cardinality(Kept(t)) = Cardinality(Recent(t))
    <2>1. /\ {Back[i] : i \in Kept(t)} = Recent(t)
          /\ \A i, j \in Kept(t) : Back[i] = Back[j] => i = j
          /\ Kept(t) \subseteq 0 .. len-1 /\ IsFiniteSet(Kept(t))
      BY KeptIsRecent
    <2>2. \A i \in Kept(t) : depth[Back[i]] = read[i] /\ read[i] \in Nat
      <3> SUFFICES ASSUME NEW i \in Kept(t)
                   PROVE  depth[Back[i]] = read[i] /\ read[i] \in Nat
        OBVIOUS
      <3>1. i \in 0 .. len-1 /\ Back[i] \in DOMAIN samples
        BY <2>1, RingBack
      <3>2. Newest(i).depth = samples[Back[i]].depth /\ samples[Back[i]].depth \in Nat
        BY <3>1, RingBack
      <3> QED  BY <3>1, <3>2
    <2> HIDE DEF depth, read
    <2>3. SumFunctionOnSet(read, Kept(t)) = SumFunctionOnSet(depth, {Back[i] : i \in Kept(t)})
      BY <2>1, <2>2, SumThrough
    <2>4. Cardinality(Kept(t)) = Cardinality(Recent(t))
      <3> DEFINE b == [i \in Kept(t) |-> Back[i]]
      <3>1. b \in Bijection(Kept(t), Recent(t))
        BY <2>1 DEF Bijection, Injection, Surjection, IsInjective
      <3> QED  BY <2>1, <3>1, FS_Bijection DEF ExistsBijection
    <2>5. From(Kept(t), read) = From(Recent(t), depth)
      BY <2>1, <2>2
    <2> QED  BY <2>1, <2>3, <2>4, <2>5
  <1>2. ASSUME NEW t \in 0 .. MaxTime
        PROVE  StatsSince(t) = [sum |-> SumFunctionOnSet(depth, Recent(t)),
                                max |-> Max(From(Recent(t), depth) \cup {0}),
                                count |-> Cardinality(Recent(t))]
    <2>1. StatsSince(t) = [sum |-> SumFunctionOnSet(read, Kept(t)),
                           max |-> Max(From(Kept(t), read) \cup {0}),
                           count |-> Cardinality(Kept(t))]
      BY DEF StatsSince, Kept
    <2> QED  BY <1>1, <2>1
  <1> QED  BY <1>2 DEF RingExact, Recent

(* For every capacity and every time asked from, the statistics over the     *)
(* ring are those of the samples recorded since, as far back as it reaches:  *)
(* sum, largest and number (metrics.rs:219-256).                             *)
THEOREM RingReadsBack == Spec => []RingExact
  <1> DEFINE Inv == TypeOK /\ SumsRight /\ RingHeld
  <1>1. Init => Inv
    BY InitTyped, InitLoaded, InitHeld
  <1>2. Inv /\ [Next]_vars => Inv'
    BY StepTyped, StepLoaded, StepHeld
  <1>3. Inv => RingExact
    BY RingReads
  <1> QED  BY <1>1, <1>2, <1>3, PTL DEF Spec

==============================================================================
