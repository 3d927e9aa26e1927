---------------------------- MODULE AnalysisProofs ----------------------------
(***************************************************************************)
(* Proofs about CouncilMinutes, MeetingAnalysis and OrdinanceLedger, for   *)
(* every council, every paragraph of its clerk, every transcript and every *)
(* record of meetings.  First what a loop over a sequence, a recursion on  *)
(* a finite set and a sum compute, step by step; then the minutes of an    *)
(* item; the roles of a meeting, its alignment with the agenda and the     *)
(* segments of an item; and the checks on the record.                      *)
(***************************************************************************)
EXTENDS CouncilMinutesProps, MeetingAnalysisProps, OrdinanceLedgerProps,
        FiniteSetTheorems, SequenceTheorems, WellFoundedInduction, TLAPS

(* What holds of 0 and passes from each number to the next one.            *)
LEMMA Induct ==
  ASSUME NEW n \in Nat, NEW S, 0 \in S, \A i \in 1 .. n : i - 1 \in S => i \in S
  PROVE  \A i \in 0 .. n : i \in S
<1> DEFINE N == 0 .. n
           B == {i \in N : i \notin S}
           R == StrictSubsetOrdering(N)
           T == {0 .. k : k \in B}
<1> SUFFICES ASSUME B # {} PROVE FALSE
  OBVIOUS
<1>1. IsFiniteSet(N)
  BY FS_Interval
<1>2. IsWellFoundedOn(R, FiniteSubsetsOf(N))
  BY FS_StrictSubsetOrderingWellFounded
<1>3. T \subseteq SUBSET N /\ T # {}
  OBVIOUS
<1>4. T \subseteq FiniteSubsetsOf(N)
  <2> HIDE DEF T, N
  <2> QED
    BY <1>1, <1>3, FS_Subset DEF FiniteSubsetsOf
<1>5. \E s \in T : \A t \in T : ~ (<<t, s>> \in R)
  <2> HIDE DEF R, T
  <2> QED
    BY <1>2, <1>3, <1>4, WFMin
<1>6. PICK k \in B : \A t \in T : ~ (<<t, 0 .. k>> \in R)
  BY <1>5
<1>7. k \in 1 .. n /\ k - 1 \in N
  OBVIOUS
<1>8. k - 1 \in B
  BY <1>7
<1>9. 0 .. k - 1 \in T
  BY <1>8
<1>10. k \in 0 .. k /\ k \notin 0 .. k - 1 /\ 0 .. k - 1 \subseteq 0 .. k /\ 0 .. k \subseteq N
  BY <1>7
<1>11. <<0 .. k - 1, 0 .. k>> \in R
  BY <1>10 DEF StrictSubsetOrdering
<1> QED
  BY <1>6, <1>9, <1>11

-------------------------------------------------------------------------------
(* LOOPS                                                                   *)

(* A loop over the first n places: where it begins and how it steps.       *)
Loop(f, n, base, step, D) ==
  /\ f \in [0 .. n -> D]
  /\ f = [i \in 0 .. n |-> IF i = 0 THEN base ELSE step[<<i, f[i-1]>>]]

(* A loop whose steps stay in a set has a value after each of them.        *)
LEMMA LoopExists ==
  ASSUME NEW n \in Nat, NEW D, NEW base \in D, NEW step \in [(1 .. n) \X D -> D]
  PROVE  \E f : Loop(f, n, base, step, D)
<1> DEFINE S == {k \in 0 .. n : \E f : Loop(f, k, base, step, D)}
<1>1. 0 \in S
  <2> DEFINE f == [i \in 0 .. 0 |-> base]
  <2>1. f \in [0 .. 0 -> D] /\ \A i \in 0 .. 0 : f[i] = IF i = 0 THEN base ELSE step[<<i, f[i-1]>>]
    OBVIOUS
  <2>2. f = [i \in 0 .. 0 |-> f[i]]
    OBVIOUS
  <2>3. Loop(f, 0, base, step, D)
    <3> HIDE DEF f
    <3> QED
      BY <2>1, <2>2 DEF Loop
  <2> QED
    BY <2>3
<1>2. ASSUME NEW k \in 1 .. n, k - 1 \in S PROVE k \in S
  <2>1. PICK f : Loop(f, k - 1, base, step, D)
    BY <1>2
  <2> DEFINE h == k - 1
             last == step[<<k, f[k-1]>>]
             g == [i \in 0 .. k |-> IF i = k THEN last ELSE f[i]]
  <2>2. f[k-1] \in D /\ last \in D
    <3>1. k - 1 \in 0 .. h
      OBVIOUS
    <3>2. f[k-1] \in D
      BY <2>1, <3>1 DEF Loop
    <3> QED
      BY <3>2
  <2>3. \A i \in 0 .. k : g[i] \in D /\ g[i] = IF i = 0 THEN base ELSE step[<<i, g[i-1]>>]
    <3> TAKE i \in 0 .. k
    <3>1. CASE i = k
      <4>1. g[i] = last /\ g[i-1] = f[k-1] /\ i # 0
        BY <3>1
      <4> HIDE DEF g
      <4> QED
        BY <2>2, <3>1, <4>1
    <3>2. CASE i # k
      <4>1. i \in 0 .. h /\ (i # 0 => i - 1 \in 0 .. h) /\ k \notin 0 .. h /\ 0 .. h \subseteq 0 .. k
        BY <3>2
      <4>2. f[i] \in D /\ f[i] = IF i = 0 THEN base ELSE step[<<i, f[i-1]>>]
        BY <2>1, <4>1 DEF Loop
      <4>3. g[i] = f[i] /\ (i # 0 => g[i-1] = f[i-1])
        BY <4>1
      <4> HIDE DEF g
      <4> QED
        BY <4>2, <4>3
    <3> QED
      BY <3>1, <3>2
  <2>4. g = [i \in 0 .. k |-> g[i]]
    OBVIOUS
  <2>5. Loop(g, k, base, step, D)
    <3> HIDE DEF g
    <3> QED
      BY <2>3, <2>4 DEF Loop
  <2> QED
    BY <2>5
<1>3. n \in 0 .. n
  OBVIOUS
<1> HIDE DEF S
<1>4. n \in S
  BY <1>1, <1>2, <1>3, Induct
<1> QED
  BY <1>4 DEF S

(* Two loops that begin alike and step alike are alike.                    *)
StepAlike(f, g, n) == f[0] = g[0] /\ \A i \in 1 .. n : f[i-1] = g[i-1] => f[i] = g[i]
Alike(f, g, n) == \A i \in 0 .. n : f[i] = g[i]

LEMMA LoopsAgree ==
  ASSUME NEW n \in Nat, NEW f, NEW g, StepAlike(f, g, n)
  PROVE  Alike(f, g, n)
<1> DEFINE S == {k \in 0 .. n : f[k] = g[k]}
<1>1. 0 \in S /\ \A i \in 1 .. n : i - 1 \in S => i \in S
  BY DEF StepAlike
<1> HIDE DEF S
<1>2. \A i \in 0 .. n : i \in S
  BY <1>1, Induct
<1> QED
  BY <1>2 DEF S, Alike

(* A finite set of numbers has a greatest and a least one.                 *)
LEMMA GreatestIs ==
  ASSUME NEW S \in SUBSET Int, IsFiniteSet(S), S # {}
  PROVE  Max(S) \in S /\ \A x \in S : x <= Max(S)
<1> DEFINE Above(x) == {y \in S : y > x}
           T == {Above(x) : x \in S}
           R == StrictSubsetOrdering(S)
<1>1. IsWellFoundedOn(R, FiniteSubsetsOf(S))
  BY FS_StrictSubsetOrderingWellFounded
<1>2. T # {} /\ T \subseteq FiniteSubsetsOf(S)
  <2>1. \A x \in S : Above(x) \in FiniteSubsetsOf(S)
    BY FS_Subset DEF FiniteSubsetsOf
  <2> QED
    BY <2>1
<1>3. \E s \in T : \A t \in T : ~ (<<t, s>> \in R)
  <2> HIDE DEF R, T
  <2> QED
    BY <1>1, <1>2, WFMin
<1>4. PICK x \in S : \A t \in T : ~ (<<t, Above(x)>> \in R)
  BY <1>3
<1>5. ASSUME NEW y \in S, y > x PROVE FALSE
  <2>1. x \in Int /\ y \in Int /\ \A z \in S : z \in Int
    OBVIOUS
  <2>2. Above(y) \subseteq Above(x) /\ y \in Above(x) /\ y \notin Above(y)
    <3> HIDE DEF T, R
    <3>1. ASSUME NEW z \in S, z > y PROVE z > x
      <4>1. z \in Int
        BY <2>1
      <4> QED
        BY <1>5, <2>1, <3>1, <4>1
    <3>2. ~(y > y)
      BY <2>1
    <3> QED
      BY <1>5, <3>1, <3>2
  <2>3. <<Above(y), Above(x)>> \in R
    BY <2>2 DEF StrictSubsetOrdering
  <2> QED
    BY <1>4, <2>3
<1>6. \A y \in S : x >= y
  <2> HIDE DEF T, R
  <2> QED
    BY <1>5
<1> HIDE DEF T, R
<1> QED
  BY <1>6 DEF Max

LEMMA LeastIs ==
  ASSUME NEW S \in SUBSET Int, IsFiniteSet(S), S # {}
  PROVE  Min(S) \in S /\ \A x \in S : Min(S) <= x
<1> DEFINE Below(x) == {y \in S : y < x}
           T == {Below(x) : x \in S}
           R == StrictSubsetOrdering(S)
<1>1. IsWellFoundedOn(R, FiniteSubsetsOf(S))
  BY FS_StrictSubsetOrderingWellFounded
<1>2. T # {} /\ T \subseteq FiniteSubsetsOf(S)
  <2>1. \A x \in S : Below(x) \in FiniteSubsetsOf(S)
    BY FS_Subset DEF FiniteSubsetsOf
  <2> QED
    BY <2>1
<1>3. \E s \in T : \A t \in T : ~ (<<t, s>> \in R)
  <2> HIDE DEF R, T
  <2> QED
    BY <1>1, <1>2, WFMin
<1>4. PICK x \in S : \A t \in T : ~ (<<t, Below(x)>> \in R)
  BY <1>3
<1>5. ASSUME NEW y \in S, y < x PROVE FALSE
  <2>1. x \in Int /\ y \in Int /\ \A z \in S : z \in Int
    OBVIOUS
  <2>2. Below(y) \subseteq Below(x) /\ y \in Below(x) /\ y \notin Below(y)
    <3> HIDE DEF T, R
    <3>1. ASSUME NEW z \in S, z < y PROVE z < x
      <4>1. z \in Int
        BY <2>1
      <4> QED
        BY <1>5, <2>1, <3>1, <4>1
    <3>2. ~(y < y)
      BY <2>1
    <3> QED
      BY <1>5, <3>1, <3>2
  <2>3. <<Below(y), Below(x)>> \in R
    BY <2>2 DEF StrictSubsetOrdering
  <2> QED
    BY <1>4, <2>3
<1>6. \A y \in S : x <= y
  <2> HIDE DEF T, R
  <2> QED
    BY <1>5
<1> HIDE DEF T, R
<1> QED
  BY <1>6 DEF Min


(* Values that depend on values of lower rank are as the rest of them are. *)
LEMMA RanksAgree ==
  ASSUME NEW n \in Nat, NEW D, NEW rank \in [D -> 0 .. n], NEW P,
         \A x \in D : (\A y \in D : rank[y] < rank[x] => y \in P) => x \in P
  PROVE  D \subseteq P
<1> DEFINE S == {k \in 0 .. n : \A x \in D : rank[x] <= k => x \in P}
<1>1. \A x \in D : rank[x] \in 0 .. n
  OBVIOUS
<1>2. 0 \in S
  <2>1. ASSUME NEW x \in D, rank[x] <= 0 PROVE x \in P
    <3>1. \A y \in D : ~ (rank[y] < rank[x])
      BY <1>1, <2>1
    <3> QED
      BY <3>1
  <2> QED
    BY <2>1
<1>3. ASSUME NEW k \in 1 .. n, k - 1 \in S PROVE k \in S
  <2>1. ASSUME NEW x \in D, rank[x] <= k PROVE x \in P
    <3>1. \A y \in D : rank[y] < rank[x] => rank[y] <= k - 1
      BY <1>1, <2>1
    <3> QED
      BY <1>3, <3>1
  <2> QED
    BY <2>1
<1> HIDE DEF S
<1>4. n \in S
  <2>1. \A k \in 0 .. n : k \in S
    BY <1>2, <1>3, Induct
  <2> QED
    BY <2>1
<1> QED
  BY <1>1, <1>4 DEF S

(* The functions on part of a set, and the members below one of them.      *)
Partial(D, T) == UNION {[B -> T] : B \in SUBSET D}
Lower(D, rank, x) == {y \in D : rank[y] < rank[x]}

(* A definition by recursion on a rank, from the values of lower rank.     *)
Recursive(f, D, rank, T, step) ==
  f \in [D -> T] /\ \A x \in D : f[x] = step[<<x, [y \in Lower(D, rank, x) |-> f[y]]>>]

StaysIn(T, D, rank, step) ==
  \A x \in D, h \in Partial(D, T) : h \in [Lower(D, rank, x) -> T] => step[<<x, h>>] \in T

(* There is a function that satisfies it.                                  *)
LEMMA RecursionExists ==
  ASSUME NEW n \in Nat, NEW D, NEW rank \in [D -> 0 .. n], NEW T, NEW step, StaysIn(T, D, rank, step)
  PROVE  \E f : Recursive(f, D, rank, T, step)
<1> DEFINE Upto(k) == {x \in D : rank[x] <= k}
           Solves(f, k) == /\ f \in [Upto(k) -> T]
                           /\ \A x \in Upto(k) : f[x] = step[<<x, [y \in Lower(D, rank, x) |-> f[y]]>>]
           S == {k \in 0 .. n : \E f : Solves(f, k)}
<1>1. \A x \in D : rank[x] \in 0 .. n
  OBVIOUS
<1>2. ASSUME NEW x \in D, NEW f, \A y \in Lower(D, rank, x) : f[y] \in T
      PROVE  step[<<x, [y \in Lower(D, rank, x) |-> f[y]]>>] \in T
  <2> DEFINE L == Lower(D, rank, x)
             h == [y \in L |-> f[y]]
  <2>1. L \in SUBSET D
    BY DEF Lower
  <2>2. h \in [L -> T]
    BY <1>2
  <2> HIDE DEF h
  <2>3. h \in Partial(D, T)
    BY <2>1, <2>2 DEF Partial
  <2> QED
    BY <2>2, <2>3 DEF h, StaysIn
<1>3. 0 \in S
  <2> DEFINE none == [y \in {} |-> n]
             f == [x \in Upto(0) |-> step[<<x, none>>]]
  <2>1. \A x \in Upto(0) : Lower(D, rank, x) = {}
    BY <1>1 DEF Lower
  <2>2. ASSUME NEW x \in Upto(0)
        PROVE f[x] \in T /\ f[x] = step[<<x, [y \in Lower(D, rank, x) |-> f[y]]>>]
    <3>1. [y \in Lower(D, rank, x) |-> f[y]] = none
      <4> HIDE DEF f
      <4> QED
        BY <2>1
    <3>2. step[<<x, [y \in Lower(D, rank, x) |-> f[y]]>>] \in T
      <4> HIDE DEF f
      <4> QED
        BY <1>2, <2>1
    <3> QED
      BY <3>1, <3>2
  <2>3. f \in [Upto(0) -> T]
    BY <2>2
  <2> HIDE DEF f
  <2>4. Solves(f, 0)
    BY <2>2, <2>3
  <2> HIDE DEF Solves
  <2> QED
    BY <2>4
<1>4. ASSUME NEW k \in 1 .. n, k - 1 \in S PROVE k \in S
  <2> DEFINE h == k - 1
  <2>1. PICK f : Solves(f, h)
    BY <1>4
  <2> DEFINE g == [x \in Upto(k) |-> IF x \in Upto(h) THEN f[x]
                                     ELSE step[<<x, [y \in Lower(D, rank, x) |-> f[y]]>>]]
  <2>2. ASSUME NEW x \in Upto(k)
        PROVE  /\ Lower(D, rank, x) \subseteq Upto(h) /\ Lower(D, rank, x) \subseteq Upto(k)
               /\ x \in D
    BY <1>1 DEF Lower
  <2>3. g = [x \in Upto(k) |-> g[x]]
        /\ \A x \in Upto(k) : g[x] = IF x \in Upto(h) THEN f[x]
                                     ELSE step[<<x, [y \in Lower(D, rank, x) |-> f[y]]>>]
    OBVIOUS
  <2> HIDE DEF g
  <2>4. ASSUME NEW x \in Upto(k)
        PROVE  /\ g[x] \in T
               /\ g[x] = step[<<x, [y \in Lower(D, rank, x) |-> g[y]]>>]
    <3> DEFINE F == [y \in Lower(D, rank, x) |-> f[y]]
               G == [y \in Lower(D, rank, x) |-> g[y]]
    <3>1. \A y \in Lower(D, rank, x) : g[y] = f[y] /\ f[y] \in T
      BY <2>1, <2>2, <2>3
    <3>2. G = F
      BY <3>1
    <3>3. x \in Upto(h) => f[x] = step[<<x, F>>]
      BY <2>1
    <3>4. step[<<x, F>>] \in T
      BY <1>2, <2>2, <3>1
    <3>5. g[x] = IF x \in Upto(h) THEN f[x] ELSE step[<<x, F>>]
      BY <2>3
    <3>6. g[x] = step[<<x, G>>] /\ g[x] \in T
      <4> HIDE DEF F, G, Upto
      <4> QED
        BY <3>2, <3>3, <3>4, <3>5
    <3> QED
      BY <3>6
  <2>5. Solves(g, k)
    BY <2>3, <2>4
  <2> QED
    BY <2>5
<1> HIDE DEF S
<1>5. n \in S
  <2>1. \A k \in 0 .. n : k \in S
    BY <1>3, <1>4, Induct
  <2> QED
    BY <2>1
<1>6. PICK f : Solves(f, n)
  BY <1>5 DEF S
<1>7. Upto(n) = D
  BY <1>1
<1> QED
  BY <1>6, <1>7 DEF Recursive

-------------------------------------------------------------------------------
(* SUMS                                                                    *)

(* The sum of a function's values over a finite set.                       *)
Total(g, S) == MapThenSumSet(LAMBDA x : g[x], S)

(* What a fold that adds them up computes, whichever it begins with.       *)
Pick(s) == CHOOSE x \in s : TRUE
Adds(f, g, S) == \A s \in SUBSET S : f[s] = IF s = {} THEN 0 ELSE g[Pick(s)] + f[s \ {Pick(s)}]

Summed(g, S) == IsFiniteSet(S) /\ \A x \in S : g[x] \in Int

LEMMA RestIs ==
  ASSUME NEW S, IsFiniteSet(S), NEW x \in S
  PROVE  /\ S \ {x} \in SUBSET S /\ IsFiniteSet(S \ {x})
         /\ Cardinality(S) \in Nat /\ Cardinality(S \ {x}) \in Nat /\ Cardinality(S \ {x}) < Cardinality(S)
<1>1. IsFiniteSet(S \ {x}) /\ Cardinality(S \ {x}) = Cardinality(S) - 1
  BY FS_RemoveElement
<1>2. Cardinality(S) \in Nat /\ Cardinality(S \ {x}) \in Nat
  BY <1>1, FS_CardinalityType
<1> QED
  BY <1>1, <1>2

(* The subsets of a finite set by their sizes.                             *)
Size(S) == [s \in SUBSET S |-> Cardinality(s)]

LEMMA SizeIs ==
  ASSUME NEW S, IsFiniteSet(S)
  PROVE  /\ Cardinality(S) \in Nat /\ Size(S) \in [SUBSET S -> 0 .. Cardinality(S)]
         /\ \A s \in SUBSET S : IsFiniteSet(s) /\ Size(S)[s] = Cardinality(s)
<1>1. Cardinality(S) \in Nat
  BY FS_CardinalityType
<1>2. \A s \in SUBSET S : IsFiniteSet(s) /\ Cardinality(s) <= Cardinality(S) /\ Cardinality(s) \in Nat
  BY FS_Subset, FS_CardinalityType
<1>3. \A s \in SUBSET S : Cardinality(s) \in 0 .. Cardinality(S)
  BY <1>1, <1>2
<1> QED
  BY <1>1, <1>2, <1>3 DEF Size

LEMMA AddsExists ==
  ASSUME NEW S, NEW g, Summed(g, S)
  PROVE  \E f \in [SUBSET S -> Int] : Adds(f, g, S)
<1> DEFINE D == SUBSET S
           n == Cardinality(S)
           rank == Size(S)
           step == [p \in D \X Partial(D, Int) |->
                      IF p[1] = {} THEN 0 ELSE g[Pick(p[1])] + p[2][p[1] \ {Pick(p[1])}]]
<1>1. n \in Nat /\ rank \in [D -> 0 .. n] /\ \A s \in D : IsFiniteSet(s) /\ rank[s] = Cardinality(s)
  BY SizeIs DEF Summed
<1> HIDE DEF rank, n
<1>2. ASSUME NEW s \in D, s # {}
      PROVE  g[Pick(s)] \in Int /\ s \ {Pick(s)} \in Lower(D, rank, s)
  <2>1. Pick(s) \in s
    BY <1>2 DEF Pick
  <2>2. s \ {Pick(s)} \in D /\ Cardinality(s \ {Pick(s)}) < Cardinality(s)
    BY <1>1, <2>1, RestIs
  <2> QED
    BY <1>1, <2>1, <2>2 DEF Lower, Summed
<1>3. ASSUME NEW s \in D, NEW h \in Partial(D, Int)
      PROVE  step[<<s, h>>] = IF s = {} THEN 0 ELSE g[Pick(s)] + h[s \ {Pick(s)}]
  OBVIOUS
<1> HIDE DEF step, D
<1>4. StaysIn(Int, D, rank, step)
  <2> SUFFICES ASSUME NEW s \in D, NEW h \in Partial(D, Int), h \in [Lower(D, rank, s) -> Int]
               PROVE  step[<<s, h>>] \in Int
    BY DEF StaysIn
  <2>1. s # {} => g[Pick(s)] \in Int /\ h[s \ {Pick(s)}] \in Int
    BY <1>2
  <2>2. step[<<s, h>>] = IF s = {} THEN 0 ELSE g[Pick(s)] + h[s \ {Pick(s)}]
    BY <1>3
  <2>3. CASE s = {}
    BY <2>2, <2>3
  <2>4. CASE s # {}
    BY <2>1, <2>2, <2>4
  <2> QED
    BY <2>3, <2>4
<1>5. PICK f : Recursive(f, D, rank, Int, step)
  BY <1>1, <1>4, RecursionExists
<1>6. ASSUME NEW s \in D PROVE f[s] = IF s = {} THEN 0 ELSE g[Pick(s)] + f[s \ {Pick(s)}]
  <2> DEFINE h == [y \in Lower(D, rank, s) |-> f[y]]
  <2>1. h \in Partial(D, Int)
    <3>1. Lower(D, rank, s) \in SUBSET D
      BY DEF Lower
    <3>2. h \in [Lower(D, rank, s) -> Int]
      BY <1>5, <3>1 DEF Recursive
    <3> QED
      BY <3>1, <3>2 DEF Partial
  <2>2. s # {} => h[s \ {Pick(s)}] = f[s \ {Pick(s)}]
    BY <1>2
  <2> HIDE DEF h
  <2>3. f[s] = step[<<s, h>>]
    BY <1>5 DEF h, Recursive
  <2> QED
    BY <1>3, <2>1, <2>2, <2>3
<1> QED
  BY <1>5, <1>6 DEF Adds, D, Recursive

LEMMA AddsAgree ==
  ASSUME NEW S, NEW g, Summed(g, S), NEW e, Adds(e, g, S), NEW f, Adds(f, g, S)
  PROVE  \A s \in SUBSET S : e[s] = f[s]
<1> DEFINE D == SUBSET S
           P == {s \in D : e[s] = f[s]}
<1>1. Cardinality(S) \in Nat /\ Size(S) \in [D -> 0 .. Cardinality(S)]
      /\ \A s \in D : IsFiniteSet(s) /\ Size(S)[s] = Cardinality(s)
  BY SizeIs DEF Summed
<1>2. ASSUME NEW s \in D, \A r \in D : Size(S)[r] < Size(S)[s] => r \in P PROVE s \in P
  <2>1. CASE s = {}
    BY <2>1 DEF Adds
  <2>2. CASE s # {}
    <3>1. Pick(s) \in s
      BY <2>2 DEF Pick
    <3>2. s \ {Pick(s)} \in D /\ Cardinality(s \ {Pick(s)}) < Cardinality(s)
      BY <1>1, <3>1, RestIs
    <3>3. e[s \ {Pick(s)}] = f[s \ {Pick(s)}]
      BY <1>1, <1>2, <3>2
    <3> QED
      BY <2>2, <3>3 DEF Adds
  <2> QED
    BY <2>1, <2>2
<1> HIDE DEF D, P
<1>3. D \subseteq P
  BY <1>1, <1>2, RanksAgree
<1> QED
  BY <1>3 DEF D, P

(* Whatever adds the values up has the total of every subset.              *)
LEMMA TotalIs ==
  ASSUME NEW S, NEW g, Summed(g, S), NEW f, Adds(f, g, S)
  PROVE  \A s \in SUBSET S : f[s] = Total(g, s)
<1> TAKE s \in SUBSET S
<1> DEFINE Is(e) == e = [r \in SUBSET s |-> IF r = {} THEN 0 ELSE g[Pick(r)] + e[r \ {Pick(r)}]]
           t == CHOOSE e : Is(e)
<1>1. Summed(g, s)
  BY FS_Subset DEF Summed
<1>2. Total(g, s) = t[s]
  BY DEF Total, MapThenSumSet, MapThenFoldSet, Pick
<1>3. PICK e \in [SUBSET s -> Int] : Adds(e, g, s)
  BY <1>1, AddsExists
<1>4. Is(e)
  <2>1. e = [r \in SUBSET s |-> e[r]]
    BY <1>3
  <2> QED
    BY <1>3, <2>1 DEF Adds
<1>5. Is(t)
  <2> HIDE DEF Is
  <2> QED
    BY <1>4
<1> HIDE DEF t
<1>6. Adds(t, g, s)
  BY <1>5 DEF Adds
<1>7. Adds(f, g, s)
  BY DEF Adds
<1>8. f[s] = t[s]
  BY <1>1, <1>6, <1>7, AddsAgree
<1> QED
  BY <1>2, <1>8

(* What holds of the empty set and stays so as a member is added.          *)
LEMMA SetInduct ==
  ASSUME NEW S, IsFiniteSet(S), NEW P, {} \in P,
         \A s \in SUBSET S : \A x \in S \ s : s \in P => s \cup {x} \in P
  PROVE  \A s \in SUBSET S : s \in P
<1> DEFINE D == SUBSET S
<1>1. Cardinality(S) \in Nat /\ Size(S) \in [D -> 0 .. Cardinality(S)]
      /\ \A s \in D : IsFiniteSet(s) /\ Size(S)[s] = Cardinality(s)
  BY SizeIs
<1>2. ASSUME NEW s \in D, \A r \in D : Size(S)[r] < Size(S)[s] => r \in P PROVE s \in P
  <2>1. CASE s = {}
    BY <2>1
  <2>2. CASE s # {}
    <3>1. PICK x \in s : TRUE
      BY <2>2
    <3> DEFINE r == s \ {x}
    <3>2. r \in D /\ Cardinality(r) < Cardinality(s)
      BY <1>1, <3>1, RestIs
    <3>3. r \in P
      BY <1>1, <1>2, <3>2
    <3>4. x \in S \ r /\ r \cup {x} = s
      BY <3>1
    <3> HIDE DEF r
    <3> QED
      BY <3>2, <3>3, <3>4
  <2> QED
    BY <2>1, <2>2
<1> HIDE DEF D
<1>3. D \subseteq P
  BY <1>1, <1>2, RanksAgree
<1> QED
  BY <1>3 DEF D

(* A sum takes its terms in any order.                                     *)
LEMMA TotalWithout ==
  ASSUME NEW S, NEW g, Summed(g, S)
  PROVE  /\ Total(g, {}) = 0
         /\ \A s \in SUBSET S : Total(g, s) \in Int
         /\ \A s \in SUBSET S : \A x \in s : Total(g, s) = g[x] + Total(g, s \ {x})
<1> DEFINE D == SUBSET S
<1>1. PICK f \in [D -> Int] : Adds(f, g, S)
  BY AddsExists
<1> DEFINE P == {s \in D : \A x \in s : f[s] = g[x] + f[s \ {x}]}
<1>2. Cardinality(S) \in Nat /\ Size(S) \in [D -> 0 .. Cardinality(S)]
      /\ \A s \in D : IsFiniteSet(s) /\ Size(S)[s] = Cardinality(s)
  BY SizeIs DEF Summed
<1>3. \A x \in S : g[x] \in Int
  BY DEF Summed
<1>4. ASSUME NEW s \in D, \A r \in D : Size(S)[r] < Size(S)[s] => r \in P PROVE s \in P
  <2> SUFFICES ASSUME NEW x \in s PROVE f[s] = g[x] + f[s \ {x}]
    OBVIOUS
  <2> DEFINE a == Pick(s)
  <2>1. a \in s
    BY DEF Pick
  <2>2. f[s] = g[a] + f[s \ {a}]
    BY <1>1 DEF Adds
  <2>3. CASE x # a
    <3> DEFINE sa == s \ {a}
               sx == s \ {x}
    <3>1. sa \in D /\ sx \in D /\ Cardinality(sa) < Cardinality(s) /\ Cardinality(sx) < Cardinality(s)
      BY <1>2, <2>1, RestIs
    <3>2. sa \in P /\ sx \in P
      BY <1>2, <1>4, <3>1
    <3>3. f[sa] = g[x] + f[sa \ {x}] /\ f[sx] = g[a] + f[sx \ {a}]
      BY <2>1, <2>3, <3>2
    <3>4. sa \ {x} = sx \ {a} /\ sa \ {x} \in D
      OBVIOUS
    <3>5. g[x] \in Int /\ g[a] \in Int /\ f[sa \ {x}] \in Int
      BY <1>1, <1>3, <2>1, <3>4
    <3> HIDE DEF a, sa, sx
    <3>6. f[s] = g[a] + f[sa] /\ f[sx] = g[a] + f[sa \ {x}]
      BY <2>2, <3>3, <3>4 DEF sa
    <3> QED
      BY <3>3, <3>5, <3>6 DEF sx
  <2> QED
    BY <2>2, <2>3
<1> HIDE DEF P
<1>5. D \subseteq P
  BY <1>2, <1>4, RanksAgree
<1>6. \A s \in D : f[s] = Total(g, s)
  BY <1>1, TotalIs
<1>7. ASSUME NEW s \in D, NEW x \in s PROVE s \ {x} \in D /\ f[s] = g[x] + f[s \ {x}]
  <2>1. s \in P
    BY <1>5
  <2> QED
    BY <2>1 DEF P
<1>8. {} \in D /\ f[{}] = 0
  BY <1>1 DEF Adds
<1> QED
  BY <1>1, <1>6, <1>7, <1>8

LEMMA TotalWith ==
  ASSUME NEW S, NEW g, Summed(g, S), NEW s \in SUBSET S, NEW x \in S \ s
  PROVE  Total(g, s \cup {x}) = g[x] + Total(g, s)
<1>1. s \cup {x} \in SUBSET S /\ x \in s \cup {x} /\ (s \cup {x}) \ {x} = s
  OBVIOUS
<1> QED
  BY <1>1, TotalWithout

(* The sum of the first terms.                                             *)
LEMMA TotalUpTo ==
  ASSUME NEW m \in Nat, NEW g, Summed(g, 1 .. m), NEW k \in 1 .. m
  PROVE  Total(g, 1 .. k) = g[k] + Total(g, 1 .. (k - 1))
<1> DEFINE N == 1 .. m
           rest == 1 .. (k - 1)
<1>1. k \in Nat /\ 1 <= k /\ k <= m
  OBVIOUS
<1>2. 1 .. k = rest \cup {k} /\ rest \in SUBSET N /\ k \in N \ rest
  BY <1>1
<1>3. Summed(g, N)
  OBVIOUS
<1> HIDE DEF N, rest
<1>4. Total(g, rest \cup {k}) = g[k] + Total(g, rest)
  BY <1>2, <1>3, TotalWith
<1> QED
  BY <1>2, <1>4 DEF rest

(* The sum over two sets without a common member.                          *)
LEMMA TotalOfBoth ==
  ASSUME NEW A, NEW B, A \cap B = {}, NEW g, Summed(g, A \cup B)
  PROVE  Total(g, A \cup B) = Total(g, A) + Total(g, B)
<1> DEFINE S == A \cup B
           P == {s \in SUBSET B : Total(g, A \cup s) = Total(g, A) + Total(g, s)}
<1>1. Total(g, {}) = 0 /\ (\A s \in SUBSET S : Total(g, s) \in Int) /\ IsFiniteSet(B) /\ A \in SUBSET S
      /\ \A x \in S : g[x] \in Int
  BY TotalWithout, FS_Subset DEF Summed
<1>2. {} \in P
  <2>1. A \cup {} = A
    OBVIOUS
  <2>2. Total(g, A) = Total(g, A) + 0
    BY <1>1
  <2> QED
    BY <1>1, <2>1, <2>2
<1>3. ASSUME NEW s \in SUBSET B, NEW x \in B \ s, s \in P PROVE s \cup {x} \in P
  <2>1. s \in SUBSET S /\ A \cup s \in SUBSET S /\ x \in S \ s /\ x \in S \ (A \cup s)
    OBVIOUS
  <2>2. Total(g, s \cup {x}) = g[x] + Total(g, s)
    BY <2>1, TotalWith
  <2>3. Total(g, (A \cup s) \cup {x}) = g[x] + Total(g, A \cup s)
    <3> DEFINE u == A \cup s
    <3>1. u \in SUBSET S /\ x \in S \ u
      BY <2>1
    <3> HIDE DEF u
    <3>2. Total(g, u \cup {x}) = g[x] + Total(g, u)
      BY <3>1, TotalWith
    <3> QED
      BY <3>2 DEF u
  <2>4. A \cup (s \cup {x}) = (A \cup s) \cup {x}
    OBVIOUS
  <2>5. Total(g, A \cup s) = Total(g, A) + Total(g, s)
    BY <1>3
  <2>6. g[x] \in Int /\ Total(g, A) \in Int /\ Total(g, s) \in Int
    BY <1>1, <2>1
  <2>7. Total(g, A \cup (s \cup {x})) = Total(g, A) + Total(g, s \cup {x})
    <3> DEFINE a == Total(g, A)
               b == Total(g, s)
               c == g[x]
    <3>1. a \in Int /\ b \in Int /\ c \in Int
      BY <2>6
    <3>2. Total(g, A \cup (s \cup {x})) = c + (a + b)
      BY <2>3, <2>4, <2>5
    <3>3. Total(g, s \cup {x}) = c + b
      BY <2>2
    <3> HIDE DEF a, b, c
    <3>4. c + (a + b) = a + (c + b)
      BY <3>1
    <3> QED
      BY <3>2, <3>3, <3>4 DEF a
  <2> QED
    BY <2>7
<1> HIDE DEF P
<1>4. B \in P
  BY <1>1, <1>2, <1>3, SetInduct
<1> QED
  BY <1>4 DEF P

(* Sums of the same terms.                                                 *)
LEMMA TotalsAgree ==
  ASSUME NEW S, NEW g, NEW h, Summed(g, S), \A x \in S : g[x] = h[x]
  PROVE  Total(g, S) = Total(h, S)
<1> DEFINE P == {s \in SUBSET S : Total(g, s) = Total(h, s)}
<1>1. Summed(h, S) /\ IsFiniteSet(S)
  BY DEF Summed
<1>2. Total(g, {}) = 0 /\ Total(h, {}) = 0
  BY <1>1, TotalWithout
<1>3. {} \in P
  BY <1>2
<1>4. ASSUME NEW s \in SUBSET S, NEW x \in S \ s, s \in P PROVE s \cup {x} \in P
  <2>1. Total(g, s \cup {x}) = g[x] + Total(g, s)
    BY TotalWith
  <2>2. Total(h, s \cup {x}) = h[x] + Total(h, s)
    BY <1>1, TotalWith
  <2> QED
    BY <1>4, <2>1, <2>2
<1> HIDE DEF P
<1>5. S \in P
  BY <1>1, <1>3, <1>4, SetInduct
<1> QED
  BY <1>5 DEF P

(* A fold that has the sum on the left of each term computes the same.     *)
AddsLeft(f, g, S) == f = [s \in SUBSET S |-> IF s = {} THEN 0 ELSE f[s \ {Pick(s)}] + g[Pick(s)]]

LEMMA AddsLeftIs ==
  ASSUME NEW S, NEW g, Summed(g, S)
  PROVE  (\E f : AddsLeft(f, g, S)) /\ \A t : AddsLeft(t, g, S) => t[S] = Total(g, S)
<1> DEFINE D == SUBSET S
<1>1. PICK f \in [D -> Int] : Adds(f, g, S)
  BY AddsExists
<1>2. ASSUME NEW s \in D, s # {} PROVE Pick(s) \in s /\ g[Pick(s)] \in Int /\ s \ {Pick(s)} \in D
  <2>1. Pick(s) \in s
    BY <1>2 DEF Pick
  <2> QED
    BY <2>1 DEF Summed
<1>3. AddsLeft(f, g, S)
  <2>1. ASSUME NEW s \in D PROVE f[s] = IF s = {} THEN 0 ELSE f[s \ {Pick(s)}] + g[Pick(s)]
    <3>1. f[s] = IF s = {} THEN 0 ELSE g[Pick(s)] + f[s \ {Pick(s)}]
      BY <1>1 DEF Adds
    <3>2. s # {} => f[s \ {Pick(s)}] \in Int /\ g[Pick(s)] \in Int
      BY <1>1, <1>2
    <3> QED
      BY <3>1, <3>2
  <2>2. f = [s \in D |-> f[s]]
    BY <1>1
  <2> QED
    BY <2>1, <2>2 DEF AddsLeft
<1>4. ASSUME NEW t, AddsLeft(t, g, S) PROVE t[S] = Total(g, S)
  <2> DEFINE P == {s \in D : t[s] = f[s]}
  <2>1. Cardinality(S) \in Nat /\ Size(S) \in [D -> 0 .. Cardinality(S)]
        /\ \A s \in D : IsFiniteSet(s) /\ Size(S)[s] = Cardinality(s)
    BY SizeIs DEF Summed
  <2>2. ASSUME NEW s \in D, \A r \in D : Size(S)[r] < Size(S)[s] => r \in P PROVE s \in P
    <3>1. t[s] = (IF s = {} THEN 0 ELSE t[s \ {Pick(s)}] + g[Pick(s)])
          /\ f[s] = (IF s = {} THEN 0 ELSE f[s \ {Pick(s)}] + g[Pick(s)])
      BY <1>3, <1>4 DEF AddsLeft
    <3>2. s # {} => t[s \ {Pick(s)}] = f[s \ {Pick(s)}]
      BY <1>2, <2>1, <2>2, RestIs
    <3> QED
      BY <3>1, <3>2
  <2> HIDE DEF P
  <2>3. D \subseteq P
    BY <2>1, <2>2, RanksAgree
  <2>4. t[S] = f[S]
    BY <2>3 DEF P
  <2> QED
    BY <1>1, <2>4, TotalIs
<1> QED
  BY <1>3, <1>4

(* So does one that has it on the right, as MapThenSumSet.                 *)
AddsRight(f, g, S) == f = [s \in SUBSET S |-> IF s = {} THEN 0 ELSE g[Pick(s)] + f[s \ {Pick(s)}]]

LEMMA AddsRightIs ==
  ASSUME NEW S, NEW g, Summed(g, S)
  PROVE  (\E f : AddsRight(f, g, S)) /\ \A t : AddsRight(t, g, S) => t[S] = Total(g, S)
<1>1. PICK f \in [SUBSET S -> Int] : Adds(f, g, S)
  BY AddsExists
<1>2. AddsRight(f, g, S)
  <2>1. f = [s \in SUBSET S |-> f[s]]
    BY <1>1
  <2> QED
    BY <1>1, <2>1 DEF Adds, AddsRight
<1>3. ASSUME NEW t, AddsRight(t, g, S) PROVE t[S] = Total(g, S)
  <2>1. Adds(t, g, S)
    BY <1>3 DEF Adds, AddsRight
  <2> QED
    BY <2>1, TotalIs
<1> QED
  BY <1>2, <1>3

(* Sequences put one after the other: what there is after each of them.    *)
LEMMA FlattenLoop ==
  ASSUME NEW D, NEW seqs \in Seq(Seq(D))
  PROVE  \E g : /\ g \in [0 .. Len(seqs) -> Seq(D)] /\ g[0] = <<>>
                /\ \A i \in 1 .. Len(seqs) : g[i] = g[i-1] \o seqs[i]
                /\ FlattenSeq(seqs) = g[Len(seqs)]
<1> DEFINE n == Len(seqs)
           Flat(f) == f = [i \in 1 .. n |-> IF i = 1 THEN seqs[i] ELSE f[i-1] \o seqs[i]]
           flat == CHOOSE f : Flat(f)
           step == [p \in (1 .. n) \X Seq(D) |-> p[2] \o seqs[p[1]]]
<1>1. n \in Nat /\ \A i \in 1 .. n : seqs[i] \in Seq(D)
  OBVIOUS
<1>2. step \in [(1 .. n) \X Seq(D) -> Seq(D)]
  BY <1>1
<1>3. <<>> \in Seq(D)
  OBVIOUS
<1>4. FlattenSeq(seqs) = IF n = 0 THEN seqs ELSE flat[n]
  BY DEF FlattenSeq
<1> HIDE DEF step
<1>5. PICK g : Loop(g, n, <<>>, step, Seq(D))
  BY <1>1, <1>2, <1>3, LoopExists
<1>6. g[0] = <<>> /\ g \in [0 .. n -> Seq(D)]
  BY <1>1, <1>5 DEF Loop
<1>7. \A i \in 1 .. n : g[i-1] \in Seq(D) /\ g[i] = g[i-1] \o seqs[i] /\ (i = 1 => g[i] = seqs[i])
  <2> TAKE i \in 1 .. n
  <2>1. i \in 0 .. n /\ i - 1 \in 0 .. n /\ i # 0
    BY <1>1
  <2>2. g[i-1] \in Seq(D) /\ g[i] = step[<<i, g[i-1]>>]
    BY <1>5, <2>1 DEF Loop
  <2>3. g[i] = g[i-1] \o seqs[i]
    BY <2>2 DEF step
  <2>4. i = 1 => g[i-1] = <<>>
    BY <1>6
  <2>5. <<>> \o seqs[i] = seqs[i]
    BY <1>1
  <2> QED
    BY <2>2, <2>3, <2>4, <2>5
<1> DEFINE h == [i \in 1 .. n |-> g[i]]
<1>8. Flat(h)
  <2>1. \A i \in 1 .. n : h[i] = IF i = 1 THEN seqs[i] ELSE h[i-1] \o seqs[i]
    <3> TAKE i \in 1 .. n
    <3>1. i # 1 => i - 1 \in 1 .. n
      BY <1>1
    <3> QED
      BY <1>7, <3>1
  <2>2. h = [i \in 1 .. n |-> h[i]]
    OBVIOUS
  <2> HIDE DEF h
  <2> QED
    BY <2>1, <2>2
<1>9. Flat(flat)
  <2> HIDE DEF Flat, h
  <2> QED
    BY <1>8
<1> HIDE DEF flat, h
<1> DEFINE S == {i \in 0 .. n : i # 0 => flat[i] = g[i]}
<1>10. 0 \in S
  BY <1>1
<1>11. ASSUME NEW i \in 1 .. n, i - 1 \in S PROVE i \in S
  <2>1. flat[i] = IF i = 1 THEN seqs[i] ELSE flat[i-1] \o seqs[i]
    BY <1>9
  <2>2. i # 1 => flat[i-1] = g[i-1]
    BY <1>1, <1>11
  <2>3. flat[i] = g[i]
    <3> HIDE DEF S
    <3> QED
      BY <1>7, <2>1, <2>2
  <2> QED
    BY <1>1, <2>3
<1> HIDE DEF S, Flat
<1>12. n \in S
  <2>1. \A i \in 0 .. n : i \in S
    BY <1>1, <1>10, <1>11, Induct
  <2> QED
    BY <1>1, <2>1
<1>13. FlattenSeq(seqs) = g[n]
  <2>1. CASE n = 0
    <3>1. seqs = <<>>
      BY <2>1, EmptySeq
    <3> QED
      BY <1>4, <1>6, <2>1, <3>1
  <2>2. CASE n # 0
    BY <1>4, <1>12, <2>2 DEF S
  <2> QED
    BY <2>1, <2>2
<1> QED
  BY <1>6, <1>7, <1>13

(* They have the elements of all of them.                                  *)
LEMMA FlattenedIs ==
  ASSUME NEW D, NEW seqs \in Seq(Seq(D))
  PROVE  FlattenSeq(seqs) \in Seq(D)
<1>1. Len(seqs) \in Nat
  OBVIOUS
<1>2. PICK g \in [0 .. Len(seqs) -> Seq(D)] : FlattenSeq(seqs) = g[Len(seqs)]
  BY FlattenLoop
<1> QED
  BY <1>1, <1>2

(* Those of the i-th one are before those of later ones.                   *)
LEMMA FlattenedInOrder ==
  ASSUME NEW D, NEW seqs \in Seq(Seq(D)),
         \A d \in D : d.segment \in Int,
         \A i \in 1 .. Len(seqs) : \A k \in 1 .. Len(seqs[i]) : seqs[i][k].segment = i
  PROVE  LET flat == FlattenSeq(seqs) IN
         \A a, b \in 1 .. Len(flat) : a <= b => flat[a].segment <= flat[b].segment
<1> DEFINE n == Len(seqs)
           Sorted(s, i) == /\ \A a \in 1 .. Len(s) : s[a].segment <= i
                           /\ \A a, b \in 1 .. Len(s) : a <= b => s[a].segment <= s[b].segment
<1>1. n \in Nat /\ \A i \in 1 .. n : seqs[i] \in Seq(D)
  OBVIOUS
<1>2. PICK g : /\ g \in [0 .. n -> Seq(D)] /\ g[0] = <<>>
               /\ \A i \in 1 .. n : g[i] = g[i-1] \o seqs[i]
               /\ FlattenSeq(seqs) = g[n]
  BY FlattenLoop
<1> DEFINE S == {i \in 0 .. n : Sorted(g[i], i)}
<1>3. 0 \in S
  BY <1>1, <1>2
<1>4. ASSUME NEW i \in 1 .. n, i - 1 \in S PROVE i \in S
  <2> DEFINE s == g[i-1]
             t == seqs[i]
             u == g[i]
  <2>1. s \in Seq(D) /\ t \in Seq(D) /\ u = s \o t /\ i \in 0 .. n /\ i \in Int
    <3>1. i - 1 \in 0 .. n /\ i \in 0 .. n /\ i \in Int
      BY <1>1
    <3>2. g[i-1] \in Seq(D)
      BY <1>2, <3>1
    <3> QED
      BY <1>1, <1>2, <3>1, <3>2
  <2>2. Sorted(s, i - 1)
    BY <1>4
  <2>3. \A k \in 1 .. Len(t) : t[k].segment = i
    BY <1>1
  <2> HIDE DEF s, t, u, n
  <2>4. /\ Len(s) \in Nat /\ Len(t) \in Nat /\ Len(u) = Len(s) + Len(t)
        /\ \A a \in 1 .. Len(s) : s[a] \in D /\ u[a] = s[a]
        /\ \A a \in 1 .. Len(u) : a > Len(s) => a - Len(s) \in 1 .. Len(t) /\ u[a] = t[a - Len(s)]
    BY <2>1
  <2>5. \A a \in 1 .. Len(s) : u[a].segment \in Int /\ u[a].segment <= i - 1
    BY <2>2, <2>4
  <2>6. \A a \in 1 .. Len(u) : a > Len(s) => u[a].segment = i
    BY <2>3, <2>4
  <2>7. ASSUME NEW a \in 1 .. Len(u), NEW b \in 1 .. Len(u), a <= b
        PROVE  u[a].segment <= i /\ u[a].segment <= u[b].segment
    <3>1. CASE b <= Len(s)
      <4>1. a \in 1 .. Len(s) /\ b \in 1 .. Len(s)
        BY <2>4, <2>7, <3>1
      <4>2. u[a].segment \in Int /\ u[a].segment <= i - 1
        BY <2>5, <4>1
      <4>3. u[a].segment <= u[b].segment
        BY <2>2, <2>4, <2>7, <4>1
      <4> DEFINE x == u[a].segment
      <4> HIDE DEF x
      <4>4. x \in Int /\ x <= i - 1 => x <= i
        BY <2>1
      <4> QED
        BY <4>2, <4>3, <4>4 DEF x
    <3>2. CASE b > Len(s)
      <4>1. u[b].segment = i
        BY <2>6, <3>2
      <4>2. CASE a <= Len(s)
        <5>1. a \in 1 .. Len(s)
          BY <2>4, <4>2
        <5>2. u[a].segment \in Int /\ u[a].segment <= i - 1
          BY <2>5, <5>1
        <5> DEFINE x == u[a].segment
        <5> HIDE DEF x
        <5>3. x \in Int /\ x <= i - 1 => x <= i
          BY <2>1
        <5> QED
          BY <4>1, <5>2, <5>3 DEF x
      <4>3. CASE a > Len(s)
        BY <2>1, <2>6, <4>1, <4>3
      <4> QED
        BY <2>4, <4>2, <4>3
    <3> QED
      BY <2>4, <3>1, <3>2
  <2>8. Sorted(u, i)
    BY <2>4, <2>7
  <2> QED
    BY <2>1, <2>8 DEF u
<1> HIDE DEF S
<1>5. n \in S
  <2>1. \A i \in 0 .. n : i \in S
    BY <1>1, <1>3, <1>4, Induct
  <2> QED
    BY <1>1, <2>1
<1> QED
  BY <1>2, <1>5 DEF S
-------------------------------------------------------------------------------
(* THE MINUTES OF AN ITEM                                                  *)

Verb == {Main} \cup Secondary
Side == {"yes", "no"}
Result == {"carried", "failed"}

Sentence ==
  [type : {"motion"}, verb : Verb, dated : BOOLEAN]
  \cup {Died, [type |-> "withdrawn"]}
  \cup [type : {"outcome"}, form : {"bare", "named", "main"}, verb : Verb, result : Result]
  \cup [type : {"all"}, side : Side, except : SUBSET Present, other : {"yes", "no", "none"}]
  \cup [type : {"list"}, side : Side, names : SUBSET Present]

(* What is understood of the motions after some sentences.                 *)
Understanding ==
  [main : Verb \cup {"none"}, last : Verb \cup {"none"}, atMain : BOOLEAN, died : BOOLEAN,
   outcomes : Seq([verb : Verb, result : Result])]

(* The motion an outcome is taken for.                                     *)
DecidedVerb(at, s) ==
  LET last == IF at.last # "none" /\ ~at.atMain /\ at.died THEN at.main ELSE at.last IN
  CASE s.form = "named" -> s.verb
    [] s.form = "main" -> Main
    [] s.form = "bare" -> IF last \in Renamed THEN last ELSE Main

LEMMA ReadIs ==
  ASSUME NEW at \in Understanding, NEW s \in Sentence
  PROVE  Read(at, s) \in Understanding
<1>1. CASE s.type = "motion"
  <2>1. s.verb \in Verb /\ Read(at, s) = Moved(at, s)
    BY <1>1 DEF Sentence, Died, Read
  <2> QED
    BY <2>1 DEF Moved, Understanding
<1>2. CASE s.type = "died"
  <2>1. Read(at, s) = [at EXCEPT !.died = TRUE]
    BY <1>2 DEF Read
  <2> QED
    BY <2>1 DEF Understanding
<1>3. CASE s.type = "outcome"
  <2>1. /\ s.verb \in Verb /\ s.result \in Result /\ s.form \in {"bare", "named", "main"}
        /\ Read(at, s) = Decided(at, s)
    BY <1>3 DEF Sentence, Died, Read
  <2>2. Main \in Verb /\ Renamed \subseteq Verb
    BY DEF Verb, Renamed, Subsidiary, Secondary
  <2>3. DecidedVerb(at, s) \in Verb
    BY <2>1, <2>2 DEF DecidedVerb, Understanding
  <2> DEFINE outs == Append(at.outcomes, [verb |-> DecidedVerb(at, s), result |-> s.result])
             any == at.main # "none"
  <2>4. Read(at, s) = [at EXCEPT !.outcomes = outs, !.last = at.main, !.atMain = any]
    BY <2>1 DEF Decided, DecidedVerb
  <2>5. outs \in Seq([verb : Verb, result : Result]) /\ any \in BOOLEAN /\ at.main \in Verb \cup {"none"}
    BY <2>1, <2>3 DEF Understanding
  <2> HIDE DEF outs, any
  <2> QED
    BY <2>4, <2>5 DEF Understanding
<1>4. CASE s.type \notin {"motion", "died", "outcome"}
  BY <1>4 DEF Read
<1> QED
  BY <1>1, <1>2, <1>3, <1>4

UnderstoodLoop(f, text) ==
  f = [i \in 0 .. Len(text) |-> IF i = 0 THEN NoMotionYet ELSE Read(f[i-1], text[i])]

LEMMA UnderstoodLoopExists ==
  ASSUME NEW text \in Seq(Sentence)
  PROVE  \E f : UnderstoodLoop(f, text) /\ f \in [0 .. Len(text) -> Understanding]
<1> DEFINE n == Len(text)
           step == [p \in (1 .. n) \X Understanding |-> Read(p[2], text[p[1]])]
<1>1. n \in Nat /\ NoMotionYet \in Understanding
  BY DEF NoMotionYet, Understanding
<1>2. step \in [(1 .. n) \X Understanding -> Understanding]
  BY ReadIs
<1> HIDE DEF step
<1>3. PICK f : Loop(f, n, NoMotionYet, step, Understanding)
  BY <1>1, <1>2, LoopExists
<1>4. \A i \in 0 .. n : f[i] = IF i = 0 THEN NoMotionYet ELSE Read(f[i-1], text[i])
  <2> TAKE i \in 0 .. n
  <2>1. f[i] = IF i = 0 THEN NoMotionYet ELSE step[<<i, f[i-1]>>]
    BY <1>3 DEF Loop
  <2>2. CASE i # 0
    <3>1. i \in 1 .. n /\ i - 1 \in 0 .. n
      BY <2>2
    <3>2. f[i-1] \in Understanding
      BY <1>3, <3>1 DEF Loop
    <3>3. <<i, f[i-1]>> \in (1 .. n) \X Understanding
      BY <3>1, <3>2
    <3>4. step[<<i, f[i-1]>>] = Read(f[i-1], text[i])
      BY <3>3 DEF step
    <3> QED
      BY <2>1, <2>2, <3>4
  <2> QED
    BY <2>1, <2>2
<1>5. f = [i \in 0 .. n |-> f[i]] /\ f \in [0 .. n -> Understanding]
  BY <1>3 DEF Loop
<1>6. f = [i \in 0 .. n |-> IF i = 0 THEN NoMotionYet ELSE Read(f[i-1], text[i])]
  BY <1>4, <1>5
<1> QED
  BY <1>5, <1>6 DEF UnderstoodLoop

(* What is understood of a text, sentence by sentence.                     *)
LEMMA UnderstoodIs ==
  /\ Understood(<<>>) = NoMotionYet
  /\ \A text \in Seq(Sentence) : Understood(text) \in Understanding
  /\ \A text \in Seq(Sentence), s \in Sentence : Understood(Append(text, s)) = Read(Understood(text), s)
<1> DEFINE of(text) == CHOOSE f : UnderstoodLoop(f, text)
<1>1. \A text : Understood(text) = of(text)[Len(text)]
  BY DEF Understood, UnderstoodLoop
<1>2. ASSUME NEW text \in Seq(Sentence)
      PROVE  /\ of(text)[0] = NoMotionYet
             /\ \A i \in 1 .. Len(text) : of(text)[i] = Read(of(text)[i-1], text[i])
  <2>1. UnderstoodLoop(of(text), text)
    BY UnderstoodLoopExists
  <2>2. Len(text) \in Nat
    OBVIOUS
  <2> HIDE DEF of
  <2>3. \A i \in 0 .. Len(text) : of(text)[i] = IF i = 0 THEN NoMotionYet ELSE Read(of(text)[i-1], text[i])
    BY <2>1 DEF UnderstoodLoop
  <2> QED
    BY <2>2, <2>3
<1> HIDE DEF of
<1>3. Understood(<<>>) = NoMotionYet
  <2>1. <<>> \in Seq(Sentence) /\ Len(<<>>) = 0
    OBVIOUS
  <2> QED
    BY <1>1, <1>2, <2>1
<1>4. ASSUME NEW text \in Seq(Sentence) PROVE Understood(text) \in Understanding
  <2>1. PICK f : UnderstoodLoop(f, text) /\ f \in [0 .. Len(text) -> Understanding]
    BY UnderstoodLoopExists
  <2>2. Len(text) \in Nat
    OBVIOUS
  <2>3. \A i \in 0 .. Len(text) : f[i] = IF i = 0 THEN NoMotionYet ELSE Read(f[i-1], text[i])
    BY <2>1 DEF UnderstoodLoop
  <2>4. f[0] = of(text)[0] /\ \A i \in 1 .. Len(text) : f[i-1] = of(text)[i-1] => f[i] = of(text)[i]
    BY <1>2, <2>2, <2>3
  <2> DEFINE g == of(text)
  <2> HIDE DEF g
  <2>5. \A i \in 0 .. Len(text) : f[i] = g[i]
    <3>1. StepAlike(f, g, Len(text))
      BY <2>4 DEF StepAlike, g
    <3> QED
      BY <2>2, <3>1, LoopsAgree DEF Alike
  <2> QED
    BY <1>1, <2>1, <2>2, <2>5 DEF g
<1>5. ASSUME NEW text \in Seq(Sentence), NEW s \in Sentence
      PROVE  Understood(Append(text, s)) = Read(Understood(text), s)
  <2> DEFINE n == Len(text)
             more == Append(text, s)
             f == of(text)
             g == of(more)
  <2>1. n \in Nat /\ more \in Seq(Sentence) /\ Len(more) = n + 1 /\ more[n + 1] = s
    OBVIOUS
  <2>2. \A i \in 1 .. n : more[i] = text[i]
    OBVIOUS
  <2> HIDE DEF more, n
  <2>3. f[0] = g[0] /\ \A i \in 1 .. n : f[i-1] = g[i-1] => f[i] = g[i]
    BY <1>2, <2>1, <2>2 DEF n
  <2>4. g[n + 1] = Read(g[n], s)
    <3>1. n + 1 \in 1 .. Len(more) /\ (n + 1) - 1 = n
      BY <2>1
    <3>2. g[n + 1] = Read(g[(n + 1) - 1], more[n + 1])
      BY <1>2, <2>1, <3>1
    <3> QED
      BY <2>1, <3>1, <3>2
  <2> HIDE DEF f, g
  <2>5. \A i \in 0 .. n : f[i] = g[i]
    <3>1. StepAlike(f, g, n)
      BY <2>3 DEF StepAlike
    <3> QED
      BY <2>1, <3>1, LoopsAgree DEF Alike
  <2>6. f[n] = g[n]
    BY <2>1, <2>5
  <2>7. Understood(text) = f[n] /\ Understood(more) = g[n + 1]
    BY <1>1, <2>1 DEF f, g, n
  <2> QED
    BY <2>4, <2>6, <2>7 DEF more
<1> QED
  BY <1>3, <1>4, <1>5

(* The votes noted after some sentences.                                   *)
VoteRead == [yes : SUBSET Present, no : SUBSET Present, silent : SUBSET Present, listed : BOOLEAN]
Vote == [yes : SUBSET Present, no : SUBSET Present, silent : SUBSET Present, listed : BOOLEAN,
         result : Result \cup {"none"}]
Note == {at \in [votes : Seq(Vote), result : Result \cup {"none"}, voted : BOOLEAN] :
           at.voted => at.votes # <<>>}

LEMMA ReadVoteIs ==
  ASSUME NEW s \in Sentence, s.type \in {"all", "list"}
  PROVE  ReadVote(s) \in VoteRead
<1>1. CASE s.type = "list"
  <2>1. s.names \in SUBSET Present
    BY <1>1 DEF Sentence, Died
  <2> QED
    BY <1>1, <2>1 DEF ReadVote, VoteRead
<1>2. CASE s.type = "all"
  <2>1. s.except \in SUBSET Present
    BY <1>2 DEF Sentence, Died
  <2> QED
    BY <1>2, <2>1 DEF ReadVote, VoteRead
<1> QED
  BY <1>1, <1>2

(* A vote is a new one, or the second half of the last.                    *)
LEMMA AddVoteIs ==
  ASSUME NEW at \in Note, NEW v \in VoteRead
  PROVE  LET n == Len(at.votes)
             more == AddVote(at, v)
         IN /\ more \in Note /\ more.voted /\ more.result = at.result
            /\ IF at.voted /\ Halves(at.votes[n], v)
               THEN /\ n > 0 /\ Len(more.votes) = n
                    /\ \A i \in 1 .. n - 1 : more.votes[i] = at.votes[i]
                    /\ more.votes[n] = [yes |-> at.votes[n].yes \cup v.yes, no |-> at.votes[n].no \cup v.no,
                                        silent |-> at.votes[n].silent, listed |-> at.votes[n].listed,
                                        result |-> at.votes[n].result]
               ELSE more.votes = Append(at.votes, [yes |-> v.yes, no |-> v.no, silent |-> v.silent,
                                                   listed |-> v.listed, result |-> at.result])
<1> DEFINE n == Len(at.votes)
           new == [yes |-> v.yes, no |-> v.no, silent |-> v.silent, listed |-> v.listed, result |-> at.result]
<1>1. /\ at.votes \in Seq(Vote) /\ n \in Nat /\ at.voted \in BOOLEAN /\ at.result \in Result \cup {"none"}
      /\ at.voted => n > 0
      /\ at = [votes |-> at.votes, result |-> at.result, voted |-> at.voted]
  BY EmptySeq DEF Note
<1>2. Last(at.votes) = at.votes[n]
  BY DEF Last
<1>3. CASE at.voted /\ Halves(at.votes[n], v)
  <2> DEFINE whole == [at.votes[n] EXCEPT !.yes = @ \cup v.yes, !.no = @ \cup v.no]
             votes == [at.votes EXCEPT ![n] = whole]
  <2>1. AddVote(at, v) = [at EXCEPT !.votes = votes]
    BY <1>1, <1>2, <1>3 DEF AddVote, Paired
  <2>2. n \in 1 .. n /\ at.votes[n] \in Vote
    BY <1>1, <1>3
  <2>3. /\ whole \in Vote
        /\ whole = [yes |-> at.votes[n].yes \cup v.yes, no |-> at.votes[n].no \cup v.no,
                    silent |-> at.votes[n].silent, listed |-> at.votes[n].listed,
                    result |-> at.votes[n].result]
    <3>1. ASSUME NEW w \in Vote, NEW a \in SUBSET Present, NEW b \in SUBSET Present
          PROVE  /\ [w EXCEPT !.yes = a, !.no = b] \in Vote
                 /\ [w EXCEPT !.yes = a, !.no = b] =
                      [yes |-> a, no |-> b, silent |-> w.silent, listed |-> w.listed, result |-> w.result]
      <4> DEFINE x == [w EXCEPT !.yes = a, !.no = b]
      <4>1. x \in Vote
        BY DEF Vote
      <4>2. x.yes = a /\ x.no = b /\ x.silent = w.silent /\ x.listed = w.listed /\ x.result = w.result
        BY DEF Vote
      <4> HIDE DEF x
      <4>3. x = [yes |-> x.yes, no |-> x.no, silent |-> x.silent, listed |-> x.listed, result |-> x.result]
        BY <4>1 DEF Vote
      <4> QED
        BY <4>1, <4>2, <4>3 DEF x
    <3>2. at.votes[n].yes \cup v.yes \in SUBSET Present /\ at.votes[n].no \cup v.no \in SUBSET Present
      BY <2>2 DEF Vote, VoteRead
    <3> DEFINE w == at.votes[n]
               a == w.yes \cup v.yes
               b == w.no \cup v.no
    <3>3. whole = [w EXCEPT !.yes = a, !.no = b]
      OBVIOUS
    <3>4. w \in Vote /\ a \in SUBSET Present /\ b \in SUBSET Present
      BY <2>2, <3>2
    <3>5. whole \in Vote
          /\ whole = [yes |-> a, no |-> b, silent |-> w.silent, listed |-> w.listed, result |-> w.result]
      <4> HIDE DEF whole, w, a, b
      <4> QED
        BY <3>1, <3>3, <3>4
    <3> HIDE DEF whole
    <3> QED
      BY <3>5
  <2> HIDE DEF whole
  <2>4. votes \in Seq(Vote) /\ Len(votes) = n /\ votes[n] = whole /\ \A i \in 1 .. n - 1 : votes[i] = at.votes[i]
    <3>1. whole \in Vote
      BY <2>3
    <3> QED
      BY <1>1, <2>2, <3>1
  <2>5. votes # <<>>
    BY <1>1, <1>3, <2>4
  <2> HIDE DEF votes
  <2>6. AddVote(at, v) \in Note
    BY <1>1, <1>3, <2>1, <2>4, <2>5 DEF Note
  <2> QED
    BY <1>1, <1>3, <2>1, <2>3, <2>4, <2>6
<1>4. CASE ~(at.voted /\ Halves(at.votes[n], v))
  <2>1. AddVote(at, v) = [at EXCEPT !.votes = Append(at.votes, new), !.voted = TRUE]
    BY <1>1, <1>2, <1>4 DEF AddVote, Paired
  <2>2. new \in Vote
    BY <1>1 DEF Vote, VoteRead
  <2> HIDE DEF new
  <2>3. Append(at.votes, new) \in Seq(Vote) /\ Append(at.votes, new) # <<>>
    <3>1. Append(at.votes, new) \in Seq(Vote) /\ Len(Append(at.votes, new)) = n + 1
      BY <1>1, <2>2
    <3> QED
      BY <1>1, <3>1, EmptySeq
  <2>4. AddVote(at, v) \in Note
    BY <1>1, <2>1, <2>3 DEF Note
  <2> QED
    BY <1>1, <1>4, <2>1, <2>4 DEF new
<1> QED
  BY <1>3, <1>4

LEMMA ReadEventIs ==
  ASSUME NEW at \in Note, NEW s \in Sentence
  PROVE  ReadEvent(at, s) \in Note
<1>1. CASE s.type \in {"all", "list"}
  BY <1>1, ReadVoteIs, AddVoteIs DEF ReadEvent
<1>2. CASE s.type = "outcome"
  <2>1. s.result \in Result
    BY <1>2 DEF Sentence, Died
  <2> QED
    BY <1>2, <2>1 DEF ReadEvent, Note
<1>3. CASE s.type = "motion"
  BY <1>3 DEF ReadEvent, Note
<1>4. CASE s.type \notin {"all", "list", "outcome", "motion"}
  BY <1>4 DEF ReadEvent
<1> QED
  BY <1>1, <1>2, <1>3, <1>4

NotedLoop(f, text) ==
  f = [i \in 0 .. Len(text) |-> IF i = 0 THEN NothingNoted ELSE ReadEvent(f[i-1], text[i])]

LEMMA NotedLoopExists ==
  ASSUME NEW text \in Seq(Sentence)
  PROVE  \E f : NotedLoop(f, text) /\ f \in [0 .. Len(text) -> Note]
<1> DEFINE n == Len(text)
           step == [p \in (1 .. n) \X Note |-> ReadEvent(p[2], text[p[1]])]
<1>1. n \in Nat /\ NothingNoted \in Note
  BY DEF NothingNoted, Note
<1>2. step \in [(1 .. n) \X Note -> Note]
  BY ReadEventIs
<1> HIDE DEF step
<1>3. PICK f : Loop(f, n, NothingNoted, step, Note)
  BY <1>1, <1>2, LoopExists
<1>4. \A i \in 0 .. n : f[i] = IF i = 0 THEN NothingNoted ELSE ReadEvent(f[i-1], text[i])
  <2> TAKE i \in 0 .. n
  <2>1. f[i] = IF i = 0 THEN NothingNoted ELSE step[<<i, f[i-1]>>]
    BY <1>3 DEF Loop
  <2>2. CASE i # 0
    <3>1. i \in 1 .. n /\ i - 1 \in 0 .. n
      BY <2>2
    <3>2. f[i-1] \in Note
      BY <1>3, <3>1 DEF Loop
    <3>3. <<i, f[i-1]>> \in (1 .. n) \X Note
      BY <3>1, <3>2
    <3>4. step[<<i, f[i-1]>>] = ReadEvent(f[i-1], text[i])
      BY <3>3 DEF step
    <3> QED
      BY <2>1, <2>2, <3>4
  <2> QED
    BY <2>1, <2>2
<1>5. f = [i \in 0 .. n |-> f[i]] /\ f \in [0 .. n -> Note]
  BY <1>3 DEF Loop
<1>6. f = [i \in 0 .. n |-> IF i = 0 THEN NothingNoted ELSE ReadEvent(f[i-1], text[i])]
  BY <1>4, <1>5
<1> QED
  BY <1>5, <1>6 DEF NotedLoop

(* What is noted of a text, sentence by sentence.                     *)
LEMMA NotedIs ==
  /\ Noted(<<>>) = NothingNoted
  /\ \A text \in Seq(Sentence) : Noted(text) \in Note
  /\ \A text \in Seq(Sentence), s \in Sentence : Noted(Append(text, s)) = ReadEvent(Noted(text), s)
<1> DEFINE of(text) == CHOOSE f : NotedLoop(f, text)
<1>1. \A text : Noted(text) = of(text)[Len(text)]
  BY DEF Noted, NotedLoop
<1>2. ASSUME NEW text \in Seq(Sentence)
      PROVE  /\ of(text)[0] = NothingNoted
             /\ \A i \in 1 .. Len(text) : of(text)[i] = ReadEvent(of(text)[i-1], text[i])
  <2>1. NotedLoop(of(text), text)
    BY NotedLoopExists
  <2>2. Len(text) \in Nat
    OBVIOUS
  <2> HIDE DEF of
  <2>3. \A i \in 0 .. Len(text) : of(text)[i] = IF i = 0 THEN NothingNoted ELSE ReadEvent(of(text)[i-1], text[i])
    BY <2>1 DEF NotedLoop
  <2> QED
    BY <2>2, <2>3
<1> HIDE DEF of
<1>3. Noted(<<>>) = NothingNoted
  <2>1. <<>> \in Seq(Sentence) /\ Len(<<>>) = 0
    OBVIOUS
  <2> QED
    BY <1>1, <1>2, <2>1
<1>4. ASSUME NEW text \in Seq(Sentence) PROVE Noted(text) \in Note
  <2>1. PICK f : NotedLoop(f, text) /\ f \in [0 .. Len(text) -> Note]
    BY NotedLoopExists
  <2>2. Len(text) \in Nat
    OBVIOUS
  <2>3. \A i \in 0 .. Len(text) : f[i] = IF i = 0 THEN NothingNoted ELSE ReadEvent(f[i-1], text[i])
    BY <2>1 DEF NotedLoop
  <2>4. f[0] = of(text)[0] /\ \A i \in 1 .. Len(text) : f[i-1] = of(text)[i-1] => f[i] = of(text)[i]
    BY <1>2, <2>2, <2>3
  <2> DEFINE g == of(text)
  <2> HIDE DEF g
  <2>5. \A i \in 0 .. Len(text) : f[i] = g[i]
    <3>1. StepAlike(f, g, Len(text))
      BY <2>4 DEF StepAlike, g
    <3> QED
      BY <2>2, <3>1, LoopsAgree DEF Alike
  <2> QED
    BY <1>1, <2>1, <2>2, <2>5 DEF g
<1>5. ASSUME NEW text \in Seq(Sentence), NEW s \in Sentence
      PROVE  Noted(Append(text, s)) = ReadEvent(Noted(text), s)
  <2> DEFINE n == Len(text)
             more == Append(text, s)
             f == of(text)
             g == of(more)
  <2>1. n \in Nat /\ more \in Seq(Sentence) /\ Len(more) = n + 1 /\ more[n + 1] = s
    OBVIOUS
  <2>2. \A i \in 1 .. n : more[i] = text[i]
    OBVIOUS
  <2> HIDE DEF more, n
  <2>3. f[0] = g[0] /\ \A i \in 1 .. n : f[i-1] = g[i-1] => f[i] = g[i]
    BY <1>2, <2>1, <2>2 DEF n
  <2>4. g[n + 1] = ReadEvent(g[n], s)
    <3>1. n + 1 \in 1 .. Len(more) /\ (n + 1) - 1 = n
      BY <2>1
    <3>2. g[n + 1] = ReadEvent(g[(n + 1) - 1], more[n + 1])
      BY <1>2, <2>1, <3>1
    <3> QED
      BY <2>1, <3>1, <3>2
  <2> HIDE DEF f, g
  <2>5. \A i \in 0 .. n : f[i] = g[i]
    <3>1. StepAlike(f, g, n)
      BY <2>3 DEF StepAlike
    <3> QED
      BY <2>1, <3>1, LoopsAgree DEF Alike
  <2>6. f[n] = g[n]
    BY <2>1, <2>5
  <2>7. Noted(text) = f[n] /\ Noted(more) = g[n + 1]
    BY <1>1, <2>1 DEF f, g, n
  <2> QED
    BY <2>4, <2>6, <2>7 DEF more
<1> QED
  BY <1>3, <1>4, <1>5

(* The sentences that say something of motions, and a text whose bare      *)
(* outcomes of secondary motions follow the motion: Clear, of any text.    *)
Tell == {"motion", "died", "outcome"}
Tells(p) == {i \in DOMAIN p : p[i].type \in Tell}
BareSecondary(s) == s.type = "outcome" /\ s.form = "bare" /\ s.verb # Main
LastTold(p, S, verb) == S # {} /\ p[Max(S)].type = "motion" /\ p[Max(S)].verb = verb

Unambiguous(p) ==
  \A i \in Tells(p) : BareSecondary(p[i]) => LastTold(p, {j \in Tells(p) : j < i}, p[i].verb)

LEMMA ClearIs == Clear <=> Unambiguous(paragraph)
<1>1. Telling = Tells(paragraph)
  BY DEF Telling, Tells, Tell
<1>2. \A i \in Telling :
        PutJustBefore(i, paragraph[i].verb)
          <=> LastTold(paragraph, {j \in Tells(paragraph) : j < i}, paragraph[i].verb)
  BY <1>1 DEF PutJustBefore, LastTold
<1> QED
  BY <1>1, <1>2 DEF Clear, Unambiguous, BareSecondary

LEMMA TextGrows ==
  ASSUME NEW p \in Seq(Sentence), NEW s \in Sentence
  PROVE  LET q == Append(p, s)
             n == Len(p)
         IN /\ q \in Seq(Sentence) /\ Len(q) = n + 1 /\ q[n + 1] = s /\ \A i \in 1 .. n : q[i] = p[i]
            /\ Tells(q) = IF s.type \in Tell THEN Tells(p) \cup {n + 1} ELSE Tells(p)
            /\ \A type : Has(q, type) <=> Has(p, type) \/ s.type = type
            /\ Unambiguous(q) => /\ Unambiguous(p)
                                 /\ BareSecondary(s) => LastTold(p, Tells(p), s.verb)
<1> DEFINE q == Append(p, s)
           n == Len(p)
<1>1. n \in Nat /\ q \in Seq(Sentence) /\ Len(q) = n + 1 /\ q[n + 1] = s /\ \A i \in 1 .. n : q[i] = p[i]
  OBVIOUS
<1>2. DOMAIN p = 1 .. n /\ DOMAIN q = 1 .. n + 1 /\ DOMAIN q = DOMAIN p \cup {n + 1}
  BY <1>1
<1> HIDE DEF q, n
<1>3. Tells(q) = IF s.type \in Tell THEN Tells(p) \cup {n + 1} ELSE Tells(p)
  BY <1>1, <1>2 DEF Tells
<1>4. \A type : Has(q, type) <=> Has(p, type) \/ s.type = type
  BY <1>1, <1>2 DEF Has
<1>5. ASSUME NEW i \in Tells(p)
      PROVE  /\ {j \in Tells(q) : j < i} = {j \in Tells(p) : j < i}
             /\ {j \in Tells(p) : j < i} \subseteq Tells(p)
  <2>1. i \in 1 .. n /\ ~ (n + 1 < i)
    BY <1>1, <1>2 DEF Tells
  <2> QED
    BY <1>3, <2>1
<1>6. ASSUME NEW S \in SUBSET Tells(p), NEW verb, LastTold(q, S, verb) PROVE LastTold(p, S, verb)
  <2>1. S \in SUBSET Int /\ IsFiniteSet(S) /\ S # {}
    <3>1. S \subseteq 1 .. n
      BY <1>2 DEF Tells
    <3>2. IsFiniteSet(1 .. n)
      BY <1>1, FS_Interval
    <3>3. 1 .. n \subseteq Int
      BY <1>1
    <3> QED
      BY <1>6, <3>1, <3>2, <3>3, FS_Subset DEF LastTold
  <2>2. Max(S) \in S
    BY <2>1, GreatestIs
  <2>3. q[Max(S)] = p[Max(S)]
    BY <1>1, <1>2, <2>2 DEF Tells
  <2> QED
    BY <1>6, <2>3 DEF LastTold
<1>7. ASSUME Unambiguous(q) PROVE Unambiguous(p)
  <2> SUFFICES ASSUME NEW i \in Tells(p), BareSecondary(p[i])
               PROVE  LastTold(p, {j \in Tells(p) : j < i}, p[i].verb)
    BY DEF Unambiguous
  <2>1. i \in Tells(q) /\ q[i] = p[i]
    BY <1>1, <1>2, <1>3 DEF Tells
  <2>2. LastTold(q, {j \in Tells(q) : j < i}, p[i].verb)
    BY <1>7, <2>1 DEF Unambiguous
  <2> QED
    BY <1>5, <1>6, <2>2
<1>8. ASSUME Unambiguous(q), BareSecondary(s) PROVE LastTold(p, Tells(p), s.verb)
  <2>1. n + 1 \in Tells(q) /\ q[n + 1] = s
    BY <1>1, <1>3, <1>8 DEF BareSecondary, Tell
  <2>2. LastTold(q, {j \in Tells(q) : j < n + 1}, s.verb)
    BY <1>8, <2>1 DEF Unambiguous
  <2>3. {j \in Tells(q) : j < n + 1} = Tells(p)
    <3>1. Tells(p) \subseteq 1 .. n
      BY <1>2 DEF Tells
    <3>2. \A j \in 1 .. n : j < n + 1
      BY <1>1
    <3>3. ~ (n + 1 < n + 1)
      BY <1>1
    <3>4. Tells(p) \subseteq Tells(q) /\ Tells(q) \subseteq Tells(p) \cup {n + 1}
      BY <1>3
    <3> QED
      BY <3>1, <3>2, <3>3, <3>4
  <2> QED
    BY <1>6, <2>2, <2>3
<1> QED
  BY <1>1, <1>3, <1>4, <1>7, <1>8 DEF q, n

(* What the reading of any text has kept.                                  *)
Followed(p) ==
  LET at == Understood(p) IN
  /\ \A verb \in Verb : LastTold(p, Tells(p), verb) => at.last = verb /\ ~at.died
  /\ at.outcomes = <<>> <=> ~Has(p, "outcome")
  /\ at.main = "none" => at.last = "none"

LEMMA FollowedIs ==
  /\ Followed(<<>>)
  /\ \A p \in Seq(Sentence), s \in Sentence : Followed(p) => Followed(Append(p, s))
<1>1. Followed(<<>>)
  <2>1. Tells(<<>>) = {} /\ ~Has(<<>>, "outcome")
    BY DEF Tells, Has
  <2> QED
    BY <2>1, UnderstoodIs DEF Followed, LastTold, NoMotionYet
<1>2. ASSUME NEW p \in Seq(Sentence), NEW s \in Sentence, Followed(p) PROVE Followed(Append(p, s))
  <2> DEFINE q == Append(p, s)
             n == Len(p)
             at == Understood(p)
             then == Understood(q)
  <2>1. /\ Len(q) = n + 1 /\ q[n + 1] = s /\ n \in Nat /\ \A i \in 1 .. n : q[i] = p[i]
        /\ Tells(q) = IF s.type \in Tell THEN Tells(p) \cup {n + 1} ELSE Tells(p)
        /\ Has(q, "outcome") <=> Has(p, "outcome") \/ s.type = "outcome"
    BY TextGrows
  <2>2. at \in Understanding /\ then \in Understanding /\ then = Read(at, s)
    <3>1. q \in Seq(Sentence)
      OBVIOUS
    <3> QED
      BY <3>1, UnderstoodIs
  <2> HIDE DEF q, n, at, then
  <2>3. Tells(p) \subseteq 1 .. n /\ IsFiniteSet(Tells(p))
    <3>1. Tells(p) \subseteq 1 .. n
      BY <2>1 DEF Tells, n
    <3>2. IsFiniteSet(1 .. n)
      BY <2>1, FS_Interval
    <3> QED
      BY <3>1, <3>2, FS_Subset
  <2>4. s.type \in Tell => Max(Tells(q)) = n + 1
    <3> SUFFICES ASSUME s.type \in Tell PROVE Max(Tells(q)) = n + 1
      OBVIOUS
    <3>1. /\ Tells(q) = Tells(p) \cup {n + 1} /\ \A x \in Tells(q) : x \in Int /\ n + 1 >= x
      BY <2>1, <2>3
    <3>2. n + 1 \in Tells(q) /\ n + 1 \in Int
      BY <2>1, <3>1
    <3> HIDE DEF Tells
    <3>3. ASSUME NEW x \in Tells(q), \A y \in Tells(q) : x >= y PROVE x = n + 1
      <4>1. x >= n + 1 /\ n + 1 >= x /\ x \in Int
        BY <3>1, <3>2, <3>3
      <4> QED
        BY <3>2, <4>1
    <3> QED
      BY <3>1, <3>2, <3>3 DEF Max
  <2>5. ASSUME NEW verb \in Verb, LastTold(q, Tells(q), verb) PROVE then.last = verb /\ ~then.died
    <3>1. CASE s.type \in Tell
      <4>1. s.type = "motion" /\ s.verb = verb
        BY <2>1, <2>4, <2>5, <3>1 DEF LastTold
      <4> QED
        BY <2>2, <4>1 DEF Read, Moved, Understanding
    <3>2. CASE s.type \notin Tell
      <4>1. Tells(q) = Tells(p) /\ Tells(p) # {}
        BY <2>1, <2>5, <3>2 DEF LastTold
      <4>2. Tells(p) \in SUBSET Int
        BY <2>3
      <4>3. Max(Tells(p)) \in Tells(p)
        BY <2>3, <4>1, <4>2, GreatestIs
      <4>4. q[Max(Tells(p))] = p[Max(Tells(p))]
        BY <2>1, <2>3, <4>3
      <4>5. LastTold(p, Tells(p), verb)
        BY <2>5, <4>1, <4>4 DEF LastTold
      <4>6. then = at
        BY <2>2, <3>2 DEF Read, Tell
      <4> QED
        BY <1>2, <4>5, <4>6 DEF Followed, at
    <3> QED
      BY <3>1, <3>2
  <2>6. then.outcomes = <<>> <=> ~Has(q, "outcome")
    <3>1. CASE s.type = "outcome"
      <4>1. then = Decided(at, s)
        BY <2>2, <3>1 DEF Read
      <4>2. then.outcomes = Append(at.outcomes, [verb |-> DecidedVerb(at, s), result |-> s.result])
        BY <2>2, <4>1 DEF Decided, DecidedVerb, Understanding
      <4> DEFINE o == [verb |-> DecidedVerb(at, s), result |-> s.result]
      <4>3. at.outcomes \in Seq([verb : Verb, result : Result])
        BY <2>2 DEF Understanding
      <4> HIDE DEF o
      <4>4. Append(at.outcomes, o) # <<>>
        <5>1. Len(Append(at.outcomes, o)) = Len(at.outcomes) + 1 /\ Len(at.outcomes) \in Nat
          BY <4>3
        <5>2. Len(<<>>) = 0 /\ Len(at.outcomes) + 1 # 0
          BY <5>1
        <5> QED
          BY <5>1, <5>2
      <4> QED
        BY <2>1, <3>1, <4>2, <4>4 DEF o
    <3>2. CASE s.type # "outcome"
      <4>1. then.outcomes = at.outcomes
        BY <2>2, <3>2 DEF Read, Moved, Understanding
      <4> QED
        BY <1>2, <2>1, <3>2, <4>1 DEF Followed, at
    <3> QED
      BY <3>1, <3>2
  <2>7. then.main = "none" => then.last = "none"
    <3>0. at.main = "none" => at.last = "none"
      BY <1>2 DEF Followed, at
    <3>1. CASE s.type = "motion"
      <4>1. s.verb \in Verb /\ "none" \notin Verb
        BY <3>1 DEF Sentence, Died, Verb, Main, Secondary
      <4>2. then = Moved(at, s)
        BY <2>2, <3>1 DEF Read
      <4> QED
        BY <2>2, <4>1, <4>2 DEF Moved, Understanding
    <3>2. CASE s.type = "outcome"
      <4>1. then.main = at.main /\ then.last = at.main
        BY <2>2, <3>2 DEF Read, Decided, Understanding
      <4> QED
        BY <4>1
    <3>3. CASE s.type \notin {"motion", "outcome"}
      <4>1. then.main = at.main /\ then.last = at.last
        BY <2>2, <3>3 DEF Read, Understanding
      <4> QED
        BY <3>0, <4>1
    <3> QED
      BY <3>1, <3>2, <3>3
  <2> QED
    BY <2>5, <2>6, <2>7 DEF Followed, then, q
<1> QED
  BY <1>1, <1>2

(* The sentences of a vote say nothing of motions, and tell the vote.      *)
VoteSentence == {s \in Sentence : s.type \in {"all", "list"}}

StruckIn(p) == \E i \in DOMAIN p : p[i].type = "outcome" /\ p[i].verb = "strike"

SameMotions(p, q) ==
  /\ q \in Seq(Sentence) /\ Understood(q) = Understood(p)
  /\ Followed(p) => Followed(q)
  /\ \A type \in Tell \cup {"withdrawn"} : Has(q, type) <=> Has(p, type)
  /\ Unambiguous(q) => Unambiguous(p)
  /\ StruckIn(p) => StruckIn(q)

LEMMA StruckGrows ==
  ASSUME NEW p \in Seq(Sentence), NEW s \in Sentence
  PROVE  StruckIn(p) \/ (s.type = "outcome" /\ s.verb = "strike") <=> StruckIn(Append(p, s))
<1> DEFINE q == Append(p, s)
           n == Len(p)
<1>1. n \in Nat /\ Len(q) = n + 1 /\ q[n + 1] = s /\ \A i \in 1 .. n : q[i] = p[i]
  OBVIOUS
<1>2. DOMAIN p = 1 .. n /\ DOMAIN q = 1 .. n + 1 /\ DOMAIN q = DOMAIN p \cup {n + 1}
  BY <1>1
<1> HIDE DEF q, n
<1>3. StruckIn(p) \/ (s.type = "outcome" /\ s.verb = "strike") <=> StruckIn(q)
  BY <1>1, <1>2 DEF StruckIn
<1> QED
  BY <1>3 DEF q

LEMMA VoteSaysNothing ==
  ASSUME NEW p \in Seq(Sentence), NEW s \in VoteSentence
  PROVE  SameMotions(p, Append(p, s))
<1>1. s \in Sentence /\ s.type \in {"all", "list"}
  BY DEF VoteSentence
<1>2. Append(p, s) \in Seq(Sentence)
  BY <1>1
<1>3. Understood(Append(p, s)) = Understood(p)
  BY <1>1, UnderstoodIs DEF Read
<1>4. Followed(p) => Followed(Append(p, s))
  BY <1>1, FollowedIs
<1>5. \A type \in Tell \cup {"withdrawn"} : Has(Append(p, s), type) <=> Has(p, type)
  BY <1>1, TextGrows DEF Tell
<1>6. Unambiguous(Append(p, s)) => Unambiguous(p)
  BY <1>1, TextGrows
<1>7. StruckIn(p) => StruckIn(Append(p, s))
  BY <1>1, StruckGrows
<1> QED
  BY <1>2, <1>3, <1>4, <1>5, <1>6, <1>7 DEF SameMotions

LEMMA ListIs ==
  ASSUME NEW side \in Side, NEW names \in SUBSET Present
  PROVE  /\ List(side, names) \in VoteSentence
         /\ ReadVote(List(side, names)) =
              [yes |-> IF side = "yes" THEN names ELSE {}, no |-> IF side = "no" THEN names ELSE {},
               silent |-> {}, listed |-> TRUE]
BY DEF List, VoteSentence, Sentence, ReadVote

LEMMA AllIs ==
  ASSUME NEW side \in Side, NEW except \in SUBSET Present, NEW rest \in {"yes", "no", "none"}
  PROVE  /\ All(side, except, rest) \in VoteSentence
         /\ ReadVote(All(side, except, rest)) =
              [yes |-> IF side = "yes" THEN Present \ except ELSE IF rest = "yes" THEN except ELSE {},
               no |-> IF side = "no" THEN Present \ except ELSE IF rest = "no" THEN except ELSE {},
               silent |-> IF rest = "none" THEN except ELSE {}, listed |-> FALSE]
<1>1. All(side, except, rest) \in Sentence
  BY DEF All, Sentence
<1> QED
  BY <1>1 DEF All, VoteSentence, ReadVote

TellsVote(s, yes, no) ==
  /\ ReadVote(s).yes = yes /\ ReadVote(s).no = no
  /\ ReadVote(s).silent \in {{}, Present \ (yes \cup no)}

VoteIsTold(sentences, yes, no) ==
  \/ \E s \in VoteSentence : sentences = <<s>> /\ TellsVote(s, yes, no)
  \/ sentences = <<List("yes", yes), List("no", no)>> /\ yes # {} /\ no # {}

LEMMA RecordedIs ==
  ASSUME NEW yes \in SUBSET Present, NEW no \in SUBSET (Present \ yes), yes \cup no # {},
         NEW sentences \in Recorded(yes, no, Present \ (yes \cup no))
  PROVE  VoteIsTold(sentences, yes, no)
<1> DEFINE silent == Present \ (yes \cup no)
           Tells1(s) == s \in VoteSentence /\ TellsVote(s, yes, no)
<1>1. no \in SUBSET Present /\ silent \in SUBSET Present
  OBVIOUS
<1>2. CASE sentences = ListOf("yes", yes) \o ListOf("no", no)
  <2>1. CASE no = {}
    <3>1. sentences = <<List("yes", yes)>>
      BY <1>2, <2>1 DEF ListOf
    <3>2. Tells1(List("yes", yes))
      BY <2>1, ListIs DEF Side, TellsVote
    <3> QED
      BY <3>1, <3>2 DEF VoteIsTold
  <2>2. CASE yes = {}
    <3>1. sentences = <<List("no", no)>>
      BY <1>2, <2>2 DEF ListOf
    <3>2. Tells1(List("no", no))
      BY <1>1, <2>2, ListIs DEF Side, TellsVote
    <3> QED
      BY <3>1, <3>2 DEF VoteIsTold
  <2>3. CASE yes # {} /\ no # {}
    <3>1. ASSUME NEW a, NEW b PROVE <<a>> \o <<b>> = <<a, b>>
      <4>1. <<a>> \in Seq({a, b}) /\ b \in {a, b}
        OBVIOUS
      <4>2. <<b>> \in Seq({a, b}) /\ <<a, b>> \in Seq({a, b}) /\ Len(<<a>>) = 1 /\ Len(<<b>>) = 1
        OBVIOUS
      <4>3. <<a>> \o <<b>> \in Seq({a, b}) /\ Len(<<a>> \o <<b>>) = 2
            /\ (<<a>> \o <<b>>)[1] = a /\ (<<a>> \o <<b>>)[2] = b
        BY <4>1, <4>2, ConcatProperties
      <4>4. \A i \in 1 .. 2 : (<<a>> \o <<b>>)[i] = <<a, b>>[i]
        BY <4>3
      <4>5. Len(<<a, b>>) = 2
        OBVIOUS
      <4> QED
        BY <4>2, <4>3, <4>4, <4>5, SeqEqual
    <3>2. ListOf("yes", yes) = <<List("yes", yes)>> /\ ListOf("no", no) = <<List("no", no)>>
      BY <2>3 DEF ListOf
    <3> QED
      BY <1>2, <2>3, <3>1, <3>2 DEF VoteIsTold
  <2> QED
    BY <2>1, <2>2, <2>3
<1>3. CASE silent = {} /\ sentences = <<All("yes", no, "no")>>
  <2>1. Present \ no = yes
    BY <1>3
  <2>2. Tells1(All("yes", no, "no"))
    BY <1>1, <2>1, AllIs, SMTT(60) DEF Side, TellsVote
  <2> QED
    BY <1>3, <2>2 DEF VoteIsTold
<1>4. CASE silent = {} /\ sentences = <<All("no", yes, "yes")>>
  <2>1. Present \ yes = no
    BY <1>4
  <2>2. Tells1(All("no", yes, "yes"))
    <3> DEFINE s == All("no", yes, "yes")
    <3>1. /\ s \in VoteSentence
          /\ ReadVote(s) = [yes |-> yes, no |-> Present \ yes, silent |-> {}, listed |-> FALSE]
      BY <1>1, AllIs DEF Side
    <3> QED
      BY <1>4, <2>1, <3>1 DEF TellsVote, silent
  <2> QED
    BY <1>4, <2>2 DEF VoteIsTold
<1>5. CASE no = {} /\ sentences = <<All("yes", silent, "none")>>
  <2>1. Present \ silent = yes
    BY <1>5
  <2>2. Tells1(All("yes", silent, "none"))
    <3> DEFINE s == All("yes", silent, "none")
    <3>1. /\ s \in VoteSentence
          /\ ReadVote(s) = [yes |-> Present \ silent, no |-> {}, silent |-> silent, listed |-> FALSE]
      BY <1>1, AllIs DEF Side
    <3>2. ReadVote(s).yes = yes /\ ReadVote(s).no = no /\ ReadVote(s).silent = silent
      <4> HIDE DEF s, silent
      <4> QED
        BY <1>5, <2>1, <3>1
    <3> QED
      BY <3>1, <3>2 DEF TellsVote
  <2> QED
    BY <1>5, <2>2 DEF VoteIsTold
<1>6. CASE yes = {} /\ sentences = <<All("no", silent, "none")>>
  <2>1. Present \ silent = no
    BY <1>6
  <2>2. Tells1(All("no", silent, "none"))
    <3> DEFINE s == All("no", silent, "none")
    <3>1. /\ s \in VoteSentence
          /\ ReadVote(s) = [yes |-> {}, no |-> Present \ silent, silent |-> silent, listed |-> FALSE]
      BY <1>1, AllIs DEF Side
    <3> QED
      BY <1>6, <2>1, <3>1 DEF TellsVote, silent
  <2> QED
    BY <1>6, <2>2 DEF VoteIsTold
<1> QED
  BY <1>2, <1>3, <1>4, <1>5, <1>6 DEF Recorded

(* A vote that is written after its outcome is noted once, with its sides. *)
NotedOnce(p, q, yes, no) ==
  \E v \in Vote : /\ Noted(q).votes = Append(Noted(p).votes, v)
                  /\ v.yes = yes /\ v.no = no /\ v.result = Noted(p).result
                  /\ v.silent \in {{}, Present \ (yes \cup no)}

LEMMA VoteWritten ==
  ASSUME NEW p \in Seq(Sentence), ~Noted(p).voted,
         NEW yes \in SUBSET Present, NEW no \in SUBSET (Present \ yes), yes \cup no # {},
         NEW sentences \in Recorded(yes, no, Present \ (yes \cup no))
  PROVE  SameMotions(p, p \o sentences) /\ NotedOnce(p, p \o sentences, yes, no)
<1> DEFINE silent == Present \ (yes \cup no)
           at == Noted(p)
<1>1. at \in Note /\ at.votes \in Seq(Vote) /\ at.result \in Result \cup {"none"}
  BY NotedIs DEF Note
<1>2. no \in SUBSET Present
  OBVIOUS
<1>3. ASSUME NEW s \in VoteSentence
      PROVE  LET v == ReadVote(s) IN
             /\ v \in VoteRead /\ p \o <<s>> = Append(p, s)
             /\ Noted(Append(p, s)) = AddVote(at, v)
             /\ AddVote(at, v).votes = Append(at.votes, [yes |-> v.yes, no |-> v.no, silent |-> v.silent,
                                                         listed |-> v.listed, result |-> at.result])
             /\ AddVote(at, v).voted /\ AddVote(at, v) \in Note
  <2>1. s \in Sentence /\ s.type \in {"all", "list"}
    BY DEF VoteSentence
  <2>2. ReadVote(s) \in VoteRead
    BY <2>1, ReadVoteIs
  <2>3. Noted(Append(p, s)) = AddVote(at, ReadVote(s))
    BY <2>1, NotedIs DEF ReadEvent
  <2>4. p \o <<s>> = Append(p, s)
    BY <2>1, AppendIsConcat
  <2> QED
    BY <1>1, <2>2, <2>3, <2>4, AddVoteIs
<1>4. ASSUME NEW s \in VoteSentence, sentences = <<s>>, TellsVote(s, yes, no)
      PROVE  SameMotions(p, p \o sentences) /\ NotedOnce(p, p \o sentences, yes, no)
  <2> DEFINE r == ReadVote(s)
             v == [yes |-> r.yes, no |-> r.no, silent |-> r.silent, listed |-> r.listed, result |-> at.result]
  <2>2. p \o sentences = Append(p, s) /\ Noted(p \o sentences).votes = Append(at.votes, v) /\ r \in VoteRead
    BY <1>3, <1>4
  <2>3. v \in Vote
    BY <1>1, <2>2 DEF Vote, VoteRead
  <2> QED
    BY <1>4, <2>2, <2>3, VoteSaysNothing DEF TellsVote, NotedOnce
<1>5. CASE sentences = <<List("yes", yes), List("no", no)>> /\ yes # {} /\ no # {}
  <2> DEFINE a == List("yes", yes)
             b == List("no", no)
             q == Append(p, a)
             va == [yes |-> yes, no |-> {}, silent |-> {}, listed |-> TRUE, result |-> at.result]
             vb == [yes |-> {}, no |-> no, silent |-> {}, listed |-> TRUE]
             v == [yes |-> yes, no |-> no, silent |-> {}, listed |-> TRUE, result |-> at.result]
             n == Len(at.votes)
  <2>1. a \in VoteSentence /\ b \in VoteSentence /\ ReadVote(b) = vb
        /\ ReadVote(a) = [yes |-> yes, no |-> {}, silent |-> {}, listed |-> TRUE]
    BY <1>2, ListIs DEF Side
  <2>2. q \in Seq(Sentence) /\ p \o sentences = Append(q, b)
    <3>1. a \in Sentence /\ b \in Sentence
      BY <2>1 DEF VoteSentence
    <3>2. sentences = <<a, b>>
      BY <1>5
    <3> HIDE DEF a, b
    <3>3. p \o <<a, b>> = Append(Append(p, a), b)
      BY <3>1
    <3> QED
      BY <3>1, <3>2, <3>3
  <2>3. Noted(q).votes = Append(at.votes, va) /\ Noted(q).voted /\ Noted(q) \in Note
    <3> DEFINE w == ReadVote(a)
    <3>1. w.yes = yes /\ w.no = {} /\ w.silent = {} /\ w.listed = TRUE
      BY <2>1
    <3>2. /\ Noted(q) = AddVote(at, w) /\ AddVote(at, w).voted /\ AddVote(at, w) \in Note
          /\ AddVote(at, w).votes = Append(at.votes, [yes |-> w.yes, no |-> w.no, silent |-> w.silent,
                                                      listed |-> w.listed, result |-> at.result])
      <4> HIDE DEF a
      <4> QED
        BY <1>3, <2>1
    <3> HIDE DEF w, q
    <3> QED
      BY <3>1, <3>2
  <2>4. n \in Nat /\ Len(Noted(q).votes) = n + 1 /\ Noted(q).votes[n + 1] = va
        /\ \A i \in 1 .. n : Noted(q).votes[i] = at.votes[i]
    BY <1>1, <2>3
  <2>5. Halves(va, vb)
    BY <1>5 DEF Halves
  <2>6. Noted(Append(q, b)) = AddVote(Noted(q), vb) /\ vb \in VoteRead
    <3>1. b \in Sentence /\ b.type \in {"all", "list"}
      BY <2>1 DEF VoteSentence
    <3>2. Noted(Append(q, b)) = ReadEvent(Noted(q), b)
      BY <2>2, <3>1, NotedIs
    <3>3. ReadVote(b) \in VoteRead
      BY <3>1, ReadVoteIs
    <3> QED
      BY <2>1, <3>1, <3>2, <3>3 DEF ReadEvent
  <2>7. /\ AddVote(Noted(q), vb) \in Note /\ Len(AddVote(Noted(q), vb).votes) = n + 1
        /\ \A i \in 1 .. (n + 1) - 1 : AddVote(Noted(q), vb).votes[i] = Noted(q).votes[i]
        /\ AddVote(Noted(q), vb).votes[n + 1] = [yes |-> va.yes \cup vb.yes, no |-> va.no \cup vb.no,
                                                 silent |-> va.silent, listed |-> va.listed, result |-> va.result]
    <3> HIDE DEF q, va, vb
    <3> QED
      BY <2>3, <2>4, <2>5, <2>6, AddVoteIs, ZenonT(60)
  <2>8. [yes |-> va.yes \cup vb.yes, no |-> va.no \cup vb.no,
                                                 silent |-> va.silent, listed |-> va.listed, result |-> va.result] = v /\ v \in Vote
    <3>1. yes \cup {} = yes /\ {} \cup no = no
      OBVIOUS
    <3> QED
      BY <1>1, <1>2, <3>1 DEF Vote
  <2>9. Noted(Append(q, b)).votes = Append(at.votes, v)
    <3> DEFINE w == Noted(Append(q, b)).votes
    <3>1. w \in Seq(Vote) /\ Len(w) = n + 1 /\ w[n + 1] = v /\ \A i \in 1 .. n : w[i] = at.votes[i]
      <4>1. (n + 1) - 1 = n
        BY <2>4
      <4> HIDE DEF va, vb, v, q, b, n
      <4> QED
        BY <2>4, <2>6, <2>7, <2>8, <4>1 DEF Note
    <3>2. Append(at.votes, v) \in Seq(Vote) /\ Len(Append(at.votes, v)) = n + 1
          /\ \A i \in 1 .. n + 1 : Append(at.votes, v)[i] = IF i = n + 1 THEN v ELSE at.votes[i]
      BY <1>1, <2>8
    <3> HIDE DEF w, v, n
    <3>3. \A i \in 1 .. n + 1 : w[i] = Append(at.votes, v)[i]
      BY <2>4, <3>1, <3>2
    <3> QED
      BY <2>4, <3>1, <3>2, <3>3, SeqEqual DEF w
  <2>10. SameMotions(p, Append(q, b))
    <3> HIDE DEF a, b
    <3>1. SameMotions(p, q) /\ SameMotions(q, Append(q, b))
      BY <2>1, <2>2, VoteSaysNothing
    <3> HIDE DEF q
    <3> QED
      BY <3>1 DEF SameMotions
  <2> HIDE DEF v, q, b
  <2> QED
    BY <2>2, <2>8, <2>9, <2>10 DEF v, NotedOnce
<1>6. VoteIsTold(sentences, yes, no)
  BY RecordedIs
<1> HIDE DEF silent, at
<1> QED
  BY <1>4, <1>5, <1>6 DEF silent, at, VoteIsTold, NotedOnce

(* What the council and its minutes keep: the motions on the floor are a   *)
(* main one and secondary ones on it, the parser is at the main motion or  *)
(* at the one that was just made or died, and every decision was read for  *)
(* what it was, if the text is clear.                                      *)
Ballot ==
  {b \in [yes : SUBSET Present, no : SUBSET Present, silent : SUBSET Present, result : Result] :
     b.yes \cap b.no = {} /\ b.silent = Present \ (b.yes \cup b.no)}

Decisive(o) == Disposed(o.verb, o.result) # "open"

OnTheFloor(at) ==
  /\ \A i \in DOMAIN pending : IF i = 1 THEN pending[i] = Main ELSE pending[i] \in Secondary
  /\ disposition # "open" => pending = <<>>
  /\ pending # <<>> => at.main = Main
  /\ at.main \in {"none", Main}
  /\ Len(pending) = 1 => at.last = Main \/ (at.last # "none" /\ ~at.atMain /\ at.died)

ReadAsDecided(outs) ==
  /\ \A i \in DOMAIN outs : outs[i].verb = "strike" => StruckIn(paragraph)
  /\ disposition \in {"open", "died"} => \A i \in DOMAIN outs : ~Decisive(outs[i])
  /\ disposition \in Result \cup {"postponed", "referred"} =>
       /\ Disposed(outs[Len(outs)].verb, outs[Len(outs)].result) = disposition
       /\ \A i \in 1 .. Len(outs) - 1 : ~Decisive(outs[i])

CouncilInv ==
  LET at == Understood(paragraph) IN
  /\ paragraph \in Seq(Sentence) /\ pending \in Seq(Verb)
  /\ disposition \in {"open", "died", "withdrawn", "postponed", "referred"} \cup Result
  /\ Followed(paragraph)
  /\ OnTheFloor(at)
  /\ disposition \in {"died", "withdrawn"} => Has(paragraph, disposition)
  /\ disposition \in Result \cup {"postponed", "referred"} => at.outcomes # <<>>
  /\ disposition \in {"open", "died"} /\ pending = <<>> => at.outcomes = <<>>
  /\ Unambiguous(paragraph) => ReadAsDecided(at.outcomes)

(* The votes that are noted are the ballots.                               *)
SameVote(v, b) == v.yes = b.yes /\ v.no = b.no /\ v.result = b.result /\ v.silent \in {{}, b.silent}

BallotsInv ==
  LET votes == Votes(paragraph) IN
  /\ ballots \in Seq(Ballot) /\ Len(votes) = Len(ballots)
  /\ \A i \in DOMAIN ballots : SameVote(votes[i], ballots[i])

(* A sentence about a motion is no vote.                                   *)
LEMMA NoVote ==
  ASSUME NEW p \in Seq(Sentence), NEW s \in Sentence, s.type \notin {"all", "list"}
  PROVE  /\ Votes(Append(p, s)) = Votes(p)
         /\ s.type = "outcome" => ~Noted(Append(p, s)).voted /\ Noted(Append(p, s)).result = s.result
<1>1. Noted(Append(p, s)) = ReadEvent(Noted(p), s) /\ Noted(p) \in Note
  BY NotedIs
<1>2. CASE s.type = "outcome"
  BY <1>1, <1>2 DEF ReadEvent, Note, Votes
<1>3. CASE s.type = "motion"
  BY <1>1, <1>3 DEF ReadEvent, Note, Votes
<1>4. CASE s.type \notin {"outcome", "motion"}
  BY <1>1, <1>4 DEF ReadEvent, Votes
<1> QED
  BY <1>2, <1>3, <1>4

(* An outcome of the motion on top is read as that motion's.               *)
LEMMA VerbIsRead ==
  ASSUME CouncilInv, NEW result \in Result, NEW form \in Forms(Last(pending)), pending # <<>>,
         Unambiguous(Append(paragraph, Outcome(form, Last(pending), result)))
  PROVE  DecidedVerb(Understood(paragraph), Outcome(form, Last(pending), result)) = Last(pending)
<1> DEFINE at == Understood(paragraph)
           verb == Last(pending)
           o == Outcome(form, verb, result)
           n == Len(pending)
<1>1. /\ paragraph \in Seq(Sentence) /\ pending \in Seq(Verb) /\ Followed(paragraph) /\ OnTheFloor(at)
  BY DEF CouncilInv
<1>2. n \in Nat \ {0} /\ verb = pending[n] /\ verb \in Verb
  BY <1>1, EmptySeq DEF Last
<1>3. /\ o.type = "outcome" /\ o.form = form /\ o.verb = verb /\ o \in Sentence
      /\ form \in {"bare", "named", "main"}
  BY <1>2 DEF Outcome, Sentence, Forms
<1>4. at \in Understanding
  BY <1>1, UnderstoodIs
<1> HIDE DEF at, o, verb
<1>5. CASE form = "named"
  BY <1>3, <1>5 DEF DecidedVerb, o, at, verb
<1>6. CASE form = "main"
  <2>1. verb = Main
    BY <1>6 DEF Forms, verb
  <2> QED
    BY <1>3, <1>6, <2>1 DEF DecidedVerb, o, at, verb
<1>7. CASE form = "bare" /\ verb = Main
  <2>1. n = 1
    <3>1. n # 1 => verb \in Secondary
      <4>1. n \in DOMAIN pending
        BY <1>1, <1>2
      <4> HIDE DEF n
      <4> QED
        BY <1>1, <1>2, <4>1 DEF OnTheFloor
    <3> QED
      BY <1>7, <3>1 DEF Main, Secondary
  <2>2. at.main = Main /\ (at.last = Main \/ (at.last # "none" /\ ~at.atMain /\ at.died))
    BY <1>1, <2>1 DEF OnTheFloor
  <2>3. Main \notin Renamed
    BY DEF Main, Renamed, Subsidiary
  <2>4. DecidedVerb(at, o) = Main
    BY <1>3, <1>7, <2>2, <2>3 DEF DecidedVerb
  <2> QED
    BY <1>7, <2>4 DEF o, at, verb
<1>8. CASE form = "bare" /\ verb # Main
  <2>1. BareSecondary(o)
    BY <1>3, <1>8 DEF BareSecondary
  <2>2. LastTold(paragraph, Tells(paragraph), o.verb)
    BY <1>1, <1>3, <2>1, TextGrows DEF o, verb
  <2>3. at.last = verb /\ ~at.died
    BY <1>1, <1>2, <1>3, <2>2 DEF Followed, at
  <2>4. verb \in Renamed
    BY <1>2, <1>8 DEF Verb, Secondary, Renamed, Subsidiary
  <2>5. DecidedVerb(at, o) = verb
    BY <1>3, <1>8, <2>3, <2>4 DEF DecidedVerb
  <2> QED
    BY <2>5 DEF o, at, verb
<1> QED
  BY <1>3, <1>5, <1>6, <1>7, <1>8

LEMMA CouncilStart == CouncilInit => CouncilInv /\ BallotsInv
<1> SUFFICES ASSUME CouncilInit PROVE CouncilInv /\ BallotsInv
  OBVIOUS
<1>1. paragraph = <<>> /\ pending = <<>> /\ ballots = <<>> /\ disposition = "open"
  BY DEF CouncilInit
<1>2. Understood(<<>>) = NoMotionYet /\ Noted(<<>>) = NothingNoted /\ Followed(<<>>)
  BY UnderstoodIs, NotedIs, FollowedIs
<1>3. OnTheFloor(NoMotionYet)
  BY <1>1 DEF OnTheFloor, NoMotionYet
<1>4. ReadAsDecided(NoMotionYet.outcomes)
  BY <1>1 DEF ReadAsDecided, NoMotionYet, Result
<1>5. CouncilInv
  <2>1. Understood(paragraph) = NoMotionYet /\ NoMotionYet.outcomes = <<>>
    BY <1>1, <1>2 DEF NoMotionYet
  <2>2. paragraph \in Seq(Sentence) /\ pending \in Seq(Verb)
    BY <1>1
  <2> QED
    BY <1>1, <1>2, <1>3, <1>4, <2>1, <2>2 DEF CouncilInv, Result
<1>6. BallotsInv
  BY <1>1, <1>2 DEF BallotsInv, Votes, NothingNoted
<1> QED
  BY <1>5, <1>6

LEMMA MoveKeeps ==
  ASSUME CouncilInv, BallotsInv,
         NEW verb \in Verb, NEW dated \in BOOLEAN, NEW seconded \in BOOLEAN, Move(verb, dated, seconded)
  PROVE  CouncilInv' /\ BallotsInv'
<1> DEFINE m == Motion(verb, dated)
           at == Understood(paragraph)
           moved == Append(paragraph, m)
           dies == Append(moved, Died)
<1>1. /\ paragraph \in Seq(Sentence) /\ pending \in Seq(Verb) /\ Followed(paragraph) /\ OnTheFloor(at)
      /\ disposition \in {"open", "died"} /\ (Unambiguous(paragraph) => ReadAsDecided(at.outcomes))
      /\ pending = <<>> => at.outcomes = <<>>
  BY DEF CouncilInv, Move
<1>2. m \in Sentence /\ m.type = "motion" /\ m.verb = verb /\ Died \in Sentence /\ Died.type = "died"
  BY DEF Motion, Died, Sentence
<1>3. moved \in Seq(Sentence) /\ dies \in Seq(Sentence)
  BY <1>1, <1>2
<1>4. paragraph' = IF seconded THEN moved ELSE dies
  <2> HIDE DEF m
  <2>1. paragraph \o <<m>> = moved /\ paragraph \o <<m, Died>> = dies
    BY <1>1, <1>2
  <2> QED
    BY <2>1 DEF Move, Writes, m
<1>5. /\ pending' = IF seconded THEN Append(pending, verb) ELSE pending
      /\ disposition' = IF pending = <<>> THEN IF seconded THEN "open" ELSE "died" ELSE disposition
      /\ ballots' = ballots
      /\ verb = Main <=> pending = <<>>
  BY DEF Move
<1>6. /\ Understood(moved) = Moved(at, m) /\ Understood(dies) = [Moved(at, m) EXCEPT !.died = TRUE]
      /\ at \in Understanding
  BY <1>1, <1>2, <1>3, UnderstoodIs DEF Read
<1> HIDE DEF at, moved, dies
<1> DEFINE then == Understood(paragraph')
<1>7. /\ then.main = Main /\ then.last = verb /\ then.atMain = (at.main = "none")
      /\ then.died = ~seconded /\ then.outcomes = at.outcomes
  <2>1. verb # Main => at.main = Main
    BY <1>1, <1>5 DEF OnTheFloor
  <2>2. at.main \in {"none", Main} /\ Main # "none"
    BY <1>1 DEF OnTheFloor, Main
  <2> QED
    BY <1>2, <1>4, <1>6, <2>1, <2>2 DEF Moved, Understanding
<1>8. Followed(paragraph')
  BY <1>1, <1>2, <1>3, <1>4, FollowedIs DEF moved, dies
<1>9. /\ paragraph' \in Seq(Sentence) /\ pending' \in Seq(Verb) /\ disposition' \in {"open", "died"}
  BY <1>1, <1>3, <1>4, <1>5
<1>10. pending # <<>> => disposition = "open" /\ at.main = Main
  BY <1>1 DEF OnTheFloor
<1> HIDE DEF then
<1>11. OnTheFloor(Understood(paragraph))'
  <2>1. \A i \in DOMAIN pending' : IF i = 1 THEN pending'[i] = Main ELSE pending'[i] \in Secondary
    <3>1. CASE seconded /\ pending = <<>>
      BY <1>5, <3>1
    <3>2. CASE seconded /\ pending # <<>>
      <4> DEFINE n == Len(pending)
      <4>1. n \in Nat /\ n # 0 /\ Len(pending') = n + 1 /\ pending'[n + 1] = verb
            /\ \A i \in 1 .. n : pending'[i] = pending[i]
        BY <1>1, <1>5, <3>2, EmptySeq
      <4>2. verb \in Secondary
        BY <1>5, <3>2 DEF Verb
      <4>3. DOMAIN pending' = 1 .. n + 1 /\ DOMAIN pending = 1 .. n
        BY <1>1, <1>9, <4>1
      <4>4. \A i \in 1 .. n : IF i = 1 THEN pending[i] = Main ELSE pending[i] \in Secondary
        BY <1>1, <4>3 DEF OnTheFloor
      <4> HIDE DEF n
      <4> QED
        BY <4>1, <4>2, <4>3, <4>4
    <3>3. CASE ~seconded
      BY <1>1, <1>5, <3>3 DEF OnTheFloor
    <3> QED
      BY <3>1, <3>2, <3>3
  <2>2. disposition' # "open" => pending' = <<>>
    BY <1>5, <1>10
  <2>3. Len(pending') = 1 =>
          then.last = Main \/ (then.last # "none" /\ ~then.atMain /\ then.died)
    <3>1. CASE seconded
      <4>1. Len(pending') = Len(pending) + 1 /\ Len(pending) \in Nat
        BY <1>1, <1>5, <3>1
      <4>2. Len(pending) = 0 => pending = <<>>
        BY <1>1, EmptySeq
      <4> QED
        BY <1>5, <1>7, <4>1, <4>2
    <3>2. CASE ~seconded
      <4>1. Len(pending') = 1 => pending # <<>>
        BY <1>5, <3>2
      <4>2. verb # "none" /\ Main # "none"
        BY DEF Verb, Main, Secondary
      <4> QED
        BY <1>7, <1>10, <3>2, <4>1, <4>2
    <3> QED
      BY <3>1, <3>2
  <2> QED
    BY <1>7, <2>1, <2>2, <2>3 DEF OnTheFloor, then
<1>12. disposition' = "died" => Has(paragraph', "died")
  <2>1. Has(dies, "died")
    BY <1>2, <1>3, TextGrows DEF dies
  <2>2. disposition' = "died" => ~seconded
    BY <1>1, <1>5, <1>10
  <2> QED
    BY <1>4, <2>1, <2>2
<1>13. pending' = <<>> => then.outcomes = <<>>
  <2>1. pending' = <<>> => pending = <<>>
    <3>1. Append(pending, verb) # <<>>
      BY <1>1, AppendProperties
    <3> QED
      BY <1>5, <3>1
  <2> QED
    BY <1>1, <1>7, <2>1
<1>14. ASSUME Unambiguous(paragraph') PROVE ReadAsDecided(Understood(paragraph).outcomes)'
  <2>1. Unambiguous(paragraph)
    BY <1>1, <1>2, <1>3, <1>4, <1>14, TextGrows DEF moved, dies
  <2>2. StruckIn(paragraph) => StruckIn(paragraph')
    BY <1>1, <1>2, <1>3, <1>4, StruckGrows DEF moved, dies
  <2>3. ReadAsDecided(at.outcomes)
    BY <1>1, <2>1
  <2> QED
    BY <1>1, <1>7, <1>9, <2>2, <2>3 DEF ReadAsDecided, Result, then
<1>15. CouncilInv'
  BY <1>8, <1>9, <1>11, <1>12, <1>13, <1>14 DEF CouncilInv, then, Result
<1>16. BallotsInv'
  <2>1. Votes(paragraph') = Votes(paragraph)
    BY <1>1, <1>2, <1>3, <1>4, NoVote DEF moved, dies
  <2> QED
    BY <1>5, <2>1 DEF BallotsInv
<1> QED
  BY <1>15, <1>16

LEMMA WithdrawKeeps ==
  ASSUME CouncilInv, BallotsInv, Withdraw
  PROVE  CouncilInv' /\ BallotsInv'
<1> DEFINE w == [type |-> "withdrawn"]
           at == Understood(paragraph)
           q == Append(paragraph, w)
<1>1. /\ paragraph \in Seq(Sentence) /\ Followed(paragraph) /\ OnTheFloor(at)
      /\ (Unambiguous(paragraph) => ReadAsDecided(at.outcomes))
  BY DEF CouncilInv
<1>2. w \in Sentence /\ w.type = "withdrawn"
  BY DEF Sentence
<1>3. paragraph' = q /\ disposition' = "withdrawn" /\ pending' = <<>> /\ ballots' = ballots
  <2>1. paragraph \o <<w>> = q
    BY <1>1, <1>2
  <2> QED
    BY <2>1 DEF Withdraw, Writes
<1>4. Understood(q) = at
  BY <1>1, <1>2, UnderstoodIs DEF Read
<1>5. q \in Seq(Sentence) /\ Followed(q) /\ Has(q, "withdrawn") /\ (Unambiguous(q) => Unambiguous(paragraph))
  BY <1>1, <1>2, TextGrows, FollowedIs
<1>6. (StruckIn(paragraph) => StruckIn(q)) /\ Votes(q) = Votes(paragraph)
  BY <1>1, <1>2, StruckGrows, NoVote
<1> HIDE DEF w, q
<1>7. Understood(paragraph') = at
  BY <1>3, <1>4
<1>8. pending' \in Seq(Verb)
  BY <1>3
<1>9. OnTheFloor(Understood(paragraph))'
  BY <1>1, <1>3, <1>7 DEF OnTheFloor
<1>10. Unambiguous(q) => ReadAsDecided(Understood(paragraph).outcomes)'
  BY <1>1, <1>3, <1>5, <1>6, <1>7 DEF ReadAsDecided, Result
<1>11. CouncilInv'
  BY <1>3, <1>5, <1>7, <1>8, <1>9, <1>10 DEF CouncilInv, Result
<1>12. BallotsInv'
  BY <1>3, <1>6 DEF BallotsInv
<1> QED
  BY <1>11, <1>12

(* The sentences of a decision: its outcome, and perhaps the vote.         *)
LEMMA DecideKeeps ==
  ASSUME CouncilInv, BallotsInv, NEW result \in Result, NEW form, Decide(result, form)
  PROVE  CouncilInv' /\ BallotsInv'
<1> DEFINE verb == Last(pending)
           o == Outcome(form, verb, result)
           at == Understood(paragraph)
           n == Len(pending)
           q == Append(paragraph, o)
           outs == at.outcomes
           new == [verb |-> DecidedVerb(at, o), result |-> result]
<1>1. /\ paragraph \in Seq(Sentence) /\ pending \in Seq(Verb) /\ Followed(paragraph) /\ OnTheFloor(at)
      /\ (Unambiguous(paragraph) => ReadAsDecided(outs)) /\ pending # <<>> /\ form \in Forms(verb)
  BY DEF CouncilInv, Decide
<1>2. n \in Nat \ {0} /\ verb = pending[n] /\ verb \in Verb /\ n \in DOMAIN pending /\ DOMAIN pending = 1 .. n
  BY <1>1, EmptySeq DEF Last
<1>3. o \in Sentence /\ o.type = "outcome" /\ o.form = form /\ o.verb = verb /\ o.result = result
  BY <1>1, <1>2 DEF Outcome, Sentence, Forms
<1>4. at \in Understanding /\ Understood(q) = Decided(at, o) /\ Understood(q) \in Understanding
  <2> HIDE DEF o
  <2>1. at \in Understanding /\ Understood(q) = Read(at, o) /\ q \in Seq(Sentence)
    BY <1>1, <1>3, UnderstoodIs
  <2>2. Read(at, o) = Decided(at, o)
    BY <1>3 DEF Read
  <2> QED
    BY <2>1, <2>2, UnderstoodIs
<1>5. disposition = "open" /\ at.main = Main
  BY <1>1 DEF OnTheFloor
<1>6. /\ disposition' = Disposed(verb, result)
      /\ pending' = IF disposition' = "open" THEN Front(pending) ELSE <<>>
  BY DEF Decide
<1>7. q \in Seq(Sentence) /\ Followed(q) /\ (Unambiguous(q) => Unambiguous(paragraph))
  BY <1>1, <1>3, TextGrows, FollowedIs
<1>8. /\ Votes(q) = Votes(paragraph) /\ ~Noted(q).voted /\ Noted(q).result = result
      /\ StruckIn(paragraph) => StruckIn(q)
      /\ verb = "strike" => StruckIn(q)
  BY <1>1, <1>3, NoVote, StruckGrows
<1>9. Unambiguous(q) => DecidedVerb(at, o) = verb
  BY <1>1, VerbIsRead
<1>10. /\ Understood(q).outcomes = Append(outs, new) /\ Understood(q).main = Main /\ Understood(q).last = Main
       /\ outs \in Seq([verb : Verb, result : Result]) /\ new \in [verb : Verb, result : Result]
  <2>1. Understood(q).outcomes = Append(outs, new) /\ Understood(q).main = Main /\ Understood(q).last = Main
    BY <1>3, <1>4, <1>5 DEF Decided, DecidedVerb, Understanding
  <2>2. outs \in Seq([verb : Verb, result : Result])
    BY <1>4 DEF Understanding
  <2>3. Main \in Verb /\ Renamed \subseteq Verb
    BY DEF Verb, Renamed, Subsidiary, Secondary
  <2>4. DecidedVerb(at, o) \in Verb
    <3>1. form \in {"bare", "named", "main"}
      BY <1>1 DEF Forms
    <3> HIDE DEF o, at, verb
    <3> QED
      BY <1>2, <1>3, <2>3, <3>1 DEF DecidedVerb
  <2> QED
    BY <2>1, <2>2, <2>4
<1>11. /\ ballots \in Seq(Ballot) /\ Len(Votes(paragraph)) = Len(ballots)
       /\ \A i \in DOMAIN ballots : SameVote(Votes(paragraph)[i], ballots[i])
  BY DEF BallotsInv
<1>12. SameMotions(q, paragraph') /\ BallotsInv'
  <2>1. CASE Writes(<<o>>) /\ UNCHANGED ballots
    <3>1. paragraph' = q
      BY <1>1, <1>3, <2>1, AppendIsConcat DEF Writes
    <3>2. SameMotions(q, q)
      BY <1>7 DEF SameMotions
    <3> HIDE DEF q
    <3> QED
      BY <1>8, <1>11, <2>1, <3>1, <3>2 DEF BallotsInv
  <2>2. ASSUME NEW yes \in SUBSET Present, NEW no \in SUBSET (Present \ yes), yes \cup no # {},
               ballots' = Append(ballots, [yes |-> yes, no |-> no, silent |-> Present \ (yes \cup no),
                                           result |-> result]),
               NEW sentences \in Recorded(yes, no, Present \ (yes \cup no)),
               Writes(<<o>> \o sentences)
        PROVE  SameMotions(q, paragraph') /\ BallotsInv'
    <3> DEFINE silent == Present \ (yes \cup no)
               b == [yes |-> yes, no |-> no, silent |-> silent, result |-> result]
    <3>1. paragraph' = q \o sentences
      <4>1. sentences \in Seq(Sentence)
        <5>1. VoteIsTold(sentences, yes, no)
          BY <2>2, RecordedIs
        <5>2. no \in SUBSET Present
          OBVIOUS
        <5>3. List("yes", yes) \in Sentence /\ List("no", no) \in Sentence
          BY <5>2, ListIs DEF Side, VoteSentence
        <5>4. CASE \E s \in VoteSentence : sentences = <<s>> /\ TellsVote(s, yes, no)
          BY <5>4 DEF VoteSentence
        <5>5. CASE sentences = <<List("yes", yes), List("no", no)>>
          <6> DEFINE a == List("yes", yes)
                     c == List("no", no)
          <6> HIDE DEF a, c
          <6> QED
            BY <5>3, <5>5 DEF a, c
        <5> QED
          BY <5>1, <5>4, <5>5 DEF VoteIsTold
      <4>2. <<o>> \in Seq(Sentence)
        BY <1>3
      <4> HIDE DEF o
      <4>3. paragraph \o (<<o>> \o sentences) = (paragraph \o <<o>>) \o sentences
        BY <1>1, <4>1, <4>2, ConcatAssociative, SMTT(30)
      <4>4. paragraph \o <<o>> = q
        BY <1>1, <1>3, AppendIsConcat
      <4> QED
        BY <2>2, <4>3, <4>4 DEF Writes
    <3> HIDE DEF q
    <3>2. SameMotions(q, q \o sentences) /\ NotedOnce(q, q \o sentences, yes, no)
      BY <1>7, <1>8, <2>2, VoteWritten
    <3>3. PICK v \in Vote : /\ Votes(paragraph') = Append(Votes(paragraph), v)
                            /\ v.yes = yes /\ v.no = no /\ v.result = result /\ v.silent \in {{}, silent}
      BY <1>8, <3>1, <3>2 DEF Votes, NotedOnce
    <3>4. b \in Ballot /\ SameVote(v, b)
      BY <3>3 DEF Ballot, SameVote
    <3> HIDE DEF b
    <3>5. ballots' = Append(ballots, b)
      BY <2>2 DEF b
    <3>6. BallotsInv'
      <4> DEFINE votes == Votes(paragraph)
                 k == Len(ballots)
      <4>1. votes \in Seq(Vote)
        BY <1>1, NotedIs DEF Votes, Note
      <4>2. /\ k \in Nat /\ ballots' \in Seq(Ballot) /\ Len(ballots') = k + 1 /\ ballots'[k + 1] = b
            /\ DOMAIN ballots' = 1 .. k + 1 /\ DOMAIN ballots = 1 .. k
            /\ \A i \in 1 .. k : ballots'[i] = ballots[i]
        BY <1>11, <3>4, <3>5
      <4>3. /\ Len(Votes(paragraph')) = k + 1 /\ Votes(paragraph')[k + 1] = v
            /\ \A i \in 1 .. k : Votes(paragraph')[i] = votes[i]
        BY <1>11, <3>3, <4>1
      <4> HIDE DEF k
      <4>4. ASSUME NEW i \in 1 .. k + 1 PROVE SameVote(Votes(paragraph')[i], ballots'[i])
        <5>1. CASE i = k + 1
          BY <3>4, <4>2, <4>3, <5>1
        <5>2. CASE i # k + 1
          <6>1. i \in 1 .. k
            BY <4>2, <5>2
          <6> QED
            BY <1>11, <4>2, <4>3, <6>1
        <5> QED
          BY <5>1, <5>2
      <4> QED
        BY <4>2, <4>3, <4>4 DEF BallotsInv, SameVote
    <3> QED
      BY <3>1, <3>2, <3>6
  <2> HIDE DEF o, q
  <2> QED
    BY <2>1, <2>2 DEF Decide, o, verb
<1>13. /\ paragraph' \in Seq(Sentence) /\ Followed(paragraph') /\ Understood(paragraph') = Understood(q)
       /\ (Unambiguous(paragraph') => Unambiguous(q)) /\ (StruckIn(q) => StruckIn(paragraph'))
  BY <1>7, <1>12 DEF SameMotions
<1>14. disposition' \in Result \cup {"open", "postponed", "referred"} /\ (verb = Main => disposition' # "open")
  BY <1>6 DEF Disposed, Result, Main
<1>15. /\ pending' \in Seq(Verb)
       /\ \A i \in DOMAIN pending' : i \in DOMAIN pending /\ pending'[i] = pending[i]
       /\ disposition' = "open" => pending' # <<>>
  <2>1. CASE disposition' = "open"
    <3>1. pending' = SubSeq(pending, 1, n - 1)
      BY <1>6, <2>1 DEF Front
    <3>2. n # 1
      <4>1. n = 1 => verb = Main
        BY <1>1, <1>2 DEF OnTheFloor
      <4> QED
        BY <1>14, <2>1, <4>1
    <3>3. /\ pending' \in Seq(Verb) /\ Len(pending') = n - 1
          /\ \A i \in 1 .. n - 1 : pending'[i] = pending[i]
      <4> HIDE DEF n
      <4> QED
        BY <1>1, <1>2, <3>1 DEF n
    <3>4. pending' # <<>>
      BY <1>2, <3>2, <3>3
    <3> HIDE DEF n
    <3> QED
      BY <1>2, <3>3, <3>4
  <2>2. CASE disposition' # "open"
    BY <1>6, <2>2
  <2> QED
    BY <2>1, <2>2
<1>16. OnTheFloor(Understood(paragraph))'
  BY <1>1, <1>6, <1>10, <1>13, <1>15 DEF OnTheFloor
<1>17. ASSUME Unambiguous(paragraph') PROVE ReadAsDecided(Understood(paragraph).outcomes)'
  <2> DEFINE k == Len(outs)
             all == Append(outs, new)
  <2>1. /\ k \in Nat /\ Len(all) = k + 1 /\ DOMAIN all = 1 .. k + 1 /\ DOMAIN outs = 1 .. k
        /\ all[k + 1] = new /\ \A i \in 1 .. k : all[i] = outs[i]
    BY <1>10
  <2>2. ReadAsDecided(outs) /\ new.verb = verb /\ new.result = result
    BY <1>1, <1>7, <1>9, <1>13, <1>17
  <2>3. Understood(paragraph').outcomes = all
    BY <1>10, <1>13
  <2> HIDE DEF k, all, outs, new
  <2>4. \A i \in 1 .. k : ~Decisive(outs[i]) /\ (outs[i].verb = "strike" => StruckIn(paragraph))
    BY <1>5, <2>1, <2>2 DEF ReadAsDecided
  <2>5. \A i \in DOMAIN all : all[i].verb = "strike" => StruckIn(paragraph')
    <3> TAKE i \in DOMAIN all
    <3>1. CASE i = k + 1
      BY <1>8, <1>13, <2>1, <2>2, <3>1
    <3>2. CASE i # k + 1
      <4>1. i \in 1 .. k
        BY <2>1, <3>2
      <4> QED
        BY <1>8, <1>13, <2>1, <2>4, <4>1
    <3> QED
      BY <3>1, <3>2
  <2>6. disposition' = "open" => \A i \in DOMAIN all : ~Decisive(all[i])
    <3> SUFFICES ASSUME disposition' = "open", NEW i \in DOMAIN all PROVE ~Decisive(all[i])
      OBVIOUS
    <3>1. CASE i = k + 1
      BY <1>6, <2>1, <2>2, <3>1 DEF Decisive
    <3>2. CASE i # k + 1
      <4>1. i \in 1 .. k
        BY <2>1, <3>2
      <4> QED
        BY <2>1, <2>4, <4>1
    <3> QED
      BY <3>1, <3>2
  <2>7. /\ Disposed(all[Len(all)].verb, all[Len(all)].result) = disposition'
        /\ \A i \in 1 .. Len(all) - 1 : ~Decisive(all[i])
    <3>1. Len(all) - 1 = k
      BY <2>1
    <3> QED
      BY <1>6, <2>1, <2>2, <2>4, <3>1
  <2> QED
    BY <1>14, <2>3, <2>5, <2>6, <2>7 DEF ReadAsDecided, Result
<1>18. Understood(paragraph').outcomes # <<>>
  BY <1>10, <1>13, AppendProperties
<1>19. CouncilInv'
  BY <1>13, <1>14, <1>15, <1>16, <1>17, <1>18 DEF CouncilInv, Result
<1> QED
  BY <1>12, <1>19

(* Nothing but a decided motion decides an item.                           *)
LEMMA DecisiveIs ==
  ASSUME NEW o \in [verb : Verb, result : Result]
  PROVE  /\ Disposed(o.verb, o.result) \in Result <=> o.verb = Main
         /\ o.verb = Main => Disposed(o.verb, o.result) = o.result
         /\ Disposed(o.verb, o.result) = "postponed" <=> o.verb = "postpone" /\ o.result = "carried"
         /\ Disposed(o.verb, o.result) = "referred" <=> o.verb = "refer" /\ o.result = "carried"
         /\ o.verb \in Subsidiary \cup {Main, "strike"} /\ Main \notin Subsidiary
<1>1. o.verb \in Verb /\ o.result \in Result
  OBVIOUS
<1> QED
  BY <1>1 DEF Disposed, Result, Verb, Main, Secondary, Subsidiary

LEMMA FinalIs == CouncilInv => FinalIsTruth
<1> SUFFICES ASSUME CouncilInv, Unambiguous(paragraph)
             PROVE  /\ disposition \in {"carried", "failed", "died"} => FinalResult(paragraph) = disposition
                    /\ disposition \in {"postponed", "referred"} /\ ~Struck => FinalResult(paragraph) = disposition
                    /\ disposition = "withdrawn" /\ ~Has(paragraph, "outcome") /\ ~Has(paragraph, "died")
                         => FinalResult(paragraph) = disposition
  BY ClearIs DEF FinalIsTruth
<1> DEFINE outs == Outcomes(paragraph)
           n == Len(outs)
           main == {i \in DOMAIN outs : outs[i].verb \notin Subsidiary}
           carried(verb) == \E i \in DOMAIN outs : outs[i].verb = verb /\ outs[i].result = "carried"
           postponed == carried("postpone") /\ (DateGiven(paragraph) \/ main = {})
<1>1. /\ outs \in Seq([verb : Verb, result : Result]) /\ n \in Nat /\ DOMAIN outs = 1 .. n
      /\ \A i \in 1 .. n : outs[i] \in [verb : Verb, result : Result]
  <2>1. Understood(paragraph) \in Understanding
    BY UnderstoodIs DEF CouncilInv
  <2>2. outs \in Seq([verb : Verb, result : Result])
    BY <2>1 DEF Understanding, Outcomes
  <2> DEFINE S == [verb : Verb, result : Result]
  <2> HIDE DEF outs, S
  <2>3. outs \in Seq(S)
    BY <2>2 DEF S
  <2>4. n \in Nat /\ DOMAIN outs = 1 .. n /\ \A i \in 1 .. n : outs[i] \in S
    BY <2>3
  <2> QED
    BY <2>3, <2>4 DEF S
<1>2. /\ ReadAsDecided(outs)
      /\ disposition \in {"died", "withdrawn"} => Has(paragraph, disposition)
      /\ disposition \in Result \cup {"postponed", "referred"} => outs # <<>>
      /\ disposition = "died" => outs = <<>>
      /\ ~Has(paragraph, "outcome") => outs = <<>>
  BY DEF CouncilInv, OnTheFloor, Followed, Outcomes
<1>3. Struck <=> StruckIn(paragraph)
  BY DEF Struck, StruckIn
<1> HIDE DEF outs
<1>4. outs = <<>> => FinalResult(paragraph) =
        IF Has(paragraph, "died") THEN "died"
        ELSE IF Has(paragraph, "withdrawn") THEN "withdrawn"
        ELSE IF \E i \in DOMAIN paragraph : paragraph[i].type = "motion" /\ paragraph[i].verb = "refer"
        THEN "referred" ELSE "none"
  BY DEF FinalResult, outs
<1>5. outs # <<>> => /\ postponed => FinalResult(paragraph) = "postponed"
                     /\ ~postponed /\ main # {} => FinalResult(paragraph) = outs[Max(main)].result
                     /\ ~carried("postpone") /\ main = {} /\ carried("refer")
                          => FinalResult(paragraph) = "referred"
  <2>1. outs # <<>> => FinalResult(paragraph) =
          CASE postponed -> "postponed"
            [] ~postponed /\ main # {} -> outs[Max(main)].result
            [] ~carried("postpone") /\ main = {} /\ carried("refer") -> "referred"
            [] OTHER -> "none"
    BY DEF FinalResult, outs
  <2> DEFINE some == main # {}
             adjourned == carried("postpone")
             sent == carried("refer")
             last == outs[Max(main)].result
  <2>2. /\ postponed => adjourned
        /\ outs # <<>> => FinalResult(paragraph) =
             CASE postponed -> "postponed"
               [] ~postponed /\ some -> last
               [] ~adjourned /\ ~some /\ sent -> "referred"
               [] OTHER -> "none"
    BY <2>1
  <2> HIDE DEF postponed, some, adjourned, sent, last
  <2>3. outs # <<>> => /\ postponed => FinalResult(paragraph) = "postponed"
                       /\ ~postponed /\ some => FinalResult(paragraph) = last
                       /\ ~adjourned /\ ~some /\ sent => FinalResult(paragraph) = "referred"
    BY <2>2
  <2> QED
    BY <2>3 DEF some, adjourned, sent, last
<1>6. ASSUME disposition \in Result \cup {"postponed", "referred"}
      PROVE  /\ n \in 1 .. n /\ n \in DOMAIN outs
             /\ Disposed(outs[n].verb, outs[n].result) = disposition
             /\ \A i \in 1 .. n : i # n => Disposed(outs[i].verb, outs[i].result) = "open"
  <2>1. n # 0
    BY <1>1, <1>2, <1>6, EmptySeq
  <2>2. Disposed(outs[n].verb, outs[n].result) = disposition /\ \A i \in 1 .. n - 1 : ~Decisive(outs[i])
    BY <1>2, <1>6 DEF ReadAsDecided
  <2> HIDE DEF n
  <2>3. n \in 1 .. n /\ \A i \in 1 .. n : i # n => i \in 1 .. n - 1
    BY <1>1, <2>1
  <2> QED
    BY <1>1, <2>2, <2>3 DEF Decisive
<1>7. CASE disposition \in Result
  <2>1. outs[n].verb = Main /\ outs[n].result = disposition
    BY <1>1, <1>6, <1>7, DecisiveIs, ZenonT(30)
  <2>2. ~carried("postpone")
    <3>1. ASSUME NEW i \in 1 .. n, outs[i].verb = "postpone", outs[i].result = "carried" PROVE FALSE
      <4>1. i # n
        BY <2>1, <3>1 DEF Main
      <4>2. Disposed(outs[i].verb, outs[i].result) = "open"
        BY <1>6, <1>7, <4>1
      <4> QED
        BY <1>1, <3>1, <4>2, DecisiveIs
    <3> QED
      BY <1>1, <3>1
  <2>3. n \in main /\ \A i \in main : i \in Int /\ n >= i
    <3>1. n \in DOMAIN outs /\ outs[n].verb \notin Subsidiary
      BY <1>1, <1>6, <1>7, <2>1, DecisiveIs, ZenonT(30)
    <3> HIDE DEF n
    <3> QED
      BY <1>1, <3>1, SMTT(30)
  <2>4. Max(main) = n
    <3> HIDE DEF main
    <3>1. ASSUME NEW x \in main, \A y \in main : x >= y PROVE x = n
      <4>1. x >= n /\ n >= x /\ x \in Int /\ n \in Int
        BY <2>3, <3>1
      <4> QED
        BY <4>1
    <3> QED
      BY <2>3, <3>1 DEF Max
  <2>5. FinalResult(paragraph) = disposition
    <3>1. main # {} /\ outs # <<>>
      BY <1>2, <1>7, <2>3
    <3> HIDE DEF main
    <3> QED
      BY <1>5, <2>1, <2>2, <2>4, <3>1
  <2> QED
    BY <1>7, <2>5 DEF Result
<1>8. CASE disposition \in {"postponed", "referred"}
  <2> SUFFICES ASSUME ~Struck PROVE FinalResult(paragraph) = disposition
    BY <1>8
  <2>1. IF disposition = "postponed" THEN outs[n].verb = "postpone" /\ outs[n].result = "carried"
        ELSE outs[n].verb = "refer" /\ outs[n].result = "carried"
    BY <1>1, <1>6, <1>8, DecisiveIs, ZenonT(30)
  <2>2. main = {}
    <3> SUFFICES ASSUME NEW i \in 1 .. n, outs[i].verb \notin Subsidiary PROVE FALSE
      BY <1>1
    <3>1. i # n
      BY <2>1 DEF Subsidiary
    <3>2. outs[i].verb # "strike"
      BY <1>1, <1>2, <1>3 DEF ReadAsDecided
    <3>3. outs[i] \in [verb : Verb, result : Result] /\ Disposed(outs[i].verb, outs[i].result) = "open"
      BY <1>1, <1>6, <1>8, <3>1, ZenonT(30)
    <3>4. outs[i].verb = Main
      BY <3>2, <3>3, DecisiveIs
    <3> QED
      BY <3>3, <3>4, DecisiveIs DEF Result
  <2>3. disposition = "postponed" => carried("postpone")
    BY <1>6, <1>8, <2>1
  <2>4. disposition = "referred" => carried("refer") /\ ~carried("postpone")
    <3> SUFFICES ASSUME disposition = "referred" PROVE carried("refer") /\ ~carried("postpone")
      OBVIOUS
    <3>1. carried("refer")
      BY <1>6, <1>8, <2>1
    <3>2. ASSUME NEW i \in 1 .. n, outs[i].verb = "postpone", outs[i].result = "carried" PROVE FALSE
      <4>1. i # n
        BY <2>1, <3>2
      <4>2. Disposed(outs[i].verb, outs[i].result) = "open"
        BY <1>6, <1>8, <4>1
      <4> QED
        BY <1>1, <3>2, <4>2, DecisiveIs
    <3> QED
      BY <1>1, <3>1, <3>2
  <2>5. outs # <<>>
    BY <1>2, <1>8
  <2> HIDE DEF main
  <2> QED
    BY <1>5, <1>8, <2>2, <2>3, <2>4, <2>5
<1>9. CASE disposition = "died"
  BY <1>2, <1>4, <1>9
<1>10. CASE disposition = "withdrawn"
  BY <1>2, <1>4, <1>10
<1> HIDE DEF main, postponed
<1> QED
  BY <1>7, <1>8, <1>9, <1>10 DEF Result

(* The members of a ballot are those who voted yes, no and not at all.     *)
LEMMA BallotIs ==
  ASSUME NEW b \in Ballot
  PROVE  /\ Cardinality(b.yes) \in Nat /\ Cardinality(b.no) \in Nat /\ Cardinality(b.silent) \in Nat
         /\ Cardinality(b.yes \cup b.no) = Cardinality(b.yes) + Cardinality(b.no)
         /\ Cardinality(b.yes) + Cardinality(b.no) + Cardinality(b.silent) = Cardinality(Present)
<1>1. IsFiniteSet(Present)
  BY MinutesConstants
<1>2. /\ b.yes \subseteq Present /\ b.no \subseteq Present /\ b.silent \subseteq Present
      /\ b.yes \cap b.no = {} /\ b.silent = Present \ (b.yes \cup b.no)
  BY DEF Ballot
<1>3. IsFiniteSet(b.yes) /\ IsFiniteSet(b.no) /\ IsFiniteSet(b.silent)
  BY <1>1, <1>2, FS_Subset
<1> DEFINE c == b.yes \cup b.no
<1>4. /\ Cardinality(b.yes) \in Nat /\ Cardinality(b.no) \in Nat /\ Cardinality(b.silent) \in Nat
      /\ Cardinality({}) = 0
  BY <1>3, FS_CardinalityType, FS_EmptySet
<1>5. IsFiniteSet(c) /\ Cardinality(c) = Cardinality(b.yes) + Cardinality(b.no)
  <2>1. IsFiniteSet(c) /\ Cardinality(c) = Cardinality(b.yes) + Cardinality(b.no) - Cardinality(b.yes \cap b.no)
    BY <1>3, FS_Union
  <2>2. Cardinality(b.yes \cap b.no) = 0
    BY <1>2, <1>4
  <2> HIDE DEF c
  <2> QED
    BY <1>4, <2>1, <2>2
<1>6. c \cup b.silent = Present /\ c \cap b.silent = {}
  BY <1>2
<1> HIDE DEF c
<1>7. Cardinality(Present) = Cardinality(c) + Cardinality(b.silent)
  <2>1. Cardinality(c \cup b.silent) = Cardinality(c) + Cardinality(b.silent) - Cardinality(c \cap b.silent)
    BY <1>3, <1>5, FS_Union
  <2>2. Cardinality(c \cap b.silent) = 0 /\ Cardinality(c \cup b.silent) = Cardinality(Present)
    BY <1>4, <1>6
  <2>3. Cardinality(c) \in Nat
    BY <1>5, FS_CardinalityType
  <2> QED
    BY <1>4, <2>1, <2>2, <2>3
<1> QED
  BY <1>4, <1>5, <1>7 DEF c

(* A member is in the minority when fewer were on his side.                *)
LEMMA MinorityIs ==
  ASSUME NEW b \in Ballot, NEW v, SameVote(v, b), NEW m \in Present, m \notin b.silent
  PROVE  m \in Minority(v)
           <=> 2 * Cardinality(IF m \in b.yes THEN b.yes ELSE b.no) < Cardinality(b.yes \cup b.no)
<1> DEFINE y == Cardinality(b.yes)
           n == Cardinality(b.no)
<1>1. y \in Nat /\ n \in Nat /\ Cardinality(b.yes \cup b.no) = y + n
  BY BallotIs
<1>2. Minority(v) = IF n < y THEN b.no ELSE IF y < n THEN b.yes ELSE {}
  BY DEF Minority, SameVote
<1>3. (m \in b.yes /\ m \notin b.no) \/ (m \in b.no /\ m \notin b.yes)
  BY DEF Ballot
<1> HIDE DEF y, n
<1>4. CASE m \in b.yes /\ m \notin b.no
  <2>1. m \in Minority(v) <=> y < n
    BY <1>1, <1>2, <1>4
  <2>2. 2 * y < y + n <=> y < n
    BY <1>1
  <2> QED
    BY <1>1, <1>4, <2>1, <2>2 DEF y
<1>5. CASE m \in b.no /\ m \notin b.yes
  <2>1. m \in Minority(v) <=> n < y
    BY <1>1, <1>2, <1>5
  <2>2. 2 * n < y + n <=> n < y
    BY <1>1
  <2> QED
    BY <1>1, <1>5, <2>1, <2>2 DEF n
<1> QED
  BY <1>3, <1>4, <1>5

LEMMA RecordOfBallots == CouncilInv /\ BallotsInv => RecordIsTruth
<1> SUFFICES ASSUME CouncilInv, BallotsInv PROVE RecordIsTruth
  OBVIOUS
<1> DEFINE votes == Votes(paragraph)
           D == DOMAIN ballots
<1>1. D = DOMAIN votes /\ Len(votes) = Len(ballots)
  <2>1. votes \in Seq(Vote)
    BY NotedIs DEF CouncilInv, Votes, Note
  <2>2. ballots \in Seq(Ballot) /\ Len(votes) = Len(ballots)
    BY DEF BallotsInv
  <2> HIDE DEF votes
  <2> QED
    BY <2>1, <2>2
<1>2. \A i \in D : ballots[i] \in Ballot /\ SameVote(votes[i], ballots[i])
  <2>1. ballots \in Seq(Ballot)
    BY DEF BallotsInv
  <2>2. \A i \in D : ballots[i] \in Ballot
    BY <2>1
  <2> QED
    BY <2>2 DEF BallotsInv
<1> HIDE DEF votes
<1>3. \A i \in D : /\ votes[i].yes = ballots[i].yes /\ votes[i].no = ballots[i].no
                   /\ votes[i].result = ballots[i].result /\ votes[i].silent \in {{}, ballots[i].silent}
                   /\ Contested(votes[i]) <=> i \in Divided
  BY <1>2 DEF SameVote, Contested, Divided
<1>4. \A i \in D, m \in Present : /\ m \in ballots[i].yes \cup ballots[i].no <=> i \in Cast(m)
                                  /\ ~ (m \in ballots[i].yes /\ m \in ballots[i].no)
  BY <1>2 DEF Ballot, Cast
<1>5. /\ \A m : Cast(m) \subseteq D
      /\ Divided \subseteq D
  BY DEF Cast, Divided
<1>6. ASSUME NEW m \in Present
      PROVE  Record(votes, m) =
               [cast |-> Cardinality(Cast(m)),
                no |-> Cardinality({i \in DOMAIN ballots : m \in ballots[i].no}),
                contested |-> Cardinality(Cast(m) \cap Divided),
                minority |-> Cardinality({i \in Cast(m) \cap Divided :
                               2 * Cardinality(SideOf(m, i)) < Cardinality(ballots[i].yes \cup ballots[i].no)})]
  <2>1. {i \in DOMAIN votes : m \in votes[i].yes \cup votes[i].no} = Cast(m)
    BY <1>1, <1>3, <1>4, <1>5
  <2>2. {i \in DOMAIN votes : m \in votes[i].no} = {i \in DOMAIN ballots : m \in ballots[i].no}
    BY <1>1, <1>3
  <2>3. {i \in DOMAIN votes : Contested(votes[i]) /\ m \in votes[i].yes \cup votes[i].no} = Cast(m) \cap Divided
    BY <1>1, <1>3, <1>4, <1>5
  <2>4. {i \in DOMAIN votes : Contested(votes[i]) /\ m \in Minority(votes[i])}
          = {i \in Cast(m) \cap Divided :
               2 * Cardinality(SideOf(m, i)) < Cardinality(ballots[i].yes \cup ballots[i].no)}
    <3>1. ASSUME NEW i \in D, m \in Minority(votes[i]) PROVE i \in Cast(m)
      <4>1. m \in votes[i].yes \cup votes[i].no
        BY <3>1 DEF Minority
      <4> QED
        BY <1>3, <1>4, <4>1
    <3>2. ASSUME NEW i \in D, i \in Cast(m)
          PROVE  m \in Minority(votes[i])
                   <=> 2 * Cardinality(SideOf(m, i)) < Cardinality(ballots[i].yes \cup ballots[i].no)
      <4>1. m \notin ballots[i].silent
        BY <3>2 DEF Cast
      <4> QED
        BY <1>2, <4>1, MinorityIs DEF SideOf
    <3> HIDE DEF D
    <3> QED
      BY <1>1, <1>3, <1>5, <3>1, <3>2
  <2> QED
    BY <2>1, <2>2, <2>3, <2>4 DEF Record, Count
<1>7. ASSUME NEW a \in Present, NEW b \in Present \ {a}
      PROVE  LET both == Cast(a) \cap Cast(b) \cap Divided IN
             /\ Together(votes, a, b) = Cardinality(both)
             /\ Agree(votes, a, b) = Cardinality({i \in both : SideOf(a, i) = SideOf(b, i)})
  <2> DEFINE both == Cast(a) \cap Cast(b) \cap Divided
  <2>1. {i \in DOMAIN votes : Contested(votes[i]) /\ {a, b} \subseteq votes[i].yes \cup votes[i].no} = both
    BY <1>1, <1>3, <1>4, <1>5
  <2>2. {i \in DOMAIN votes : Contested(votes[i]) /\ ({a, b} \subseteq votes[i].yes \/ {a, b} \subseteq votes[i].no)}
          = {i \in both : SideOf(a, i) = SideOf(b, i)}
    <3>1. ASSUME NEW i \in D, i \in Divided
          PROVE  {a, b} \subseteq votes[i].yes \/ {a, b} \subseteq votes[i].no
                   <=> i \in Cast(a) /\ i \in Cast(b) /\ SideOf(a, i) = SideOf(b, i)
      <4>1. /\ votes[i].yes = ballots[i].yes /\ votes[i].no = ballots[i].no
            /\ ballots[i].yes # ballots[i].no
        <5>1. ballots[i].yes # {} /\ ballots[i].yes \cap ballots[i].no = {}
          BY <1>2, <3>1 DEF Divided, Ballot
        <5> QED
          BY <1>3, <5>1
      <4>2. \A m \in {a, b} : /\ i \in Cast(m) <=> m \in ballots[i].yes \/ m \in ballots[i].no
                              /\ ~ (m \in ballots[i].yes /\ m \in ballots[i].no)
                              /\ SideOf(m, i) = IF m \in ballots[i].yes THEN ballots[i].yes ELSE ballots[i].no
        BY <1>4 DEF SideOf
      <4> QED
        BY <4>1, <4>2
    <3> HIDE DEF D
    <3> QED
      BY <1>1, <1>3, <1>5, <3>1
  <2> QED
    BY <2>1, <2>2 DEF Together, Agree, Count
<1>8. ASSUME NEW i \in DOMAIN votes, VoteDiffersFromRoster(votes[i])
      PROVE  votes[i].silent = {} /\ ballots[i].silent # {}
  <2>1. votes[i].silent # ballots[i].silent
    <3>1. Cardinality(ballots[i].yes) + Cardinality(ballots[i].no) + Cardinality(ballots[i].silent)
            = Cardinality(Present)
      BY <1>1, <1>2, BallotIs
    <3> QED
      BY <1>1, <1>3, <1>8, <3>1 DEF VoteDiffersFromRoster
  <2> QED
    BY <1>1, <1>3, <2>1
<1>9. MotionWithoutOutcome(paragraph) => disposition = "open"
  <2> SUFFICES ASSUME Outcomes(paragraph) = <<>>, FinalResult(paragraph) \notin {"died", "withdrawn"}
               PROVE  disposition = "open"
    BY DEF MotionWithoutOutcome
  <2>1. disposition \notin Result \cup {"postponed", "referred"}
    BY DEF CouncilInv, Outcomes
  <2>2. disposition \in {"died", "withdrawn"} => Has(paragraph, disposition)
    BY DEF CouncilInv
  <2>3. ~Has(paragraph, "died") /\ ~Has(paragraph, "withdrawn")
    BY DEF FinalResult
  <2> QED
    BY <2>1, <2>2, <2>3 DEF CouncilInv
<1> QED
  BY <1>1, <1>3, <1>6, <1>7, <1>8, <1>9 DEF RecordIsTruth, votes

LEMMA CouncilStep == CouncilInv /\ BallotsInv /\ [CouncilNext]_councilVars => CouncilInv' /\ BallotsInv'
<1> SUFFICES ASSUME CouncilInv, BallotsInv, [CouncilNext]_councilVars PROVE CouncilInv' /\ BallotsInv'
  OBVIOUS
<1>1. CASE \E verb \in {Main} \cup Secondary, dated, seconded \in BOOLEAN : Move(verb, dated, seconded)
  BY <1>1, MoveKeeps DEF Verb
<1>2. CASE \E result \in {"carried", "failed"}, form \in {"bare", "named", "main"} : Decide(result, form)
  BY <1>2, DecideKeeps DEF Result
<1>3. CASE Withdraw
  BY <1>3, WithdrawKeeps
<1>4. CASE UNCHANGED councilVars
  BY <1>4 DEF councilVars, CouncilInv, BallotsInv, OnTheFloor, ReadAsDecided
<1> QED
  BY <1>1, <1>2, <1>3, <1>4 DEF CouncilNext

(* SAFETY.  Whatever the council does and however the clerk writes it, the *)
(* result of an item is what became of it (parse_entry, FinalIsTruth).     *)
THEOREM ItemsHaveTheirResult == CouncilSpec => []FinalIsTruth
<1>1. CouncilInit => CouncilInv /\ BallotsInv
  BY CouncilStart
<1>2. CouncilInv /\ BallotsInv /\ [CouncilNext]_councilVars => CouncilInv' /\ BallotsInv'
  BY CouncilStep
<1>3. CouncilInv => FinalIsTruth
  BY FinalIs
<1> QED
  BY <1>1, <1>2, <1>3, PTL DEF CouncilSpec

(* SAFETY.  The voting record is that of the ballots, for every number of  *)
(* members and votes, and R4 names nobody wrongly (RecordIsTruth).         *)
THEOREM VotesAreBallots == CouncilSpec => []RecordIsTruth
<1>1. CouncilInit => CouncilInv /\ BallotsInv
  BY CouncilStart
<1>2. CouncilInv /\ BallotsInv /\ [CouncilNext]_councilVars => CouncilInv' /\ BallotsInv'
  BY CouncilStep
<1>3. CouncilInv /\ BallotsInv => RecordIsTruth
  BY RecordOfBallots
<1> QED
  BY <1>1, <1>2, <1>3, PTL DEF CouncilSpec


-------------------------------------------------------------------------------
(* THE ROLES OF A MEETING                                                  *)

Cue == {"in", "back"}
Role == {"agenda_reading", "public_comment", "official"}

Spoken ==
  [ts : Nat, mentions : {s.mentions : s \in Segments}, cues : Seq(Cue), says : {s.says : s \in Segments}]

(* Time does not go back.                                                  *)
MeetingInv ==
  /\ said \in Seq(Spoken)
  /\ \A i, j \in 1 .. Len(said) : i <= j => said[i].ts <= said[j].ts

LEMMA MeetingStart == MeetingInit => MeetingInv
BY DEF MeetingInit, MeetingInv

LEMMA MeetingStep == MeetingInv /\ [MeetingNext]_said => MeetingInv'
<1> SUFFICES ASSUME MeetingInv, [MeetingNext]_said PROVE MeetingInv'
  OBVIOUS
<1>1. CASE UNCHANGED said
  BY <1>1 DEF MeetingInv
<1>2. ASSUME NEW s \in Segments, Say(s) PROVE MeetingInv'
  <2> DEFINE ts == IF said = <<>> THEN 0 ELSE Last(said).ts + s.after
             segment == [ts |-> ts, mentions |-> s.mentions, cues |-> s.cues, says |-> s.says]
  <2>1. said \in Seq(Spoken) /\ s.cues \in Seq(Cue) /\ s.after \in Nat
    BY MeetingConstants DEF MeetingInv, Cue
  <2>2. ts \in Nat
    <3>1. said # <<>> => Last(said) \in Spoken
      <4>1. said # <<>> => Len(said) \in 1 .. Len(said)
        BY <2>1, EmptySeq
      <4> QED
        BY <2>1, <4>1 DEF Last
    <3>2. said # <<>> => Last(said).ts \in Nat
      BY <3>1 DEF Spoken
    <3> QED
      BY <2>1, <3>2
  <2> HIDE DEF ts
  <2>3. segment \in Spoken
    BY <2>1, <2>2 DEF Spoken
  <2>4. said' = Append(said, segment)
    BY <1>2 DEF Say, ts
  <2>5. segment.ts = ts
    OBVIOUS
  <2> DEFINE n == Len(said)
  <2>6. ASSUME NEW k \in 1 .. n PROVE said[k].ts <= ts
    <3>1. n \in 1 .. n /\ k <= n
      BY <2>1
    <3>2. said[k] \in Spoken /\ said[n] \in Spoken /\ said # <<>>
      BY <2>1, <3>1
    <3>3. said[k].ts \in Nat /\ said[n].ts \in Nat /\ said[k].ts <= said[n].ts
      BY <3>1, <3>2 DEF Spoken, MeetingInv
    <3>4. ts = said[n].ts + s.after
      BY <3>2 DEF ts, Last
    <3> DEFINE x == said[k].ts
               y == said[n].ts
               z == s.after
    <3>5. x \in Nat /\ y \in Nat /\ z \in Nat /\ x <= y
      BY <2>1, <3>3
    <3> HIDE DEF x, y, z
    <3>6. x <= y + z
      BY <3>5
    <3> QED
      BY <3>4, <3>6 DEF x, y, z
  <2> HIDE DEF segment
  <2>7. said' \in Seq(Spoken) /\ Len(said') = n + 1 /\ n \in Nat /\ said'[n + 1] = segment
        /\ \A k \in 1 .. n : said'[k] = said[k]
    BY <2>1, <2>3, <2>4
  <2>8. ASSUME NEW i \in 1 .. n + 1, NEW j \in 1 .. n + 1, i <= j PROVE said'[i].ts <= said'[j].ts
    <3>1. CASE j \in 1 .. n
      <4>1. i \in 1 .. n
        BY <2>7, <2>8, <3>1
      <4> QED
        BY <2>7, <2>8, <3>1, <4>1 DEF MeetingInv
    <3>2. CASE j \notin 1 .. n
      <4>1. j = n + 1 /\ said'[j] = segment
        BY <2>7, <3>2
      <4>2. CASE i \in 1 .. n
        BY <2>5, <2>6, <2>7, <4>1, <4>2
      <4>3. CASE i \notin 1 .. n
        <5>1. i = j
          BY <2>7, <4>1, <4>3
        <5> QED
          BY <2>2, <2>5, <4>1, <5>1
      <4> QED
        BY <4>2, <4>3
    <3> QED
      BY <3>1, <3>2
  <2> QED
    BY <2>7, <2>8 DEF MeetingInv
<1> QED
  BY <1>1, <1>2 DEF MeetingNext

(* The first cue of a kind is found, when there is one.                    *)
LEMMA FirstCueIs ==
  ASSUME NEW segment, segment.cues \in Seq(Cue), NEW c \in Cue
  PROVE  LET cues == segment.cues
             k == FirstCue(segment, c)
         IN /\ k = 0 <=> \A i \in 1 .. Len(cues) : cues[i] # c
            /\ k # 0 => k \in 1 .. Len(cues) /\ cues[k] = c
            /\ \A i \in 1 .. Len(cues) : cues[i] = c => 0 < k /\ k <= i
<1> DEFINE cues == segment.cues
           I == {i \in 1 .. Len(cues) : cues[i] = c}
<1>1. FirstCue(segment, c) = IF I # {} THEN Min(I) ELSE 0
  BY DEF FirstCue, SelectInSeq
<1>2. Len(cues) \in Nat
  OBVIOUS
<1>3. I # {} => Min(I) \in I /\ \A i \in I : Min(I) <= i
  <2>1. I \in SUBSET Int /\ IsFiniteSet(I)
    <3>1. IsFiniteSet(1 .. Len(cues)) /\ I \subseteq 1 .. Len(cues)
      BY <1>2, FS_Interval, SMTT(30)
    <3> QED
      BY <3>1, FS_Subset
  <2> HIDE DEF I
  <2> QED
    BY <2>1, LeastIs
<1> DEFINE k == FirstCue(segment, c)
<1>4. CASE I = {}
  BY <1>1, <1>4
<1>5. CASE I # {}
  <2>1. k \in 1 .. Len(cues) /\ cues[k] = c /\ \A i \in 1 .. Len(cues) : cues[i] = c => k <= i
    <3> HIDE DEF k
    <3> QED
      BY <1>1, <1>3, <1>5 DEF k
  <2> HIDE DEF k
  <2> QED
    BY <1>2, <2>1 DEF k
<1> QED
  BY <1>4, <1>5

(* The labels after some segments.                                         *)
Labels == [public : BOOLEAN, roles : Seq(Role)]
RoleOf(at, segment, starts) == Last(Label(at, segment, starts).roles)

(* One segment: what it is labelled, and who has the floor after it.       *)
LEMMA LabelIs ==
  ASSUME NEW at \in Labels, NEW segment, segment.cues \in Seq(Cue), NEW starts
  PROVE  LET more == Label(at, segment, starts)
             role == RoleOf(at, segment, starts)
             cues == segment.cues
         IN /\ more \in Labels /\ role \in Role /\ more.roles = Append(at.roles, role)
            /\ role = "agenda_reading" <=> IsReading(segment, starts)
            /\ IsReading(segment, starts) => ~more.public
            /\ ~IsReading(segment, starts) /\ cues = <<>> =>
                 /\ more.public <=> at.public
                 /\ role = IF at.public THEN "public_comment" ELSE "official"
            /\ ~IsReading(segment, starts) /\ cues # <<>> /\ ~Misread(cues, at.public) =>
                 (more.public <=> Last(cues) = "in")
<1> DEFINE more == Label(at, segment, starts)
           cues == segment.cues
           n == Len(cues)
           intro == FirstCue(segment, "in")
           back == FirstCue(segment, "back")
           handsBack == back > 0 /\ (intro = 0 \/ back > intro)
           reads == IsReading(segment, starts)
           role == IF reads THEN "agenda_reading"
                   ELSE IF ~at.public /\ intro > 0 THEN "public_comment"
                   ELSE IF at.public /\ handsBack
                        THEN IF intro > 0 THEN "public_comment" ELSE "official"
                   ELSE IF at.public THEN "public_comment" ELSE "official"
           public == IF reads THEN FALSE
                     ELSE IF ~at.public /\ intro > 0 THEN TRUE
                     ELSE IF at.public /\ handsBack THEN FALSE
                     ELSE at.public
<1>1. at.public \in BOOLEAN /\ at.roles \in Seq(Role)
  BY DEF Labels
<1>2. more = [public |-> public, roles |-> Append(at.roles, role)]
  <2> HIDE DEF reads, intro, back
  <2> QED
    BY DEF Label, reads, intro, back
<1>3. role \in Role /\ public \in BOOLEAN
  <2> HIDE DEF reads, intro, back
  <2> QED
    BY <1>1 DEF Role
<1>4. more \in Labels /\ more.roles = Append(at.roles, role) /\ more.public = public
  <2> HIDE DEF role, public, more
  <2> QED
    BY <1>1, <1>2, <1>3 DEF Labels
<1>5. RoleOf(at, segment, starts) = role
  <2> HIDE DEF role, more
  <2>1. Last(Append(at.roles, role)) = role
    BY <1>1, <1>3 DEF Last
  <2> QED
    BY <1>4, <2>1 DEF RoleOf, more
<1>6. role = "agenda_reading" <=> reads
  <2> HIDE DEF reads, intro, back
  <2> QED
    OBVIOUS
<1>7. n \in Nat /\ \A i \in 1 .. n : cues[i] \in {"in", "back"}
  BY DEF Cue
<1>8. /\ intro = 0 <=> \A i \in 1 .. n : cues[i] # "in"
      /\ intro # 0 => intro \in 1 .. n /\ cues[intro] = "in"
      /\ \A i \in 1 .. n : cues[i] = "in" => 0 < intro /\ intro <= i
  BY FirstCueIs DEF Cue
<1>9. /\ back = 0 <=> \A i \in 1 .. n : cues[i] # "back"
      /\ back # 0 => back \in 1 .. n /\ cues[back] = "back"
      /\ \A i \in 1 .. n : cues[i] = "back" => 0 < back /\ back <= i
  BY FirstCueIs DEF Cue
<1>10. cues = <<>> => intro = 0 /\ back = 0
  <2>1. cues = <<>> => n = 0
    OBVIOUS
  <2> HIDE DEF intro, back, n
  <2> QED
    BY <1>8, <1>9, <2>1
<1>11. ~reads /\ cues = <<>> => /\ public <=> at.public
                                /\ role = IF at.public THEN "public_comment" ELSE "official"
  <2> HIDE DEF reads, intro, back
  <2> QED
    BY <1>1, <1>10
<1>12. ASSUME ~reads, cues # <<>>, ~Misread(cues, at.public)
       PROVE  public <=> Last(cues) = "in"
  <2>1. n > 0 /\ Last(cues) = cues[n] /\ cues[1] \in {"in", "back"} /\ cues[n] \in {"in", "back"}
    BY <1>7, <1>12, EmptySeq DEF Last
  <2>2. ~ ((\E i \in 1 .. n : cues[i] = "in") /\ (\E i \in 1 .. n : cues[i] = "back")
            /\ IF at.public THEN cues[n] = cues[1] ELSE cues[n] = "back")
    <3>1. DOMAIN cues = 1 .. n
      OBVIOUS
    <3>2. \A c : c \in Range(cues) <=> \E i \in 1 .. n : cues[i] = c
      BY <3>1 DEF Range
    <3> QED
      BY <1>12, <2>1, <3>2 DEF Misread
  <2> HIDE DEF intro, back, n, reads, cues
  <2>3. 1 \in 1 .. n /\ n \in 1 .. n
    BY <1>7, <2>1
  <2>4. CASE ~at.public
    <3>1. public <=> intro > 0
      BY <1>1, <1>12, <2>4
    <3> QED
      BY <1>7, <1>8, <2>1, <2>2, <2>3, <2>4, <3>1
  <2>5. CASE at.public
    <3>1. public <=> ~handsBack
      BY <1>1, <1>12, <2>5
    <3>2. cues[1] = "in" => intro = 1
      BY <1>7, <1>8, <2>3
    <3>3. cues[1] = "back" => back = 1
      BY <1>7, <1>9, <2>3
    <3>4. CASE intro = 0
      BY <1>7, <1>8, <1>9, <2>1, <2>3, <3>1, <3>4
    <3>5. CASE back = 0
      BY <1>7, <1>8, <1>9, <2>1, <2>3, <3>1, <3>5
    <3>6. CASE intro # 0 /\ back # 0
      <4>1. intro \in 1 .. n /\ back \in 1 .. n /\ intro # back /\ cues[n] # cues[1]
        BY <1>8, <1>9, <2>2, <2>5, <3>6
      <4>2. handsBack <=> cues[1] = "in"
        BY <1>7, <2>1, <3>2, <3>3, <4>1
      <4> QED
        BY <2>1, <3>1, <4>1, <4>2
    <3> QED
      BY <3>4, <3>5, <3>6
  <2> QED
    BY <1>1, <2>4, <2>5
<1> HIDE DEF more, role, public, reads
<1> QED
  BY <1>3, <1>4, <1>5, <1>6, <1>11, <1>12 DEF more, public, reads

(* The segments of a transcript.                                           *)
LEMMA TranscriptIs ==
  ASSUME MeetingInv
  PROVE  /\ Len(said) \in Nat /\ DOMAIN said = 1 .. Len(said)
         /\ \A i \in 1 .. Len(said) : said[i].cues \in Seq(Cue)
<1>1. said \in Seq(Spoken)
  BY DEF MeetingInv
<1>2. Len(said) \in Nat /\ DOMAIN said = 1 .. Len(said)
  BY <1>1
<1>3. \A i \in 1 .. Len(said) : said[i] \in Spoken
  BY <1>1
<1> QED
  BY <1>2, <1>3 DEF Spoken

(* The loop of label_roles over the transcript.                            *)
LabelLoop(f, starts) ==
  f = [i \in 0 .. Len(said) |-> IF i = 0 THEN NobodySpoke ELSE Label(f[i-1], said[i], starts)]

LEMMA LabelLoopExists ==
  ASSUME MeetingInv, NEW starts
  PROVE  \E f : LabelLoop(f, starts) /\ f \in [0 .. Len(said) -> Labels]
<1> DEFINE n == Len(said)
           step == [p \in (1 .. n) \X Labels |-> Label(p[2], said[p[1]], starts)]
<1>1. n \in Nat /\ NobodySpoke \in Labels /\ \A i \in 1 .. n : said[i].cues \in Seq(Cue)
  BY TranscriptIs DEF NobodySpoke, Labels
<1>2. step \in [(1 .. n) \X Labels -> Labels]
  BY <1>1, LabelIs
<1> HIDE DEF step
<1>3. PICK f : Loop(f, n, NobodySpoke, step, Labels)
  BY <1>1, <1>2, LoopExists
<1>4. \A i \in 0 .. n : f[i] = IF i = 0 THEN NobodySpoke ELSE Label(f[i-1], said[i], starts)
  <2> TAKE i \in 0 .. n
  <2>1. f[i] = IF i = 0 THEN NobodySpoke ELSE step[<<i, f[i-1]>>]
    BY <1>3 DEF Loop
  <2>2. CASE i # 0
    <3>1. i \in 1 .. n /\ i - 1 \in 0 .. n
      BY <2>2
    <3>2. f[i-1] \in Labels
      BY <1>3, <3>1 DEF Loop
    <3>3. <<i, f[i-1]>> \in (1 .. n) \X Labels
      BY <3>1, <3>2
    <3>4. step[<<i, f[i-1]>>] = Label(f[i-1], said[i], starts)
      BY <3>3 DEF step
    <3> QED
      BY <2>1, <2>2, <3>4
  <2> QED
    BY <2>1, <2>2
<1>5. f = [i \in 0 .. n |-> f[i]] /\ f \in [0 .. n -> Labels]
  BY <1>3 DEF Loop
<1>6. f = [i \in 0 .. n |-> IF i = 0 THEN NobodySpoke ELSE Label(f[i-1], said[i], starts)]
  BY <1>4, <1>5
<1> QED
  BY <1>5, <1>6 DEF LabelLoop

(* A segment keeps the role it got in its turn.                            *)
LEMMA RolesAre ==
  ASSUME MeetingInv, NEW aligned
  PROVE  \E at, starts :
           /\ at \in [0 .. Len(said) -> Labels] /\ at[0] = NobodySpoke
           /\ \A i \in 1 .. Len(said) : /\ at[i] = Label(at[i-1], said[i], starts)
                                        /\ Roles(aligned)[i] = RoleOf(at[i-1], said[i], starts)
<1> DEFINE n == Len(said)
           starts == {aligned[i].start : i \in DOMAIN aligned}
           at == CHOOSE f : LabelLoop(f, starts)
<1>1. n \in Nat /\ \A i \in 1 .. n : said[i].cues \in Seq(Cue)
  BY TranscriptIs
<1>2. Roles(aligned) = at[n].roles
  BY DEF Roles, LabelLoop
<1>3. \E f : LabelLoop(f, starts) /\ f \in [0 .. n -> Labels]
  <2> HIDE DEF starts
  <2> QED
    BY LabelLoopExists
<1>4. PICK f : LabelLoop(f, starts) /\ f \in [0 .. n -> Labels]
  BY <1>3
<1> HIDE DEF starts
<1>5. LabelLoop(at, starts)
  BY <1>3
<1> HIDE DEF at
<1>6. /\ at[0] = NobodySpoke /\ f[0] = NobodySpoke
      /\ \A i \in 1 .. n : /\ at[i] = Label(at[i-1], said[i], starts)
                           /\ f[i] = Label(f[i-1], said[i], starts)
  <2>1. \A i \in 0 .. n : /\ at[i] = IF i = 0 THEN NobodySpoke ELSE Label(at[i-1], said[i], starts)
                          /\ f[i] = IF i = 0 THEN NobodySpoke ELSE Label(f[i-1], said[i], starts)
    BY <1>4, <1>5 DEF LabelLoop
  <2> QED
    BY <1>1, <2>1
<1>7. \A i \in 0 .. n : at[i] = f[i]
  <2>1. at[0] = f[0] /\ \A i \in 1 .. n : at[i-1] = f[i-1] => at[i] = f[i]
    BY <1>6
  <2> QED
    <3>1. StepAlike(at, f, n)
      BY <2>1 DEF StepAlike
    <3> QED
      BY <1>1, <3>1, LoopsAgree DEF Alike
<1>8. at = f
  <2>1. at = [i \in 0 .. n |-> at[i]]
    BY <1>5 DEF LabelLoop
  <2>2. f = [i \in 0 .. n |-> f[i]]
    BY <1>4
  <2> QED
    BY <1>7, <2>1, <2>2
<1>9. \A i \in 0 .. n : at[i] \in Labels
  BY <1>4, <1>8
<1> DEFINE S == {k \in 0 .. n : /\ at[k].roles \in Seq(Role) /\ Len(at[k].roles) = k
                                /\ \A i \in 1 .. k : at[k].roles[i] = RoleOf(at[i-1], said[i], starts)}
<1>10. 0 \in S
  <2>1. at[0].roles = <<>>
    BY <1>6 DEF NobodySpoke
  <2>2. at[0].roles \in Seq(Role) /\ Len(at[0].roles) = 0
    BY <2>1
  <2> QED
    BY <1>1, <2>2
<1>11. ASSUME NEW k \in 1 .. n, k - 1 \in S PROVE k \in S
  <2> DEFINE roles == at[k-1].roles
             role == RoleOf(at[k-1], said[k], starts)
  <2>1. k - 1 \in 0 .. n /\ k \in 0 .. n
    BY <1>1
  <2>2. role \in Role /\ at[k].roles = Append(roles, role)
    <3>1. at[k-1] \in Labels
      BY <1>9, <2>1
    <3>2. at[k] = Label(at[k-1], said[k], starts) /\ said[k].cues \in Seq(Cue)
      BY <1>1, <1>6
    <3> HIDE DEF S
    <3> QED
      BY <3>1, <3>2, LabelIs, SMTT(30)
  <2>3. roles \in Seq(Role) /\ Len(roles) = k - 1
        /\ \A i \in 1 .. k - 1 : roles[i] = RoleOf(at[i-1], said[i], starts)
    BY <1>11
  <2> DEFINE more == Append(roles, role)
  <2>4. more \in Seq(Role) /\ Len(more) = k /\ more[k] = role /\ \A i \in 1 .. k - 1 : more[i] = roles[i]
    <3> HIDE DEF roles, role
    <3> QED
      BY <1>1, <2>1, <2>2, <2>3
  <2> HIDE DEF roles, more
  <2>5. \A i \in 1 .. k : more[i] = RoleOf(at[i-1], said[i], starts)
    <3> TAKE i \in 1 .. k
    <3>1. i = k \/ i \in 1 .. k - 1
      BY <1>1
    <3> QED
      BY <2>3, <2>4, <3>1
  <2> QED
    BY <2>1, <2>2, <2>4, <2>5 DEF more
<1> HIDE DEF S
<1>12. n \in S
  <2>1. \A k \in 0 .. n : k \in S
    BY <1>1, <1>10, <1>11, Induct
  <2> QED
    BY <1>1, <2>1
<1>13. \A i \in 1 .. n : Roles(aligned)[i] = RoleOf(at[i-1], said[i], starts)
  BY <1>2, <1>12 DEF S
<1> QED
  BY <1>4, <1>6, <1>8, <1>13

(* Who has the floor after one more segment.                               *)
LEMMA FloorStep ==
  ASSUME MeetingInv, NEW readings, NEW i \in 1 .. Len(said)
  PROVE  /\ i \in readings => ~FloorAfter(i, readings)
         /\ i \notin readings /\ said[i].cues # <<>> => (FloorAfter(i, readings) <=> Last(said[i].cues) = "in")
         /\ i \notin readings /\ said[i].cues = <<>> => (FloorAfter(i, readings) <=> FloorAfter(i - 1, readings))
<1> DEFINE told(k) == {j \in 1 .. k : j \in readings \/ said[j].cues # <<>>}
<1>1. Len(said) \in Nat /\ i \in Nat /\ i > 0
  BY DEF MeetingInv
<1>2. \A k : FloorAfter(k, readings) <=> /\ told(k) # {} /\ Max(told(k)) \notin readings
                                         /\ Last(said[Max(told(k))].cues) = "in"
  BY DEF FloorAfter
<1>3. ASSUME i \in readings \/ said[i].cues # <<>> PROVE told(i) # {} /\ Max(told(i)) = i
  <2>1. i \in told(i) /\ \A j \in told(i) : j <= i
    BY <1>1, <1>3
  <2>2. told(i) \in SUBSET Int /\ IsFiniteSet(told(i))
    <3>1. IsFiniteSet(1 .. i) /\ told(i) \subseteq 1 .. i
      BY <1>1, FS_Interval
    <3> QED
      BY <1>1, <3>1, FS_Subset
  <2> DEFINE T == told(i)
  <2> HIDE DEF T
  <2>3. Max(T) \in T /\ \A x \in T : x <= Max(T)
    BY <2>1, <2>2, GreatestIs DEF T
  <2>4. Max(T) \in Int /\ Max(T) <= i /\ i <= Max(T)
    BY <2>1, <2>2, <2>3 DEF T
  <2> QED
    BY <1>1, <2>1, <2>4 DEF T
<1>4. ASSUME i \notin readings, said[i].cues = <<>> PROVE told(i) = told(i - 1)
  <2>1. 1 .. i = (1 .. (i - 1)) \cup {i} /\ i \notin 1 .. (i - 1)
    BY <1>1
  <2> QED
    BY <1>4, <2>1
<1> HIDE DEF told
<1> QED
  BY <1>2, <1>3, <1>4

LEMMA RolesOfFloor == MeetingInv => RolesFollowTheFloor
<1> SUFFICES ASSUME MeetingInv PROVE HeldTheFloor(Roles(Aligned))
  BY DEF RolesFollowTheFloor
<1> DEFINE n == Len(said)
           roles == Roles(Aligned)
           readings == {i \in DOMAIN said : roles[i] = "agenda_reading"}
           floor(i) == FloorAfter(i, readings)
           misread(i) == i \notin readings /\ Misread(said[i].cues, floor(i - 1))
<1>1. n \in Nat /\ DOMAIN said = 1 .. n /\ \A i \in 1 .. n : said[i].cues \in Seq(Cue)
  BY TranscriptIs
<1>2. PICK at, starts :
        /\ at \in [0 .. n -> Labels] /\ at[0] = NobodySpoke
        /\ \A i \in 1 .. n : /\ at[i] = Label(at[i-1], said[i], starts)
                             /\ roles[i] = RoleOf(at[i-1], said[i], starts)
  BY RolesAre
<1> HIDE DEF roles
<1>3. ASSUME NEW i \in 1 .. n
      PROVE  /\ i \in readings => ~at[i].public
             /\ i \notin readings /\ said[i].cues = <<>> =>
                  /\ at[i].public <=> at[i-1].public
                  /\ roles[i] = IF at[i-1].public THEN "public_comment" ELSE "official"
             /\ i \notin readings /\ said[i].cues # <<>> /\ ~Misread(said[i].cues, at[i-1].public) =>
                  (at[i].public <=> Last(said[i].cues) = "in")
  <2>1. at[i-1] \in Labels
    <3>1. i - 1 \in 0 .. n
      BY <1>1
    <3> QED
      BY <1>2, <3>1
  <2>2. i \in readings <=> IsReading(said[i], starts)
    BY <1>1, <1>2, <2>1, LabelIs
  <2> HIDE DEF readings
  <2> QED
    BY <1>1, <1>2, <2>1, <2>2, LabelIs
<1> HIDE DEF readings
<1> DEFINE S == {k \in 0 .. n : (\A j \in 1 .. k : ~misread(j)) => (at[k].public <=> floor(k))}
<1>4. 0 \in S
  <2>1. ~at[0].public
    BY <1>2 DEF NobodySpoke
  <2>2. ~floor(0)
    <3>1. {j \in 1 .. 0 : j \in readings \/ said[j].cues # <<>>} = {}
      OBVIOUS
    <3> QED
      BY <3>1 DEF FloorAfter
  <2> QED
    BY <1>1, <2>1, <2>2
<1>5. ASSUME NEW k \in 1 .. n, k - 1 \in S, \A j \in 1 .. k : ~misread(j)
      PROVE  at[k].public <=> floor(k)
  <2>1. at[k-1].public <=> floor(k-1)
    <3>1. \A j \in 1 .. (k - 1) : ~misread(j)
      BY <1>1, <1>5
    <3> HIDE DEF misread, floor
    <3> QED
      BY <1>5, <3>1
  <2>2. k \notin readings => ~Misread(said[k].cues, floor(k-1))
    BY <1>1, <1>5
  <2>3. Misread(said[k].cues, at[k-1].public) <=> Misread(said[k].cues, floor(k-1))
    <3> HIDE DEF floor
    <3> QED
      BY <2>1 DEF Misread
  <2>4. /\ k \in readings => ~floor(k)
        /\ k \notin readings /\ said[k].cues # <<>> => (floor(k) <=> Last(said[k].cues) = "in")
        /\ k \notin readings /\ said[k].cues = <<>> => (floor(k) <=> floor(k-1))
    BY FloorStep
  <2> HIDE DEF floor
  <2> QED
    BY <1>3, <2>1, <2>2, <2>3, <2>4
<1>6. \A k \in 1 .. n : k - 1 \in S => k \in S
  <2> HIDE DEF misread, floor
  <2> QED
    BY <1>1, <1>5
<1> HIDE DEF S
<1>7. \A k \in 0 .. n : k \in S
  BY <1>1, <1>4, <1>6, Induct
<1>8. ASSUME NEW i \in 1 .. n, said[i].cues = <<>>, i \notin readings, \A j \in 1 .. (i - 1) : ~misread(j)
      PROVE  roles[i] = IF floor(i - 1) THEN "public_comment" ELSE "official"
  <2>1. i - 1 \in 0 .. n
    BY <1>1
  <2>2. at[i-1].public <=> floor(i-1)
    <3> HIDE DEF misread, floor
    <3> QED
      BY <1>7, <1>8, <2>1 DEF S
  <2> HIDE DEF floor
  <2> QED
    BY <1>3, <1>8, <2>2
<1> QED
  BY <1>1, <1>8 DEF HeldTheFloor, roles, readings

(* SAFETY.  For every transcript and however it is aligned to the agenda, a *)
(* segment without a cue has the role of whoever has the floor             *)
(* (label_roles, RolesFollowTheFloor).                                     *)
THEOREM RolesKeepTheFloor == MeetingSpec => []RolesFollowTheFloor
<1>1. MeetingInit => MeetingInv
  BY MeetingStart
<1>2. MeetingInv /\ [MeetingNext]_said => MeetingInv'
  BY MeetingStep
<1>3. MeetingInv => RolesFollowTheFloor
  BY RolesOfFloor
<1> QED
  BY <1>1, <1>2, <1>3, PTL DEF MeetingSpec

-------------------------------------------------------------------------------
(* THE ALIGNMENT OF A MEETING                                              *)

(* What there is of each mention in a transcript.                          *)
Heard ==
  UNION {{[segment |-> i, no |-> said[i].mentions[k].no, words |-> said[i].mentions[k].words] :
            k \in DOMAIN said[i].mentions} : i \in DOMAIN said}

LEMMA MentionsAre ==
  ASSUME MeetingInv, NEW i \in 1 .. Len(said)
  PROVE  /\ said[i].ts \in Nat
         /\ said[i].mentions \in Seq(Range(said[i].mentions))
<1>1. said[i] \in Spoken
  BY DEF MeetingInv
<1> QED
  BY <1>1, MeetingConstants DEF Spoken

(* The anchors are the mentions, in the order of the segments.             *)
LEMMA AnchorsAre ==
  ASSUME MeetingInv
  PROVE  /\ Anchors \in Seq(Heard) /\ \A a \in Heard : a.segment \in 1 .. Len(said)
         /\ \A a, b \in 1 .. Len(Anchors) : a <= b => Anchors[a].segment <= Anchors[b].segment
<1> DEFINE n == Len(said)
           anchor(i, k) == [segment |-> i, no |-> said[i].mentions[k].no, words |-> said[i].mentions[k].words]
           row(i) == [k \in DOMAIN said[i].mentions |-> anchor(i, k)]
           seqs == [i \in DOMAIN said |-> row(i)]
<1>1. n \in Nat /\ DOMAIN said = 1 .. n
  BY TranscriptIs
<1>2. \A a \in Heard : a.segment \in 1 .. n
  BY <1>1 DEF Heard
<1>3. ASSUME NEW i \in 1 .. n
      PROVE  row(i) \in Seq(Heard) /\ \A k \in 1 .. Len(row(i)) : row(i)[k].segment = i
  <2> DEFINE m == said[i].mentions
             L == Len(m)
  <2>1. L \in Nat /\ DOMAIN m = 1 .. L
    BY MentionsAre
  <2>2. \A k \in 1 .. L : anchor(i, k) \in Heard /\ anchor(i, k).segment = i
    BY <1>1, <2>1 DEF Heard
  <2>3. row(i) = [k \in 1 .. L |-> anchor(i, k)]
    BY <2>1
  <2> HIDE DEF anchor, L, row
  <2> QED
    BY <2>1, <2>2, <2>3
<1> HIDE DEF row
<1>4. seqs \in Seq(Seq(Heard)) /\ Len(seqs) = n /\ \A i \in 1 .. n : seqs[i] = row(i)
  BY <1>1, <1>3
<1>5. Anchors = FlattenSeq(seqs)
  BY DEF Anchors, row
<1> HIDE DEF seqs
<1>6. Anchors \in Seq(Heard)
  BY <1>4, <1>5, FlattenedIs
<1>7. \A a \in Heard : a.segment \in Int
  BY <1>1, <1>2
<1>8. \A i \in 1 .. Len(seqs) : \A k \in 1 .. Len(seqs[i]) : seqs[i][k].segment = i
  BY <1>3, <1>4
<1>9. \A a, b \in 1 .. Len(Anchors) : a <= b => Anchors[a].segment <= Anchors[b].segment
  <2> HIDE DEF n
  <2> QED
    BY <1>4, <1>5, <1>7, <1>8, FlattenedInOrder
<1> QED
  BY <1>2, <1>6, <1>9

LEMMA ScoreIs ==
  ASSUME NEW item \in DOMAIN Agenda, NEW anchor
  PROVE  Score(item, anchor) \in Nat
<1> DEFINE words == Agenda[item].words
           shared == Shared(item, anchor)
           measure == Measure(words)
<1>1. IsFiniteSet(words)
  BY MeetingConstants
<1>2. shared \in Nat
  <2>1. IsFiniteSet(words \cap anchor.words)
    BY <1>1, FS_Subset
  <2> QED
    BY <2>1, FS_CardinalityType DEF Shared
<1>3. measure \in 1 .. 8
  <2>1. Cardinality(words) \in Nat /\ (words # {} => Cardinality(words) # 0)
    BY <1>1, FS_CardinalityType, FS_EmptySet
  <2> HIDE DEF words
  <2> QED
    BY <2>1 DEF Measure
<1> HIDE DEF shared, measure
<1>4. (3360 * shared) \div measure \in Nat
  BY <1>2, <1>3
<1>5. Score(item, anchor) = (IF NumberMatches(item, anchor) THEN 2100 ELSE 0) + (3360 * shared) \div measure
  BY DEF Score, shared, measure
<1> DEFINE q == (3360 * shared) \div measure
<1> HIDE DEF q
<1>6. (IF NumberMatches(item, anchor) THEN 2100 ELSE 0) + q \in Nat
  BY <1>4 DEF q
<1> QED
  BY <1>5, <1>6 DEF q

(* The greatest of the values on a finite set is one of them.              *)
LEMMA LargestIs ==
  ASSUME NEW S, IsFiniteSet(S), S # {}, NEW h, \A x \in S : h[x] \in Int
  PROVE  /\ \E y \in S : Max({h[x] : x \in S}) = h[y]
         /\ \A x \in S : h[x] <= Max({h[x1] : x1 \in S})
<1> DEFINE V == {h[x] : x \in S}
           f == [x \in S |-> h[x]]
<1>1. f \in Surjection(S, V)
  <2>1. f \in [S -> V] /\ \A v \in V : \E x \in S : f[x] = v
    OBVIOUS
  <2> HIDE DEF f, V
  <2> QED
    BY <2>1 DEF Surjection
<1>2. IsFiniteSet(V)
  <2> HIDE DEF f, V
  <2> QED
    BY <1>1, FS_Surjection
<1>3. V \in SUBSET Int /\ V # {} /\ \A x \in S : h[x] \in V
  OBVIOUS
<1>4. Max(V) \in V /\ \A v \in V : v <= Max(V)
  <2> HIDE DEF V
  <2> QED
    BY <1>2, <1>3, GreatestIs
<1> QED
  BY <1>3, <1>4

LEMMA HighestIs ==
  ASSUME NEW S, IsFiniteSet(S), S # {}, NEW h, \A x \in S : h[x] \in Int
  PROVE  \E y \in S : \A x \in S : h[x] <= h[y]
<1>1. PICK y \in S : Max({h[x] : x \in S}) = h[y]
  BY LargestIs
<1>2. \A x \in S : h[x] <= Max({h[x1] : x1 \in S})
  BY LargestIs
<1> QED
  BY <1>1, <1>2

LEMMA SmallestIs ==
  ASSUME NEW S, IsFiniteSet(S), S # {}, NEW h, \A x \in S : h[x] \in Int
  PROVE  \E y \in S : \A x \in S : h[y] <= h[x]
<1> DEFINE g == [x \in S |-> 0 - h[x]]
<1>1. \A x \in S : g[x] \in Int
  OBVIOUS
<1>2. PICK y \in S : \A x \in S : g[x] <= g[y]
  <2> HIDE DEF g
  <2> QED
    BY <1>1, HighestIs
<1> QED
  BY <1>2

(* The candidates and what each is worth.                                  *)
Gain(anchors) == [c \in Candidates(anchors) |-> Score(c[1], anchors[c[2]])]

LEMMA CandidatesAre ==
  ASSUME NEW anchors \in Seq(Heard)
  PROVE  /\ Len(anchors) \in Nat /\ IsFiniteSet(Candidates(anchors))
         /\ \A c \in Candidates(anchors) : /\ c[1] \in Nat /\ c[2] \in 1 .. Len(anchors) /\ c = <<c[1], c[2]>>
                                           /\ Gain(anchors)[c] \in Nat
<1> DEFINE m == Len(Agenda)
           n == Len(anchors)
<1>1. m \in Nat /\ n \in Nat /\ DOMAIN Agenda = 1 .. m /\ DOMAIN anchors = 1 .. n
  BY MeetingConstants
<1>2. IsFiniteSet((1 .. m) \X (1 .. n))
  <2> DEFINE A == 1 .. m
             B == 1 .. n
  <2>1. IsFiniteSet(A) /\ IsFiniteSet(B)
    BY <1>1, FS_Interval
  <2> HIDE DEF A, B
  <2>2. IsFiniteSet(A \X B)
    BY <2>1, FS_Product
  <2> QED
    BY <2>2 DEF A, B
<1>3. Candidates(anchors) \subseteq (1 .. m) \X (1 .. n)
  BY <1>1 DEF Candidates
<1>4. IsFiniteSet(Candidates(anchors))
  BY <1>2, <1>3, FS_Subset
<1>5. ASSUME NEW c \in Candidates(anchors)
      PROVE  c[1] \in DOMAIN Agenda /\ c[2] \in 1 .. n /\ c = <<c[1], c[2]>> /\ c[1] \in Nat
  BY <1>1, <1>3
<1>6. \A c \in Candidates(anchors) : Gain(anchors)[c] \in Nat
  BY <1>5, ScoreIs DEF Gain
<1> QED
  BY <1>1, <1>4, <1>5, <1>6

(* The pairs before a pair.                                                *)
Earlier(anchors, c) == {b \in Candidates(anchors) : Follows(b, c)}

LEMMA EarlierAre ==
  ASSUME NEW anchors \in Seq(Heard), NEW c \in Candidates(anchors)
  PROVE  /\ Earlier(anchors, c) \subseteq Candidates(anchors) /\ IsFiniteSet(Earlier(anchors, c))
         /\ \A b \in Earlier(anchors, c) : b[1] < c[1] /\ b[2] < c[2]
<1>1. Earlier(anchors, c) \subseteq Candidates(anchors)
  BY DEF Earlier
<1> QED
  BY <1>1, CandidatesAre, FS_Subset DEF Earlier, Follows, Before

(* Pairs by the time of their anchors.                                     *)
When(anchors) == [c \in Candidates(anchors) |-> c[2]]

LEMMA WhenIs ==
  ASSUME NEW anchors \in Seq(Heard)
  PROVE  /\ Len(anchors) \in Nat /\ When(anchors) \in [Candidates(anchors) -> 0 .. Len(anchors)]
         /\ \A c \in Candidates(anchors) : /\ When(anchors)[c] = c[2]
                                           /\ Earlier(anchors, c) \subseteq Lower(Candidates(anchors), When(anchors), c)
<1>1. Len(anchors) \in Nat /\ \A c \in Candidates(anchors) : c[2] \in 1 .. Len(anchors)
  BY CandidatesAre
<1>2. \A c \in Candidates(anchors) : c[2] \in 0 .. Len(anchors)
  BY <1>1
<1> QED
  BY <1>1, <1>2, EarlierAre DEF When, Lower

(* What the dynamic program computes for each pair.                        *)
BestBefore(anchors, f, c) ==
  IF Earlier(anchors, c) = {} THEN 0 ELSE Max({f[b] : b \in Earlier(anchors, c)})

Weighs(anchors, f) ==
  f = [c \in Candidates(anchors) |-> Score(c[1], anchors[c[2]]) + BestBefore(anchors, f, c)]

LEMMA BestBeforeIs ==
  ASSUME NEW anchors \in Seq(Heard), NEW c \in Candidates(anchors), NEW f,
         \A b \in Earlier(anchors, c) : f[b] \in Nat
  PROVE  BestBefore(anchors, f, c) \in Nat
<1> DEFINE E == Earlier(anchors, c)
<1>1. IsFiniteSet(E)
  BY EarlierAre
<1> HIDE DEF E
<1>2. \A b \in E : f[b] \in Nat
  BY DEF E
<1>3. E # {} => Max({f[b] : b \in E}) \in Nat
  BY <1>1, <1>2, LargestIs
<1> QED
  BY <1>3 DEF BestBefore, E

LEMMA WeighingExists ==
  ASSUME NEW anchors \in Seq(Heard)
  PROVE  \E f \in [Candidates(anchors) -> Nat] : Weighs(anchors, f)
<1> DEFINE D == Candidates(anchors)
           rank == When(anchors)
           n == Len(anchors)
           step == [p \in D \X Partial(D, Nat) |-> Score(p[1][1], anchors[p[1][2]]) + BestBefore(anchors, p[2], p[1])]
<1>1. n \in Nat /\ rank \in [D -> 0 .. n] /\ \A c \in D : Earlier(anchors, c) \subseteq Lower(D, rank, c)
  BY WhenIs
<1>2. \A c \in D : Score(c[1], anchors[c[2]]) \in Nat
  BY CandidatesAre DEF Gain
<1>3. ASSUME NEW c \in D, NEW h \in Partial(D, Nat)
      PROVE  step[<<c, h>>] = Score(c[1], anchors[c[2]]) + BestBefore(anchors, h, c)
  OBVIOUS
<1> HIDE DEF rank, n, step
<1>4. StaysIn(Nat, D, rank, step)
  <2> SUFFICES ASSUME NEW c \in D, NEW h \in Partial(D, Nat), h \in [Lower(D, rank, c) -> Nat]
               PROVE  step[<<c, h>>] \in Nat
    BY DEF StaysIn
  <2>1. \A b \in Earlier(anchors, c) : h[b] \in Nat
    BY <1>1
  <2>2. BestBefore(anchors, h, c) \in Nat
    BY <2>1, BestBeforeIs
  <2> QED
    BY <1>2, <1>3, <2>2
<1>5. PICK f : Recursive(f, D, rank, Nat, step)
  <2> HIDE DEF D
  <2> QED
    BY <1>1, <1>4, RecursionExists
<1>6. f \in [D -> Nat]
  BY <1>5 DEF Recursive
<1>7. ASSUME NEW c \in D PROVE f[c] = Score(c[1], anchors[c[2]]) + BestBefore(anchors, f, c)
  <2> DEFINE L == Lower(D, rank, c)
             h == [y \in L |-> f[y]]
  <2>1. f[c] = step[<<c, h>>]
    BY <1>5 DEF Recursive
  <2>2. h \in Partial(D, Nat)
    <3>1. L \in SUBSET D
      BY DEF Lower
    <3>2. h \in [L -> Nat]
      BY <1>6, <3>1
    <3> HIDE DEF h, D, L
    <3> QED
      BY <3>1, <3>2 DEF Partial
  <2>3. \A b \in Earlier(anchors, c) : h[b] = f[b]
    BY <1>1
  <2> HIDE DEF h
  <2>4. {h[b] : b \in Earlier(anchors, c)} = {f[b] : b \in Earlier(anchors, c)}
    BY <2>3
  <2>5. BestBefore(anchors, h, c) = BestBefore(anchors, f, c)
    BY <2>4 DEF BestBefore
  <2> QED
    BY <1>3, <2>1, <2>2, <2>5
<1>8. Weighs(anchors, f)
  <2>1. f = [c \in D |-> f[c]]
    BY <1>6
  <2> QED
    BY <1>7, <2>1 DEF Weighs
<1> QED
  BY <1>6, <1>8

(* The total of a pair is its score and the best one before it.            *)
LEMMA HeaviestIs ==
  ASSUME NEW anchors \in Seq(Heard)
  PROVE  LET total == Heaviest(anchors) IN
         /\ total \in [Candidates(anchors) -> Nat]
         /\ \A c \in Candidates(anchors) : /\ total[c] = Gain(anchors)[c] + BestBefore(anchors, total, c)
                                           /\ BestBefore(anchors, total, c) \in Nat
<1> DEFINE D == Candidates(anchors)
           total == Heaviest(anchors)
<1>1. total = CHOOSE f : Weighs(anchors, f)
  BY DEF Heaviest, Weighs, BestBefore, Earlier
<1>2. Weighs(anchors, total)
  BY <1>1, WeighingExists
<1> HIDE DEF total
<1>3. total = [c \in D |-> total[c]]
      /\ \A c \in D : total[c] = Gain(anchors)[c] + BestBefore(anchors, total, c)
  BY <1>2 DEF Weighs, Gain
<1>4. Len(anchors) \in Nat /\ When(anchors) \in [D -> 0 .. Len(anchors)]
      /\ \A c \in D : Earlier(anchors, c) \subseteq Lower(D, When(anchors), c)
  BY WhenIs
<1> DEFINE P == {c \in D : total[c] \in Nat}
<1>5. ASSUME NEW c \in D, \A b \in D : When(anchors)[b] < When(anchors)[c] => b \in P PROVE c \in P
  <2>1. \A b \in Earlier(anchors, c) : total[b] \in Nat
    BY <1>4, <1>5 DEF Lower
  <2>2. BestBefore(anchors, total, c) \in Nat
    BY <2>1, BestBeforeIs
  <2>3. Gain(anchors)[c] \in Nat
    BY CandidatesAre
  <2> QED
    BY <1>3, <2>2, <2>3
<1>6. D \subseteq P
  <2> HIDE DEF D, P
  <2> QED
    BY <1>4, <1>5, RanksAgree
<1>7. \A c \in D : total[c] \in Nat
  BY <1>6
<1>8. total \in [D -> Nat]
  BY <1>3, <1>7
<1>9. \A c \in D : BestBefore(anchors, total, c) \in Nat
  BY <1>7, BestBeforeIs, EarlierAre
<1> QED
  BY <1>3, <1>8, <1>9 DEF total

(* Of pairs there is a first one, and of pairs a heaviest first one.       *)
LEMMA FirstIs ==
  ASSUME NEW S, IsFiniteSet(S), S # {}, \A c \in S : c[1] \in Int /\ c[2] \in Int
  PROVE  First(S) \in S
<1> DEFINE item == [c \in S |-> c[1]]
           time == [c \in S |-> c[2]]
<1>1. PICK y \in S : \A c \in S : item[y] <= item[c]
  <2>1. \A c \in S : item[c] \in Int
    OBVIOUS
  <2> HIDE DEF item
  <2> QED
    BY <2>1, SmallestIs
<1> DEFINE R == {c \in S : c[1] = y[1]}
<1>2. PICK z \in R : \A c \in R : time[z] <= time[c]
  <2>1. IsFiniteSet(R) /\ R # {} /\ \A c \in R : time[c] \in Int
    BY FS_Subset
  <2> HIDE DEF time, R
  <2> QED
    BY <2>1, SmallestIs
<1>3. \A d \in S : z[1] < d[1] \/ (z[1] = d[1] /\ z[2] <= d[2])
  <2> TAKE d \in S
  <2>1. z[1] = y[1] /\ y[1] <= d[1] /\ y[1] \in Int /\ d[1] \in Int
    BY <1>1
  <2>2. d[1] = y[1] => z[2] <= d[2]
    BY <1>2
  <2> QED
    BY <2>1, <2>2
<1>4. z \in S
  OBVIOUS
<1> HIDE DEF R
<1> QED
  BY <1>3, <1>4 DEF First

Top(total, S) == First({c \in S : \A d \in S : total[d] <= total[c]})

LEMMA TopIs ==
  ASSUME NEW anchors \in Seq(Heard), NEW total \in [Candidates(anchors) -> Nat],
         NEW S \in SUBSET Candidates(anchors), S # {}
  PROVE  Top(total, S) \in S /\ \A d \in S : total[d] <= total[Top(total, S)]
<1> DEFINE T == {c \in S : \A d \in S : total[d] <= total[c]}
<1>1. IsFiniteSet(S)
  BY CandidatesAre, FS_Subset
<1>2. \A c \in S : total[c] \in Int
  OBVIOUS
<1>3. \E y \in S : \A d \in S : total[d] <= total[y]
  BY <1>1, <1>2, HighestIs
<1>4. T # {} /\ IsFiniteSet(T) /\ T \subseteq S
  BY <1>1, <1>3, FS_Subset
<1>5. \A c \in T : c[1] \in Int /\ c[2] \in Int
  BY CandidatesAre
<1>6. First(T) \in T
  <2> HIDE DEF T
  <2> QED
    BY <1>4, <1>5, FirstIs
<1> QED
  BY <1>6 DEF Top

(* The chain that is followed back from a pair.                            *)
TracesBack(total, f) ==
  f = [c \in DOMAIN total |->
        LET earlier == {b \in DOMAIN total : Follows(b, c)} IN
        Append(IF earlier = {} THEN <<>> ELSE f[Top(total, earlier)], c)]

Traced(anchors, total, f, c) ==
  Append(IF Earlier(anchors, c) = {} THEN <<>> ELSE f[Top(total, Earlier(anchors, c))], c)

LEMMA TraceExists ==
  ASSUME NEW anchors \in Seq(Heard), NEW total \in [Candidates(anchors) -> Nat]
  PROVE  \E f : TracesBack(total, f)
<1> DEFINE D == Candidates(anchors)
           rank == When(anchors)
           n == Len(anchors)
           step == [p \in D \X Partial(D, Seq(D)) |-> Traced(anchors, total, p[2], p[1])]
<1>1. n \in Nat /\ rank \in [D -> 0 .. n] /\ \A c \in D : Earlier(anchors, c) \subseteq Lower(D, rank, c)
  BY WhenIs
<1>2. ASSUME NEW c \in D, NEW h \in Partial(D, Seq(D))
      PROVE  step[<<c, h>>] = Traced(anchors, total, h, c)
  OBVIOUS
<1>3. ASSUME NEW c \in D, Earlier(anchors, c) # {}
      PROVE  Top(total, Earlier(anchors, c)) \in Earlier(anchors, c)
  BY <1>3, TopIs, EarlierAre
<1> HIDE DEF rank, n, step, D
<1>4. StaysIn(Seq(D), D, rank, step)
  <2> SUFFICES ASSUME NEW c \in D, NEW h \in Partial(D, Seq(D)), h \in [Lower(D, rank, c) -> Seq(D)]
               PROVE  step[<<c, h>>] \in Seq(D)
    BY DEF StaysIn
  <2> DEFINE before == IF Earlier(anchors, c) = {} THEN <<>> ELSE h[Top(total, Earlier(anchors, c))]
  <2>1. before \in Seq(D)
    BY <1>1, <1>3
  <2> HIDE DEF before
  <2>2. Append(before, c) \in Seq(D)
    BY <2>1
  <2> QED
    BY <1>2, <2>2 DEF Traced, before
<1>5. PICK f : Recursive(f, D, rank, Seq(D), step)
  BY <1>1, <1>4, RecursionExists
<1>6. f \in [D -> Seq(D)]
  BY <1>5 DEF Recursive
<1>7. ASSUME NEW c \in D PROVE f[c] = Traced(anchors, total, f, c)
  <2> DEFINE L == Lower(D, rank, c)
             h == [y \in L |-> f[y]]
  <2>1. f[c] = step[<<c, h>>]
    BY <1>5 DEF Recursive
  <2>2. h \in Partial(D, Seq(D))
    <3>1. L \in SUBSET D
      BY DEF Lower
    <3>2. h \in [L -> Seq(D)]
      BY <1>6, <3>1
    <3> HIDE DEF h, L
    <3> QED
      BY <3>1, <3>2 DEF Partial
  <2>3. Earlier(anchors, c) # {} => h[Top(total, Earlier(anchors, c))] = f[Top(total, Earlier(anchors, c))]
    BY <1>1, <1>3
  <2> HIDE DEF h
  <2>4. Traced(anchors, total, h, c) = Traced(anchors, total, f, c)
    BY <2>3 DEF Traced
  <2> QED
    BY <1>2, <2>1, <2>2, <2>4
<1>8. TracesBack(total, f)
  <2>1. f = [c \in D |-> f[c]] /\ DOMAIN total = D
    BY <1>6 DEF D
  <2>2. \A c \in D : Earlier(anchors, c) = {b \in D : Follows(b, c)}
    BY DEF Earlier, D
  <2>3. f = [c \in D |-> Append(IF {b \in D : Follows(b, c)} = {} THEN <<>>
                                ELSE f[Top(total, {b \in D : Follows(b, c)})], c)]
    BY <1>7, <2>1, <2>2 DEF Traced
  <2> QED
    BY <2>1, <2>3 DEF TracesBack
<1> QED
  BY <1>8

(* The chain of the heaviest pair, from the function that follows it back. *)
LEMMA ChainIs ==
  ASSUME NEW anchors \in Seq(Heard)
  PROVE  LET total == Heaviest(anchors)
             D == Candidates(anchors)
         IN \E back : /\ \A c \in D : back[c] = Traced(anchors, total, back, c)
                      /\ Chain(anchors) = IF D = {} THEN <<>> ELSE back[Top(total, D)]
<1> DEFINE D == Candidates(anchors)
           total == Heaviest(anchors)
           back == CHOOSE f : TracesBack(total, f)
<1>1. total \in [D -> Nat] /\ DOMAIN total = D
  BY HeaviestIs
<1>2. Chain(anchors) = IF DOMAIN total = {} THEN <<>> ELSE back[Top(total, DOMAIN total)]
  BY DEF Chain, TracesBack, Top
<1> HIDE DEF total
<1>3. TracesBack(total, back)
  BY <1>1, TraceExists
<1> HIDE DEF back
<1>4. \A c \in D : back[c] = Traced(anchors, total, back, c)
  <2>1. \A c \in D : Earlier(anchors, c) = {b \in D : Follows(b, c)}
    BY DEF Earlier
  <2> HIDE DEF D
  <2> QED
    BY <1>1, <1>3, <2>1 DEF TracesBack, Traced
<1> QED
  BY <1>1, <1>2, <1>4 DEF total

LEMMA MembersAre ==
  ASSUME NEW D, NEW s \in Seq(D), NEW c \in D
  PROVE  /\ ToSet(s) \in SUBSET D /\ Append(s, c) \in Seq(D) /\ ToSet(Append(s, c)) = ToSet(s) \cup {c}
         /\ ToSet(s) = {s[i] : i \in 1 .. Len(s)}
         /\ Len(s) \in Nat /\ Len(Append(s, c)) = Len(s) + 1 /\ Append(s, c)[Len(s) + 1] = c
         /\ \A i \in 1 .. Len(s) : Append(s, c)[i] = s[i] /\ s[i] \in D
<1> DEFINE t == Append(s, c)
           n == Len(s)
<1>1. n \in Nat /\ DOMAIN s = 1 .. n /\ t \in Seq(D) /\ Len(t) = n + 1 /\ DOMAIN t = 1 .. n + 1 /\ t[n + 1] = c
      /\ \A i \in 1 .. n : t[i] = s[i] /\ s[i] \in D
  OBVIOUS
<1> HIDE DEF n, t
<1>2. ToSet(s) = {s[i] : i \in 1 .. n} /\ ToSet(t) = {t[i] : i \in 1 .. n + 1}
  BY <1>1 DEF ToSet
<1>3. 1 .. n + 1 = (1 .. n) \cup {n + 1}
  BY <1>1
<1>4. {t[i] : i \in 1 .. n + 1} = {s[i] : i \in 1 .. n} \cup {c}
  BY <1>1, <1>3
<1>5. ToSet(t) = ToSet(s) \cup {c} /\ ToSet(s) \in SUBSET D
  BY <1>1, <1>2, <1>4
<1> QED
  BY <1>1, <1>2, <1>5 DEF n, t

(* A chain that ends with a pair and has its total.                        *)
EndsWith(anchors, total, s, c) ==
  /\ s \in Seq(Candidates(anchors)) /\ Len(s) > 0 /\ s[Len(s)] = c
  /\ \A i \in 1 .. (Len(s) - 1) : Before(s[i], s[i + 1])
  /\ \A i \in 1 .. Len(s) : s[i][2] <= c[2]
  /\ Total(Gain(anchors), ToSet(s)) = total[c]

LEMMA GainsAdd ==
  ASSUME NEW anchors \in Seq(Heard)
  PROVE  /\ Summed(Gain(anchors), Candidates(anchors)) /\ Total(Gain(anchors), {}) = 0
         /\ \A S \in SUBSET Candidates(anchors) :
              /\ Total(Gain(anchors), S) \in Int
              /\ \A c \in S : Total(Gain(anchors), S) = Gain(anchors)[c] + Total(Gain(anchors), S \ {c})
<1>1. Summed(Gain(anchors), Candidates(anchors))
  BY CandidatesAre DEF Summed
<1> QED
  BY <1>1, TotalWithout

(* A pair whose chain goes back to another one.                            *)
LEMMA ChainGrows ==
  ASSUME NEW anchors \in Seq(Heard), NEW total \in [Candidates(anchors) -> Nat],
         NEW c \in Candidates(anchors), NEW b \in Earlier(anchors, c), NEW s, EndsWith(anchors, total, s, b),
         total[c] = Gain(anchors)[c] + total[b]
  PROVE  EndsWith(anchors, total, Append(s, c), c)
<1> DEFINE D == Candidates(anchors)
           g == Gain(anchors)
           n == Len(s)
           t == Append(s, c)
<1>1. s \in Seq(D) /\ n > 0 /\ s[n] = b /\ Total(g, ToSet(s)) = total[b]
      /\ (\A i \in 1 .. (n - 1) : Before(s[i], s[i + 1])) /\ \A i \in 1 .. n : s[i][2] <= b[2]
  BY DEF EndsWith
<1>2. b \in D /\ b[1] < c[1] /\ b[2] < c[2] /\ \A d \in D : d[2] \in Nat
  BY EarlierAre, CandidatesAre
<1>3. /\ ToSet(s) \in SUBSET D /\ t \in Seq(D) /\ ToSet(t) = ToSet(s) \cup {c}
      /\ n \in Nat /\ Len(t) = n + 1 /\ t[n + 1] = c /\ \A i \in 1 .. n : t[i] = s[i] /\ s[i] \in D
      /\ ToSet(s) = {s[i] : i \in 1 .. n}
  BY <1>1, MembersAre
<1> HIDE DEF D, n, t
<1>4. \A i \in 1 .. n : s[i][2] < c[2] /\ s[i] # c
  <2> TAKE i \in 1 .. n
  <2>1. s[i][2] \in Nat /\ b[2] \in Nat /\ c[2] \in Nat /\ s[i][2] <= b[2] /\ b[2] < c[2]
    BY <1>1, <1>2, <1>3 DEF D
  <2> QED
    BY <2>1
<1>5. \A i \in 1 .. n + 1 : t[i][2] <= c[2]
  <2> TAKE i \in 1 .. n + 1
  <2>1. CASE i = n + 1
    <3>1. t[i] = c /\ c[2] \in Nat
      BY <1>2, <1>3, <2>1 DEF D
    <3> QED
      BY <3>1
  <2>2. CASE i # n + 1
    <3>1. i \in 1 .. n
      BY <1>3, <2>2
    <3>2. s[i][2] \in Nat /\ c[2] \in Nat /\ s[i][2] < c[2] /\ t[i] = s[i]
      BY <1>2, <1>3, <1>4, <3>1 DEF D
    <3> QED
      BY <3>2
  <2> QED
    BY <2>1, <2>2
<1>6. \A i \in 1 .. n : Before(t[i], t[i + 1])
  <2> TAKE i \in 1 .. n
  <2>1. CASE i = n
    <3>1. t[i] = b /\ t[i + 1] = c
      BY <1>1, <1>3, <2>1
    <3> QED
      BY <1>2, <3>1 DEF Before
  <2>2. CASE i # n
    <3>1. i \in 1 .. (n - 1) /\ i + 1 \in 1 .. n
      BY <1>3, <2>2
    <3> QED
      BY <1>1, <1>3, <3>1
  <2> QED
    BY <2>1, <2>2
<1>7. Total(g, ToSet(t)) = total[c]
  <2>1. c \notin ToSet(s)
    BY <1>3, <1>4
  <2>2. ToSet(t) \in SUBSET D /\ c \in ToSet(t) /\ ToSet(t) \ {c} = ToSet(s)
    BY <1>3, <2>1 DEF D
  <2>3. Total(g, ToSet(t)) = g[c] + Total(g, ToSet(s))
    BY <2>2, GainsAdd DEF D
  <2> QED
    BY <1>1, <2>3
<1>8. Len(t) - 1 = n /\ Len(t) > 0 /\ t[Len(t)] = c
  BY <1>3
<1> QED
  BY <1>3, <1>5, <1>6, <1>7, <1>8 DEF EndsWith, D, t

LEMMA ChainsAre ==
  ASSUME NEW anchors \in Seq(Heard), NEW back,
         \A c \in Candidates(anchors) : back[c] = Traced(anchors, Heaviest(anchors), back, c)
  PROVE  \A c \in Candidates(anchors) : EndsWith(anchors, Heaviest(anchors), back[c], c)
<1> DEFINE D == Candidates(anchors)
           g == Gain(anchors)
           total == Heaviest(anchors)
           P == {c \in D : EndsWith(anchors, total, back[c], c)}
<1>1. total \in [D -> Nat]
      /\ \A c \in D : total[c] = g[c] + BestBefore(anchors, total, c)
  BY HeaviestIs
<1>2. Len(anchors) \in Nat /\ When(anchors) \in [D -> 0 .. Len(anchors)]
      /\ \A c \in D : Earlier(anchors, c) \subseteq Lower(D, When(anchors), c)
  BY WhenIs
<1>3. \A c \in D : c[2] \in Nat /\ g[c] \in Nat
  BY CandidatesAre
<1>4. \A c \in D : back[c] = Traced(anchors, total, back, c)
  OBVIOUS
<1> HIDE DEF total
<1>5. ASSUME NEW c \in D, \A b \in D : When(anchors)[b] < When(anchors)[c] => b \in P PROVE c \in P
  <2> DEFINE E == Earlier(anchors, c)
  <2>1. CASE E = {}
    <3> DEFINE s == <<c>>
    <3>1. back[c] = s
      BY <1>4, <2>1 DEF Traced
    <3>2. s \in Seq(D) /\ Len(s) = 1 /\ s[1] = c /\ ToSet(s) = {c}
      BY DEF ToSet
    <3>3. total[c] = g[c] /\ g[c] \in Nat
      <4> DEFINE x == g[c]
      <4>1. total[c] = x + BestBefore(anchors, total, c) /\ x \in Nat
        BY <1>1, <1>3
      <4>2. BestBefore(anchors, total, c) = 0
        BY <2>1 DEF BestBefore
      <4> HIDE DEF x
      <4> QED
        BY <4>1, <4>2 DEF x
    <3>4. Total(g, {c}) = g[c] + Total(g, {})
      <4>1. {c} \in SUBSET D /\ c \in {c} /\ {c} \ {c} = {}
        OBVIOUS
      <4> QED
        BY <4>1, GainsAdd
    <3>5. Total(g, {c}) = total[c]
      <4>1. Total(g, {}) = 0
        BY GainsAdd
      <4> DEFINE x == g[c]
      <4> HIDE DEF x
      <4> QED
        BY <3>3, <3>4, <4>1 DEF x
    <3> HIDE DEF s
    <3>6. (\A i \in 1 .. (Len(s) - 1) : Before(s[i], s[i + 1])) /\ \A i \in 1 .. Len(s) : s[i][2] <= c[2]
      BY <1>3, <3>2
    <3>7. EndsWith(anchors, total, s, c)
      BY <3>2, <3>5, <3>6 DEF EndsWith
    <3> QED
      BY <3>1, <3>7
  <2>2. CASE E # {}
    <3> DEFINE b == Top(total, E)
    <3>1. E \in SUBSET D /\ IsFiniteSet(E)
      BY EarlierAre
    <3>2. b \in E /\ \A d \in E : total[d] <= total[b]
      BY <1>1, <2>2, <3>1, TopIs
    <3>3. back[c] = Append(back[b], c)
      BY <1>4, <2>2 DEF Traced
    <3> HIDE DEF b
    <3>4. b \in P
      BY <1>2, <1>5, <3>1, <3>2 DEF Lower
    <3>5. Max({total[d] : d \in E}) = total[b]
      <4>1. \A d \in E : total[d] \in Int
        BY <1>1, <3>1
      <4> DEFINE m == Max({total[d] : d \in E})
      <4>2. PICK y \in E : m = total[y]
        BY <2>2, <3>1, <4>1, LargestIs
      <4>3. \A d \in E : total[d] <= m
        BY <2>2, <3>1, <4>1, LargestIs
      <4> HIDE DEF m
      <4>4. total[y] <= total[b] /\ total[b] <= m /\ total[y] \in Int /\ total[b] \in Int
        BY <3>2, <4>1, <4>2, <4>3
      <4>5. m = total[b]
        BY <4>2, <4>4
      <4> QED
        BY <4>5 DEF m
    <3>6. total[c] = g[c] + total[b]
      BY <1>1, <2>2, <3>5 DEF BestBefore
    <3>7. EndsWith(anchors, total, Append(back[b], c), c)
      <4>1. EndsWith(anchors, total, back[b], b)
        BY <3>4
      <4> QED
        BY <1>1, <3>2, <3>6, <4>1, ChainGrows
    <3> QED
      BY <3>3, <3>7
  <2> QED
    BY <2>1, <2>2
<1>6. D \subseteq P
  <2> HIDE DEF D, P
  <2> QED
    BY <1>2, <1>5, RanksAgree
<1> QED
  BY <1>6 DEF total

(* No matching that ends with a pair weighs more than the pair's total.    *)
LEMMA MatchingsWeighLess ==
  ASSUME NEW anchors \in Seq(Heard)
  PROVE  \A c \in Candidates(anchors) : \A M \in SUBSET Candidates(anchors) :
           IsMatching(M) /\ c \in M /\ (\A d \in M : d = c \/ Before(d, c)) =>
             Total(Gain(anchors), M) <= Heaviest(anchors)[c]
<1> DEFINE D == Candidates(anchors)
           g == Gain(anchors)
           total == Heaviest(anchors)
           Closes(M, c) == IsMatching(M) /\ c \in M /\ \A d \in M : d = c \/ Before(d, c)
           P == {c \in D : \A M \in SUBSET D : Closes(M, c) => Total(g, M) <= total[c]}
<1>1. total \in [D -> Nat]
      /\ \A c \in D : total[c] = g[c] + BestBefore(anchors, total, c) /\ BestBefore(anchors, total, c) \in Nat
  BY HeaviestIs
<1>2. Len(anchors) \in Nat /\ When(anchors) \in [D -> 0 .. Len(anchors)]
      /\ \A c \in D : When(anchors)[c] = c[2]
  BY WhenIs
<1>3. \A c \in D : c[2] \in Nat /\ g[c] \in Nat
  BY CandidatesAre
<1> HIDE DEF total
<1>4. ASSUME NEW c \in D, \A b \in D : When(anchors)[b] < When(anchors)[c] => b \in P PROVE c \in P
  <2> SUFFICES ASSUME NEW M \in SUBSET D, Closes(M, c) PROVE Total(g, M) <= total[c]
    OBVIOUS
  <2> DEFINE R == M \ {c}
             E == Earlier(anchors, c)
  <2>1. Total(g, M) = g[c] + Total(g, R)
    BY GainsAdd
  <2>2. CASE R = {}
    <3>1. Total(g, R) = 0
      BY <2>2, GainsAdd
    <3>2. total[c] = g[c] + BestBefore(anchors, total, c) /\ BestBefore(anchors, total, c) \in Nat /\ g[c] \in Nat
      BY <1>1, <1>3
    <3> HIDE DEF R, g
    <3> QED
      BY <2>1, <3>1, <3>2
  <2>3. CASE R # {}
    <3> DEFINE time == [d \in R |-> d[2]]
    <3>1. IsFiniteSet(R) /\ R \in SUBSET D
      BY CandidatesAre, FS_Subset
    <3>2. \A d \in R : time[d] \in Int /\ time[d] = d[2]
      BY <1>3
    <3>3. \E b \in R : \A d \in R : time[d] <= time[b]
      BY <2>3, <3>1, <3>2, HighestIs
    <3>4. PICK b \in R : \A d \in R : d[2] <= b[2]
      BY <3>2, <3>3
    <3>5. b \in D /\ Before(b, c) /\ b \in E /\ b[2] < c[2]
      BY DEF Before, Earlier, Follows
    <3>6. \A d \in R : d = b \/ Before(d, b)
      <4> TAKE d \in R
      <4>1. d = b \/ Before(d, b) \/ Before(b, d)
        BY DEF IsMatching
      <4>2. ~Before(b, d)
        BY <1>3, <3>1, <3>4 DEF Before
      <4> QED
        BY <4>1, <4>2
    <3>7. Closes(R, b)
      BY <3>6 DEF IsMatching
    <3>8. b \in P
      BY <1>2, <1>4, <3>5
    <3>9. Total(g, R) <= total[b]
      BY <3>1, <3>7, <3>8
    <3>10. total[b] <= BestBefore(anchors, total, c)
      <4>1. IsFiniteSet(E) /\ E \subseteq D /\ E # {}
        BY <3>5, EarlierAre
      <4>2. \A d \in E : total[d] \in Int
        BY <1>1, <4>1
      <4> HIDE DEF E
      <4>3. total[b] <= Max({total[d] : d \in E})
        BY <3>5, <4>1, <4>2, LargestIs
      <4> QED
        BY <4>1, <4>3 DEF BestBefore, E
    <3>11. Total(g, R) \in Int /\ total[b] \in Nat /\ g[c] \in Nat
      BY <1>1, <1>3, <3>1, <3>5, GainsAdd
    <3>12. total[c] = g[c] + BestBefore(anchors, total, c) /\ BestBefore(anchors, total, c) \in Nat
      BY <1>1
    <3> DEFINE best == BestBefore(anchors, total, c)
               rest == Total(g, R)
    <3> HIDE DEF best, rest, R, g
    <3> QED
      BY <2>1, <3>9, <3>10, <3>11, <3>12 DEF best, rest
  <2> QED
    BY <2>2, <2>3
<1>5. D \subseteq P
  <2> HIDE DEF D, P
  <2> QED
    BY <1>2, <1>4, RanksAgree
<1>6. ASSUME NEW c \in D, NEW M \in SUBSET D, Closes(M, c) PROVE Total(g, M) <= total[c]
  <2>1. c \in P
    BY <1>5
  <2> QED
    BY <1>6, <2>1
<1> QED
  BY <1>6 DEF total

(* The weight of a choice of pairs is the sum of what they gain.           *)
LEMMA WeightIs ==
  ASSUME NEW anchors \in Seq(Heard), NEW M \in SUBSET Candidates(anchors)
  PROVE  Weight(M, anchors) = Total(Gain(anchors), M)
<1> DEFINE g == Gain(anchors)
           Folds(f) == f = [s \in SUBSET M |->
                             IF s = {} THEN 0
                             ELSE f[s \ {Pick(s)}] + Score(Pick(s)[1], anchors[Pick(s)[2]])]
           t == CHOOSE f : Folds(f)
<1>1. Summed(g, M)
  BY CandidatesAre, FS_Subset DEF Summed
<1>2. Weight(M, anchors) = t[M]
  BY DEF Weight, FoldSet, MapThenFoldSet, Pick
<1>3. ASSUME NEW f PROVE Folds(f) <=> AddsLeft(f, g, M)
  <2>1. \A s \in SUBSET M : s # {} => g[Pick(s)] = Score(Pick(s)[1], anchors[Pick(s)[2]])
    <3> TAKE s \in SUBSET M
    <3>1. s # {} => Pick(s) \in s
      BY DEF Pick
    <3> QED
      BY <3>1 DEF Gain
  <2> HIDE DEF g
  <2>2. [s \in SUBSET M |-> IF s = {} THEN 0
                            ELSE f[s \ {Pick(s)}] + Score(Pick(s)[1], anchors[Pick(s)[2]])]
          = [s \in SUBSET M |-> IF s = {} THEN 0 ELSE f[s \ {Pick(s)}] + g[Pick(s)]]
    BY <2>1
  <2> QED
    BY <2>2 DEF AddsLeft
<1>4. PICK f : AddsLeft(f, g, M)
  BY <1>1, AddsLeftIs
<1>5. Folds(t)
  <2>1. Folds(f)
    BY <1>3, <1>4
  <2> HIDE DEF Folds
  <2> QED
    BY <2>1
<1> HIDE DEF t
<1>6. AddsLeft(t, g, M)
  <2> HIDE DEF Folds
  <2> QED
    BY <1>3, <1>5
<1>7. t[M] = Total(g, M)
  BY <1>1, <1>6, AddsLeftIs
<1> QED
  BY <1>2, <1>7

LEMMA ChainIsBest ==
  ASSUME NEW anchors \in Seq(Heard)
  PROVE  LET chain == Chain(anchors)
             chosen == ToSet(chain)
         IN /\ chain \in Seq(Candidates(anchors))
            /\ chosen \subseteq Candidates(anchors)
            /\ \A i \in 1 .. (Len(chain) - 1) : Before(chain[i], chain[i + 1])
            /\ \A M \in SUBSET Candidates(anchors) : IsMatching(M) => Weight(M, anchors) <= Weight(chosen, anchors)
<1> DEFINE D == Candidates(anchors)
           g == Gain(anchors)
           total == Heaviest(anchors)
           chain == Chain(anchors)
           chosen == ToSet(chain)
<1>1. PICK back : /\ \A c \in D : back[c] = Traced(anchors, total, back, c)
                  /\ chain = IF D = {} THEN <<>> ELSE back[Top(total, D)]
  BY ChainIs
<1>2. total \in [D -> Nat]
  BY HeaviestIs
<1>3. \A c \in D : EndsWith(anchors, total, back[c], c)
  BY <1>1, ChainsAre
<1>4. CASE D = {}
  <2>1. chain = <<>>
    BY <1>1, <1>4
  <2> HIDE DEF chain
  <2>2. chain \in Seq(D) /\ Len(chain) = 0 /\ chosen = {}
    BY <2>1 DEF ToSet
  <2>3. Weight({}, anchors) = Total(g, {}) /\ Total(g, {}) = 0
    <3>1. {} \in SUBSET D
      OBVIOUS
    <3> QED
      BY <3>1, WeightIs, GainsAdd
  <2>4. \A M \in SUBSET D : M = {}
    BY <1>4
  <2> HIDE DEF D, chosen
  <2>5. \A M \in SUBSET D : Weight(M, anchors) <= Weight(chosen, anchors)
    <3> TAKE M \in SUBSET D
    <3>1. M = {} /\ chosen = {}
      BY <2>2, <2>4
    <3>2. Weight(M, anchors) = 0 /\ Weight(chosen, anchors) = 0
      BY <2>3, <3>1
    <3> QED
      BY <3>2
  <2> QED
    BY <2>2, <2>5 DEF D, chosen, chain
<1>5. CASE D # {}
  <2> DEFINE top == Top(total, D)
  <2>1. D \in SUBSET D
    OBVIOUS
  <2>2. top \in D /\ \A d \in D : total[d] <= total[top]
    <3> HIDE DEF total
    <3> QED
      BY <1>2, <1>5, <2>1, TopIs
  <2>3. EndsWith(anchors, total, chain, top)
    BY <1>1, <1>3, <1>5, <2>2
  <2> HIDE DEF top, total, chain
  <2>4. chain \in Seq(D) /\ (\A i \in 1 .. (Len(chain) - 1) : Before(chain[i], chain[i + 1]))
        /\ Total(g, chosen) = total[top]
    BY <2>3 DEF EndsWith
  <2>5. chosen \in SUBSET D
    BY <2>2, <2>4, MembersAre
  <2>6. Weight(chosen, anchors) = total[top] /\ total[top] \in Nat
    BY <1>2, <2>2, <2>4, <2>5, WeightIs
  <2>7. ASSUME NEW M \in SUBSET D, IsMatching(M) PROVE Weight(M, anchors) <= total[top]
    <3>1. Weight(M, anchors) = Total(g, M)
      BY WeightIs
    <3>2. CASE M = {}
      <4>1. Total(g, M) = 0
        BY <3>2, GainsAdd
      <4> QED
        BY <2>6, <3>1, <4>1
    <3>3. CASE M # {}
      <4> DEFINE time == [d \in M |-> d[2]]
      <4>1. IsFiniteSet(M) /\ \A d \in M : time[d] \in Int /\ time[d] = d[2]
        BY CandidatesAre, FS_Subset
      <4> HIDE DEF time
      <4>2. PICK c \in M : \A d \in M : time[d] <= time[c]
        BY <3>3, <4>1, HighestIs
      <4>3. \A d \in M : d = c \/ Before(d, c)
        <5> TAKE d \in M
        <5>1. d = c \/ Before(d, c) \/ Before(c, d)
          BY <2>7 DEF IsMatching
        <5>2. ~Before(c, d)
          BY <4>1, <4>2 DEF Before
        <5> QED
          BY <5>1, <5>2
      <4>4. c \in D /\ Total(g, M) <= total[c]
        BY <2>7, <4>3, MatchingsWeighLess DEF total
      <4>5. total[c] <= total[top] /\ total[c] \in Nat /\ Total(g, M) \in Int
        BY <1>2, <2>2, <4>4, GainsAdd
      <4> DEFINE x == Total(g, M)
      <4> HIDE DEF x
      <4>6. x <= total[top]
        BY <2>6, <4>4, <4>5 DEF x
      <4> QED
        BY <3>1, <4>6 DEF x
    <3> QED
      BY <3>2, <3>3
  <2> HIDE DEF D, chosen
  <2>8. \A M \in SUBSET D : IsMatching(M) => Weight(M, anchors) <= Weight(chosen, anchors)
    BY <2>6, <2>7
  <2> QED
    BY <2>4, <2>5, <2>8 DEF D, chosen, chain
<1> QED
  BY <1>4, <1>5

(* SAFETY.  For every agenda, whatever numbers are mentioned in a meeting  *)
(* and in which words: the alignment takes candidates only, in the order   *)
(* of the agenda and of time, and no other such choice scores higher       *)
(* (align, AlignmentIsBest).                                               *)
THEOREM NoMatchingIsBetter == MeetingSpec => []AlignmentIsBest
<1>1. MeetingInit => MeetingInv
  BY MeetingStart
<1>2. MeetingInv /\ [MeetingNext]_said => MeetingInv'
  BY MeetingStep
<1>3. MeetingInv => AlignmentIsBest
  <2> SUFFICES ASSUME MeetingInv PROVE AlignmentIsBest
    OBVIOUS
  <2>1. Anchors \in Seq(Heard)
    BY AnchorsAre
  <2> QED
    BY <2>1, ChainIsBest DEF AlignmentIsBest
<1> QED
  BY <1>1, <1>2, <1>3, PTL DEF MeetingSpec

-------------------------------------------------------------------------------
(* THE ITEM OF A SEGMENT                                                   *)

(* Numbers that do not fall from one place to the next.                    *)
LEMMA NeverFalls ==
  ASSUME NEW n \in Nat, NEW f, \A i \in 1 .. n : f[i] \in Int,
         \A i \in 1 .. (n - 1) : f[i] <= f[i + 1]
  PROVE  \A i, j \in 1 .. n : i <= j => f[i] <= f[j]
<1> DEFINE S == {j \in 0 .. n : \A i \in 1 .. j : f[i] <= f[j]}
<1>1. 0 \in S
  OBVIOUS
<1>2. ASSUME NEW j \in 1 .. n, j - 1 \in S PROVE j \in S
  <2> SUFFICES ASSUME NEW i \in 1 .. j PROVE f[i] <= f[j]
    OBVIOUS
  <2>1. CASE i = j
    BY <2>1
  <2>2. CASE i # j
    <3> DEFINE k == j - 1
    <3>1. i \in 1 .. k /\ k \in 1 .. (n - 1) /\ k \in 1 .. n /\ k + 1 = j /\ i \in 1 .. n
      BY <2>2
    <3>2. f[i] <= f[k]
      BY <1>2, <3>1
    <3> HIDE DEF k
    <3>3. f[k] <= f[j] /\ f[i] \in Int /\ f[k] \in Int /\ f[j] \in Int
      BY <3>1
    <3> QED
      BY <3>2, <3>3
  <2> QED
    BY <2>1, <2>2
<1> HIDE DEF S
<1>3. \A j \in 0 .. n : j \in S
  BY <1>1, <1>2, Induct
<1> QED
  BY <1>3 DEF S

(* Items that start with segments, one after the other.                    *)
OneAfterTheOther(aligned) ==
  /\ Len(aligned) \in Nat /\ DOMAIN aligned = 1 .. Len(aligned)
  /\ \A k \in 1 .. Len(aligned) : \E i \in 1 .. Len(said) : aligned[k].start = said[i].ts
  /\ \A j, k \in 1 .. Len(aligned) : j <= k => aligned[j].start <= aligned[k].start
  /\ \A k \in 1 .. Len(aligned) : aligned[k].end = IF k < Len(aligned) THEN aligned[k + 1].start ELSE NoEnd

LEMMA AlignedIs == ASSUME MeetingInv PROVE OneAfterTheOther(Aligned)
<1> DEFINE n == Len(said)
           anchors == Anchors
           chain == Chain(anchors)
           m == Len(chain)
           start(i) == said[anchors[chain[i][2]].segment].ts
           item(i) == [item |-> chain[i][1], start |-> start(i), end |-> IF i < m THEN start(i + 1) ELSE NoEnd]
           aligned == [i \in 1 .. m |-> item(i)]
<1>1. anchors \in Seq(Heard) /\ (\A a \in Heard : a.segment \in 1 .. n)
      /\ \A a, b \in 1 .. Len(anchors) : a <= b => anchors[a].segment <= anchors[b].segment
  BY AnchorsAre
<1>2. n \in Nat /\ \A i \in 1 .. n : said[i].ts \in Nat
  BY TranscriptIs, MentionsAre
<1> HIDE DEF anchors
<1>3. chain \in Seq(Candidates(anchors)) /\ \A i \in 1 .. (m - 1) : Before(chain[i], chain[i + 1])
  BY <1>1, ChainIsBest
<1> DEFINE time == [i \in 1 .. m |-> chain[i][2]]
<1>4. m \in Nat /\ DOMAIN chain = 1 .. m /\ \A i \in 1 .. m : time[i] = chain[i][2] /\ time[i] \in 1 .. Len(anchors)
  <2>1. m \in Nat /\ DOMAIN chain = 1 .. m /\ \A i \in 1 .. m : chain[i] \in Candidates(anchors)
    BY <1>3
  <2> HIDE DEF chain, m
  <2> QED
    BY <1>1, <2>1, CandidatesAre
<1>5. Aligned = aligned
  <2>1. Aligned = [i \in DOMAIN chain |-> item(i)]
    BY DEF Aligned, anchors
  <2> HIDE DEF item, chain
  <2> QED
    BY <1>4, <2>1
<1>6. \A i, j \in 1 .. m : i <= j => time[i] <= time[j]
  <2>1. \A i \in 1 .. m : time[i] \in Int
    BY <1>1, <1>4
  <2>2. \A i \in 1 .. (m - 1) : time[i] <= time[i + 1]
    <3> TAKE i \in 1 .. (m - 1)
    <3>1. i \in 1 .. m /\ i + 1 \in 1 .. m
      BY <1>4
    <3>2. time[i] < time[i + 1]
      <4> HIDE DEF time
      <4> QED
        BY <1>3, <1>4, <3>1 DEF Before
    <3> HIDE DEF time
    <3> QED
      BY <2>1, <3>1, <3>2
  <2> HIDE DEF time, m
  <2> QED
    BY <1>4, <2>1, <2>2, NeverFalls
<1> HIDE DEF chain, m, time
<1>7. ASSUME NEW i \in 1 .. m
      PROVE  /\ start(i) \in Nat /\ \E k \in 1 .. n : start(i) = said[k].ts
             /\ \A j \in 1 .. m : i <= j => start(i) <= start(j)
  <2>1. \A j \in 1 .. m : anchors[chain[j][2]].segment \in 1 .. n
    BY <1>1, <1>4
  <2>2. ASSUME NEW j \in 1 .. m, i <= j PROVE start(i) <= start(j)
    <3>1. time[i] <= time[j] /\ time[i] \in 1 .. Len(anchors) /\ time[j] \in 1 .. Len(anchors)
      BY <1>4, <1>6, <2>2
    <3>2. anchors[time[i]].segment <= anchors[time[j]].segment
      BY <1>1, <3>1
    <3>3. anchors[time[i]].segment \in 1 .. n /\ anchors[time[j]].segment \in 1 .. n
      BY <1>4, <2>1
    <3>4. said[anchors[time[i]].segment].ts <= said[anchors[time[j]].segment].ts
      BY <3>2, <3>3 DEF MeetingInv
    <3> QED
      BY <1>4, <3>4
  <2> QED
    BY <1>2, <2>1, <2>2
<1>8. \A i \in 1 .. m : aligned[i].start = start(i) /\ aligned[i].end = IF i < m THEN start(i + 1) ELSE NoEnd
  OBVIOUS
<1>9. Len(aligned) = m /\ DOMAIN aligned = 1 .. m
  <2> DEFINE D == {item(i) : i \in 1 .. m}
  <2>1. aligned \in [1 .. m -> D]
    OBVIOUS
  <2> HIDE DEF aligned, D
  <2> QED
    BY <1>4, <2>1
<1> HIDE DEF aligned, start
<1>10. OneAfterTheOther(aligned)
  <2>1. \A k \in 1 .. m : k < m => k + 1 \in 1 .. m
    BY <1>4
  <2>2. \A k \in 1 .. m : aligned[k].end = IF k < m THEN aligned[k + 1].start ELSE NoEnd
    BY <1>8, <2>1
  <2>3. \A k \in 1 .. m : \E i \in 1 .. n : aligned[k].start = said[i].ts
    BY <1>7, <1>8
  <2>4. \A j, k \in 1 .. m : j <= k => aligned[j].start <= aligned[k].start
    BY <1>7, <1>8
  <2> QED
    BY <1>4, <1>9, <2>2, <2>3, <2>4 DEF OneAfterTheOther, n
<1> QED
  BY <1>5, <1>10

(* The segments from a time on.                                            *)
LEMMA FirstFromIs ==
  ASSUME MeetingInv, NEW ts \in Int
  PROVE  /\ FirstFrom(ts) \in 1 .. (Len(said) + 1)
         /\ \A i \in 1 .. Len(said) : FirstFrom(ts) <= i <=> ts <= said[i].ts
<1> DEFINE n == Len(said)
           R == {i \in DOMAIN said : said[i].ts >= ts}
           T == R \cup {n + 1}
<1>1. n \in Nat /\ DOMAIN said = 1 .. n /\ \A i \in 1 .. n : said[i].ts \in Nat
  BY TranscriptIs, MentionsAre
<1>2. \A i, j \in 1 .. n : i <= j => said[i].ts <= said[j].ts
  BY DEF MeetingInv
<1> HIDE DEF n
<1>3. T \in SUBSET Int /\ T # {} /\ T \subseteq 1 .. (n + 1)
  BY <1>1
<1>4. IsFiniteSet(T)
  <2>1. IsFiniteSet(1 .. (n + 1))
    BY <1>1, FS_Interval
  <2> HIDE DEF T
  <2> QED
    BY <1>3, <2>1, FS_Subset
<1>5. FirstFrom(ts) = Min(T)
  BY DEF FirstFrom, n
<1>6. Min(T) \in T /\ \A x \in T : Min(T) <= x
  <2> HIDE DEF T
  <2> QED
    BY <1>3, <1>4, LeastIs
<1> DEFINE f == FirstFrom(ts)
<1> HIDE DEF f
<1>7. f \in 1 .. (n + 1) /\ (f = n + 1 \/ said[f].ts >= ts)
  BY <1>3, <1>5, <1>6 DEF f
<1>8. ASSUME NEW i \in 1 .. n PROVE f <= i <=> ts <= said[i].ts
  <2>1. ASSUME ts <= said[i].ts PROVE f <= i
    <3>1. i \in T
      BY <1>1, <2>1
    <3> QED
      BY <1>5, <1>6, <3>1 DEF f
  <2>2. ASSUME f <= i PROVE ts <= said[i].ts
    <3>1. f \in 1 .. n
      BY <1>1, <1>7, <2>2
    <3>2. said[f].ts <= said[i].ts /\ said[f].ts >= ts /\ said[f].ts \in Nat /\ said[i].ts \in Nat
      BY <1>1, <1>2, <1>7, <2>2, <3>1
    <3> QED
      BY <3>2
  <2> QED
    BY <2>1, <2>2
<1> QED
  BY <1>7, <1>8 DEF f, n

(* The items that have started.                                            *)
LEMMA ItemAtIs ==
  ASSUME MeetingInv, NEW aligned, OneAfterTheOther(aligned), NEW ts \in Nat
  PROVE  /\ ItemAt(aligned, ts) \in 0 .. Len(aligned)
         /\ \A k \in 1 .. Len(aligned) : k <= ItemAt(aligned, ts) <=> aligned[k].start <= ts
<1> DEFINE m == Len(aligned)
           R == {k \in DOMAIN aligned : aligned[k].start <= ts}
           T == {0} \cup R
<1>1. m \in Nat /\ DOMAIN aligned = 1 .. m
      /\ \A j, k \in 1 .. m : j <= k => aligned[j].start <= aligned[k].start
  BY DEF OneAfterTheOther
<1>2. \A k \in 1 .. m : aligned[k].start \in Nat
  <2>1. \A k \in 1 .. m : \E i \in 1 .. Len(said) : aligned[k].start = said[i].ts
    BY DEF OneAfterTheOther
  <2> HIDE DEF m
  <2> QED
    BY <2>1, MentionsAre
<1> HIDE DEF m
<1>3. T \in SUBSET Int /\ T # {} /\ T \subseteq 0 .. m
  BY <1>1
<1>4. IsFiniteSet(T)
  <2>1. IsFiniteSet(0 .. m)
    BY <1>1, FS_Interval
  <2> HIDE DEF T
  <2> QED
    BY <1>3, <2>1, FS_Subset
<1>5. Max(T) \in T /\ \A x \in T : x <= Max(T)
  <2> HIDE DEF T
  <2> QED
    BY <1>3, <1>4, GreatestIs
<1> DEFINE a == ItemAt(aligned, ts)
<1>6. a = Max(T)
  BY DEF ItemAt
<1> HIDE DEF a
<1>7. a \in 0 .. m /\ (a = 0 \/ aligned[a].start <= ts)
  BY <1>3, <1>5, <1>6
<1>8. ASSUME NEW k \in 1 .. m PROVE k <= a <=> aligned[k].start <= ts
  <2>1. ASSUME aligned[k].start <= ts PROVE k <= a
    <3>1. k \in T
      BY <1>1, <2>1
    <3> QED
      BY <1>5, <1>6, <3>1
  <2>2. ASSUME k <= a PROVE aligned[k].start <= ts
    <3>1. a \in 1 .. m
      BY <1>1, <1>7, <2>2
    <3>2. aligned[k].start <= aligned[a].start /\ aligned[a].start <= ts
          /\ aligned[k].start \in Nat /\ aligned[a].start \in Nat
      BY <1>1, <1>2, <1>7, <2>2, <3>1
    <3> QED
      BY <3>2
  <2> QED
    BY <2>1, <2>2
<1> QED
  BY <1>7, <1>8 DEF a, m

(* The first segment of an item, and the first one after the last item.    *)
From(aligned, k) == IF k <= Len(aligned) THEN FirstFrom(aligned[k].start) ELSE Len(said) + 1

LEMMA BoundsAre ==
  ASSUME MeetingInv, NEW aligned, OneAfterTheOther(aligned)
  PROVE  /\ Len(aligned) \in Nat /\ DOMAIN Bounds(aligned) = 1 .. Len(aligned)
         /\ \A k \in 1 .. Len(aligned) : /\ Bounds(aligned)[k].from = From(aligned, k)
                                         /\ Bounds(aligned)[k].below = From(aligned, k + 1)
         /\ \A k \in 1 .. (Len(aligned) + 1) : From(aligned, k) \in 1 .. (Len(said) + 1)
         /\ \A k \in 1 .. Len(aligned) : aligned[k].start \in Nat /\ From(aligned, k) <= From(aligned, k + 1)
<1> DEFINE m == Len(aligned)
           n == Len(said)
           bounds == Bounds(aligned)
<1>1. m \in Nat /\ DOMAIN aligned = 1 .. m
      /\ (\A j, k \in 1 .. m : j <= k => aligned[j].start <= aligned[k].start)
      /\ \A k \in 1 .. m : aligned[k].end = IF k < m THEN aligned[k + 1].start ELSE NoEnd
  BY DEF OneAfterTheOther
<1>2. n \in Nat /\ \A i \in 1 .. n : said[i].ts \in Nat
  BY TranscriptIs, MentionsAre
<1>3. \A k \in 1 .. m : aligned[k].start \in Nat
  <2>1. \A k \in 1 .. m : \E i \in 1 .. n : aligned[k].start = said[i].ts
    BY DEF OneAfterTheOther
  <2> HIDE DEF m, n
  <2> QED
    BY <1>2, <2>1
<1>4. \A ts \in Nat : /\ FirstFrom(ts) \in 1 .. (n + 1)
                      /\ \A i \in 1 .. n : FirstFrom(ts) <= i <=> ts <= said[i].ts
  <2> TAKE ts \in Nat
  <2>1. ts \in Int
    OBVIOUS
  <2> QED
    BY <2>1, FirstFromIs
<1> HIDE DEF m, n
<1>5. \A k \in 1 .. (m + 1) : From(aligned, k) \in 1 .. (n + 1)
  <2> TAKE k \in 1 .. (m + 1)
  <2>1. k <= m => k \in 1 .. m
    BY <1>1
  <2>2. k <= m => From(aligned, k) \in 1 .. (n + 1)
    BY <1>3, <1>4, <2>1 DEF From, m
  <2>3. ~(k <= m) => From(aligned, k) = n + 1
    BY DEF From, m, n
  <2> QED
    BY <1>2, <2>2, <2>3
<1>6. ASSUME NEW k \in 1 .. m
      PROVE  bounds[k].from = From(aligned, k) /\ bounds[k].below = From(aligned, k + 1)
  <2>1. bounds[k].from = FirstFrom(aligned[k].start) /\ bounds[k].below = Upper(aligned[k])
    BY <1>1 DEF Bounds
  <2>2. k <= m /\ (k + 1 <= m <=> k < m) /\ (k < m => k + 1 \in 1 .. m)
    BY <1>1
  <2>3. k < m => aligned[k].end = aligned[k + 1].start /\ aligned[k].end # NoEnd
    BY <1>1, <1>3, <2>2 DEF NoEnd
  <2>4. ~(k < m) => aligned[k].end = NoEnd
    BY <1>1
  <2> QED
    BY <2>1, <2>2, <2>3, <2>4 DEF From, Upper, m
<1>7. ASSUME NEW k \in 1 .. m PROVE From(aligned, k) <= From(aligned, k + 1)
  <2>1. k \in 1 .. (m + 1) /\ k + 1 \in 1 .. (m + 1)
    BY <1>1
  <2>2. From(aligned, k) \in 1 .. (n + 1) /\ From(aligned, k + 1) \in 1 .. (n + 1)
    BY <1>5, <2>1
  <2>3. CASE k = m
    <3>1. From(aligned, k + 1) = n + 1
      BY <1>1, <2>3 DEF From, m, n
    <3> QED
      BY <1>2, <2>2, <3>1
  <2>4. CASE k < m
    <3> DEFINE a == aligned[k].start
               b == aligned[k + 1].start
    <3>1. a \in Nat /\ b \in Nat /\ a <= b
      BY <1>1, <1>3, <2>4
    <3>2. From(aligned, k) = FirstFrom(a) /\ From(aligned, k + 1) = FirstFrom(b)
      BY <1>1, <2>4 DEF From, m
    <3> HIDE DEF a, b
    <3>3. FirstFrom(b) \in 1 .. n => FirstFrom(a) <= FirstFrom(b)
      <4> SUFFICES ASSUME NEW i \in 1 .. n, FirstFrom(b) = i PROVE FirstFrom(a) <= i
        OBVIOUS
      <4>1. b <= said[i].ts /\ said[i].ts \in Nat
        BY <1>2, <1>4, <3>1
      <4>2. a <= said[i].ts
        BY <3>1, <4>1
      <4> QED
        BY <1>4, <3>1, <4>2
    <3> QED
      BY <1>2, <2>2, <3>2, <3>3
  <2> QED
    BY <1>1, <2>3, <2>4
<1>8. DOMAIN bounds = 1 .. m
  BY <1>1 DEF Bounds
<1> QED
  BY <1>1, <1>3, <1>5, <1>6, <1>7, <1>8 DEF m, n

(* A segment is in the bounds of the item of its time.                     *)
LEMMA WithinIs ==
  ASSUME MeetingInv, NEW aligned, OneAfterTheOther(aligned), NEW i \in 1 .. Len(said)
  PROVE  Within(Bounds(aligned), i) = {ItemAt(aligned, said[i].ts)} \ {0}
<1> DEFINE m == Len(aligned)
           ts == said[i].ts
           a == ItemAt(aligned, ts)
           bounds == Bounds(aligned)
<1>1. ts \in Nat /\ i \in Nat
  BY TranscriptIs, MentionsAre
<1>2. a \in 0 .. m /\ \A k \in 1 .. m : k <= a <=> aligned[k].start <= ts
  BY <1>1, ItemAtIs
<1>3. /\ m \in Nat /\ DOMAIN bounds = 1 .. m /\ \A k \in 1 .. m : aligned[k].start \in Nat
      /\ \A k \in 1 .. m : bounds[k].from = From(aligned, k) /\ bounds[k].below = From(aligned, k + 1)
      /\ \A k \in 1 .. (m + 1) : From(aligned, k) \in 1 .. (Len(said) + 1)
  BY BoundsAre
<1> HIDE DEF a
<1>4. ASSUME NEW k \in 1 .. (m + 1) PROVE From(aligned, k) <= i <=> k <= a
  <2>1. CASE k = m + 1
    <3>1. From(aligned, k) = Len(said) + 1 /\ ~(k <= a)
      BY <1>2, <1>3, <2>1 DEF From
    <3>2. Len(said) \in Nat
      BY TranscriptIs
    <3> QED
      BY <3>1, <3>2
  <2>2. CASE k # m + 1
    <3>1. k \in 1 .. m
      BY <1>3, <2>2
    <3>2. From(aligned, k) = FirstFrom(aligned[k].start) /\ aligned[k].start \in Int
      BY <1>3, <3>1 DEF From
    <3>3. From(aligned, k) <= i <=> aligned[k].start <= ts
      BY <3>2, FirstFromIs
    <3> QED
      BY <1>2, <3>1, <3>3
  <2> QED
    BY <2>1, <2>2
<1> HIDE DEF m
<1>5. ASSUME NEW k \in 1 .. m
      PROVE  bounds[k].from <= i /\ i < bounds[k].below <=> k = a
  <2>1. k \in 1 .. (m + 1) /\ k + 1 \in 1 .. (m + 1)
    BY <1>3
  <2>2. bounds[k].from <= i <=> k <= a
    BY <1>3, <1>4, <2>1
  <2>3. bounds[k].below <= i <=> k + 1 <= a
    BY <1>3, <1>4, <2>1
  <2>4. bounds[k].below \in Int
    BY <1>3, <2>1
  <2> QED
    BY <1>1, <1>2, <2>2, <2>3, <2>4
<1>6. Within(bounds, i) = {k \in 1 .. m : k = a}
  BY <1>3, <1>5 DEF Within
<1> HIDE DEF bounds
<1> QED
  BY <1>2, <1>3, <1>6 DEF a, bounds

-------------------------------------------------------------------------------
(* THE SECONDS AND THE SPEAKERS OF AN ITEM                                 *)

(* Differences add up.                                                     *)
LEMMA Telescope ==
  ASSUME NEW n \in Nat, NEW clock, \A i \in 1 .. (n + 1) : clock[i] \in Int,
         NEW g, \A i \in 1 .. n : g[i] = clock[i + 1] - clock[i],
         NEW a \in 1 .. (n + 1)
  PROVE  \A b \in 1 .. (n + 1) : a <= b => Total(g, a .. (b - 1)) = clock[b] - clock[a]
<1> DEFINE S == {b \in 0 .. (n + 1) : a <= b => Total(g, a .. (b - 1)) = clock[b] - clock[a]}
<1>1. 0 \in S
  OBVIOUS
<1>2. ASSUME NEW b \in 1 .. (n + 1), b - 1 \in S PROVE b \in S
  <2> SUFFICES ASSUME a <= b PROVE Total(g, a .. (b - 1)) = clock[b] - clock[a]
    OBVIOUS
  <2>1. CASE a = b
    <3>1. a .. (b - 1) = {} /\ clock[b] - clock[a] = 0
      BY <2>1
    <3>2. Summed(g, {})
      BY FS_EmptySet DEF Summed
    <3>3. Total(g, {}) = 0
      BY <3>2, TotalWithout
    <3> QED
      BY <3>1, <3>3
  <2>2. CASE a < b
    <3> DEFINE c == b - 1
               all == a .. c
               rest == a .. (c - 1)
    <3>1. c \in 1 .. n /\ c + 1 = b /\ a <= c /\ c \in 1 .. (n + 1)
      BY <2>2
    <3>2. Total(g, rest) = clock[c] - clock[a]
      BY <1>2, <3>1
    <3>3. all \in SUBSET (1 .. n) /\ c \in all /\ all \ {c} = rest
      BY <3>1
    <3>4. Summed(g, 1 .. n)
      <4>1. \A i \in 1 .. n : g[i] \in Int
        <5> TAKE i \in 1 .. n
        <5>1. i \in 1 .. (n + 1) /\ i + 1 \in 1 .. (n + 1)
          OBVIOUS
        <5> QED
          BY <5>1
      <4> QED
        BY <4>1, FS_Interval DEF Summed
    <3>5. Total(g, all) = g[c] + Total(g, rest)
      <4> DEFINE N == 1 .. n
      <4>1. Summed(g, N) /\ all \in SUBSET N /\ c \in all /\ all \ {c} = rest
        BY <3>3, <3>4
      <4> HIDE DEF all, rest, c, N
      <4>2. Total(g, all) = g[c] + Total(g, all \ {c})
        BY <4>1, TotalWithout
      <4> QED
        BY <4>1, <4>2
    <3>6. g[c] = clock[b] - clock[c] /\ clock[a] \in Int /\ clock[b] \in Int /\ clock[c] \in Int
      BY <3>1
    <3> HIDE DEF rest, c
    <3>7. Total(g, all) = clock[b] - clock[a]
      BY <3>2, <3>5, <3>6
    <3> QED
      BY <3>7 DEF c
  <2> QED
    BY <2>1, <2>2
<1> HIDE DEF S
<1>3. \A b \in 0 .. (n + 1) : b \in S
  BY <1>1, <1>2, Induct
<1> QED
  BY <1>3 DEF S

(* How long the segments last, and the clock they are told by.             *)
Lasting == [i \in 1 .. Len(said) |-> Lasts(i)]
Clock == [i \in 1 .. (Len(said) + 1) |-> IF i <= Len(said) THEN said[i].ts ELSE said[Len(said)].ts]

LEMMA ClockIs ==
  ASSUME MeetingInv, Len(said) # 0
  PROVE  /\ \A i \in 1 .. (Len(said) + 1) : Clock[i] \in Int
         /\ \A i \in 1 .. Len(said) : Lasting[i] = Clock[i + 1] - Clock[i] /\ Lasting[i] \in Int
<1> DEFINE n == Len(said)
<1>1. n \in Nat /\ n \in 1 .. n /\ \A i \in 1 .. n : said[i].ts \in Nat
  BY TranscriptIs, MentionsAre
<1> HIDE DEF n
<1>2. \A i \in 1 .. (n + 1) : Clock[i] \in Int
  <2> TAKE i \in 1 .. (n + 1)
  <2>1. Clock[i] = IF i <= n THEN said[i].ts ELSE said[n].ts
    BY DEF Clock, n
  <2>2. i <= n => i \in 1 .. n
    BY <1>1
  <2> QED
    BY <1>1, <2>1, <2>2
<1>3. ASSUME NEW i \in 1 .. n PROVE Lasting[i] = Clock[i + 1] - Clock[i] /\ Lasting[i] \in Int
  <2>1. Lasting[i] = IF i < n THEN said[i + 1].ts - said[i].ts ELSE 0
    BY DEF Lasting, Lasts, n
  <2>2. i \in 1 .. (n + 1) /\ i + 1 \in 1 .. (n + 1) /\ i <= n /\ (i + 1 <= n <=> i < n) /\ (~(i < n) => i = n)
    BY <1>1
  <2>3. Clock[i] = said[i].ts /\ Clock[i + 1] = IF i < n THEN said[i + 1].ts ELSE said[n].ts
    BY <2>2 DEF Clock, n
  <2>4. Clock[i] \in Int /\ Clock[i + 1] \in Int
    BY <1>2, <2>2
  <2>5. CASE i < n
    BY <2>1, <2>3, <2>4, <2>5
  <2>6. CASE ~(i < n)
    <3>1. Clock[i + 1] = Clock[i] /\ Lasting[i] = 0
      BY <2>1, <2>2, <2>3, <2>6
    <3> QED
      BY <2>4, <3>1
  <2> QED
    BY <2>5, <2>6
<1> QED
  BY <1>2, <1>3 DEF n

LEMMA SecondsAre ==
  ASSUME MeetingInv, Len(said) # 0, NEW role, NEW roles, NEW a \in Int, NEW b \in Int,
         a .. (b - 1) \subseteq 1 .. Len(said)
  PROVE  /\ RoleSeconds(role, a, b, roles) = Total(Lasting, {i \in a .. (b - 1) : roles[i] = role})
         /\ Summed(Lasting, a .. (b - 1))
<1> DEFINE M == {i \in a .. (b - 1) : roles[i] = role}
           Folds(f) == f = [s \in SUBSET M |-> IF s = {} THEN 0 ELSE f[s \ {Pick(s)}] + Lasts(Pick(s))]
           t == CHOOSE f : Folds(f)
<1>1. Summed(Lasting, a .. (b - 1))
  BY ClockIs, FS_Interval DEF Summed
<1>2. Summed(Lasting, M)
  <2>1. M \subseteq a .. (b - 1)
    OBVIOUS
  <2> HIDE DEF M
  <2> QED
    BY <1>1, <2>1, FS_Subset DEF Summed
<1>3. RoleSeconds(role, a, b, roles) = t[M]
  BY DEF RoleSeconds, FoldSet, MapThenFoldSet, Pick
<1>4. ASSUME NEW f PROVE Folds(f) <=> AddsLeft(f, Lasting, M)
  <2>1. \A s \in SUBSET M : s # {} => Lasting[Pick(s)] = Lasts(Pick(s))
    <3> TAKE s \in SUBSET M
    <3>1. s # {} => Pick(s) \in s
      BY DEF Pick
    <3> QED
      BY <3>1 DEF Lasting
  <2> HIDE DEF M
  <2>2. [s \in SUBSET M |-> IF s = {} THEN 0 ELSE f[s \ {Pick(s)}] + Lasts(Pick(s))]
          = [s \in SUBSET M |-> IF s = {} THEN 0 ELSE f[s \ {Pick(s)}] + Lasting[Pick(s)]]
    BY <2>1
  <2> QED
    BY <2>2 DEF AddsLeft
<1>5. PICK f : AddsLeft(f, Lasting, M)
  BY <1>2, AddsLeftIs
<1>6. Folds(t)
  <2>1. Folds(f)
    BY <1>4, <1>5
  <2> HIDE DEF Folds
  <2> QED
    BY <2>1
<1> HIDE DEF t, M
<1>7. AddsLeft(t, Lasting, M)
  <2> HIDE DEF Folds
  <2> QED
    BY <1>4, <1>6
<1>8. t[M] = Total(Lasting, M)
  BY <1>2, <1>7, AddsLeftIs
<1> QED
  BY <1>1, <1>3, <1>8 DEF M

(* The seconds of all three roles are those of the range.                  *)
LEMMA RolesFillTheRange ==
  ASSUME MeetingInv, Len(said) # 0, NEW roles, \A i \in 1 .. Len(said) : roles[i] \in Role,
         NEW a \in 1 .. (Len(said) + 1), NEW b \in 1 .. (Len(said) + 1), a <= b
  PROVE  RoleSeconds("agenda_reading", a, b, roles) + RoleSeconds("public_comment", a, b, roles)
           + RoleSeconds("official", a, b, roles) = Clock[b] - Clock[a]
<1> DEFINE n == Len(said)
           R == a .. (b - 1)
           M(role) == {i \in R : roles[i] = role}
           A == M("agenda_reading")
           P == M("public_comment")
           O == M("official")
<1>1. n \in Nat
  BY TranscriptIs
<1>2. R \subseteq 1 .. n /\ a \in Int /\ b \in Int
  BY <1>1
<1>3. /\ RoleSeconds("agenda_reading", a, b, roles) = Total(Lasting, A)
      /\ RoleSeconds("public_comment", a, b, roles) = Total(Lasting, P)
      /\ RoleSeconds("official", a, b, roles) = Total(Lasting, O)
      /\ Summed(Lasting, R)
  BY <1>2, SecondsAre
<1>4. R = (A \cup P) \cup O /\ (A \cup P) \cap O = {} /\ A \cap P = {}
  BY <1>2 DEF Role
<1>5. Total(Lasting, R) = Clock[b] - Clock[a]
  BY <1>1, ClockIs, Telescope
<1> HIDE DEF A, P, O, R
<1>6. A \cup P \in SUBSET R
  BY <1>4
<1>7. Summed(Lasting, A \cup P)
  BY <1>3, <1>6, FS_Subset DEF Summed
<1>8. Total(Lasting, A \cup P) = Total(Lasting, A) + Total(Lasting, P)
  BY <1>4, <1>7, TotalOfBoth
<1>9. Total(Lasting, R) = Total(Lasting, A \cup P) + Total(Lasting, O)
  <2> DEFINE Q == A \cup P
  <2>1. R = Q \cup O /\ Q \cap O = {} /\ Summed(Lasting, Q \cup O)
    BY <1>3, <1>4
  <2> HIDE DEF Q
  <2> QED
    BY <2>1, TotalOfBoth DEF Q
<1> QED
  BY <1>3, <1>5, <1>8, <1>9

LEMMA ItemSecondsAre ==
  ASSUME MeetingInv, NEW aligned, OneAfterTheOther(aligned), NEW roles, \A i \in 1 .. Len(said) : roles[i] \in Role
  PROVE  SecondsAddUp(aligned, Bounds(aligned), roles)
<1> DEFINE m == Len(aligned)
           n == Len(said)
           bounds == Bounds(aligned)
<1>1. /\ m \in Nat /\ DOMAIN aligned = 1 .. m
      /\ \A k \in 1 .. m : \E i \in 1 .. n : aligned[k].start = said[i].ts
  BY DEF OneAfterTheOther
<1>2. n \in Nat /\ \A i \in 1 .. n : said[i].ts \in Nat
  BY TranscriptIs, MentionsAre
<1>3. /\ \A k \in 1 .. m : bounds[k].from = From(aligned, k) /\ bounds[k].below = From(aligned, k + 1)
      /\ \A k \in 1 .. (m + 1) : From(aligned, k) \in 1 .. (n + 1)
      /\ \A k \in 1 .. m : aligned[k].start \in Nat /\ From(aligned, k) <= From(aligned, k + 1)
  BY BoundsAre
<1> HIDE DEF m, bounds
<1>4. ASSUME NEW k \in 1 .. m PROVE Clock[From(aligned, k)] = aligned[k].start
  <2> DEFINE f == FirstFrom(aligned[k].start)
  <2>1. PICK i \in 1 .. n : aligned[k].start = said[i].ts
    BY <1>1
  <2>2. aligned[k].start \in Int
    BY <1>3
  <2>3. f \in 1 .. (n + 1) /\ \A j \in 1 .. n : f <= j <=> aligned[k].start <= said[j].ts
    BY <2>2, FirstFromIs
  <2> HIDE DEF f
  <2>4. f <= i
    BY <1>2, <2>1, <2>3
  <2>5. f \in 1 .. n
    BY <1>2, <2>3, <2>4
  <2>6. aligned[k].start <= said[f].ts
    BY <1>2, <2>3, <2>5
  <2>7. said[f].ts <= said[i].ts
    BY <2>4, <2>5 DEF MeetingInv
  <2>8. said[f].ts = aligned[k].start
    BY <1>2, <2>1, <2>2, <2>5, <2>6, <2>7
  <2>9. Clock[f] = said[f].ts
    BY <1>2, <2>5 DEF Clock
  <2>10. From(aligned, k) = f
    BY <1>1 DEF From, m, f
  <2> QED
    BY <2>8, <2>9, <2>10
<1>5. ASSUME NEW k \in 1 .. m
      PROVE  LET end == IF k < m THEN aligned[k + 1].start ELSE Last(said).ts
                 seconds(role) == RoleSeconds(role, bounds[k].from, bounds[k].below, roles)
             IN seconds("agenda_reading") + seconds("public_comment") + seconds("official") = end - aligned[k].start
  <2> DEFINE a == From(aligned, k)
             b == From(aligned, k + 1)
             end == IF k < m THEN aligned[k + 1].start ELSE Last(said).ts
  <2>1. k \in 1 .. (m + 1) /\ k + 1 \in 1 .. (m + 1)
    BY <1>1
  <2>2. a \in 1 .. (n + 1) /\ b \in 1 .. (n + 1) /\ a <= b /\ bounds[k].from = a /\ bounds[k].below = b
    BY <1>3, <2>1
  <2>3. n # 0
    BY <1>1
  <2>4. RoleSeconds("agenda_reading", a, b, roles) + RoleSeconds("public_comment", a, b, roles)
          + RoleSeconds("official", a, b, roles) = Clock[b] - Clock[a]
    <3> HIDE DEF a, b
    <3> QED
      BY <2>2, <2>3, RolesFillTheRange
  <2>5. Clock[a] = aligned[k].start
    BY <1>4
  <2>6. Clock[b] = end
    <3>1. CASE k < m
      <4>1. k + 1 \in 1 .. m
        BY <1>1, <3>1
      <4> QED
        BY <1>4, <3>1, <4>1
    <3>2. CASE ~(k < m)
      <4>1. ~(k + 1 <= m)
        BY <1>1, <3>2
      <4>2. b = n + 1
        BY <4>1 DEF From, m
      <4>3. Clock[n + 1] = said[n].ts
        BY <1>2 DEF Clock
      <4> QED
        BY <3>2, <4>2, <4>3 DEF Last
    <3> QED
      BY <3>1, <3>2
  <2> HIDE DEF a, b
  <2> QED
    BY <2>2, <2>4, <2>5, <2>6
<1> QED
  BY <1>1, <1>5 DEF SecondsAddUp, m, bounds

(* The introductions of each segment.                                      *)
Introductions == [i \in 1 .. Len(said) |-> Len(SelectSeq(said[i].cues, LAMBDA c : c = "in"))]

LEMMA CommentStartsAre ==
  ASSUME MeetingInv, NEW roles, NEW a \in Int, NEW b \in Int, a .. (b - 1) \subseteq 1 .. Len(said)
  PROVE  /\ CommentStarts(a, b, roles) = Total(Introductions, {i \in a .. (b - 1) : roles[i] = "public_comment"})
         /\ Summed(Introductions, {i \in a .. (b - 1) : roles[i] = "public_comment"})
<1> DEFINE M == {i \in a .. (b - 1) : roles[i] = "public_comment"}
           Folds(f) == f = [s \in SUBSET M |->
                             IF s = {} THEN 0
                             ELSE Len(SelectSeq(said[Pick(s)].cues, LAMBDA c : c = "in")) + f[s \ {Pick(s)}]]
           t == CHOOSE f : Folds(f)
<1>1. Summed(Introductions, M)
  <2>1. IsFiniteSet(M)
    <3> DEFINE R == a .. (b - 1)
    <3>1. IsFiniteSet(R) /\ M \subseteq R
      BY FS_Interval
    <3> HIDE DEF R, M
    <3> QED
      BY <3>1, FS_Subset
  <2>2. \A i \in 1 .. Len(said) : Introductions[i] \in Int
    <3> TAKE i \in 1 .. Len(said)
    <3>1. said[i].cues \in Seq(Cue)
      BY TranscriptIs
    <3>2. Len(SelectSeq(said[i].cues, LAMBDA c : c = "in")) \in Nat
      BY <3>1
    <3> QED
      BY <3>2 DEF Introductions
  <2> QED
    BY <2>1, <2>2 DEF Summed
<1>2. CommentStarts(a, b, roles) = t[M]
  BY DEF CommentStarts, MapThenSumSet, MapThenFoldSet, Pick
<1>3. ASSUME NEW f PROVE Folds(f) <=> AddsRight(f, Introductions, M)
  <2>1. \A s \in SUBSET M : s # {} =>
          Introductions[Pick(s)] = Len(SelectSeq(said[Pick(s)].cues, LAMBDA c : c = "in"))
    <3> TAKE s \in SUBSET M
    <3>1. s # {} => Pick(s) \in s
      BY DEF Pick
    <3> QED
      BY <3>1 DEF Introductions
  <2> HIDE DEF M
  <2>2. [s \in SUBSET M |-> IF s = {} THEN 0
                            ELSE Len(SelectSeq(said[Pick(s)].cues, LAMBDA c : c = "in")) + f[s \ {Pick(s)}]]
          = [s \in SUBSET M |-> IF s = {} THEN 0 ELSE Introductions[Pick(s)] + f[s \ {Pick(s)}]]
    BY <2>1
  <2> QED
    BY <2>2 DEF AddsRight
<1>4. PICK f : AddsRight(f, Introductions, M)
  BY <1>1, AddsRightIs
<1>5. Folds(t)
  <2>1. Folds(f)
    BY <1>3, <1>4
  <2> HIDE DEF Folds
  <2> QED
    BY <2>1
<1> HIDE DEF t, M
<1>6. AddsRight(t, Introductions, M)
  <2> HIDE DEF Folds
  <2> QED
    BY <1>3, <1>5
<1>7. t[M] = Total(Introductions, M)
  BY <1>1, <1>6, AddsRightIs
<1> QED
  BY <1>1, <1>2, <1>7 DEF M

(* Two ranges that meet.                                                   *)
LEMMA CommentStartsAdd ==
  ASSUME MeetingInv, NEW roles, NEW a \in 1 .. (Len(said) + 1), NEW b \in 1 .. (Len(said) + 1),
         NEW c \in 1 .. (Len(said) + 1), a <= b, b <= c
  PROVE  /\ CommentStarts(a, c, roles) = CommentStarts(a, b, roles) + CommentStarts(b, c, roles)
         /\ CommentStarts(a, b, roles) \in Int
         /\ CommentStarts(a, a, roles) = 0
<1> DEFINE n == Len(said)
           M(i, j) == {k \in i .. (j - 1) : roles[k] = "public_comment"}
           g == Introductions
<1>1. n \in Nat
  BY TranscriptIs
<1>2. a .. (b - 1) \subseteq 1 .. n /\ b .. (c - 1) \subseteq 1 .. n /\ a .. (c - 1) \subseteq 1 .. n
      /\ a .. (a - 1) \subseteq 1 .. n /\ a \in Int /\ b \in Int /\ c \in Int
  BY <1>1
<1> HIDE DEF n, g
<1>3. /\ CommentStarts(a, b, roles) = Total(g, M(a, b)) /\ Summed(g, M(a, b))
      /\ CommentStarts(b, c, roles) = Total(g, M(b, c))
      /\ CommentStarts(a, c, roles) = Total(g, M(a, c)) /\ Summed(g, M(a, c))
      /\ CommentStarts(a, a, roles) = Total(g, M(a, a))
  <2>1. ASSUME NEW i \in Int, NEW j \in Int, i .. (j - 1) \subseteq 1 .. n
        PROVE  CommentStarts(i, j, roles) = Total(g, M(i, j)) /\ Summed(g, M(i, j))
    BY <2>1, CommentStartsAre DEF n, g
  <2> HIDE DEF M
  <2> QED
    BY <1>2, <2>1
<1>4. M(a, c) = M(a, b) \cup M(b, c) /\ M(a, b) \cap M(b, c) = {} /\ M(a, a) = {}
  BY <1>2
<1> HIDE DEF M
<1>5. Total(g, M(a, c)) = Total(g, M(a, b)) + Total(g, M(b, c))
  <2> DEFINE A == M(a, b)
             B == M(b, c)
  <2>1. A \cap B = {} /\ Summed(g, A \cup B) /\ M(a, c) = A \cup B
    BY <1>3, <1>4
  <2> HIDE DEF A, B
  <2> QED
    BY <2>1, TotalOfBoth DEF A, B
<1>6. Total(g, M(a, b)) \in Int /\ Total(g, M(a, a)) = 0
  <2> DEFINE A == M(a, b)
  <2>1. A \in SUBSET A /\ Summed(g, A)
    BY <1>3
  <2> HIDE DEF A
  <2>2. Total(g, A) \in Int /\ Total(g, {}) = 0
    BY <2>1, TotalWithout
  <2> QED
    BY <1>4, <2>2 DEF A
<1> QED
  BY <1>3, <1>5, <1>6

LEMMA SpeakersAre ==
  ASSUME MeetingInv, NEW aligned, OneAfterTheOther(aligned), NEW roles
  PROVE  SpeakersCountedOnce(Bounds(aligned), roles)
<1> DEFINE m == Len(aligned)
           n == Len(said)
           bounds == Bounds(aligned)
           count(k) == CommentStarts(bounds[k].from, bounds[k].below, roles)
           g == [k \in 1 .. m |-> count(k)]
           M == DOMAIN bounds
           Folds(f) == f = [s \in SUBSET M |-> IF s = {} THEN 0 ELSE count(Pick(s)) + f[s \ {Pick(s)}]]
           t == CHOOSE f : Folds(f)
<1> SUFFICES ASSUME bounds # <<>>
             PROVE  MapThenSumSet(LAMBDA k : CommentStarts(bounds[k].from, bounds[k].below, roles), M)
                      = CommentStarts(bounds[1].from, n + 1, roles)
  BY DEF SpeakersCountedOnce
<1>1. MapThenSumSet(LAMBDA k : CommentStarts(bounds[k].from, bounds[k].below, roles), M) = t[M]
  BY DEF MapThenSumSet, MapThenFoldSet, Pick
<1>2. /\ m \in Nat /\ M = 1 .. m
      /\ \A k \in 1 .. m : bounds[k].from = From(aligned, k) /\ bounds[k].below = From(aligned, k + 1)
      /\ \A k \in 1 .. (m + 1) : From(aligned, k) \in 1 .. (n + 1)
      /\ \A k \in 1 .. m : From(aligned, k) <= From(aligned, k + 1)
  BY BoundsAre
<1>3. n \in Nat
  BY TranscriptIs
<1>4. m # 0 /\ From(aligned, m + 1) = n + 1
  <2>1. m # 0
    <3> SUFFICES ASSUME m = 0 PROVE FALSE
      OBVIOUS
    <3>1. Len(aligned) = 0 /\ DOMAIN aligned = {}
      BY <1>2 DEF OneAfterTheOther
    <3>2. bounds = [k \in {} |-> [from |-> FirstFrom(aligned[k].start), below |-> Upper(aligned[k])]]
      BY <3>1 DEF Bounds
    <3>3. bounds = <<>>
      BY <3>2
    <3> QED
      BY <3>3
  <2>2. ~(m + 1 <= m)
    BY <1>2
  <2> QED
    BY <2>1, <2>2 DEF From
<1> HIDE DEF m, n, bounds
<1>5. \A k \in 1 .. m : g[k] = CommentStarts(From(aligned, k), From(aligned, k + 1), roles) /\ g[k] \in Int
  <2> TAKE k \in 1 .. m
  <2> DEFINE a == From(aligned, k)
             b == From(aligned, k + 1)
  <2>1. k \in 1 .. (m + 1) /\ k + 1 \in 1 .. (m + 1)
    BY <1>2
  <2>2. a \in 1 .. (n + 1) /\ b \in 1 .. (n + 1) /\ a <= b /\ b <= b /\ g[k] = CommentStarts(a, b, roles)
    BY <1>2, <1>3, <2>1
  <2> HIDE DEF a, b, g
  <2>3. CommentStarts(a, b, roles) \in Int
    BY <2>2, CommentStartsAdd DEF n
  <2> QED
    BY <2>2, <2>3 DEF a, b
<1>6. Summed(g, 1 .. m)
  <2> HIDE DEF g
  <2> QED
    BY <1>2, <1>5, FS_Interval DEF Summed
<1>7. t[M] = Total(g, M)
  <2>1. ASSUME NEW f PROVE Folds(f) <=> AddsRight(f, g, M)
    <3>1. \A s \in SUBSET M : s # {} => g[Pick(s)] = count(Pick(s))
      <4> TAKE s \in SUBSET M
      <4>1. s # {} => Pick(s) \in s
        BY DEF Pick
      <4> QED
        BY <1>2, <4>1
    <3> HIDE DEF M, g, count
    <3>2. [s \in SUBSET M |-> IF s = {} THEN 0 ELSE count(Pick(s)) + f[s \ {Pick(s)}]]
            = [s \in SUBSET M |-> IF s = {} THEN 0 ELSE g[Pick(s)] + f[s \ {Pick(s)}]]
      BY <3>1
    <3> QED
      BY <3>2 DEF AddsRight
  <2> HIDE DEF g, M
  <2>2. Summed(g, M)
    BY <1>2, <1>6
  <2>3. PICK f : AddsRight(f, g, M)
    BY <2>2, AddsRightIs
  <2>4. Folds(f)
    BY <2>1, <2>3
  <2> HIDE DEF Folds
  <2>5. Folds(t)
    BY <2>4
  <2> HIDE DEF t
  <2>6. AddsRight(t, g, M)
    BY <2>1, <2>5
  <2> QED
    BY <2>2, <2>6, AddsRightIs
<1> DEFINE S == {k \in 0 .. m : Total(g, 1 .. k) = CommentStarts(From(aligned, 1), From(aligned, k + 1), roles)}
<1> HIDE DEF g
<1>8. 0 \in S
  <2> DEFINE a == From(aligned, 1)
  <2>1. 1 \in 1 .. (m + 1)
    BY <1>2
  <2>2. a \in 1 .. (n + 1) /\ a <= a
    BY <1>2, <1>3, <2>1
  <2> HIDE DEF a
  <2>3. CommentStarts(a, a, roles) = 0
    BY <2>2, CommentStartsAdd DEF n
  <2>4. 1 .. 0 = {} /\ Total(g, {}) = 0
    BY <1>6, TotalWithout
  <2> QED
    BY <1>2, <2>3, <2>4 DEF a
<1>9. ASSUME NEW k \in 1 .. m, k - 1 \in S PROVE k \in S
  <2> DEFINE a == From(aligned, 1)
             b == From(aligned, k)
             c == From(aligned, k + 1)
             all == 1 .. k
             rest == 1 .. (k - 1)
             N == 1 .. m
  <2>1. 1 \in 1 .. (m + 1) /\ k \in 1 .. (m + 1) /\ k + 1 \in 1 .. (m + 1) /\ k \in 0 .. m
    BY <1>2
  <2>2. Total(g, all) = g[k] + Total(g, rest)
    BY <1>2, <1>6, TotalUpTo
  <2>3. Total(g, rest) = CommentStarts(a, b, roles)
    BY <1>9
  <2>4. a \in 1 .. (n + 1) /\ b \in 1 .. (n + 1) /\ c \in 1 .. (n + 1) /\ b <= c
    BY <1>2, <2>1
  <2>5. a <= b
    <3> DEFINE f == [j \in N |-> From(aligned, j)]
    <3>1. \A j \in 1 .. m : f[j] \in Int
      <4> TAKE j \in 1 .. m
      <4>1. j \in 1 .. (m + 1)
        BY <1>2
      <4> QED
        BY <1>2, <4>1
    <3>2. \A j \in 1 .. (m - 1) : f[j] <= f[j + 1]
      <4> TAKE j \in 1 .. (m - 1)
      <4>1. j \in 1 .. m /\ j + 1 \in 1 .. m
        BY <1>2
      <4> QED
        BY <1>2, <4>1
    <3>3. f[1] = a /\ f[k] = b /\ 1 \in 1 .. m /\ 1 <= k
      BY <1>2, <1>4
    <3> HIDE DEF f, a, b
    <3> QED
      BY <1>2, <3>1, <3>2, <3>3, NeverFalls
  <2> HIDE DEF a, b, c, all, rest, N
  <2>7. CommentStarts(a, c, roles) = CommentStarts(a, b, roles) + CommentStarts(b, c, roles)
        /\ CommentStarts(a, b, roles) \in Int
    BY <2>4, <2>5, CommentStartsAdd DEF n
  <2>8. g[k] = CommentStarts(b, c, roles) /\ g[k] \in Int
    BY <1>5 DEF b, c
  <2>9. Total(g, all) = CommentStarts(a, c, roles)
    BY <2>2, <2>3, <2>7, <2>8
  <2> QED
    BY <2>1, <2>9 DEF a, c, all
<1> HIDE DEF S
<1>10. m \in S
  <2>1. \A k \in 0 .. m : k \in S
    BY <1>2, <1>8, <1>9, Induct
  <2> QED
    BY <1>2, <2>1
<1>11. Total(g, M) = CommentStarts(From(aligned, 1), n + 1, roles)
  BY <1>2, <1>4, <1>10 DEF S
<1>12. bounds[1].from = From(aligned, 1)
  BY <1>2, <1>4
<1> QED
  BY <1>1, <1>7, <1>11, <1>12

-------------------------------------------------------------------------------
(* THE RESPONSE TO A CLAIM, AND THE PASSAGE IT IS MADE IN                  *)

LEMMA ResponsesAre ==
  ASSUME MeetingInv, NEW aligned, OneAfterTheOther(aligned), NEW roles
  PROVE  ResponsesAnswer(Bounds(aligned), roles)
<1> DEFINE n == Len(said)
           m == Len(aligned)
           bounds == Bounds(aligned)
<1>1. n \in Nat /\ DOMAIN said = 1 .. n
  BY TranscriptIs
<1>2. \A i \in 1 .. n : Within(bounds, i) = {ItemAt(aligned, said[i].ts)} \ {0}
  BY WithinIs
<1>3. /\ m \in Nat /\ DOMAIN bounds = 1 .. m
      /\ \A k \in 1 .. m : bounds[k].from = From(aligned, k) /\ bounds[k].below = From(aligned, k + 1)
      /\ \A k \in 1 .. (m + 1) : From(aligned, k) \in 1 .. (n + 1)
  BY BoundsAre
<1> HIDE DEF n, m, bounds
<1> SUFFICES ASSUME NEW i \in Claims, Response(i, roles, bounds) # 0
             PROVE  LET j == Response(i, roles, bounds) IN
                    /\ i < j /\ roles[j] = "official"
                    /\ Within(bounds, i) # {} => Within(bounds, j) = Within(bounds, i)
  BY DEF ResponsesAnswer, bounds
<1>4. i \in 1 .. n
  BY <1>1 DEF Claims
<1> DEFINE W == Within(bounds, i)
           last == IF W # {} THEN bounds[Min(W)].below - 1 ELSE Min({Len(said), i - 1 + Window})
           replies == {j \in SearchedFor(i, bounds) :
                         /\ roles[j] = "official"
                         /\ said[j].says = "topic" \/ (said[j].says = "reply" /\ Within(bounds, i) # {})}
           j == Response(i, roles, bounds)
<1>5. ASSUME W # {}
      PROVE  \E k \in 1 .. m : /\ W = {k} /\ Min(W) = k /\ k \in DOMAIN bounds
                                        /\ bounds[k].from <= i /\ bounds[k].below \in 1 .. (n + 1)
  <2>1. PICK k : W = {k}
    BY <1>2, <1>4, <1>5
  <2>2. k \in DOMAIN bounds /\ bounds[k].from <= i
    BY <2>1 DEF Within
  <2>3. k \in 1 .. m /\ k + 1 \in 1 .. (m + 1)
    <3> HIDE DEF W
    <3>1. k \in 1 .. m
      BY <1>3, <2>2
    <3> QED
      BY <1>3, <3>1
  <2>4. Min(W) = k
    <3> HIDE DEF W
    <3>1. W \in SUBSET Int /\ W # {} /\ IsFiniteSet(W)
      <4>1. k \in Int
        BY <2>3
      <4>2. IsFiniteSet({k})
        BY FS_Singleton
      <4> QED
        BY <2>1, <4>1, <4>2
    <3> HIDE DEF W
    <3>2. Min(W) \in W
      BY <3>1, LeastIs
    <3> QED
      BY <2>1, <3>2
  <2> QED
    BY <1>3, <2>1, <2>2, <2>3, <2>4
<1>6. last \in Int
  <2>1. CASE W # {}
    BY <1>5, <2>1
  <2>2. CASE W = {}
    <3> DEFINE T == {Len(said), i - 1 + Window}
    <3>1. T \in SUBSET Int /\ T # {} /\ IsFiniteSet(T)
      <4>1. Len(said) \in Int /\ i - 1 + Window \in Int
        BY <1>1, <1>4, MeetingConstants DEF n
      <4>2. IsFiniteSet({Len(said)})
        BY FS_Singleton
      <4>3. IsFiniteSet({Len(said)} \cup {i - 1 + Window})
        BY <4>2, FS_AddElement
      <4>4. IsFiniteSet(T)
        <5>1. T = {Len(said)} \cup {i - 1 + Window}
          OBVIOUS
        <5> HIDE DEF T
        <5> QED
          BY <4>3, <5>1
      <4> QED
        BY <4>1, <4>4
    <3> HIDE DEF T
    <3>2. Min(T) \in Int
      BY <3>1, LeastIs
    <3> QED
      BY <2>2, <3>2 DEF T
  <2> QED
    BY <2>1, <2>2
<1>7. SearchedFor(i, bounds) = (i + 1) .. last
  BY DEF SearchedFor
<1>8. j = Min(replies) /\ replies # {}
  BY DEF Response
<1>9. j \in replies
  <2>1. IsFiniteSet((i + 1) .. last) /\ replies \subseteq (i + 1) .. last /\ (i + 1) .. last \subseteq Int
    <3>1. i + 1 \in Int
      BY <1>1, <1>4
    <3>2. replies \subseteq SearchedFor(i, bounds)
      OBVIOUS
    <3> HIDE DEF last, replies
    <3>3. IsFiniteSet((i + 1) .. last)
      BY <1>6, <3>1, FS_Interval
    <3> QED
      BY <1>6, <1>7, <3>1, <3>2, <3>3
  <2> HIDE DEF replies, last, j
  <2>2. IsFiniteSet(replies) /\ replies \in SUBSET Int
    BY <2>1, FS_Subset
  <2> QED
    BY <1>8, <2>2, LeastIs
<1> HIDE DEF j
<1>10. roles[j] = "official" /\ j \in (i + 1) .. last
  BY <1>7, <1>9
<1>11. i < j
  <2> HIDE DEF last
  <2> QED
    BY <1>4, <1>6, <1>10
<1>12. ASSUME W # {} PROVE Within(bounds, j) = W
  <2>1. PICK k \in 1 .. m : /\ W = {k} /\ Min(W) = k /\ k \in DOMAIN bounds
                            /\ bounds[k].from <= i /\ bounds[k].below \in 1 .. (n + 1)
    BY <1>5, <1>12
  <2>2. last = bounds[k].below - 1
    BY <1>12, <2>1
  <2> HIDE DEF last, W
  <2>3. j \in 1 .. n /\ j < bounds[k].below
    BY <1>1, <1>4, <1>10, <2>1, <2>2
  <2>4. bounds[k].from <= j
    <3>1. bounds[k].from \in Int
      <4>1. k \in 1 .. (m + 1)
        BY <1>3
      <4> QED
        BY <1>3, <4>1
    <3> QED
      BY <1>4, <1>11, <2>1, <2>3, <3>1
  <2>5. k \in Within(bounds, j)
    BY <2>1, <2>3, <2>4 DEF Within
  <2>6. Within(bounds, j) = {k}
    BY <1>2, <2>3, <2>5
  <2> QED
    BY <2>1, <2>6
<1> QED
  BY <1>10, <1>11, <1>12 DEF j
(* The first and the last segment of a passage.                            *)
LEMMA PassageIs ==
  ASSUME MeetingInv, NEW p \in Passages
  PROVE  /\ \E i \in 1 .. Len(said) : PassageOf(i) = p /\ Starts(p) = said[i].ts
         /\ \E i \in 1 .. Len(said) : PassageOf(i) = p /\ Ends(p) = said[i].ts
         /\ \A i \in 1 .. Len(said) : PassageOf(i) = p => Starts(p) <= said[i].ts /\ said[i].ts <= Ends(p)
<1> DEFINE n == Len(said)
           b == PassageSize
           S == InPassage(p)
<1>1. n \in Nat /\ DOMAIN said = 1 .. n /\ b \in Nat \ {0}
  BY TranscriptIs, MeetingConstants
<1>2. S = {i \in 1 .. n : PassageOf(i) = p}
  BY <1>1 DEF InPassage
<1>3. S # {}
  <2> DEFINE top == (n + b - 1) \div b
             i == (p - 1) * b + 1
  <2>1. top \in Int /\ top * b <= n + b - 1
    BY <1>1
  <2>2. Passages = 1 .. top
    BY DEF Passages
  <2>3. p \in Int /\ 1 <= p /\ p <= top
    BY <2>1, <2>2
  <2> HIDE DEF n, b, top
  <2>4. p * b <= top * b /\ 0 <= (p - 1) * b /\ (p - 1) * b = p * b - b /\ (p - 1) * b \in Int
    BY <1>1, <2>1, <2>3
  <2>5. i \in 1 .. n
    <3> DEFINE x == (p - 1) * b
               y == top * b
    <3>1. x \in Int /\ 0 <= x /\ y <= n + b - 1 /\ x <= y - b /\ y \in Int
      BY <1>1, <2>1, <2>3, <2>4
    <3> HIDE DEF x, y
    <3>2. x + 1 \in 1 .. n
      BY <1>1, <3>1
    <3> QED
      BY <3>2 DEF x
  <2>6. PassageOf(i) = p
    <3>1. i - 1 = (p - 1) * b
      <4> DEFINE x == (p - 1) * b
      <4>1. x \in Int
        BY <2>4
      <4> HIDE DEF x
      <4>2. (x + 1) - 1 = x
        BY <4>1
      <4> QED
        BY <4>2 DEF x
    <3>2. ((p - 1) * b) \div b = p - 1
      BY <1>1, <2>3
    <3> HIDE DEF i
    <3>3. ((i - 1) \div b) + 1 = p
      BY <2>3, <3>1, <3>2
    <3> QED
      BY <3>3 DEF PassageOf, b
  <2> QED
    BY <1>2, <2>5, <2>6
<1>4. S \in SUBSET Int /\ IsFiniteSet(S)
  <2>1. IsFiniteSet(1 .. n) /\ S \subseteq 1 .. n /\ 1 .. n \subseteq Int
    BY <1>1, <1>2, FS_Interval
  <2> HIDE DEF S
  <2> QED
    BY <2>1, FS_Subset
<1>5. Min(S) \in S /\ (\A x \in S : Min(S) <= x) /\ Max(S) \in S /\ (\A x \in S : x <= Max(S))
  <2> HIDE DEF S
  <2> QED
    BY <1>3, <1>4, LeastIs, GreatestIs
<1>6. Starts(p) = said[Min(S)].ts /\ Ends(p) = said[Max(S)].ts
  BY DEF Starts, Ends
<1> HIDE DEF S
<1>7. ASSUME NEW i \in 1 .. n, PassageOf(i) = p PROVE Starts(p) <= said[i].ts /\ said[i].ts <= Ends(p)
  <2>1. i \in S /\ Min(S) \in 1 .. n /\ Max(S) \in 1 .. n
    BY <1>2, <1>5, <1>7
  <2>2. Min(S) <= i /\ i <= Max(S)
    BY <1>5, <2>1
  <2> QED
    BY <1>6, <2>1, <2>2 DEF MeetingInv
<1> QED
  BY <1>2, <1>5, <1>6, <1>7

(* Passages follow one another.                                            *)
LEMMA PassagesFollow ==
  ASSUME NEW i \in Nat \ {0}, NEW j \in Nat \ {0}, i <= j
  PROVE  PassageOf(i) \in Int /\ PassageOf(j) \in Int /\ PassageOf(i) <= PassageOf(j)
<1> DEFINE a == i - 1
           c == j - 1
           b == PassageSize
<1>1. a \in Nat /\ c \in Nat /\ a <= c /\ b \in Nat \ {0}
  BY MeetingConstants
<1> HIDE DEF a, b, c
<1>2. a \div b \in Int /\ c \div b \in Int /\ a \div b <= c \div b
  BY <1>1
<1> QED
  BY <1>2 DEF a, b, c, PassageOf

(* A segment's passage is one.                                             *)
LEMMA PassageOfIs ==
  ASSUME MeetingInv, NEW i \in 1 .. Len(said)
  PROVE  PassageOf(i) \in Passages
<1> DEFINE n == Len(said)
           b == PassageSize
           a == i - 1
           c == n - 1
<1>1. n \in Nat /\ a \in Nat /\ c \in Nat /\ a <= c /\ b \in Nat \ {0} /\ n + b - 1 = c + b
  BY TranscriptIs, MeetingConstants
<1> HIDE DEF a, b, c
<1>2. a \div b \in Nat /\ c \div b \in Int /\ a \div b <= c \div b /\ (c + b) \div b = (c \div b) + 1
  BY <1>1
<1>3. (a \div b) + 1 \in 1 .. ((c + b) \div b)
  BY <1>2
<1> HIDE DEF n
<1>4. (a \div b) + 1 \in 1 .. ((n + b - 1) \div b)
  BY <1>1, <1>3
<1> QED
  BY <1>4 DEF a, b, n, PassageOf, Passages

LEMMA PassagesCount == MeetingInv => ClaimsCountWhereMade
<1> SUFFICES ASSUME MeetingInv, NEW i \in Claims
             PROVE  /\ i \in CountedIn(PassageOf(i))
                    /\ \A p \in Passages \ {PassageOf(i)} :
                         i \in CountedIn(p) => said[i].ts - Ends(p) \in {0, 1} \/ said[i].ts = Starts(p)
  BY DEF ClaimsCountWhereMade
<1> DEFINE n == Len(said)
<1>1. n \in Nat /\ i \in 1 .. n
  BY TranscriptIs DEF Claims
<1>2. \A j \in 1 .. n : said[j].ts \in Int
  BY TranscriptIs, MentionsAre
<1>3. i \in CountedIn(PassageOf(i))
  <2> DEFINE q == PassageOf(i)
  <2>1. q \in Passages
    BY <1>1, PassageOfIs
  <2> HIDE DEF q
  <2>2. Starts(q) <= said[i].ts /\ said[i].ts <= Ends(q)
    BY <1>1, <2>1, PassageIs DEF q
  <2>3. Ends(q) \in Int
    BY <1>2, <2>1, PassageIs
  <2>4. said[i].ts <= Ends(q) + 1
    BY <1>1, <1>2, <2>2, <2>3
  <2>5. i \in CountedIn(q)
    BY <2>2, <2>4 DEF CountedIn
  <2> QED
    BY <2>5 DEF q
<1>4. ASSUME NEW p \in Passages, p # PassageOf(i), i \in CountedIn(p)
      PROVE  said[i].ts - Ends(p) \in {0, 1} \/ said[i].ts = Starts(p)
  <2>1. PICK s \in 1 .. n : PassageOf(s) = p /\ Starts(p) = said[s].ts
    BY <1>4, PassageIs
  <2>2. PICK e \in 1 .. n : PassageOf(e) = p /\ Ends(p) = said[e].ts
    BY <1>4, PassageIs
  <2>3. Starts(p) <= said[i].ts /\ said[i].ts <= Ends(p) + 1
    BY <1>4 DEF CountedIn
  <2>4. i \in Nat \ {0} /\ s \in Nat \ {0} /\ e \in Nat \ {0}
    BY <1>1
  <2>5. CASE PassageOf(i) < p
    <3>1. ~(s <= i)
      <4>1. s <= i => p <= PassageOf(i) /\ PassageOf(i) \in Int /\ p \in Int
        BY <2>1, <2>4, PassagesFollow
      <4> QED
        BY <2>5, <4>1
    <3>2. said[i].ts <= said[s].ts
      BY <1>1, <2>1, <2>4, <3>1 DEF MeetingInv
    <3> QED
      BY <1>1, <1>2, <2>1, <2>3, <3>2
  <2>6. CASE ~(PassageOf(i) < p)
    <3>1. ~(i <= e)
      <4>1. i <= e => PassageOf(i) <= p /\ PassageOf(i) \in Int /\ p \in Int
        BY <2>2, <2>4, PassagesFollow
      <4> QED
        BY <1>4, <2>6, <4>1
    <3>2. said[e].ts <= said[i].ts
      BY <1>1, <2>2, <2>4, <3>1 DEF MeetingInv
    <3> QED
      BY <1>1, <1>2, <2>2, <2>3, <3>2
  <2> QED
    BY <2>5, <2>6
<1> QED
  BY <1>3, <1>4

(* The claims of an item are those in its bounds.                          *)
LEMMA SegmentsAre ==
  ASSUME MeetingInv, NEW aligned, OneAfterTheOther(aligned)
  PROVE  ItemsHaveTheirSegments(aligned, Bounds(aligned))
<1> DEFINE n == Len(said)
           m == Len(aligned)
           bounds == Bounds(aligned)
<1>1. DOMAIN said = 1 .. n /\ n \in Nat /\ DOMAIN aligned = 1 .. m /\ m \in Nat
  BY TranscriptIs DEF OneAfterTheOther
<1>2. \A i \in 1 .. n : Within(bounds, i) = {ItemAt(aligned, said[i].ts)} \ {0}
  BY WithinIs
<1> HIDE DEF n, m, bounds
<1>3. ASSUME NEW k \in 1 .. m PROVE ClaimsOf(k, aligned) = {i \in Claims : k \in Within(bounds, i)}
  <2>1. k # 0
    BY <1>1
  <2>2. \A i \in Claims : i \in 1 .. n
    BY <1>1 DEF Claims
  <2>3. \A i \in Claims : k \in Within(bounds, i) <=> ItemAt(aligned, said[i].ts) = k
    <3> TAKE i \in Claims
    <3>1. Within(bounds, i) = {ItemAt(aligned, said[i].ts)} \ {0}
      BY <1>2, <2>2
    <3> QED
      BY <2>1, <3>1
  <2> QED
    BY <2>3 DEF ClaimsOf
<1> QED
  BY <1>1, <1>2, <1>3 DEF ItemsHaveTheirSegments, bounds

LEMMA RolesHave ==
  ASSUME MeetingInv, NEW aligned
  PROVE  \A i \in 1 .. Len(said) : Roles(aligned)[i] \in Role
<1> TAKE i \in 1 .. Len(said)
<1>1. PICK at, starts :
        /\ at \in [0 .. Len(said) -> Labels] /\ at[0] = NobodySpoke
        /\ \A k \in 1 .. Len(said) : /\ at[k] = Label(at[k-1], said[k], starts)
                                     /\ Roles(aligned)[k] = RoleOf(at[k-1], said[k], starts)
  BY RolesAre
<1>2. said[i].cues \in Seq(Cue) /\ i - 1 \in 0 .. Len(said)
  BY TranscriptIs
<1> DEFINE before == at[i - 1]
           segment == said[i]
<1>3. before \in Labels /\ segment.cues \in Seq(Cue)
  BY <1>1, <1>2
<1> HIDE DEF before, segment
<1>4. RoleOf(before, segment, starts) \in Role
  BY <1>3, LabelIs
<1> QED
  BY <1>1, <1>4 DEF before, segment

(* SAFETY.  For every agenda and every transcript: a segment lies in the   *)
(* bounds of exactly the item of its time, the claims of an item and their *)
(* responses lie in its bounds, the seconds of the roles add up to its     *)
(* duration, a speaker is counted in one item, and a claim in the passage  *)
(* it is made in (build_analysis, OneItemAtATime).                         *)
THEOREM EverySegmentHasOneItem == MeetingSpec => []OneItemAtATime
<1>1. MeetingInit => MeetingInv
  BY MeetingStart
<1>2. MeetingInv /\ [MeetingNext]_said => MeetingInv'
  BY MeetingStep
<1>3. MeetingInv => OneItemAtATime
  <2> SUFFICES ASSUME MeetingInv PROVE OneItemAtATime
    OBVIOUS
  <2> DEFINE aligned == Aligned
             roles == Roles(aligned)
  <2>1. OneAfterTheOther(aligned)
    BY AlignedIs
  <2> HIDE DEF aligned
  <2>2. \A i \in 1 .. Len(said) : roles[i] \in Role
    BY RolesHave
  <2> HIDE DEF roles
  <2>3. /\ ItemsHaveTheirSegments(aligned, Bounds(aligned))
        /\ SecondsAddUp(aligned, Bounds(aligned), roles)
        /\ SpeakersCountedOnce(Bounds(aligned), roles)
        /\ ResponsesAnswer(Bounds(aligned), roles)
    BY <2>1, <2>2, SegmentsAre, ItemSecondsAre, SpeakersAre, ResponsesAre
  <2>4. ClaimsCountWhereMade
    BY PassagesCount
  <2> QED
    BY <2>3, <2>4 DEF aligned, roles, OneItem, OneItemAtATime
<1> QED
  BY <1>1, <1>2, <1>3, PTL DEF MeetingSpec


-------------------------------------------------------------------------------
(* THE RECORD OF THE ORDINANCES                                            *)

Titles == [of : Ordinance, version : {1, 2}]

Entry ==
  [title : Titles, reading : 1 .. 4, result : {"carried", "failed", "postponed"},
   substitute : BOOLEAN, to : Nat]

(* A meeting is listed for the day it was held, or for a later one.        *)
Meeting ==
  {m \in [held : Nat, listed : Nat, kind : {"regular", "special", "unfiled"},
          agenda : SUBSET Titles, entries : Seq(Entry)] : m.held <= m.listed}

LedgerInv ==
  /\ meetings \in Seq(Meeting)
  /\ next \in [Ordinance -> 1 .. 4] /\ version \in [Ordinance -> {1, 2}]
  /\ other \in Others

LEMMA LedgerStart == LedgerInit => LedgerInv
BY DEF LedgerInit, LedgerInv

LEMMA LastMeetingIs ==
  ASSUME LedgerInv, meetings # <<>>
  PROVE  Len(meetings) \in 1 .. Len(meetings) /\ Last(meetings) = meetings[Len(meetings)] /\ Last(meetings) \in Meeting
<1>1. meetings \in Seq(Meeting)
  BY DEF LedgerInv
<1>2. Len(meetings) \in 1 .. Len(meetings)
  BY <1>1, EmptySeq
<1> QED
  BY <1>1, <1>2 DEF Last

LEMMA ConveneKeeps ==
  ASSUME LedgerInv, NEW session \in Sessions, NEW items \in Agendas, Convene(session, items)
  PROVE  LedgerInv'
<1> DEFINE held == IF meetings = <<>> THEN 1 ELSE Last(meetings).held + session.gap
           agenda == {Title(o) : o \in items}
           m == [held |-> held, listed |-> held + session.late, kind |-> session.kind,
                 agenda |-> agenda, entries |-> <<>>]
<1>1. /\ session.gap \in Nat /\ session.late \in Nat /\ session.kind \in {"regular", "special", "unfiled"}
      /\ items \subseteq Ordinance
  BY LedgerConstants
<1>2. held \in Nat
  <2>1. meetings # <<>> => Last(meetings).held \in Nat
    BY LastMeetingIs DEF Meeting
  <2> QED
    BY <1>1, <2>1
<1>3. agenda \subseteq Titles
  <2>1. \A o \in Ordinance : Title(o) \in Titles
    BY DEF Title, Titles, LedgerInv
  <2> QED
    BY <1>1, <2>1
<1>4. meetings' = Append(meetings, m)
  BY DEF Convene
<1> HIDE DEF held, agenda
<1>5. m \in Meeting
  <2>1. <<>> \in Seq(Entry) /\ held + session.late \in Nat /\ held <= held + session.late
    BY <1>1, <1>2
  <2> QED
    BY <1>1, <1>2, <1>3, <2>1 DEF Meeting
<1> HIDE DEF m
<1> QED
  BY <1>4, <1>5 DEF Convene, LedgerInv

LEMMA ActKeeps ==
  ASSUME LedgerInv, NEW o \in Ordinance, NEW decision \in Decisions[o], Act(o, decision)
  PROVE  LedgerInv'
<1> DEFINE today == Last(meetings)
           n == Len(meetings)
<1>1. PICK title \in {t \in today.agenda : t.of = o} :
        meetings' = [meetings EXCEPT ![n].entries =
          Append(@, [title |-> title, reading |-> next[o], result |-> decision.result, substitute |-> decision.amended,
                     to |-> IF decision.after = 0 THEN 0 ELSE today.held + decision.after])]
  BY DEF Act
<1> DEFINE to == IF decision.after = 0 THEN 0 ELSE today.held + decision.after
           e == [title |-> title, reading |-> next[o], result |-> decision.result,
                 substitute |-> decision.amended, to |-> to]
           m == [today EXCEPT !.entries = Append(today.entries, e)]
<1>2. /\ decision.result \in {"carried", "failed", "postponed"} /\ decision.after \in Nat
      /\ decision.amended \in BOOLEAN
  BY LedgerConstants
<1>3. /\ n \in 1 .. n /\ today = meetings[n] /\ today \in Meeting
  BY LastMeetingIs DEF Act
<1>4. /\ today.held \in Nat /\ today.listed \in Nat /\ today.held <= today.listed
      /\ today.agenda \subseteq Titles /\ today.entries \in Seq(Entry)
      /\ today.kind \in {"regular", "special", "unfiled"}
      /\ today = [held |-> today.held, listed |-> today.listed, kind |-> today.kind,
                  agenda |-> today.agenda, entries |-> today.entries]
  BY <1>3 DEF Meeting
<1>5. meetings' = [meetings EXCEPT ![n] = m]
  BY <1>1, <1>3
<1> HIDE DEF today
<1>6. to \in Nat
  BY <1>2, <1>4
<1> HIDE DEF to
<1>7. next[o] \in 1 .. 4 /\ title \in Titles
  BY <1>4 DEF LedgerInv
<1>8. e \in Entry
  BY <1>2, <1>6, <1>7 DEF Entry
<1> HIDE DEF e
<1>9. m \in Meeting
  <2> DEFINE entries == Append(today.entries, e)
  <2>1. entries \in Seq(Entry)
    BY <1>4, <1>8
  <2> HIDE DEF entries
  <2>2. m = [today EXCEPT !.entries = entries]
    BY DEF entries
  <2>3. m \in [held : Nat, listed : Nat, kind : {"regular", "special", "unfiled"},
               agenda : SUBSET Titles, entries : Seq(Entry)]
        /\ m.held = today.held /\ m.listed = today.listed
    <3>1. today \in [held : Nat, listed : Nat, kind : {"regular", "special", "unfiled"},
                     agenda : SUBSET Titles, entries : Seq(Entry)]
      BY <1>3 DEF Meeting
    <3> HIDE DEF m
    <3> QED
      BY <2>1, <2>2, <3>1
  <2> HIDE DEF m
  <2> QED
    BY <1>4, <2>3 DEF Meeting
<1> HIDE DEF m
<1>10. meetings' \in Seq(Meeting)
  BY <1>3, <1>5, <1>9 DEF LedgerInv
<1>11. next' \in [Ordinance -> 1 .. 4]
  <2> DEFINE due == CASE decision.result = "carried" -> next[o] + 1
                      [] decision.result = "failed" -> 4
                      [] decision.result = "postponed" -> next[o]
  <2>1. next' = [next EXCEPT ![o] = due] /\ next[o] <= 3 /\ next \in [Ordinance -> 1 .. 4]
    BY DEF Act, LedgerInv
  <2>2. due \in 1 .. 4
    BY <1>2, <1>7, <2>1
  <2> HIDE DEF due
  <2> QED
    BY <2>1, <2>2
<1>12. version' \in [Ordinance -> {1, 2}] /\ other' \in Others
  BY DEF Act, LedgerInv
<1> QED
  BY <1>10, <1>11, <1>12 DEF LedgerInv

LEMMA LedgerStep == LedgerInv /\ [LedgerNext]_ledgerVars => LedgerInv'
<1> SUFFICES ASSUME LedgerInv, [LedgerNext]_ledgerVars PROVE LedgerInv'
  OBVIOUS
<1>1. CASE UNCHANGED ledgerVars
  BY <1>1 DEF ledgerVars, LedgerInv
<1>2. CASE LedgerNext
  BY <1>2, ConveneKeeps, ActKeeps DEF LedgerNext
<1> QED
  BY <1>1, <1>2

(* Titles of one ordinance are similar, those of two are as similar as     *)
(* `other` says.                                                           *)
LEMMA SimIs ==
  ASSUME LedgerInv
  PROVE  /\ other \in 0 .. 71
         /\ \A t, u \in Titles : /\ Sim(t, u) \in 0 .. 100
                                 /\ t.of = u.of => Sim(t, u) >= 72
                                 /\ t.of # u.of => Sim(t, u) = other
<1>1. other \in 0 .. 71 /\ Kept \in 72 .. 100
  BY LedgerConstants DEF LedgerInv
<1>2. ASSUME NEW t \in Titles, NEW u \in Titles
      PROVE  /\ Sim(t, u) \in 0 .. 100
             /\ t.of = u.of => Sim(t, u) >= 72
             /\ t.of # u.of => Sim(t, u) = other
  BY <1>1 DEF Sim
<1> QED
  BY <1>1, <1>2

(* The entries on file of a meeting.                                       *)
Filed == [date : Nat, title : Titles, reading : 1 .. 4, result : {"carried", "failed", "postponed"},
          substitute : BOOLEAN, to : Nat]

(* What is on file of an entry.                                            *)
FileOf(f, date, e) ==
  /\ f.date = date /\ f.title = e.title /\ f.reading = e.reading
  /\ f.result = e.result /\ f.substitute = e.substitute /\ f.to = e.to

LEMMA EntriesOfIs ==
  ASSUME NEW m \in Meeting
  PROVE  /\ EntriesOf(m) \in Seq(Filed)
         /\ m.kind = "unfiled" => EntriesOf(m) = <<>>
         /\ m.kind # "unfiled" => /\ Len(EntriesOf(m)) = Len(m.entries)
                                 /\ \A i \in 1 .. Len(m.entries) : FileOf(EntriesOf(m)[i], Date(m), m.entries[i])
<1>1. m.held \in Nat /\ m.listed \in Nat /\ m.entries \in Seq(Entry)
  BY DEF Meeting
<1>2. Date(m) \in Nat
  BY <1>1 DEF Date
<1>3. CASE m.kind = "unfiled"
  BY <1>3 DEF EntriesOf
<1>4. CASE m.kind # "unfiled"
  <2> DEFINE n == Len(m.entries)
             filed(i) == [date |-> Date(m), title |-> m.entries[i].title,
                          reading |-> m.entries[i].reading, result |-> m.entries[i].result,
                          substitute |-> m.entries[i].substitute, to |-> m.entries[i].to]
  <2>1. n \in Nat /\ DOMAIN m.entries = 1 .. n /\ \A i \in 1 .. n : m.entries[i] \in Entry
    BY <1>1
  <2>2. EntriesOf(m) = [i \in 1 .. n |-> filed(i)]
    BY <1>4, <2>1 DEF EntriesOf
  <2> HIDE DEF n
  <2>3. \A i \in 1 .. n : filed(i) \in Filed /\ FileOf(filed(i), Date(m), m.entries[i])
    BY <1>2, <2>1 DEF Entry, Filed, FileOf
  <2> HIDE DEF filed
  <2>4. EntriesOf(m) \in Seq(Filed) /\ Len(EntriesOf(m)) = n
    BY <2>1, <2>2, <2>3
  <2>5. \A i \in 1 .. n : FileOf(EntriesOf(m)[i], Date(m), m.entries[i])
    BY <2>2, <2>3
  <2> QED
    BY <1>4, <2>4, <2>5 DEF n
<1> QED
  BY <1>3, <1>4

(* What is on file has a title and, when postponed, a date.                *)
LEMMA OnFileIs ==
  ASSUME LedgerInv, NEW e \in ToSet(OnFile)
  PROVE  e.title \in Titles /\ e.to \in Nat
<1> DEFINE seqs == [i \in DOMAIN meetings |-> EntriesOf(meetings[i])]
<1>1. \A m \in Meeting : EntriesOf(m) \in Seq(Filed)
  BY EntriesOfIs
<1>2. seqs \in Seq(Seq(Filed))
  <2>1. meetings \in Seq(Meeting)
    BY DEF LedgerInv
  <2>2. Len(meetings) \in Nat /\ DOMAIN meetings = 1 .. Len(meetings) /\ \A i \in 1 .. Len(meetings) : meetings[i] \in Meeting
    BY <2>1
  <2> QED
    BY <1>1, <2>2
<1>3. OnFile \in Seq(Filed)
  <2> HIDE DEF seqs
  <2>1. FlattenSeq(seqs) \in Seq(Filed)
    BY <1>2, FlattenedIs
  <2> QED
    BY <2>1 DEF OnFile, seqs
<1>4. e \in Filed
  <2>1. PICK i \in DOMAIN OnFile : e = OnFile[i]
    BY DEF ToSet
  <2>2. DOMAIN OnFile = 1 .. Len(OnFile) /\ \A j \in 1 .. Len(OnFile) : OnFile[j] \in Filed
    BY <1>3
  <2> QED
    BY <2>1, <2>2
<1> QED
  BY <1>4 DEF Filed

(* No date on record is past the last one.                                 *)
LEMMA LastDateIs ==
  ASSUME LedgerInv, NEW i \in DOMAIN meetings
  PROVE  /\ meetings[i] \in Meeting /\ Date(meetings[i]) \in Nat
         /\ Max(Dates) \in Nat /\ Date(meetings[i]) <= Max(Dates)
<1> DEFINE n == Len(meetings)
<1>1. n \in Nat /\ DOMAIN meetings = 1 .. n /\ \A k \in 1 .. n : meetings[k] \in Meeting
  BY DEF LedgerInv
<1>2. \A k \in 1 .. n : Date(meetings[k]) \in Nat
  BY <1>1 DEF Date, Meeting
<1> DEFINE date == [k \in 1 .. n |-> Date(meetings[k])]
<1>3. Dates = {date[k] : k \in 1 .. n}
  BY <1>1 DEF Dates
<1>4. IsFiniteSet(Dates)
  <2>1. IsFiniteSet(1 .. n)
    BY <1>1, FS_Interval
  <2>2. date \in Surjection(1 .. n, Dates)
    <3>1. date \in [1 .. n -> Dates]
      BY <1>3
    <3> HIDE DEF date
    <3> QED
      BY <1>3, <3>1 DEF Surjection
  <2> HIDE DEF date, n
  <2> QED
    BY <2>1, <2>2, FS_Surjection
<1>5. Dates \subseteq Nat /\ Date(meetings[i]) \in Dates
  BY <1>1, <1>2 DEF Dates
<1>6. Max(Dates) \in Dates /\ \A x \in Dates : x <= Max(Dates)
  <2>1. Dates \in SUBSET Int /\ Dates # {}
    BY <1>5
  <2> QED
    BY <1>4, <2>1, GreatestIs
<1> QED
  BY <1>1, <1>2, <1>5, <1>6

LEMMA PostponementsOfFile ==
  ASSUME LedgerInv, NEW e, e.title \in Titles, e.to \in Nat
  PROVE  PostponementsKept(e, Status(e), TakenUp(e.title.of, 0))
<1> DEFINE takenUp == TakenUp(e.title.of, 0)
           onTheDay == {i \in takenUp : meetings[i].held = e.to /\ ~Misdated(meetings[i])}
<1>1. ASSUME NEW i \in DOMAIN meetings
      PROVE  /\ meetings[i].held \in Nat /\ meetings[i].agenda \subseteq Titles
             /\ Date(meetings[i]) \in Nat /\ meetings[i].held <= Date(meetings[i])
             /\ Max(Dates) \in Nat /\ Date(meetings[i]) <= Max(Dates)
  BY LastDateIs DEF Meeting, Date
<1>2. ASSUME NEW i \in takenUp, NEW to \in Nat, e.to <= Date(meetings[i]), Date(meetings[i]) <= to
      PROVE  OnAgenda(e.title, e.to, to) # {}
  <2>1. i \in DOMAIN meetings
    BY DEF TakenUp
  <2>2. PICK t \in meetings[i].agenda : t.of = e.title.of
    BY DEF TakenUp
  <2>3. Sim(e.title, t) >= 50
    <3>1. Sim(e.title, t) \in 0 .. 100 /\ Sim(e.title, t) >= 72
      BY <1>1, <2>1, <2>2, SimIs
    <3> QED
      BY <3>1
  <2>4. i \in OnAgenda(e.title, e.to, to)
    BY <1>2, <2>1, <2>3 DEF OnAgenda
  <2> QED
    BY <2>4
<1>3. ASSUME Status(e) \in Broken, NEW i \in onTheDay PROVE FALSE
  <2>1. i \in takenUp /\ i \in DOMAIN meetings /\ Date(meetings[i]) = e.to
    BY DEF Misdated, TakenUp
  <2> HIDE DEF takenUp
  <2>2. OnAgenda(e.title, e.to, e.to) # {}
    BY <1>2, <2>1
  <2> QED
    BY <1>3, <2>2 DEF Status, Broken
<1>4. ASSUME Status(e) = "not_found_after_target", NEW i \in takenUp PROVE meetings[i].held < e.to
  <2>1. i \in DOMAIN meetings
    BY DEF TakenUp
  <2> HIDE DEF takenUp
  <2>2. OnAgenda(e.title, e.to, Max(Dates)) = {}
    BY <1>4 DEF Status
  <2>3. ~(e.to <= Date(meetings[i]))
    BY <1>1, <1>2, <2>1, <2>2
  <2> QED
    BY <1>1, <2>1, <2>3
<1>5. ASSUME Status(e) = "honored", other < 50
      PROVE  onTheDay # {} \/ \E i \in takenUp : Misdated(meetings[i]) /\ meetings[i].listed = e.to
  <2>1. PICK i \in DOMAIN meetings : /\ e.to <= Date(meetings[i]) /\ Date(meetings[i]) <= e.to
                                     /\ \E t \in meetings[i].agenda : Sim(e.title, t) >= 50
    <3>1. OnAgenda(e.title, e.to, e.to) # {}
      BY <1>5 DEF Status
    <3> QED
      BY <3>1 DEF OnAgenda
  <2>2. PICK t \in meetings[i].agenda : Sim(e.title, t) >= 50
    BY <2>1
  <2>3. t.of = e.title.of
    BY <1>1, <1>5, <2>2, SimIs
  <2>4. i \in takenUp
    BY <1>1, <2>3 DEF TakenUp
  <2>5. Date(meetings[i]) = e.to
    BY <1>1, <2>1
  <2> HIDE DEF takenUp
  <2>6. CASE Misdated(meetings[i])
    <3>1. meetings[i].listed = e.to
      BY <2>5, <2>6 DEF Misdated, Date
    <3> QED
      BY <2>4, <2>6, <3>1
  <2>7. CASE ~Misdated(meetings[i])
    <3>1. meetings[i].held = e.to
      BY <2>5, <2>7 DEF Misdated
    <3> QED
      BY <2>4, <2>7, <3>1
  <2> QED
    BY <2>6, <2>7
<1> HIDE DEF takenUp
<1> QED
  BY <1>3, <1>4, <1>5 DEF PostponementsKept, takenUp

(* The entry of an item is one of the most similar ones.                   *)
LEMMA EntryForIs ==
  ASSUME LedgerInv, NEW m \in Meeting, m.kind # "unfiled", NEW t \in Titles
  PROVE  LET k == EntryFor(t, m)
             sim(i) == Sim(t, m.entries[i].title)
         IN /\ k # 0 => k \in DOMAIN m.entries /\ sim(k) >= 30 /\ \A j \in DOMAIN m.entries : sim(j) <= sim(k)
            /\ k = 0 => \A j \in DOMAIN m.entries : sim(j) < 72
<1> DEFINE n == Len(m.entries)
           sim == [i \in 1 .. n |-> Sim(t, m.entries[i].title)]
           alike == {i \in DOMAIN m.entries : /\ Sim(t, m.entries[i].title) >= 30
                                              /\ \A j \in DOMAIN m.entries :
                                                   Sim(t, m.entries[j].title) <= Sim(t, m.entries[i].title)}
           k == EntryFor(t, m)
<1>1. n \in Nat /\ DOMAIN m.entries = 1 .. n /\ \A i \in 1 .. n : m.entries[i].title \in Titles
  <2>1. m.entries \in Seq(Entry)
    BY DEF Meeting
  <2>2. n \in Nat /\ DOMAIN m.entries = 1 .. n /\ \A i \in 1 .. n : m.entries[i] \in Entry
    BY <2>1
  <2> HIDE DEF n
  <2> QED
    BY <2>2 DEF Entry
<1>2. \A i \in 1 .. n : sim[i] = Sim(t, m.entries[i].title) /\ sim[i] \in 0 .. 100
  BY <1>1, SimIs
<1>3. k = IF alike = {} THEN 0 ELSE Min(alike)
  BY DEF EntryFor
<1>4. IsFiniteSet(1 .. n)
  BY <1>1, FS_Interval
<1>5. sim \in [1 .. n -> Int]
  <2>1. sim = [i \in 1 .. n |-> sim[i]]
    OBVIOUS
  <2> HIDE DEF sim, n
  <2>2. \A i \in 1 .. n : sim[i] \in Int
    BY <1>2
  <2> QED
    BY <2>1, <2>2
<1> HIDE DEF n, sim
<1>6. alike = {i \in 1 .. n : sim[i] >= 30 /\ \A j \in 1 .. n : sim[j] <= sim[i]}
  <2>1. ASSUME NEW i \in 1 .. n
        PROVE  /\ Sim(t, m.entries[i].title) >= 30
               /\ \A j \in DOMAIN m.entries : Sim(t, m.entries[j].title) <= Sim(t, m.entries[i].title)
               <=> sim[i] >= 30 /\ \A j \in 1 .. n : sim[j] <= sim[i]
    <3>1. sim[i] = Sim(t, m.entries[i].title) /\ \A j \in 1 .. n : sim[j] = Sim(t, m.entries[j].title)
      BY <1>2
    <3> QED
      BY <1>1, <3>1, ZenonT(30)
  <2> QED
    BY <1>1, <2>1, ZenonT(30)
<1> HIDE DEF alike, k
<1>7. ASSUME alike # {} PROVE Min(alike) \in alike
  <2>1. alike \subseteq 1 .. n /\ alike \in SUBSET Int
    BY <1>1, <1>6
  <2>2. IsFiniteSet(alike)
    BY <1>4, <2>1, FS_Subset
  <2> QED
    BY <1>7, <2>1, <2>2, LeastIs
<1>8. ASSUME NEW x \in 1 .. n, sim[x] >= 72 PROVE alike # {}
  <2> DEFINE S == {sim[i] : i \in 1 .. n}
  <2>1. IsFiniteSet(S)
    <3>1. sim \in Surjection(1 .. n, S)
      <4>1. sim \in [1 .. n -> S]
        BY <1>5
      <4> QED
        BY <4>1 DEF Surjection
    <3> HIDE DEF S
    <3> QED
      BY <1>4, <3>1, FS_Surjection
  <2>2. S \in SUBSET Int /\ sim[x] \in S /\ \A i \in 1 .. n : sim[i] \in S
    BY <1>5
  <2>3. Max(S) \in S /\ \A y \in S : y <= Max(S)
    <3> HIDE DEF S
    <3> QED
      BY <2>1, <2>2, GreatestIs
  <2>4. PICK i \in 1 .. n : sim[i] = Max(S)
    BY <2>3
  <2> HIDE DEF S
  <2>5. \A j \in 1 .. n : sim[j] <= sim[i]
    BY <2>2, <2>3, <2>4
  <2>6. sim[i] >= 30
    BY <1>2, <1>8, <2>5
  <2> QED
    BY <1>6, <2>5, <2>6
<1>9. CASE alike = {}
  <2>1. k = 0
    BY <1>3, <1>9
  <2>2. \A j \in 1 .. n : ~ (sim[j] >= 72) /\ sim[j] \in Int
    BY <1>5, <1>8, <1>9
  <2>3. \A j \in DOMAIN m.entries : Sim(t, m.entries[j].title) < 72
    BY <1>1, <1>2, <2>2
  <2> QED
    BY <2>1, <2>3 DEF k
<1>10. CASE alike # {}
  <2>1. k \in alike
    BY <1>3, <1>7, <1>10
  <2>2. k \in 1 .. n /\ k # 0 /\ sim[k] >= 30 /\ \A j \in 1 .. n : sim[j] <= sim[k]
    BY <1>1, <1>6, <2>1
  <2> QED
    BY <1>1, <1>2, <2>2 DEF k
<1> QED
  BY <1>9, <1>10

LEMMA RecordIsReal == LedgerInv => AccusationsAreReal
<1> SUFFICES ASSUME LedgerInv PROVE AccusationsAreReal
  OBVIOUS
<1>1. \A e \in ToSet(OnFile) : PostponementsKept(e, Status(e), TakenUp(e.title.of, 0))
  BY OnFileIs, PostponementsOfFile
<1>2. ASSUME NEW i \in DOMAIN meetings, NEW t \in meetings[i].agenda
      PROVE  /\ t \in Silent(meetings[i]) => About(t.of, meetings[i]) = {}
             /\ OutcomeIsItsOwn(t, meetings[i], EntryFor(t, meetings[i]))
  <2> DEFINE m == meetings[i]
             k == EntryFor(t, m)
             sim(j) == Sim(t, m.entries[j].title)
  <2>1. m \in Meeting /\ t \in Titles
    BY LastDateIs DEF Meeting
  <2>2. \A j \in DOMAIN m.entries : m.entries[j].title \in Titles
    <3>1. m.entries \in Seq(Entry)
      BY <2>1 DEF Meeting
    <3> HIDE DEF m
    <3>2. \A j \in DOMAIN m.entries : m.entries[j] \in Entry
      BY <3>1
    <3> QED
      BY <3>2 DEF Entry
  <2> HIDE DEF m
  <2>3. \A j \in DOMAIN m.entries : /\ sim(j) \in 0 .. 100
                                    /\ j \in About(t.of, m) => sim(j) >= 72
                                    /\ j \notin About(t.of, m) => sim(j) = other
    BY <2>1, <2>2, SimIs DEF About
  <2>4. About(t.of, m) \subseteq DOMAIN m.entries /\ other \in 0 .. 71
    BY SimIs DEF About
  <2>5. ASSUME t \in Silent(m) PROVE About(t.of, m) = {}
    <3>1. \A j \in DOMAIN m.entries : sim(j) < 34
      BY <2>5 DEF Silent
    <3> HIDE DEF sim
    <3> QED
      BY <2>3, <2>4, <3>1
  <2>6. ASSUME m.kind # "unfiled"
        PROVE  /\ About(t.of, m) # {} => k \in About(t.of, m)
               /\ About(t.of, m) = {} /\ k # 0 => other >= 30
    <3>1. /\ k # 0 => k \in DOMAIN m.entries /\ sim(k) >= 30 /\ \A j \in DOMAIN m.entries : sim(j) <= sim(k)
          /\ k = 0 => \A j \in DOMAIN m.entries : sim(j) < 72
      BY <2>1, <2>6, EntryForIs
    <3> HIDE DEF sim, k
    <3> QED
      BY <2>3, <2>4, <3>1
  <2> QED
    BY <2>5, <2>6 DEF OutcomeIsItsOwn, m
<1> QED
  BY <1>1, <1>2 DEF AccusationsAreReal

(* SAFETY.  However the council acts on its ordinances and renames them,   *)
(* whatever its listing says of the dates, R1, R3 and the outcomes of      *)
(* items accuse nobody of what the record does not bear out                *)
(* (postponement_continuity, agenda_minutes_coverage, minutes_entry_for,   *)
(* AccusationsAreReal).                                                    *)
THEOREM NobodyIsAccusedWrongly == LedgerSpec => []AccusationsAreReal
<1>1. LedgerInit => LedgerInv
  BY LedgerStart
<1>2. LedgerInv /\ [LedgerNext]_ledgerVars => LedgerInv'
  BY LedgerStep
<1>3. LedgerInv => AccusationsAreReal
  BY RecordIsReal
<1> QED
  BY <1>1, <1>2, <1>3, PTL DEF LedgerSpec

-------------------------------------------------------------------------------
(* SEQUENCES PUT TOGETHER, AND WHERE THEIR ELEMENTS ARE FROM               *)

(* The places of the elements of a sequence of sequences, in their order.  *)
Comes(p, q) == p[1] < q[1] \/ (p[1] = q[1] /\ p[2] < q[2])

PlacesOf(seqs, i) == {p \in (1 .. i) \X Nat : p[2] \in 1 .. Len(seqs[p[1]])}

(* A sequence that has the elements of the first i, one after the other.   *)
Traces(at, s, seqs, i) ==
  /\ at \in [1 .. Len(s) -> PlacesOf(seqs, i)]
  /\ \A j \in 1 .. Len(s) : s[j] = seqs[at[j][1]][at[j][2]]
  /\ \A j, k \in 1 .. Len(s) : j < k => Comes(at[j], at[k])
  /\ \A p \in PlacesOf(seqs, i) : \E j \in 1 .. Len(s) : at[j] = p

LEMMA FlattenedFrom ==
  ASSUME NEW D, NEW seqs \in Seq(Seq(D))
  PROVE  FlattenSeq(seqs) \in Seq(D) /\ \E at : Traces(at, FlattenSeq(seqs), seqs, Len(seqs))
<1> DEFINE n == Len(seqs)
<1>1. n \in Nat /\ \A i \in 1 .. n : seqs[i] \in Seq(D)
  OBVIOUS
<1>2. PICK g : /\ g \in [0 .. n -> Seq(D)] /\ g[0] = <<>>
               /\ \A i \in 1 .. n : g[i] = g[i-1] \o seqs[i]
               /\ FlattenSeq(seqs) = g[n]
  BY FlattenLoop
<1> DEFINE S == {i \in 0 .. n : \E at : Traces(at, g[i], seqs, i)}
<1>3. 0 \in S
  <2> DEFINE at == [j \in 1 .. 0 |-> <<0, 0>>]
  <2>1. 0 \in 0 .. n
    BY <1>1
  <2>2. PlacesOf(seqs, 0) = {} /\ 1 .. 0 = {}
    BY DEF PlacesOf
  <2>3. Len(g[0]) = 0
    BY <1>2
  <2>4. at \in [1 .. 0 -> PlacesOf(seqs, 0)]
    BY <2>2
  <2> HIDE DEF at
  <2>5. Traces(at, g[0], seqs, 0)
    BY <2>2, <2>3, <2>4 DEF Traces
  <2> QED
    BY <2>1, <2>5
<1>4. ASSUME NEW i \in 1 .. n, i - 1 \in S PROVE i \in S
  <2> DEFINE s == g[i-1]
             t == seqs[i]
             u == g[i]
             a == Len(s)
  <2>1. s \in Seq(D) /\ t \in Seq(D) /\ u = s \o t /\ i \in 0 .. n /\ i \in Int /\ 1 <= i
    <3>1. i - 1 \in 0 .. n /\ i \in 0 .. n /\ i \in Int /\ 1 <= i
      BY <1>1
    <3> QED
      BY <1>1, <1>2, <3>1
  <2>2. PICK old : Traces(old, s, seqs, i - 1)
    BY <1>4
  <2> HIDE DEF s, u, n
  <2>3. /\ a \in Nat /\ Len(t) \in Nat /\ Len(u) = a + Len(t)
        /\ \A j \in 1 .. a : u[j] = s[j]
        /\ \A j \in 1 .. Len(u) : j > a => j - a \in 1 .. Len(t) /\ u[j] = t[j - a]
    BY <2>1
  <2> DEFINE P == PlacesOf(seqs, i)
             Q == PlacesOf(seqs, i - 1)
             at == [j \in 1 .. Len(u) |-> IF j <= a THEN old[j] ELSE <<i, j - a>>]
  <2>4. /\ Q \subseteq P /\ \A q \in Q : q[1] \in Int /\ q[2] \in Int /\ q[1] < i
        /\ \A k \in 1 .. Len(t) : <<i, k>> \in P
        /\ \A p \in P : p \in Q \/ (\E k \in 1 .. Len(t) : p = <<i, k>>)
    <3>1. ASSUME NEW q \in Q PROVE q \in P /\ q[1] \in Int /\ q[2] \in Int /\ q[1] < i
      <4>1. q \in (1 .. (i - 1)) \X Nat /\ q[2] \in 1 .. Len(seqs[q[1]])
        BY DEF PlacesOf
      <4>2. q[1] \in 1 .. (i - 1) /\ q = <<q[1], q[2]>> /\ q[2] \in Nat
        BY <4>1
      <4>3. q[1] \in 1 .. i /\ q[1] < i /\ q[1] \in Int
        BY <2>1, <4>2
      <4>4. q \in (1 .. i) \X Nat
        BY <4>2, <4>3
      <4>5. q \in P
        BY <4>1, <4>4 DEF PlacesOf
      <4> HIDE DEF P, Q
      <4> QED
        BY <4>2, <4>3, <4>5
    <3>2. ASSUME NEW k \in 1 .. Len(t) PROVE <<i, k>> \in P
      BY <2>1, <2>3 DEF PlacesOf
    <3>3. ASSUME NEW p \in P PROVE p \in Q \/ (\E k \in 1 .. Len(t) : p = <<i, k>>)
      <4>1. p \in (1 .. i) \X Nat /\ p[2] \in 1 .. Len(seqs[p[1]])
        BY DEF PlacesOf
      <4>2. p[1] \in 1 .. i /\ p = <<p[1], p[2]>> /\ p[2] \in Nat
        BY <4>1
      <4>3. CASE p[1] = i
        BY <4>1, <4>2, <4>3
      <4>4. CASE p[1] # i
        <5>1. p[1] \in 1 .. (i - 1)
          BY <2>1, <4>2, <4>4
        <5> QED
          BY <4>1, <4>2, <5>1 DEF PlacesOf
      <4> QED
        BY <4>3, <4>4
    <3> QED
      BY <3>1, <3>2, <3>3
  <2>5. /\ \A j \in 1 .. Len(u) : j <= a => j \in 1 .. a /\ at[j] = old[j] /\ old[j] \in Q
        /\ \A j \in 1 .. Len(u) : ~(j <= a) => at[j] = <<i, j - a>> /\ j - a \in 1 .. Len(t) /\ u[j] = t[j - a]
    <3>1. \A j \in 1 .. a : old[j] \in Q
      BY <2>2 DEF Traces
    <3> HIDE DEF P, Q, a
    <3> QED
      BY <2>3, <3>1
  <2> HIDE DEF at, P, Q
  <2>6. \A j \in 1 .. Len(u) : at[j] \in P
    <3> TAKE j \in 1 .. Len(u)
    <3>1. CASE j <= a
      BY <2>4, <2>5, <3>1
    <3>2. CASE ~(j <= a)
      BY <2>4, <2>5, <3>2
    <3> QED
      BY <3>1, <3>2
  <2>7. \A j \in 1 .. Len(u) : u[j] = seqs[at[j][1]][at[j][2]]
    <3> TAKE j \in 1 .. Len(u)
    <3>1. CASE j <= a
      <4>1. j \in 1 .. a /\ at[j] = old[j] /\ u[j] = s[j]
        BY <2>3, <2>5, <3>1
      <4> QED
        BY <2>2, <4>1 DEF Traces
    <3>2. CASE ~(j <= a)
      BY <2>5, <3>2
    <3> QED
      BY <3>1, <3>2
  <2>8. ASSUME NEW j \in 1 .. Len(u), NEW k \in 1 .. Len(u), j < k PROVE Comes(at[j], at[k])
    <3>0. j \in Int /\ k \in Int /\ a \in Int
      BY <2>3
    <3>1. CASE k <= a
      <4>1. j \in 1 .. a /\ k \in 1 .. a /\ at[j] = old[j] /\ at[k] = old[k]
        BY <2>5, <2>8, <3>0, <3>1
      <4> QED
        BY <2>2, <2>8, <4>1 DEF Traces
    <3>2. CASE j <= a /\ ~(k <= a)
      BY <2>4, <2>5, <3>2 DEF Comes
    <3>3. CASE ~(j <= a) /\ ~(k <= a)
      BY <2>5, <2>8, <3>0, <3>3 DEF Comes
    <3> QED
      BY <2>8, <3>0, <3>1, <3>2, <3>3
  <2>9. ASSUME NEW p \in P PROVE \E j \in 1 .. Len(u) : at[j] = p
    <3>1. CASE p \in Q
      <4>1. PICK j \in 1 .. a : old[j] = p
        BY <2>2, <3>1 DEF Q, Traces
      <4>2. j \in 1 .. Len(u) /\ j <= a
        BY <2>3, <4>1
      <4> QED
        BY <2>5, <4>1, <4>2
    <3>2. ASSUME NEW k \in 1 .. Len(t), p = <<i, k>> PROVE \E j \in 1 .. Len(u) : at[j] = p
      <4>1. a + k \in 1 .. Len(u) /\ ~(a + k <= a) /\ (a + k) - a = k
        <5>1. a \in Nat /\ k \in Nat /\ 1 <= k /\ k <= Len(t) /\ Len(t) \in Nat /\ Len(u) = a + Len(t)
          BY <2>3
        <5> HIDE DEF a, t
        <5> QED
          BY <5>1
      <4> QED
        BY <2>5, <3>2, <4>1
    <3> QED
      BY <2>4, <3>1, <3>2
  <2>10. at \in [1 .. Len(u) -> P]
    BY <2>6 DEF at
  <2>11. Traces(at, u, seqs, i)
    BY <2>7, <2>8, <2>9, <2>10 DEF P, Traces
  <2> QED
    BY <2>1, <2>11 DEF u
<1> HIDE DEF S
<1>5. n \in S
  <2>1. \A i \in 0 .. n : i \in S
    BY <1>1, <1>3, <1>4, Induct
  <2> QED
    BY <1>1, <2>1
<1>6. FlattenSeq(seqs) \in Seq(D)
  BY <1>1, <1>2
<1> QED
  BY <1>2, <1>5, <1>6 DEF S

(* Positions that rise.                                                    *)
Rising(pos) == \A i, j \in 1 .. Len(pos) : i < j => pos[i] < pos[j]

(* What a sequence has at some of its positions.                           *)
Picked(r, K) == FlattenSeq([i \in DOMAIN r |-> IF i \in K THEN <<r[i]>> ELSE <<>>])

PickedAt(s, r, K, pos) ==
  /\ pos \in Seq(K) /\ Rising(pos) /\ \A k \in K : \E j \in 1 .. Len(pos) : pos[j] = k
  /\ Len(s) = Len(pos) /\ \A j \in 1 .. Len(pos) : s[j] = r[pos[j]]

LEMMA PickedIs ==
  ASSUME NEW D, NEW r \in Seq(D), NEW K \in SUBSET (1 .. Len(r))
  PROVE  Picked(r, K) \in Seq(D) /\ \E pos : PickedAt(Picked(r, K), r, K, pos)
<1> DEFINE n == Len(r)
           seqs == [i \in DOMAIN r |-> IF i \in K THEN <<r[i]>> ELSE <<>>]
           s == FlattenSeq(seqs)
<1>1. n \in Nat /\ DOMAIN r = 1 .. n /\ \A i \in 1 .. n : r[i] \in D
  OBVIOUS
<1>2. seqs \in Seq(Seq(D)) /\ Len(seqs) = n
  <2>1. \A i \in 1 .. n : seqs[i] \in Seq(D)
    BY <1>1
  <2>2. seqs = [i \in 1 .. n |-> seqs[i]]
    BY <1>1
  <2> HIDE DEF seqs
  <2> QED
    BY <1>1, <2>1, <2>2
<1>3. \A i \in 1 .. n : /\ i \in K => Len(seqs[i]) = 1 /\ seqs[i][1] = r[i]
                        /\ i \notin K => Len(seqs[i]) = 0
  BY <1>1
<1> HIDE DEF seqs
<1>4. s \in Seq(D) /\ \E at : Traces(at, s, seqs, n)
  BY <1>2, FlattenedFrom
<1>5. PICK at : Traces(at, s, seqs, n)
  BY <1>4
<1> HIDE DEF s
<1>6. Len(s) \in Nat
  BY <1>4
<1> DEFINE P == PlacesOf(seqs, n)
           pos == [j \in 1 .. Len(s) |-> at[j][1]]
<1>7. \A p \in P : p[1] \in K /\ p[2] = 1 /\ p = <<p[1], 1>>
  <2> TAKE p \in P
  <2>1. p[1] \in 1 .. n /\ p[2] \in 1 .. Len(seqs[p[1]]) /\ p = <<p[1], p[2]>>
    BY DEF PlacesOf
  <2>2. p[1] \in K
    BY <1>3, <2>1
  <2>3. p[2] \in 1 .. 1
    BY <1>3, <2>1, <2>2
  <2> QED
    BY <2>1, <2>2, <2>3
<1>8. \A k \in K : <<k, 1>> \in P
  BY <1>1, <1>3 DEF PlacesOf
<1>9. \A j \in 1 .. Len(s) : at[j] \in P /\ pos[j] = at[j][1] /\ s[j] = seqs[at[j][1]][at[j][2]]
  BY <1>5 DEF Traces
<1>10. Len(pos) = Len(s) /\ pos \in Seq(K)
  <2>1. pos \in [1 .. Len(s) -> K]
    <3>1. \A j \in 1 .. Len(s) : pos[j] \in K
      BY <1>7, <1>9
    <3> QED
      BY <3>1
  <2> HIDE DEF pos
  <2> QED
    BY <1>6, <2>1
<1> HIDE DEF P, pos
<1>11. Rising(pos)
  <2> SUFFICES ASSUME NEW i \in 1 .. Len(s), NEW j \in 1 .. Len(s), i < j PROVE pos[i] < pos[j]
    BY <1>10 DEF Rising
  <2>1. Comes(at[i], at[j])
    BY <1>5 DEF Traces
  <2>2. at[i][2] = 1 /\ at[j][2] = 1
    BY <1>7, <1>9
  <2> QED
    BY <1>9, <2>1, <2>2 DEF Comes
<1>12. \A k \in K : \E j \in 1 .. Len(pos) : pos[j] = k
  <2> TAKE k \in K
  <2>1. PICK j \in 1 .. Len(s) : at[j] = <<k, 1>>
    BY <1>5, <1>8 DEF P, Traces
  <2> QED
    BY <1>9, <1>10, <2>1
<1>13. \A j \in 1 .. Len(pos) : s[j] = r[pos[j]]
  <2> TAKE j \in 1 .. Len(pos)
  <2>1. at[j] \in P /\ pos[j] = at[j][1] /\ s[j] = seqs[at[j][1]][at[j][2]]
    BY <1>9, <1>10
  <2>2. pos[j] \in K /\ at[j][2] = 1
    BY <1>7, <2>1
  <2> QED
    BY <1>1, <1>3, <2>1, <2>2
<1>14. PickedAt(s, r, K, pos)
  BY <1>10, <1>11, <1>12, <1>13 DEF PickedAt
<1> QED
  BY <1>4, <1>14 DEF s, seqs, Picked

(* Rising positions are told by which they are.                            *)
HasAll(q, p) == \A i \in 1 .. Len(p) : \E j \in 1 .. Len(q) : q[j] = p[i]

LEMMA RisingAgree ==
  ASSUME NEW p \in Seq(Nat), NEW q \in Seq(Nat), Rising(p), Rising(q), HasAll(q, p), HasAll(p, q)
  PROVE  Len(p) = Len(q) /\ \A i \in 1 .. Len(p) : p[i] = q[i]
<1> DEFINE m == Len(p)
           n == Len(q)
           S == {k \in 0 .. m : \A i \in 1 .. k : i <= n /\ p[i] = q[i]}
<1>1. m \in Nat /\ n \in Nat /\ (\A i \in 1 .. m : p[i] \in Nat) /\ (\A i \in 1 .. n : q[i] \in Nat)
  <2>1. m \in Nat /\ \A i \in 1 .. m : p[i] \in Nat
    OBVIOUS
  <2>2. n \in Nat /\ \A i \in 1 .. n : q[i] \in Nat
    OBVIOUS
  <2> QED
    BY <2>1, <2>2
<1> HIDE DEF m, n
<1>2. /\ \A i, j \in 1 .. m : i < j => p[i] < p[j]
      /\ \A i, j \in 1 .. n : i < j => q[i] < q[j]
  BY DEF Rising, m, n
<1>3. 0 \in S
  BY <1>1
<1>4. ASSUME NEW k \in 1 .. m, k - 1 \in S PROVE k \in S
  <2>1. \A i \in 1 .. (k - 1) : i <= n /\ p[i] = q[i]
    BY <1>4
  <2>2. PICK j \in 1 .. n : q[j] = p[k]
    BY DEF HasAll, m, n
  <2>3. k <= j
    <3> SUFFICES ASSUME j < k PROVE FALSE
      BY <1>1
    <3>1. j \in 1 .. (k - 1) /\ j \in 1 .. m
      BY <1>1
    <3>2. p[j] = q[j] /\ p[j] < p[k]
      BY <1>2, <2>1, <3>1
    <3> QED
      BY <1>1, <2>2, <3>1, <3>2
  <2>4. k \in 1 .. n
    BY <1>1, <2>3
  <2>5. PICK i \in 1 .. m : p[i] = q[k]
    BY <2>4 DEF HasAll, m, n
  <2>6. q[k] <= p[k]
    <3>1. CASE k = j
      BY <1>1, <2>2, <2>4, <3>1
    <3>2. CASE k < j
      <4>1. q[k] < q[j]
        BY <1>2, <2>4, <3>2
      <4>2. q[k] \in Nat /\ q[j] \in Nat
        BY <1>1, <2>4
      <4> DEFINE x == q[k]
                 y == q[j]
      <4>3. x < y /\ x \in Int /\ y \in Int
        BY <4>1, <4>2
      <4> HIDE DEF x, y
      <4>4. x <= y
        BY <4>3
      <4> QED
        BY <2>2, <4>4 DEF x, y
    <3> QED
      BY <1>1, <2>3, <3>1, <3>2
  <2>7. ~(k < i)
    <3>1. k < i => p[k] < p[i]
      BY <1>2
    <3> QED
      BY <1>1, <2>4, <2>5, <2>6, <3>1
  <2>8. ~(i < k)
    <3> SUFFICES ASSUME i < k PROVE FALSE
      OBVIOUS
    <3>1. i \in 1 .. (k - 1) /\ i \in 1 .. n
      BY <1>1, <2>4
    <3>2. p[i] = q[i] /\ q[i] < q[k]
      BY <1>2, <2>1, <2>4, <3>1
    <3> QED
      BY <1>1, <2>4, <2>5, <3>1, <3>2
  <2>9. p[k] = q[k]
    <3>1. i = k
      BY <1>1, <2>7, <2>8
    <3> QED
      BY <2>5, <3>1
  <2>10. \A h \in 1 .. k : h <= n /\ p[h] = q[h]
    <3> TAKE h \in 1 .. k
    <3>1. h = k \/ h \in 1 .. (k - 1)
      BY <1>1
    <3> QED
      BY <2>1, <2>4, <2>9, <3>1
  <2> QED
    BY <1>1, <2>10
<1> HIDE DEF S
<1>5. m \in S
  <2>1. \A k \in 0 .. m : k \in S
    BY <1>1, <1>3, <1>4, Induct
  <2> QED
    BY <1>1, <2>1
<1>6. \A i \in 1 .. m : i <= n /\ p[i] = q[i]
  BY <1>5 DEF S
<1>7. ~(m < n)
  <2> SUFFICES ASSUME m < n PROVE FALSE
    OBVIOUS
  <2>1. n \in 1 .. n
    BY <1>1
  <2>2. PICK i \in 1 .. m : p[i] = q[n]
    BY <2>1 DEF HasAll, m, n
  <2>3. i < n /\ i \in 1 .. n /\ p[i] = q[i]
    BY <1>1, <1>6
  <2>4. q[i] < q[n]
    BY <1>2, <2>1, <2>3
  <2> QED
    BY <1>1, <2>1, <2>2, <2>3, <2>4
<1>8. ~(n < m)
  <2> SUFFICES ASSUME n < m PROVE FALSE
    OBVIOUS
  <2>1. m \in 1 .. m
    BY <1>1
  <2>2. m <= n
    BY <1>6, <2>1
  <2> QED
    BY <1>1, <2>2
<1> QED
  BY <1>1, <1>6, <1>7, <1>8 DEF m, n

-------------------------------------------------------------------------------
(* THE READINGS ON FILE, SORTED                                            *)

Dated(acts) == /\ Len(acts) \in Nat /\ DOMAIN acts = 1 .. Len(acts)
               /\ \A i \in 1 .. Len(acts) : acts[i].date \in Int /\ acts[i].reading \in Int

(* One of two readings is the sooner one.                                  *)
LEMMA SoonerOrders ==
  ASSUME NEW acts, Dated(acts), NEW i \in 1 .. Len(acts), NEW j \in 1 .. Len(acts), NEW k \in 1 .. Len(acts)
  PROVE  /\ ~Sooner(acts, i, i)
         /\ Sooner(acts, i, j) /\ Sooner(acts, j, k) => Sooner(acts, i, k)
         /\ i = j \/ Sooner(acts, i, j) \/ Sooner(acts, j, i)
         /\ Sooner(acts, i, j) => acts[i].date <= acts[j].date
<1> DEFINE d(x) == acts[x].date
           r(x) == acts[x].reading
<1>1. /\ d(i) \in Int /\ d(j) \in Int /\ d(k) \in Int
      /\ r(i) \in Int /\ r(j) \in Int /\ r(k) \in Int
  BY DEF Dated
<1>2. i \in Int /\ j \in Int /\ k \in Int
  BY DEF Dated
<1>3. \A x, y : Sooner(acts, x, y) <=> \/ d(x) < d(y)
                                       \/ d(x) = d(y) /\ (r(x) < r(y) \/ (r(x) = r(y) /\ x < y))
  BY DEF Sooner
<1> HIDE DEF d, r
<1>4. ~Sooner(acts, i, i)
  BY <1>1, <1>2, <1>3
<1>5. Sooner(acts, i, j) /\ Sooner(acts, j, k) => Sooner(acts, i, k)
  BY <1>1, <1>2, <1>3
<1>6. i = j \/ Sooner(acts, i, j) \/ Sooner(acts, j, i)
  BY <1>1, <1>2, <1>3
<1>7. Sooner(acts, i, j) => d(i) <= d(j)
  BY <1>1, <1>3
<1> QED
  BY <1>4, <1>5, <1>6, <1>7 DEF d

(* The ranks are 1 to the number of readings.                              *)
LEMMA RanksAre ==
  ASSUME NEW acts, Dated(acts)
  PROVE  /\ [i \in 1 .. Len(acts) |-> Rank(acts, i)] \in Surjection(1 .. Len(acts), 1 .. Len(acts))
         /\ \A i, j \in 1 .. Len(acts) : Sooner(acts, i, j) => Rank(acts, i) < Rank(acts, j)
<1> DEFINE n == Len(acts)
           N == 1 .. n
           Below(i) == {j \in N : Sooner(acts, j, i)}
           rank == [i \in N |-> Rank(acts, i)]
<1>1. n \in Nat /\ IsFiniteSet(N) /\ Cardinality(N) = n
  <2>1. n \in Nat
    BY DEF Dated
  <2> HIDE DEF n
  <2>2. IsFiniteSet(1 .. n) /\ Cardinality(1 .. n) = IF 1 > n THEN 0 ELSE n - 1 + 1
    BY <2>1, FS_Interval
  <2> QED
    BY <2>1, <2>2
<1>2. ASSUME NEW i \in N
      PROVE  /\ Rank(acts, i) = Cardinality(Below(i)) + 1
             /\ IsFiniteSet(Below(i)) /\ Cardinality(Below(i)) \in Nat
             /\ Rank(acts, i) \in N
  <2>1. Rank(acts, i) = Cardinality(Below(i)) + 1
    BY DEF Dated, Rank
  <2>2. i \notin Below(i) /\ Below(i) \in SUBSET N
    BY SoonerOrders
  <2> HIDE DEF N, Below
  <2>3. IsFiniteSet(Below(i)) /\ Cardinality(Below(i)) <= Cardinality(N) /\ Cardinality(Below(i)) # Cardinality(N)
    BY <1>1, <2>2, FS_Subset
  <2>4. Cardinality(Below(i)) \in Nat
    BY <2>3, FS_CardinalityType
  <2>5. Cardinality(Below(i)) + 1 \in 1 .. n
    BY <1>1, <2>3, <2>4
  <2> QED
    BY <2>1, <2>3, <2>4, <2>5 DEF N
<1>3. ASSUME NEW i \in N, NEW j \in N, Sooner(acts, i, j) PROVE Rank(acts, i) < Rank(acts, j)
  <2>1. Below(i) \in SUBSET Below(j)
    BY <1>3, SoonerOrders
  <2>2. i \in Below(j) /\ i \notin Below(i)
    BY <1>3, SoonerOrders
  <2> HIDE DEF N, Below
  <2>3. Cardinality(Below(i)) <= Cardinality(Below(j)) /\ Cardinality(Below(i)) # Cardinality(Below(j))
    BY <1>2, <2>1, <2>2, FS_Subset
  <2> QED
    BY <1>2, <2>3
<1>4. rank \in Injection(N, N)
  <2>1. rank \in [N -> N]
    BY <1>2
  <2>2. ASSUME NEW i \in N, NEW j \in N, rank[i] = rank[j] PROVE i = j
    <3>1. Rank(acts, i) = Rank(acts, j)
      BY <2>2
    <3>0. Rank(acts, i) \in Int
      <4>1. Rank(acts, i) \in N
        BY <1>2
      <4> QED
        BY <1>1, <4>1
    <3>2. ~Sooner(acts, i, j) /\ ~Sooner(acts, j, i)
      BY <1>3, <3>0, <3>1
    <3> QED
      BY <3>2, SoonerOrders
  <2> HIDE DEF rank, N
  <2> QED
    BY <2>1, <2>2 DEF Injection, IsInjective
<1>5. rank \in Surjection(N, N)
  <2> HIDE DEF rank, N
  <2> QED
    BY <1>1, <1>4, FS_Injection
<1> QED
  BY <1>3, <1>5

(* What is at each rank: the sooner at the lower one.                      *)
LEMMA SortedIs ==
  ASSUME NEW acts, Dated(acts)
  PROVE  \E p \in [1 .. Len(acts) -> 1 .. Len(acts)] :
           /\ \A k \in 1 .. Len(acts) : p[k] = CHOOSE i \in DOMAIN acts : Rank(acts, i) = k
           /\ \A i \in 1 .. Len(acts) : \E k \in 1 .. Len(acts) : p[k] = i
           /\ \A j, k \in 1 .. Len(acts) : j < k => Sooner(acts, p[j], p[k])
<1> DEFINE N == 1 .. Len(acts)
           rank == [i \in N |-> Rank(acts, i)]
           p == [k \in N |-> CHOOSE i \in N : Rank(acts, i) = k]
<1>1. DOMAIN acts = N
  BY DEF Dated
<1>2. rank \in Surjection(N, N)
  BY RanksAre
<1>3. \A i, j \in N : Sooner(acts, i, j) => Rank(acts, i) < Rank(acts, j)
  BY RanksAre
<1>4. \A k \in N : k \in Int
  BY DEF Dated
<1>5. \A i \in N : Rank(acts, i) \in N
  <2>1. \A i \in N : rank[i] \in N
    <3> HIDE DEF N, rank
    <3> QED
      BY <1>2 DEF Surjection
  <2> QED
    BY <2>1
<1>6. \A k \in N : p[k] \in N /\ Rank(acts, p[k]) = k
  <2>1. \A k \in N : \E i \in N : rank[i] = k
    <3> HIDE DEF N, rank
    <3> QED
      BY <1>2 DEF Surjection
  <2>2. \A k \in N : \E i \in N : Rank(acts, i) = k
    BY <2>1
  <2> HIDE DEF N
  <2> QED
    BY <2>2
<1> HIDE DEF N
<1>7. \A j, k \in N : j < k => Sooner(acts, p[j], p[k])
  <2> SUFFICES ASSUME NEW j \in N, NEW k \in N, j < k PROVE Sooner(acts, p[j], p[k])
    OBVIOUS
  <2>1. p[j] \in N /\ p[k] \in N /\ Rank(acts, p[j]) = j /\ Rank(acts, p[k]) = k /\ j \in Int /\ k \in Int
    BY <1>4, <1>6
  <2> HIDE DEF p
  <2>2. p[j] # p[k]
    BY <2>1
  <2>3. ~Sooner(acts, p[k], p[j])
    <3>1. Sooner(acts, p[k], p[j]) => k < j
      BY <1>3, <2>1
    <3> QED
      BY <2>1, <3>1
  <2> QED
    BY <2>1, <2>2, <2>3, SoonerOrders DEF N
<1>8. \A i \in N : \E k \in N : p[k] = i
  <2> SUFFICES ASSUME NEW i \in N PROVE p[Rank(acts, i)] = i
    BY <1>5
  <2> DEFINE k == Rank(acts, i)
             h == p[k]
  <2>1. k \in N /\ h \in N /\ Rank(acts, h) = k
    BY <1>5, <1>6
  <2> HIDE DEF h
  <2>2. ~Sooner(acts, i, h) /\ ~Sooner(acts, h, i)
    <3>1. ~(k < k)
      BY <1>4, <2>1
    <3> QED
      BY <1>3, <2>1, <3>1
  <2>3. i = h
    BY <2>1, <2>2, SoonerOrders DEF N
  <2> QED
    BY <2>3 DEF h
<1>9. p \in [N -> N] /\ \A k \in N : p[k] = CHOOSE i \in DOMAIN acts : Rank(acts, i) = k
  <2>1. \A k \in N : p[k] = CHOOSE i \in N : Rank(acts, i) = k
    OBVIOUS
  <2>2. p \in [N -> N]
    BY <1>6
  <2> HIDE DEF p
  <2> QED
    BY <1>1, <2>1, <2>2
<1> HIDE DEF p
<1> QED
  BY <1>7, <1>8, <1>9 DEF N

-------------------------------------------------------------------------------
(* THE HISTORY OF AN ORDINANCE                                             *)

(* Where the entries of all minutes are.                                   *)
Acted == {p \in (1 .. Len(meetings)) \X Nat : p[2] \in 1 .. Len(meetings[p[1]].entries)}
EntryAt(p) == meetings[p[1]].entries[p[2]]

HeldInOrder == \A i, j \in 1 .. Len(meetings) : i <= j => meetings[i].held <= meetings[j].held

(* What an entry leaves to be done, and what may come before another one.  *)
Leaves(p) == LET e == EntryAt(p) IN /\ e.reading <= next[e.title.of]
                                    /\ Decides(e) => next[e.title.of] = 4

Precedes(p, q) == EntryAt(p).title.of = EntryAt(q).title.of =>
                    ~Decides(EntryAt(p)) /\ EntryAt(p).reading <= EntryAt(q).reading

HistoryInv ==
  /\ HeldInOrder
  /\ \A p \in Acted : Leaves(p)
  /\ \A p, q \in Acted : Comes(p, q) => Precedes(p, q)

LEMMA PlaceOf ==
  ASSUME LedgerInv
  PROVE  /\ Len(meetings) \in Nat /\ DOMAIN meetings = 1 .. Len(meetings)
         /\ \A i \in 1 .. Len(meetings) : /\ meetings[i] \in Meeting /\ meetings[i].entries \in Seq(Entry)
                                          /\ Len(meetings[i].entries) \in Nat
                                          /\ DOMAIN meetings[i].entries = 1 .. Len(meetings[i].entries)
         /\ \A p \in Acted : /\ p[1] \in 1 .. Len(meetings) /\ p[2] \in 1 .. Len(meetings[p[1]].entries)
                             /\ p = <<p[1], p[2]>> /\ EntryAt(p) \in Entry
         /\ \A i \in 1 .. Len(meetings) : \A k \in 1 .. Len(meetings[i].entries) : <<i, k>> \in Acted
<1>1. Len(meetings) \in Nat /\ DOMAIN meetings = 1 .. Len(meetings) /\ \A i \in 1 .. Len(meetings) : meetings[i] \in Meeting
  BY DEF LedgerInv
<1>2. \A i \in 1 .. Len(meetings) : /\ meetings[i].entries \in Seq(Entry)
                                    /\ Len(meetings[i].entries) \in Nat
                                    /\ DOMAIN meetings[i].entries = 1 .. Len(meetings[i].entries)
                                    /\ \A k \in 1 .. Len(meetings[i].entries) : meetings[i].entries[k] \in Entry
  <2> TAKE i \in 1 .. Len(meetings)
  <2> DEFINE entries == meetings[i].entries
  <2>1. entries \in Seq(Entry)
    BY <1>1 DEF Meeting
  <2> HIDE DEF entries
  <2>2. Len(entries) \in Nat /\ DOMAIN entries = 1 .. Len(entries) /\ \A k \in 1 .. Len(entries) : entries[k] \in Entry
    BY <2>1
  <2> QED
    BY <2>1, <2>2 DEF entries
<1>3. ASSUME NEW p \in Acted
      PROVE  /\ p[1] \in 1 .. Len(meetings) /\ p[2] \in 1 .. Len(meetings[p[1]].entries)
             /\ p = <<p[1], p[2]>> /\ EntryAt(p) \in Entry
  <2>1. p \in (1 .. Len(meetings)) \X Nat /\ p[2] \in 1 .. Len(meetings[p[1]].entries)
    BY DEF Acted
  <2>2. p[1] \in 1 .. Len(meetings) /\ p = <<p[1], p[2]>>
    BY <2>1
  <2> QED
    BY <1>2, <2>1, <2>2 DEF EntryAt
<1>4. ASSUME NEW i \in 1 .. Len(meetings), NEW k \in 1 .. Len(meetings[i].entries) PROVE <<i, k>> \in Acted
  BY <1>2 DEF Acted
<1> QED
  BY <1>1, <1>2, <1>3, <1>4

LEMMA HistoryStart == LedgerInit => HistoryInv
<1> SUFFICES ASSUME LedgerInit PROVE HistoryInv
  OBVIOUS
<1>1. 1 .. Len(meetings) = {}
  BY DEF LedgerInit
<1>2. Acted = {}
  BY <1>1 DEF Acted
<1> QED
  BY <1>1, <1>2 DEF HistoryInv, HeldInOrder

(* A step that changes no entry.                                           *)
LEMMA HistoryIsKept ==
  ASSUME HistoryInv, HeldInOrder', Acted' = Acted, next' = next,
         \A p \in Acted : EntryAt(p)' = EntryAt(p)
  PROVE  HistoryInv'
<1>1. \A p \in Acted' : Leaves(p)'
  BY DEF HistoryInv, Leaves, Decides
<1>2. \A p, q \in Acted' : Comes(p, q) => Precedes(p, q)'
  <2> TAKE p, q \in Acted'
  <2>1. p \in Acted /\ q \in Acted /\ EntryAt(p)' = EntryAt(p) /\ EntryAt(q)' = EntryAt(q)
    OBVIOUS
  <2>2. Comes(p, q) => Precedes(p, q)
    BY <2>1 DEF HistoryInv
  <2>3. Precedes(p, q)' <=> Precedes(p, q)
    BY <2>1 DEF Precedes, Decides
  <2> QED
    BY <2>2, <2>3
<1> QED
  BY <1>1, <1>2 DEF HistoryInv, Comes

LEMMA ConveneGoesOn ==
  ASSUME LedgerInv, HistoryInv, NEW session \in Sessions, NEW items \in Agendas, Convene(session, items)
  PROVE  HistoryInv'
<1> DEFINE held == IF meetings = <<>> THEN 1 ELSE Last(meetings).held + session.gap
           n == Len(meetings)
           m == [held |-> held, listed |-> held + session.late, kind |-> session.kind,
                 agenda |-> {Title(o) : o \in items}, entries |-> <<>>]
<1>1. meetings' = Append(meetings, m) /\ next' = next
  BY DEF Convene
<1>2. n \in Nat /\ meetings \in Seq(Meeting) /\ \A i \in 1 .. n : meetings[i].held \in Nat
  <2>1. \A i \in 1 .. n : meetings[i] \in Meeting
    BY PlaceOf
  <2> QED
    BY <2>1, PlaceOf DEF LedgerInv, Meeting
<1>3. \A i \in 1 .. n : meetings[i].held <= held /\ held \in Nat
  <2> TAKE i \in 1 .. n
  <2>1. meetings # <<>>
    BY <1>2
  <2>2. n \in 1 .. n /\ Last(meetings) = meetings[n]
    BY <2>1, LastMeetingIs
  <2>3. meetings[i].held <= meetings[n].held
    BY <1>2, <2>2 DEF HistoryInv, HeldInOrder
  <2>4. held = meetings[n].held + session.gap /\ session.gap \in Nat
    BY <2>1, <2>2, LedgerConstants
  <2> HIDE DEF held
  <2> QED
    BY <1>2, <2>2, <2>3, <2>4
<1>4. m.held = held /\ m.entries = <<>>
  OBVIOUS
<1> HIDE DEF m
<1>5. /\ Len(meetings') = n + 1 /\ meetings'[n + 1] = m
      /\ \A i \in 1 .. n : meetings'[i] = meetings[i]
  BY <1>1, <1>2
<1> HIDE DEF n, held
<1>6. HeldInOrder'
  <2> SUFFICES ASSUME NEW i \in 1 .. (n + 1), NEW j \in 1 .. (n + 1), i <= j
               PROVE  meetings'[i].held <= meetings'[j].held
    BY <1>5 DEF HeldInOrder
  <2>1. CASE j \in 1 .. n
    <3>1. i \in 1 .. n
      BY <1>2, <2>1
    <3> QED
      BY <1>5, <2>1, <3>1 DEF HistoryInv, HeldInOrder, n
  <2>2. CASE j = n + 1 /\ i \in 1 .. n
    BY <1>3, <1>4, <1>5, <2>2
  <2>3. CASE j = n + 1 /\ i = n + 1
    <3>1. held \in Int
      BY LastMeetingIs, LedgerConstants DEF held, Meeting
    <3> QED
      BY <1>4, <1>5, <2>3, <3>1
  <2> QED
    BY <1>2, <2>1, <2>2, <2>3
<1>7. \A p : p \in Acted' <=> p \in Acted
  <2> TAKE p
  <2>1. ASSUME p \in Acted' PROVE p \in Acted
    <3>1. p \in (1 .. (n + 1)) \X Nat /\ p[2] \in 1 .. Len(meetings'[p[1]].entries)
      BY <1>5, <2>1 DEF Acted
    <3>2. p[1] \in 1 .. (n + 1) /\ p = <<p[1], p[2]>> /\ p[2] \in Nat
      BY <3>1
    <3>3. p[1] # n + 1
      <4> SUFFICES ASSUME p[1] = n + 1 PROVE FALSE
        OBVIOUS
      <4>1. p[2] \in 1 .. Len(<<>>)
        BY <1>4, <1>5, <3>1
      <4> QED
        BY <4>1
    <3>4. p[1] \in 1 .. n
      BY <1>2, <3>2, <3>3
    <3>5. meetings'[p[1]] = meetings[p[1]]
      BY <1>5, <3>4
    <3> QED
      BY <3>1, <3>2, <3>4, <3>5 DEF Acted, n
  <2>2. ASSUME p \in Acted PROVE p \in Acted'
    <3>1. p[1] \in 1 .. n /\ p = <<p[1], p[2]>> /\ p[2] \in Nat /\ p[2] \in 1 .. Len(meetings[p[1]].entries)
      BY <2>2, PlaceOf DEF Acted, n
    <3>2. p[1] \in 1 .. (n + 1) /\ meetings'[p[1]] = meetings[p[1]]
      BY <1>2, <1>5, <3>1
    <3>3. p \in (1 .. Len(meetings')) \X Nat /\ p[2] \in 1 .. Len(meetings'[p[1]].entries)
      BY <1>5, <3>1, <3>2
    <3> QED
      BY <3>3 DEF Acted
  <2> QED
    BY <2>1, <2>2
<1>8. Acted' = Acted
  BY <1>7 DEF Acted
<1>9. \A p \in Acted : EntryAt(p)' = EntryAt(p)
  BY <1>5, PlaceOf DEF EntryAt, n
<1> QED
  BY <1>1, <1>6, <1>8, <1>9, HistoryIsKept

(* An act of the council is an entry after all the others.                 *)
NewPlace == <<Len(meetings), Len(Last(meetings).entries) + 1>>

LEMMA ActAdds ==
  ASSUME LedgerInv, HeldInOrder, NEW o \in Ordinance, NEW decision \in Decisions[o], Act(o, decision)
  PROVE  \E e : /\ e.title.of = o /\ e.reading = next[o] /\ e.result = decision.result
                /\ \A p : p \in Acted' <=> p \in Acted \/ p = NewPlace
                /\ meetings'[NewPlace[1]].entries[NewPlace[2]] = e
                /\ \A p \in Acted : EntryAt(p)' = EntryAt(p) /\ Comes(p, NewPlace) /\ ~Comes(NewPlace, p)
                /\ HeldInOrder'
<1> DEFINE today == Last(meetings)
           n == Len(meetings)
<1>1. PICK title \in {t \in today.agenda : t.of = o} :
        meetings' = [meetings EXCEPT ![n].entries =
          Append(@, [title |-> title, reading |-> next[o], result |-> decision.result, substitute |-> decision.amended,
                     to |-> IF decision.after = 0 THEN 0 ELSE today.held + decision.after])]
  BY DEF Act
<1> DEFINE e == [title |-> title, reading |-> next[o], result |-> decision.result, substitute |-> decision.amended,
                 to |-> IF decision.after = 0 THEN 0 ELSE today.held + decision.after]
           old == today.entries
           m == [today EXCEPT !.entries = Append(old, e)]
           L == Len(old)
<1>2. n \in 1 .. n /\ n \in Nat /\ today = meetings[n] /\ today \in Meeting
  BY LastMeetingIs, PlaceOf DEF Act
<1>3. meetings' = [meetings EXCEPT ![n] = m]
  BY <1>1, <1>2
<1>4. e.title.of = o /\ e.reading = next[o] /\ e.result = decision.result
  OBVIOUS
<1> HIDE DEF e
<1>5. old \in Seq(Entry) /\ L \in Nat
  BY <1>2 DEF Meeting
<1>6. m.held = today.held /\ m.entries = Append(old, e)
  BY <1>2 DEF Meeting
<1> HIDE DEF m
<1>7. /\ DOMAIN meetings = 1 .. n /\ meetings \in Seq(Meeting)
      /\ DOMAIN meetings' = 1 .. n /\ Len(meetings') = n /\ meetings'[n] = m
      /\ \A i \in 1 .. n : i # n => meetings'[i] = meetings[i]
  <2>1. meetings \in Seq(Meeting)
    BY DEF LedgerInv
  <2> QED
    BY <1>2, <1>3, <2>1
<1> DEFINE entries == m.entries
<1>8. Len(entries) = L + 1 /\ entries[L+1] = e /\ \A k \in 1 .. L : entries[k] = old[k]
  BY <1>5, <1>6
<1>9. NewPlace[1] = n /\ NewPlace[2] = L + 1 /\ NewPlace = <<n, L + 1>>
  BY DEF NewPlace
<1> HIDE DEF n, L, today, old, entries
<1>10. ASSUME NEW p \in Acted
       PROVE  /\ p \in Acted' /\ EntryAt(p)' = EntryAt(p) /\ Comes(p, NewPlace) /\ ~Comes(NewPlace, p)
  <2>1. /\ p[1] \in 1 .. n /\ p[2] \in 1 .. Len(meetings[p[1]].entries) /\ p = <<p[1], p[2]>> /\ p[2] \in Nat
        /\ p \in (1 .. n) \X Nat
    BY PlaceOf DEF Acted, n
  <2>2. CASE p[1] = n
    <3>1. p[2] \in 1 .. L
      BY <1>2, <2>1, <2>2 DEF L, old
    <3>2. p[2] \in 1 .. (L + 1)
      BY <1>5, <3>1
    <3>3. p[2] \in 1 .. Len(meetings'[p[1]].entries) /\ EntryAt(p)' = EntryAt(p)
      BY <1>2, <1>7, <1>8, <2>2, <3>1, <3>2 DEF EntryAt, entries, old
    <3>4. p \in Acted'
      BY <1>7, <2>1, <3>3 DEF Acted
    <3>5. p[1] = NewPlace[1] /\ p[2] < NewPlace[2] /\ p[1] \in Int /\ p[2] \in Int /\ NewPlace[2] \in Int
      BY <1>5, <1>9, <1>2, <2>2, <3>1
    <3> QED
      BY <3>3, <3>4, <3>5 DEF Comes
  <2>3. CASE p[1] # n
    <3>1. meetings'[p[1]] = meetings[p[1]]
      BY <1>7, <2>1, <2>3
    <3>2. p \in Acted' /\ EntryAt(p)' = EntryAt(p)
      BY <1>7, <2>1, <3>1 DEF Acted, EntryAt
    <3>3. p[1] < NewPlace[1] /\ p[1] \in Int /\ NewPlace[1] \in Int
      BY <1>2, <1>9, <2>1, <2>3
    <3> QED
      BY <3>2, <3>3 DEF Comes
  <2> QED
    BY <2>2, <2>3
<1>11. NewPlace \in Acted'
  <2>1. NewPlace \in (1 .. n) \X Nat
    BY <1>2, <1>5, <1>9
  <2>2. NewPlace[2] \in 1 .. Len(meetings'[NewPlace[1]].entries)
    BY <1>5, <1>7, <1>8, <1>9 DEF entries
  <2> QED
    BY <1>7, <2>1, <2>2 DEF Acted
<1>12. ASSUME NEW p \in Acted' PROVE p \in Acted \/ p = NewPlace
  <2>1. p \in (1 .. n) \X Nat /\ p[2] \in 1 .. Len(meetings'[p[1]].entries)
    BY <1>7 DEF Acted
  <2>2. p[1] \in 1 .. n /\ p = <<p[1], p[2]>> /\ p[2] \in Nat
    BY <2>1
  <2>3. CASE p[1] = n
    <3>1. p[2] \in 1 .. (L + 1)
      BY <1>7, <1>8, <2>1, <2>3 DEF entries
    <3>2. p[2] = L + 1 \/ p[2] \in 1 .. L
      BY <1>5, <3>1
    <3>3. ASSUME p[2] \in 1 .. L PROVE p \in Acted
      BY <1>2, <2>1, <2>3, <3>3 DEF Acted, L, old, n
    <3> QED
      BY <1>9, <2>2, <2>3, <3>2, <3>3
  <2>4. CASE p[1] # n
    <3>1. meetings'[p[1]] = meetings[p[1]]
      BY <1>7, <2>2, <2>4
    <3> QED
      BY <2>1, <3>1 DEF Acted, n
  <2> QED
    BY <2>3, <2>4
<1>13. HeldInOrder'
  <2>1. \A i \in 1 .. n : meetings'[i].held = meetings[i].held
    BY <1>2, <1>6, <1>7
  <2>2. ASSUME NEW i \in 1 .. n, NEW j \in 1 .. n, i <= j PROVE meetings'[i].held <= meetings'[j].held
    <3>1. meetings[i].held <= meetings[j].held
      BY <2>2 DEF HeldInOrder, n
    <3> QED
      BY <2>1, <3>1
  <2> QED
    BY <1>7, <2>2 DEF HeldInOrder
<1>14. meetings'[NewPlace[1]].entries[NewPlace[2]] = e
  BY <1>7, <1>8, <1>9 DEF entries
<1>15. \A p : p \in Acted' <=> p \in Acted \/ p = NewPlace
  BY <1>10, <1>11, <1>12
<1> QED
  BY <1>4, <1>10, <1>13, <1>14, <1>15

LEMMA ActGoesOn ==
  ASSUME LedgerInv, HistoryInv, NEW o \in Ordinance, NEW decision \in Decisions[o], Act(o, decision)
  PROVE  HistoryInv'
<1>0. PICK new : new = NewPlace
  OBVIOUS
<1>1. HeldInOrder
  BY DEF HistoryInv
<1>2. PICK e : /\ e.title.of = o /\ e.reading = next[o] /\ e.result = decision.result
               /\ \A p : p \in Acted' <=> p \in Acted \/ p = new
               /\ meetings'[new[1]].entries[new[2]] = e
               /\ \A p \in Acted : EntryAt(p)' = EntryAt(p) /\ Comes(p, new) /\ ~Comes(new, p)
               /\ HeldInOrder'
  BY <1>0, <1>1, ActAdds
<1> DEFINE due == CASE decision.result = "carried" -> next[o] + 1
                    [] decision.result = "failed" -> 4
                    [] decision.result = "postponed" -> next[o]
<1>3. next' = [next EXCEPT ![o] = due] /\ next[o] <= 3 /\ next \in [Ordinance -> 1 .. 4]
  BY DEF Act, LedgerInv
<1>4. decision.result \in {"carried", "failed", "postponed"}
  BY LedgerConstants
<1>5. next[o] \in Int /\ due \in Int /\ next[o] <= due
  BY <1>3, <1>4
<1>6. decision.result = "failed" => due = 4
  BY <1>4
<1>7. next[o] = 3 /\ decision.result = "carried" => due = 4
  OBVIOUS
<1>8. next'[o] = due /\ \A x \in Ordinance : x # o => next'[x] = next[x]
  <2> HIDE DEF due
  <2> QED
    BY <1>3
<1> HIDE DEF due
<1>9. \A p \in Acted : EntryAt(p).title.of \in Ordinance /\ EntryAt(p).reading \in Int
  BY PlaceOf DEF Entry, Titles
<1>10. ASSUME NEW p \in Acted
       PROVE  /\ Leaves(p)'
              /\ EntryAt(p).title.of = o => ~Decides(EntryAt(p)) /\ EntryAt(p).reading <= next[o]
  <2> DEFINE f == EntryAt(p)
             x == f.title.of
  <2>1. /\ x \in Ordinance /\ f.reading \in Int /\ EntryAt(p)' = f
        /\ f.reading <= next[x] /\ (Decides(f) => next[x] = 4)
    BY <1>2, <1>9 DEF HistoryInv, Leaves
  <2>2. next[x] \in Int /\ next'[x] \in Int
    BY <1>3, <1>5, <1>8, <2>1
  <2> HIDE DEF f
  <2>3. Decides(f)' <=> Decides(f)
    BY <2>1 DEF Decides, f
  <2>4. CASE x = o
    <3>1. ~Decides(f) /\ f.reading <= next[o]
      BY <1>3, <2>1, <2>4
    <3>2. f.reading <= next'[x]
      BY <1>5, <1>8, <2>1, <2>2, <2>4, <3>1
    <3>3. Leaves(p)'
      BY <2>1, <3>1, <3>2 DEF Leaves, Decides
    <3> QED
      BY <3>1, <3>3 DEF f
  <2>5. CASE x # o
    <3>1. next'[x] = next[x]
      BY <1>8, <2>1, <2>5
    <3>2. Leaves(p)'
      BY <2>1, <3>1 DEF Leaves, Decides
    <3> QED
      BY <2>5, <3>2 DEF f
  <2> QED
    BY <2>4, <2>5
<1>11. Leaves(new)'
  <2>1. EntryAt(new)' = e
    BY <1>2 DEF EntryAt
  <2>2. e.reading <= next'[o] /\ (Decides(e) => next'[o] = 4)
    BY <1>2, <1>5, <1>6, <1>7, <1>8 DEF Decides
  <2> QED
    BY <1>2, <2>1, <2>2 DEF Leaves, Decides
<1>12. \A p \in Acted' : Leaves(p)'
  BY <1>2, <1>10, <1>11
<1>13. ASSUME NEW p \in Acted', NEW q \in Acted', Comes(p, q) PROVE Precedes(p, q)'
  <2>1. CASE p \in Acted /\ q \in Acted
    <3>1. Precedes(p, q) /\ EntryAt(p)' = EntryAt(p) /\ EntryAt(q)' = EntryAt(q)
      BY <1>2, <1>13, <2>1 DEF HistoryInv
    <3> QED
      BY <3>1 DEF Precedes, Decides
  <2>2. CASE p \in Acted /\ q = new
    <3>1. meetings'[q[1]].entries[q[2]] = e /\ EntryAt(p)' = EntryAt(p)
      BY <1>2, <2>2
    <3>2. EntryAt(q)' = e
      BY <3>1 DEF EntryAt
    <3> QED
      BY <1>2, <1>10, <2>2, <3>1, <3>2 DEF Precedes, Decides
  <2>3. CASE p = new
    <3>1. new[1] \in Int /\ new[2] \in Int
      <4>1. Len(meetings) \in Nat /\ Last(meetings).entries \in Seq(Entry)
        BY LastMeetingIs, PlaceOf DEF Act, Meeting
      <4> QED
        BY <1>0, <4>1 DEF NewPlace
    <3>2. ~Comes(new, new)
      BY <3>1 DEF Comes
    <3> QED
      BY <1>2, <1>13, <2>3, <3>2
  <2> QED
    BY <1>2, <2>1, <2>2, <2>3
<1>14. \A p, q \in Acted' : Comes(p, q) => Precedes(p, q)'
  BY <1>13
<1> QED
  BY <1>2, <1>12, <1>14 DEF HistoryInv, Comes

LEMMA HistoryStep == LedgerInv /\ HistoryInv /\ [LedgerNext]_ledgerVars => HistoryInv'
<1> SUFFICES ASSUME LedgerInv, HistoryInv, [LedgerNext]_ledgerVars PROVE HistoryInv'
  OBVIOUS
<1>1. CASE UNCHANGED ledgerVars
  <2>1. meetings' = meetings /\ next' = next
    BY <1>1 DEF ledgerVars
  <2>2. HeldInOrder' /\ Acted' = Acted /\ \A p \in Acted : EntryAt(p)' = EntryAt(p)
    BY <2>1 DEF HistoryInv, HeldInOrder, Acted, EntryAt
  <2> QED
    BY <2>1, <2>2, HistoryIsKept
<1>2. CASE LedgerNext
  BY <1>2, ConveneGoesOn, ActGoesOn DEF LedgerNext
<1> QED
  BY <1>1, <1>2

-------------------------------------------------------------------------------
(* WHERE THE READINGS ARE FROM                                             *)

Regular == {p \in Acted : meetings[p[1]].kind = "regular"}

(* What is on file of the entry at a place.                                *)
IsFiled(f, p) == FileOf(f, meetings[p[1]].held, EntryAt(p))

Origins(r, at) ==
  /\ at \in [1 .. Len(r) -> Regular]
  /\ \A k \in 1 .. Len(r) : IsFiled(r[k], at[k])
  /\ \A j, k \in 1 .. Len(r) : at[j] = at[k] => j = k
  /\ \A p \in Regular : \E k \in 1 .. Len(r) : at[k] = p
  /\ \A j, k \in 1 .. Len(r) : j < k => r[j].date <= r[k].date
  /\ \A j, k \in 1 .. Len(r) : j < k /\ r[j].title.of = r[k].title.of => Comes(at[j], at[k])

(* The readings on file, before they are sorted.                           *)
LEMMA OnFileFrom ==
  ASSUME LedgerInv, HistoryInv
  PROVE  /\ ReadingsOnFile \in Seq(Filed)
         /\ \E at : /\ at \in [1 .. Len(ReadingsOnFile) -> Regular]
                    /\ \A k \in 1 .. Len(ReadingsOnFile) : IsFiled(ReadingsOnFile[k], at[k])
                    /\ \A j, k \in 1 .. Len(ReadingsOnFile) : j < k => Comes(at[j], at[k])
                    /\ \A p \in Regular : \E k \in 1 .. Len(ReadingsOnFile) : at[k] = p
<1> DEFINE n == Len(meetings)
           r == ReadingsOnFile
           seqs == [i \in DOMAIN meetings |-> IF meetings[i].kind = "special" THEN <<>> ELSE EntriesOf(meetings[i])]
<1>1. n \in Nat /\ DOMAIN meetings = 1 .. n /\ \A i \in 1 .. n : meetings[i] \in Meeting
  BY PlaceOf
<1>2. ASSUME NEW i \in 1 .. n
      PROVE  /\ seqs[i] \in Seq(Filed)
             /\ meetings[i].kind = "regular" =>
                  /\ Len(seqs[i]) = Len(meetings[i].entries)
                  /\ \A k \in 1 .. Len(meetings[i].entries) :
                       FileOf(seqs[i][k], meetings[i].held, meetings[i].entries[k])
             /\ meetings[i].kind # "regular" => Len(seqs[i]) = 0
  <2> DEFINE m == meetings[i]
  <2>1. m \in Meeting /\ m.kind \in {"regular", "special", "unfiled"}
    BY <1>1 DEF Meeting
  <2>2. seqs[i] = IF m.kind = "special" THEN <<>> ELSE EntriesOf(m)
    BY <1>1
  <2> HIDE DEF m, seqs
  <2>3. CASE m.kind = "special"
    BY <2>2, <2>3 DEF m
  <2>4. CASE m.kind = "unfiled"
    BY <2>1, <2>2, <2>4, EntriesOfIs DEF m
  <2>5. CASE m.kind = "regular"
    <3>1. Date(m) = m.held
      BY <2>5 DEF Date
    <3> QED
      BY <2>1, <2>2, <2>5, <3>1, EntriesOfIs DEF m
  <2> QED
    BY <2>1, <2>3, <2>4, <2>5
<1>3. seqs \in Seq(Seq(Filed)) /\ Len(seqs) = n
  <2>1. seqs = [i \in 1 .. n |-> seqs[i]]
    BY <1>1
  <2> HIDE DEF seqs
  <2> QED
    BY <1>1, <1>2, <2>1
<1>4. r = FlattenSeq(seqs)
  BY DEF ReadingsOnFile
<1> HIDE DEF seqs, r
<1>5. r \in Seq(Filed) /\ \E at : Traces(at, r, seqs, n)
  BY <1>3, <1>4, FlattenedFrom
<1>6. PICK at : Traces(at, r, seqs, n)
  BY <1>5
<1> DEFINE P == PlacesOf(seqs, n)
<1>7. ASSUME NEW p \in P PROVE p \in Regular /\ IsFiled(seqs[p[1]][p[2]], p)
  <2>1. p \in (1 .. n) \X Nat /\ p[2] \in 1 .. Len(seqs[p[1]])
    BY DEF PlacesOf
  <2>2. p[1] \in 1 .. n /\ p[2] \in Nat
    BY <2>1
  <2>3. meetings[p[1]].kind = "regular"
    BY <1>2, <2>1, <2>2
  <2>4. /\ Len(seqs[p[1]]) = Len(meetings[p[1]].entries)
        /\ \A k \in 1 .. Len(meetings[p[1]].entries) :
             FileOf(seqs[p[1]][k], meetings[p[1]].held, meetings[p[1]].entries[k])
    BY <1>2, <2>2, <2>3
  <2>5. p[2] \in 1 .. Len(meetings[p[1]].entries)
    BY <2>1, <2>4
  <2>6. FileOf(seqs[p[1]][p[2]], meetings[p[1]].held, meetings[p[1]].entries[p[2]])
    BY <2>4, <2>5
  <2> QED
    BY <2>1, <2>3, <2>5, <2>6 DEF Regular, Acted, IsFiled, EntryAt
<1>8. ASSUME NEW p \in Regular PROVE p \in P
  <2>1. /\ p \in (1 .. n) \X Nat /\ p[2] \in 1 .. Len(meetings[p[1]].entries)
        /\ p[1] \in 1 .. n /\ meetings[p[1]].kind = "regular"
    BY PlaceOf DEF Regular, Acted
  <2>2. Len(seqs[p[1]]) = Len(meetings[p[1]].entries)
    BY <1>2, <2>1
  <2> QED
    BY <2>1, <2>2 DEF PlacesOf
<1>9. \A k \in 1 .. Len(r) : at[k] \in P /\ r[k] = seqs[at[k][1]][at[k][2]]
  BY <1>6 DEF Traces
<1>10. at \in [1 .. Len(r) -> Regular]
  <2>1. at \in [1 .. Len(r) -> P]
    BY <1>6 DEF Traces
  <2> HIDE DEF P
  <2> QED
    BY <1>7, <2>1
<1>11. \A k \in 1 .. Len(r) : IsFiled(r[k], at[k])
  BY <1>7, <1>9
<1>12. \A j, k \in 1 .. Len(r) : j < k => Comes(at[j], at[k])
  BY <1>6 DEF Traces
<1>13. \A p \in Regular : \E k \in 1 .. Len(r) : at[k] = p
  BY <1>6, <1>8 DEF Traces
<1> QED
  BY <1>5, <1>10, <1>11, <1>12, <1>13 DEF r

(* Sorted, the readings of an ordinance are in the order of the acts.      *)
LEMMA ReadingsAre ==
  ASSUME LedgerInv, HistoryInv
  PROVE  Readings \in Seq(Filed) /\ \E at : Origins(Readings, at)
<1> DEFINE acts == ReadingsOnFile
           n == Len(acts)
           r == Readings
<1>1. acts \in Seq(Filed) /\ n \in Nat /\ DOMAIN acts = 1 .. n /\ \A i \in 1 .. n : acts[i] \in Filed
  <2>1. acts \in Seq(Filed)
    BY OnFileFrom
  <2> HIDE DEF acts
  <2> QED
    BY <2>1
<1>2. PICK from : /\ from \in [1 .. n -> Regular]
                  /\ \A k \in 1 .. n : IsFiled(acts[k], from[k])
                  /\ \A j, k \in 1 .. n : j < k => Comes(from[j], from[k])
                  /\ \A p \in Regular : \E k \in 1 .. n : from[k] = p
  BY OnFileFrom
<1>3. r = [k \in 1 .. n |-> acts[CHOOSE i \in DOMAIN acts : Rank(acts, i) = k]]
  BY <1>1 DEF Readings
<1> HIDE DEF acts, n, r
<1>4. \A i \in 1 .. n : acts[i].date \in Int /\ acts[i].reading \in Int
  BY <1>1 DEF Filed
<1>5. Dated(acts)
  BY <1>1, <1>4 DEF Dated, n
<1>6. PICK p \in [1 .. n -> 1 .. n] :
        /\ \A k \in 1 .. n : p[k] = CHOOSE i \in DOMAIN acts : Rank(acts, i) = k
        /\ \A i \in 1 .. n : \E k \in 1 .. n : p[k] = i
        /\ \A j, k \in 1 .. n : j < k => Sooner(acts, p[j], p[k])
  BY <1>5, SortedIs DEF n
<1>7. r = [k \in 1 .. n |-> acts[p[k]]]
  <2> DEFINE c(k) == CHOOSE i \in DOMAIN acts : Rank(acts, i) = k
  <2>1. r = [k \in 1 .. n |-> acts[c(k)]] /\ \A k \in 1 .. n : p[k] = c(k)
    BY <1>3, <1>6
  <2> HIDE DEF c
  <2> QED
    BY <2>1
<1>8. \A k \in 1 .. n : p[k] \in 1 .. n /\ r[k] = acts[p[k]]
  BY <1>6, <1>7
<1>9. r \in Seq(Filed) /\ Len(r) = n
  <2>1. \A k \in 1 .. n : acts[p[k]] \in Filed
    BY <1>1, <1>8
  <2> QED
    BY <1>1, <1>7, <2>1
<1> DEFINE at == [k \in 1 .. n |-> from[p[k]]]
<1>10. \A k \in 1 .. n : at[k] = from[p[k]] /\ at[k] \in Regular
  BY <1>2, <1>8
<1>11. at \in [1 .. n -> Regular]
  BY <1>10
<1> HIDE DEF at
<1>12. \A k \in 1 .. n : IsFiled(r[k], at[k])
  BY <1>2, <1>8, <1>10
<1>13. \A q \in Regular : \E k \in 1 .. n : at[k] = q
  <2> TAKE q \in Regular
  <2>1. PICK i \in 1 .. n : from[i] = q
    BY <1>2
  <2>2. PICK k \in 1 .. n : p[k] = i
    BY <1>6
  <2> QED
    BY <1>10, <2>1, <2>2
<1>14. \A i, j \in 1 .. n : i # j => Comes(from[i], from[j]) \/ Comes(from[j], from[i])
  <2> TAKE i, j \in 1 .. n
  <2>1. i # j => i < j \/ j < i
    BY <1>1
  <2> QED
    BY <1>2, <2>1
<1>15. \A q \in Regular : ~Comes(q, q) /\ q \in Acted
  <2> TAKE q \in Regular
  <2>1. q \in Acted /\ q[1] \in Int /\ q[2] \in Int
    <3>1. q \in Acted
      BY DEF Regular
    <3>2. q[1] \in 1 .. Len(meetings) /\ q[2] \in Nat
      BY <3>1, PlaceOf DEF Acted
    <3> QED
      BY <3>1, <3>2
  <2> QED
    BY <2>1 DEF Comes
<1>16. \A i, j \in 1 .. n : from[i] = from[j] => i = j
  BY <1>2, <1>14, <1>15
<1>17. \A j, k \in 1 .. n : j < k => r[j].date <= r[k].date
  <2> TAKE j, k \in 1 .. n
  <2>1. j < k => Sooner(acts, p[j], p[k])
    BY <1>6
  <2>2. Sooner(acts, p[j], p[k]) => acts[p[j]].date <= acts[p[k]].date
    BY <1>5, <1>8, SoonerOrders DEF n
  <2> QED
    BY <1>8, <2>1, <2>2
<1>18. \A j, k \in 1 .. n : p[j] = p[k] => j = k
  <2> TAKE j, k \in 1 .. n
  <2>1. ~Sooner(acts, p[j], p[j]) /\ ~Sooner(acts, p[k], p[k])
    BY <1>5, <1>8, SoonerOrders DEF n
  <2>2. j < k \/ k < j \/ j = k
    BY <1>1
  <2> QED
    BY <1>6, <2>1, <2>2
<1>19. \A j, k \in 1 .. n : at[j] = at[k] => j = k
  BY <1>8, <1>10, <1>16, <1>18
<1>20. ASSUME NEW j \in 1 .. n, NEW k \in 1 .. n, j < k, r[j].title.of = r[k].title.of
       PROVE  Comes(at[j], at[k])
  <2> DEFINE x == p[j]
             y == p[k]
             a == from[x]
             b == from[y]
  <2>1. x \in 1 .. n /\ y \in 1 .. n /\ Sooner(acts, x, y) /\ x # y
    BY <1>1, <1>6, <1>8, <1>18, <1>20
  <2>2. r[j] = acts[x] /\ r[k] = acts[y] /\ at[j] = a /\ at[k] = b
    BY <1>8, <1>10
  <2> HIDE DEF x, y
  <2>3. a \in Regular /\ b \in Regular /\ a \in Acted /\ b \in Acted
    BY <1>2, <1>15, <2>1
  <2>4. IsFiled(acts[x], a) /\ IsFiled(acts[y], b)
    BY <1>2, <2>1
  <2> HIDE DEF a, b
  <2>5. SUFFICES ASSUME ~(x < y) PROVE FALSE
    BY <1>2, <2>1, <2>2 DEF a, b
  <2>6. y < x
    BY <1>1, <2>1, <2>5
  <2>7. Comes(b, a)
    BY <1>2, <2>1, <2>6 DEF a, b
  <2>8. acts[y].reading <= acts[x].reading
    <3>1. EntryAt(b).title.of = EntryAt(a).title.of
      BY <1>20, <2>2, <2>4 DEF IsFiled, FileOf
    <3>2. EntryAt(b).reading <= EntryAt(a).reading
      BY <2>3, <2>7, <3>1 DEF HistoryInv, Precedes
    <3> QED
      BY <2>4, <3>2 DEF IsFiled, FileOf
  <2>9. acts[y].date <= acts[x].date
    <3>1. a[1] \in 1 .. Len(meetings) /\ b[1] \in 1 .. Len(meetings) /\ Len(meetings) \in Nat
      BY <2>3, PlaceOf
    <3>2. b[1] <= a[1]
      BY <2>7, <3>1 DEF Comes
    <3>3. meetings[b[1]].held <= meetings[a[1]].held
      BY <3>1, <3>2 DEF HistoryInv, HeldInOrder
    <3> QED
      BY <2>4, <3>3 DEF IsFiled, FileOf
  <2> DEFINE dx == acts[x].date
             dy == acts[y].date
             rx == acts[x].reading
             ry == acts[y].reading
  <2>10. dx \in Int /\ dy \in Int /\ rx \in Int /\ ry \in Int /\ x \in Int /\ y \in Int
    BY <1>1, <1>4, <2>1
  <2>11. dx < dy \/ (dx = dy /\ (rx < ry \/ (rx = ry /\ x < y)))
    BY <2>1 DEF Sooner
  <2> HIDE DEF dx, dy, rx, ry
  <2>12. dy <= dx /\ ry <= rx
    BY <2>8, <2>9 DEF dx, dy, rx, ry
  <2> QED
    BY <2>6, <2>10, <2>11, <2>12
<1> QED
  BY <1>9, <1>11, <1>12, <1>13, <1>17, <1>19, <1>20 DEF Origins, r

-------------------------------------------------------------------------------
(* THE LIFECYCLES                                                          *)

Lives == {groups \in Seq(Seq(Filed)) : \A g \in 1 .. Len(groups) : Len(groups[g]) \in Nat \ {0}}

LEMMA LivesAre ==
  ASSUME NEW groups \in Lives
  PROVE  /\ groups \in Seq(Seq(Filed)) /\ Len(groups) \in Nat /\ DOMAIN groups = 1 .. Len(groups)
         /\ \A g \in 1 .. Len(groups) : /\ groups[g] \in Seq(Filed) /\ Len(groups[g]) \in Nat \ {0}
                                        /\ Len(groups[g]) \in 1 .. Len(groups[g])
                                        /\ Last(groups[g]) = groups[g][Len(groups[g])]
                                        /\ Last(groups[g]) \in Filed
                                        /\ \A i \in 1 .. Len(groups[g]) : groups[g][i] \in Filed
<1>1. groups \in Seq(Seq(Filed)) /\ \A g \in 1 .. Len(groups) : Len(groups[g]) \in Nat \ {0}
  BY DEF Lives
<1>2. Len(groups) \in Nat /\ DOMAIN groups = 1 .. Len(groups) /\ \A g \in 1 .. Len(groups) : groups[g] \in Seq(Filed)
  BY <1>1
<1>3. ASSUME NEW s \in Seq(Filed), Len(s) \in Nat \ {0}
      PROVE  Len(s) \in 1 .. Len(s) /\ Last(s) = s[Len(s)] /\ Last(s) \in Filed /\ \A i \in 1 .. Len(s) : s[i] \in Filed
  BY <1>3 DEF Last
<1> QED
  BY <1>1, <1>2, <1>3

(* A reading goes on with the lifecycle of its own ordinance, or there is  *)
(* no recent one.                                                          *)
Joins(groups, e, b) == /\ Place(groups, e) = [groups EXCEPT ![b] = Append(@, e)]
                       /\ Last(groups[b]).title.of = e.title.of /\ Recent(groups[b], e)

Begins(groups, e) == /\ Place(groups, e) = Append(groups, <<e>>)
                     /\ \A b \in 1 .. Len(groups) : Last(groups[b]).title.of = e.title.of => ~Recent(groups[b], e)

LEMMA PlaceIs ==
  ASSUME LedgerInv, NEW groups \in Lives, NEW e \in Filed
  PROVE  Begins(groups, e) \/ \E b \in 1 .. Len(groups) : Joins(groups, e, b)
<1> DEFINE n == Len(groups)
           open == {i \in DOMAIN groups : Recent(groups[i], e)}
           sim(i) == Sim(e.title, Last(groups[i]).title)
           Best(i) == i \in open /\ \A j \in open : sim(j) < sim(i) \/ (sim(j) = sim(i) /\ i <= j)
           best == CHOOSE i \in open : \A j \in open : sim(j) < sim(i) \/ (sim(j) = sim(i) /\ i <= j)
<1>1. n \in Nat /\ DOMAIN groups = 1 .. n /\ \A g \in 1 .. n : Last(groups[g]) \in Filed
  BY LivesAre
<1>2. \A i \in 1 .. n : /\ sim(i) \in Int
                        /\ SimilarEnough(sim(i)) <=> Last(groups[i]).title.of = e.title.of
  <2> TAKE i \in 1 .. n
  <2>1. e.title \in Titles /\ Last(groups[i]).title \in Titles
    BY <1>1 DEF Filed
  <2>0. other \in 0 .. 71
    BY <2>1, SimIs
  <2>2. /\ sim(i) \in 0 .. 100
        /\ e.title.of = Last(groups[i]).title.of => sim(i) >= 72
        /\ e.title.of # Last(groups[i]).title.of => sim(i) = other
    BY <2>1, SimIs
  <2> DEFINE s == sim(i)
             of == Last(groups[i]).title.of
  <2>3. s \in 0 .. 100
    BY <2>2
  <2>5. (of = e.title.of => s >= 72) /\ (of # e.title.of => s = other)
    BY <2>2
  <2> HIDE DEF s, of
  <2>4. s \in Int /\ (s >= 72 <=> of = e.title.of)
    <3>1. s \in Int /\ ~(other >= 72)
      BY <2>0, <2>3
    <3>2. CASE of = e.title.of
      BY <2>5, <3>1, <3>2
    <3>3. CASE of # e.title.of
      BY <2>5, <3>1, <3>3
    <3> QED
      BY <3>2, <3>3
  <2> QED
    BY <2>4 DEF SimilarEnough, s, of
<1>3. Place(groups, e) = IF open # {} /\ SimilarEnough(sim(best))
                         THEN [groups EXCEPT ![best] = Append(@, e)]
                         ELSE Append(groups, <<e>>)
  BY DEF Place
<1>4. open \subseteq 1 .. n /\ IsFiniteSet(open)
  <2>1. open \subseteq 1 .. n
    BY <1>1
  <2>2. IsFiniteSet(1 .. n)
    BY <1>1, FS_Interval
  <2> HIDE DEF open, n
  <2> QED
    BY <2>1, <2>2, FS_Subset
<1> DEFINE h == [i \in 1 .. n |-> sim(i)]
<1>5. \A i \in 1 .. n : h[i] = sim(i) /\ h[i] \in Int
  BY <1>2
<1>6. ASSUME open # {} PROVE \E i : Best(i)
  <2> HIDE DEF open, sim, h, n
  <2>1. \A i \in open : h[i] \in Int
    BY <1>4, <1>5
  <2>2. PICK y \in open : \A x \in open : h[x] <= h[y]
    BY <1>4, <1>6, <2>1, HighestIs
  <2> DEFINE T == {x \in open : h[x] = h[y]}
  <2>3. T \subseteq open /\ y \in T /\ T \in SUBSET Int /\ \A x \in T : x \in open /\ h[x] = h[y]
    <3>1. \A x \in open : x \in Int
      BY <1>4
    <3> QED
      BY <3>1
  <2>4. IsFiniteSet(T)
    <3> HIDE DEF T
    <3> QED
      BY <1>4, <2>3, FS_Subset
  <2>5. Min(T) \in T /\ \A x \in T : Min(T) <= x
    <3> HIDE DEF T
    <3> QED
      BY <2>3, <2>4, LeastIs
  <2> DEFINE i == Min(T)
  <2>6. i \in open /\ h[i] = h[y]
    BY <2>3, <2>5
  <2>7. ASSUME NEW j \in open PROVE h[j] < h[i] \/ (h[j] = h[i] /\ i <= j)
    <3>1. h[j] <= h[i] /\ h[j] \in Int /\ h[i] \in Int
      BY <2>1, <2>2, <2>6
    <3>2. h[j] = h[i] => i <= j
      BY <2>5, <2>6
    <3> HIDE DEF i
    <3> QED
      BY <3>1, <3>2
  <2>8. \A j \in open : j \in 1 .. n /\ h[j] = sim(j)
    BY <1>4, <1>5
  <2> HIDE DEF i
  <2> QED
    BY <2>6, <2>7, <2>8
<1>7. ASSUME open # {} PROVE best \in open /\ \A j \in open : sim(j) <= sim(best)
  <2>1. Best(best)
    <3> HIDE DEF open, sim
    <3> QED
      BY <1>6, <1>7
  <2> HIDE DEF best, open, sim
  <2>2. \A j \in open : sim(j) \in Int /\ sim(best) \in Int
    BY <1>2, <1>4, <2>1
  <2> QED
    BY <2>1, <2>2
<1>8. \A i \in open : Recent(groups[i], e)
  OBVIOUS
<1>9. \A i \in 1 .. n : Recent(groups[i], e) => i \in open
  BY <1>1
<1> HIDE DEF open, best, sim, h
<1>10. CASE open # {} /\ SimilarEnough(sim(best))
  <2>1. best \in 1 .. n /\ Recent(groups[best], e)
    BY <1>4, <1>7, <1>8, <1>10
  <2>2. Last(groups[best]).title.of = e.title.of
    BY <1>2, <1>10, <2>1
  <2> QED
    BY <1>3, <1>10, <2>1, <2>2 DEF Joins
<1>11. CASE ~(open # {} /\ SimilarEnough(sim(best)))
  <2>1. Place(groups, e) = Append(groups, <<e>>)
    BY <1>3, <1>11
  <2>2. ASSUME NEW b \in 1 .. n, Last(groups[b]).title.of = e.title.of, Recent(groups[b], e) PROVE FALSE
    <3>1. b \in open /\ SimilarEnough(sim(b))
      BY <1>2, <1>9, <2>2
    <3>2. best \in open /\ sim(b) <= sim(best) /\ ~SimilarEnough(sim(best))
      BY <1>7, <1>11, <3>1
    <3>3. sim(b) \in Int /\ sim(best) \in Int
      BY <1>2, <1>4, <3>1, <3>2
    <3> QED
      BY <3>1, <3>2, <3>3 DEF SimilarEnough
  <2> QED
    BY <2>1, <2>2 DEF Begins
<1> QED
  BY <1>10, <1>11

(* What it is put to.                                                      *)
Joined(all, groups, e, b) ==
  /\ all \in Lives /\ Len(all) = Len(groups)
  /\ \A g \in 1 .. Len(groups) : g # b => all[g] = groups[g]
  /\ Len(all[b]) = Len(groups[b]) + 1 /\ all[b][Len(groups[b]) + 1] = e
  /\ \A i \in 1 .. Len(groups[b]) : all[b][i] = groups[b][i]

LEMMA JoinedIs ==
  ASSUME NEW groups \in Lives, NEW e \in Filed, NEW b \in 1 .. Len(groups), Joins(groups, e, b)
  PROVE  Joined(Place(groups, e), groups, e, b)
<1> DEFINE all == Place(groups, e)
           n == Len(groups)
           old == groups[b]
           new == Append(old, e)
<1>1. /\ groups \in Seq(Seq(Filed)) /\ n \in Nat /\ DOMAIN groups = 1 .. n
      /\ old \in Seq(Filed) /\ \A g \in 1 .. n : Len(groups[g]) \in Nat \ {0}
  BY LivesAre
<1>2. all = [groups EXCEPT ![b] = new]
  BY DEF Joins
<1> HIDE DEF old, all
<1>3. /\ new \in Seq(Filed) /\ Len(old) \in Nat /\ Len(new) = Len(old) + 1 /\ new[Len(old) + 1] = e
      /\ \A i \in 1 .. Len(old) : new[i] = old[i]
  BY <1>1
<1> HIDE DEF new
<1>4. all \in Seq(Seq(Filed)) /\ Len(all) = n /\ all[b] = new /\ \A g \in 1 .. n : g # b => all[g] = groups[g]
  BY <1>1, <1>2, <1>3
<1>5. \A g \in 1 .. n : Len(all[g]) \in Nat \ {0}
  <2> TAKE g \in 1 .. n
  <2>1. CASE g = b
    BY <1>3, <1>4, <2>1
  <2>2. CASE g # b
    BY <1>1, <1>4, <2>2
  <2> QED
    BY <2>1, <2>2
<1>6. all \in Lives
  BY <1>4, <1>5 DEF Lives
<1> QED
  BY <1>3, <1>4, <1>6 DEF Joined, all, old

Begun(all, groups, e) ==
  /\ all \in Lives /\ Len(all) = Len(groups) + 1
  /\ \A g \in 1 .. Len(groups) : all[g] = groups[g]
  /\ Len(all[Len(groups) + 1]) = 1 /\ all[Len(groups) + 1][1] = e

LEMMA BegunIs ==
  ASSUME NEW groups \in Lives, NEW e \in Filed, Begins(groups, e)
  PROVE  Begun(Place(groups, e), groups, e)
<1> DEFINE all == Place(groups, e)
           n == Len(groups)
           new == <<e>>
<1>1. groups \in Seq(Seq(Filed)) /\ n \in Nat /\ \A g \in 1 .. n : Len(groups[g]) \in Nat \ {0}
  BY LivesAre
<1>2. new \in Seq(Filed) /\ Len(new) = 1 /\ new[1] = e /\ all = Append(groups, new)
  BY DEF Begins
<1> HIDE DEF new, all
<1>3. all \in Seq(Seq(Filed)) /\ Len(all) = n + 1 /\ all[n + 1] = new /\ \A g \in 1 .. n : all[g] = groups[g]
  BY <1>1, <1>2
<1>4. \A g \in 1 .. (n + 1) : Len(all[g]) \in Nat \ {0}
  <2> TAKE g \in 1 .. (n + 1)
  <2>1. g = n + 1 \/ g \in 1 .. n
    BY <1>1
  <2>2. CASE g = n + 1
    <3>1. all[g] = new
      BY <1>3, <2>2
    <3>2. Len(all[g]) = 1
      BY <1>2, <3>1
    <3> QED
      BY <3>2
  <2>3. CASE g \in 1 .. n
    BY <1>1, <1>3, <2>3
  <2> QED
    BY <2>1, <2>2, <2>3
<1>5. all \in Lives
  BY <1>3, <1>4 DEF Lives
<1> QED
  BY <1>2, <1>3, <1>5 DEF Begun, all

SameOf(r, j, k) == r[j].title.of = r[k].title.of
Apart(r, j, k) == r[k].date - r[j].date > 200
InOrder(r) == \A j, k \in 1 .. Len(r) : j <= k => r[j].date <= r[k].date

LEMMA DatesAre ==
  ASSUME NEW r \in Seq(Filed)
  PROVE  \A i \in 1 .. Len(r) : r[i] \in Filed /\ r[i].date \in Int
<1>1. \A i \in 1 .. Len(r) : r[i] \in Filed
  OBVIOUS
<1> QED
  BY <1>1 DEF Filed

(* A lifecycle has the readings of one ordinance at some places, in order. *)
IsGroup(group, at, r, k) ==
  /\ Len(at) = Len(group) /\ Rising(at)
  /\ \A i \in 1 .. Len(group) : at[i] \in 1 .. k /\ group[i] = r[at[i]] /\ SameOf(r, at[i], at[1])

(* One of the same ordinance begins after it has ended, and more than 200  *)
(* days later.                                                             *)
EndsBefore(at, f, r) == SameOf(r, at[1], f) => \A i \in 1 .. Len(at) : at[i] < f
Alone(f, r) == \A j \in 1 .. Len(r) : j < f /\ SameOf(r, j, f) => Apart(r, j, f)

Grouped(groups, pos, r, k) ==
  /\ groups \in Lives /\ pos \in [1 .. Len(groups) -> Seq(Nat)]
  /\ \A g \in 1 .. Len(groups) : IsGroup(groups[g], pos[g], r, k) /\ Alone(pos[g][1], r)
  /\ \A j \in 1 .. k : \E g \in 1 .. Len(groups) : \E i \in 1 .. Len(groups[g]) : pos[g][i] = j
  /\ \A g, h \in 1 .. Len(groups) : g < h => EndsBefore(pos[g], pos[h][1], r)

(* The last reading of a lifecycle.                                        *)
LEMMA LastIs ==
  ASSUME NEW r \in Seq(Filed), NEW k \in 0 .. Len(r), NEW groups, NEW pos, Grouped(groups, pos, r, k),
         NEW g \in 1 .. Len(groups)
  PROVE  LET l == pos[g][Len(groups[g])] IN
         /\ pos[g] \in Seq(Nat) /\ Len(pos[g]) = Len(groups[g]) /\ Len(groups[g]) \in Nat
         /\ Len(groups[g]) \in 1 .. Len(groups[g]) /\ 1 \in 1 .. Len(groups[g])
         /\ \A i \in 1 .. Len(groups[g]) : /\ pos[g][i] \in 1 .. k /\ pos[g][i] \in 1 .. Len(r) /\ pos[g][i] <= l
                                           /\ pos[g][1] <= pos[g][i] /\ SameOf(r, pos[g][i], pos[g][1])
         /\ Last(groups[g]) = r[l]
<1> DEFINE at == pos[g]
           n == Len(groups[g])
<1>1. groups \in Lives /\ pos \in [1 .. Len(groups) -> Seq(Nat)] /\ IsGroup(groups[g], pos[g], r, k)
  BY DEF Grouped
<1>2. n \in 1 .. n /\ n \in Nat /\ Last(groups[g]) = groups[g][n] /\ at \in Seq(Nat)
  BY <1>1, LivesAre
<1>3. 1 \in 1 .. n
  BY <1>2
<1>4. Len(r) \in Nat
  OBVIOUS
<1>5. \A i \in 1 .. n : at[i] \in 1 .. k /\ at[i] \in 1 .. Len(r) /\ SameOf(r, at[i], at[1])
  <2>1. \A i \in 1 .. n : at[i] \in 1 .. k /\ SameOf(r, at[i], at[1])
    BY <1>1 DEF IsGroup
  <2>2. \A x \in 1 .. k : x \in 1 .. Len(r)
    BY <1>4
  <2> QED
    BY <2>1, <2>2
<1>6. Len(at) = n /\ \A i, j \in 1 .. n : i < j => at[i] < at[j]
  BY <1>1 DEF IsGroup, Rising
<1>7. Last(groups[g]) = r[at[n]]
  BY <1>1, <1>2 DEF IsGroup
<1> HIDE DEF at, n
<1>8. ASSUME NEW i \in 1 .. n PROVE at[i] <= at[n] /\ at[1] <= at[i]
  <2>1. i = n \/ i < n
    BY <1>2
  <2>2. i = 1 \/ 1 < i
    BY <1>2
  <2>3. at[i] \in Int /\ at[n] \in Int /\ at[1] \in Int
    <3>1. \A x \in 1 .. k : x \in Int
      OBVIOUS
    <3> QED
      BY <1>2, <1>3, <1>5, <3>1
  <2>4. at[i] < at[n] \/ at[i] = at[n]
    BY <1>2, <1>6, <2>1
  <2>5. at[1] < at[i] \/ at[1] = at[i]
    BY <1>3, <1>6, <2>2
  <2> DEFINE x == at[i]
             y == at[n]
             z == at[1]
  <2>6. x \in Int /\ y \in Int /\ z \in Int /\ (x < y \/ x = y) /\ (z < x \/ z = x)
    BY <2>3, <2>4, <2>5
  <2> HIDE DEF x, y, z
  <2>7. x <= y /\ z <= x
    BY <2>6
  <2> QED
    BY <2>7 DEF x, y, z
<1> QED
  BY <1>2, <1>3, <1>5, <1>6, <1>7, <1>8 DEF at, n

(* A reading put to a lifecycle.                                           *)
LEMMA JoiningKeeps ==
  ASSUME NEW r \in Seq(Filed), InOrder(r), NEW k \in 1 .. Len(r), NEW groups, NEW pos,
         Grouped(groups, pos, r, k - 1), NEW b \in 1 .. Len(groups), Joins(groups, r[k], b)
  PROVE  \E new : Grouped(Place(groups, r[k]), new, r, k)
<1> DEFINE e == r[k]
           all == Place(groups, e)
           n == Len(groups)
           L == Len(groups[b])
           old == pos[b]
           at == Append(old, k)
           new == [pos EXCEPT ![b] = at]
<1>1. groups \in Lives /\ pos \in [1 .. n -> Seq(Nat)] /\ n \in Nat
  BY LivesAre DEF Grouped
<1>2. e \in Filed /\ k \in Nat /\ k - 1 \in 0 .. Len(r) /\ Len(r) \in Nat
  OBVIOUS
<1>3. /\ all \in Lives /\ Len(all) = n
      /\ \A g \in 1 .. n : g # b => all[g] = groups[g]
      /\ Len(all[b]) = L + 1 /\ all[b][L + 1] = e
      /\ \A i \in 1 .. L : all[b][i] = groups[b][i]
  <2>1. Joined(all, groups, e, b)
    BY <1>1, <1>2, JoinedIs
  <2> QED
    BY <2>1 DEF Joined
<1>4. /\ old \in Seq(Nat) /\ Len(old) = L /\ L \in Nat /\ L \in 1 .. L /\ 1 \in 1 .. L
      /\ \A i \in 1 .. L : /\ old[i] \in 1 .. (k - 1) /\ old[i] \in 1 .. Len(r) /\ SameOf(r, old[i], old[1])
      /\ Last(groups[b]) = r[old[L]]
  BY <1>2, LastIs
<1> HIDE DEF e, all, n, L, old
<1>5. /\ at \in Seq(Nat) /\ Len(at) = L + 1 /\ at[L + 1] = k /\ at[1] = old[1]
      /\ \A i \in 1 .. L : at[i] = old[i]
  <2>1. at \in Seq(Nat) /\ Len(at) = Len(old) + 1 /\ at[Len(old) + 1] = k /\ \A i \in 1 .. Len(old) : at[i] = old[i]
    <3>1. old \in Seq(Nat) /\ k \in Nat
      BY <1>2, <1>4
    <3> QED
      BY <3>1
  <2> HIDE DEF at
  <2> QED
    BY <1>4, <2>1
<1> HIDE DEF at
<1>6. /\ new \in [1 .. n -> Seq(Nat)] /\ new[b] = at
      /\ \A g \in 1 .. n : g # b => new[g] = pos[g]
  BY <1>1, <1>5 DEF n
<1>7. \A g \in 1 .. n : new[g][1] = pos[g][1]
  BY <1>5, <1>6 DEF old
<1> HIDE DEF new
<1>8. r[old[L]].title.of = e.title.of /\ e.date - r[old[L]].date <= 200
  BY <1>4 DEF Joins, Recent, e
<1>9. SameOf(r, k, old[1])
  <2>1. SameOf(r, old[L], old[1])
    BY <1>4
  <2> QED
    BY <1>8, <2>1 DEF SameOf, e
<1>10. IsGroup(all[b], at, r, k)
  <2>1. ASSUME NEW i \in 1 .. (L + 1)
        PROVE  at[i] \in 1 .. k /\ all[b][i] = r[at[i]] /\ SameOf(r, at[i], at[1])
    <3>1. CASE i \in 1 .. L
      <4>1. at[i] = old[i] /\ old[i] \in 1 .. k
        BY <1>2, <1>4, <1>5, <3>1
      <4>2. groups[b][i] = r[old[i]]
        BY <3>1 DEF Grouped, IsGroup, L, old
      <4> QED
        BY <1>3, <1>4, <1>5, <3>1, <4>1, <4>2
    <3>2. CASE i = L + 1
      BY <1>2, <1>3, <1>5, <1>9, <3>2 DEF e
    <3> QED
      BY <1>4, <3>1, <3>2
  <2>2. Rising(at)
    <3> SUFFICES ASSUME NEW i \in 1 .. (L + 1), NEW j \in 1 .. (L + 1), i < j PROVE at[i] < at[j]
      BY <1>5 DEF Rising
    <3>1. i \in 1 .. L
      BY <1>4
    <3>2. CASE j \in 1 .. L
      <4>1. old[i] < old[j]
        BY <1>4, <3>1, <3>2 DEF Grouped, IsGroup, Rising, L, old
      <4> QED
        BY <1>5, <3>1, <3>2, <4>1
    <3>3. CASE j = L + 1
      <4>1. at[i] = old[i] /\ old[i] \in 1 .. (k - 1) /\ at[j] = k
        BY <1>4, <1>5, <3>1, <3>3
      <4> QED
        BY <1>2, <4>1
    <3> QED
      BY <1>4, <3>2, <3>3
  <2> QED
    BY <1>3, <1>5, <2>1, <2>2 DEF IsGroup
<1>11. ASSUME NEW g \in 1 .. n PROVE IsGroup(all[g], new[g], r, k) /\ Alone(new[g][1], r)
  <2>1. Alone(new[g][1], r)
    BY <1>7 DEF Grouped, n
  <2>2. CASE g = b
    BY <1>6, <1>10, <2>1, <2>2
  <2>3. CASE g # b
    <3>1. IsGroup(groups[g], pos[g], r, k - 1)
      BY DEF Grouped, n
    <3>2. \A x \in 1 .. (k - 1) : x \in 1 .. k
      BY <1>2
    <3>3. IsGroup(groups[g], pos[g], r, k)
      BY <3>1, <3>2 DEF IsGroup
    <3> QED
      BY <1>3, <1>6, <2>1, <2>3, <3>3
  <2> QED
    BY <2>2, <2>3
<1>12. ASSUME NEW j \in 1 .. k PROVE \E g \in 1 .. n : \E i \in 1 .. Len(all[g]) : new[g][i] = j
  <2>1. CASE j = k
    <3>1. L + 1 \in 1 .. Len(all[b]) /\ b \in 1 .. n
      BY <1>3, <1>4 DEF n
    <3> QED
      BY <1>5, <1>6, <2>1, <3>1
  <2>2. CASE j # k
    <3>1. j \in 1 .. (k - 1)
      BY <1>2, <2>2
    <3>2. PICK g \in 1 .. n : \E i \in 1 .. Len(groups[g]) : pos[g][i] = j
      BY <3>1 DEF Grouped, n
    <3>5. PICK i \in 1 .. Len(groups[g]) : pos[g][i] = j
      BY <3>2
    <3>3. CASE g = b
      <4>1. i \in 1 .. L /\ i \in 1 .. Len(all[b]) /\ new[b][i] = j
        <5>1. i \in 1 .. L /\ old[i] = j
          BY <3>3, <3>5 DEF old, L
        <5>2. i \in 1 .. (L + 1)
          BY <1>4, <5>1
        <5> QED
          BY <1>3, <1>5, <1>6, <5>1, <5>2
      <4> QED
        BY <3>3, <4>1
    <3>4. CASE g # b
      BY <1>3, <1>6, <3>4, <3>5
    <3> QED
      BY <3>3, <3>4
  <2> QED
    BY <2>1, <2>2
<1>13. ASSUME NEW g \in 1 .. n, NEW h \in 1 .. n, g < h PROVE EndsBefore(new[g], new[h][1], r)
  <2>1. EndsBefore(pos[g], pos[h][1], r) /\ Alone(pos[h][1], r)
    BY <1>13 DEF Grouped, n
  <2>2. CASE g # b
    BY <1>6, <1>7, <2>1, <2>2
  <2>3. CASE g = b
    <3> DEFINE f == pos[h][1]
    <3>1. f \in 1 .. (k - 1) /\ f \in 1 .. Len(r)
      <4>1. 1 \in 1 .. Len(groups[h]) /\ \A i \in 1 .. Len(groups[h]) : pos[h][i] \in 1 .. (k - 1) /\ pos[h][i] \in 1 .. Len(r)
        BY <1>2, LastIs DEF n
      <4> QED
        BY <4>1
    <3> HIDE DEF f
    <3>2. ~SameOf(r, old[1], f)
      <4> SUFFICES ASSUME SameOf(r, old[1], f) PROVE FALSE
        OBVIOUS
      <4>1. old[L] < f
        BY <1>4, <2>1, <2>3 DEF EndsBefore, f, old
      <4>2. SameOf(r, old[L], f) /\ old[L] \in 1 .. Len(r)
        <5>1. SameOf(r, old[L], old[1])
          BY <1>4
        <5> QED
          BY <1>4, <5>1 DEF SameOf
      <4>3. Apart(r, old[L], f)
        BY <2>1, <4>1, <4>2 DEF Alone, f
      <4>4. r[f].date <= r[k].date
        <5>1. f <= k
          BY <1>2, <3>1
        <5> QED
          BY <3>1, <5>1 DEF InOrder
      <4>5. r[f].date \in Int /\ r[k].date \in Int /\ r[old[L]].date \in Int
        <5>1. \A x \in 1 .. Len(r) : r[x].date \in Int
          BY DatesAre
        <5> QED
          BY <3>1, <4>2, <5>1
      <4>6. r[f].date - r[old[L]].date > 200 /\ r[k].date - r[old[L]].date <= 200
        BY <1>8, <4>3 DEF Apart, e
      <4> DEFINE x == r[f].date
                 y == r[k].date
                 z == r[old[L]].date
      <4>7. x \in Int /\ y \in Int /\ z \in Int /\ x <= y /\ x - z > 200 /\ y - z <= 200
        BY <4>4, <4>5, <4>6
      <4> HIDE DEF x, y, z
      <4> QED
        BY <4>7
    <3> QED
      BY <1>5, <1>6, <1>7, <2>3, <3>2 DEF EndsBefore, f
  <2> QED
    BY <2>2, <2>3
<1>14. Grouped(all, new, r, k)
  BY <1>3, <1>6, <1>11, <1>12, <1>13 DEF Grouped
<1> QED
  BY <1>14 DEF all, e

(* A reading a lifecycle begins with.                                      *)
LEMMA BeginningKeeps ==
  ASSUME NEW r \in Seq(Filed), InOrder(r), NEW k \in 1 .. Len(r), NEW groups, NEW pos,
         Grouped(groups, pos, r, k - 1), Begins(groups, r[k])
  PROVE  \E new : Grouped(Place(groups, r[k]), new, r, k)
<1> DEFINE e == r[k]
           all == Place(groups, e)
           n == Len(groups)
           at == <<k>>
           new == [g \in 1 .. (n + 1) |-> IF g = n + 1 THEN at ELSE pos[g]]
<1>1. groups \in Lives /\ pos \in [1 .. n -> Seq(Nat)] /\ n \in Nat
  BY LivesAre DEF Grouped
<1>2. e \in Filed /\ k \in Nat /\ k - 1 \in 0 .. Len(r) /\ Len(r) \in Nat
  OBVIOUS
<1>3. /\ all \in Lives /\ Len(all) = n + 1 /\ \A g \in 1 .. n : all[g] = groups[g]
      /\ Len(all[n + 1]) = 1 /\ all[n + 1][1] = e
  <2>1. Begun(all, groups, e)
    BY <1>1, <1>2, BegunIs
  <2> QED
    BY <2>1 DEF Begun
<1>4. at \in Seq(Nat) /\ Len(at) = 1 /\ at[1] = k
  BY <1>2
<1> HIDE DEF e, all, n, at
<1>5. /\ new \in [1 .. (n + 1) -> Seq(Nat)] /\ new[n + 1] = at
      /\ \A g \in 1 .. n : new[g] = pos[g]
  <2>1. \A g \in 1 .. (n + 1) : g # n + 1 => g \in 1 .. n
    BY <1>1
  <2>2. n + 1 \in 1 .. (n + 1) /\ \A g \in 1 .. n : g \in 1 .. (n + 1) /\ g # n + 1
    BY <1>1
  <2> QED
    BY <1>1, <1>4, <2>1, <2>2
<1> HIDE DEF new
<1>6. \A g \in 1 .. (n + 1) : g = n + 1 \/ g \in 1 .. n
  BY <1>1
<1>7. IsGroup(all[n + 1], at, r, k)
  <2>1. \A i \in 1 .. 1 : i = 1
    OBVIOUS
  <2>2. Rising(at)
    BY <1>4, <2>1 DEF Rising
  <2>3. k \in 1 .. k /\ SameOf(r, k, k)
    BY <1>2 DEF SameOf
  <2> QED
    BY <1>3, <1>4, <2>1, <2>2, <2>3 DEF IsGroup, e
<1>8. ASSUME NEW j \in 1 .. Len(r), j < k, SameOf(r, j, k) PROVE Apart(r, j, k)
  <2>1. j \in 1 .. (k - 1)
    BY <1>2, <1>8
  <2>2. PICK g \in 1 .. n : \E i \in 1 .. Len(groups[g]) : pos[g][i] = j
    BY <2>1 DEF Grouped, n
  <2>3. PICK i \in 1 .. Len(groups[g]) : pos[g][i] = j
    BY <2>2
  <2> DEFINE L == Len(groups[g])
             l == pos[g][L]
  <2>4. /\ L \in 1 .. L
        /\ \A x \in 1 .. L : /\ pos[g][x] \in 1 .. Len(r) /\ pos[g][x] <= l /\ SameOf(r, pos[g][x], pos[g][1])
        /\ Last(groups[g]) = r[l]
    BY <1>2, LastIs, SMTT(30) DEF n
  <2>5. j <= l /\ l \in 1 .. Len(r) /\ SameOf(r, j, pos[g][1]) /\ SameOf(r, l, pos[g][1])
    BY <2>3, <2>4
  <2> HIDE DEF L, l
  <2>6. r[l].title.of = r[k].title.of
    BY <1>8, <2>5 DEF SameOf
  <2>7. ~(r[k].date - r[l].date <= 200)
    <3>1. ~Recent(groups[g], r[k])
      BY <2>4, <2>6 DEF Begins, n
    <3> QED
      BY <2>4, <3>1 DEF Recent
  <2>8. r[j].date <= r[l].date
    BY <2>5 DEF InOrder
  <2>9. r[j].date \in Int /\ r[k].date \in Int /\ r[l].date \in Int
    BY <2>5, DatesAre
  <2> DEFINE x == r[j].date
             y == r[k].date
             z == r[l].date
  <2>10. x \in Int /\ y \in Int /\ z \in Int /\ x <= z /\ ~(y - z <= 200)
    BY <2>7, <2>8, <2>9
  <2> HIDE DEF x, y, z
  <2>11. y - x > 200
    BY <2>10
  <2> QED
    BY <2>11 DEF Apart, x, y
<1>9. ASSUME NEW g \in 1 .. (n + 1) PROVE IsGroup(all[g], new[g], r, k) /\ Alone(new[g][1], r)
  <2>1. CASE g = n + 1
    BY <1>4, <1>5, <1>7, <1>8, <2>1 DEF Alone
  <2>2. CASE g \in 1 .. n
    <3>1. IsGroup(groups[g], pos[g], r, k - 1) /\ Alone(pos[g][1], r)
      BY <2>2 DEF Grouped, n
    <3>2. \A x \in 1 .. (k - 1) : x \in 1 .. k
      BY <1>2
    <3>3. IsGroup(groups[g], pos[g], r, k)
      BY <3>1, <3>2 DEF IsGroup
    <3> QED
      BY <1>3, <1>5, <2>2, <3>1, <3>3
  <2> QED
    BY <1>6, <2>1, <2>2
<1>10. ASSUME NEW j \in 1 .. k PROVE \E g \in 1 .. (n + 1) : \E i \in 1 .. Len(all[g]) : new[g][i] = j
  <2>1. CASE j = k
    <3>1. n + 1 \in 1 .. (n + 1) /\ 1 \in 1 .. Len(all[n + 1])
      BY <1>1, <1>3
    <3> QED
      BY <1>4, <1>5, <2>1, <3>1
  <2>2. CASE j # k
    <3>1. j \in 1 .. (k - 1)
      BY <1>2, <2>2
    <3>2. PICK g \in 1 .. n : \E i \in 1 .. Len(groups[g]) : pos[g][i] = j
      BY <3>1 DEF Grouped, n
    <3>3. g \in 1 .. (n + 1)
      BY <1>1
    <3> QED
      BY <1>3, <1>5, <3>2, <3>3
  <2> QED
    BY <2>1, <2>2
<1>11. ASSUME NEW g \in 1 .. (n + 1), NEW h \in 1 .. (n + 1), g < h PROVE EndsBefore(new[g], new[h][1], r)
  <2>1. g \in 1 .. n
    BY <1>1, <1>11
  <2>2. CASE h \in 1 .. n
    <3>1. EndsBefore(pos[g], pos[h][1], r)
      BY <1>11, <2>1, <2>2 DEF Grouped, n
    <3> QED
      BY <1>5, <2>1, <2>2, <3>1
  <2>3. CASE h = n + 1
    <3>1. new[g] = pos[g] /\ new[h][1] = k
      BY <1>4, <1>5, <2>1, <2>3
    <3>2. Len(pos[g]) = Len(groups[g]) /\ \A i \in 1 .. Len(groups[g]) : pos[g][i] \in 1 .. (k - 1)
      BY <1>2, <2>1, LastIs DEF n
    <3>3. \A x \in 1 .. (k - 1) : x < k
      BY <1>2
    <3> QED
      BY <3>1, <3>2, <3>3 DEF EndsBefore
  <2> QED
    BY <1>6, <2>2, <2>3
<1>12. Grouped(all, new, r, k)
  BY <1>3, <1>5, <1>9, <1>10, <1>11 DEF Grouped
<1> QED
  BY <1>12 DEF all, e

(* The loop of reading_sequences.                                          *)
LifecycleLoop(f, r) == f = [k \in 0 .. Len(r) |-> IF k = 0 THEN <<>> ELSE Place(f[k-1], r[k])]

LEMMA LifecycleLoopExists ==
  ASSUME LedgerInv, NEW r \in Seq(Filed)
  PROVE  \E f : LifecycleLoop(f, r)
<1> DEFINE n == Len(r)
           step == [p \in (1 .. n) \X Lives |-> Place(p[2], r[p[1]])]
<1>1. n \in Nat /\ \A k \in 1 .. n : r[k] \in Filed
  OBVIOUS
<1>2. <<>> \in Lives
  BY DEF Lives
<1>3. ASSUME NEW groups \in Lives, NEW e \in Filed PROVE Place(groups, e) \in Lives
  <2>1. CASE Begins(groups, e)
    BY <2>1, BegunIs DEF Begun
  <2>2. CASE \E b \in 1 .. Len(groups) : Joins(groups, e, b)
    <3>1. PICK b \in 1 .. Len(groups) : Joins(groups, e, b)
      BY <2>2
    <3> QED
      BY <3>1, JoinedIs DEF Joined
  <2> QED
    BY <2>1, <2>2, PlaceIs
<1>4. step \in [(1 .. n) \X Lives -> Lives]
  BY <1>1, <1>3
<1> HIDE DEF step
<1>5. PICK f : Loop(f, n, <<>>, step, Lives)
  BY <1>1, <1>2, <1>4, LoopExists
<1>6. \A k \in 0 .. n : f[k] = IF k = 0 THEN <<>> ELSE Place(f[k-1], r[k])
  <2> TAKE k \in 0 .. n
  <2>1. f[k] = IF k = 0 THEN <<>> ELSE step[<<k, f[k-1]>>]
    BY <1>5 DEF Loop
  <2>2. CASE k # 0
    <3>1. k \in 1 .. n /\ k - 1 \in 0 .. n
      BY <2>2
    <3>2. f[k-1] \in Lives
      BY <1>5, <3>1 DEF Loop
    <3>3. <<k, f[k-1]>> \in (1 .. n) \X Lives
      BY <3>1, <3>2
    <3>4. step[<<k, f[k-1]>>] = Place(f[k-1], r[k])
      BY <3>3 DEF step
    <3> QED
      BY <2>1, <2>2, <3>4
  <2> QED
    BY <2>1, <2>2
<1>7. f = [k \in 0 .. n |-> f[k]]
  BY <1>5 DEF Loop
<1>8. f = [k \in 0 .. n |-> IF k = 0 THEN <<>> ELSE Place(f[k-1], r[k])]
  BY <1>6, <1>7
<1> QED
  BY <1>8 DEF LifecycleLoop

LEMMA LifecyclesAre ==
  ASSUME LedgerInv, NEW r \in Seq(Filed), InOrder(r)
  PROVE  \E pos : Grouped(Lifecycles(r), pos, r, Len(r))
<1> DEFINE n == Len(r)
           after == CHOOSE f : LifecycleLoop(f, r)
<1>1. n \in Nat
  OBVIOUS
<1>2. Lifecycles(r) = after[n]
  BY DEF Lifecycles, LifecycleLoop
<1>3. LifecycleLoop(after, r)
  BY LifecycleLoopExists
<1> HIDE DEF after
<1>4. after[0] = <<>> /\ \A k \in 1 .. n : after[k] = Place(after[k-1], r[k])
  <2>1. \A k \in 0 .. n : after[k] = IF k = 0 THEN <<>> ELSE Place(after[k-1], r[k])
    BY <1>3 DEF LifecycleLoop
  <2> QED
    BY <1>1, <2>1
<1> DEFINE S == {k \in 0 .. n : \E pos : Grouped(after[k], pos, r, k)}
<1>5. 0 \in S
  <2> DEFINE pos == [g \in 1 .. 0 |-> <<>>]
  <2>1. after[0] \in Lives /\ Len(after[0]) = 0
    BY <1>4 DEF Lives
  <2>2. pos \in [1 .. 0 -> Seq(Nat)] /\ 1 .. 0 = {}
    OBVIOUS
  <2> HIDE DEF pos
  <2>3. Grouped(after[0], pos, r, 0)
    BY <2>1, <2>2 DEF Grouped
  <2> QED
    BY <1>1, <2>3
<1>6. ASSUME NEW k \in 1 .. n, k - 1 \in S PROVE k \in S
  <2>1. PICK pos : Grouped(after[k-1], pos, r, k - 1)
    BY <1>6
  <2>2. after[k-1] \in Lives /\ r[k] \in Filed /\ k \in 0 .. n
    BY <2>1, DatesAre DEF Grouped
  <2>3. \E new : Grouped(Place(after[k-1], r[k]), new, r, k)
    <3>1. CASE Begins(after[k-1], r[k])
      BY <2>1, <3>1, BeginningKeeps
    <3>2. CASE \E b \in 1 .. Len(after[k-1]) : Joins(after[k-1], r[k], b)
      BY <2>1, <3>2, JoiningKeeps
    <3> QED
      BY <2>2, <3>1, <3>2, PlaceIs
  <2> QED
    BY <1>4, <2>2, <2>3
<1> HIDE DEF S
<1>7. n \in S
  <2>1. \A k \in 0 .. n : k \in S
    BY <1>1, <1>5, <1>6, Induct
  <2> QED
    BY <1>1, <2>1
<1> QED
  BY <1>2, <1>7 DEF S

-------------------------------------------------------------------------------
(* WHAT THE LIFECYCLES ARE SAID TO BE                                      *)

(* Of the readings of one ordinance no one goes back, and the one that     *)
(* decides is the last.                                                    *)
LEMMA HistoryOfReadings ==
  ASSUME LedgerInv, HistoryInv, NEW r \in Seq(Filed), NEW at, Origins(r, at)
  PROVE  /\ InOrder(r)
         /\ \A j \in 1 .. Len(r) : Decides(r[j]) => next[r[j].title.of] = 4
         /\ \A j, k \in 1 .. Len(r) : j <= k /\ SameOf(r, j, k) => r[j].reading <= r[k].reading
         /\ \A j, k \in 1 .. Len(r) : Decides(r[j]) /\ SameOf(r, j, k) => k <= j
<1> DEFINE n == Len(r)
<1>1. n \in Nat /\ \A i \in 1 .. n : r[i] \in Filed /\ r[i].date \in Int /\ r[i].reading \in Int
  <2>1. \A i \in 1 .. n : r[i] \in Filed /\ r[i].date \in Int
    BY DatesAre
  <2>2. n \in Nat
    OBVIOUS
  <2> QED
    BY <2>1, <2>2 DEF Filed
<1>2. \A i \in 1 .. n : /\ at[i] \in Acted /\ r[i].title = EntryAt(at[i]).title
                        /\ r[i].reading = EntryAt(at[i]).reading
                        /\ Decides(r[i]) <=> Decides(EntryAt(at[i]))
  <2> TAKE i \in 1 .. n
  <2>1. at[i] \in Acted /\ IsFiled(r[i], at[i])
    BY DEF Origins, Regular
  <2>2. /\ r[i].title = EntryAt(at[i]).title /\ r[i].reading = EntryAt(at[i]).reading
        /\ r[i].result = EntryAt(at[i]).result
    BY <2>1 DEF IsFiled, FileOf
  <2> QED
    BY <2>1, <2>2 DEF Decides
<1>3. ASSUME NEW j \in 1 .. n, NEW k \in 1 .. n, j < k, SameOf(r, j, k)
      PROVE  ~Decides(r[j]) /\ r[j].reading <= r[k].reading
  <2>1. Comes(at[j], at[k])
    BY <1>3 DEF Origins, SameOf
  <2>2. Precedes(at[j], at[k])
    BY <1>2, <2>1 DEF HistoryInv
  <2> QED
    BY <1>2, <1>3, <2>2 DEF Precedes, SameOf
<1>4. InOrder(r)
  <2> SUFFICES ASSUME NEW j \in 1 .. n, NEW k \in 1 .. n, j <= k PROVE r[j].date <= r[k].date
    BY DEF InOrder
  <2>1. CASE j = k
    BY <1>1, <2>1
  <2>2. CASE j < k
    BY <2>2 DEF Origins
  <2> QED
    BY <1>1, <2>1, <2>2
<1>5. \A j \in 1 .. n : Decides(r[j]) => next[r[j].title.of] = 4
  BY <1>2 DEF HistoryInv, Leaves
<1>6. ASSUME NEW j \in 1 .. n, NEW k \in 1 .. n, j <= k, SameOf(r, j, k) PROVE r[j].reading <= r[k].reading
  <2>1. CASE j = k
    BY <1>1, <2>1
  <2>2. CASE j < k
    BY <1>3, <1>6, <2>2
  <2> QED
    BY <1>1, <1>6, <2>1, <2>2
<1>7. ASSUME NEW j \in 1 .. n, NEW k \in 1 .. n, Decides(r[j]), SameOf(r, j, k) PROVE k <= j
  <2>1. ~(j < k)
    BY <1>3, <1>7
  <2> QED
    BY <1>1, <2>1
<1> QED
  BY <1>4, <1>5, <1>6, <1>7

(* What was done at a place.                                               *)
ActAt(p) == [held |-> meetings[p[1]].held, at |-> <<p[1], p[2]>>, of |-> EntryAt(p)]

LEMMA ActsAre ==
  ASSUME LedgerInv, NEW o
  PROVE  /\ \A p \in Regular : EntryAt(p).title.of = o => ActAt(p) \in Acts(o, {"regular"})
         /\ \A a \in Acts(o, {"regular"}) : \E p \in Regular : EntryAt(p).title.of = o /\ a = ActAt(p)
<1> DEFINE n == Len(meetings)
           act(m, k) == [held |-> meetings[m].held, at |-> <<m, k>>, of |-> meetings[m].entries[k]]
           M == {i \in DOMAIN meetings : meetings[i].kind \in {"regular"}}
           of(m) == {act(m, k) : k \in About(o, meetings[m])}
<1>1. /\ n \in Nat /\ DOMAIN meetings = 1 .. n
      /\ \A i \in 1 .. n : DOMAIN meetings[i].entries = 1 .. Len(meetings[i].entries)
  BY PlaceOf
<1>2. Acts(o, {"regular"}) = UNION {of(m) : m \in M}
  BY DEF Acts
<1>3. \A m, k : ActAt(<<m, k>>) = act(m, k)
  BY DEF ActAt, EntryAt
<1>4. ASSUME NEW p \in Regular, EntryAt(p).title.of = o PROVE ActAt(p) \in Acts(o, {"regular"})
  <2>1. p[1] \in 1 .. n /\ p[2] \in 1 .. Len(meetings[p[1]].entries) /\ meetings[p[1]].kind = "regular" /\ p = <<p[1], p[2]>>
    BY PlaceOf DEF Regular
  <2>2. p[1] \in M /\ p[2] \in About(o, meetings[p[1]])
    BY <1>1, <1>4, <2>1 DEF About, EntryAt
  <2>3. act(p[1], p[2]) \in of(p[1])
    BY <2>2
  <2>4. ActAt(p) = act(p[1], p[2])
    BY DEF ActAt, EntryAt
  <2> HIDE DEF of, act, M
  <2> QED
    BY <1>2, <2>2, <2>3, <2>4
<1>5. ASSUME NEW a \in Acts(o, {"regular"}) PROVE \E p \in Regular : EntryAt(p).title.of = o /\ a = ActAt(p)
  <2>1. PICK m \in M : a \in of(m)
    BY <1>2
  <2>2. PICK k \in About(o, meetings[m]) : a = act(m, k)
    BY <2>1
  <2>3. /\ m \in 1 .. n /\ meetings[m].kind = "regular"
        /\ k \in 1 .. Len(meetings[m].entries) /\ meetings[m].entries[k].title.of = o
    BY <1>1, <2>1, <2>2 DEF About
  <2>4. <<m, k>> \in Regular /\ EntryAt(<<m, k>>).title.of = o
    BY <2>3, PlaceOf DEF Regular, EntryAt
  <2> HIDE DEF act
  <2> QED
    BY <1>3, <2>2, <2>4
<1> QED
  BY <1>4, <1>5

(* There are as many of them as there are readings on file.                *)
LEMMA ActsAreFinite ==
  ASSUME LedgerInv, NEW r \in Seq(Filed), NEW at, Origins(r, at), NEW o
  PROVE  IsFiniteSet(Acts(o, {"regular"}))
<1> DEFINE n == Len(r)
           T == {ActAt(at[k]) : k \in 1 .. n}
           f == [k \in 1 .. n |-> ActAt(at[k])]
<1>1. n \in Nat /\ IsFiniteSet(1 .. n)
  <2>1. n \in Nat
    OBVIOUS
  <2> QED
    BY <2>1, FS_Interval
<1>2. f \in Surjection(1 .. n, T)
  <2>1. f \in [1 .. n -> T] /\ \A t \in T : \E k \in 1 .. n : f[k] = t
    OBVIOUS
  <2> HIDE DEF f, T, n
  <2> QED
    BY <2>1 DEF Surjection
<1>3. IsFiniteSet(T)
  <2> HIDE DEF f, T, n
  <2> QED
    BY <1>1, <1>2, FS_Surjection
<1>4. Acts(o, {"regular"}) \subseteq T
  <2> SUFFICES ASSUME NEW a \in Acts(o, {"regular"}) PROVE a \in T
    OBVIOUS
  <2>1. PICK p \in Regular : a = ActAt(p)
    BY ActsAre
  <2>2. PICK k \in 1 .. n : at[k] = p
    BY DEF Origins
  <2> QED
    BY <2>1, <2>2
<1> HIDE DEF T
<1> QED
  BY <1>3, <1>4, FS_Subset

(* Readings with where they are from, and their lifecycles.                *)
Filled(r, at, groups, pos) == /\ r \in Seq(Filed) /\ Origins(r, at)
                                /\ Grouped(groups, pos, r, Len(r))

(* A lifecycle by the places of its readings.                              *)
LEMMA GroupIs ==
  ASSUME NEW r, NEW at, NEW groups, NEW pos, Filled(r, at, groups, pos), NEW g \in 1 .. Len(groups)
  PROVE  LET G == groups[g]
             L == Len(groups[g])
         IN /\ L \in Nat /\ L \in 1 .. L /\ 1 \in 1 .. L /\ DOMAIN G = 1 .. L /\ Last(G) = r[pos[g][L]]
            /\ \A i \in 1 .. L : /\ pos[g][i] \in 1 .. Len(r) /\ pos[g][i] <= pos[g][L] /\ pos[g][1] <= pos[g][i]
                                 /\ G[i] = r[pos[g][i]] /\ G[i].title.of = G[1].title.of
                                 /\ SameOf(r, pos[g][i], pos[g][1]) /\ at[pos[g][i]] \in Regular
            /\ \A i, j \in 1 .. L : pos[g][i] = pos[g][j] => i = j
<1> DEFINE G == groups[g]
           L == Len(G)
           n == Len(r)
<1>1. /\ r \in Seq(Filed) /\ n \in Nat /\ n \in 0 .. n /\ Grouped(groups, pos, r, n)
      /\ at \in [1 .. n -> Regular]
  BY DEF Filled, Origins
<1>2. /\ pos[g] \in Seq(Nat) /\ Len(pos[g]) = L /\ L \in Nat /\ L \in 1 .. L /\ 1 \in 1 .. L
      /\ \A i \in 1 .. L : /\ pos[g][i] \in 1 .. n /\ pos[g][i] <= pos[g][L] /\ pos[g][1] <= pos[g][i]
                           /\ SameOf(r, pos[g][i], pos[g][1])
      /\ Last(G) = r[pos[g][L]]
  BY <1>1, LastIs
<1>3. DOMAIN G = 1 .. L
  <2>1. G \in Seq(Filed)
    BY <1>1, LivesAre DEF Grouped
  <2> HIDE DEF G
  <2> QED
    BY <2>1
<1>4. Rising(pos[g]) /\ \A i \in 1 .. L : G[i] = r[pos[g][i]]
  BY <1>1 DEF Grouped, IsGroup
<1> HIDE DEF G, L, n
<1>5. \A i \in 1 .. L : G[i].title.of = G[1].title.of
  BY <1>2, <1>4 DEF SameOf
<1>6. \A i \in 1 .. L : at[pos[g][i]] \in Regular
  BY <1>1, <1>2
<1>7. ASSUME NEW i \in 1 .. L, NEW j \in 1 .. L, pos[g][i] = pos[g][j] PROVE i = j
  <2>1. \A x \in 1 .. L : pos[g][x] \in Int
    BY <1>2
  <2>2. ~(i < j) /\ ~(j < i)
    <3>1. i < j => pos[g][i] < pos[g][j]
      BY <1>2, <1>4 DEF Rising
    <3>2. j < i => pos[g][j] < pos[g][i]
      BY <1>2, <1>4 DEF Rising
    <3> QED
      BY <1>7, <2>1, <3>1, <3>2
  <2> QED
    BY <1>2, <2>2
<1> QED
  BY <1>2, <1>3, <1>4, <1>5, <1>6, <1>7 DEF G, L, n

(* What a lifecycle is flagged with is of the acts of its ordinance.       *)
LEMMA FlagsAre ==
  ASSUME LedgerInv, HistoryInv, NEW r, NEW at, NEW groups, NEW pos, Filled(r, at, groups, pos),
         NEW g \in 1 .. Len(groups)
  PROVE  FlagsAreFacts(groups[g], groups[g][1].title.of, Acts(groups[g][1].title.of, {"regular"}))
<1> DEFINE G == groups[g]
           L == Len(G)
           n == Len(r)
           o == G[1].title.of
           acts == Acts(o, {"regular"})
           act(i) == ActAt(at[pos[g][i]])
<1>1. /\ r \in Seq(Filed) /\ n \in Nat /\ Origins(r, at) /\ Grouped(groups, pos, r, n)
      /\ at \in [1 .. n -> Regular] /\ \A k \in 1 .. n : IsFiled(r[k], at[k])
      /\ \A j, k \in 1 .. n : at[j] = at[k] => j = k
      /\ \A p \in Regular : \E k \in 1 .. n : at[k] = p
  BY DEF Filled, Origins
<1>2. /\ L \in Nat /\ L \in 1 .. L /\ 1 \in 1 .. L /\ DOMAIN G = 1 .. L /\ Last(G) = r[pos[g][L]]
      /\ \A i \in 1 .. L : /\ pos[g][i] \in 1 .. n /\ pos[g][i] <= pos[g][L]
                           /\ G[i] = r[pos[g][i]] /\ G[i].title.of = o
                           /\ SameOf(r, pos[g][i], pos[g][1]) /\ at[pos[g][i]] \in Regular
      /\ \A i, j \in 1 .. L : pos[g][i] = pos[g][j] => i = j
  BY GroupIs
<1>3. /\ InOrder(r)
      /\ \A j \in 1 .. n : Decides(r[j]) => next[r[j].title.of] = 4
      /\ \A j, k \in 1 .. n : Decides(r[j]) /\ SameOf(r, j, k) => k <= j
  BY <1>1, HistoryOfReadings
<1>4. /\ \A p \in Regular : EntryAt(p).title.of = o => ActAt(p) \in acts
      /\ \A a \in acts : \E p \in Regular : EntryAt(p).title.of = o /\ a = ActAt(p)
  BY ActsAre
<1>5. IsFiniteSet(acts)
  BY <1>1, ActsAreFinite
<1> HIDE DEF G, L, n, o, acts
<1>6. ASSUME NEW i \in 1 .. L
      PROVE  /\ act(i) \in acts /\ act(i).at = <<at[pos[g][i]][1], at[pos[g][i]][2]>>
             /\ act(i).of.reading = G[i].reading /\ act(i).of.result = G[i].result
             /\ act(i).of.substitute = G[i].substitute
  <2> DEFINE p == at[pos[g][i]]
  <2>1. p \in Regular /\ IsFiled(G[i], p) /\ G[i].title.of = o
    BY <1>1, <1>2
  <2> HIDE DEF p
  <2>2. EntryAt(p).title.of = o
    BY <2>1 DEF IsFiled, FileOf
  <2>3. ActAt(p) \in acts
    BY <1>4, <2>1, <2>2
  <2>4. ActAt(p).of = EntryAt(p) /\ ActAt(p).at = <<p[1], p[2]>>
    BY DEF ActAt
  <2> QED
    BY <2>1, <2>3, <2>4 DEF IsFiled, FileOf, p
<1> HIDE DEF act
<1>7. ASSUME NEW i \in 1 .. L, Decides(G[i])
      PROVE  next[o] = 4 /\ \A k \in 1 .. n : SameOf(r, pos[g][i], k) => k <= pos[g][i]
  BY <1>2, <1>3, <1>7
<1>8. ASSUME NEW i \in 1 .. L, Decides(G[i]), NEW j \in 1 .. L, Decides(G[j]) PROVE i = j
  <2>1. SameOf(r, pos[g][i], pos[g][j]) /\ SameOf(r, pos[g][j], pos[g][i])
    BY <1>2 DEF SameOf
  <2>2. pos[g][i] <= pos[g][j] /\ pos[g][j] <= pos[g][i] /\ pos[g][i] \in 1 .. n /\ pos[g][j] \in 1 .. n
    BY <1>2, <1>7, <1>8, <2>1
  <2> DEFINE x == pos[g][i]
             y == pos[g][j]
  <2>3. x <= y /\ y <= x /\ x \in Int /\ y \in Int
    BY <2>2
  <2> HIDE DEF x, y
  <2>4. x = y
    BY <2>3
  <2> QED
    BY <1>2, <2>4 DEF x, y
<1>9. Adopted(G) => next[o] = 4 /\ \E a \in acts : a.of.reading = 3 /\ a.of.result = "carried"
  <2> SUFFICES ASSUME NEW i \in 1 .. L, G[i].reading = 3, G[i].result = "carried"
               PROVE  next[o] = 4 /\ \E a \in acts : a.of.reading = 3 /\ a.of.result = "carried"
    BY <1>2 DEF Adopted
  <2>1. Decides(G[i])
    BY DEF Decides
  <2> QED
    BY <1>6, <1>7, <2>1
<1>10. Failures(G) # {} => next[o] = 4 /\ ~Adopted(G)
  <2> SUFFICES ASSUME NEW i \in 1 .. L, G[i].result = "failed" PROVE next[o] = 4 /\ ~Adopted(G)
    BY <1>2 DEF Failures
  <2>1. Decides(G[i])
    BY DEF Decides
  <2>2. ASSUME NEW j \in 1 .. L, G[j].reading = 3, G[j].result = "carried" PROVE FALSE
    <3>1. Decides(G[j])
      BY <2>2 DEF Decides
    <3>2. i = j
      BY <1>8, <2>1, <3>1
    <3> QED
      BY <2>2, <3>2
  <2> QED
    BY <1>2, <1>7, <2>1, <2>2 DEF Adopted
<1>11. LateSubstitutes(G) # {} => \E a \in acts : a.of.reading = 3 /\ a.of.substitute
  <2> SUFFICES ASSUME NEW i \in 1 .. L, G[i].reading = 3, G[i].substitute
               PROVE  \E a \in acts : a.of.reading = 3 /\ a.of.substitute
    BY <1>2 DEF LateSubstitutes
  <2> QED
    BY <1>6
<1>12. Cardinality(Postponements(G)) <= Cardinality({a \in acts : a.of.result = "postponed"})
  <2> DEFINE S == Postponements(G)
             T == {a \in acts : a.of.result = "postponed"}
             f == [i \in S |-> act(i)]
  <2>1. \A i \in S : i \in 1 .. L /\ G[i].result = "postponed"
    BY <1>2 DEF Postponements
  <2>2. \A i \in S : act(i) \in T
    BY <1>6, <2>1
  <2>3. IsFiniteSet(T)
    <3>1. T \subseteq acts
      OBVIOUS
    <3> HIDE DEF T
    <3> QED
      BY <1>5, <3>1, FS_Subset
  <2> HIDE DEF S, T
  <2>4. ASSUME NEW i \in S, NEW j \in S, act(i) = act(j) PROVE i = j
    <3> DEFINE p == at[pos[g][i]]
               q == at[pos[g][j]]
    <3>1. p \in Regular /\ q \in Regular /\ <<p[1], p[2]>> = <<q[1], q[2]>>
      <4>1. i \in 1 .. L /\ j \in 1 .. L
        BY <2>1
      <4>2. p \in Regular /\ q \in Regular
        BY <1>2, <4>1
      <4>3. act(i).at = <<p[1], p[2]>> /\ act(j).at = <<q[1], q[2]>>
        BY <1>6, <4>1
      <4> QED
        BY <2>4, <4>2, <4>3
    <3>2. p = <<p[1], p[2]>> /\ q = <<q[1], q[2]>>
      <4> HIDE DEF p, q
      <4> QED
        BY <3>1, PlaceOf DEF Regular
    <3>3. pos[g][i] = pos[g][j]
      <4>1. pos[g][i] \in 1 .. n /\ pos[g][j] \in 1 .. n
        BY <1>2, <2>1
      <4>2. p = q
        <5> HIDE DEF p, q
        <5> QED
          BY <3>1, <3>2
      <4> QED
        BY <1>1, <4>1, <4>2
    <3> QED
      BY <1>2, <2>1, <3>3
  <2>5. f \in Injection(S, T)
    <3>1. f \in [S -> T]
      BY <2>2
    <3>2. \A i, j \in S : f[i] = f[j] => i = j
      BY <2>4
    <3> HIDE DEF f
    <3> QED
      BY <3>1, <3>2 DEF Injection, IsInjective
  <2>6. Cardinality(S) <= Cardinality(T)
    <3> HIDE DEF f
    <3> QED
      BY <2>3, <2>5, FS_Injection
  <2> QED
    BY <2>6 DEF S, T
<1>13. ASSUME IsPending(G), NEW a \in acts, Decides(a.of) PROVE a.held - Last(G).date > 200
  <2>1. PICK p \in Regular : EntryAt(p).title.of = o /\ a = ActAt(p)
    BY <1>4
  <2>2. PICK k \in 1 .. n : at[k] = p
    BY <1>1
  <2>3. r[k].title.of = o /\ Decides(r[k]) /\ r[k].date = a.held
    <3>1. IsFiled(r[k], p) /\ a.of = EntryAt(p) /\ a.held = meetings[p[1]].held
      BY <1>1, <2>1, <2>2 DEF ActAt
    <3> QED
      BY <1>13, <2>1, <3>1 DEF IsFiled, FileOf, Decides
  <2>4. PICK h \in 1 .. Len(groups) : \E i \in 1 .. Len(groups[h]) : pos[h][i] = k
    BY <1>1 DEF Grouped
  <2>5. PICK i \in 1 .. Len(groups[h]) : pos[h][i] = k
    BY <2>4
  <2> DEFINE l == pos[g][L]
             f == pos[h][1]
  <2>6. /\ 1 \in 1 .. Len(groups[h])
        /\ f \in 1 .. n /\ f <= k /\ SameOf(r, k, f)
    BY <2>5, GroupIs DEF n, f
  <2>7. l \in 1 .. n /\ Last(G) = r[l] /\ r[l].title.of = o /\ SameOf(r, k, l)
    BY <1>2, <2>3 DEF SameOf
  <2>8. l <= k /\ \A x \in 1 .. n : SameOf(r, k, x) => x <= k
    BY <1>3, <2>3, <2>7
  <2>9. l # k
    BY <1>13, <2>3, <2>7 DEF IsPending, Decides
  <2> HIDE DEF l, f
  <2>10. h # g
    <3> SUFFICES ASSUME h = g PROVE FALSE
      OBVIOUS
    <3>1. k <= l
      BY <1>2, <2>5 DEF l, L, G
    <3> QED
      BY <1>1, <2>7, <2>8, <2>9, <3>1
  <2>11. ~(h < g)
    <3> SUFFICES ASSUME h < g PROVE FALSE
      OBVIOUS
    <3> DEFINE b == pos[g][1]
    <3>1. b \in 1 .. n /\ SameOf(r, k, b)
      BY <1>2, <2>3 DEF SameOf
    <3>2. SameOf(r, pos[h][1], b) /\ EndsBefore(pos[h], b, r)
      <4>1. EndsBefore(pos[h], b, r)
        BY <1>1 DEF Grouped
      <4> QED
        BY <2>6, <3>1, <4>1 DEF SameOf, f
    <3>3. Len(pos[h]) = Len(groups[h])
      BY <1>1 DEF Grouped, IsGroup
    <3> HIDE DEF b
    <3>4. k < b /\ b <= k
      BY <2>5, <2>8, <3>1, <3>2, <3>3 DEF EndsBefore
    <3> QED
      BY <3>1, <3>4
  <2>12. g < h
    <3>1. g \in Int /\ h \in Int
      OBVIOUS
    <3> QED
      BY <2>10, <2>11, <3>1
  <2>13. SameOf(r, l, f) /\ SameOf(r, pos[g][1], f)
    BY <1>2, <2>6, <2>7 DEF SameOf, l
  <2>14. EndsBefore(pos[g], f, r) /\ Alone(f, r) /\ Len(pos[g]) = L
    BY <1>1, <2>12 DEF Grouped, IsGroup, f, L, G
  <2>15. l < f
    BY <1>2, <2>13, <2>14 DEF EndsBefore, l
  <2>16. Apart(r, l, f)
    BY <2>7, <2>13, <2>14, <2>15 DEF Alone, n
  <2>17. r[f].date <= r[k].date /\ r[f].date \in Int /\ r[k].date \in Int /\ r[l].date \in Int
    <3>1. \A x \in 1 .. n : r[x].date \in Int
      BY <1>1, DatesAre DEF n
    <3> QED
      BY <1>3, <2>6, <2>7, <3>1 DEF InOrder, n
  <2> DEFINE x == r[f].date
             y == r[k].date
             z == r[l].date
  <2>18. x - z > 200 /\ x <= y /\ x \in Int /\ y \in Int /\ z \in Int
    BY <2>16, <2>17 DEF Apart
  <2> HIDE DEF x, y, z
  <2>19. y - z > 200
    BY <2>18
  <2> QED
    BY <2>3, <2>7, <2>19 DEF y, z
<1>14. FlagsAreFacts(G, o, acts)
  BY <1>9, <1>10, <1>11, <1>12, <1>13 DEF FlagsAreFacts
<1> QED
  BY <1>14 DEF G, o, acts

(* An ordinance that was never dormant has one lifecycle.                  *)
ReadingsOf(r, o) == FlattenSeq([i \in DOMAIN r |-> IF r[i].title.of = o THEN <<r[i]>> ELSE <<>>])

LEMMA ReadingsOfAre ==
  ASSUME NEW r \in Seq(Filed), NEW o
  PROVE  \E at \in Seq(Nat) : /\ Rising(at) /\ Len(ReadingsOf(r, o)) = Len(at) /\ ReadingsOf(r, o) \in Seq(Filed)
                              /\ \A j \in 1 .. Len(at) : /\ at[j] \in 1 .. Len(r) /\ r[at[j]].title.of = o
                                                         /\ ReadingsOf(r, o)[j] = r[at[j]]
                              /\ \A k \in 1 .. Len(r) : r[k].title.of = o => \E j \in 1 .. Len(at) : at[j] = k
<1> DEFINE n == Len(r)
           K == {k \in 1 .. n : r[k].title.of = o}
           s == Picked(r, K)
<1>1. n \in Nat /\ DOMAIN r = 1 .. n
  OBVIOUS
<1>2. s = ReadingsOf(r, o)
  <2>1. [i \in DOMAIN r |-> IF i \in K THEN <<r[i]>> ELSE <<>>]
          = [i \in DOMAIN r |-> IF r[i].title.of = o THEN <<r[i]>> ELSE <<>>]
    BY <1>1
  <2> QED
    BY <2>1 DEF ReadingsOf, Picked
<1>3. K \in SUBSET (1 .. n) /\ \A k \in K : k \in 1 .. n /\ k \in Nat /\ r[k].title.of = o
  OBVIOUS
<1>4. \A k \in 1 .. n : r[k].title.of = o => k \in K
  OBVIOUS
<1> HIDE DEF K
<1>5. s \in Seq(Filed) /\ \E at : PickedAt(s, r, K, at)
  <2>1. K \in SUBSET (1 .. Len(r))
    BY <1>3
  <2> QED
    BY <2>1, PickedIs
<1> HIDE DEF s, n
<1>6. PICK at : PickedAt(s, r, K, at)
  BY <1>5
<1>7. /\ at \in Seq(K) /\ Rising(at) /\ \A k \in K : \E j \in 1 .. Len(at) : at[j] = k
      /\ s \in Seq(Filed) /\ Len(s) = Len(at) /\ \A j \in 1 .. Len(at) : s[j] = r[at[j]]
  BY <1>5, <1>6 DEF PickedAt
<1>8. at \in Seq(Nat) /\ \A j \in 1 .. Len(at) : at[j] \in K
  <2>1. \A j \in 1 .. Len(at) : at[j] \in K
    BY <1>7
  <2>2. K \subseteq Nat
    BY <1>3
  <2>3. Len(at) \in Nat /\ at \in [1 .. Len(at) -> K]
    BY <1>7
  <2>4. at \in [1 .. Len(at) -> Nat]
    BY <2>2, <2>3
  <2> QED
    BY <2>1, <2>3, <2>4
<1>9. \A j \in 1 .. Len(at) : at[j] \in 1 .. n /\ r[at[j]].title.of = o
  BY <1>3, <1>8
<1> QED
  BY <1>2, <1>4, <1>7, <1>8, <1>9 DEF n

(* No other of its readings can begin a lifecycle.                         *)
LEMMA NeverAlone ==
  ASSUME NEW r \in Seq(Filed), NEW o, NeverDormant(ReadingsOf(r, o)), InOrder(r),
         NEW f \in 1 .. Len(r), r[f].title.of = o, Alone(f, r),
         NEW x \in 1 .. Len(r), r[x].title.of = o
  PROVE  f <= x
<1> DEFINE s == ReadingsOf(r, o)
<1>1. PICK at \in Seq(Nat) : /\ Rising(at) /\ Len(s) = Len(at)
                             /\ \A j \in 1 .. Len(at) : /\ at[j] \in 1 .. Len(r) /\ r[at[j]].title.of = o
                                                        /\ s[j] = r[at[j]]
                             /\ \A k \in 1 .. Len(r) : r[k].title.of = o => \E j \in 1 .. Len(at) : at[j] = k
  BY ReadingsOfAre
<1> DEFINE m == Len(at)
<1>2. m \in Nat /\ \A j \in 1 .. m : at[j] \in Nat
  BY <1>1
<1>3. \A i, j \in 1 .. m : i < j => at[i] < at[j]
  BY <1>1 DEF Rising
<1>4. \A k \in 1 .. Len(r) : r[k].title.of = o => \E j \in 1 .. m : at[j] = k
  BY <1>1
<1>5. \A i \in 1 .. (m - 1) : s[i+1].date - s[i].date <= 200
  BY <1>1 DEF NeverDormant
<1>6. \A j \in 1 .. m : at[j] \in 1 .. Len(r) /\ r[at[j]].title.of = o /\ s[j] = r[at[j]]
  BY <1>1
<1> HIDE DEF s, m
<1>7. PICK j \in 1 .. m : at[j] = f
  BY <1>4
<1>8. PICK i \in 1 .. m : at[i] = x
  BY <1>4
<1> SUFFICES ASSUME x < f PROVE FALSE
  OBVIOUS
<1>9. i < j
  <2> SUFFICES ASSUME ~(i < j) PROVE FALSE
    OBVIOUS
  <2>1. i = j \/ j < i
    BY <1>2
  <2>2. i # j
    <3>1. x # f
      OBVIOUS
    <3> QED
      BY <1>7, <1>8, <3>1
  <2>3. f < x
    BY <1>3, <1>7, <1>8, <2>1, <2>2
  <2> QED
    BY <2>3
<1> DEFINE h == j - 1
           y == at[h]
<1>10. h \in 1 .. m /\ h < j /\ h \in 1 .. (m - 1) /\ h + 1 = j
  BY <1>2, <1>9
<1> HIDE DEF h
<1>11. y \in 1 .. Len(r) /\ y < f /\ SameOf(r, y, f) /\ s[h] = r[y] /\ s[j] = r[f]
  BY <1>3, <1>6, <1>7, <1>10 DEF SameOf
<1> HIDE DEF y
<1>12. r[f].date - r[y].date <= 200
  BY <1>5, <1>10, <1>11
<1>13. r[f].date - r[y].date > 200
  BY <1>11 DEF Alone, Apart
<1>14. r[f].date \in Int /\ r[y].date \in Int
  BY <1>11, DatesAre
<1> DEFINE a == r[f].date
           b == r[y].date
<1>15. a \in Int /\ b \in Int /\ a - b <= 200 /\ a - b > 200
  BY <1>12, <1>13, <1>14
<1> HIDE DEF a, b
<1> QED
  BY <1>15

LEMMA OneLifecycle ==
  ASSUME LedgerInv, HistoryInv, NEW r, NEW at, NEW groups, NEW pos, Filled(r, at, groups, pos), NEW o,
         NeverDormant(ReadingsOf(r, o)), ReadingsOf(r, o) # <<>>
  PROVE  \E g \in 1 .. Len(groups) :
           /\ groups[g] = ReadingsOf(r, o)
           /\ \A h \in 1 .. Len(groups) : (\E i \in DOMAIN groups[h] : groups[h][i].title.of = o) <=> h = g
<1> DEFINE s == ReadingsOf(r, o)
           n == Len(r)
<1>1. r \in Seq(Filed) /\ n \in Nat /\ Origins(r, at) /\ Grouped(groups, pos, r, n) /\ InOrder(r)
  BY HistoryOfReadings DEF Filled
<1>2. PICK its \in Seq(Nat) : /\ Rising(its) /\ Len(s) = Len(its) /\ s \in Seq(Filed)
                              /\ \A j \in 1 .. Len(its) : /\ its[j] \in 1 .. n /\ r[its[j]].title.of = o
                                                          /\ s[j] = r[its[j]]
                              /\ \A k \in 1 .. n : r[k].title.of = o => \E j \in 1 .. Len(its) : its[j] = k
  BY <1>1, ReadingsOfAre
<1> HIDE DEF s
<1>3. 1 \in 1 .. Len(its) /\ Len(its) \in Nat
  <2>1. Len(s) # 0
    BY <1>2, EmptySeq DEF s
  <2> QED
    BY <1>2, <2>1
<1>4. PICK g \in 1 .. Len(groups) : \E i \in 1 .. Len(groups[g]) : pos[g][i] = its[1]
  BY <1>1, <1>2, <1>3 DEF Grouped
<1> DEFINE L(h) == Len(groups[h])
<1>5. ASSUME NEW h \in 1 .. Len(groups)
      PROVE  /\ DOMAIN groups[h] = 1 .. L(h) /\ 1 \in 1 .. L(h) /\ pos[h] \in Seq(Nat) /\ L(h) \in Nat
             /\ Len(pos[h]) = L(h) /\ Rising(pos[h]) /\ Alone(pos[h][1], r)
             /\ \A i \in 1 .. L(h) : /\ pos[h][i] \in 1 .. n /\ groups[h][i] = r[pos[h][i]]
                                     /\ groups[h][i].title.of = r[pos[h][1]].title.of
  <2>1. /\ DOMAIN groups[h] = 1 .. L(h) /\ 1 \in 1 .. L(h) /\ L(h) \in Nat
        /\ \A i \in 1 .. L(h) : pos[h][i] \in 1 .. n /\ groups[h][i] = r[pos[h][i]] /\ SameOf(r, pos[h][i], pos[h][1])
    BY GroupIs
  <2>2. Len(pos[h]) = L(h) /\ Rising(pos[h]) /\ Alone(pos[h][1], r) /\ pos[h] \in Seq(Nat)
    BY <1>1 DEF Grouped, IsGroup
  <2> QED
    BY <2>1, <2>2 DEF SameOf
<1> HIDE DEF L, n
<1>6. r[pos[g][1]].title.of = o
  <2>1. PICK i \in 1 .. L(g) : pos[g][i] = its[1]
    BY <1>4 DEF L
  <2>2. r[its[1]].title.of = o
    BY <1>2, <1>3
  <2>3. groups[g][i] = r[its[1]] /\ groups[g][i].title.of = r[pos[g][1]].title.of
    BY <1>5, <2>1
  <2> QED
    BY <2>2, <2>3
<1>7. ASSUME NEW h \in 1 .. Len(groups), r[pos[h][1]].title.of = o PROVE h = g
  <2> DEFINE x == pos[g][1]
             y == pos[h][1]
  <2>1. /\ x \in 1 .. n /\ y \in 1 .. n /\ Alone(x, r) /\ Alone(y, r)
        /\ 1 \in 1 .. Len(pos[g]) /\ 1 \in 1 .. Len(pos[h])
    BY <1>5
  <2>2. x <= y /\ y <= x
    BY <1>1, <1>6, <1>7, <2>1, NeverAlone DEF n
  <2>3. SameOf(r, x, y) /\ SameOf(r, y, x)
    BY <1>6, <1>7 DEF SameOf
  <2>4. ~(g < h)
    <3> SUFFICES ASSUME g < h PROVE FALSE
      OBVIOUS
    <3>1. x < y
      BY <1>1, <2>1, <2>3 DEF Grouped, EndsBefore
    <3> HIDE DEF x, y
    <3> QED
      BY <2>1, <2>2, <3>1
  <2>5. ~(h < g)
    <3> SUFFICES ASSUME h < g PROVE FALSE
      OBVIOUS
    <3>1. y < x
      BY <1>1, <2>1, <2>3 DEF Grouped, EndsBefore
    <3> HIDE DEF x, y
    <3> QED
      BY <2>1, <2>2, <3>1
  <2>6. g \in Int /\ h \in Int
    OBVIOUS
  <2> QED
    BY <2>4, <2>5, <2>6
<1>8. HasAll(its, pos[g])
  <2>1. \A i \in 1 .. L(g) : \E j \in 1 .. Len(its) : its[j] = pos[g][i]
    <3> TAKE i \in 1 .. L(g)
    <3>1. pos[g][i] \in 1 .. n /\ groups[g][i] = r[pos[g][i]] /\ groups[g][i].title.of = r[pos[g][1]].title.of
      BY <1>5
    <3>2. r[pos[g][i]].title.of = o
      BY <1>6, <3>1
    <3> QED
      BY <1>2, <3>1, <3>2
  <2> QED
    BY <1>5, <2>1 DEF HasAll
<1>9. HasAll(pos[g], its)
  <2> SUFFICES ASSUME NEW j \in 1 .. Len(its) PROVE \E i \in 1 .. L(g) : pos[g][i] = its[j]
    BY <1>5 DEF HasAll
  <2>1. its[j] \in 1 .. n /\ r[its[j]].title.of = o
    BY <1>2
  <2>2. PICK h \in 1 .. Len(groups) : \E i \in 1 .. L(h) : pos[h][i] = its[j]
    BY <1>1, <2>1 DEF Grouped, L
  <2>5. PICK i \in 1 .. L(h) : pos[h][i] = its[j]
    BY <2>2
  <2>6. groups[h][i] = r[its[j]] /\ groups[h][i].title.of = r[pos[h][1]].title.of
    BY <1>5, <2>5
  <2>3. r[pos[h][1]].title.of = o
    BY <2>1, <2>6
  <2>4. h = g
    BY <1>7, <2>3
  <2> QED
    BY <2>2, <2>4
<1>10. Len(pos[g]) = Len(its) /\ \A i \in 1 .. Len(pos[g]) : pos[g][i] = its[i]
  BY <1>2, <1>5, <1>8, <1>9, RisingAgree
<1>11. groups[g] = s
  <2> DEFINE G == groups[g]
  <2>1. G \in Seq(Filed) /\ s \in Seq(Filed)
    BY <1>1, <1>2, LivesAre DEF Grouped
  <2>2. Len(G) = Len(s) /\ \A i \in 1 .. Len(G) : G[i] = s[i]
    <3>1. Len(G) = Len(pos[g])
      BY <1>5 DEF L
    <3>2. \A i \in 1 .. Len(G) : G[i] = r[pos[g][i]]
      BY <1>5 DEF L
    <3>3. \A i \in 1 .. Len(its) : s[i] = r[its[i]]
      BY <1>2
    <3> HIDE DEF G
    <3> QED
      BY <1>2, <1>10, <3>1, <3>2, <3>3
  <2> HIDE DEF G
  <2>3. G = [i \in 1 .. Len(G) |-> G[i]] /\ s = [i \in 1 .. Len(s) |-> s[i]]
    BY <2>1
  <2> DEFINE m == Len(s)
  <2>4. Len(G) = m /\ \A i \in 1 .. m : G[i] = s[i]
    BY <2>2
  <2>5. G = [i \in 1 .. m |-> G[i]]
    BY <2>3, <2>4
  <2>6. s = [i \in 1 .. m |-> s[i]]
    BY <2>3
  <2>7. \A i \in 1 .. m : G[i] = s[i]
    BY <2>4
  <2> HIDE DEF m
  <2>8. G = s
    BY <2>5, <2>6, <2>7
  <2> QED
    BY <2>8 DEF G
<1>12. ASSUME NEW h \in 1 .. Len(groups)
       PROVE  (\E i \in DOMAIN groups[h] : groups[h][i].title.of = o) <=> h = g
  <2>1. (\E i \in DOMAIN groups[h] : groups[h][i].title.of = o) => h = g
    BY <1>5, <1>7
  <2>2. h = g => \E i \in DOMAIN groups[h] : groups[h][i].title.of = o
    BY <1>5, <1>6
  <2> QED
    BY <2>1, <2>2
<1> QED
  BY <1>11, <1>12 DEF s

(* And a reading of it lacks the one before only when there is none.       *)
LEMMA NothingIsLacking ==
  ASSUME LedgerInv, HistoryInv, NEW r, NEW at, NEW groups, NEW pos, Filled(r, at, groups, pos), NEW o,
         NEW g \in 1 .. Len(groups), NEW h \in DOMAIN groups[g], groups[g][h].title.of = o,
         \A b \in 1 .. Len(groups) : (\E i \in DOMAIN groups[b] : groups[b][i].title.of = o) <=> b = g
  PROVE  IsWholeLifecycle(groups[g], o)
<1> DEFINE G == groups[g]
           L == Len(G)
           n == Len(r)
<1>1. r \in Seq(Filed) /\ n \in Nat /\ Origins(r, at) /\ Grouped(groups, pos, r, n)
  BY DEF Filled
<1>2. /\ L \in Nat /\ DOMAIN G = 1 .. L
      /\ \A i \in 1 .. L : /\ pos[g][i] \in 1 .. n /\ G[i] = r[pos[g][i]] /\ SameOf(r, pos[g][i], pos[g][1])
  BY GroupIs
<1>3. \A j, k \in 1 .. n : j <= k /\ SameOf(r, j, k) => r[j].reading <= r[k].reading
  BY <1>1, HistoryOfReadings
<1>4. Rising(pos[g]) /\ Len(pos[g]) = L
  BY <1>1 DEF Grouped, IsGroup
<1> HIDE DEF G, L, n
<1>5. \A i \in 1 .. L : G[i].reading \in Int
  <2>1. \A k \in 1 .. n : r[k] \in Filed
    BY <1>1, DatesAre DEF n
  <2>2. \A e \in Filed : e.reading \in Int
    BY DEF Filed
  <2>3. \A i \in 1 .. L : G[i] \in Filed
    BY <1>2, <2>1
  <2> QED
    BY <2>2, <2>3
<1>6. ASSUME NEW i \in Skipping(G), NEW a \in Acts(o, {"regular"}), a.of.reading = G[i].reading - 1 PROVE FALSE
  <2>1. i \in 1 .. L /\ \A j \in 1 .. (i - 1) : G[j].reading # G[i].reading - 1
    BY <1>2 DEF Skipping
  <2>2. PICK p \in Regular : EntryAt(p).title.of = o /\ a = ActAt(p)
    BY ActsAre
  <2>3. PICK k \in 1 .. n : at[k] = p
    BY <1>1 DEF Origins, n
  <2>4. r[k].title.of = o /\ r[k].reading = G[i].reading - 1
    <3>1. IsFiled(r[k], p)
      BY <1>1, <2>3 DEF Origins, n
    <3>2. a.of = EntryAt(p)
      BY <2>2 DEF ActAt
    <3> QED
      BY <1>6, <2>2, <3>1, <3>2 DEF IsFiled, FileOf
  <2>5. PICK b \in 1 .. Len(groups) : \E j \in 1 .. Len(groups[b]) : pos[b][j] = k
    BY <1>1 DEF Grouped, n
  <2>6. PICK j \in 1 .. Len(groups[b]) : pos[b][j] = k
    BY <2>5
  <2>7. DOMAIN groups[b] = 1 .. Len(groups[b]) /\ groups[b][j] = r[k]
    BY <2>6, GroupIs
  <2>8. b = g
    BY <2>4, <2>6, <2>7
  <2>9. j \in 1 .. L /\ pos[g][j] = k /\ G[j].reading = G[i].reading - 1
    BY <2>4, <2>6, <2>7, <2>8 DEF L, G
  <2>10. ~(j < i)
    <3> SUFFICES ASSUME j < i PROVE FALSE
      OBVIOUS
    <3>1. j \in 1 .. (i - 1)
      BY <1>2, <2>1, <2>9
    <3> QED
      BY <2>1, <2>9, <3>1
  <2>11. G[i].reading <= G[j].reading
    <3>1. CASE i = j
      BY <1>5, <2>1, <3>1
    <3>2. CASE i < j
      <4> DEFINE x == pos[g][i]
                 y == pos[g][j]
      <4>1. x < y /\ x \in 1 .. n /\ y \in 1 .. n /\ SameOf(r, x, y)
        BY <1>2, <1>4, <2>1, <2>9, <3>2 DEF Rising, SameOf
      <4> HIDE DEF x, y
      <4>2. x <= y
        BY <4>1
      <4>3. r[x].reading <= r[y].reading
        BY <1>3, <4>1, <4>2
      <4> QED
        BY <1>2, <2>1, <2>9, <4>3 DEF x, y
    <3> QED
      BY <1>2, <2>1, <2>9, <2>10, <3>1, <3>2
  <2>12. G[i].reading \in Int
    BY <1>5, <2>1
  <2> QED
    BY <2>9, <2>11, <2>12
<1> QED
  BY <1>6 DEF IsWholeLifecycle, G

LEMMA LifecyclesAreTold == LedgerInv /\ HistoryInv => LifecyclesAreOrdinances
<1> SUFFICES ASSUME LedgerInv, HistoryInv PROVE LifecyclesAreOrdinances
  OBVIOUS
<1> DEFINE r == Readings
           groups == Lifecycles(r)
           of(o) == {g \in DOMAIN groups : \E i \in DOMAIN groups[g] : groups[g][i].title.of = o}
<1>1. PICK at : r \in Seq(Filed) /\ Origins(r, at)
  BY ReadingsAre
<1>2. PICK pos : Grouped(groups, pos, r, Len(r))
  <2> HIDE DEF r
  <2> QED
    BY <1>1, HistoryOfReadings, LifecyclesAre
<1> HIDE DEF r, groups
<1>3. Filled(r, at, groups, pos)
  BY <1>1, <1>2 DEF Filled
<1>4. DOMAIN groups = 1 .. Len(groups)
  BY <1>2, LivesAre DEF Grouped
<1>5. ASSUME NEW g \in DOMAIN groups
      PROVE  /\ \A i \in DOMAIN groups[g] : groups[g][i].title.of = groups[g][1].title.of
             /\ FlagsAreFacts(groups[g], groups[g][1].title.of, Acts(groups[g][1].title.of, {"regular"}))
  BY <1>3, <1>4, GroupIs, FlagsAre
<1>6. ASSUME NEW o \in Ordinance, NeverDormant(ReadingsOf(r, o)), ReadingsOf(r, o) # <<>>
      PROVE  \E g \in of(o) : of(o) = {g} /\ groups[g] = ReadingsOf(r, o) /\ IsWholeLifecycle(groups[g], o)
  <2>1. PICK g \in 1 .. Len(groups) :
          /\ groups[g] = ReadingsOf(r, o)
          /\ \A h \in 1 .. Len(groups) : (\E i \in DOMAIN groups[h] : groups[h][i].title.of = o) <=> h = g
    BY <1>3, <1>6, OneLifecycle
  <2>2. of(o) = {g}
    BY <1>4, <2>1
  <2>3. PICK i \in DOMAIN groups[g] : groups[g][i].title.of = o
    BY <2>1
  <2>4. IsWholeLifecycle(groups[g], o)
    BY <1>3, <2>1, <2>3, NothingIsLacking
  <2> HIDE DEF of
  <2> QED
    BY <2>1, <2>2, <2>4
<1> QED
  BY <1>5, <1>6 DEF LifecyclesAreOrdinances, r, groups, ReadingsOf

(* SAFETY.  However the council acts on its ordinances and amends their    *)
(* titles, the lifecycles reading_sequences puts together title by title   *)
(* are those of the ordinances, and what it flags them with was done:      *)
(* HistoryInv says what an ordinance has behind it, and it is the sorting  *)
(* by date and reading and the 200 days that keep it together              *)
(* (reading_sequences, LifecyclesAreOrdinances).                           *)
THEOREM LifecyclesAreTheirOrdinances == LedgerSpec => []LifecyclesAreOrdinances
<1> DEFINE Inv == LedgerInv /\ HistoryInv
<1>1. LedgerInit => Inv
  BY LedgerStart, HistoryStart
<1>2. Inv /\ [LedgerNext]_ledgerVars => Inv'
  BY LedgerStep, HistoryStep
<1>3. Inv => LifecyclesAreOrdinances
  BY LifecyclesAreTold
<1> QED
  BY <1>1, <1>2, <1>3, PTL DEF LedgerSpec
=============================================================================
