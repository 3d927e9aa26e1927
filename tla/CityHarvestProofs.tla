-------------------------- MODULE CityHarvestProofs --------------------------
(***************************************************************************)
(* Proofs about CityHarvest and CityRecon, for every site, every score and *)
(* every budget, any number of runs and every set of kinds of fault.  The  *)
(* first parts are about heapq: the paths of a binary tree, what a push    *)
(* and a pop do to a heap.  The next is about the queue of a run, which a  *)
(* recursive function fills; then come the harvest and the reconnaissance. *)
(***************************************************************************)
EXTENDS CityHarvestProps, CityReconProps, FiniteSetTheorems, SequenceTheorems,
        WellFoundedInduction, TLAPS

(* Of a set of numbers one is the least.                                   *)
LEMMA LeastNat ==
  ASSUME NEW B \in SUBSET Nat, B # {}
  PROVE  \E m \in B : \A k \in B : m <= k
<1>1. PICK n \in B : TRUE
  OBVIOUS
<1> DEFINE S == 0 .. n
           R == StrictSubsetOrdering(S)
           T == {0 .. k : k \in {j \in B : j <= n}}
<1>2. n \in Nat /\ IsFiniteSet(S)
  <2>1. 0 \in Int /\ n \in Int
    OBVIOUS
  <2> QED
    BY <2>1, FS_Interval
<1>3. IsWellFoundedOn(R, FiniteSubsetsOf(S))
  BY FS_StrictSubsetOrderingWellFounded
<1>4. T \subseteq SUBSET S /\ T # {}
  BY <1>2
<1>5. T \subseteq FiniteSubsetsOf(S)
  BY <1>2, <1>4, FS_Subset DEF FiniteSubsetsOf
<1>6. \E s \in T : \A t \in T : ~ (<<t, s>> \in R)
  <2> HIDE DEF R, T
  <2> QED
    BY <1>3, <1>4, <1>5, WFMin
<1>7. PICK m \in B : m <= n /\ \A t \in T : ~ (<<t, 0 .. m>> \in R)
  BY <1>6
<1>8. ASSUME NEW k \in B, ~ (m <= k) PROVE FALSE
  <2>1. k \in Nat /\ m \in Nat /\ k < m /\ k <= n
    BY <1>2, <1>7, <1>8
  <2>2. 0 .. k \in T
    BY <2>1
  <2>3. m \in 0 .. m /\ m \notin 0 .. k /\ 0 .. k \subseteq 0 .. m /\ 0 .. m \subseteq S
    BY <1>2, <1>7, <2>1
  <2>4. <<0 .. k, 0 .. m>> \in R
    BY <2>3 DEF StrictSubsetOrdering
  <2> QED
    BY <1>7, <2>2, <2>4
<1> QED
  BY <1>8

-------------------------------------------------------------------------------
(* THE PATHS OF A BINARY TREE                                              *)
(* The paths to the root, by what they are: the least sets that hold a     *)
(* position and the parents of what they hold.  They solve the equation of *)
(* PathTo.                                                                 *)

Position == Nat \ {0}
Closed(S) == \A x \in S : x # 1 => x \div 2 \in S
Least(p) == {q \in 1 .. p : \A S \in SUBSET (1 .. p) : Closed(S) /\ p \in S => q \in S}

LEMMA Halves ==
  ASSUME NEW p \in Position, p # 1
  PROVE  p \div 2 \in Position /\ p \div 2 < p
BY DEF Position

LEMMA LeastOfOne == Least(1) = {1}
BY DEF Least, Closed

LEMMA LeastOfMore ==
  ASSUME NEW p \in Position, p # 1
  PROVE  Least(p) = {p} \cup Least(p \div 2)
<1> DEFINE h == p \div 2
<1>1. h \in Position /\ h < p
  BY Halves
<1> HIDE DEF h
<1>2. ASSUME NEW q \in {p} \cup Least(h) PROVE q \in Least(p)
  <2>1. q \in 1 .. p
    BY <1>1, <1>2 DEF Least, Position
  <2>2. ASSUME NEW S \in SUBSET (1 .. p), Closed(S), p \in S PROVE q \in S
    <3> DEFINE U == S \cap (1 .. h)
    <3>1. h \in U
      BY <1>1, <2>2 DEF Closed, Position, h
    <3>2. Closed(U)
      <4> SUFFICES ASSUME NEW x \in U, x # 1 PROVE x \div 2 \in U
        BY DEF Closed
      <4>1. x \in Position /\ x <= h
        BY <1>1 DEF Position
      <4>2. x \div 2 \in Position /\ x \div 2 < x
        BY <4>1, Halves
      <4>3. x \div 2 \in S
        BY <2>2 DEF Closed
      <4> QED
        BY <1>1, <4>1, <4>2, <4>3 DEF Position
    <3>3. U \in SUBSET (1 .. h)
      OBVIOUS
    <3> HIDE DEF U
    <3>4. CASE q = p
      BY <2>2, <3>4
    <3>5. CASE q \in Least(h)
      <4>1. q \in U
        BY <3>1, <3>2, <3>3, <3>5 DEF Least
      <4> QED
        BY <4>1 DEF U
    <3> QED
      BY <1>2, <3>4, <3>5
  <2> QED
    BY <2>1, <2>2 DEF Least
<1>3. ASSUME NEW q \in Least(p) PROVE q \in {p} \cup Least(h)
  <2> DEFINE S == {p} \cup Least(h)
  <2>1. S \in SUBSET (1 .. p)
    BY <1>1 DEF Least, Position
  <2>2. Closed(S)
    <3> SUFFICES ASSUME NEW x \in S, x # 1 PROVE x \div 2 \in S
      BY DEF Closed
    <3>1. CASE x = p
      <4>1. h \in Least(h)
        BY <1>1 DEF Least, Position
      <4> QED
        BY <3>1, <4>1 DEF h
    <3>2. CASE x \in Least(h)
      <4>1. x \in Position /\ x <= h
        BY <1>1, <3>2 DEF Least, Position
      <4>2. x \div 2 \in Position /\ x \div 2 < x
        BY <4>1, Halves
      <4>3. x \div 2 \in 1 .. h
        BY <1>1, <4>1, <4>2 DEF Position
      <4>4. \A U \in SUBSET (1 .. h) : Closed(U) /\ h \in U => x \div 2 \in U
        BY <3>2 DEF Least, Closed
      <4>5. x \div 2 \in Least(h)
        BY <4>3, <4>4 DEF Least
      <4> QED
        BY <4>5
    <3> QED
      BY <3>1, <3>2
  <2>3. p \in S
    OBVIOUS
  <2> HIDE DEF S
  <2>4. q \in S
    BY <1>3, <2>1, <2>2, <2>3 DEF Least
  <2> QED
    BY <2>4 DEF S
<1> QED
  BY <1>2, <1>3 DEF h

LEMMA PathToIs ==
  /\ PathTo[1] = {1}
  /\ \A p \in Position : p # 1 => PathTo[p] = {p} \cup PathTo[p \div 2]
<1> DEFINE Paths(f) == f = [p \in Nat \ {0} |-> IF p = 1 THEN {1} ELSE {p} \cup f[p \div 2]]
           g == [p \in Nat \ {0} |-> Least(p)]
<1>1. \A p \in Nat \ {0} : g[p] = IF p = 1 THEN {1} ELSE {p} \cup g[p \div 2]
  <2> TAKE p \in Nat \ {0}
  <2>1. CASE p = 1
    BY <2>1, LeastOfOne
  <2>2. CASE p # 1
    <3>1. p \in Position /\ p \div 2 \in Nat \ {0}
      BY <2>2, Halves DEF Position
    <3>2. Least(p) = {p} \cup Least(p \div 2)
      BY <2>2, <3>1, LeastOfMore
    <3> HIDE DEF Least
    <3> QED
      BY <2>2, <3>1, <3>2
  <2> QED
    BY <2>1, <2>2
<1>2. Paths(g)
  <2> HIDE DEF Least
  <2> QED
    BY <1>1
<1>3. PathTo = CHOOSE f : Paths(f)
  BY DEF PathTo
<1> HIDE DEF g
<1>4. Paths(PathTo)
  BY <1>2, <1>3
<1> HIDE DEF PathTo
<1> QED
  BY <1>4 DEF Position

LEMMA PathShape ==
  ASSUME NEW n \in Position
  PROVE  PathTo[n] \subseteq 1 .. n /\ n \in PathTo[n] /\ 1 \in PathTo[n]
<1> DEFINE Shaped(k) == PathTo[k] \subseteq 1 .. k /\ k \in PathTo[k] /\ 1 \in PathTo[k]
           B == {k \in Position : ~ Shaped(k)}
<1> SUFFICES ASSUME B # {} PROVE FALSE
  OBVIOUS
<1>1. PICK m \in B : \A k \in B : m <= k
  <2>1. B \in SUBSET Nat
    BY DEF Position
  <2> HIDE DEF B
  <2> QED
    BY <2>1, LeastNat
<1>2. m # 1
  BY PathToIs
<1>3. m \in Position /\ m \div 2 \in Position /\ m \div 2 < m
  BY <1>2, Halves
<1>4. Shaped(m \div 2)
  BY <1>1, <1>3 DEF Position
<1>5. PathTo[m] = {m} \cup PathTo[m \div 2]
  BY <1>2, PathToIs
<1>6. Shaped(m)
  BY <1>3, <1>4, <1>5 DEF Position
<1> QED
  BY <1>6

(* What the path to a position has, and how two positions of one path lie. *)
OnPath(n) ==
  /\ \A q \in PathTo[n] : PathTo[q] \subseteq PathTo[n]
  /\ \A q, r \in PathTo[n] : q < r => q \in PathTo[r]
  /\ \A q \in PathTo[n] : q # n => \E c \in PathTo[n] : c \div 2 = q

LEMMA PathFacts == \A n \in Position : OnPath(n)
<1> DEFINE B == {k \in Position : ~ OnPath(k)}
<1> SUFFICES ASSUME B # {} PROVE FALSE
  OBVIOUS
<1>1. PICK m \in B : \A k \in B : m <= k
  <2>1. B \in SUBSET Nat
    BY DEF Position
  <2> HIDE DEF B
  <2> QED
    BY <2>1, LeastNat
<1>2. CASE m = 1
  <2>1. PathTo[m] = {m}
    BY <1>2, PathToIs
  <2>2. OnPath(m)
    BY <2>1 DEF OnPath
  <2> QED
    BY <2>2
<1>3. CASE m # 1
  <2> DEFINE h == m \div 2
  <2>1. m \in Position /\ h \in Position /\ h < m
    BY <1>3, Halves
  <2>2. OnPath(h)
    BY <1>1, <2>1 DEF Position
  <2>3. PathTo[m] = {m} \cup PathTo[h] /\ PathTo[h] \subseteq 1 .. h /\ h \in PathTo[h]
    BY <1>3, <2>1, PathToIs, PathShape
  <2>4. m \div 2 = h
    OBVIOUS
  <2> HIDE DEF h, B
  <2>5. ASSUME NEW q \in PathTo[m] PROVE PathTo[q] \subseteq PathTo[m]
    BY <2>2, <2>3 DEF OnPath
  <2>6. ASSUME NEW q \in PathTo[m], NEW r \in PathTo[m], q < r PROVE q \in PathTo[r]
    <3>1. CASE r = m
      BY <3>1, <2>6
    <3>2. CASE r # m
      <4>1. r \in PathTo[h] /\ r \in Position /\ r <= h
        BY <2>1, <2>3, <3>2 DEF Position
      <4>2. q \in PathTo[h]
        BY <2>1, <2>3, <2>6, <4>1 DEF Position
      <4> QED
        BY <2>2, <2>6, <4>1, <4>2 DEF OnPath
    <3> QED
      BY <3>1, <3>2
  <2>7. ASSUME NEW q \in PathTo[m], q # m PROVE \E c \in PathTo[m] : c \div 2 = q
    <3>1. q \in PathTo[h]
      BY <2>3, <2>7
    <3>2. CASE q = h
      BY <2>1, <2>3, <2>4, <3>2
    <3>3. CASE q # h
      BY <2>2, <2>3, <3>1, <3>3 DEF OnPath
    <3> QED
      BY <3>2, <3>3
  <2>8. OnPath(m)
    BY <2>5, <2>6, <2>7 DEF OnPath
  <2> QED
    BY <2>8 DEF B
<1> QED
  BY <1>2, <1>3

(* A position is on its own path, one before it on that of its parent; and *)
(* of two children of one position a path has one.                         *)
LEMMA PathMore ==
  ASSUME NEW n \in Position
  PROVE  /\ \A q \in PathTo[n] : q # 1 => q \div 2 \in PathTo[n] /\ q \div 2 \in Position
         /\ \A q \in PathTo[n] : q # n => n # 1 /\ q \in PathTo[n \div 2]
         /\ \A b, c \in PathTo[n] : b \div 2 = c \div 2 /\ b # 1 /\ c # 1 => b = c
<1>1. PathTo[n] \subseteq Position
  BY PathShape DEF Position
<1>2. ASSUME NEW q \in PathTo[n], q # 1 PROVE q \div 2 \in PathTo[n] /\ q \div 2 \in Position
  <2>1. q \in Position /\ q \div 2 \in Position
    BY <1>1, <1>2, Halves
  <2>2. PathTo[q] = {q} \cup PathTo[q \div 2] /\ q \div 2 \in PathTo[q \div 2]
    BY <1>2, <2>1, PathToIs, PathShape
  <2> QED
    BY <2>1, <2>2, PathFacts DEF OnPath
<1>3. ASSUME NEW m \in Position, NEW q \in PathTo[m], q # m PROVE m # 1 /\ q \in PathTo[m \div 2]
  BY <1>3, PathToIs
<1>4. ASSUME NEW b \in PathTo[n], NEW c \in PathTo[n], b # 1, c # 1,
             b \div 2 = c \div 2, b < c
      PROVE  FALSE
  <2>1. b \in PathTo[c] /\ b \in Position /\ c \in Position
    BY <1>1, <1>4, PathFacts DEF OnPath
  <2>2. b \in PathTo[b \div 2]
    BY <1>3, <1>4, <2>1 DEF Position
  <2>3. b \div 2 \in Position /\ b \div 2 < b
    BY <1>4, <2>1, Halves
  <2>4. PathTo[b \div 2] \subseteq 1 .. (b \div 2)
    BY <2>3, PathShape
  <2> QED
    BY <2>1, <2>2, <2>3, <2>4 DEF Position
<1>5. \A b, c \in PathTo[n] : b \div 2 = c \div 2 /\ b # 1 /\ c # 1 => ~ (b < c)
  BY <1>4
<1>6. \A b, c \in Position : ~ (b < c) /\ ~ (c < b) => b = c
  BY DEF Position
<1> QED
  BY <1>1, <1>2, <1>3, <1>5, <1>6

-------------------------------------------------------------------------------
(* THE HEAP                                                                *)
Entry == [score : Nat, n : Nat, url : Url, depth : Nat]

Distinct(h) == \A i, j \in DOMAIN h : i # j => h[i].n # h[j].n /\ h[i].url # h[j].url
Ordered(h) == \A p \in DOMAIN h : p # 1 => Before(h[p \div 2], h[p])
IsHeap(h) == h \in Seq(Entry) /\ Distinct(h) /\ Ordered(h)

(* The order of the queue is total on entries with different counters.     *)
LEMMA BeforeIsOrder ==
  ASSUME NEW a \in Entry, NEW b \in Entry
  PROVE  /\ ~ (Before(a, b) /\ Before(b, a))
         /\ a.n # b.n => Before(a, b) \/ Before(b, a)
         /\ \A c \in Entry : Before(a, b) /\ Before(b, c) => Before(a, c)
BY DEF Entry, Before

(* Along a path the entries of a heap are in order.                        *)
LEMMA Ascend ==
  ASSUME NEW h \in Seq(Entry), Ordered(h)
  PROVE  \A b \in DOMAIN h : \A a \in PathTo[b] : a # b => a \in DOMAIN h /\ Before(h[a], h[b])
<1> DEFINE Good(b) == \A a \in PathTo[b] : a # b => a \in DOMAIN h /\ Before(h[a], h[b])
           B == {b \in DOMAIN h : ~ Good(b)}
<1> SUFFICES ASSUME B # {} PROVE FALSE
  OBVIOUS
<1>0. DOMAIN h = 1 .. Len(h) /\ Len(h) \in Nat /\ \A p \in DOMAIN h : h[p] \in Entry
  OBVIOUS
<1>1. PICK m \in B : \A k \in B : m <= k
  <2>1. B \in SUBSET Nat
    BY <1>0
  <2> HIDE DEF B
  <2> QED
    BY <2>1, LeastNat
<1>2. m \in Position /\ m \in DOMAIN h
  BY <1>0 DEF Position
<1>3. PICK a \in PathTo[m] : a # m /\ ~ (a \in DOMAIN h /\ Before(h[a], h[m]))
  OBVIOUS
<1>4. m # 1 /\ a \in PathTo[m \div 2]
  BY <1>2, <1>3, PathMore
<1>5. m \div 2 \in Position /\ m \div 2 < m
  BY <1>2, <1>4, Halves
<1>6. m \div 2 \in DOMAIN h /\ Before(h[m \div 2], h[m])
  <2>1. Before(h[m \div 2], h[m])
    BY <1>2, <1>4 DEF Ordered
  <2>2. m \div 2 \in 1 .. Len(h)
    BY <1>0, <1>2, <1>5 DEF Position
  <2> QED
    BY <1>0, <2>1, <2>2
<1>7. Good(m \div 2)
  BY <1>1, <1>2, <1>5, <1>6 DEF Position
<1>8. CASE a = m \div 2
  BY <1>3, <1>6, <1>8
<1>9. CASE a # m \div 2
  <2>1. a \in DOMAIN h /\ Before(h[a], h[m \div 2])
    BY <1>4, <1>7, <1>9
  <2> QED
    BY <1>0, <1>2, <1>3, <1>6, <2>1, BeforeIsOrder
<1> QED
  BY <1>8, <1>9

(* heappush: each entry of the new heap is one of the old heap or the new  *)
(* one, none of them twice, and the heap is in order.                      *)
LEMMA PushIsHeap ==
  ASSUME NEW h, IsHeap(h), NEW e \in Entry,
         \A i \in DOMAIN h : h[i].n # e.n /\ h[i].url # e.url
  PROVE  /\ IsHeap(HeapPush(h, e))
         /\ Len(HeapPush(h, e)) = Len(h) + 1
         /\ \A p \in DOMAIN HeapPush(h, e) :
              HeapPush(h, e)[p] = e \/ \E i \in DOMAIN h : HeapPush(h, e)[p] = h[i]
<1> DEFINE end == Len(h) + 1
           g == Append(h, e)
           stays(p) == p \notin PathTo[end] \/ (p # end /\ Before(h[p], e))
           new == [p \in 1 .. end |->
                     IF stays(p) THEN h[p]
                     ELSE IF p = 1 \/ Before(h[p \div 2], e) THEN e
                     ELSE h[p \div 2]]
           from == [p \in 1 .. end |->
                      IF stays(p) THEN p
                      ELSE IF p = 1 \/ stays(p \div 2) THEN end
                      ELSE p \div 2]
<1>1. HeapPush(h, e) = new
  BY DEF HeapPush
<1>2. /\ end \in Position /\ DOMAIN h = 1 .. Len(h) /\ Len(h) \in Nat
      /\ \A p \in DOMAIN h : h[p] \in Entry
      /\ Ordered(h) /\ Distinct(h) /\ h \in Seq(Entry)
  BY DEF IsHeap, Position
<1>3. /\ g \in Seq(Entry) /\ DOMAIN g = 1 .. end /\ g[end] = e
      /\ \A p \in DOMAIN h : g[p] = h[p]
  BY <1>2
<1>4. PathTo[end] \subseteq 1 .. end /\ end \in PathTo[end] /\ 1 \in PathTo[end]
  BY <1>2, PathShape
<1>5. \A p \in 1 .. end : p # end => p \in DOMAIN h
  BY <1>2
<1>6. \A p \in 1 .. end : p # 1 => p \div 2 \in DOMAIN h /\ p \div 2 \in 1 .. end /\ p \div 2 # end
  <2> TAKE p \in 1 .. end
  <2> HAVE p # 1
  <2>1. p \in Position
    BY <1>2 DEF Position
  <2>2. p \div 2 \in Position /\ p \div 2 < p
    BY <2>1, Halves
  <2> QED
    BY <1>2, <2>1, <2>2 DEF Position
<1>7. \A p \in PathTo[end] : p # 1 => p \div 2 \in PathTo[end]
  BY <1>2, PathMore
<1>8. \A b, c \in PathTo[end] : b \div 2 = c \div 2 /\ b # 1 /\ c # 1 => b = c
  BY <1>2, PathMore
<1>9. \A p \in DOMAIN h : Before(h[p], e) \/ Before(e, h[p])
  BY <1>2, BeforeIsOrder
<1>10. \A p \in DOMAIN h : ~ (Before(h[p], e) /\ Before(e, h[p]))
  BY <1>2, BeforeIsOrder
<1>11. \A i, j \in DOMAIN h : /\ Before(e, h[i]) /\ Before(h[i], h[j]) => Before(e, h[j])
  BY <1>2, BeforeIsOrder
<1>12. ASSUME NEW p \in PathTo[end], ~ stays(p), NEW q \in PathTo[end], p \in PathTo[q]
       PROVE  ~ stays(q)
  <2>1. CASE q = end \/ p = q
    BY <1>12, <2>1
  <2>2. CASE q # end /\ p # q
    <3>1. q \in DOMAIN h /\ p \in DOMAIN h /\ Before(h[p], h[q])
      BY <1>2, <1>4, <1>5, <1>12, <2>2, Ascend
    <3>2. p # end
      BY <1>2, <3>1
    <3>3. Before(e, h[p])
      BY <1>9, <1>12, <3>1, <3>2
    <3>4. Before(e, h[q])
      BY <1>11, <3>1, <3>3
    <3> QED
      BY <1>10, <1>12, <3>1, <3>4
  <2> QED
    BY <2>1, <2>2
<1>13. \A p \in 1 .. end : p # 1 /\ p \in PathTo[end] => (stays(p \div 2) <=> Before(h[p \div 2], e))
  BY <1>6, <1>7
<1>14. \A p \in PathTo[end] : p # 1 => p \div 2 \in PathTo[p]
  <2> TAKE p \in PathTo[end]
  <2> HAVE p # 1
  <2>1. p \in Position
    BY <1>2, <1>4 DEF Position
  <2>2. p \in PathTo[p]
    BY <2>1, PathShape
  <2> QED
    BY <2>1, <2>2, PathMore
<1>15. \A p \in 1 .. end : ~ stays(p) => p \in PathTo[end]
  OBVIOUS
<1>16. \A p \in 1 .. end : stays(p) => p \in DOMAIN h /\ p # end
  BY <1>4, <1>5
<1>17. \A p \in DOMAIN h : p \in 1 .. end /\ p # end
  BY <1>2
<1> HIDE DEF end, g
<1>18. \A p \in 1 .. end : from[p] \in 1 .. end /\ new[p] = g[from[p]]
  <2> TAKE p \in 1 .. end
  <2>1. CASE stays(p)
    BY <1>3, <1>16, <2>1
  <2>2. CASE ~ stays(p) /\ (p = 1 \/ stays(p \div 2))
    <3>1. from[p] = end /\ new[p] = e
      BY <1>13, <1>15, <2>2
    <3> QED
      BY <1>3, <1>4, <3>1
  <2>3. CASE ~ stays(p) /\ p # 1 /\ ~ stays(p \div 2)
    <3>1. from[p] = p \div 2 /\ new[p] = h[p \div 2]
      BY <1>13, <1>15, <2>3
    <3> QED
      BY <1>3, <1>6, <2>3, <3>1
  <2> QED
    BY <2>1, <2>2, <2>3
(* The new entry is in one place only.                                     *)
<1>19. ASSUME NEW p \in 1 .. end, NEW q \in 1 .. end, p < q,
              ~ stays(p), ~ stays(q), p = 1 \/ stays(p \div 2), q = 1 \/ stays(q \div 2)
       PROVE  FALSE
  <2>1. p \in PathTo[end] /\ q \in PathTo[end] /\ q # 1 /\ q \in Position
    BY <1>2, <1>15, <1>19 DEF Position
  <2>2. p \in PathTo[q] /\ p # q
    BY <1>2, <1>19, <2>1, PathFacts DEF OnPath
  <2>3. p \in PathTo[q \div 2]
    BY <2>1, <2>2, PathMore
  <2>4. q \div 2 \in PathTo[end]
    BY <1>7, <2>1
  <2> QED
    BY <1>12, <1>19, <2>1, <2>3, <2>4
<1>20. \A p, q \in 1 .. end : from[p] = from[q] => p = q
  <2> TAKE p, q \in 1 .. end
  <2> HAVE from[p] = from[q]
  <2>1. CASE stays(p) /\ stays(q)
    BY <2>1
  <2>2. ASSUME NEW i \in 1 .. end, NEW j \in 1 .. end, from[i] = from[j],
               stays(i), ~ stays(j)
        PROVE  FALSE
    <3>1. from[i] = i /\ i # end
      BY <1>16, <2>2
    <3> QED
      BY <2>2, <3>1
  <2>3. CASE ~ stays(p) /\ ~ stays(q)
    <3>1. p \in PathTo[end] /\ q \in PathTo[end]
      BY <1>15, <2>3
    <3>2. CASE (p = 1 \/ stays(p \div 2)) /\ (q = 1 \/ stays(q \div 2))
      <4>1. ~ (p < q) /\ ~ (q < p)
        BY <1>19, <2>3, <3>2
      <4> QED
        BY <1>2, <4>1 DEF Position
    <3>3. CASE ~ (p = 1 \/ stays(p \div 2)) /\ ~ (q = 1 \/ stays(q \div 2))
      BY <1>8, <2>3, <3>1, <3>3
    <3>4. ASSUME NEW i \in 1 .. end, NEW j \in 1 .. end, from[i] = from[j],
                 ~ stays(i), ~ stays(j),
                 i = 1 \/ stays(i \div 2), ~ (j = 1 \/ stays(j \div 2))
          PROVE  FALSE
      BY <1>6, <3>4
    <3> QED
      BY <2>3, <3>2, <3>3, <3>4
  <2> QED
    BY <2>1, <2>2, <2>3
<1>21. Ordered(new)
  <2> SUFFICES ASSUME NEW p \in 1 .. end, p # 1 PROVE Before(new[p \div 2], new[p])
    BY DEF Ordered
  <2> DEFINE a == p \div 2
  <2>1. a \in DOMAIN h /\ a \in 1 .. end /\ a # end
    BY <1>6
  <2>2. a # 1 => a \div 2 \in DOMAIN h /\ Before(h[a \div 2], h[a])
    BY <1>2, <1>6, <2>1 DEF Ordered
  <2>3. \A i, j, k \in DOMAIN h : Before(h[i], h[j]) /\ Before(h[j], h[k]) => Before(h[i], h[k])
    BY <1>2, BeforeIsOrder
  <2>4. p \in DOMAIN h => Before(h[a], h[p])
    BY <1>2 DEF Ordered
  <2>5. CASE stays(p)
    <3>1. new[p] = h[p] /\ p \in DOMAIN h
      BY <1>16, <2>5
    <3>2. CASE stays(a)
      BY <2>1, <2>4, <3>1, <3>2
    <3>3. CASE ~ stays(a)
      <4>1. Before(e, h[a])
        BY <1>9, <1>15, <2>1, <3>3
      <4>2. Before(e, h[p])
        BY <1>11, <2>1, <2>4, <3>1, <4>1
      <4>3. a # 1 => Before(h[a \div 2], h[p])
        BY <2>1, <2>2, <2>3, <2>4, <3>1
      <4>4. new[a] = e \/ (a # 1 /\ new[a] = h[a \div 2])
        BY <2>1, <3>3
      <4> QED
        BY <3>1, <4>2, <4>3, <4>4
    <3> QED
      BY <3>2, <3>3
  <2>6. CASE ~ stays(p)
    <3>1. p \in PathTo[end] /\ a \in PathTo[end]
      BY <1>7, <1>15, <2>6
    <3>2. CASE stays(a)
      <4>1. new[a] = h[a] /\ Before(h[a], e) /\ new[p] = e
        BY <2>1, <2>6, <3>1, <3>2
      <4> QED
        BY <4>1
    <3>3. CASE ~ stays(a)
      <4>1. ~ Before(h[a], e) /\ new[p] = h[a]
        BY <2>1, <2>6, <3>1, <3>3
      <4>2. Before(e, h[a])
        BY <1>9, <2>1, <4>1
      <4>3. new[a] = e \/ (a # 1 /\ new[a] = h[a \div 2])
        BY <2>1, <3>3
      <4> QED
        BY <2>2, <4>1, <4>2, <4>3
    <3> QED
      BY <3>2, <3>3
  <2> QED
    BY <2>5, <2>6
<1> HIDE DEF new, from
<1>22. new \in Seq(Entry) /\ Len(new) = end
  <2>1. \A p \in 1 .. end : new[p] \in Entry
    <3>1. \A p \in 1 .. end : g[p] \in Entry
      BY <1>2, <1>3, <1>5
    <3> QED
      BY <1>18, <3>1
  <2>2. new = [p \in 1 .. end |-> new[p]] /\ end \in Nat
    BY <1>2 DEF new, Position
  <2> QED
    BY <2>1, <2>2
<1>23. \A i, j \in 1 .. end : i # j => g[i].n # g[j].n /\ g[i].url # g[j].url
  <2> TAKE i, j \in 1 .. end
  <2>1. \A p \in 1 .. end : p = end \/ p \in DOMAIN h
    BY <1>5
  <2> QED
    BY <1>2, <1>3, <2>1 DEF Distinct
<1>24. DOMAIN new = 1 .. end
  BY DEF new
<1>25. Distinct(new)
  BY <1>18, <1>20, <1>23, <1>24 DEF Distinct
<1>26. \A p \in 1 .. end : new[p] = e \/ \E i \in DOMAIN h : new[p] = h[i]
  BY <1>3, <1>5, <1>18
<1>27. IsHeap(new)
  BY <1>21, <1>22, <1>25 DEF IsHeap
<1> QED
  BY <1>1, <1>22, <1>24, <1>26, <1>27 DEF end

(* The path of the smaller children: with a position its parent is on it,  *)
(* with a position one of its children, and of two positions one is on the *)
(* way to the other.                                                       *)
LEMMA PathDownShape ==
  ASSUME NEW h \in Seq(Entry), Distinct(h)
  PROVE  /\ PathDown(h) \subseteq DOMAIN h
         /\ h # <<>> => 1 \in PathDown(h)
         /\ \A p \in PathDown(h) : PathTo[p] \subseteq PathDown(h)
         /\ \A b, c \in PathDown(h) : b # 1 /\ c # 1 /\ b \div 2 = c \div 2 => b = c
         /\ \A p \in DOMAIN h : p # 1 /\ p \div 2 \in PathDown(h) /\ p \notin PathDown(h) =>
              \E c \in PathDown(h) : /\ c # 1 /\ c \div 2 = p \div 2
                                     /\ Before(h[c], h[p])
<1> DEFINE D == PathDown(h)
<1>1. /\ DOMAIN h = 1 .. Len(h) /\ Len(h) \in Nat /\ DOMAIN h \subseteq Position
      /\ \A p \in DOMAIN h : h[p] \in Entry
  BY DEF Position
<1>2. \A p : p \in D <=> p \in DOMAIN h /\ \A q \in PathTo[p] : q # 1 => SmallerChild(h, q)
  BY DEF PathDown
<1>3. h # <<>> => 1 \in D
  BY <1>1, <1>2, PathToIs
<1>4. \A p \in D : PathTo[p] \subseteq D
  <2> TAKE p \in D
  <2>1. p \in DOMAIN h /\ p \in Position
    BY <1>1, <1>2
  <2>2. PathTo[p] \subseteq 1 .. p
    BY <2>1, PathShape
  <2>3. PathTo[p] \subseteq DOMAIN h
    BY <1>1, <2>1, <2>2
  <2>4. \A q \in PathTo[p] : PathTo[q] \subseteq PathTo[p]
    BY <2>1, PathFacts DEF OnPath
  <2> HIDE DEF D
  <2> QED
    BY <1>2, <2>3, <2>4
<1>5. \A p \in D : p # 1 => SmallerChild(h, p)
  <2> TAKE p \in D
  <2>1. p \in PathTo[p]
    BY <1>1, <1>2, PathShape
  <2> HIDE DEF D
  <2> QED
    BY <1>2, <2>1
<1>6. \A p \in DOMAIN h : p # 1 /\ p \div 2 \in D /\ SmallerChild(h, p) => p \in D
  <2> TAKE p \in DOMAIN h
  <2> HAVE p # 1 /\ p \div 2 \in D /\ SmallerChild(h, p)
  <2>1. PathTo[p] = {p} \cup PathTo[p \div 2]
    BY <1>1, PathToIs
  <2> HIDE DEF D
  <2> QED
    BY <1>2, <2>1
<1> HIDE DEF D
(* Of two children of one position one is the smaller.                     *)
<1>7. ASSUME NEW b \in DOMAIN h, NEW c \in DOMAIN h, b < c, b # 1, b \div 2 = c \div 2
      PROVE  /\ SmallerChild(h, b) <=> Before(h[b], h[c])
             /\ SmallerChild(h, c) <=> ~ Before(h[b], h[c])
  <2>1. b \in Nat /\ c \in Nat
    BY <1>1
  <2>2. b % 2 = 0 /\ c % 2 = 1 /\ c = b + 1 /\ c - 1 = b
    BY <1>7, <2>1
  <2>3. SmallerChild(h, b) <=> b + 1 \notin DOMAIN h \/ Before(h[b], h[b + 1])
    BY <2>2 DEF SmallerChild
  <2>4. SmallerChild(h, c) <=> ~ Before(h[c - 1], h[c])
    <3>1. c % 2 # 0
      BY <2>2
    <3> QED
      BY ONLY <3>1 DEF SmallerChild
  <2>5. b + 1 = c /\ c - 1 = b
    BY <2>2
  <2> QED
    BY <1>7, <2>3, <2>4, <2>5
<1>8. ASSUME NEW b \in D, NEW c \in D, b # 1, c # 1, b \div 2 = c \div 2 PROVE b = c
  <2>1. b \in DOMAIN h /\ c \in DOMAIN h /\ b \in Nat /\ c \in Nat
    BY <1>1, <1>2
  <2>2. ~ (b < c)
    BY <1>5, <1>7, <1>8, <2>1
  <2>3. ~ (c < b)
    BY <1>5, <1>7, <1>8, <2>1
  <2> QED
    BY <2>1, <2>2, <2>3
<1>9. ASSUME NEW p \in DOMAIN h, p # 1, p \div 2 \in D, p \notin D
      PROVE  \E c \in D : c # 1 /\ c \div 2 = p \div 2 /\ Before(h[c], h[p])
  <2>1. ~ SmallerChild(h, p) /\ p \in Nat /\ p > 1
    BY <1>1, <1>6, <1>9
  <2>2. CASE p % 2 = 0
    <3>1. p + 1 \in DOMAIN h /\ ~ Before(h[p], h[p + 1])
      BY <2>1, <2>2 DEF SmallerChild
    <3>2. p \div 2 = (p + 1) \div 2 /\ p < p + 1 /\ p + 1 # 1 /\ p # p + 1
      BY <2>1, <2>2
    <3>3. SmallerChild(h, p + 1)
      BY <1>7, <1>9, <3>1, <3>2
    <3>4. p + 1 \in D
      BY <1>6, <1>9, <3>1, <3>2, <3>3
    <3>5. Before(h[p + 1], h[p])
      BY <1>1, <3>1, <3>2, BeforeIsOrder DEF Distinct
    <3> QED
      BY <3>2, <3>4, <3>5
  <2>3. CASE p % 2 # 0
    <3>1. Before(h[p - 1], h[p])
      BY <2>1, <2>3 DEF SmallerChild
    <3>2. p \div 2 = (p - 1) \div 2 /\ p - 1 < p /\ p - 1 # 1 /\ p - 1 \in DOMAIN h
      BY <1>1, <2>1, <2>3
    <3>3. SmallerChild(h, p - 1)
      BY <1>7, <1>9, <3>1, <3>2
    <3>4. p - 1 \in D
      BY <1>6, <1>9, <3>2, <3>3
    <3> QED
      BY <3>1, <3>2, <3>4
  <2> QED
    BY <2>2, <2>3
<1>10. D \subseteq DOMAIN h
  BY <1>2
<1> QED
  BY <1>3, <1>4, <1>8, <1>9, <1>10 DEF D

(* Of two of its positions the first is on the path to the second.         *)
LEMMA PathDownIsChain ==
  ASSUME NEW h \in Seq(Entry), Distinct(h)
  PROVE  \A b \in PathDown(h) : \A a \in PathDown(h) : a < b => a \in PathTo[b]
<1> DEFINE D == PathDown(h)
           B == {b \in D : \E a \in D : a < b /\ a \notin PathTo[b]}
<1>1. /\ D \subseteq Position
      /\ \A p \in D : PathTo[p] \subseteq D
      /\ \A b, c \in D : b # 1 /\ c # 1 /\ b \div 2 = c \div 2 => b = c
  BY PathDownShape DEF Position
<1> HIDE DEF D
<1> SUFFICES ASSUME B # {} PROVE FALSE
  BY DEF D
<1>2. PICK b \in B : \A k \in B : b <= k
  <2>1. B \in SUBSET Nat
    BY <1>1 DEF Position
  <2> HIDE DEF B
  <2> QED
    BY <2>1, LeastNat
<1>3. PICK a \in D : a < b /\ a \notin PathTo[b]
  OBVIOUS
<1>4. \A k \in D : k < b => \A j \in D : j < k => j \in PathTo[k]
  <2> SUFFICES ASSUME NEW k \in D, k < b, NEW j \in D, j < k, j \notin PathTo[k] PROVE FALSE
    OBVIOUS
  <2>1. k \in B
    OBVIOUS
  <2>2. b <= k /\ b \in Nat /\ k \in Nat
    BY <1>1, <1>2, <2>1 DEF Position
  <2> QED
    BY <2>2
<1>5. a \in Nat /\ b \in Nat /\ a >= 1 /\ b > 1 /\ b \in D /\ b # 1
  BY <1>1, <1>3 DEF Position
<1> HIDE DEF B
<1>6. /\ b \div 2 \in Position /\ b \div 2 < b /\ b \div 2 \in PathTo[b]
      /\ PathTo[b \div 2] \subseteq PathTo[b]
  <2>1. b \in Position /\ b \in PathTo[b]
    BY <1>1, <1>5, PathShape
  <2>2. b \div 2 \in PathTo[b]
    BY <1>5, <2>1, PathMore
  <2> QED
    BY <1>5, <2>1, <2>2, Halves, PathFacts DEF OnPath
<1>7. b \div 2 \in D
  BY <1>1, <1>5, <1>6
<1>8. CASE a = b \div 2
  BY <1>3, <1>6, <1>8
<1>9. CASE a < b \div 2
  BY <1>3, <1>4, <1>6, <1>7, <1>9
<1>10. CASE b \div 2 < a
  <2>1. b \div 2 \in PathTo[a]
    BY <1>3, <1>4, <1>7, <1>10
  <2>2. a \in Position /\ a # b \div 2
    BY <1>1, <1>5, <1>6, <1>10 DEF Position
  <2>3. a # 1 /\ b \div 2 \in PathTo[a \div 2]
    BY <2>1, <2>2, PathMore
  <2>4. a \div 2 \in Position
    BY <2>2, <2>3, Halves
  <2>5. b \div 2 <= a \div 2
    BY <2>3, <2>4, PathShape
  <2>6. a \div 2 <= b \div 2
    BY <1>3, <1>5
  <2>7. a \div 2 = b \div 2
    BY <1>6, <2>4, <2>5, <2>6 DEF Position
  <2> QED
    BY <1>1, <1>3, <1>5, <2>3, <2>7
<1> QED
  BY <1>5, <1>6, <1>8, <1>9, <1>10 DEF Position

(* heappop: each entry of the new heap is one of the old heap but its      *)
(* first, none of them twice, and the heap is in order.                    *)
LEMMA PopIsHeap ==
  ASSUME NEW h, IsHeap(h), h # <<>>
  PROVE  /\ IsHeap(HeapPop(h))
         /\ Len(HeapPop(h)) = Len(h) - 1
         /\ \A p \in DOMAIN HeapPop(h) : \E i \in DOMAIN h : i # 1 /\ HeapPop(h)[p] = h[i]
<1> DEFINE N == Len(h)
           m == N - 1
           last == Last(h)
           rest == Front(h)
           D == PathDown(rest)
           movesUp(c) == c \in D \ {1} /\ Before(rest[c], last)
           filled(p) == \E c \in D : c \div 2 = p /\ movesUp(c)
           below(p) == CHOOSE c \in D : c \div 2 = p
           new == [p \in 1 .. m |->
                     IF filled(p) THEN rest[below(p)]
                     ELSE IF p = 1 \/ movesUp(p) THEN last
                     ELSE rest[p]]
           from == [p \in 1 .. m |->
                      IF filled(p) THEN below(p) ELSE IF p = 1 \/ movesUp(p) THEN N ELSE p]
<1>1. /\ h \in Seq(Entry) /\ DOMAIN h = 1 .. N /\ N \in Nat /\ N >= 1 /\ m \in Nat
      /\ \A p \in DOMAIN h : h[p] \in Entry
      /\ Ordered(h) /\ Distinct(h)
  BY DEF IsHeap
<1>2. /\ rest \in Seq(Entry) /\ Len(rest) = m /\ DOMAIN rest = 1 .. m
      /\ \A p \in 1 .. m : rest[p] = h[p]
      /\ last = h[N]
  <2>1. rest \in Seq(Entry) /\ Len(rest) = m /\ \A p \in 1 .. m : rest[p] = h[p]
    BY <1>1 DEF Front
  <2> QED
    BY <2>1 DEF Last
<1>3. HeapPop(h) = new
  BY <1>2 DEF HeapPop
<1> HIDE DEF rest, last
<1>4. Distinct(rest) /\ Ordered(rest)
  <2>1. \A p \in 1 .. m : p \in DOMAIN h /\ rest[p] = h[p]
    BY <1>1, <1>2
  <2>2. \A p \in 1 .. m : p # 1 => p \div 2 \in 1 .. m
    BY <1>1
  <2> HIDE DEF m, N
  <2>3. Distinct(rest)
    BY <1>1, <1>2, <2>1 DEF Distinct
  <2>4. Ordered(rest)
    BY <1>1, <1>2, <2>1, <2>2 DEF Ordered
  <2> QED
    BY <2>3, <2>4
<1>5. \A p \in 1 .. m : p # N /\ p \in DOMAIN h /\ rest[p] \in Entry /\ p \in Position
  <2> TAKE p \in 1 .. m
  <2>1. p \in DOMAIN h /\ p # N /\ p \in Position
    <3>1. N \in Nat /\ m = N - 1 /\ DOMAIN h = 1 .. N
      BY <1>1
    <3> HIDE DEF N, m
    <3> QED
      BY <3>1 DEF Position
  <2>2. rest[p] \in Entry
    BY <1>1, <1>2, <2>1
  <2> QED
    BY <2>1, <2>2
<1>6. last \in Entry /\ N \in DOMAIN h
  BY <1>1, <1>2
<1>7. \A p \in 1 .. m : rest[p].n # last.n
  BY <1>1, <1>2, <1>5, <1>6 DEF Distinct
<1>8. /\ D \subseteq 1 .. m
      /\ rest # <<>> => 1 \in D
      /\ \A p \in D : PathTo[p] \subseteq D
      /\ \A b, c \in D : b # 1 /\ c # 1 /\ b \div 2 = c \div 2 => b = c
      /\ \A p \in 1 .. m : p # 1 /\ p \div 2 \in D /\ p \notin D =>
           \E c \in D : /\ c # 1 /\ c \div 2 = p \div 2 /\ Before(rest[c], rest[p])
  <2> HIDE DEF D, m, N
  <2> QED
    BY <1>2, <1>4, PathDownShape DEF D
<1>9. \A b \in D : \A a \in D : a < b => a \in PathTo[b]
  BY <1>2, <1>4, PathDownIsChain
<1>10. \A p \in 1 .. m : p # 1 => p \div 2 \in 1 .. m /\ p \div 2 # p
  BY <1>1
<1>11. 1 \div 2 = 0 /\ 0 \notin 1 .. m /\ (1 .. m # {} => 1 \in 1 .. m /\ rest # <<>>)
  BY <1>1, <1>2
<1> HIDE DEF D, m, N
(* What is below an entry on the path, and what is not.                    *)
<1>12. ASSUME NEW p \in 1 .. m, filled(p)
       PROVE  /\ below(p) \in D /\ below(p) # 1 /\ below(p) \div 2 = p
              /\ Before(rest[below(p)], last) /\ p \in D
  <2>1. PICK c \in D : c \div 2 = p /\ c # 1 /\ Before(rest[c], last)
    BY <1>12
  <2>2. below(p) \in D /\ below(p) \div 2 = p
    BY <2>1
  <2>3. below(p) # 1
    BY <1>11, <2>2
  <2>4. below(p) = c
    BY <1>8, <2>1, <2>2, <2>3
  <2>5. p \in PathTo[c]
    <3>1. c \in Position /\ c \in PathTo[c]
      BY <1>5, <1>8, <2>1, PathShape
    <3> QED
      BY <2>1, <3>1, PathMore
  <2>6. p \in D
    BY <1>8, <2>1, <2>5
  <2> QED
    BY <2>1, <2>2, <2>3, <2>4, <2>6
<1>13. \A p \in D : p # 1 => p \div 2 \in D
  <2> TAKE p \in D
  <2> HAVE p # 1
  <2>1. p \in Position /\ p \in PathTo[p]
    BY <1>5, <1>8, PathShape
  <2>2. p \div 2 \in PathTo[p]
    BY <2>1, PathMore
  <2> QED
    BY <1>8, <2>2
<1>14. \A p \in 1 .. m : new[p] = IF filled(p) THEN rest[below(p)]
                                  ELSE IF p = 1 \/ movesUp(p) THEN last ELSE rest[p]
  OBVIOUS
<1>15. \A p \in 1 .. m : from[p] = IF filled(p) THEN below(p)
                                   ELSE IF p = 1 \/ movesUp(p) THEN N ELSE p
  OBVIOUS
<1>16. DOMAIN new = 1 .. m /\ new = [p \in 1 .. m |-> new[p]]
  OBVIOUS
<1> HIDE DEF new, from, below
<1>17. \A p \in 1 .. m : from[p] \in DOMAIN h /\ from[p] # 1 /\ new[p] = h[from[p]]
  <2> TAKE p \in 1 .. m
  <2>1. CASE filled(p)
    <3>1. from[p] = below(p) /\ new[p] = rest[below(p)]
      BY <1>14, <1>15, <2>1
    <3>2. below(p) \in 1 .. m /\ below(p) # 1
      BY <1>8, <1>12, <2>1
    <3> QED
      BY <1>2, <1>5, <3>1, <3>2
  <2>2. CASE ~ filled(p) /\ (p = 1 \/ movesUp(p))
    <3>1. from[p] = N /\ new[p] = last
      BY <1>14, <1>15, <2>2
    <3>2. N # 1
      BY <1>1, <1>5, <1>11
    <3> QED
      BY <1>2, <1>6, <3>1, <3>2
  <2>3. CASE ~ filled(p) /\ ~ (p = 1 \/ movesUp(p))
    <3>1. from[p] = p /\ new[p] = rest[p]
      BY <1>14, <1>15, <2>3
    <3> QED
      BY <1>2, <1>5, <2>3, <3>1
  <2> QED
    BY <2>1, <2>2, <2>3
(* The last entry is in one place only.                                    *)
<1>18. ASSUME NEW p \in 1 .. m, NEW q \in 1 .. m, p < q, ~ filled(p), ~ filled(q),
              p = 1 \/ movesUp(p), q = 1 \/ movesUp(q)
       PROVE  FALSE
  <2>1. p \in D /\ q \in D /\ q # 1 /\ p \in Position /\ q \in Position /\ p # q
    BY <1>5, <1>8, <1>11, <1>18 DEF Position
  <2>2. Before(rest[q], last)
    BY <1>18, <2>1
  <2>3. p \in PathTo[q] /\ PathTo[q] \subseteq D
    BY <1>8, <1>9, <1>18, <2>1
  <2>4. PICK c \in PathTo[q] : c \div 2 = p
    BY <2>1, <2>3, PathFacts DEF OnPath
  <2>5. c \in D /\ c # 1
    BY <1>11, <2>3, <2>4
  <2>6. c = q \/ Before(rest[c], rest[q])
    <3>1. q \in DOMAIN rest
      BY <1>2
    <3> QED
      BY <1>2, <1>4, <3>1, Ascend
  <2>7. rest[c] \in Entry /\ rest[q] \in Entry
    BY <1>5, <1>8, <2>1, <2>5
  <2>8. Before(rest[c], last)
    BY <1>6, <2>2, <2>6, <2>7, BeforeIsOrder
  <2> QED
    BY <1>18, <2>4, <2>5, <2>8
<1>19. \A p, q \in 1 .. m : from[p] = from[q] => p = q
  <2> TAKE p, q \in 1 .. m
  <2> HAVE from[p] = from[q]
  <2>1. CASE filled(p) /\ filled(q)
    BY <1>12, <1>15, <2>1
  <2>2. ASSUME NEW i \in 1 .. m, NEW j \in 1 .. m, from[i] = from[j],
               filled(i), ~ filled(j)
        PROVE  FALSE
    <3>1. /\ from[i] \in D /\ from[i] # 1 /\ from[i] \div 2 = i
          /\ Before(rest[from[i]], last)
      BY <1>12, <1>15, <2>2
    <3>2. from[j] # N
      BY <1>5, <1>8, <2>2, <3>1
    <3>3. from[j] = j /\ ~ movesUp(j)
      BY <1>15, <2>2, <3>2
    <3> QED
      BY <2>2, <3>1, <3>3
  <2>3. CASE ~ filled(p) /\ ~ filled(q)
    <3>1. CASE (p = 1 \/ movesUp(p)) /\ (q = 1 \/ movesUp(q))
      <4>1. ~ (p < q) /\ ~ (q < p)
        BY <1>18, <2>3, <3>1
      <4> QED
        BY <1>5, <4>1 DEF Position
    <3>2. CASE ~ (p = 1 \/ movesUp(p)) /\ ~ (q = 1 \/ movesUp(q))
      BY <1>15, <2>3, <3>2
    <3>3. ASSUME NEW i \in 1 .. m, NEW j \in 1 .. m, from[i] = from[j],
                 ~ filled(i), ~ filled(j),
                 i = 1 \/ movesUp(i), ~ (j = 1 \/ movesUp(j))
          PROVE  FALSE
      BY <1>5, <1>15, <3>3
    <3> QED
      BY <2>3, <3>1, <3>2, <3>3
  <2> QED
    BY <2>1, <2>2, <2>3
<1>20. \A p \in D : p # 1 => (Before(rest[p], last) \/ Before(last, rest[p]))
  BY <1>5, <1>6, <1>7, <1>8, BeforeIsOrder
<1>21. \A p, q \in 1 .. m : Before(last, rest[p]) /\ Before(rest[p], rest[q]) => Before(last, rest[q])
  BY <1>5, <1>6, BeforeIsOrder
<1>22. \A p, q \in 1 .. m : Before(rest[p], rest[q]) /\ Before(rest[q], last) => Before(rest[p], last)
  BY <1>5, <1>6, BeforeIsOrder
<1>23. \A p, q, r \in 1 .. m : Before(rest[p], rest[q]) /\ Before(rest[q], rest[r])
                                 => Before(rest[p], rest[r])
  BY <1>5, BeforeIsOrder
<1>24. \A p \in 1 .. m : p # 1 => Before(rest[p \div 2], rest[p])
  BY <1>2, <1>4 DEF Ordered
<1>25. \A p \in 1 .. m : filled(p) /\ p # 1 => movesUp(p)
  <2> TAKE p \in 1 .. m
  <2> HAVE filled(p) /\ p # 1
  <2>1. below(p) \in D /\ below(p) \in 1 .. m /\ below(p) # 1 /\ below(p) \div 2 = p
        /\ Before(rest[below(p)], last) /\ p \in D
    BY <1>8, <1>12
  <2>2. Before(rest[p], rest[below(p)])
    BY <1>24, <2>1
  <2> QED
    BY <1>22, <2>1, <2>2
<1>26. Ordered(new)
  <2> SUFFICES ASSUME NEW p \in 1 .. m, p # 1 PROVE Before(new[p \div 2], new[p])
    BY <1>16 DEF Ordered
  <2> DEFINE a == p \div 2
  <2>1. a \in 1 .. m /\ Before(rest[a], rest[p]) /\ a # p
    BY <1>10, <1>24
  <2>2. a = p \div 2
    OBVIOUS
  <2> HIDE DEF a
(* Beside the path nothing moves.                                          *)
  <2>3. CASE p \notin D
    <3>1. new[p] = rest[p]
      <4>1. ~ filled(p) /\ ~ movesUp(p)
        BY <1>12, <2>3
      <4> QED
        BY <1>14, <4>1
    <3>2. CASE a \notin D
      <4>1. ~ filled(a) /\ ~ movesUp(a)
        BY <1>12, <2>1, <3>2
      <4>2. a # 1
        BY <1>8, <1>11, <2>1, <3>2
      <4>3. new[a] = rest[a]
        BY <1>14, <2>1, <4>1, <4>2
      <4> QED
        BY <2>1, <2>2, <3>1, <4>3
    <3>3. CASE a \in D
      <4>1. PICK c \in D : c # 1 /\ c \div 2 = a /\ Before(rest[c], rest[p])
        BY <1>8, <2>2, <2>3, <3>3
      <4>2. c \in 1 .. m
        BY <1>8
      <4>3. CASE filled(a)
        <5>1. below(a) = c
          BY <1>8, <1>12, <2>1, <4>1, <4>3
        <5> QED
          BY <1>14, <2>1, <2>2, <3>1, <4>1, <4>3, <5>1
      <4>4. CASE ~ filled(a) /\ (a = 1 \/ movesUp(a))
        <5>1. Before(last, rest[c])
          BY <1>20, <4>1, <4>4
        <5>2. Before(last, rest[p])
          BY <1>21, <4>1, <4>2, <5>1
        <5> QED
          BY <1>14, <2>1, <2>2, <3>1, <4>4, <5>2
      <4>5. CASE ~ filled(a) /\ ~ (a = 1 \/ movesUp(a))
        BY <1>14, <2>1, <2>2, <3>1, <4>5
      <4> QED
        BY <4>3, <4>4, <4>5
    <3> QED
      BY <3>2, <3>3
  <2>4. CASE p \in D
    <3>1. a \in D
      BY <1>13, <2>2, <2>4
    <3>2. CASE movesUp(p)
      <4>1. filled(a)
        BY <2>2, <2>4, <3>2
      <4>2. below(a) = p
        BY <1>8, <1>12, <2>1, <2>2, <2>4, <4>1
      <4>3. new[a] = rest[p]
        BY <1>14, <2>1, <4>1, <4>2
      <4>4. CASE filled(p)
        <5>1. new[p] = rest[below(p)] /\ below(p) \in 1 .. m /\ below(p) # 1 /\ below(p) \div 2 = p
          BY <1>8, <1>12, <1>14, <4>4
        <5> QED
          BY <1>24, <2>2, <4>3, <5>1
      <4>5. CASE ~ filled(p)
        <5>1. new[p] = last
          BY <1>14, <3>2, <4>5
        <5> QED
          BY <2>2, <3>2, <4>3, <5>1
      <4> QED
        BY <4>4, <4>5
    <3>3. CASE ~ movesUp(p)
      <4>1. ~ filled(p) /\ Before(last, rest[p])
        BY <1>20, <1>25, <2>4, <3>3
      <4>2. new[p] = rest[p]
        BY <1>14, <3>3, <4>1
      <4>3. CASE filled(a)
        <5>1. below(a) = p
          BY <1>8, <1>12, <2>1, <2>2, <2>4, <4>3
        <5>2. movesUp(p)
          BY <1>12, <2>1, <2>4, <4>3, <5>1
        <5> QED
          BY <3>3, <5>2
      <4>4. CASE ~ filled(a) /\ (a = 1 \/ movesUp(a))
        BY <1>14, <2>1, <2>2, <4>1, <4>2, <4>4
      <4>5. CASE ~ filled(a) /\ ~ (a = 1 \/ movesUp(a))
        BY <1>14, <2>1, <2>2, <4>2, <4>5
      <4> QED
        BY <4>3, <4>4, <4>5
    <3> QED
      BY <3>2, <3>3
  <2> QED
    BY <2>3, <2>4
<1>27. new \in Seq(Entry) /\ Len(new) = m
  <2>1. \A p \in 1 .. m : new[p] \in Entry
    BY <1>1, <1>17
  <2>2. m \in Nat
    BY <1>1
  <2> QED
    BY <1>16, <2>1, <2>2
<1>28. Distinct(new)
  BY <1>1, <1>16, <1>17, <1>19 DEF Distinct
<1>29. IsHeap(new)
  BY <1>26, <1>27, <1>28 DEF IsHeap
<1>30. \A p \in DOMAIN new : \E i \in DOMAIN h : i # 1 /\ new[p] = h[i]
  BY <1>16, <1>17
<1> QED
  BY <1>3, <1>27, <1>29, <1>30 DEF m, N

-------------------------------------------------------------------------------
(* THE QUEUE OF A RUN                                                      *)
(* Everything scheduled was counted, and is visited or waits.              *)
IsRun(r) ==
  /\ r \in [state : {r.state}, heap : {r.heap}, scheduled : {r.scheduled}, visited : {r.visited}]
  /\ IsHeap(r.heap)
  /\ r.scheduled \subseteq Url /\ IsFiniteSet(r.scheduled)
  /\ \A i \in DOMAIN r.heap :
       r.heap[i].url \in r.scheduled /\ r.heap[i].n <= Cardinality(r.scheduled)
  /\ r.visited \in Nat /\ r.visited + Len(r.heap) = Cardinality(r.scheduled)

(* q has the entries of r, or some of them, and others for URLs that were  *)
(* not scheduled before, with their scores.                                *)
Grows(r, q, found, scores) ==
  /\ IsRun(q) /\ q.state = r.state /\ q.visited = r.visited
  /\ r.scheduled \subseteq q.scheduled
  /\ \A p \in DOMAIN q.heap :
       \/ \E i \in DOMAIN r.heap : q.heap[p] = r.heap[i]
       \/ /\ q.heap[p].url \in found \ r.scheduled
          /\ q.heap[p].score = scores[q.heap[p].url]

LEMMA EnqueueGrows ==
  ASSUME NEW r, IsRun(r), NEW u \in Url, NEW depth \in Nat,
         NEW scores \in [Url -> Nat]
  PROVE  /\ Grows(r, Enqueue(r, u, scores[u], depth), {u}, scores)
         /\ u \in Enqueue(r, u, scores[u], depth).scheduled
<1>1. CASE u \in r.scheduled
  BY <1>1 DEF Enqueue, Grows
<1>2. CASE u \notin r.scheduled
  <2> DEFINE n == Cardinality(r.scheduled) + 1
             e == [score |-> scores[u], n |-> n, url |-> u, depth |-> depth]
             heap == HeapPush(r.heap, e)
             q == [r EXCEPT !.scheduled = @ \cup {u}, !.heap = heap]
  <2>1. Enqueue(r, u, scores[u], depth) = q
    BY <1>2 DEF Enqueue
  <2>2. Cardinality(r.scheduled) \in Nat /\ n \in Nat
    BY FS_CardinalityType DEF IsRun
  <2>3. e \in Entry /\ e.n = n /\ e.url = u /\ e.score = scores[u]
    BY <2>2 DEF Entry
  <2> HIDE DEF e
  <2>4. \A i \in DOMAIN r.heap : r.heap[i] \in Entry
    BY DEF IsRun, IsHeap
  <2>5. \A i \in DOMAIN r.heap : r.heap[i].n # e.n /\ r.heap[i].url # e.url
    BY <1>2, <2>2, <2>3, <2>4 DEF IsRun, Entry
  <2>6. /\ IsHeap(heap) /\ Len(heap) = Len(r.heap) + 1
        /\ \A p \in DOMAIN heap : heap[p] = e \/ \E i \in DOMAIN r.heap : heap[p] = r.heap[i]
    BY <2>3, <2>5, PushIsHeap DEF IsRun
  <2> HIDE DEF heap
  <2>7. /\ q \in [state : {q.state}, heap : {q.heap}, scheduled : {q.scheduled}, visited : {q.visited}]
        /\ q.state = r.state /\ q.heap = heap /\ q.visited = r.visited
        /\ q.scheduled = r.scheduled \cup {u}
    BY DEF IsRun
  <2> HIDE DEF q
  <2>8. IsFiniteSet(q.scheduled) /\ Cardinality(q.scheduled) = n
    BY <1>2, <2>7, FS_AddElement DEF IsRun
  <2>9. \A p \in DOMAIN heap : heap[p].url \in q.scheduled /\ heap[p].n <= n
    <3> TAKE p \in DOMAIN heap
    <3>1. CASE heap[p] = e
      BY <2>2, <2>3, <2>7, <3>1
    <3>2. ASSUME NEW i \in DOMAIN r.heap, heap[p] = r.heap[i]
          PROVE  heap[p].url \in q.scheduled /\ heap[p].n <= n
      BY <2>2, <2>4, <2>7, <3>2 DEF IsRun, Entry
    <3> QED
      BY <2>6, <3>1, <3>2
  <2>10. q.visited + Len(q.heap) = n /\ q.visited \in Nat
    <3>1. Len(r.heap) \in Nat
      BY DEF IsRun, IsHeap
    <3> QED
      BY <2>6, <2>7, <3>1 DEF IsRun
  <2> HIDE DEF n
  <2>11. IsRun(q)
    BY <2>6, <2>7, <2>8, <2>9, <2>10 DEF IsRun
  <2>12. Grows(r, q, {u}, scores)
    BY <1>2, <2>3, <2>6, <2>7, <2>11 DEF Grows
  <2> QED
    BY <2>1, <2>7, <2>12
<1> QED
  BY <1>1, <1>2

LEMMA GrowsOn ==
  ASSUME NEW r, NEW p, NEW q, NEW scores, NEW more, NEW found, more \subseteq found,
         Grows(r, p, found, scores), Grows(p, q, more, scores)
  PROVE  Grows(r, q, found, scores)
BY DEF Grows

(* What EnqueueEach counts through: there is such a function.              *)
Steps(f, k, r, urls, wanted, scores, depth) ==
  f = [i \in 0 .. k |->
         IF i = 0 THEN r
         ELSE IF urls[i] \in wanted THEN Enqueue(f[i - 1], urls[i], scores[urls[i]], depth)
         ELSE f[i - 1]]

LEMMA StepsExist ==
  ASSUME NEW r, NEW urls, NEW wanted, NEW scores, NEW depth
  PROVE  \A k \in Nat : \E f : Steps(f, k, r, urls, wanted, scores, depth)
<1> DEFINE Has(k) == \E f : Steps(f, k, r, urls, wanted, scores, depth)
           B == {k \in Nat : ~ Has(k)}
<1> SUFFICES ASSUME B # {} PROVE FALSE
  OBVIOUS
<1>1. PICK k \in B : \A j \in B : k <= j
  <2>1. B \in SUBSET Nat
    OBVIOUS
  <2> HIDE DEF B
  <2> QED
    BY <2>1, LeastNat
<1>2. CASE k = 0
  <2> DEFINE f == [i \in 0 .. 0 |-> r]
  <2>1. Steps(f, k, r, urls, wanted, scores, depth)
    BY <1>2 DEF Steps
  <2> QED
    BY <2>1
<1>3. CASE k # 0
  <2>1. k \in Nat /\ k - 1 \in Nat /\ ~ (k <= k - 1)
    BY <1>3
  <2>2. Has(k - 1)
    BY <1>1, <2>1
  <2>3. PICK f : Steps(f, k - 1, r, urls, wanted, scores, depth)
    BY <2>2
  <2> DEFINE last == IF urls[k] \in wanted
                     THEN Enqueue(f[k - 1], urls[k], scores[urls[k]], depth)
                     ELSE f[k - 1]
             g == [i \in 0 .. k |-> IF i = k THEN last ELSE f[i]]
  <2>4. \A i \in 0 .. k :
          g[i] = IF i = 0 THEN r
                 ELSE IF urls[i] \in wanted
                 THEN Enqueue(g[i - 1], urls[i], scores[urls[i]], depth)
                 ELSE g[i - 1]
    <3> TAKE i \in 0 .. k
    <3>1. CASE i = k
      <4>1. g[i] = last /\ g[k - 1] = f[k - 1]
        BY <1>3, <2>1, <3>1
      <4> HIDE DEF g
      <4> QED
        BY <1>3, <3>1, <4>1
    <3>2. CASE i # k /\ i # 0
      <4>1. i \in 0 .. k - 1 /\ i - 1 \in 0 .. k /\ i - 1 # k
        BY <2>1, <3>2
      <4>2. g[i] = f[i] /\ g[i - 1] = f[i - 1]
        BY <3>2, <4>1
      <4>3. f[i] = IF urls[i] \in wanted
                   THEN Enqueue(f[i - 1], urls[i], scores[urls[i]], depth) ELSE f[i - 1]
        BY <2>3, <3>2, <4>1 DEF Steps
      <4> HIDE DEF g
      <4> QED
        BY <3>2, <4>2, <4>3
    <3>3. CASE i # k /\ i = 0
      <4>1. 0 \in 0 .. k - 1
        BY <2>1
      <4>2. f[0] = r
        BY <2>3, <4>1 DEF Steps
      <4>3. g[i] = f[i]
        BY <3>3
      <4> HIDE DEF g
      <4> QED
        BY <3>3, <4>2, <4>3
    <3> QED
      BY <3>1, <3>2, <3>3
  <2>5. g = [i \in 0 .. k |-> g[i]]
    OBVIOUS
  <2> HIDE DEF g, last
  <2>6. Steps(g, k, r, urls, wanted, scores, depth)
    BY <2>4, <2>5 DEF Steps
  <2> QED
    BY <2>6
<1> QED
  BY <1>2, <1>3

LEMMA EnqueueEachGrows ==
  ASSUME NEW r, IsRun(r), NEW urls \in Seq(Url), NEW wanted, NEW depth \in Nat,
         NEW scores \in [Url -> Nat]
  PROVE  /\ Grows(r, EnqueueEach(r, urls, wanted, scores, depth), ToSet(urls), scores)
         /\ ToSet(urls) \cap wanted \subseteq EnqueueEach(r, urls, wanted, scores, depth).scheduled
<1> DEFINE after == CHOOSE f : Steps(f, Len(urls), r, urls, wanted, scores, depth)
           found == ToSet(urls)
           Good(k) == /\ Grows(r, after[k], found, scores)
                      /\ \A j \in 1 .. k : urls[j] \in wanted => urls[j] \in after[k].scheduled
           B == {k \in 0 .. Len(urls) : ~ Good(k)}
<1>1. Len(urls) \in Nat /\ \A i \in 1 .. Len(urls) : urls[i] \in Url
  OBVIOUS
<1>2. \A i \in 1 .. Len(urls) : urls[i] \in found
  BY DEF ToSet
<1>3. EnqueueEach(r, urls, wanted, scores, depth) = after[Len(urls)]
  BY DEF EnqueueEach, Steps
<1>4. Steps(after, Len(urls), r, urls, wanted, scores, depth)
  <2>1. \E f : Steps(f, Len(urls), r, urls, wanted, scores, depth)
    BY <1>1, StepsExist
  <2> QED
    BY <2>1
<1> HIDE DEF after
<1>5. after[0] = r
  BY <1>1, <1>4 DEF Steps
<1>6. \A i \in 1 .. Len(urls) :
        after[i] = IF urls[i] \in wanted
                   THEN Enqueue(after[i - 1], urls[i], scores[urls[i]], depth) ELSE after[i - 1]
  <2> TAKE i \in 1 .. Len(urls)
  <2>1. i \in 0 .. Len(urls) /\ i # 0
    BY <1>1
  <2> QED
    BY <1>4, <2>1 DEF Steps
<1>7. B = {}
  <2> SUFFICES ASSUME B # {} PROVE FALSE
    OBVIOUS
  <2>1. PICK k \in B : \A j \in B : k <= j
    <3>1. B \in SUBSET Nat
      OBVIOUS
    <3> HIDE DEF B
    <3> QED
      BY <3>1, LeastNat
  <2>2. CASE k = 0
    <3>1. Grows(r, r, found, scores)
      BY DEF Grows
    <3> QED
      BY <1>5, <2>2, <3>1
  <2>3. CASE k # 0
    <3>1. k \in 1 .. Len(urls) /\ k - 1 \in 0 .. Len(urls) /\ ~ (k <= k - 1)
      BY <1>1, <2>3
    <3>2. Good(k - 1)
      BY <2>1, <3>1
    <3>3. k \in Nat /\ \A j \in 1 .. k : j = k \/ j \in 1 .. k - 1
      BY <3>1
    <3>4. IsRun(after[k - 1])
      BY <3>2 DEF Grows
    <3>5. urls[k] \in Url /\ {urls[k]} \subseteq found
      BY <1>1, <1>2, <3>1
    <3>6. CASE urls[k] \in wanted
      <4>1. after[k] = Enqueue(after[k - 1], urls[k], scores[urls[k]], depth)
        BY <1>6, <3>1, <3>6
      <4>2. Grows(after[k - 1], after[k], {urls[k]}, scores) /\ urls[k] \in after[k].scheduled
        BY <3>4, <3>5, <4>1, EnqueueGrows
      <4>3. Grows(r, after[k], found, scores)
        BY <3>2, <3>5, <4>2, GrowsOn
      <4>4. after[k - 1].scheduled \subseteq after[k].scheduled
        BY <4>2 DEF Grows
      <4>5. Good(k)
        BY <3>2, <3>3, <4>2, <4>3, <4>4
      <4> QED
        BY <4>5
    <3>7. CASE urls[k] \notin wanted
      <4>1. after[k] = after[k - 1]
        BY <1>6, <3>1, <3>7
      <4>2. Good(k)
        BY <3>2, <3>3, <3>7, <4>1
      <4> QED
        BY <4>2
    <3> QED
      BY <3>6, <3>7
  <2> QED
    BY <2>2, <2>3
<1>8. Good(Len(urls))
  <2>1. Len(urls) \in 0 .. Len(urls)
    BY <1>1
  <2> HIDE DEF Good
  <2> QED
    BY <1>7, <2>1
<1>9. \A u \in found : \E j \in 1 .. Len(urls) : u = urls[j]
  BY DEF ToSet
<1> HIDE DEF found
<1> QED
  BY <1>3, <1>8, <1>9 DEF found

(* CheckedNow has what it had, and u last.                                 *)
LEMMA CheckedNowKeeps ==
  ASSUME NEW q \in Seq(Url), IsInjective(q), NEW u \in Url
  PROVE  /\ CheckedNow(q, u) \in Seq(Url) /\ IsInjective(CheckedNow(q, u))
         /\ ToSet(CheckedNow(q, u)) = ToSet(q) \cup {u}
<1> DEFINE n == Len(q)
           rest == RemoveFirst(q, u)
           m == Len(rest)
           p == Append(rest, u)
           Others ==
             /\ rest \in Seq(Url)
             /\ \A i, j \in 1 .. m : rest[i] = rest[j] => i = j
             /\ \A i \in 1 .. m : rest[i] # u /\ \E j \in 1 .. n : rest[i] = q[j]
             /\ \A j \in 1 .. n : q[j] = u \/ \E i \in 1 .. m : rest[i] = q[j]
<1>1. n \in Nat /\ DOMAIN q = 1 .. n /\ \A i \in 1 .. n : q[i] \in Url
  OBVIOUS
<1>2. \A i, j \in 1 .. n : q[i] = q[j] => i = j
  BY <1>1 DEF IsInjective
<1>3. Others
  <2>1. CASE \A i \in 1 .. n : q[i] # u
    <3>1. rest = q
      BY <2>1 DEF RemoveFirst
    <3> HIDE DEF rest
    <3> QED
      BY <1>1, <1>2, <2>1, <3>1
  <2>2. ASSUME NEW k \in 1 .. n, q[k] = u
        PROVE  Others
    <3> DEFINE I == {i \in 1 .. Len(q) : q[i] = u}
               a == SubSeq(q, 1, k - 1)
               b == SubSeq(q, k + 1, n)
    <3>1. I = {k}
      BY <1>2, <2>2
    <3>2. Min(I) = k
      BY <1>1, <3>1 DEF Min
    <3>3. rest = a \o b
      BY <2>2, <3>1, <3>2 DEF RemoveFirst, RemoveAt, SelectInSeq
    <3>4. /\ a \in Seq(Url) /\ Len(a) = k - 1 /\ \A i \in 1 .. k - 1 : a[i] = q[i]
      <4>1. k - 1 \in Int /\ \A i \in 1 .. k - 1 : q[i] \in Url
        BY <1>1
      <4>2. /\ a \in Seq(Url) /\ Len(a) = IF 1 <= k - 1 THEN k - 1 - 1 + 1 ELSE 0
            /\ \A i \in 1 .. k - 1 - 1 + 1 : a[i] = q[1 + i - 1]
        BY <4>1, SubSeqProperties
      <4> HIDE DEF a, n
      <4> QED
        BY <1>1, <4>2
    <3>5. /\ b \in Seq(Url) /\ Len(b) = n - k /\ \A i \in 1 .. n - k : b[i] = q[k + i]
      <4>1. k + 1 \in Int /\ n \in Int /\ \A i \in k + 1 .. n : q[i] \in Url
        BY <1>1
      <4> HIDE DEF n
      <4>2. /\ b \in Seq(Url) /\ Len(b) = IF k + 1 <= n THEN n - (k + 1) + 1 ELSE 0
            /\ \A i \in 1 .. n - (k + 1) + 1 : b[i] = q[k + 1 + i - 1]
        BY <4>1, SubSeqProperties
      <4> HIDE DEF b
      <4>3. n \in Nat /\ n - (k + 1) + 1 = n - k /\ (~ (k + 1 <= n) => n - k = 0)
        BY <1>1
      <4>4. \A i \in 1 .. n - k : k + 1 + i - 1 = k + i
        BY <4>3
      <4>5. b \in Seq(Url) /\ Len(b) = n - k
        BY <4>2, <4>3
      <4>6. \A i \in 1 .. n - k : b[i] = q[k + i]
        BY <4>2, <4>3, <4>4
      <4> QED
        BY <4>5, <4>6
    <3>6. /\ rest \in Seq(Url) /\ Len(rest) = Len(a) + Len(b)
          /\ \A i \in 1 .. Len(a) + Len(b) :
               rest[i] = IF i <= Len(a) THEN a[i] ELSE b[i - Len(a)]
      <4> HIDE DEF rest, a, b
      <4> QED
        BY <3>3, <3>4, <3>5, ConcatProperties
    <3> HIDE DEF rest, a, b, n, I
    <3>7. /\ Len(rest) = n - 1
          /\ \A i \in 1 .. n - 1 : rest[i] = IF i < k THEN q[i] ELSE q[i + 1]
      BY <1>1, <3>4, <3>5, <3>6
    <3>8. \A i, j \in 1 .. n - 1 : rest[i] = rest[j] => i = j
      BY <1>1, <1>2, <3>7
    <3>9. \A i \in 1 .. n - 1 : rest[i] # u /\ \E j \in 1 .. n : rest[i] = q[j]
      BY <1>1, <1>2, <2>2, <3>7
    <3>10. ASSUME NEW j \in 1 .. n, q[j] # u PROVE \E i \in 1 .. n - 1 : rest[i] = q[j]
      <4>1. j # k
        BY <2>2, <3>10
      <4>2. CASE j < k
        <5>1. j \in 1 .. n - 1 /\ rest[j] = q[j]
          BY <1>1, <3>7, <4>2
        <5> QED
          BY <5>1
      <4>3. CASE j > k
        <5>1. j - 1 \in 1 .. n - 1 /\ rest[j - 1] = q[j]
          BY <1>1, <3>7, <4>3
        <5> QED
          BY <5>1
      <4> QED
        BY <1>1, <4>1, <4>2, <4>3
    <3> QED
      BY <3>6, <3>7, <3>8, <3>9, <3>10
  <2> QED
    BY <2>1, <2>2
<1>4. /\ m \in Nat /\ p \in Seq(Url) /\ DOMAIN p = 1 .. m + 1 /\ p[m + 1] = u
      /\ \A i \in 1 .. m : p[i] = rest[i]
  BY <1>3, AppendProperties, LenProperties
<1>5. p = CheckedNow(q, u)
  BY DEF CheckedNow
<1> HIDE DEF p, m, rest, n
<1>6. \A i \in 1 .. m + 1 : i \in 1 .. m \/ i = m + 1
  BY <1>4
<1>7. IsInjective(p)
  <2>1. ASSUME NEW i \in 1 .. m + 1, NEW j \in 1 .. m + 1, p[i] = p[j] PROVE i = j
    <3>1. CASE i \in 1 .. m /\ j \in 1 .. m
      <4>1. rest[i] = rest[j]
        BY <1>4, <2>1, <3>1
      <4> QED
        BY <1>3, <3>1, <4>1
    <3>2. ASSUME NEW k \in 1 .. m PROVE p[k] # u
      BY <1>3, <1>4
    <3> QED
      BY <1>4, <1>6, <2>1, <3>1, <3>2
  <2> QED
    BY <1>4, <2>1 DEF IsInjective
<1>8. ToSet(p) = ToSet(q) \cup {u}
  <2>1. ASSUME NEW w \in ToSet(p) PROVE w \in ToSet(q) \cup {u}
    <3>1. PICK i \in 1 .. m + 1 : w = p[i]
      BY <1>4 DEF ToSet
    <3>2. CASE i = m + 1
      BY <1>4, <3>1, <3>2
    <3>3. CASE i \in 1 .. m
      <4>1. PICK j \in 1 .. n : rest[i] = q[j]
        BY <1>3, <3>3
      <4> QED
        BY <1>1, <1>4, <3>1, <3>3, <4>1 DEF ToSet
    <3> QED
      BY <1>6, <3>2, <3>3
  <2>2. ASSUME NEW j \in 1 .. n PROVE q[j] \in ToSet(p)
    <3>1. CASE q[j] = u
      <4>1. m + 1 \in 1 .. m + 1
        BY <1>4
      <4> QED
        BY <1>4, <3>1, <4>1 DEF ToSet
    <3>2. CASE q[j] # u
      <4>1. PICK i \in 1 .. m : rest[i] = q[j]
        BY <1>3, <3>2
      <4>2. i \in 1 .. m + 1 /\ p[i] = q[j]
        BY <1>4, <4>1
      <4> QED
        BY <1>4, <4>2 DEF ToSet
    <3> QED
      BY <3>1, <3>2
  <2>3. u \in ToSet(p)
    <3>1. m + 1 \in 1 .. m + 1
      BY <1>4
    <3> QED
      BY <1>4, <3>1 DEF ToSet
  <2>4. ToSet(q) \subseteq ToSet(p)
    BY <1>1, <2>2 DEF ToSet
  <2> QED
    BY <2>1, <2>3, <2>4
<1> QED
  BY <1>4, <1>5, <1>7, <1>8

-------------------------------------------------------------------------------
(* THE HARVEST                                                             *)

IsState(s) ==
  /\ s \in [archived : [Url -> 0 .. MaxVersion], byAge : Seq(Url), pending : Seq(Url)]
  /\ IsInjective(s.byAge) /\ IsInjective(s.pending)

SoundState(s) == IsState(s) /\ ToSet(s.byAge) = Records(s)

(* Documents with a record are there, with the recorded body.              *)
AreRecorded(docs, state) ==
  \A u \in Document : u \in Records(state) => docs[u] = state.archived[u]

(* What was left over is scheduled, and first but for the seed.            *)
LeftoversFirst(r, leftover) ==
  /\ leftover \subseteq r.scheduled
  /\ \A i \in DOMAIN r.heap :
       /\ r.heap[i].url \in leftover => r.heap[i].score >= PendingScore
       /\ r.heap[i].url \notin leftover \cup {Seed} => r.heap[i].score < PendingScore

TypeInv ==
  /\ disk \in [state : {disk.state}, docs : [Document -> 0 .. Torn]]
  /\ out \in [catalog : {out.catalog}, listed : SUBSET Document, docs : [Document -> 0 .. Torn]]
  /\ SoundState(disk.state) /\ SoundState(run.state)
  /\ IsRun(run) /\ run.visited <= MaxPages
  /\ phase \in Phase /\ faults \subseteq FaultKind

WorkInv ==
  /\ phase # "crawling" => run = NoRun
  /\ phase = "crawling" =>
       /\ run.state.pending = disk.state.pending
       /\ LeftoversFirst(run, ToSet(disk.state.pending))
       /\ Records(disk.state) \subseteq Records(run.state)

OutputInv ==
  /\ \A u \in out.listed : out.docs[u] # 0
  /\ phase = "copied" => \A u \in Listed : out.docs[u] = disk.docs[u]
  /\ "kill" \notin faults =>
       /\ AreRecorded(disk.docs, IF phase = "crawling" THEN run.state ELSE disk.state)
       /\ phase = "idle" => \A u \in out.listed : out.docs[u] = out.catalog[u]

IInv == TypeInv /\ WorkInv /\ OutputInv

LEMMA Bounds ==
  /\ MaxVersion \in Nat \ {0} /\ MaxPages \in Nat \ {0} /\ Torn \in Nat \ {0}
  /\ 0 .. MaxVersion \subseteq 0 .. Torn /\ Torn \in 0 .. Torn /\ 0 \in 0 .. Torn
  /\ Document \subseteq Url /\ Seed \in Url /\ SuggestedSeeds \in Seq(Url)
  /\ Links \in [Url -> Seq(Url)]
  /\ \A u \in Url : Version(u) \subseteq 1 .. MaxVersion
BY HarvestConstants DEF Torn, Version

LEMMA FreshIsSound ==
  /\ SoundState(FreshState) /\ Records(FreshState) = {} /\ ToSet(FreshState.pending) = {}
<1>1. <<>> \in Seq(Url) /\ IsInjective(<<>>) /\ ToSet(<<>>) = {}
  BY DEF IsInjective, ToSet
<1>2. FreshState \in [archived : [Url -> 0 .. MaxVersion], byAge : Seq(Url), pending : Seq(Url)]
      /\ FreshState.byAge = <<>> /\ FreshState.pending = <<>>
      /\ FreshState.archived = [u \in Url |-> 0]
  <2>1. [u \in Url |-> 0] \in [Url -> 0 .. MaxVersion]
    BY Bounds
  <2> QED
    BY <1>1, <2>1 DEF FreshState
<1>3. Records(FreshState) = {}
  BY <1>2 DEF Records
<1> QED
  BY <1>1, <1>2, <1>3 DEF SoundState, IsState

LEMMA NewIsRun ==
  ASSUME NEW s
  PROVE  /\ IsRun(NewRun(s)) /\ NewRun(s).state = s /\ NewRun(s).heap = <<>>
         /\ NewRun(s).scheduled = {} /\ NewRun(s).visited = 0
<1> DEFINE r == NewRun(s)
<1>1. /\ r \in [state : {r.state}, heap : {r.heap}, scheduled : {r.scheduled}, visited : {r.visited}]
      /\ r.state = s /\ r.heap = <<>> /\ r.scheduled = {} /\ r.visited = 0
  BY DEF NewRun
<1>2. IsHeap(<<>>) /\ Len(<<>>) = 0 /\ DOMAIN <<>> = {}
  BY DEF IsHeap, Distinct, Ordered
<1>3. IsFiniteSet({}) /\ Cardinality({}) = 0
  BY FS_EmptySet
<1> HIDE DEF r
<1>4. IsRun(r)
  BY <1>1, <1>2, <1>3 DEF IsRun
<1> QED
  BY <1>1, <1>4 DEF r

(* What is scheduled after the leftovers does not come before them.        *)
LEMMA FirstStay ==
  ASSUME NEW r, NEW q, NEW found, NEW scores, NEW leftover,
         Grows(r, q, found, scores), LeftoversFirst(r, leftover),
         \A u \in found : u # Seed => scores[u] < PendingScore
  PROVE  LeftoversFirst(q, leftover)
<1>1. leftover \subseteq q.scheduled
  BY DEF Grows, LeftoversFirst
<1>2. ASSUME NEW p \in DOMAIN q.heap
      PROVE  /\ q.heap[p].url \in leftover => q.heap[p].score >= PendingScore
             /\ q.heap[p].url \notin leftover \cup {Seed} => q.heap[p].score < PendingScore
  <2>1. ASSUME NEW i \in DOMAIN r.heap, q.heap[p] = r.heap[i]
        PROVE  /\ q.heap[p].url \in leftover => q.heap[p].score >= PendingScore
               /\ q.heap[p].url \notin leftover \cup {Seed} => q.heap[p].score < PendingScore
    BY <2>1 DEF LeftoversFirst
  <2>2. CASE q.heap[p].url \in found \ r.scheduled /\ q.heap[p].score = scores[q.heap[p].url]
    BY <2>2 DEF LeftoversFirst
  <2> QED
    BY <2>1, <2>2 DEF Grows
<1> QED
  BY <1>1, <1>2 DEF LeftoversFirst

LEMMA WorkListIsRun ==
  ASSUME NEW s, SoundState(s)
  PROVE  /\ IsRun(WorkList(NewRun(s))) /\ WorkList(NewRun(s)).state = s
         /\ WorkList(NewRun(s)).visited = 0
         /\ LeftoversFirst(WorkList(NewRun(s)), ToSet(s.pending))
<1> DEFINE r0 == NewRun(s)
           leftover == ToSet(s.pending)
           r1 == EnqueueAll(r0, s.pending, PendingScore)
           r2 == Enqueue(r1, Seed, SeedScore, 0)
           r3 == EnqueueAll(r2, SuggestedSeeds, SuggestedScore)
           r4 == EnqueueAll(r3, s.byAge, RecordScore)
           Alike(score) == [u \in Url |-> score]
<1>0. s.pending \in Seq(Url) /\ s.byAge \in Seq(Url) /\ leftover \subseteq Url
  <2>1. s.pending \in Seq(Url) /\ s.byAge \in Seq(Url)
    BY DEF SoundState, IsState
  <2> QED
    BY <2>1 DEF ToSet
<1>1. IsRun(r0) /\ r0.state = s /\ r0.heap = <<>> /\ r0.scheduled = {} /\ r0.visited = 0
  BY NewIsRun
<1>2. WorkList(r0) = r4
  BY <1>1 DEF WorkList
<1> HIDE DEF r0, leftover
<1>3. \A score \in Nat : Alike(score) \in [Url -> Nat] /\ \A u \in Url : Alike(score)[u] = score
  OBVIOUS
<1>4. {PendingScore, SeedScore, SuggestedScore, RecordScore} \subseteq Nat
      /\ SuggestedScore < PendingScore /\ RecordScore < PendingScore
  BY DEF PendingScore, SeedScore, SuggestedScore, RecordScore
<1> HIDE DEF Alike
<1>5. Grows(r0, r1, leftover, Alike(PendingScore)) /\ leftover \subseteq r1.scheduled
  <2>1. r1 = EnqueueEach(r0, s.pending, Url, Alike(PendingScore), 1)
    BY DEF EnqueueAll, Alike
  <2>2. Alike(PendingScore) \in [Url -> Nat] /\ 1 \in Nat
    BY <1>3, <1>4
  <2> HIDE DEF r1
  <2>3. Grows(r0, r1, ToSet(s.pending), Alike(PendingScore)) /\ ToSet(s.pending) \cap Url \subseteq r1.scheduled
    BY <1>0, <1>1, <2>1, <2>2, EnqueueEachGrows
  <2> QED
    BY <1>0, <2>3 DEF leftover
<1> HIDE DEF r1
<1>6. LeftoversFirst(r1, leftover)
  <2> SUFFICES ASSUME NEW p \in DOMAIN r1.heap
               PROVE  r1.heap[p].url \in leftover /\ r1.heap[p].score = PendingScore
    BY <1>4, <1>5 DEF LeftoversFirst
  <2>1. DOMAIN r0.heap = {}
    BY <1>1
  <2>2. r1.heap[p].url \in leftover /\ r1.heap[p].score = Alike(PendingScore)[r1.heap[p].url]
    BY <1>5, <2>1 DEF Grows
  <2> QED
    BY <1>0, <1>3, <1>4, <2>2
<1>7. Grows(r1, r2, {Seed}, Alike(SeedScore))
  <2>1. r2 = Enqueue(r1, Seed, Alike(SeedScore)[Seed], 0)
    BY <1>3, <1>4, Bounds
  <2> HIDE DEF r2
  <2>2. IsRun(r1) /\ Seed \in Url /\ 0 \in Nat /\ Alike(SeedScore) \in [Url -> Nat]
    BY <1>3, <1>4, <1>5, Bounds DEF Grows
  <2> QED
    BY <2>1, <2>2, EnqueueGrows
<1> HIDE DEF r2
<1>8. LeftoversFirst(r2, leftover)
  BY <1>6, <1>7, FirstStay
<1>9. ASSUME NEW r, IsRun(r), LeftoversFirst(r, leftover), NEW urls \in Seq(Url),
             NEW score \in Nat, score < PendingScore
      PROVE  /\ IsRun(EnqueueAll(r, urls, score))
             /\ EnqueueAll(r, urls, score).state = r.state
             /\ EnqueueAll(r, urls, score).visited = r.visited
             /\ LeftoversFirst(EnqueueAll(r, urls, score), leftover)
  <2> DEFINE q == EnqueueAll(r, urls, score)
  <2>1. q = EnqueueEach(r, urls, Url, Alike(score), 1)
    BY DEF EnqueueAll, Alike
  <2> HIDE DEF q
  <2>2. Alike(score) \in [Url -> Nat] /\ 1 \in Nat
    BY <1>3
  <2>3. Grows(r, q, ToSet(urls), Alike(score))
    BY <1>9, <2>1, <2>2, EnqueueEachGrows
  <2>4. \A u \in ToSet(urls) : Alike(score)[u] < PendingScore
    <3>1. ToSet(urls) \subseteq Url
      BY DEF ToSet
    <3> QED
      BY <1>3, <1>9, <3>1
  <2>5. LeftoversFirst(q, leftover)
    BY <1>9, <2>3, <2>4, FirstStay
  <2> QED
    BY <2>3, <2>5 DEF Grows, q
<1>10. IsRun(r2) /\ r2.state = s /\ r2.visited = 0
  BY <1>1, <1>5, <1>7 DEF Grows
<1>11. IsRun(r3) /\ r3.state = s /\ r3.visited = 0 /\ LeftoversFirst(r3, leftover)
  BY <1>4, <1>8, <1>9, <1>10, Bounds
<1> HIDE DEF r3
<1>12. IsRun(r4) /\ r4.state = s /\ r4.visited = 0 /\ LeftoversFirst(r4, leftover)
  BY <1>0, <1>4, <1>9, <1>11
<1> HIDE DEF r4
<1> QED
  BY <1>2, <1>12 DEF r0, leftover

(* What the parts of a visit do to the Harvester.                          *)
LEMMA PoppedIsRun ==
  ASSUME TypeInv, MayGoOn
  PROVE  /\ IsRun(Popped) /\ Popped.state = run.state
         /\ Popped.visited = run.visited + 1 /\ Popped.visited <= MaxPages
         /\ \A leftover : LeftoversFirst(run, leftover) => LeftoversFirst(Popped, leftover)
         /\ run.heap[1] \in Entry
<1> DEFINE heap == HeapPop(run.heap)
<1>1. IsRun(run) /\ IsHeap(run.heap) /\ run.heap # <<>> /\ Len(run.heap) \in Nat
      /\ run.visited \in Nat /\ run.visited < MaxPages
  BY DEF TypeInv, MayGoOn, IsRun, IsHeap
<1>2. /\ IsHeap(heap) /\ Len(heap) = Len(run.heap) - 1
      /\ \A p \in DOMAIN heap : \E i \in DOMAIN run.heap : heap[p] = run.heap[i]
  BY <1>1, PopIsHeap
<1> HIDE DEF heap
<1>3. /\ Popped \in [state : {Popped.state}, heap : {Popped.heap},
                     scheduled : {Popped.scheduled}, visited : {Popped.visited}]
      /\ Popped.state = run.state /\ Popped.heap = heap
      /\ Popped.scheduled = run.scheduled /\ Popped.visited = run.visited + 1
  BY <1>1 DEF Popped, IsRun, heap
<1>4. Popped.visited \in Nat /\ Popped.visited + Len(heap) = Cardinality(run.scheduled)
  <2>1. run.visited + Len(run.heap) = Cardinality(run.scheduled)
    BY <1>1 DEF IsRun
  <2> QED
    BY <1>1, <1>2, <1>3, <2>1
<1>5. IsRun(Popped)
  BY <1>1, <1>2, <1>3, <1>4 DEF IsRun
<1>6. ASSUME NEW leftover, LeftoversFirst(run, leftover) PROVE LeftoversFirst(Popped, leftover)
  BY <1>2, <1>3, <1>6 DEF LeftoversFirst
<1>7. run.heap[1] \in Entry
  BY <1>1 DEF IsHeap
<1>8. Popped.visited <= MaxPages
  BY <1>1, <1>3, Bounds
<1> QED
  BY <1>3, <1>5, <1>6, <1>7, <1>8

LEMMA CheckedIsRun ==
  ASSUME NEW r, IsRun(r), IsState(r.state), NEW u \in Url,
         ToSet(r.state.byAge) \subseteq Records(r.state),
         Records(r.state) \subseteq ToSet(r.state.byAge) \cup {u}
  PROVE  /\ IsRun(Checked(r, u)) /\ SoundState(Checked(r, u).state)
         /\ Checked(r, u).state.archived = r.state.archived
         /\ Checked(r, u).state.pending = r.state.pending
         /\ Checked(r, u).visited = r.visited
         /\ \A leftover : LeftoversFirst(r, leftover) => LeftoversFirst(Checked(r, u), leftover)
<1>1. CASE r.state.archived[u] = 0
  <2>1. u \notin Records(r.state)
    BY <1>1 DEF Records
  <2>2. Records(r.state) = ToSet(r.state.byAge)
    BY <2>1
  <2> QED
    BY <1>1, <2>2 DEF Checked, SoundState
<1>2. CASE r.state.archived[u] # 0
  <2> DEFINE byAge == CheckedNow(r.state.byAge, u)
             q == [r EXCEPT !.state.byAge = byAge]
  <2>1. Checked(r, u) = q
    BY <1>2 DEF Checked
  <2>2. byAge \in Seq(Url) /\ IsInjective(byAge) /\ ToSet(byAge) = ToSet(r.state.byAge) \cup {u}
    BY CheckedNowKeeps DEF IsState
  <2> HIDE DEF byAge
  <2>3. r.state \in [archived : [Url -> 0 .. MaxVersion], byAge : Seq(Url), pending : Seq(Url)]
    BY DEF IsState
  <2>4. r \in [state : {r.state}, heap : {r.heap}, scheduled : {r.scheduled}, visited : {r.visited}]
    BY DEF IsRun
  <2>5. /\ q \in [state : {q.state}, heap : {q.heap}, scheduled : {q.scheduled}, visited : {q.visited}]
        /\ q.heap = r.heap /\ q.scheduled = r.scheduled /\ q.visited = r.visited
        /\ q.state = [r.state EXCEPT !.byAge = byAge]
    BY <2>4
  <2> HIDE DEF q
  <2>6. /\ q.state \in [archived : [Url -> 0 .. MaxVersion], byAge : Seq(Url), pending : Seq(Url)]
        /\ q.state.byAge = byAge /\ q.state.archived = r.state.archived
        /\ q.state.pending = r.state.pending
    BY <2>2, <2>3, <2>5
  <2>7. IsRun(q) /\ \A leftover : LeftoversFirst(r, leftover) => LeftoversFirst(q, leftover)
    BY <2>5 DEF IsRun, LeftoversFirst
  <2>8. u \in Records(r.state) /\ Records(q.state) = Records(r.state)
    BY <1>2, <2>6 DEF Records
  <2>9. SoundState(q.state)
    BY <2>2, <2>6, <2>8 DEF SoundState, IsState
  <2> QED
    BY <2>1, <2>5, <2>6, <2>7, <2>9
<1> QED
  BY <1>1, <1>2

LEMMA ScoresAreLow ==
  ASSUME NEW scores \in {Score, AnchorScore}
  PROVE  scores \in [Url -> Nat] /\ \A u \in Url : scores[u] < PendingScore
<1>1. scores \in [Url -> 0 .. SuggestedScore - 1]
  BY HarvestConstants
<1>2. 0 .. SuggestedScore - 1 \subseteq Nat /\ \A s \in 0 .. SuggestedScore - 1 : s < PendingScore
  BY DEF PendingScore, SuggestedScore
<1> QED
  BY <1>1, <1>2

LEMMA LinksAreRun ==
  ASSUME NEW r, IsRun(r), NEW u \in Url, NEW depth \in Nat, NEW scores \in {Score, AnchorScore}
  PROVE  /\ IsRun(EnqueueLinks(r, u, depth, scores))
         /\ EnqueueLinks(r, u, depth, scores).state = r.state
         /\ EnqueueLinks(r, u, depth, scores).visited = r.visited
         /\ \A leftover : LeftoversFirst(r, leftover)
                           => LeftoversFirst(EnqueueLinks(r, u, depth, scores), leftover)
<1> DEFINE deeper == IF depth = MaxDepth THEN MaxDepth ELSE depth + 1
           wanted == {v \in Url : Worthwhile(v, scores[v], deeper)}
           q == EnqueueLinks(r, u, depth, scores)
<1>1. q = EnqueueEach(r, Links[u], wanted, scores, deeper)
  BY DEF EnqueueLinks
<1>2. deeper \in Nat /\ Links[u] \in Seq(Url)
  BY Bounds DEF MaxDepth
<1> HIDE DEF wanted, deeper, q
<1>3. Grows(r, q, ToSet(Links[u]), scores)
  BY <1>1, <1>2, ScoresAreLow, EnqueueEachGrows
<1>4. \A v \in ToSet(Links[u]) : scores[v] < PendingScore
  BY <1>2, ScoresAreLow DEF ToSet
<1>5. \A leftover : LeftoversFirst(r, leftover) => LeftoversFirst(q, leftover)
  BY <1>3, <1>4, FirstStay
<1> QED
  BY <1>3, <1>5 DEF Grows, q

(* Whatever a request brings, the lists and the queue stay in order, and   *)
(* either no record and no file changes or one version is archived.        *)
Archives(u, v) ==
  /\ run'.state.archived = [run.state.archived EXCEPT ![u] = v]
  /\ disk' = IF u \in Document THEN [disk EXCEPT !.docs[u] = v] ELSE disk

Outcome(u) ==
  /\ IsRun(run') /\ SoundState(run'.state) /\ run'.visited <= MaxPages
  /\ run'.state.pending = run.state.pending
  /\ \A leftover : LeftoversFirst(run, leftover) => LeftoversFirst(run', leftover)
  /\ \/ disk' = disk /\ run'.state.archived = run.state.archived
     \/ \E v \in Version(u) : Archives(u, v)

LEMMA VisitOutcome ==
  ASSUME TypeInv, NEW u \in Url, Visit(u)
  PROVE  Outcome(u)
<1> DEFINE depth == run.heap[1].depth
<1>0. /\ IsRun(Popped) /\ Popped.state = run.state /\ Popped.visited <= MaxPages
      /\ \A leftover : LeftoversFirst(run, leftover) => LeftoversFirst(Popped, leftover)
      /\ depth \in Nat
  <2>1. MayGoOn
    BY DEF Visit
  <2>2. run.heap[1] \in Entry
    BY <2>1, PoppedIsRun
  <2> QED
    BY <2>1, <2>2, PoppedIsRun DEF Entry
<1>1. SoundState(run.state)
  BY DEF TypeInv
<1> HIDE DEF depth
<1> DEFINE checked == Checked(Popped, u)
<1>2. /\ IsRun(checked) /\ SoundState(checked.state)
      /\ checked.state.archived = run.state.archived
      /\ checked.state.pending = run.state.pending
      /\ checked.visited <= MaxPages
      /\ \A leftover : LeftoversFirst(run, leftover) => LeftoversFirst(checked, leftover)
  BY <1>0, <1>1, CheckedIsRun DEF SoundState
<1> HIDE DEF checked
<1>3. CASE NotModified(u, depth)
  <2>1. run' = EnqueueLinks(checked, u, depth, Score) /\ disk' = disk
    BY <1>3 DEF NotModified, checked
  <2> QED
    BY <1>0, <1>2, <2>1, LinksAreRun DEF Outcome
<1>4. CASE HttpError(u)
  <2>1. run' = checked /\ disk' = disk
    BY <1>4 DEF HttpError, checked
  <2> QED
    BY <1>2, <2>1 DEF Outcome
<1>5. CASE Refused(u)
  <2>1. run' = Popped /\ disk' = disk
    BY <1>5 DEF Refused
  <2> QED
    BY <1>0, <1>1, <2>1 DEF Outcome
<1>6. ASSUME NEW v \in Version(u), Archive(u, depth, v) PROVE Outcome(u)
  <2> DEFINE s == [run.state EXCEPT !.archived[u] = v]
             r == [Popped EXCEPT !.state.archived[u] = v]
             q == Checked(r, u)
  <2>1. run' = EnqueueLinks(q, u, depth, AnchorScore)
        /\ disk' = IF u \in Document THEN [disk EXCEPT !.docs[u] = v] ELSE disk
    BY <1>6 DEF Archive
  <2>2. v \in 0 .. MaxVersion /\ v # 0
    BY Bounds
  <2>3. /\ run.state \in [archived : [Url -> 0 .. MaxVersion], byAge : Seq(Url), pending : Seq(Url)]
        /\ IsInjective(run.state.byAge) /\ IsInjective(run.state.pending)
        /\ ToSet(run.state.byAge) = Records(run.state)
    BY <1>1 DEF SoundState, IsState
  <2>4. Popped \in [state : {Popped.state}, heap : {Popped.heap},
                    scheduled : {Popped.scheduled}, visited : {Popped.visited}]
    BY <1>0 DEF IsRun
  <2>5. /\ r \in [state : {r.state}, heap : {r.heap}, scheduled : {r.scheduled}, visited : {r.visited}]
        /\ r.heap = Popped.heap /\ r.scheduled = Popped.scheduled
        /\ r.visited = Popped.visited /\ r.state = s
    BY <1>0, <2>4
  <2> HIDE DEF r
  <2>6. /\ s \in [archived : [Url -> 0 .. MaxVersion], byAge : Seq(Url), pending : Seq(Url)]
        /\ s.byAge = run.state.byAge /\ s.pending = run.state.pending
        /\ s.archived = [run.state.archived EXCEPT ![u] = v]
    BY <2>2, <2>3
  <2> HIDE DEF s
  <2>7. \A w \in Url : s.archived[w] = IF w = u THEN v ELSE run.state.archived[w]
    BY <2>3, <2>6
  <2>8. ToSet(s.byAge) \subseteq Records(s) /\ Records(s) \subseteq ToSet(s.byAge) \cup {u}
    <3>1. \A w \in Url : w \in Records(s) <=> w = u \/ w \in Records(run.state)
      BY <2>2, <2>7 DEF Records
    <3>2. Records(s) \subseteq Url /\ Records(run.state) \subseteq Url
      BY DEF Records
    <3> QED
      BY <2>3, <2>6, <3>1, <3>2
  <2>9. /\ IsRun(r) /\ IsState(r.state)
        /\ \A leftover : LeftoversFirst(run, leftover) => LeftoversFirst(r, leftover)
    <3>1. IsRun(r)
      BY <1>0, <2>5 DEF IsRun
    <3>2. IsState(r.state)
      BY <2>3, <2>5, <2>6 DEF IsState
    <3>3. \A leftover : LeftoversFirst(Popped, leftover) => LeftoversFirst(r, leftover)
      BY <2>5 DEF LeftoversFirst
    <3> QED
      BY <1>0, <3>1, <3>2, <3>3
  <2>10. /\ IsRun(q) /\ SoundState(q.state)
         /\ q.state.archived = s.archived /\ q.state.pending = s.pending
         /\ q.visited = r.visited
         /\ \A leftover : LeftoversFirst(r, leftover) => LeftoversFirst(q, leftover)
    BY <2>5, <2>8, <2>9, CheckedIsRun
  <2> HIDE DEF q
  <2>11. /\ IsRun(run') /\ run'.state = q.state /\ run'.visited = q.visited
         /\ \A leftover : LeftoversFirst(q, leftover) => LeftoversFirst(run', leftover)
    BY <1>0, <2>1, <2>10, LinksAreRun
  <2>12. Archives(u, v)
    BY <2>1, <2>6, <2>10, <2>11 DEF Archives
  <2>13. run'.visited <= MaxPages
    BY <1>0, <2>5, <2>10, <2>11
  <2> QED
    BY <2>6, <2>9, <2>10, <2>11, <2>12, <2>13 DEF Outcome
<1> QED
  BY <1>3, <1>4, <1>5, <1>6 DEF Visit, depth

LEMMA InitInv == Init => IInv
<1> SUFFICES ASSUME Init PROVE IInv
  OBVIOUS
<1>1. NoFiles \in [Document -> 0 .. Torn]
  BY Bounds DEF NoFiles
<1>2. IsRun(NoRun) /\ NoRun.state = FreshState /\ NoRun.visited = 0
  BY NewIsRun DEF NoRun
<1>3. TypeInv
  BY <1>1, <1>2, FreshIsSound, Bounds DEF Init, TypeInv, Phase
<1>4. WorkInv
  BY DEF Init, WorkInv
<1>5. OutputInv
  BY FreshIsSound DEF Init, OutputInv, AreRecorded
<1> QED
  BY <1>3, <1>4, <1>5 DEF IInv

LEMMA FaultKnown ==
  ASSUME NEW kind, Fault(kind), faults \subseteq FaultKind
  PROVE  faults' \subseteq FaultKind /\ faults \subseteq faults' /\ kind \in faults'
BY HarvestConstants DEF Fault

LEMMA NoRunIsSound ==
  IsRun(NoRun) /\ SoundState(NoRun.state) /\ NoRun.visited <= MaxPages
BY NewIsRun, FreshIsSound, Bounds DEF NoRun

(* What was listed, and the files that are copied for the next list.       *)
LEMMA FilesOf ==
  ASSUME TypeInv, NEW urls \in SUBSET Listed
  PROVE  /\ CopiedDocuments(urls) \in [Document -> 0 .. Torn]
         /\ \A u \in Document : CopiedDocuments(urls)[u] = IF u \in urls THEN disk.docs[u] ELSE out.docs[u]
         /\ \A u \in urls : disk.docs[u] # 0
BY DEF TypeInv, CopiedDocuments, Listed

LEMMA StartInv == IInv /\ Start => IInv'
<1> SUFFICES ASSUME IInv, Start PROVE IInv'
  OBVIOUS
<1>1. /\ phase = "idle" /\ phase' = "crawling" /\ out' = out
      /\ run' = WorkList(NewRun(disk'.state))
      /\ faults' \subseteq FaultKind /\ faults \subseteq faults'
  BY FaultKnown DEF Start, NoFault, IInv, TypeInv
<1>2. /\ disk' \in [state : {disk'.state}, docs : [Document -> 0 .. Torn]]
      /\ SoundState(disk'.state) /\ disk'.docs = disk.docs
      /\ disk'.state = disk.state \/ disk'.state = FreshState
  BY FreshIsSound DEF Start, IInv, TypeInv
<1>3. /\ IsRun(run') /\ run'.state = disk'.state /\ run'.visited = 0
      /\ LeftoversFirst(run', ToSet(disk'.state.pending))
  BY <1>1, <1>2, WorkListIsRun
<1>4. TypeInv'
  BY <1>1, <1>2, <1>3, Bounds DEF IInv, TypeInv, Phase
<1>5. WorkInv'
  BY <1>1, <1>3 DEF WorkInv
<1>6. OutputInv'
  <2>1. "kill" \notin faults' => AreRecorded(disk'.docs, run'.state)
    BY <1>1, <1>2, <1>3, FreshIsSound DEF IInv, OutputInv, AreRecorded
  <2> QED
    BY <1>1, <2>1 DEF IInv, OutputInv
<1> QED
  BY <1>4, <1>5, <1>6 DEF IInv

LEMMA VisitInv == IInv /\ (\E u \in Url : Visit(u)) => IInv'
<1> SUFFICES ASSUME IInv, NEW u \in Url, Visit(u) PROVE IInv'
  OBVIOUS
<1>1. Outcome(u)
  BY VisitOutcome DEF IInv
<1>2. phase = "crawling" /\ phase' = phase /\ out' = out /\ faults' = faults
  BY DEF Visit, NoFault
<1>3. disk \in [state : {disk.state}, docs : [Document -> 0 .. Torn]] /\ SoundState(disk.state)
      /\ run.state.archived \in [Url -> 0 .. MaxVersion]
  BY DEF IInv, TypeInv, SoundState, IsState
<1>4. /\ disk' \in [state : {disk'.state}, docs : [Document -> 0 .. Torn]]
      /\ disk'.state = disk.state
      /\ Records(run.state) \subseteq Records(run'.state)
      /\ AreRecorded(disk.docs, run.state) => AreRecorded(disk'.docs, run'.state)
  <2>1. CASE disk' = disk /\ run'.state.archived = run.state.archived
    BY <1>3, <2>1 DEF Records, AreRecorded
  <2>2. ASSUME NEW v \in Version(u), Archives(u, v)
        PROVE  /\ disk' \in [state : {disk'.state}, docs : [Document -> 0 .. Torn]]
               /\ disk'.state = disk.state
               /\ Records(run.state) \subseteq Records(run'.state)
               /\ AreRecorded(disk.docs, run.state) => AreRecorded(disk'.docs, run'.state)
    <3>1. v \in 0 .. MaxVersion /\ v \in 0 .. Torn /\ v # 0
      <4>1. v \in 1 .. MaxVersion /\ MaxVersion \in Nat
        BY Bounds
      <4>2. v \in 0 .. MaxVersion /\ v # 0
        BY <4>1
      <4> QED
        BY <4>2, Bounds
    <3>2. /\ disk' \in [state : {disk'.state}, docs : [Document -> 0 .. Torn]]
          /\ disk'.state = disk.state
          /\ \A w \in Document : disk'.docs[w] = IF w = u THEN v ELSE disk.docs[w]
      BY <1>3, <2>2, <3>1 DEF Archives
    <3>3. \A w \in Url : run'.state.archived[w] = IF w = u THEN v ELSE run.state.archived[w]
      BY <1>3, <2>2 DEF Archives
    <3>4. \A w \in Url : w \in Records(run'.state) <=> w = u \/ w \in Records(run.state)
      BY <3>1, <3>3 DEF Records
    <3>5. Records(run.state) \subseteq Records(run'.state)
      BY <3>4 DEF Records
    <3> QED
      BY <3>1, <3>2, <3>3, <3>4, <3>5, Bounds DEF AreRecorded
  <2> QED
    BY <1>1, <2>1, <2>2 DEF Outcome
<1>5. TypeInv'
  BY <1>1, <1>2, <1>4 DEF IInv, TypeInv, Outcome
<1>6. WorkInv'
  BY <1>1, <1>2, <1>4 DEF IInv, WorkInv, Outcome
<1>7. OutputInv'
  BY <1>2, <1>4 DEF IInv, OutputInv
<1> QED
  BY <1>5, <1>6, <1>7 DEF IInv

LEMMA SaveInv == IInv /\ SaveState => IInv'
<1> SUFFICES ASSUME IInv, SaveState PROVE IInv'
  OBVIOUS
<1> DEFINE s == [run.state EXCEPT !.pending = Leftover]
<1>1. /\ phase = "crawling" /\ phase' = "saved" /\ out' = out /\ run' = NoRun
      /\ disk' = [disk EXCEPT !.state = s]
      /\ faults' \subseteq FaultKind /\ faults \subseteq faults'
  BY FaultKnown DEF SaveState, NoFault, IInv, TypeInv
<1>2. IsState(run.state) /\ ToSet(run.state.byAge) = Records(run.state)
  BY DEF IInv, TypeInv, SoundState
<1>3. Leftover \in Seq(Url) /\ IsInjective(Leftover)
  <2>1. IsHeap(run.heap) /\ DOMAIN run.heap = 1 .. Len(run.heap) /\ Len(run.heap) \in Nat
    BY DEF IInv, TypeInv, IsRun, IsHeap
  <2>2. Leftover = [i \in 1 .. Len(run.heap) |-> run.heap[i].url]
    BY <2>1 DEF Leftover, Urls
  <2>3. \A i \in 1 .. Len(run.heap) : run.heap[i].url \in Url
    <3> TAKE i \in 1 .. Len(run.heap)
    <3>1. run.heap[i] \in Entry
      BY <2>1 DEF IsHeap
    <3> QED
      BY <3>1 DEF Entry
  <2>4. Leftover \in Seq(Url)
    BY <2>1, <2>2, <2>3
  <2>5. \A i, j \in 1 .. Len(run.heap) : run.heap[i].url = run.heap[j].url => i = j
    BY <2>1 DEF IsHeap, Distinct
  <2> QED
    BY <2>2, <2>4, <2>5 DEF IsInjective
<1>4. /\ s \in [archived : [Url -> 0 .. MaxVersion], byAge : Seq(Url), pending : Seq(Url)]
      /\ s.archived = run.state.archived /\ s.byAge = run.state.byAge /\ s.pending = Leftover
  BY <1>2, <1>3 DEF IsState
<1> HIDE DEF s
<1>5. SoundState(s) /\ Records(s) = Records(run.state)
  BY <1>2, <1>3, <1>4 DEF SoundState, IsState, Records
<1>6. /\ disk' \in [state : {disk'.state}, docs : [Document -> 0 .. Torn]]
      /\ disk'.state = s /\ disk'.docs = disk.docs
  BY <1>1 DEF IInv, TypeInv
<1>7. TypeInv'
  BY <1>1, <1>5, <1>6, NoRunIsSound DEF IInv, TypeInv, Phase
<1>8. WorkInv'
  BY <1>1 DEF WorkInv
<1>9. OutputInv'
  <2>1. "kill" \notin faults' => AreRecorded(disk'.docs, disk'.state)
    BY <1>1, <1>4, <1>5, <1>6 DEF IInv, OutputInv, AreRecorded
  <2> QED
    BY <1>1, <2>1 DEF IInv, OutputInv
<1> QED
  BY <1>7, <1>8, <1>9 DEF IInv

LEMMA CopyInv == IInv /\ CopyDocuments => IInv'
<1> SUFFICES ASSUME IInv, CopyDocuments PROVE IInv'
  OBVIOUS
<1> DEFINE docs == CopiedDocuments(Listed)
<1>1. /\ phase = "saved" /\ phase' = "copied" /\ disk' = disk /\ run' = run /\ faults' = faults
      /\ out' = [out EXCEPT !.docs = docs]
  BY DEF CopyDocuments, NoFault
<1>2. /\ docs \in [Document -> 0 .. Torn]
      /\ \A u \in Document : docs[u] = IF u \in Listed THEN disk.docs[u] ELSE out.docs[u]
      /\ \A u \in Listed : disk.docs[u] # 0 /\ u \in Document
  <2>1. Listed \subseteq Document
    BY DEF Listed
  <2> QED
    BY <2>1, FilesOf DEF IInv
<1> HIDE DEF docs
<1>3. /\ out' \in [catalog : {out'.catalog}, listed : SUBSET Document, docs : [Document -> 0 .. Torn]]
      /\ out'.docs = docs /\ out'.listed = out.listed /\ out.listed \subseteq Document
  BY <1>1, <1>2 DEF IInv, TypeInv
<1>4. TypeInv'
  BY <1>1, <1>3 DEF IInv, TypeInv, Phase
<1>5. WorkInv'
  BY <1>1 DEF IInv, WorkInv
<1>6. Listed' = Listed
  BY <1>1 DEF Listed
<1>7. OutputInv'
  <2>1. \A u \in out'.listed : out'.docs[u] # 0
    BY <1>2, <1>3 DEF IInv, OutputInv
  <2>2. \A u \in Listed' : out'.docs[u] = disk'.docs[u]
    BY <1>1, <1>2, <1>3, <1>6
  <2> QED
    BY <1>1, <2>1, <2>2 DEF IInv, OutputInv
<1> QED
  BY <1>4, <1>5, <1>7 DEF IInv

LEMMA CatalogInv == IInv /\ WriteCatalog => IInv'
<1> SUFFICES ASSUME IInv, WriteCatalog PROVE IInv'
  OBVIOUS
<1>1. /\ phase = "copied" /\ phase' = "idle" /\ disk' = disk /\ run' = run /\ faults' = faults
      /\ out' = [out EXCEPT !.catalog = disk.state.archived, !.listed = Listed]
  BY DEF WriteCatalog, NoFault
<1>2. Listed \subseteq Document /\ \A u \in Listed : disk.docs[u] # 0 /\ u \in Records(disk.state)
  BY DEF Listed
<1>3. /\ out' \in [catalog : {out'.catalog}, listed : SUBSET Document, docs : [Document -> 0 .. Torn]]
      /\ out'.docs = out.docs /\ out'.listed = Listed /\ out'.catalog = disk.state.archived
  BY <1>1, <1>2 DEF IInv, TypeInv
<1>4. TypeInv'
  BY <1>1, <1>3 DEF IInv, TypeInv, Phase
<1>5. WorkInv'
  BY <1>1 DEF IInv, WorkInv
<1>6. OutputInv'
  <2>1. \A u \in out'.listed : out'.docs[u] # 0
    BY <1>1, <1>2, <1>3 DEF IInv, OutputInv
  <2>2. "kill" \notin faults => \A u \in out'.listed : out'.docs[u] = out'.catalog[u]
    BY <1>1, <1>2, <1>3 DEF IInv, OutputInv, AreRecorded
  <2> QED
    BY <1>1, <2>1, <2>2 DEF IInv, OutputInv
<1> QED
  BY <1>4, <1>5, <1>6 DEF IInv

LEMMA KillInv == IInv /\ Kill => IInv'
<1> SUFFICES ASSUME IInv, Kill PROVE IInv'
  OBVIOUS
<1>1. /\ phase' = "idle" /\ run' = NoRun
      /\ faults' \subseteq FaultKind /\ "kill" \in faults'
  BY FaultKnown DEF Kill, IInv, TypeInv
<1>2. /\ disk' \in [state : {disk'.state}, docs : [Document -> 0 .. Torn]]
      /\ disk'.state = disk.state
  <2>1. disk' = disk \/ \E u \in Document : disk' = [disk EXCEPT !.docs[u] = Torn]
    BY DEF Kill
  <2>2. disk \in [state : {disk.state}, docs : [Document -> 0 .. Torn]] /\ Torn \in 0 .. Torn
    BY Bounds DEF IInv, TypeInv
  <2>3. ASSUME NEW u \in Document, disk' = [disk EXCEPT !.docs[u] = Torn]
        PROVE  /\ disk' \in [state : {disk'.state}, docs : [Document -> 0 .. Torn]]
               /\ disk'.state = disk.state
    BY <2>2, <2>3
  <2> QED
    BY <2>1, <2>2, <2>3
<1>3. /\ out' \in [catalog : {out'.catalog}, listed : SUBSET Document, docs : [Document -> 0 .. Torn]]
      /\ \A u \in out'.listed : out'.docs[u] # 0
  <2>1. CASE out' = out
    BY <2>1 DEF IInv, TypeInv, OutputInv
  <2>2. ASSUME NEW copied \in SUBSET Listed, NEW torn \in Listed,
               out' = [out EXCEPT !.docs = [CopiedDocuments(copied) EXCEPT ![torn] = Torn]]
        PROVE  /\ out' \in [catalog : {out'.catalog}, listed : SUBSET Document, docs : [Document -> 0 .. Torn]]
               /\ \A u \in out'.listed : out'.docs[u] # 0
    <3> DEFINE docs == CopiedDocuments(copied)
    <3>1. /\ docs \in [Document -> 0 .. Torn]
          /\ \A u \in Document : docs[u] = IF u \in copied THEN disk.docs[u] ELSE out.docs[u]
          /\ \A u \in copied : disk.docs[u] # 0
      BY FilesOf DEF IInv
    <3>2. out' = [out EXCEPT !.docs = [docs EXCEPT ![torn] = Torn]]
      BY <2>2
    <3> HIDE DEF docs
    <3>3. /\ out' \in [catalog : {out'.catalog}, listed : SUBSET Document, docs : [Document -> 0 .. Torn]]
          /\ out'.listed = out.listed /\ out.listed \subseteq Document
          /\ \A u \in Document : out'.docs[u] = IF u = torn THEN Torn ELSE docs[u]
      BY <3>1, <3>2, Bounds DEF IInv, TypeInv
    <3>4. \A u \in Document : docs[u] # 0 \/ out.docs[u] = 0
      BY <3>1
    <3> QED
      BY <3>3, <3>4, Bounds DEF IInv, OutputInv
  <2> QED
    BY <2>1, <2>2 DEF Kill
<1>4. TypeInv'
  BY <1>1, <1>2, <1>3, NoRunIsSound DEF IInv, TypeInv, Phase
<1>5. WorkInv'
  BY <1>1 DEF WorkInv
<1>6. OutputInv'
  BY <1>1, <1>3 DEF OutputInv
<1> QED
  BY <1>4, <1>5, <1>6 DEF IInv

LEMMA StepInv == IInv /\ [Next]_vars => IInv'
<1>1. CASE UNCHANGED vars
  BY <1>1 DEF vars, IInv, TypeInv, WorkInv, OutputInv, Listed
<1>2. CASE Next
  BY <1>2, StartInv, VisitInv, SaveInv, CopyInv, CatalogInv, KillInv DEF Next
<1> QED
  BY <1>1, <1>2

LEMMA InvHolds == Spec => []IInv
BY InitInv, StepInv, PTL DEF Spec

(* The invariant is TypeOK.                                                *)
LEMMA Types == IInv => TypeOK
<1> SUFFICES ASSUME IInv PROVE TypeOK
  OBVIOUS
<1>1. ASSUME NEW s, SoundState(s)
      PROVE  /\ s.archived \in [Url -> 0 .. MaxVersion]
             /\ ToSet(s.byAge) = Records(s) /\ IsInjective(s.byAge)
             /\ ToSet(s.pending) \subseteq Url /\ IsInjective(s.pending)
  <2>1. s.pending \in Seq(Url)
    BY <1>1 DEF SoundState, IsState
  <2> QED
    BY <1>1, <2>1 DEF SoundState, IsState, ToSet
<1>2. IsRun(run) /\ IsHeap(run.heap) /\ DOMAIN run.heap = 1 .. Len(run.heap)
      /\ Len(run.heap) \in Nat
  BY DEF IInv, TypeInv, IsRun, IsHeap
<1>3. ToSet(Urls(run.heap)) \subseteq run.scheduled /\ IsInjective(Urls(run.heap))
  BY <1>2 DEF ToSet, Urls, IsInjective, IsRun, IsHeap, Distinct
<1>4. \A p \in 2 .. Len(run.heap) : Before(run.heap[p \div 2], run.heap[p])
  BY <1>2 DEF IsHeap, Ordered
<1>5. run.visited \in 0 .. MaxPages
  BY <1>2, Bounds DEF IInv, TypeInv, IsRun
<1>6. /\ SoundState(disk.state) /\ SoundState(run.state) /\ phase \in Phase /\ faults \subseteq FaultKind
      /\ {disk.docs, out.docs} \subseteq [Document -> 0 .. Torn] /\ out.listed \subseteq Document
  BY DEF IInv, TypeInv
<1> QED
  BY <1>1, <1>3, <1>4, <1>5, <1>6 DEF TypeOK

(* A document that the catalogue lists is there, and in its recorded       *)
(* version unless a run was killed: over any number of runs, unreadable    *)
(* states and used-up budgets.  Type correctness is a part of it.          *)
THEOREM OutputIsAlwaysRecorded == Spec => []OutputIsRecorded
<1>1. IInv => OutputIsRecorded
  BY Types DEF IInv, OutputInv, OutputIsRecorded
<1> QED
  BY <1>1, InvHolds, PTL

(* The queue is in order, and unfinished work is next as long as there is  *)
(* any: heapq's array is a heap after every push and pop, a URL keeps the  *)
(* score it was scheduled with, and of the leftovers none is scheduled     *)
(* with less than PendingScore, nor anything after them with as much.      *)
THEOREM UnfinishedIsFirst == Spec => []UnfinishedFirst
<1>1. IInv => UnfinishedFirst
  <2> SUFFICES ASSUME IInv PROVE UnfinishedFirst
    OBVIOUS
  <2> DEFINE heap == run.heap
             unfinished == ToSet(disk.state.pending) \cap ToSet(Urls(heap))
  <2>1. /\ heap \in Seq(Entry) /\ Ordered(heap)
        /\ DOMAIN heap = 1 .. Len(heap) /\ Len(heap) \in Nat
        /\ \A p \in DOMAIN heap : heap[p] \in Entry
    BY DEF IInv, TypeInv, IsRun, IsHeap
  <2>2. \A p \in 2 .. Len(heap) : Before(heap[1], heap[p])
    <3> TAKE p \in 2 .. Len(heap)
    <3>1. p \in Position /\ p \in DOMAIN heap /\ p # 1
      BY <2>1 DEF Position
    <3>2. 1 \in PathTo[p]
      BY <3>1, PathShape
    <3> HIDE DEF heap
    <3> QED
      BY <2>1, <3>1, <3>2, Ascend
  <2>3. ASSUME phase = "crawling", unfinished # {}
        PROVE  heap[1].url \in unfinished \cup {Seed}
    <3>1. PICK i \in DOMAIN heap : heap[i].url \in ToSet(disk.state.pending)
      BY <2>3 DEF ToSet, Urls
    <3>2. LeftoversFirst(run, ToSet(disk.state.pending))
      BY <2>3 DEF IInv, WorkInv
    <3>3. heap[i].score >= PendingScore
      BY <3>1, <3>2 DEF LeftoversFirst
    <3>4. i = 1 \/ i \in 2 .. Len(heap)
      BY <2>1
    <3>5. 1 \in DOMAIN heap
      BY <2>1
    <3>6. heap[1].score \in Nat /\ heap[i].score \in Nat
      BY <2>1, <3>5 DEF Entry
    <3>7. heap[1].score >= PendingScore
      BY <2>2, <3>3, <3>4, <3>6 DEF Before, PendingScore
    <3>8. heap[1].url \in ToSet(disk.state.pending) \cup {Seed}
      BY <3>2, <3>5, <3>6, <3>7 DEF LeftoversFirst, PendingScore
    <3>9. heap[1].url \in ToSet(Urls(heap))
      BY <3>5 DEF ToSet, Urls
    <3> QED
      BY <3>8, <3>9
  <2> QED
    BY <2>2, <2>3 DEF UnfinishedFirst
<1> QED
  BY <1>1, InvHolds, PTL

(* Nothing that was scheduled is lost or visited twice, and nothing that   *)
(* was known is forgotten: the heap has as many entries as there are       *)
(* scheduled URLs that were not visited, and what a run started with is    *)
(* scheduled in it.                                                        *)
THEOREM NothingIsForgotten == Spec => NothingForgotten
<1> DEFINE Kept == phase = "crawling" /\ phase' = "saved" =>
                     Known(run.state) \cup run.scheduled
                       \subseteq Known(disk'.state) \cup (run.scheduled \ ToSet(Urls(run.heap)))
           Archived == "corrupt" \notin faults' => Records(disk.state) \subseteq Records(disk'.state)
           Step == /\ run'.visited + Len(run'.heap) = Cardinality(run'.scheduled)
                   /\ Kept /\ Archived
<1>1. IInv' => run'.visited + Len(run'.heap) = Cardinality(run'.scheduled)
  BY DEF IInv, TypeInv, IsRun
<1>2. IInv /\ Next => Kept
  <2> SUFFICES ASSUME IInv, Next, phase = "crawling", phase' = "saved"
               PROVE  Known(run.state) \cup run.scheduled
                        \subseteq Known(disk'.state) \cup (run.scheduled \ ToSet(Urls(run.heap)))
    OBVIOUS
  <2>1. SaveState
    BY DEF Next, Start, Visit, CopyDocuments, WriteCatalog, Kill
  <2>2. disk'.state = [run.state EXCEPT !.pending = Leftover]
    BY <2>1 DEF SaveState, IInv, TypeInv
  <2>3. Records(disk'.state) = Records(run.state) /\ disk'.state.pending = Urls(run.heap)
    BY <2>2 DEF IInv, TypeInv, SoundState, IsState, Records, Leftover
  <2>4. ToSet(run.state.pending) \subseteq run.scheduled
    BY DEF IInv, WorkInv, LeftoversFirst
  <2> QED
    BY <2>3, <2>4 DEF Known
<1>3. IInv /\ Next => Archived
  <2> SUFFICES ASSUME IInv, Next, "corrupt" \notin faults'
               PROVE  Records(disk.state) \subseteq Records(disk'.state)
    OBVIOUS
  <2>1. CASE SaveState
    <3>1. disk'.state = [run.state EXCEPT !.pending = Leftover]
      BY <2>1 DEF SaveState, IInv, TypeInv
    <3>2. Records(disk'.state) = Records(run.state)
      BY <3>1 DEF IInv, TypeInv, SoundState, IsState, Records
    <3> QED
      BY <2>1, <3>2 DEF SaveState, IInv, WorkInv
  <2>2. CASE Start
    BY <2>2 DEF Start, Fault
  <2>3. ASSUME NEW u \in Url, Visit(u) PROVE disk'.state = disk.state
    <3>1. Outcome(u)
      BY <2>3, VisitOutcome DEF IInv
    <3> QED
      BY <3>1 DEF Outcome, Archives, IInv, TypeInv
  <2>4. CASE CopyDocuments \/ WriteCatalog
    BY <2>4 DEF CopyDocuments, WriteCatalog
  <2>5. CASE Kill
    <3>1. disk' = disk \/ \E u \in Document : disk' = [disk EXCEPT !.docs[u] = Torn]
      BY <2>5 DEF Kill
    <3> QED
      BY <3>1 DEF IInv, TypeInv
  <2> QED
    BY <2>1, <2>2, <2>3, <2>4, <2>5 DEF Next
<1>4. IInv /\ IInv' /\ [Next]_vars => [Step]_vars
  <2> HIDE DEF Kept, Archived
  <2> QED
    BY <1>1, <1>2, <1>3
<1> QED
  BY <1>4, InvHolds, PTL DEF Spec, NothingForgotten

-------------------------------------------------------------------------------
(* THE RECONNAISSANCE                                                      *)
(* Why a URL is scheduled: it is the seed, a sitemap lists it, it looks    *)
(* relevant, or the seed links to it.                                      *)
Came(best, u, listed, town) ==
  u = Seed \/ u \in listed \/ best[u] >= ReconMinScore \/ u \in ToSet(town[Seed])

Fields(r) ==
  r = [step |-> r.step, heap |-> r.heap, scheduled |-> r.scheduled, fetched |-> r.fetched,
       best |-> r.best, documents |-> r.documents, pages |-> r.pages,
       discovered |-> r.discovered]

Waits(heap, scheduled) ==
  /\ IsHeap(heap) /\ IsFiniteSet(scheduled)
  /\ \A i \in DOMAIN heap :
       /\ heap[i].url \in scheduled /\ heap[i].n <= Cardinality(scheduled)
       /\ heap[i].depth < 1 => heap[i].url = Seed

Candidates(best) ==
  /\ DOMAIN best \subseteq Url
  /\ \A u \in DOMAIN best : best[u] \in Nat /\ best[u] <= AnchorScore[u]

(* A queue, the reason of each scheduled URL, documents that are some, and *)
(* pages that are none.                                                    *)
IsRecon(r, listed, town) ==
  /\ Fields(r) /\ Waits(r.heap, r.scheduled) /\ Candidates(r.best)
  /\ r.scheduled \subseteq DOMAIN r.best
  /\ r.discovered \subseteq PlatformHosts \cup AllowHosts
  /\ r.documents \subseteq DOMAIN r.best
  /\ \A u \in r.documents : u \in DocumentUrl \/ u \in Document \cap r.scheduled
  /\ \A p \in r.pages : p.url \in r.scheduled \ (Document \cup DocumentUrl)
  /\ \A u \in r.scheduled : Came(r.best, u, listed, town)

ReconInv ==
  /\ site \in Sites
  /\ IsRecon(recon, ToSet(mapped), site)
  /\ recon.step = "new" => mapped = <<>>
  /\ profile = NoProfile
     \/ /\ recon.step = "done" /\ Seed \in profile.seeds
        /\ profile.hosts = recon.discovered \cup AllowHosts

(* What a town serves is in scope, and nothing else.                       *)
LEMMA TownIsInScope ==
  ASSUME NEW allowed, AllowHosts \subseteq allowed, allowed \subseteq PlatformHosts \cup AllowHosts
  PROVE  /\ \A u \in Url : InScope(u, allowed)
         /\ \A u \in Outside : ~ InScope(u, allowed)
<1>1. ASSUME NEW u, HostOf[u] \in SeedHosts \cup PlatformHosts \cup AllowHosts PROVE InScope(u, allowed)
  BY <1>1 DEF InScope, Reason
<1>2. ASSUME NEW u, HostOf[u] \notin SeedHosts \cup PlatformHosts \cup AllowHosts PROVE ~ InScope(u, allowed)
  <2>1. HostOf[u] \notin SeedHosts /\ HostOf[u] \notin allowed /\ HostOf[u] \notin PlatformHosts
    BY <1>2
  <2>2. Reason(u, allowed) = "none"
    BY <2>1 DEF Reason
  <2> QED
    BY <2>2 DEF InScope
<1> QED
  BY <1>1, <1>2, ReconConstants

LEMMA NotedKeeps ==
  ASSUME NEW r, NEW listed, NEW town, IsRecon(r, listed, town), NEW u
  PROVE  /\ IsRecon(Noted(r, u), listed, town)
         /\ Noted(r, u).scheduled = r.scheduled /\ Noted(r, u).best = r.best
         /\ Noted(r, u).step = r.step /\ Noted(r, u).documents = r.documents
<1> DEFINE more == r.discovered \cup {HostOf[u]}
           q == [r EXCEPT !.discovered = more]
<1>1. Noted(r, u) = r \/ (Noted(r, u) = q /\ Reason(u, AllowHosts \cup r.discovered) \in {"allowlist", "platform"})
  BY DEF Noted
<1>2. CASE Noted(r, u) = r
  BY <1>2
<1>3. CASE Noted(r, u) = q /\ Reason(u, AllowHosts \cup r.discovered) \in {"allowlist", "platform"}
  <2>1. HostOf[u] \in AllowHosts \cup r.discovered \cup PlatformHosts
    BY <1>3 DEF Reason
  <2>2. q = [step |-> r.step, heap |-> r.heap, scheduled |-> r.scheduled, fetched |-> r.fetched,
             best |-> r.best, documents |-> r.documents, pages |-> r.pages, discovered |-> more]
    <3> HIDE DEF more
    <3> QED
      BY DEF IsRecon, Fields
  <2> HIDE DEF q
  <2>3. Fields(q)
    BY <2>2 DEF Fields
  <2>4. /\ q.heap = r.heap /\ q.scheduled = r.scheduled /\ q.best = r.best /\ q.step = r.step
        /\ q.documents = r.documents /\ q.pages = r.pages
        /\ q.discovered = r.discovered \cup {HostOf[u]}
    BY <2>2
  <2>5. IsRecon(q, listed, town)
    BY <2>1, <2>3, <2>4 DEF IsRecon
  <2> QED
    BY <1>3, <2>4, <2>5
<1> QED
  BY <1>1, <1>2, <1>3

LEMMA SeenKeeps ==
  ASSUME NEW r, NEW listed, NEW town, IsRecon(r, listed, town), NEW u \in Url,
         NEW score \in Nat, score <= AnchorScore[u]
  PROVE  /\ IsRecon(Seen(r, u, score), listed, town)
         /\ u \in DOMAIN Seen(r, u, score).best
         /\ Seen(r, u, score).scheduled = r.scheduled /\ Seen(r, u, score).step = r.step
<1> DEFINE before == IF u \in DOMAIN r.best THEN r.best[u] ELSE 0
           top == IF score > before THEN score ELSE before
           best == [v \in DOMAIN r.best \cup {u} |-> IF v = u THEN top ELSE r.best[v]]
           documents == IF u \in DocumentUrl THEN r.documents \cup {u} ELSE r.documents
           q == [step |-> r.step, heap |-> r.heap, scheduled |-> r.scheduled, fetched |-> r.fetched,
                 best |-> best, documents |-> documents, pages |-> r.pages,
                 discovered |-> r.discovered]
<1>1. Seen(r, u, score) = q
  <2>1. Seen(r, u, score) = [r EXCEPT !.best = best, !.documents = documents]
    BY DEF Seen
  <2> HIDE DEF best, documents
  <2> QED
    BY <2>1 DEF IsRecon, Fields
<1>2. /\ DOMAIN best = DOMAIN r.best \cup {u} /\ best[u] = top
      /\ \A v \in DOMAIN r.best : v # u => best[v] = r.best[v]
  <2> HIDE DEF top
  <2> QED
    OBVIOUS
<1>3. AnchorScore[u] \in Nat
  BY ScoresAreLow
<1>4. /\ top \in Nat /\ top <= AnchorScore[u] /\ (u \in DOMAIN r.best => top >= r.best[u])
  BY <1>3 DEF IsRecon, Candidates
<1> HIDE DEF best, top
<1>5. Candidates(best)
  BY <1>2, <1>4 DEF IsRecon, Candidates
<1>6. \A v \in DOMAIN r.best : best[v] \in Nat /\ r.best[v] \in Nat /\ best[v] >= r.best[v]
  BY <1>2, <1>4 DEF IsRecon, Candidates
<1>7. ReconMinScore \in Nat
  BY ReconConstants
<1>8. \A v \in r.scheduled : Came(best, v, listed, town)
  BY <1>6, <1>7 DEF IsRecon, Came
<1>9. r.scheduled \subseteq DOMAIN best /\ documents \subseteq DOMAIN best
  BY <1>2 DEF IsRecon
<1>10. \A v \in documents : v \in DocumentUrl \/ v \in Document \cap r.scheduled
  BY DEF IsRecon
<1> HIDE DEF documents
<1>11. /\ q.heap = r.heap /\ q.scheduled = r.scheduled /\ q.best = best /\ q.step = r.step
       /\ q.documents = documents /\ q.pages = r.pages /\ q.discovered = r.discovered
  OBVIOUS
<1>12. Fields(q)
  BY DEF Fields
<1> HIDE DEF q
<1>13. IsRecon(q, listed, town)
  BY <1>5, <1>8, <1>9, <1>10, <1>11, <1>12 DEF IsRecon
<1> QED
  BY <1>1, <1>2, <1>11, <1>13

LEMMA EnqueueKeeps ==
  ASSUME NEW r, NEW listed, NEW town, IsRecon(r, listed, town), NEW u \in DOMAIN r.best,
         NEW score \in Nat, NEW depth \in Nat, depth < 1 => u = Seed,
         Came(r.best, u, listed, town)
  PROVE  /\ IsRecon(Enqueue(r, u, score, depth), listed, town)
         /\ r.scheduled \subseteq Enqueue(r, u, score, depth).scheduled
         /\ Enqueue(r, u, score, depth).step = r.step
<1>1. CASE u \in r.scheduled
  BY <1>1 DEF Enqueue
<1>2. CASE u \notin r.scheduled
  <2> DEFINE n == Cardinality(r.scheduled) + 1
             e == [score |-> score, n |-> n, url |-> u, depth |-> depth]
             heap == HeapPush(r.heap, e)
             scheduled == r.scheduled \cup {u}
             q == [step |-> r.step, heap |-> heap, scheduled |-> scheduled, fetched |-> r.fetched,
                   best |-> r.best, documents |-> r.documents, pages |-> r.pages,
                   discovered |-> r.discovered]
  <2>1. Enqueue(r, u, score, depth) = q
    <3>1. Enqueue(r, u, score, depth) = [r EXCEPT !.scheduled = scheduled, !.heap = heap]
      BY <1>2 DEF Enqueue
    <3> HIDE DEF scheduled, heap
    <3> QED
      BY <3>1 DEF IsRecon, Fields
  <2>2. Cardinality(r.scheduled) \in Nat /\ n \in Nat
    BY FS_CardinalityType DEF IsRecon, Waits
  <2>3. u \in Url
    BY DEF IsRecon, Candidates
  <2>4. e \in Entry /\ e.n = n /\ e.url = u /\ e.depth = depth
    BY <2>2, <2>3 DEF Entry
  <2> HIDE DEF e
  <2>5. \A i \in DOMAIN r.heap : r.heap[i] \in Entry
    BY DEF IsRecon, Waits, IsHeap
  <2>6. \A i \in DOMAIN r.heap : r.heap[i].n # e.n /\ r.heap[i].url # e.url
    BY <1>2, <2>2, <2>4, <2>5 DEF IsRecon, Waits, Entry
  <2>7. /\ IsHeap(heap)
        /\ \A p \in DOMAIN heap : heap[p] = e \/ \E i \in DOMAIN r.heap : heap[p] = r.heap[i]
    BY <2>4, <2>6, PushIsHeap DEF IsRecon, Waits
  <2> HIDE DEF heap
  <2>8. IsFiniteSet(scheduled) /\ Cardinality(scheduled) = n
    BY <1>2, FS_AddElement DEF IsRecon, Waits
  <2>9. Waits(heap, scheduled)
    <3> SUFFICES ASSUME NEW p \in DOMAIN heap
                 PROVE  /\ heap[p].url \in scheduled /\ heap[p].n <= Cardinality(scheduled)
                        /\ heap[p].depth < 1 => heap[p].url = Seed
      BY <2>7, <2>8 DEF Waits
    <3>1. CASE heap[p] = e
      BY <2>2, <2>4, <2>8, <3>1
    <3>2. ASSUME NEW i \in DOMAIN r.heap, heap[p] = r.heap[i]
          PROVE  /\ heap[p].url \in scheduled /\ heap[p].n <= n
                 /\ heap[p].depth < 1 => heap[p].url = Seed
      BY <2>2, <2>5, <3>2 DEF IsRecon, Waits, Entry
    <3> QED
      BY <2>7, <2>8, <3>1, <3>2
  <2> HIDE DEF n
  <2>10. \A v \in scheduled : v \in DOMAIN r.best /\ Came(r.best, v, listed, town)
    BY DEF IsRecon
  <2>11. r.scheduled \subseteq scheduled
    OBVIOUS
  <2> HIDE DEF scheduled
  <2>12. /\ q.heap = heap /\ q.scheduled = scheduled /\ q.best = r.best /\ q.step = r.step
         /\ q.documents = r.documents /\ q.pages = r.pages /\ q.discovered = r.discovered
    OBVIOUS
  <2>13. Fields(q)
    BY DEF Fields
  <2> HIDE DEF q
  <2>14. IsRecon(q, listed, town)
    BY <2>9, <2>10, <2>11, <2>12, <2>13 DEF IsRecon
  <2> QED
    BY <2>1, <2>11, <2>12, <2>14
<1> QED
  BY <1>1, <1>2

Where == {"seed", "sitemap", "page"}
(* A sight of w is one the scheduling may rest on.                         *)
IsSight(w, where, listed, town) ==
  /\ w \in Url \cup Outside
  /\ where = "seed" => w \in ToSet(town[Seed])
  /\ where = "sitemap" => w \in listed

LEMMA SightKeeps ==
  ASSUME NEW r, NEW listed, NEW town, IsRecon(r, listed, town),
         NEW w, NEW where \in Where, IsSight(w, where, listed, town)
  PROVE  /\ IsRecon(Sight(r, w, where), listed, town)
         /\ r.scheduled \subseteq Sight(r, w, where).scheduled
         /\ Sight(r, w, where).step = r.step
<1> DEFINE allowed == AllowHosts \cup r.discovered
<1>1. CASE ~ InScope(w, allowed)
  BY <1>1 DEF Sight
<1>2. CASE InScope(w, allowed)
  <2>1. w \in Url
    <3>1. AllowHosts \subseteq allowed /\ allowed \subseteq PlatformHosts \cup AllowHosts
      BY DEF IsRecon
    <3> QED
      BY <1>2, <3>1, TownIsInScope DEF IsSight
  <2>2. /\ Score[w] \in Nat /\ AnchorScore[w] \in Nat /\ Score[w] <= AnchorScore[w]
    BY <2>1, ScoresAreLow, HarvestConstants
  <2> HIDE DEF allowed
  <2>3. CASE where = "sitemap"
    <3> DEFINE s == Seen(r, w, Score[w])
    <3>1. /\ IsRecon(s, listed, town) /\ w \in DOMAIN s.best
          /\ s.scheduled = r.scheduled /\ s.step = r.step
      BY <2>1, <2>2, SeenKeeps
    <3>2. Sight(r, w, where) = Enqueue(s, w, s.best[w], 1)
      BY <1>2, <2>3 DEF Sight, Schedule, allowed
    <3> HIDE DEF s
    <3>3. s.best[w] \in Nat /\ 1 \in Nat /\ ~ (1 < 1)
      BY <3>1 DEF IsRecon, Candidates
    <3>4. Came(s.best, w, listed, town)
      BY <2>3 DEF IsSight, Came
    <3> QED
      BY <3>1, <3>2, <3>3, <3>4, EnqueueKeeps
  <2>4. CASE where # "sitemap"
    <3> DEFINE m == Noted(r, w)
               s == Seen(m, w, AnchorScore[w])
    <3>1. /\ IsRecon(m, listed, town) /\ m.scheduled = r.scheduled /\ m.step = r.step
      BY NotedKeeps
    <3> HIDE DEF m
    <3>2. /\ IsRecon(s, listed, town) /\ w \in DOMAIN s.best
          /\ s.scheduled = r.scheduled /\ s.step = r.step
      BY <2>1, <2>2, <3>1, SeenKeeps
    <3>3. Sight(r, w, where) = IF where = "seed" \/ s.best[w] >= ReconMinScore
                               THEN Enqueue(s, w, s.best[w], MaxDepth) ELSE s
      BY <1>2, <2>4 DEF Sight, Schedule, allowed, m
    <3> HIDE DEF s
    <3>4. CASE where = "seed" \/ s.best[w] >= ReconMinScore
      <4>1. s.best[w] \in Nat /\ MaxDepth \in Nat /\ ~ (MaxDepth < 1)
        BY <3>2 DEF IsRecon, Candidates, MaxDepth
      <4>2. Came(s.best, w, listed, town)
        BY <3>4 DEF IsSight, Came
      <4>3. Sight(r, w, where) = Enqueue(s, w, s.best[w], MaxDepth)
        BY <3>3, <3>4
      <4> QED
        BY <3>2, <4>1, <4>2, <4>3, EnqueueKeeps
    <3>5. CASE ~ (where = "seed" \/ s.best[w] >= ReconMinScore)
      BY <3>2, <3>3, <3>5
    <3> QED
      BY <3>4, <3>5
  <2> QED
    BY <2>3, <2>4
<1> QED
  BY <1>1, <1>2

(* What SightEach sees through: there is such a function.                  *)
Sights(f, k, r, urls, where) ==
  f = [i \in 0 .. k |-> IF i = 0 THEN r ELSE Sight(f[i - 1], urls[i], where)]

LEMMA SightsExist ==
  ASSUME NEW r, NEW urls, NEW where
  PROVE  \A k \in Nat : \E f : Sights(f, k, r, urls, where)
<1> DEFINE Has(k) == \E f : Sights(f, k, r, urls, where)
           B == {k \in Nat : ~ Has(k)}
<1> SUFFICES ASSUME B # {} PROVE FALSE
  OBVIOUS
<1>1. PICK k \in B : \A j \in B : k <= j
  <2>1. B \in SUBSET Nat
    OBVIOUS
  <2> HIDE DEF B
  <2> QED
    BY <2>1, LeastNat
<1>2. CASE k = 0
  <2> DEFINE f == [i \in 0 .. 0 |-> r]
  <2>1. Sights(f, k, r, urls, where)
    BY <1>2 DEF Sights
  <2> QED
    BY <2>1
<1>3. CASE k # 0
  <2>1. k \in Nat /\ k - 1 \in Nat /\ ~ (k <= k - 1)
    BY <1>3
  <2>2. Has(k - 1)
    BY <1>1, <2>1
  <2>3. PICK f : Sights(f, k - 1, r, urls, where)
    BY <2>2
  <2> DEFINE last == Sight(f[k - 1], urls[k], where)
             g == [i \in 0 .. k |-> IF i = k THEN last ELSE f[i]]
  <2>4. \A i \in 0 .. k : g[i] = IF i = 0 THEN r ELSE Sight(g[i - 1], urls[i], where)
    <3> TAKE i \in 0 .. k
    <3>1. CASE i = k
      <4>1. g[i] = last /\ g[k - 1] = f[k - 1]
        BY <1>3, <2>1, <3>1
      <4> HIDE DEF g
      <4> QED
        BY <1>3, <3>1, <4>1
    <3>2. CASE i # k /\ i # 0
      <4>1. i \in 0 .. k - 1 /\ i - 1 \in 0 .. k /\ i - 1 # k
        BY <2>1, <3>2
      <4>2. g[i] = f[i] /\ g[i - 1] = f[i - 1]
        BY <3>2, <4>1
      <4>3. f[i] = Sight(f[i - 1], urls[i], where)
        BY <2>3, <3>2, <4>1 DEF Sights
      <4> HIDE DEF g
      <4> QED
        BY <3>2, <4>2, <4>3
    <3>3. CASE i # k /\ i = 0
      <4>1. 0 \in 0 .. k - 1
        BY <2>1
      <4>2. f[0] = r
        BY <2>3, <4>1 DEF Sights
      <4>3. g[i] = f[i]
        BY <3>3
      <4> HIDE DEF g
      <4> QED
        BY <3>3, <4>2, <4>3
    <3> QED
      BY <3>1, <3>2, <3>3
  <2>5. g = [i \in 0 .. k |-> g[i]]
    OBVIOUS
  <2> HIDE DEF g, last
  <2>6. Sights(g, k, r, urls, where)
    BY <2>4, <2>5 DEF Sights
  <2> QED
    BY <2>6
<1> QED
  BY <1>2, <1>3

LEMMA SightEachKeeps ==
  ASSUME NEW r, NEW listed, NEW town, IsRecon(r, listed, town),
         NEW urls \in Seq(Url \cup Outside), NEW where \in Where,
         where = "seed" => urls = town[Seed], where = "sitemap" => listed = ToSet(urls)
  PROVE  /\ IsRecon(SightEach(r, urls, where), listed, town)
         /\ r.scheduled \subseteq SightEach(r, urls, where).scheduled
         /\ SightEach(r, urls, where).step = r.step
<1> DEFINE after == CHOOSE f : Sights(f, Len(urls), r, urls, where)
           Good(q) == /\ IsRecon(q, listed, town)
                      /\ r.scheduled \subseteq q.scheduled /\ q.step = r.step
           B == {k \in 0 .. Len(urls) : ~ Good(after[k])}
<1>1. Len(urls) \in Nat /\ \A i \in 1 .. Len(urls) : IsSight(urls[i], where, listed, town)
  <2>1. \A i \in 1 .. Len(urls) : urls[i] \in Url \cup Outside /\ urls[i] \in ToSet(urls)
    BY DEF ToSet
  <2> QED
    BY <2>1 DEF IsSight
<1>2. SightEach(r, urls, where) = after[Len(urls)]
  BY DEF SightEach, Sights
<1>3. Sights(after, Len(urls), r, urls, where)
  <2>1. \E f : Sights(f, Len(urls), r, urls, where)
    BY <1>1, SightsExist
  <2> QED
    BY <2>1
<1> HIDE DEF after
<1>4. after[0] = r
  BY <1>1, <1>3 DEF Sights
<1>5. \A i \in 1 .. Len(urls) : after[i] = Sight(after[i - 1], urls[i], where)
  <2> TAKE i \in 1 .. Len(urls)
  <2>1. i \in 0 .. Len(urls) /\ i # 0
    BY <1>1
  <2> QED
    BY <1>3, <2>1 DEF Sights
<1>6. B = {}
  <2> SUFFICES ASSUME B # {} PROVE FALSE
    OBVIOUS
  <2>1. PICK k \in B : \A j \in B : k <= j
    <3>1. B \in SUBSET Nat
      OBVIOUS
    <3> HIDE DEF B
    <3> QED
      BY <3>1, LeastNat
  <2>2. k # 0
    BY <1>4, <2>1
  <2>3. k \in 1 .. Len(urls) /\ k - 1 \in 0 .. Len(urls) /\ ~ (k <= k - 1)
    BY <1>1, <2>2
  <2>4. Good(after[k - 1])
    BY <2>1, <2>3
  <2>5. IsSight(urls[k], where, listed, town) /\ after[k] = Sight(after[k - 1], urls[k], where)
    BY <1>1, <1>5, <2>3
  <2>6. Good(after[k])
    BY <2>4, <2>5, SightKeeps
  <2> QED
    BY <2>6
<1>7. Len(urls) \in 0 .. Len(urls)
  BY <1>1
<1>8. Good(after[Len(urls)])
  <2> HIDE DEF Good
  <2> QED
    BY <1>6, <1>7
<1> QED
  BY <1>2, <1>8

LEMMA PoppedKeeps ==
  ASSUME NEW r, NEW listed, NEW town, IsRecon(r, listed, town), r.heap # <<>>,
         NEW heap, heap = HeapPop(r.heap)
  PROVE  LET q == [r EXCEPT !.heap = heap] IN
         /\ IsRecon(q, listed, town)
         /\ q.scheduled = r.scheduled /\ q.best = r.best /\ q.step = r.step
<1> DEFINE q == [step |-> r.step, heap |-> heap, scheduled |-> r.scheduled, fetched |-> r.fetched,
                 best |-> r.best, documents |-> r.documents, pages |-> r.pages,
                 discovered |-> r.discovered]
<1>1. [r EXCEPT !.heap = heap] = q
  BY DEF IsRecon, Fields
<1>2. /\ IsHeap(heap)
      /\ \A p \in DOMAIN heap : \E i \in DOMAIN r.heap : heap[p] = r.heap[i]
  BY PopIsHeap DEF IsRecon, Waits
<1>3. Waits(heap, r.scheduled)
  BY <1>2 DEF IsRecon, Waits
<1>4. /\ q.heap = heap /\ q.scheduled = r.scheduled /\ q.best = r.best /\ q.step = r.step
      /\ q.documents = r.documents /\ q.pages = r.pages /\ q.discovered = r.discovered
  OBVIOUS
<1>5. Fields(q)
  BY DEF Fields
<1> HIDE DEF q
<1>6. IsRecon(q, listed, town)
  BY <1>3, <1>4, <1>5 DEF IsRecon
<1> QED
  BY <1>1, <1>4, <1>6

(* The fields that no other depends on.                                    *)
LEMMA CountedKeeps ==
  ASSUME NEW r, NEW listed, NEW town, IsRecon(r, listed, town), NEW fetched
  PROVE  LET q == [r EXCEPT !.fetched = fetched] IN
         /\ IsRecon(q, listed, town)
         /\ q.scheduled = r.scheduled /\ q.best = r.best /\ q.step = r.step
<1> DEFINE q == [step |-> r.step, heap |-> r.heap, scheduled |-> r.scheduled, fetched |-> fetched,
                 best |-> r.best, documents |-> r.documents, pages |-> r.pages,
                 discovered |-> r.discovered]
<1>1. [r EXCEPT !.fetched = fetched] = q
  BY DEF IsRecon, Fields
<1>2. /\ q.heap = r.heap /\ q.scheduled = r.scheduled /\ q.best = r.best /\ q.step = r.step
      /\ q.documents = r.documents /\ q.pages = r.pages /\ q.discovered = r.discovered
  OBVIOUS
<1>3. Fields(q)
  BY DEF Fields
<1> HIDE DEF q
<1> QED
  BY <1>1, <1>2, <1>3 DEF IsRecon

LEMMA SteppedKeeps ==
  ASSUME NEW r, NEW listed, NEW town, IsRecon(r, listed, town), NEW step
  PROVE  LET q == [r EXCEPT !.step = step] IN
         /\ IsRecon(q, listed, town)
         /\ q.step = step /\ q.discovered = r.discovered
<1> DEFINE q == [step |-> step, heap |-> r.heap, scheduled |-> r.scheduled, fetched |-> r.fetched,
                 best |-> r.best, documents |-> r.documents, pages |-> r.pages,
                 discovered |-> r.discovered]
<1>1. [r EXCEPT !.step = step] = q
  BY DEF IsRecon, Fields
<1>2. /\ q.heap = r.heap /\ q.scheduled = r.scheduled /\ q.best = r.best /\ q.step = step
      /\ q.documents = r.documents /\ q.pages = r.pages /\ q.discovered = r.discovered
  OBVIOUS
<1>3. Fields(q)
  BY DEF Fields
<1> HIDE DEF q
<1> QED
  BY <1>1, <1>2, <1>3 DEF IsRecon

(* A scheduled URL that turned out a document, or a page.                  *)
LEMMA DocumentKeeps ==
  ASSUME NEW r, NEW listed, NEW town, IsRecon(r, listed, town), NEW u \in Document \cap r.scheduled
  PROVE  LET q == [r EXCEPT !.documents = @ \cup {u}] IN
         IsRecon(q, listed, town) /\ q.step = r.step
<1> DEFINE documents == r.documents \cup {u}
           q == [step |-> r.step, heap |-> r.heap, scheduled |-> r.scheduled, fetched |-> r.fetched,
                 best |-> r.best, documents |-> documents, pages |-> r.pages,
                 discovered |-> r.discovered]
<1>1. [r EXCEPT !.documents = @ \cup {u}] = q
  <2> HIDE DEF documents
  <2>1. [r EXCEPT !.documents = documents] = q
    BY DEF IsRecon, Fields
  <2> QED
    BY <2>1 DEF documents
<1>2. /\ q.heap = r.heap /\ q.scheduled = r.scheduled /\ q.best = r.best /\ q.step = r.step
      /\ q.documents = documents /\ q.pages = r.pages /\ q.discovered = r.discovered
  OBVIOUS
<1>3. Fields(q)
  BY DEF Fields
<1>4. /\ documents \subseteq DOMAIN r.best
      /\ \A v \in documents : v \in DocumentUrl \/ v \in Document \cap r.scheduled
  BY DEF IsRecon
<1> HIDE DEF q, documents
<1> QED
  BY <1>1, <1>2, <1>3, <1>4 DEF IsRecon

LEMMA PageKeeps ==
  ASSUME NEW r, NEW listed, NEW town, IsRecon(r, listed, town),
         NEW page, page.url \in r.scheduled \ (Document \cup DocumentUrl)
  PROVE  LET q == [r EXCEPT !.pages = @ \cup {page}] IN
         IsRecon(q, listed, town) /\ q.step = r.step
<1> DEFINE pages == r.pages \cup {page}
           q == [step |-> r.step, heap |-> r.heap, scheduled |-> r.scheduled, fetched |-> r.fetched,
                 best |-> r.best, documents |-> r.documents, pages |-> pages,
                 discovered |-> r.discovered]
<1>1. [r EXCEPT !.pages = @ \cup {page}] = q
  <2> HIDE DEF pages
  <2>1. [r EXCEPT !.pages = pages] = q
    BY DEF IsRecon, Fields
  <2> QED
    BY <2>1 DEF pages
<1>2. /\ q.heap = r.heap /\ q.scheduled = r.scheduled /\ q.best = r.best /\ q.step = r.step
      /\ q.documents = r.documents /\ q.pages = pages /\ q.discovered = r.discovered
  OBVIOUS
<1>3. Fields(q)
  BY DEF Fields
<1>4. \A p \in pages : p.url \in r.scheduled \ (Document \cup DocumentUrl)
  BY DEF IsRecon
<1> HIDE DEF q, pages
<1> QED
  BY <1>1, <1>2, <1>3, <1>4 DEF IsRecon

-------------------------------------------------------------------------------
LEMMA ReconInitInv == ReconInit => ReconInv
<1> SUFFICES ASSUME ReconInit PROVE ReconInv
  OBVIOUS
<1>1. site \in Sites /\ mapped = <<>> /\ profile = NoProfile
  BY DEF ReconInit
<1>2. recon = [step |-> "new", heap |-> <<>>, scheduled |-> {}, fetched |-> 0,
               best |-> [u \in {} |-> 0], documents |-> {}, pages |-> {}, discovered |-> {}]
  BY DEF ReconInit
<1>3. /\ recon.step = "new" /\ recon.heap = <<>> /\ recon.scheduled = {}
      /\ recon.best = [u \in {} |-> 0] /\ recon.documents = {} /\ recon.pages = {}
      /\ recon.discovered = {} /\ recon.fetched = 0
  BY <1>2
<1>4. Fields(recon)
  BY <1>2, <1>3 DEF Fields
<1>5. IsHeap(<<>>) /\ DOMAIN <<>> = {}
  BY DEF IsHeap, Distinct, Ordered
<1>6. IsFiniteSet({})
  BY FS_EmptySet
<1>7. Waits(recon.heap, recon.scheduled)
  BY <1>3, <1>5, <1>6 DEF Waits
<1>8. DOMAIN recon.best = {}
  BY <1>3
<1>9. IsRecon(recon, ToSet(mapped), site)
  BY <1>3, <1>4, <1>7, <1>8 DEF IsRecon, Candidates
<1> QED
  BY <1>1, <1>9 DEF ReconInv

LEMMA ReconStartInv == ReconInv /\ ReconStart => ReconInv'
<1> SUFFICES ASSUME ReconInv, ReconStart PROVE ReconInv'
  OBVIOUS
<1> DEFINE listed == ToSet(mapped')
           known == Seen(recon, Seed, Score[Seed])
           withSeed == Enqueue(known, Seed, SeedScore, 0)
           crawled == SightEach(withSeed, mapped', "sitemap")
<1>1. /\ mapped' \in Seq(Url \cup Outside) /\ site' = site /\ profile' = profile
      /\ recon' = [crawled EXCEPT !.step = "crawling"] /\ profile = NoProfile
  BY ReconConstants DEF ReconStart, ReconInv
<1>2. IsRecon(recon, listed, site)
  <2>1. mapped = <<>>
    BY DEF ReconStart, ReconInv
  <2>2. ToSet(mapped) = {}
    BY <2>1 DEF ToSet
  <2> QED
    BY <2>2 DEF ReconInv, IsRecon, Came
<1> HIDE DEF listed
<1>3. Seed \in Url /\ Score[Seed] \in Nat /\ Score[Seed] <= AnchorScore[Seed]
  BY HarvestConstants, ScoresAreLow
<1>4. IsRecon(known, listed, site) /\ Seed \in DOMAIN known.best
  BY <1>2, <1>3, SeenKeeps
<1> HIDE DEF known
<1>5. IsRecon(withSeed, listed, site)
  BY <1>4, EnqueueKeeps DEF SeedScore, Came
<1> HIDE DEF withSeed
<1>6. IsRecon(crawled, listed, site)
  BY <1>1, <1>5, SightEachKeeps DEF Where, listed
<1> HIDE DEF crawled
<1>7. IsRecon(recon', listed, site') /\ recon'.step = "crawling"
  BY <1>1, <1>6, SteppedKeeps
<1> QED
  BY <1>1, <1>7 DEF ReconInv, listed

LEMMA ReadPageKeeps ==
  ASSUME NEW r, NEW listed, IsRecon(r, listed, site), site \in Sites,
         NEW u \in r.scheduled \ (Document \cup DocumentUrl),
         NEW depth \in Nat, depth < 1 => u = Seed
  PROVE  IsRecon(ReadPage(r, u, depth), listed, site) /\ ReadPage(r, u, depth).step = r.step
<1> DEFINE where == IF depth < 1 THEN "seed" ELSE "page"
           noted == Noted(r, u)
           followed == SightEach(noted, site[u], where)
           page == [url |-> u, documents |-> Cardinality(DocumentLinks(followed, site[u])),
                    civic |-> Cardinality(CivicLinks(followed, site[u]))]
<1>1. IsRecon(noted, listed, site) /\ noted.scheduled = r.scheduled /\ noted.step = r.step
  BY NotedKeeps
<1>2. site[u] \in Seq(Url \cup Outside)
  <2>1. u \in Url
    BY DEF IsRecon, Candidates
  <2> QED
    BY <2>1, ReconConstants
<1>3. where \in Where /\ (where = "seed" => site[u] = site[Seed]) /\ where # "sitemap"
  BY DEF Where
<1>4. ReadPage(r, u, depth) = [followed EXCEPT !.pages = @ \cup {page}]
  BY DEF ReadPage
<1>5. page.url = u
  OBVIOUS
<1> HIDE DEF noted, where
<1>6. IsRecon(followed, listed, site) /\ u \in followed.scheduled /\ followed.step = r.step
  BY <1>1, <1>2, <1>3, SightEachKeeps
<1> HIDE DEF followed, page
<1> QED
  BY <1>4, <1>5, <1>6, PageKeeps

LEMMA ReconVisitInv == ReconInv /\ ReconVisit => ReconInv'
<1> SUFFICES ASSUME ReconInv, ReconVisit PROVE ReconInv'
  OBVIOUS
<1> DEFINE listed == ToSet(mapped)
           u == recon.heap[1].url
           depth == recon.heap[1].depth
           heap == HeapPop(recon.heap)
           popped == [recon EXCEPT !.heap = heap]
           asked == [popped EXCEPT !.fetched = @ + 1]
           noted == Noted(asked, u)
<1>1. /\ IsRecon(recon, listed, site) /\ site \in Sites
      /\ recon.step = "crawling" /\ recon.heap # <<>> /\ profile = NoProfile
      /\ site' = site /\ mapped' = mapped /\ profile' = profile
  BY DEF ReconVisit, ReconInv, ReconGoesOn
<1>2. \/ u \in DocumentUrl /\ recon' = popped
      \/ u \notin DocumentUrl /\ recon' \in {asked, noted}
      \/ u \notin DocumentUrl /\ u \in Document /\ recon' = [noted EXCEPT !.documents = @ \cup {u}]
      \/ u \notin DocumentUrl /\ u \notin Document /\ recon' = ReadPage(asked, u, depth)
  BY DEF ReconVisit
<1>3. u \in recon.scheduled /\ depth \in Nat /\ (depth < 1 => u = Seed)
  <2>1. 1 \in DOMAIN recon.heap /\ recon.heap[1] \in Entry
    BY <1>1 DEF IsRecon, Waits, IsHeap
  <2> QED
    BY <1>1, <2>1 DEF IsRecon, Waits, Entry
<1> HIDE DEF listed, u, depth, heap
<1>4. IsRecon(popped, listed, site) /\ popped.scheduled = recon.scheduled /\ popped.step = recon.step
  BY <1>1, PoppedKeeps DEF heap
<1> HIDE DEF popped
<1>5. IsRecon(asked, listed, site) /\ asked.scheduled = recon.scheduled /\ asked.step = recon.step
  BY <1>4, CountedKeeps
<1> HIDE DEF asked
<1>6. IsRecon(noted, listed, site) /\ noted.scheduled = recon.scheduled /\ noted.step = recon.step
  BY <1>5, NotedKeeps
<1> HIDE DEF noted
<1>7. IsRecon(recon', listed, site) /\ recon'.step = "crawling"
  <2>1. CASE recon' = popped \/ recon' = asked \/ recon' = noted
    BY <1>1, <1>4, <1>5, <1>6, <2>1
  <2>2. CASE u \in Document /\ recon' = [noted EXCEPT !.documents = @ \cup {u}]
    BY <1>1, <1>3, <1>6, <2>2, DocumentKeeps
  <2>3. CASE u \notin DocumentUrl /\ u \notin Document /\ recon' = ReadPage(asked, u, depth)
    BY <1>1, <1>3, <1>5, <2>3, ReadPageKeeps
  <2> QED
    BY <1>2, <2>1, <2>2, <2>3
<1> QED
  BY <1>1, <1>7 DEF ReconInv, listed

LEMMA WriteProfileInv == ReconInv /\ WriteProfile => ReconInv'
<1> SUFFICES ASSUME ReconInv, WriteProfile PROVE ReconInv'
  OBVIOUS
<1>1. /\ recon' = [recon EXCEPT !.step = "done"] /\ site' = site /\ mapped' = mapped
  BY DEF WriteProfile
<1>2. PICK seeds, listed : /\ MaySuggest(seeds, listed)
                           /\ profile' = [seeds |-> seeds, hosts |-> recon.discovered \cup AllowHosts]
  BY DEF WriteProfile
<1>3. Seed \in profile'.seeds /\ profile'.hosts = recon.discovered \cup AllowHosts
  BY <1>2 DEF MaySuggest
<1>4. IsRecon(recon', ToSet(mapped'), site') /\ recon'.step = "done" /\ recon'.discovered = recon.discovered
  BY <1>1, SteppedKeeps DEF ReconInv
<1> QED
  BY <1>1, <1>3, <1>4 DEF ReconInv

LEMMA ReconInvHolds == ReconSpec => []ReconInv
<1>1. ReconInv /\ UNCHANGED reconVars => ReconInv'
  BY DEF reconVars, ReconInv
<1>2. ReconInv /\ [ReconNext]_reconVars => ReconInv'
  BY <1>1, ReconStartInv, ReconVisitInv, WriteProfileInv DEF ReconNext
<1> QED
  BY <1>2, ReconInitInv, PTL DEF ReconSpec

(* What the reconnaissance has read and seen, a harvest with its profile   *)
(* reaches, and the scope never widens: for every site, every set of       *)
(* sitemaps and hosts, and whatever the crawl got to before its budget     *)
(* was used up.                                                            *)
THEOREM ProfileReachesIt == ReconSpec => []ProfileReachesWhatWasSeen
<1>1. ReconInv => ProfileReachesWhatWasSeen
  <2> SUFFICES ASSUME ReconInv PROVE ProfileReachesWhatWasSeen
    OBVIOUS
  <2>1. /\ IsRecon(recon, ToSet(mapped), site) /\ site \in Sites
        /\ recon.discovered \subseteq PlatformHosts \cup AllowHosts
    BY DEF ReconInv, IsRecon
  <2>2. ASSUME NEW u \in recon.scheduled PROVE InScope(u, AllowHosts)
    <3>1. u \in Url
      BY <2>1 DEF IsRecon, Candidates
    <3> QED
      BY <3>1, TownIsInScope
  <2>3. ASSUME profile.seeds # {}, Relevant(recon) \subseteq profile.seeds,
               NEW p \in recon.pages, NEW d \in ToSet(site[p.url]) \cap recon.documents,
               ~ Slips(p.url), ~ Slips(d)
        PROVE  d \in Harvested
    <3>1. Seed \in profile.seeds /\ profile.hosts = recon.discovered \cup AllowHosts
      BY <2>3 DEF ReconInv, NoProfile
    <3>2. /\ p.url \in Url /\ p.url \in recon.scheduled /\ p.url \notin Document \cup DocumentUrl
          /\ d \in Url /\ recon.scheduled \subseteq DOMAIN recon.best
          /\ (d \in DocumentUrl \/ d \in recon.scheduled)
      BY <2>1, <2>3 DEF IsRecon, Candidates
    <3>3. ASSUME NEW u, NEW w \in Url, w \in ToSet(site[u]) PROVE w \in LinksOf(u, profile.hosts)
      <4>1. AllowHosts \subseteq profile.hosts /\ profile.hosts \subseteq PlatformHosts \cup AllowHosts
        BY <2>1, <3>1
      <4> QED
        BY <3>3, <4>1, TownIsInScope DEF LinksOf
    <3>4. ASSUME NEW u \in recon.scheduled, ~ Slips(u)
          PROVE  u = Seed \/ recon.best[u] >= FocusedMinScore \/ u \in ToSet(site[Seed])
      <4>1. Came(recon.best, u, ToSet(mapped), site) /\ recon.best[u] \in Nat
        BY <2>1 DEF IsRecon, Candidates
      <4>2. /\ ReconMinScore \in Nat /\ FocusedMinScore \in Nat
            /\ ReconMinScore >= FocusedMinScore
        BY ReconConstants, HarvestConstants
      <4> QED
        BY <3>4, <4>1, <4>2 DEF Came, Slips
    <3>5. ASSUME NEW S \in SUBSET Url, profile.seeds \subseteq S,
                 \A u \in S : Follows(u) \subseteq S
          PROVE  d \in S
      <4>1. ASSUME NEW w \in Url, w \in ToSet(site[Seed]) PROVE w \in S
        <5>1. w \in Follows(Seed)
          BY <3>3, <4>1 DEF Follows, Worthwhile
        <5> QED
          BY <3>1, <3>5, <5>1
      <4>2. p.url \in S
        <5>1. CASE recon.best[p.url] >= FocusedMinScore
          <6>1. p.url \notin recon.documents
            BY <2>1, <3>2 DEF IsRecon
          <6>2. p.url \in Relevant(recon)
            BY <3>2, <5>1, <6>1 DEF Relevant
          <6> QED
            BY <2>3, <3>5, <6>2
        <5> QED
          BY <2>3, <3>1, <3>2, <3>4, <3>5, <4>1, <5>1
      <4>3. CASE d = Seed \/ d \in ToSet(site[Seed])
        BY <3>1, <3>2, <3>5, <4>1, <4>3
      <4>4. CASE d \in DocumentUrl \/ recon.best[d] >= FocusedMinScore
        <5>1. d \in DocumentUrl \/ AnchorScore[d] >= FocusedMinScore
          <6>1. CASE d \notin DocumentUrl
            <7>1. recon.best[d] \in Nat /\ recon.best[d] <= AnchorScore[d]
              BY <2>1, <2>3 DEF IsRecon, Candidates
            <7>2. AnchorScore[d] \in Nat /\ FocusedMinScore \in Nat
              BY <3>2, ScoresAreLow, HarvestConstants
            <7> QED
              BY <4>4, <6>1, <7>1, <7>2
          <6> QED
            BY <6>1
        <5>2. d \in LinksOf(p.url, profile.hosts)
          BY <2>3, <3>2, <3>3
        <5>3. d \in Follows(p.url)
          BY <5>1, <5>2 DEF Follows, Worthwhile
        <5> QED
          BY <3>5, <4>2, <5>3
      <4> QED
        BY <2>3, <3>2, <3>4, <4>3, <4>4
    <3> QED
      BY <3>2, <3>5 DEF Harvested
  <2> QED
    BY <2>1, <2>2, <2>3 DEF ProfileReachesWhatWasSeen
<1> QED
  BY <1>1, ReconInvHolds, PTL
=============================================================================
