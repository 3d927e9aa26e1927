-------------------------- MODULE AuditIngestProofs --------------------------
(***************************************************************************)
(* Proofs about TranscriptFetch, AuditIngest and RemoteSource, for every   *)
(* archive, everything that may be said in a meeting, every passage length *)
(* and any number of runs.  The first parts are about the text: a          *)
(* transcript, its paragraphs and its passages cut the same lines.  Then   *)
(* come the fetcher, the runs that write the records, and the rows of a    *)
(* remote data set.                                                        *)
(***************************************************************************)
EXTENDS AuditIngestProps, FiniteSetTheorems, SequenceTheorems, WellFoundedInduction, TLAPS

(* Induction up to a number, over the set of the numbers where it holds.   *)
LEMMA Induct ==
  ASSUME NEW n \in Nat, NEW S, 0 \in S, \A i \in 1 .. n : i - 1 \in S => i \in S
  PROVE  \A i \in 0 .. n : i \in S
<1> DEFINE N == 0 .. n
           B == {i \in N : i \notin S}
           R == StrictSubsetOrdering(N)
           T == {0 .. k : k \in B}
<1> SUFFICES ASSUME B # {} PROVE FALSE
  OBVIOUS
<1>1. IsFiniteSet(N)
  BY FS_Interval
<1>2. IsWellFoundedOn(R, FiniteSubsetsOf(N))
  BY FS_StrictSubsetOrderingWellFounded
<1>3. T \subseteq SUBSET N /\ T # {}
  OBVIOUS
<1>4. T \subseteq FiniteSubsetsOf(N)
  <2> HIDE DEF T, N
  <2> QED
    BY <1>1, <1>3, FS_Subset DEF FiniteSubsetsOf
<1>5. \E s \in T : \A t \in T : ~ (<<t, s>> \in R)
  <2> HIDE DEF R, T
  <2> QED
    BY <1>2, <1>3, <1>4, WFMin
<1>6. PICK k \in B : \A t \in T : ~ (<<t, 0 .. k>> \in R)
  BY <1>5
<1>7. k \in 1 .. n /\ k - 1 \in N
  OBVIOUS
<1>8. k - 1 \in B
  BY <1>7
<1>9. 0 .. k - 1 \in T
  BY <1>8
<1>10. k \in 0 .. k /\ k \notin 0 .. k - 1 /\ 0 .. k - 1 \subseteq 0 .. k /\ 0 .. k \subseteq N
  BY <1>7
<1>11. <<0 .. k - 1, 0 .. k>> \in R
  BY <1>10 DEF StrictSubsetOrdering
<1> QED
  BY <1>6, <1>9, <1>11

-------------------------------------------------------------------------------
(* THE LINES OF THE CUES                                                   *)

(* When one of two cues has a line only, they overlap in one line or none. *)
LEMMA OverlapOfOne ==
  ASSUME NEW S, NEW a \in Seq(S), NEW b \in Seq(S), a # <<>>, b # <<>>, Len(a) = 1 \/ Len(b) = 1
  PROVE  Overlap(a, b) = IF a[1] = b[Len(b)] THEN 1 ELSE 0
<1> DEFINE common == {k \in 1 .. Min({Len(a), Len(b)}) :
                        SubSeq(a, 1, k) = SubSeq(b, Len(b) - k + 1, Len(b))}
<1>1. Len(a) \in Nat \ {0} /\ Len(b) \in Nat \ {0}
  BY EmptySeq
<1>2. Min({Len(a), Len(b)}) = 1
  <2>1. 1 \in {Len(a), Len(b)} /\ \A y \in {Len(a), Len(b)} : 1 =< y /\ y \in Nat
    BY <1>1
  <2>2. ASSUME NEW x \in {Len(a), Len(b)}, \A y \in {Len(a), Len(b)} : x =< y PROVE x = 1
    <3>1. x =< 1 /\ x \in Nat \ {0}
      BY <1>1, <2>1, <2>2
    <3> QED
      BY <3>1
  <2> QED
    BY <2>1, <2>2 DEF Min
<1>3. SubSeq(a, 1, 1) = <<a[1]>> /\ SubSeq(b, Len(b), Len(b)) = <<b[Len(b)]>>
  <2>1. ASSUME NEW s \in Seq(S), NEW m \in 1 .. Len(s) PROVE SubSeq(s, m, m) = <<s[m]>>
    <3>1. SubSeq(s, m, m) = <<s[m]>> \o SubSeq(s, m + 1, m)
      BY SubSeqRecursiveFirst
    <3>2. SubSeq(s, m + 1, m) = <<>>
      BY SubSeqEmpty
    <3>3. <<s[m]>> \in Seq(S)
      OBVIOUS
    <3> QED
      BY <3>1, <3>2, <3>3, ConcatEmptySeq
  <2> QED
    BY <1>1, <2>1
<1>4. Len(b) - 1 + 1 = Len(b) /\ 1 .. 1 = {1}
  BY <1>1
<1>5. common = IF a[1] = b[Len(b)] THEN {1} ELSE {}
  <2>1. common = {k \in {1} : SubSeq(a, 1, k) = SubSeq(b, Len(b) - k + 1, Len(b))}
    BY <1>2, <1>4
  <2>2. SubSeq(a, 1, 1) = SubSeq(b, Len(b) - 1 + 1, Len(b)) <=> a[1] = b[Len(b)]
    BY <1>3, <1>4
  <2> QED
    BY <2>1, <2>2
<1>6. Overlap(a, b) = Max({0} \cup common)
  BY DEF Overlap
<1>7. Max({0} \cup {1}) = 1 /\ Max({0} \cup {}) = 0
  BY DEF Max
<1> QED
  BY <1>5, <1>6, <1>7

(* What EmittedLines counts through: there is such a function.             *)
CueSteps(f, k, cues) ==
  f = [c \in 0 .. k |->
         IF c = 0 THEN [out |-> <<>>, prev |-> <<>>] ELSE WithCue(f[c - 1], c, cues[c])]

LEMMA CueStepsExist ==
  ASSUME NEW cues, NEW n \in Nat
  PROVE  \E f : CueSteps(f, n, cues)
<1> DEFINE S == {k \in 0 .. n : \E f : CueSteps(f, k, cues)}
<1>1. 0 \in S
  <2> DEFINE f == [c \in 0 .. 0 |-> [out |-> <<>>, prev |-> <<>>]]
  <2>1. CueSteps(f, 0, cues)
    BY DEF CueSteps
  <2> QED
    BY <2>1
<1>2. ASSUME NEW k \in 1 .. n, k - 1 \in S PROVE k \in S
  <2>1. PICK f : CueSteps(f, k - 1, cues)
    BY <1>2
  <2> DEFINE last == WithCue(f[k - 1], k, cues[k])
             g == [c \in 0 .. k |-> IF c = k THEN last ELSE f[c]]
  <2>2. \A c \in 0 .. k : g[c] = IF c = 0 THEN [out |-> <<>>, prev |-> <<>>]
                                 ELSE WithCue(g[c - 1], c, cues[c])
    <3> TAKE c \in 0 .. k
    <3> DEFINE h == k - 1
    <3>1. CASE c = k
      <4>1. g[c] = last /\ g[c - 1] = f[k - 1] /\ c # 0
        BY <3>1
      <4> HIDE DEF g
      <4> QED
        BY <3>1, <4>1
    <3>2. CASE c # k
      <4>1. c \in 0 .. h /\ (c # 0 => c - 1 \in 0 .. h) /\ k \notin 0 .. h /\ 0 .. h \subseteq 0 .. k
        BY <3>2
      <4>2. f[c] = IF c = 0 THEN [out |-> <<>>, prev |-> <<>>]
                   ELSE WithCue(f[c - 1], c, cues[c])
        BY <2>1, <4>1 DEF CueSteps
      <4>3. g[c] = f[c] /\ (c # 0 => g[c - 1] = f[c - 1])
        BY <4>1
      <4> HIDE DEF g
      <4> QED
        BY <4>2, <4>3
    <3> QED
      BY <3>1, <3>2
  <2>3. g = [c \in 0 .. k |-> g[c]]
    OBVIOUS
  <2>4. CueSteps(g, k, cues)
    <3> HIDE DEF g
    <3> QED
      BY <2>2, <2>3 DEF CueSteps
  <2> QED
    BY <2>4
<1>3. n \in 0 .. n
  OBVIOUS
<1> HIDE DEF S
<1>4. n \in S
  BY <1>1, <1>2, <1>3, Induct
<1> QED
  BY <1>4 DEF S

LEMMA CueStepsAre ==
  ASSUME NEW cues, Len(cues) \in Nat
  PROVE  \E f : /\ EmittedLines(cues) = f[Len(cues)].out
                /\ f[0] = [out |-> <<>>, prev |-> <<>>]
                /\ \A c \in 1 .. Len(cues) : f[c] = WithCue(f[c - 1], c, cues[c])
<1> DEFINE after == CHOOSE f : CueSteps(f, Len(cues), cues)
<1>1. CueSteps(after, Len(cues), cues)
  <2>1. \E f : CueSteps(f, Len(cues), cues)
    BY CueStepsExist
  <2> QED
    BY <2>1
<1>2. EmittedLines(cues) = after[Len(cues)].out
  BY DEF EmittedLines, CueSteps
<1> HIDE DEF after
<1>3. after[0] = [out |-> <<>>, prev |-> <<>>]
  BY <1>1 DEF CueSteps
<1>4. \A c \in 1 .. Len(cues) : after[c] = WithCue(after[c - 1], c, cues[c])
  BY <1>1 DEF CueSteps
<1> QED
  BY <1>2, <1>3, <1>4

(* A cue whose lines, but the last one, the cue before ended with.         *)
Acc(out, prev) == [out |-> out, prev |-> prev]
Repeats(cleaned, prev) == prev # <<>> /\ Len(cleaned) = 1 /\ cleaned[1] = prev[Len(prev)]

LEMMA WithCueIs ==
  ASSUME NEW out \in Seq(Nat \X Line), NEW prev \in Seq(Line), NEW cleaned \in Seq(Line), NEW start \in Nat,
         cleaned # <<>>,
         Len(cleaned) = 1 \/ (Len(cleaned) = 2 /\ Len(prev) = 1 /\ cleaned[1] = prev[Len(prev)])
  PROVE  WithCue(Acc(out, prev), start, cleaned) =
           IF Repeats(cleaned, prev) THEN Acc(out, cleaned)
           ELSE Acc(Append(out, <<start, cleaned[Len(cleaned)]>>), cleaned)
<1> DEFINE acc == [out |-> out, prev |-> prev]
           over == Overlap(cleaned, prev)
           fresh == SubSeq(cleaned, over + 1, Len(cleaned))
           added == [i \in 1 .. Len(fresh) |-> <<start, fresh[i]>>]
           repeated == Repeats(cleaned, prev)
<1>1. WithCue(acc, start, cleaned) = [out |-> out \o added, prev |-> cleaned]
  BY DEF WithCue
<1>0. repeated <=> prev # <<>> /\ Len(cleaned) = 1 /\ cleaned[1] = prev[Len(prev)]
  BY DEF Repeats
<1> HIDE DEF repeated
<1>2. prev = <<>> => over = 0
  <2>1. ASSUME prev = <<>> PROVE {k \in 1 .. Min({Len(cleaned), Len(prev)}) :
                  SubSeq(cleaned, 1, k) = SubSeq(prev, Len(prev) - k + 1, Len(prev))} = {}
    <3>1. Len(prev) = 0 /\ Len(cleaned) = 1
      BY <2>1
    <3>2. Min({1, 0}) = 0
      BY DEF Min
    <3> QED
      BY <3>1, <3>2
  <2>2. Max({0} \cup {}) = 0
    BY DEF Max
  <2> QED
    BY <2>1, <2>2 DEF Overlap
<1>3. prev # <<>> => over = IF cleaned[1] = prev[Len(prev)] THEN 1 ELSE 0
  BY OverlapOfOne
<1>4. over = IF repeated \/ Len(cleaned) = 2 THEN 1 ELSE 0
  <2> HIDE DEF over
  <2>1. CASE prev = <<>>
    <3>1. Len(prev) = 0
      BY <2>1
    <3> QED
      BY <1>0, <1>2, <2>1, <3>1
  <2>2. CASE prev # <<>>
    <3>1. CASE Len(cleaned) = 2
      <4>1. cleaned[1] = prev[Len(prev)]
        BY <3>1
      <4> QED
        BY <1>3, <2>2, <3>1, <4>1
    <3>2. CASE Len(cleaned) = 1
      <4>1. CASE cleaned[1] = prev[Len(prev)]
        BY <1>0, <1>3, <2>2, <3>2, <4>1
      <4>2. CASE cleaned[1] # prev[Len(prev)]
        BY <1>0, <1>3, <2>2, <3>2, <4>2
      <4> QED
        BY <4>1, <4>2
    <3> QED
      BY <3>1, <3>2
  <2> QED
    BY <2>1, <2>2
<1> HIDE DEF over
<1>5. CASE repeated
  <2>1. fresh = <<>>
    <3>1. over + 1 = 2 /\ Len(cleaned) = 1
      BY <1>0, <1>4, <1>5
    <3>2. SubSeq(cleaned, 2, 1) = <<>>
      BY SubSeqEmpty
    <3> QED
      BY <3>1, <3>2
  <2>2. added = <<>>
    <3>1. Len(fresh) = 0 /\ added = [i \in 1 .. 0 |-> <<start, fresh[i]>>]
      BY <2>1
    <3> HIDE DEF fresh, added
    <3>2. added \in Seq(Nat) /\ Len(added) = 0
      BY <3>1
    <3> QED
      BY <3>2, EmptySeq
  <2> HIDE DEF added
  <2>3. out \o added = out
    BY <2>2, ConcatEmptySeq
  <2> QED
    BY <1>1, <1>5, <2>3 DEF repeated, Acc
<1>6. CASE ~ repeated
  <2>1. fresh = <<cleaned[Len(cleaned)]>>
    <3>1. over + 1 = Len(cleaned) /\ Len(cleaned) \in 1 .. Len(cleaned)
      BY <1>4, <1>6
    <3>2. SubSeq(cleaned, Len(cleaned), Len(cleaned))
            = <<cleaned[Len(cleaned)]>> \o SubSeq(cleaned, Len(cleaned) + 1, Len(cleaned))
      BY <3>1, SubSeqRecursiveFirst
    <3>3. SubSeq(cleaned, Len(cleaned) + 1, Len(cleaned)) = <<>>
      BY SubSeqEmpty
    <3>4. <<cleaned[Len(cleaned)]>> \in Seq(Line)
      OBVIOUS
    <3> QED
      BY <3>1, <3>2, <3>3, <3>4, ConcatEmptySeq
  <2>2. added = << <<start, cleaned[Len(cleaned)]>> >>
    <3> DEFINE e == <<start, cleaned[Len(cleaned)]>>
    <3> HIDE DEF fresh
    <3>1. Len(fresh) = 1 /\ fresh[1] = cleaned[Len(cleaned)]
      BY <2>1
    <3>2. added = [i \in 1 .. 1 |-> e]
      BY <3>1
    <3>3. e \in Nat \X Line
      OBVIOUS
    <3> HIDE DEF added, e
    <3>4. added \in Seq(Nat \X Line) /\ Len(added) = 1 /\ added[1] = e
      BY <3>2, <3>3
    <3>5. <<e>> \in Seq(Nat \X Line) /\ Len(<<e>>) = 1 /\ <<e>>[1] = e
      BY <3>3
    <3>6. added = <<e>>
      BY <3>4, <3>5, SeqEqual
    <3> QED
      BY <3>6 DEF e
  <2> HIDE DEF added
  <2>3. <<start, cleaned[Len(cleaned)]>> \in Nat \X Line
    OBVIOUS
  <2>4. out \o added = Append(out, <<start, cleaned[Len(cleaned)]>>)
    BY <2>2, <2>3, AppendIsConcat
  <2> QED
    BY <1>1, <1>6, <2>4 DEF repeated, Acc
<1> QED
  BY <1>5, <1>6

(* Of rolling captions every line is kept once, with the number of the cue *)
(* that shows it first.                                                    *)
LEMMA EmittedOfRolling ==
  ASSUME NEW lines \in Seq(Line)
  PROVE  EmittedLines(Rolling(lines)) = [i \in 1 .. Len(lines) |-> <<2 * i - 1, lines[i]>>]
<1> DEFINE cues == Rolling(lines)
           out(m) == [i \in 1 .. m |-> <<2 * i - 1, lines[i]>>]
           n == Len(lines)
<1>1. n \in Nat /\ \A i \in 1 .. n : lines[i] \in Line
  OBVIOUS
<1>2. Len(cues) = 2 * n /\ Len(cues) \in Nat
  BY <1>1 DEF Rolling
<1>3. \A i \in 1 .. n : /\ cues[2 * i] = <<lines[i]>>
                        /\ cues[2 * i - 1] = IF i > 1 THEN <<lines[i - 1], lines[i]>> ELSE <<lines[i]>>
  <2> TAKE i \in 1 .. n
  <2>1. 2 * i \in 1 .. 2 * n /\ (2 * i + 1) \div 2 = i /\ (2 * i) % 2 = 0
    BY <1>1
  <2>2. 2 * i - 1 \in 1 .. 2 * n /\ (2 * i - 1 + 1) \div 2 = i /\ (2 * i - 1) % 2 = 1
    BY <1>1
  <2> QED
    BY <2>1, <2>2 DEF Rolling
<1>4. PICK f : /\ EmittedLines(cues) = f[Len(cues)].out
               /\ f[0] = [out |-> <<>>, prev |-> <<>>]
               /\ \A c \in 1 .. Len(cues) : f[c] = WithCue(f[c - 1], c, cues[c])
  BY <1>2, CueStepsAre
<1> HIDE DEF cues, n
<1>5. \A m \in 0 .. n : out(m) \in Seq(Nat \X Line) /\ Len(out(m)) = m
  BY <1>1
<1> DEFINE Good(m) == f[2 * m] = [out |-> out(m), prev |-> IF m = 0 THEN <<>> ELSE cues[2 * m]]
           S == {m \in 0 .. n : Good(m)}
<1>6. 0 \in S
  <2>1. out(0) = <<>>
    BY <1>1, <1>5, EmptySeq
  <2> HIDE DEF out
  <2> QED
    BY <1>1, <1>4, <2>1
<1>7. ASSUME NEW m \in 1 .. n, m - 1 \in S PROVE m \in S
  <2> DEFINE prev == IF m = 1 THEN <<>> ELSE cues[2 * (m - 1)]
  <2>1. f[2 * (m - 1)] = [out |-> out(m - 1), prev |-> prev]
    BY <1>1, <1>7
  <2>2. /\ m - 1 \in 0 .. n /\ (m > 1 => m - 1 \in 1 .. n)
        /\ lines[m] \in Line /\ (m > 1 => lines[m - 1] \in Line)
    BY <1>1
  <2>3. prev \in Seq(Line) /\ (prev = <<>> <=> m = 1) /\ (m > 1 => prev = <<lines[m - 1]>>)
    <3>1. m > 1 => cues[2 * (m - 1)] = <<lines[m - 1]>>
      BY <1>3, <2>2
    <3>2. m = 1 \/ m > 1
      OBVIOUS
    <3>3. CASE m = 1
      BY <3>3
    <3>4. CASE m > 1
      <4>1. prev = <<lines[m - 1]>>
        BY <3>1, <3>4
      <4> HIDE DEF prev
      <4> QED
        BY <2>2, <3>4, <4>1
    <3> QED
      BY <3>2, <3>3, <3>4
  <2>4. out(m - 1) \in Seq(Nat \X Line) /\ Len(out(m - 1)) = m - 1
    BY <1>5, <2>2
  <2>5. Append(out(m - 1), <<2 * m - 1, lines[m]>>) = out(m)
    <3> DEFINE e == <<2 * m - 1, lines[m]>>
               a == Append(out(m - 1), e)
    <3>1. e \in Nat \X Line
      BY <2>2
    <3>2. a \in Seq(Nat \X Line) /\ Len(a) = m
          /\ \A i \in 1 .. m : a[i] = IF i = m THEN e ELSE out(m - 1)[i]
      <4> HIDE DEF out, e
      <4> QED
        BY <2>4, <3>1
    <3>3. \A i \in 1 .. m : a[i] = out(m)[i]
      <4>1. \A i \in 1 .. m : i # m => out(m - 1)[i] = <<2 * i - 1, lines[i]>>
        OBVIOUS
      <4>2. \A i \in 1 .. m : out(m)[i] = <<2 * i - 1, lines[i]>>
        OBVIOUS
      <4> HIDE DEF a, out
      <4> QED
        BY <3>2, <4>1, <4>2
    <3>4. out(m) \in Seq(Nat \X Line) /\ Len(out(m)) = m
      BY <1>1, <1>5
    <3> HIDE DEF out, a
    <3>5. a = out(m)
      BY <3>2, <3>3, <3>4, SeqEqual
    <3> QED
      BY <3>5 DEF a
  <2> DEFINE first == cues[2 * m - 1]
             second == cues[2 * m]
  <2>6. /\ second = <<lines[m]>> /\ first = IF m > 1 THEN <<lines[m - 1], lines[m]>> ELSE <<lines[m]>>
    BY <1>3
  <2>7. /\ first \in Seq(Line) /\ second \in Seq(Line) /\ first # <<>> /\ second # <<>>
        /\ Len(second) = 1 /\ Len(first) = IF m > 1 THEN 2 ELSE 1
        /\ first[Len(first)] = lines[m] /\ second[1] = lines[m] /\ (m > 1 => first[1] = lines[m - 1])
    BY <2>2, <2>6
  <2>8. m > 1 => Len(prev) = 1 /\ prev[Len(prev)] = lines[m - 1]
    <3> DEFINE l == lines[m - 1]
    <3> HIDE DEF prev, l
    <3>1. m > 1 => prev = <<l>>
      BY <2>3 DEF l
    <3>2. Len(<<l>>) = 1 /\ <<l>>[1] = l
      OBVIOUS
    <3> QED
      BY <3>1, <3>2 DEF l
  <2>9. /\ 2 * m - 1 \in 1 .. Len(cues) /\ 2 * m \in 1 .. Len(cues) /\ 2 * m - 1 - 1 = 2 * (m - 1)
        /\ 2 * m - 1 \in Nat /\ 2 * m \in Nat
    BY <1>1, <1>2
  <2> HIDE DEF out, prev, first, second
  <2>10. f[2 * m - 1] = [out |-> out(m), prev |-> first]
    <3>1. f[2 * m - 1] = WithCue(f[2 * (m - 1)], 2 * m - 1, first)
      BY <1>4, <2>9 DEF first
    <3>2. WithCue([out |-> out(m - 1), prev |-> prev], 2 * m - 1, first) =
           [out |-> Append(out(m - 1), <<2 * m - 1, first[Len(first)]>>), prev |-> first]
      <4> DEFINE o == out(m - 1)
                 c == 2 * m - 1
      <4>1. Len(first) = 1 \/ (Len(first) = 2 /\ Len(prev) = 1 /\ first[1] = prev[Len(prev)])
        BY <2>3, <2>7, <2>8
      <4>2. ~ Repeats(first, prev)
        BY <2>3, <2>7 DEF Repeats
      <4>3. o \in Seq(Nat \X Line) /\ c \in Nat /\ prev \in Seq(Line) /\ first \in Seq(Line)
            /\ first # <<>>
        BY <2>3, <2>4, <2>7, <2>9
      <4> HIDE DEF o, c
      <4>4. WithCue(Acc(o, prev), c, first) = Acc(Append(o, <<c, first[Len(first)]>>), first)
        BY <4>1, <4>2, <4>3, WithCueIs
      <4> QED
        BY <4>4 DEF o, c, Acc
    <3> QED
      BY <2>1, <2>5, <2>7, <3>1, <3>2
  <2>11. f[2 * m] = [out |-> out(m), prev |-> second]
    <3>1. f[2 * m] = WithCue(f[2 * m - 1], 2 * m, second)
      BY <1>4, <2>9 DEF second
    <3>2. out(m) \in Seq(Nat \X Line)
      BY <1>1, <1>5
    <3>3. WithCue([out |-> out(m), prev |-> first], 2 * m, second) =
           [out |-> out(m), prev |-> second]
      <4> DEFINE o == out(m)
                 c == 2 * m
      <4>1. o \in Seq(Nat \X Line) /\ c \in Nat /\ first \in Seq(Line) /\ second \in Seq(Line)
            /\ second # <<>> /\ first # <<>> /\ Len(second) = 1 /\ second[1] = first[Len(first)]
        BY <2>7, <2>9, <3>2
      <4> HIDE DEF o, c
      <4>3. Repeats(second, first)
        BY <4>1 DEF Repeats
      <4>2. WithCue(Acc(o, first), c, second) = Acc(o, second)
        BY <4>1, <4>3, WithCueIs
      <4> QED
        BY <4>2 DEF o, c, Acc
    <3> QED
      BY <2>7, <2>10, <3>1, <3>3
  <2> QED
    BY <1>1, <2>11 DEF second
<1>8. n \in S
  <2> HIDE DEF S
  <2>1. \A i \in 0 .. n : i \in S
    BY <1>1, <1>6, <1>7, Induct
  <2> QED
    BY <1>1, <2>1
<1>9. f[Len(cues)].out = out(n)
  <2> HIDE DEF out
  <2> QED
    BY <1>2, <1>8
<1> QED
  BY <1>4, <1>9 DEF cues, n

-------------------------------------------------------------------------------
(* What Unrepeated counts through. *)
KeptSteps(f, k, lines) ==
  f = [i \in 0 .. k |->
         IF i = 0 THEN <<>>
         ELSE IF i > 1 /\ lines[i] = lines[i - 1] THEN f[i - 1]
         ELSE Append(f[i - 1], lines[i])]

LEMMA KeptStepsExist ==
  ASSUME NEW lines, NEW n \in Nat
  PROVE  \E f : KeptSteps(f, n, lines)
<1> DEFINE S == {k \in 0 .. n : \E f : KeptSteps(f, k, lines)}
<1>1. 0 \in S
  <2> DEFINE f == [i \in 0 .. 0 |-> <<>>]
  <2>1. KeptSteps(f, 0, lines)
    BY DEF KeptSteps
  <2> QED
    BY <2>1
<1>2. ASSUME NEW k \in 1 .. n, k - 1 \in S PROVE k \in S
  <2>1. PICK f : KeptSteps(f, k - 1, lines)
    BY <1>2
  <2> DEFINE last == IF k > 1 /\ lines[k] = lines[k - 1] THEN f[k - 1] ELSE Append(f[k - 1], lines[k])
             g == [i \in 0 .. k |-> IF i = k THEN last ELSE f[i]]
             h == k - 1
  <2>2. \A i \in 0 .. k : g[i] = IF i = 0 THEN <<>>
                                 ELSE IF i > 1 /\ lines[i] = lines[i - 1] THEN g[i - 1]
                                 ELSE Append(g[i - 1], lines[i])
    <3> TAKE i \in 0 .. k
    <3>1. CASE i = k
      <4>1. g[i] = last /\ g[i - 1] = f[k - 1] /\ i # 0
        BY <3>1
      <4> HIDE DEF g
      <4> QED
        BY <3>1, <4>1
    <3>2. CASE i # k
      <4>1. i \in 0 .. h /\ (i # 0 => i - 1 \in 0 .. h) /\ k \notin 0 .. h /\ 0 .. h \subseteq 0 .. k
        BY <3>2
      <4>2. f[i] = IF i = 0 THEN <<>>
                   ELSE IF i > 1 /\ lines[i] = lines[i - 1] THEN f[i - 1]
                   ELSE Append(f[i - 1], lines[i])
        BY <2>1, <4>1 DEF KeptSteps
      <4>3. g[i] = f[i] /\ (i # 0 => g[i - 1] = f[i - 1])
        BY <4>1
      <4> HIDE DEF g
      <4> QED
        BY <4>2, <4>3
    <3> QED
      BY <3>1, <3>2
  <2>3. g = [i \in 0 .. k |-> g[i]]
    OBVIOUS
  <2>4. KeptSteps(g, k, lines)
    <3> HIDE DEF g
    <3> QED
      BY <2>2, <2>3 DEF KeptSteps
  <2> QED
    BY <2>4
<1>3. n \in 0 .. n
  OBVIOUS
<1> HIDE DEF S
<1>4. n \in S
  BY <1>1, <1>2, <1>3, Induct
<1> QED
  BY <1>4 DEF S

(* Of captions that show a line once a line is kept that does not repeat   *)
(* the one before it, with the number of its cue.                          *)
LEMMA EmittedOfPlain ==
  ASSUME NEW lines \in Seq(Line)
  PROVE  /\ EmittedLines(Plain(lines)) \in Seq(Nat \X Line)
         /\ \A k \in 1 .. Len(EmittedLines(Plain(lines))) :
              LET e == EmittedLines(Plain(lines))[k]
              IN e[1] \in 1 .. Len(lines) /\ e[2] = lines[e[1]]
         /\ Unrepeated(lines) = [k \in 1 .. Len(EmittedLines(Plain(lines))) |->
                                  EmittedLines(Plain(lines))[k][2]]
<1> DEFINE cues == Plain(lines)
           n == Len(lines)
           kept == CHOOSE f : KeptSteps(f, n, lines)
<1>1. n \in Nat /\ \A i \in 1 .. n : lines[i] \in Line
  OBVIOUS
<1>2. Len(cues) = n /\ \A c \in 1 .. n : cues[c] = <<lines[c]>>
  BY <1>1 DEF Plain
<1>3. KeptSteps(kept, n, lines)
  <2>1. \E f : KeptSteps(f, n, lines)
    BY <1>1, KeptStepsExist
  <2> QED
    BY <2>1
<1>4. Unrepeated(lines) = kept[n]
  BY DEF Unrepeated, KeptSteps
<1> HIDE DEF kept, cues
<1>5. kept[0] = <<>> /\ \A i \in 1 .. n : kept[i] = IF i > 1 /\ lines[i] = lines[i - 1] THEN kept[i - 1]
                                                    ELSE Append(kept[i - 1], lines[i])
  <2>1. 0 \in 0 .. n /\ \A i \in 1 .. n : i \in 0 .. n /\ i # 0
    BY <1>1
  <2>2. kept = [i \in 0 .. n |->
         IF i = 0 THEN <<>>
         ELSE IF i > 1 /\ lines[i] = lines[i - 1] THEN kept[i - 1]
         ELSE Append(kept[i - 1], lines[i])]
    BY <1>3 DEF KeptSteps
  <2> HIDE DEF n
  <2>3. kept[0] = <<>>
    BY <2>1, <2>2
  <2>4. ASSUME NEW i \in 1 .. n
        PROVE kept[i] = IF i > 1 /\ lines[i] = lines[i - 1] THEN kept[i - 1]
                        ELSE Append(kept[i - 1], lines[i])
    BY <2>1, <2>2
  <2> QED
    BY <2>3, <2>4
<1>6. PICK f : /\ EmittedLines(cues) = f[n].out
               /\ f[0] = [out |-> <<>>, prev |-> <<>>]
               /\ \A c \in 1 .. n : f[c] = WithCue(f[c - 1], c, cues[c])
  BY <1>1, <1>2, CueStepsAre
<1> HIDE DEF n
<1> DEFINE Words2(out) == [k \in 1 .. Len(out) |-> out[k][2]]
           Good(c, out) == /\ out \in Seq(Nat \X Line)
                           /\ \A k \in 1 .. Len(out) : out[k][1] \in 1 .. n /\ out[k][2] = lines[out[k][1]]
                           /\ kept[c] = Words2(out)
           S == {c \in 0 .. n : \E out : /\ f[c] = Acc(out, IF c = 0 THEN <<>> ELSE cues[c])
                                         /\ Good(c, out)}
<1>7. 0 \in S
  <2>1. Good(0, <<>>)
    <3>1. Len(<<>>) = 0 /\ <<>> \in Seq(Nat \X Line)
      OBVIOUS
    <3>2. Words2(<<>>) = <<>>
      <4> DEFINE w == Words2(<<>>)
      <4>1. w = [k \in 1 .. 0 |-> <<>>[k][2]]
        BY <3>1
      <4> HIDE DEF w
      <4>2. w \in Seq(Nat) /\ Len(w) = 0
        BY <4>1
      <4>3. w = <<>>
        BY <4>2, EmptySeq
      <4> QED
        BY <4>3 DEF w
    <3> QED
      BY <1>5, <3>1, <3>2
  <2>2. f[0] = Acc(<<>>, <<>>)
    BY <1>6 DEF Acc
  <2> HIDE DEF Good
  <2> QED
    BY <1>1, <2>1, <2>2
<1>8. ASSUME NEW c \in 1 .. n, c - 1 \in S PROVE c \in S
  <2> DEFINE prev == IF c - 1 = 0 THEN <<>> ELSE cues[c - 1]
  <2>1. PICK out : f[c - 1] = Acc(out, prev) /\ Good(c - 1, out)
    BY <1>8
  <2>2. /\ out \in Seq(Nat \X Line) /\ kept[c - 1] = Words2(out)
        /\ \A k \in 1 .. Len(out) : out[k][1] \in 1 .. n /\ out[k][2] = lines[out[k][1]]
    BY <2>1
  <2> DEFINE l == lines[c]
             cue == <<l>>
  <2>3. cue = cues[c] /\ l \in Line /\ c \in Nat
    BY <1>1, <1>2
  <2>4. cue \in Seq(Line) /\ cue # <<>> /\ Len(cue) = 1 /\ cue[1] = l
    BY <2>3
  <2>5. prev \in Seq(Line) /\ (prev = <<>> <=> c = 1) /\ (c > 1 => Len(prev) = 1 /\ prev[1] = lines[c - 1])
    <3>1. CASE c = 1
      BY <3>1
    <3>2. CASE c > 1
      <4> DEFINE m == lines[c - 1]
      <4>1. prev = <<m>> /\ m \in Line
        BY <1>1, <1>2, <3>2
      <4> HIDE DEF prev, m
      <4>2. <<m>> \in Seq(Line) /\ <<m>> # <<>> /\ Len(<<m>>) = 1 /\ <<m>>[1] = m
        BY <4>1
      <4> QED
        BY <3>2, <4>1, <4>2 DEF m
    <3> QED
      BY <3>1, <3>2
  <2> HIDE DEF prev, cue, l, Good
  <2>6. WithCue(Acc(out, prev), c, cue) =
          IF Repeats(cue, prev) THEN Acc(out, cue) ELSE Acc(Append(out, <<c, cue[Len(cue)]>>), cue)
    BY <2>2, <2>3, <2>4, <2>5, WithCueIs
  <2>7. Repeats(cue, prev) <=> c > 1 /\ lines[c] = lines[c - 1]
    <3>1. Repeats(cue, prev) <=> prev # <<>> /\ cue[1] = prev[Len(prev)]
      BY <2>4 DEF Repeats
    <3>2. CASE c = 1
      BY <2>5, <3>1, <3>2
    <3>3. CASE c > 1
      <4>0. c # 1 /\ c \in Int
        BY <1>1, <3>3
      <4>2. Len(prev) = 1 /\ prev[1] = lines[c - 1]
        BY <2>5, <3>3
      <4>1. prev # <<>> /\ prev[Len(prev)] = lines[c - 1] /\ cue[1] = lines[c]
        <5>1. prev # <<>>
          BY <2>5, <4>0
        <5>2. cue[1] = lines[c]
          BY <2>4 DEF l
        <5>3. prev[Len(prev)] = lines[c - 1]
          BY <4>2
        <5> QED
          BY <5>1, <5>2, <5>3
      <4> QED
        BY <3>1, <3>3, <4>1
    <3> QED
      BY <3>2, <3>3
  <2>8. f[c] = WithCue(Acc(out, prev), c, cue)
    BY <1>6, <2>1, <2>3
  <2>9. CASE Repeats(cue, prev)
    <3>1. f[c] = Acc(out, cue)
      BY <2>6, <2>8, <2>9
    <3>2. kept[c] = kept[c - 1]
      BY <1>5, <2>7, <2>9
    <3>3. Good(c, out)
      BY <2>2, <3>2 DEF Good
    <3> QED
      BY <2>3, <3>1, <3>3
  <2>10. CASE ~ Repeats(cue, prev)
    <3> DEFINE e == <<c, l>>
               new == Append(out, e)
    <3>1. f[c] = Acc(new, cue)
      BY <2>4, <2>6, <2>8, <2>10
    <3>2. kept[c] = Append(kept[c - 1], l)
      BY <1>5, <2>7, <2>10 DEF l
    <3>3. e \in Nat \X Line /\ e[1] = c /\ e[2] = l
      BY <2>3
    <3> HIDE DEF e
    <3>4. /\ new \in Seq(Nat \X Line) /\ Len(new) = Len(out) + 1 /\ Len(out) \in Nat
          /\ \A k \in 1 .. Len(new) : new[k] = IF k = Len(new) THEN e ELSE out[k]
      BY <2>2, <3>3
    <3> HIDE DEF new
    <3>5. \A k \in 1 .. Len(new) : k = Len(new) \/ k \in 1 .. Len(out)
      BY <3>4
    <3>6. \A k \in 1 .. Len(new) : new[k][1] \in 1 .. n /\ new[k][2] = lines[new[k][1]]
      BY <2>2, <3>3, <3>4, <3>5 DEF l
    <3>7. Append(Words2(out), l) = Words2(new)
      <4> DEFINE a == Append(Words2(out), l)
      <4>1. Words2(out) \in Seq(Line) /\ Len(Words2(out)) = Len(out)
            /\ \A k \in 1 .. Len(out) : Words2(out)[k] = out[k][2]
        BY <2>2, <3>4
      <4>2. Words2(new) \in Seq(Line) /\ Len(Words2(new)) = Len(new)
            /\ \A k \in 1 .. Len(new) : Words2(new)[k] = new[k][2]
        BY <3>4
      <4> HIDE DEF Words2
      <4>3. /\ a \in Seq(Line) /\ Len(a) = Len(new)
            /\ \A k \in 1 .. Len(new) : a[k] = IF k = Len(new) THEN l ELSE Words2(out)[k]
        BY <2>3, <3>4, <4>1
      <4>4. \A k \in 1 .. Len(new) : a[k] = Words2(new)[k]
        BY <3>3, <3>4, <3>5, <4>1, <4>2, <4>3
      <4> HIDE DEF a
      <4>5. a = Words2(new)
        BY <4>2, <4>3, <4>4, SeqEqual
      <4> QED
        BY <4>5 DEF a
    <3>8. Good(c, new)
      <4>1. kept[c] = Words2(new)
        BY <2>2, <3>2, <3>7
      <4> QED
        BY <3>4, <3>6, <4>1 DEF Good
    <3> QED
      BY <2>3, <3>1, <3>8
  <2> QED
    BY <2>9, <2>10
<1>9. n \in S
  <2> HIDE DEF S
  <2>1. \A i \in 0 .. n : i \in S
    BY <1>1, <1>7, <1>8, Induct
  <2> QED
    BY <1>1, <2>1
<1>10. PICK out : f[n] = Acc(out, IF n = 0 THEN <<>> ELSE cues[n]) /\ Good(n, out)
  <2> HIDE DEF Good
  <2> QED
    BY <1>9
<1>11. EmittedLines(cues) = out
  BY <1>6, <1>10 DEF Acc
<1> QED
  BY <1>4, <1>10, <1>11 DEF cues, n

-------------------------------------------------------------------------------
(* PIECES OF A TRANSCRIPT                                                  *)
(* A paragraph, and a passage, is a piece of the lines: those behind a     *)
(* place up to another, with the time of the first of them.                *)
Timed == Seq(Nat \X Line)
Chunk == [start : Nat, lines : Seq(Line)]
Slice(e, a, b) == [k \in 1 .. b - a |-> e[a + k][2]]
Piece(e, a, b) == [start |-> e[a + 1][1], lines |-> Slice(e, a, b)]

(* The pieces cut the first n lines: none is lost, none is there twice.    *)
CutAt(chunks, e, n, f) ==
  /\ f \in [0 .. Len(chunks) -> 0 .. n] /\ f[0] = 0 /\ f[Len(chunks)] = n
  /\ \A i \in 1 .. Len(chunks) : f[i - 1] < f[i] /\ chunks[i] = Piece(e, f[i - 1], f[i])
Cuts(chunks, e, n) == chunks \in Seq(Chunk) /\ \E f : CutAt(chunks, e, n, f)

LEMMA SliceIs ==
  ASSUME NEW e \in Timed, NEW a \in Nat, NEW b \in Nat, a < b, b <= Len(e)
  PROVE  /\ Slice(e, a, b) \in Seq(Line) /\ Len(Slice(e, a, b)) = b - a
         /\ Slice(e, a, b) # <<>> /\ Slice(e, a, b)[1] = e[a + 1][2]
         /\ \A k \in 1 .. b - a : Slice(e, a, b)[k] = e[a + k][2]
         /\ Piece(e, a, b) \in Chunk
<1>1. Len(e) \in Nat /\ \A k \in 1 .. Len(e) : e[k] \in Nat \X Line
  BY DEF Timed
<1>2. \A k \in 1 .. b - a : a + k \in 1 .. Len(e) /\ e[a + k][2] \in Line
  BY <1>1
<1>3. b - a \in Nat /\ 1 \in 1 .. b - a
  OBVIOUS
<1>4. /\ Slice(e, a, b) \in Seq(Line) /\ Len(Slice(e, a, b)) = b - a
      /\ \A k \in 1 .. b - a : Slice(e, a, b)[k] = e[a + k][2]
  BY <1>2, <1>3 DEF Slice
<1>5. Slice(e, a, b) # <<>>
  BY <1>3, <1>4
<1>6. e[a + 1][1] \in Nat
  <2>1. a + 1 \in 1 .. Len(e)
    BY <1>1
  <2> QED
    BY <1>1, <2>1
<1> QED
  BY <1>3, <1>4, <1>5, <1>6 DEF Piece, Chunk

LEMMA SlicesJoin ==
  ASSUME NEW e \in Timed, NEW a \in Nat, NEW b \in Nat, NEW c \in Nat,
         a < b, b < c, c <= Len(e)
  PROVE  /\ Slice(e, a, b) \o Slice(e, b, c) = Slice(e, a, c)
         /\ c = b + 1 => Append(Slice(e, a, b), e[c][2]) = Slice(e, a, c)
<1> DEFINE x == Slice(e, a, b)
           y == Slice(e, b, c)
           z == Slice(e, a, c)
<1>0. Len(e) \in Nat /\ b <= Len(e) /\ a < c
  <2>1. Len(e) \in Nat
    BY DEF Timed
  <2> QED
    BY <2>1
<1>1. x \in Seq(Line) /\ Len(x) = b - a /\ \A k \in 1 .. b - a : x[k] = e[a + k][2]
  BY <1>0, SliceIs
<1>2. y \in Seq(Line) /\ Len(y) = c - b /\ y[1] = e[b + 1][2] /\ \A k \in 1 .. c - b : y[k] = e[b + k][2]
  BY <1>0, SliceIs
<1>3. z \in Seq(Line) /\ Len(z) = c - a /\ \A k \in 1 .. c - a : z[k] = e[a + k][2]
  BY <1>0, SliceIs
<1> HIDE DEF x, y, z
<1>4. x \o y = z
  <2>1. x \o y \in Seq(Line) /\ Len(x \o y) = c - a
        /\ \A k \in 1 .. c - a : (x \o y)[k] = IF k <= b - a THEN x[k] ELSE y[k - (b - a)]
    <3>1. Len(x) + Len(y) = c - a
      BY <1>1, <1>2
    <3>2. /\ x \o y \in Seq(Line) /\ Len(x \o y) = Len(x) + Len(y)
          /\ \A k \in 1 .. Len(x) + Len(y) :
               (x \o y)[k] = IF k <= Len(x) THEN x[k] ELSE y[k - Len(x)]
      BY <1>1, <1>2, ConcatProperties
    <3>3. Len(x) = b - a
      BY <1>1
    <3> QED
      BY <3>1, <3>2, <3>3
  <2>2. \A k \in 1 .. c - a : (x \o y)[k] = z[k]
    <3> TAKE k \in 1 .. c - a
    <3>1. CASE k <= b - a
      <4>1. k \in 1 .. b - a
        BY <3>1
      <4> QED
        BY <1>1, <1>3, <2>1, <3>1, <4>1
    <3>2. CASE ~ (k <= b - a)
      <4>1. k - (b - a) \in 1 .. c - b /\ b + (k - (b - a)) = a + k
        BY <3>2
      <4>2. y[k - (b - a)] = e[a + k][2]
        BY <1>2, <4>1
      <4> QED
        BY <1>3, <2>1, <3>2, <4>2
    <3> QED
      BY <3>1, <3>2
  <2> QED
    BY <1>3, <2>1, <2>2, SeqEqual
<1>5. c = b + 1 => Append(x, e[c][2]) = z
  <2> SUFFICES ASSUME c = b + 1 PROVE Append(x, e[c][2]) = z
    OBVIOUS
  <2> DEFINE l == e[c][2]
  <2>1. y[1] = l /\ Len(y) = 1
    BY <1>2
  <2> HIDE DEF l
  <2>2. l \in Line /\ y = <<l>>
    <3>1. l \in Line
      BY <1>2, <2>1
    <3>2. <<l>> \in Seq(Line) /\ Len(<<l>>) = 1 /\ <<l>>[1] = l
      BY <3>1
    <3> QED
      BY <1>2, <2>1, <3>1, <3>2, SeqEqual
  <2>3. Append(x, l) = x \o <<l>>
    BY <1>1, <2>2, AppendIsConcat
  <2> QED
    BY <1>4, <2>2, <2>3 DEF l
<1> QED
  BY <1>4, <1>5 DEF x, y, z

LEMMA CutsNothing ==
  ASSUME NEW e
  PROVE  Cuts(<<>>, e, 0)
<1> DEFINE f == [i \in 0 .. 0 |-> 0]
<1>1. Len(<<>>) = 0 /\ <<>> \in Seq(Chunk) /\ 1 .. 0 = {}
  OBVIOUS
<1>2. CutAt(<<>>, e, 0, f)
  BY <1>1 DEF CutAt
<1> QED
  BY <1>1, <1>2 DEF Cuts

LEMMA CutsMore ==
  ASSUME NEW e \in Timed, NEW chunks, NEW a \in Nat, NEW b \in Nat, Cuts(chunks, e, a),
         a < b, b <= Len(e)
  PROVE  Cuts(Append(chunks, Piece(e, a, b)), e, b)
<1> DEFINE p == Piece(e, a, b)
           new == Append(chunks, p)
           n == Len(chunks)
<1>1. PICK f : CutAt(chunks, e, a, f)
  BY DEF Cuts
<1>2. chunks \in Seq(Chunk) /\ n \in Nat
  BY DEF Cuts
<1>3. p \in Chunk
  BY SliceIs
<1> DEFINE g == [i \in 0 .. n + 1 |-> IF i = n + 1 THEN b ELSE f[i]]
<1>4. f \in [0 .. n -> 0 .. a] /\ f[0] = 0 /\ f[n] = a
      /\ \A i \in 1 .. n : f[i - 1] < f[i] /\ chunks[i] = Piece(e, f[i - 1], f[i])
  BY <1>1 DEF CutAt
<1> HIDE DEF p, n
<1>5. new \in Seq(Chunk) /\ Len(new) = n + 1 /\ new[n + 1] = p /\ \A i \in 1 .. n : new[i] = chunks[i]
  BY <1>2, <1>3 DEF n
<1>6. g \in [0 .. n + 1 -> 0 .. b] /\ g[0] = 0 /\ g[n + 1] = b /\ g[n] = a
      /\ \A i \in 0 .. n : g[i] = f[i]
  <2>1. \A i \in 0 .. n : f[i] \in 0 .. b
    BY <1>4
  <2>2. \A i \in 0 .. n + 1 : i = n + 1 \/ (i \in 0 .. n /\ i # n + 1)
    BY <1>2
  <2>3. b \in 0 .. b /\ 0 # n + 1 /\ n # n + 1 /\ 0 \in 0 .. n /\ n \in 0 .. n /\ 0 .. n \subseteq 0 .. n + 1
        /\ n + 1 \in 0 .. n + 1 /\ n + 1 \notin 0 .. n
    BY <1>2
  <2> QED
    BY <1>4, <2>1, <2>2, <2>3
<1> HIDE DEF g, new
<1>7. ASSUME NEW i \in 1 .. n + 1 PROVE g[i - 1] < g[i] /\ new[i] = Piece(e, g[i - 1], g[i])
  <2>1. CASE i = n + 1
    <3>1. i - 1 = n
      BY <1>2, <2>1
    <3> QED
      BY <1>5, <1>6, <2>1, <3>1 DEF p
  <2>2. CASE i # n + 1
    <3>1. i \in 1 .. n /\ i \in 0 .. n /\ i - 1 \in 0 .. n
      BY <1>2, <2>2
    <3> QED
      BY <1>4, <1>5, <1>6, <3>1
  <2> QED
    BY <2>1, <2>2
<1>8. CutAt(new, e, b, g)
  BY <1>5, <1>6, <1>7 DEF CutAt
<1> QED
  BY <1>5, <1>8 DEF Cuts, new, p

(* The last of the pieces, and those before it.                            *)
LEMMA CutsLess ==
  ASSUME NEW e \in Timed, NEW chunks, NEW b \in Nat, Cuts(chunks, e, b), b <= Len(e), chunks # <<>>
  PROVE  \E a \in Nat : /\ a < b /\ chunks[Len(chunks)] = Piece(e, a, b)
                        /\ Cuts(SubSeq(chunks, 1, Len(chunks) - 1), e, a)
<1> DEFINE n == Len(chunks) - 1
           front == SubSeq(chunks, 1, n)
<1>1. PICK f : CutAt(chunks, e, b, f)
  BY DEF Cuts
<1>2. chunks \in Seq(Chunk) /\ n \in Nat /\ Len(chunks) = n + 1
  BY EmptySeq DEF Cuts
<1>3. f \in [0 .. n + 1 -> 0 .. b] /\ f[0] = 0 /\ f[n + 1] = b
      /\ \A i \in 1 .. n + 1 : f[i - 1] < f[i] /\ chunks[i] = Piece(e, f[i - 1], f[i])
  BY <1>1, <1>2 DEF CutAt
<1> HIDE DEF n
<1> DEFINE a == f[n]
           g == [i \in 0 .. n |-> f[i]]
<1>4. front \in Seq(Chunk) /\ Len(front) = n /\ \A i \in 1 .. n : front[i] = chunks[i]
  BY <1>2
<1>5. n + 1 \in 1 .. n + 1 /\ n + 1 - 1 = n /\ n \in 0 .. n + 1 /\ n \in 0 .. n /\ 0 \in 0 .. n
  BY <1>2
<1>6. a \in Nat /\ a < b /\ chunks[n + 1] = Piece(e, a, b)
  BY <1>3, <1>5
<1>7. \A i \in 0 .. n : f[i] \in Nat /\ f[i] <= a
  <2> DEFINE S == {i \in 0 .. n : f[n - i] \in Nat /\ f[n - i] <= a}
  <2>1. 0 \in S
    BY <1>2, <1>5, <1>6
  <2>2. ASSUME NEW i \in 1 .. n, i - 1 \in S PROVE i \in S
    <3>1. f[n - (i - 1)] \in Nat /\ f[n - (i - 1)] <= a
      BY <2>2
    <3>2. n - (i - 1) \in 1 .. n + 1 /\ n - (i - 1) - 1 = n - i /\ n - i \in 0 .. n + 1 /\ i \in 0 .. n
      BY <1>2
    <3>3. f[n - i] \in Nat /\ f[n - i] < f[n - (i - 1)]
      BY <1>3, <3>2
    <3> QED
      BY <1>6, <3>1, <3>2, <3>3
  <2> HIDE DEF S
  <2>3. \A i \in 0 .. n : i \in S
    BY <1>2, <2>1, <2>2, Induct
  <2>4. ASSUME NEW i \in 0 .. n PROVE f[i] \in Nat /\ f[i] <= a
    <3>1. n - i \in 0 .. n /\ n - (n - i) = i
      BY <1>2
    <3> QED
      BY <2>3, <3>1 DEF S
  <2> QED
    BY <2>4
<1>8. CutAt(front, e, a, g)
  <2> HIDE DEF a, front
  <2>1. g \in [0 .. n -> 0 .. a]
    BY <1>6, <1>7
  <2>2. g[0] = 0 /\ g[n] = a
    BY <1>3, <1>5 DEF a
  <2>3. ASSUME NEW i \in 1 .. n PROVE g[i - 1] < g[i] /\ front[i] = Piece(e, g[i - 1], g[i])
    <3>1. i \in 0 .. n /\ i - 1 \in 0 .. n /\ i \in 1 .. n + 1
      BY <1>2
    <3> QED
      BY <1>3, <1>4, <3>1
  <2> HIDE DEF g
  <2> QED
    BY <1>4, <2>1, <2>2, <2>3 DEF CutAt
<1>9. Cuts(front, e, a)
  <2> HIDE DEF g
  <2> QED
    BY <1>4, <1>8 DEF Cuts
<1> HIDE DEF a, g
<1> QED
  BY <1>2, <1>6, <1>9 DEF n

LEMMA CutsArePieces ==
  ASSUME NEW e \in Timed, NEW chunks, NEW n \in Nat, Cuts(chunks, e, n), NEW i \in 1 .. Len(chunks)
  PROVE  \E a, b \in 0 .. n : a < b /\ chunks[i] = Piece(e, a, b)
<1>1. PICK f : CutAt(chunks, e, n, f)
  BY DEF Cuts
<1>2. i \in 0 .. Len(chunks) /\ i - 1 \in 0 .. Len(chunks)
  BY DEF Cuts
<1>3. f[i] \in 0 .. n /\ f[i - 1] \in 0 .. n /\ f[i - 1] < f[i] /\ chunks[i] = Piece(e, f[i - 1], f[i])
  BY <1>1, <1>2 DEF CutAt
<1> QED
  BY <1>3

-------------------------------------------------------------------------------
(* What Paragraphs and Merged count through.                               *)
LineSteps(f, k, e) ==
  f = [i \in 0 .. k |-> IF i = 0 THEN <<>> ELSE WithLine(f[i - 1], e[i])]

LEMMA LineStepsExist ==
  ASSUME NEW e, NEW n \in Nat
  PROVE  \E f : LineSteps(f, n, e)
<1> DEFINE S == {k \in 0 .. n : \E f : LineSteps(f, k, e)}
<1>1. 0 \in S
  <2> DEFINE f == [i \in 0 .. 0 |-> <<>>]
  <2>1. LineSteps(f, 0, e)
    BY DEF LineSteps
  <2> QED
    BY <2>1
<1>2. ASSUME NEW k \in 1 .. n, k - 1 \in S PROVE k \in S
  <2>1. PICK f : LineSteps(f, k - 1, e)
    BY <1>2
  <2> DEFINE last == WithLine(f[k - 1], e[k])
             g == [i \in 0 .. k |-> IF i = k THEN last ELSE f[i]]
             h == k - 1
  <2>2. \A i \in 0 .. k :
          g[i] = IF i = 0 THEN <<>> ELSE WithLine(g[i - 1], e[i])
    <3> TAKE i \in 0 .. k
    <3>1. CASE i = k
      <4>1. g[i] = last /\ g[i - 1] = f[k - 1] /\ i # 0
        BY <3>1
      <4> HIDE DEF g
      <4> QED
        BY <3>1, <4>1
    <3>2. CASE i # k
      <4>1. i \in 0 .. h /\ (i # 0 => i - 1 \in 0 .. h) /\ k \notin 0 .. h /\ 0 .. h \subseteq 0 .. k
        BY <3>2
      <4>2. f[i] = IF i = 0 THEN <<>> ELSE WithLine(f[i - 1], e[i])
        BY <2>1, <4>1 DEF LineSteps
      <4>3. g[i] = f[i] /\ (i # 0 => g[i - 1] = f[i - 1])
        BY <4>1
      <4> HIDE DEF g
      <4> QED
        BY <4>2, <4>3
    <3> QED
      BY <3>1, <3>2
  <2>3. g = [i \in 0 .. k |-> g[i]]
    OBVIOUS
  <2>4. LineSteps(g, k, e)
    <3> HIDE DEF g
    <3> QED
      BY <2>2, <2>3 DEF LineSteps
  <2> QED
    BY <2>4
<1>3. n \in 0 .. n
  OBVIOUS
<1> HIDE DEF S
<1>4. n \in S
  BY <1>1, <1>2, <1>3, Induct
<1> QED
  BY <1>4 DEF S

Empty == [out |-> <<>>, open |-> <<>>, size |-> 0]

ParagraphSteps(f, k, paras) ==
  f = [i \in 0 .. k |-> IF i = 0 THEN Empty ELSE WithParagraph(f[i - 1], paras[i])]

LEMMA ParagraphStepsExist ==
  ASSUME NEW paras, NEW n \in Nat
  PROVE  \E f : ParagraphSteps(f, n, paras)
<1> DEFINE S == {k \in 0 .. n : \E f : ParagraphSteps(f, k, paras)}
<1>1. 0 \in S
  <2> DEFINE f == [i \in 0 .. 0 |-> Empty]
  <2>1. ParagraphSteps(f, 0, paras)
    BY DEF ParagraphSteps
  <2> QED
    BY <2>1
<1>2. ASSUME NEW k \in 1 .. n, k - 1 \in S PROVE k \in S
  <2>1. PICK f : ParagraphSteps(f, k - 1, paras)
    BY <1>2
  <2> DEFINE last == WithParagraph(f[k - 1], paras[k])
             g == [i \in 0 .. k |-> IF i = k THEN last ELSE f[i]]
             h == k - 1
  <2>2. \A i \in 0 .. k :
          g[i] = IF i = 0 THEN Empty ELSE WithParagraph(g[i - 1], paras[i])
    <3> TAKE i \in 0 .. k
    <3>1. CASE i = k
      <4>1. g[i] = last /\ g[i - 1] = f[k - 1] /\ i # 0
        BY <3>1
      <4> HIDE DEF g
      <4> QED
        BY <3>1, <4>1
    <3>2. CASE i # k
      <4>1. i \in 0 .. h /\ (i # 0 => i - 1 \in 0 .. h) /\ k \notin 0 .. h /\ 0 .. h \subseteq 0 .. k
        BY <3>2
      <4>2. f[i] = IF i = 0 THEN Empty ELSE WithParagraph(f[i - 1], paras[i])
        BY <2>1, <4>1 DEF ParagraphSteps
      <4>3. g[i] = f[i] /\ (i # 0 => g[i - 1] = f[i - 1])
        BY <4>1
      <4> HIDE DEF g
      <4> QED
        BY <4>2, <4>3
    <3> QED
      BY <3>1, <3>2
  <2>3. g = [i \in 0 .. k |-> g[i]]
    OBVIOUS
  <2>4. ParagraphSteps(g, k, paras)
    <3> HIDE DEF g
    <3> QED
      BY <2>2, <2>3 DEF ParagraphSteps
  <2> QED
    BY <2>4
<1>3. n \in 0 .. n
  OBVIOUS
<1> HIDE DEF S
<1>4. n \in S
  BY <1>1, <1>2, <1>3, Induct
<1> QED
  BY <1>4 DEF S

(* The paragraphs cut the lines.                                           *)
LEMMA ParagraphsCut ==
  ASSUME NEW e \in Timed
  PROVE  Cuts(Paragraphs(e), e, Len(e))
<1> DEFINE after == CHOOSE f : LineSteps(f, Len(e), e)
           n == Len(e)
<1>1. n \in Nat /\ \A i \in 1 .. n : e[i] \in Nat \X Line
  BY DEF Timed
<1>2. LineSteps(after, n, e)
  <2>1. \E f : LineSteps(f, n, e)
    BY <1>1, LineStepsExist
  <2> QED
    BY <2>1
<1>3. Paragraphs(e) = after[n]
  BY DEF Paragraphs, LineSteps
<1> HIDE DEF after
<1>4. after[0] = <<>> /\ \A i \in 1 .. n : after[i] = WithLine(after[i - 1], e[i])
  BY <1>1, <1>2 DEF LineSteps
<1> HIDE DEF n
<1> DEFINE S == {i \in 0 .. n : Cuts(after[i], e, i)}
<1>5. 0 \in S
  BY <1>1, <1>4, CutsNothing
<1>6. ASSUME NEW i \in 1 .. n, i - 1 \in S PROVE i \in S
  <2>0. SUFFICES Cuts(after[i], e, i)
    <3>1. i \in 0 .. n
      BY <1>1
    <3> QED
      BY <3>1
  <2> DEFINE paras == after[i - 1]
             l == e[i][2]
             one == [start |-> e[i][1], lines |-> <<l>>]
  <2>1. Cuts(paras, e, i - 1) /\ i - 1 \in Nat /\ i \in Nat /\ i - 1 < i /\ i <= Len(e) /\ i - 1 <= Len(e)
    BY <1>1, <1>6 DEF n
  <2>2. l \in Line /\ e[i][1] \in Nat
    BY <1>1
  <2>3. one = Piece(e, i - 1, i)
    <3>1. /\ Slice(e, i - 1, i) \in Seq(Line) /\ Len(Slice(e, i - 1, i)) = 1
          /\ Slice(e, i - 1, i)[1] = l
      <4>1. i - (i - 1) = 1 /\ i - 1 + 1 = i
        BY <2>1
      <4> QED
        BY <2>1, <4>1, SliceIs
    <3> HIDE DEF l
    <3>2. <<l>> \in Seq(Line) /\ Len(<<l>>) = 1 /\ <<l>>[1] = l
      BY <2>2
    <3>3. Slice(e, i - 1, i) = <<l>>
      BY <3>1, <3>2, SeqEqual
    <3>4. i - 1 + 1 = i
      BY <2>1
    <3> QED
      BY <3>3, <3>4 DEF Piece
  <2>4. after[i] = WithLine(paras, e[i])
    BY <1>4
  <2>5. CASE after[i] = Append(paras, one)
    <3>1. Cuts(Append(paras, Piece(e, i - 1, i)), e, i)
      BY <2>1, CutsMore
    <3> QED
      BY <2>3, <2>5, <3>1
  <2>6. CASE paras # <<>> /\ after[i] = [paras EXCEPT ![Len(paras)].lines = Append(@, l)]
    <3> DEFINE m == Len(paras)
               front == SubSeq(paras, 1, m - 1)
    <3>1. PICK a \in Nat : a < i - 1 /\ paras[m] = Piece(e, a, i - 1) /\ Cuts(front, e, a)
      BY <2>1, <2>6, CutsLess
    <3>2. paras \in Seq(Chunk) /\ m \in Nat \ {0}
      BY <2>1, <2>6, EmptySeq DEF Cuts
    <3> DEFINE old == Slice(e, a, i - 1)
               longer == Append(old, l)
    <3>3. longer = Slice(e, a, i)
      <4>1. i = i - 1 + 1
        BY <2>1
      <4> QED
        BY <2>1, <3>1, <4>1, SlicesJoin
    <3>4. Piece(e, a, i) \in Chunk
      BY <2>1, <3>1, SliceIs
    <3> HIDE DEF longer
    <3>5. after[i] = [paras EXCEPT ![m] = Piece(e, a, i)]
      <4>1. after[i] = [paras EXCEPT ![m] = [paras[m] EXCEPT !.lines = Append(paras[m].lines, l)]]
        BY <2>6
      <4>2. paras[m].lines = old /\ paras[m] = [start |-> e[a + 1][1], lines |-> old]
        BY <3>1 DEF Piece
      <4> HIDE DEF old
      <4>3. [paras[m] EXCEPT !.lines = longer] = [start |-> e[a + 1][1], lines |-> longer]
        BY <4>2
      <4> QED
        BY <3>3, <4>1, <4>2, <4>3 DEF Piece, longer
    <3> DEFINE p == Piece(e, a, i)
    <3> HIDE DEF m, p
    <3>6. after[i] = Append(SubSeq(paras, 1, m - 1), p)
      <4>1. /\ [paras EXCEPT ![m] = p] \in Seq(Chunk) /\ Len([paras EXCEPT ![m] = p]) = m
            /\ \A j \in 1 .. m : [paras EXCEPT ![m] = p][j] = IF j = m THEN p ELSE paras[j]
        BY <3>2, <3>4 DEF m, p
      <4>2. /\ SubSeq(paras, 1, m - 1) \in Seq(Chunk) /\ Len(SubSeq(paras, 1, m - 1)) = m - 1
            /\ \A j \in 1 .. m - 1 : SubSeq(paras, 1, m - 1)[j] = paras[j]
        BY <3>2 DEF m
      <4> DEFINE w == SubSeq(paras, 1, m - 1)
      <4> HIDE DEF w
      <4>3. /\ Append(w, p) \in Seq(Chunk) /\ Len(Append(w, p)) = m
            /\ \A j \in 1 .. m : Append(w, p)[j] = IF j = m THEN p ELSE w[j]
        BY <3>2, <3>4, <4>2 DEF w, p
      <4>4. \A j \in 1 .. m : j # m => j \in 1 .. m - 1
        BY <3>2
      <4>5. \A j \in 1 .. m : Append(w, p)[j] = [paras EXCEPT ![m] = p][j]
        BY <4>1, <4>2, <4>3, <4>4 DEF w
      <4>6. Append(w, p) = [paras EXCEPT ![m] = p]
        BY <4>1, <4>3, <4>5, SeqEqual
      <4> QED
        BY <3>5, <4>6 DEF w, p
    <3>7. Cuts(Append(front, Piece(e, a, i)), e, i)
      <4>1. a < i
        BY <2>1, <3>1
      <4> HIDE DEF front
      <4> QED
        BY <2>1, <3>1, <4>1, CutsMore
    <3> QED
      BY <3>6, <3>7 DEF p
  <2> QED
    BY <2>4, <2>5, <2>6 DEF WithLine
<1>7. n \in S
  <2> HIDE DEF S
  <2>1. \A i \in 0 .. n : i \in S
    BY <1>1, <1>5, <1>6, Induct
  <2> QED
    BY <1>1, <2>1
<1> QED
  BY <1>3, <1>7 DEF n

(* And so do the passages: a passage is one or more paragraphs.            *)
LEMMA MergedCut ==
  ASSUME NEW e \in Timed, NEW paras, NEW n \in Nat, n <= Len(e), Cuts(paras, e, n)
  PROVE  Cuts(Merged(paras), e, n)
<1> DEFINE m == Len(paras)
           after == CHOOSE f : ParagraphSteps(f, m, paras)
<1>1. m \in Nat /\ Len(e) \in Nat
  BY DEF Cuts, Timed
<1>2. ParagraphSteps(after, m, paras)
  <2>1. \E f : ParagraphSteps(f, m, paras)
    BY <1>1, ParagraphStepsExist
  <2> QED
    BY <2>1
<1>3. Merged(paras) = after[m].out \o after[m].open
  BY DEF Merged, ParagraphSteps, Empty
<1> HIDE DEF after
<1>4. after[0] = Empty /\ \A i \in 1 .. m : after[i] = WithParagraph(after[i - 1], paras[i])
  BY <1>1, <1>2 DEF ParagraphSteps
<1>5. PICK cut : CutAt(paras, e, n, cut)
  BY DEF Cuts
<1>6. /\ cut \in [0 .. m -> 0 .. n] /\ cut[0] = 0 /\ cut[m] = n
      /\ \A i \in 1 .. m : cut[i - 1] < cut[i] /\ paras[i] = Piece(e, cut[i - 1], cut[i])
  BY <1>5 DEF CutAt
<1> HIDE DEF m
<1> DEFINE Good(acc, c) == \E a \in Nat :
             /\ Cuts(acc.out, e, a)
             /\ (acc.open = <<>> /\ a = c) \/ (a < c /\ acc.open = <<Piece(e, a, c)>>)
           S == {i \in 0 .. m : Good(after[i], cut[i])}
<1>7. 0 \in S
  <2>1. Empty.out = <<>> /\ Empty.open = <<>>
    BY DEF Empty
  <2>2. Good(Empty, 0)
    BY <2>1, CutsNothing
  <2> HIDE DEF Good
  <2> QED
    BY <1>1, <1>4, <1>6, <2>2
<1>8. ASSUME NEW i \in 1 .. m, i - 1 \in S PROVE i \in S
  <2>0. SUFFICES Good(after[i], cut[i])
    <3>1. i \in 0 .. m
      BY <1>1
    <3> HIDE DEF Good
    <3> QED
      BY <3>1
  <2> DEFINE acc == after[i - 1]
             b == cut[i - 1]
             c == cut[i]
             p == paras[i]
             grown == IF acc.open = <<>> THEN <<[start |-> p.start, lines |-> p.lines]>>
                      ELSE <<[acc.open[1] EXCEPT !.lines = @ \o p.lines]>>
             size == acc.size + Size(p.lines)
  <2>1. b \in Nat /\ c \in Nat /\ b < c /\ c <= Len(e) /\ p = Piece(e, b, c)
    <3>1. i \in 0 .. m /\ i - 1 \in 0 .. m
      BY <1>1
    <3>2. b \in 0 .. n /\ c \in 0 .. n
      BY <1>6, <3>1
    <3> QED
      BY <1>1, <1>6, <3>2
  <2>2. Good(acc, b)
    BY <1>8
  <2>3. PICK a \in Nat : /\ Cuts(acc.out, e, a)
                         /\ (acc.open = <<>> /\ a = b) \/ (a < b /\ acc.open = <<Piece(e, a, b)>>)
    BY <2>2
  <2>4. after[i] = IF size >= ChunkChars
                   THEN [out |-> acc.out \o grown, open |-> <<>>, size |-> 0]
                   ELSE [out |-> acc.out, open |-> grown, size |-> size]
    <3>1. after[i] = WithParagraph(acc, p)
      BY <1>4
    <3> HIDE DEF acc, p
    <3> QED
      BY <3>1 DEF WithParagraph
  <2> HIDE DEF acc, b, c, p, size
  <2>5. grown = <<Piece(e, a, c)>> /\ a < c
    <3>1. CASE acc.open = <<>> /\ a = b
      BY <2>1, <3>1 DEF Piece
    <3>2. CASE a < b /\ acc.open = <<Piece(e, a, b)>>
      <4> DEFINE q == Piece(e, a, b)
                 x == Slice(e, a, b)
                 y == Slice(e, b, c)
      <4>1. acc.open # <<>> /\ acc.open[1] = q
        BY <3>2
      <4>2. q = [start |-> e[a + 1][1], lines |-> x] /\ p.lines = y
        BY <2>1 DEF Piece
      <4> HIDE DEF q, x, y
      <4>3. [q EXCEPT !.lines = q.lines \o p.lines] = [start |-> e[a + 1][1], lines |-> x \o y]
        <5> DEFINE z == q.lines \o p.lines
                   t == e[a + 1][1]
        <5>1. z = x \o y
          BY <4>2
        <5>2. q = [start |-> t, lines |-> x]
          BY <4>2
        <5> HIDE DEF z, t
        <5>3. [q EXCEPT !.lines = z] = [start |-> t, lines |-> z]
          BY <5>2
        <5> QED
          BY <5>1, <5>3 DEF z, t
      <4>4. x \o y = Slice(e, a, c)
        BY <2>1, <3>2, SlicesJoin DEF x, y
      <4>5. grown = <<[q EXCEPT !.lines = q.lines \o p.lines]>>
        BY <4>1
      <4>6. a < c
        BY <2>1, <3>2
      <4> QED
        BY <4>3, <4>4, <4>5, <4>6 DEF Piece
    <3> QED
      BY <2>3, <3>1, <3>2
  <2> HIDE DEF grown
  <2>6. CASE size >= ChunkChars
    <3>1. after[i].out = acc.out \o grown /\ after[i].open = <<>>
      BY <2>4, <2>6
    <3>2. Piece(e, a, c) \in Chunk
      BY <2>1, <2>5, SliceIs
    <3>3. acc.out \in Seq(Chunk)
      BY <2>3 DEF Cuts
    <3>4. Append(acc.out, Piece(e, a, c)) = acc.out \o <<Piece(e, a, c)>>
      BY <3>2, <3>3, AppendIsConcat
    <3>5. Cuts(Append(acc.out, Piece(e, a, c)), e, c)
      BY <2>1, <2>3, <2>5, CutsMore
    <3>6. Cuts(after[i].out, e, c)
      BY <2>5, <3>1, <3>4, <3>5
    <3> QED
      BY <2>1, <3>1, <3>6 DEF c
  <2>7. CASE ~ (size >= ChunkChars)
    <3>1. after[i].out = acc.out /\ after[i].open = grown
      BY <2>4, <2>7
    <3> QED
      BY <2>3, <2>5, <3>1 DEF c
  <2> QED
    BY <2>6, <2>7
<1>9. m \in S
  <2> HIDE DEF S
  <2>1. \A i \in 0 .. m : i \in S
    BY <1>1, <1>7, <1>8, Induct
  <2> QED
    BY <1>1, <2>1
<1>10. PICK a \in Nat : /\ Cuts(after[m].out, e, a)
                        /\ \/ after[m].open = <<>> /\ a = n
                           \/ a < n /\ after[m].open = <<Piece(e, a, n)>>
  BY <1>6, <1>9
<1>11. after[m].out \in Seq(Chunk)
  BY <1>10 DEF Cuts
<1>12. CASE after[m].open = <<>> /\ a = n
  <2>1. after[m].out \o <<>> = after[m].out
    BY <1>11, ConcatEmptySeq
  <2> QED
    BY <1>3, <1>10, <1>12, <2>1
<1>13. CASE a < n /\ after[m].open = <<Piece(e, a, n)>>
  <2>1. Piece(e, a, n) \in Chunk
    BY <1>13, SliceIs
  <2>2. Append(after[m].out, Piece(e, a, n)) = after[m].out \o <<Piece(e, a, n)>>
    BY <1>11, <2>1, AppendIsConcat
  <2>3. Cuts(Append(after[m].out, Piece(e, a, n)), e, n)
    BY <1>10, <1>13, CutsMore
  <2> QED
    BY <1>3, <1>13, <2>2, <2>3
<1> QED
  BY <1>10, <1>12, <1>13

(* What FlattenSeq counts through.                                         *)
FlatSteps(f, k, seqs) ==
  f = [i \in 1 .. k |-> IF i = 1 THEN seqs[i] ELSE f[i - 1] \o seqs[i]]

LEMMA FlatStepsExist ==
  ASSUME NEW seqs, NEW n \in Nat
  PROVE  \E f : FlatSteps(f, n, seqs)
<1> DEFINE S == {k \in 0 .. n : \E f : FlatSteps(f, k, seqs)}
<1>1. 0 \in S
  <2> DEFINE f == [i \in 1 .. 0 |-> <<>>]
  <2>1. 1 .. 0 = {}
    OBVIOUS
  <2>2. FlatSteps(f, 0, seqs)
    BY <2>1 DEF FlatSteps
  <2> QED
    BY <2>2
<1>2. ASSUME NEW k \in 1 .. n, k - 1 \in S PROVE k \in S
  <2>1. PICK f : FlatSteps(f, k - 1, seqs)
    BY <1>2
  <2> DEFINE last == IF k = 1 THEN seqs[k] ELSE f[k - 1] \o seqs[k]
             g == [i \in 1 .. k |-> IF i = k THEN last ELSE f[i]]
             h == k - 1
  <2>2. \A i \in 1 .. k : g[i] = IF i = 1 THEN seqs[i] ELSE g[i - 1] \o seqs[i]
    <3> TAKE i \in 1 .. k
    <3>1. CASE i = k
      <4>1. g[i] = last /\ (i # 1 => g[i - 1] = f[k - 1])
        BY <3>1
      <4> HIDE DEF g
      <4> QED
        BY <3>1, <4>1
    <3>2. CASE i # k
      <4>1. i \in 1 .. h /\ (i # 1 => i - 1 \in 1 .. h) /\ k \notin 1 .. h /\ 1 .. h \subseteq 1 .. k
        BY <3>2
      <4>2. f[i] = IF i = 1 THEN seqs[i] ELSE f[i - 1] \o seqs[i]
        BY <2>1, <4>1 DEF FlatSteps
      <4>3. g[i] = f[i] /\ (i # 1 => g[i - 1] = f[i - 1])
        BY <4>1
      <4> HIDE DEF g
      <4> QED
        BY <4>2, <4>3
    <3> QED
      BY <3>1, <3>2
  <2>3. g = [i \in 1 .. k |-> g[i]]
    OBVIOUS
  <2>4. FlatSteps(g, k, seqs)
    <3> HIDE DEF g
    <3> QED
      BY <2>2, <2>3 DEF FlatSteps
  <2> QED
    BY <2>4
<1>3. n \in 0 .. n
  OBVIOUS
<1> HIDE DEF S
<1>4. n \in S
  BY <1>1, <1>2, <1>3, Induct
<1> QED
  BY <1>4 DEF S

(* The pieces that cut the lines have all their words, in order.           *)
LEMMA WordsOfCuts ==
  ASSUME NEW e \in Timed, NEW chunks, Cuts(chunks, e, Len(e))
  PROVE  FlattenSeq([i \in DOMAIN chunks |-> chunks[i].lines]) = [k \in 1 .. Len(e) |-> e[k][2]]
<1> DEFINE m == Len(chunks)
           n == Len(e)
           seqs == [i \in DOMAIN chunks |-> chunks[i].lines]
           flat == CHOOSE f : FlatSteps(f, m, seqs)
           words == [k \in 1 .. n |-> e[k][2]]
<1>1. /\ m \in Nat /\ n \in Nat /\ DOMAIN chunks = 1 .. m
      /\ \A k \in 1 .. n : e[k] \in Nat \X Line
  BY DEF Cuts, Timed
<1>2. Len(seqs) = m /\ \A i \in 1 .. m : seqs[i] = chunks[i].lines
  BY <1>1
<1>3. FlatSteps(flat, m, seqs)
  <2>1. \E f : FlatSteps(f, m, seqs)
    BY <1>1, FlatStepsExist
  <2> QED
    BY <2>1
<1>4. FlattenSeq(seqs) = IF m = 0 THEN seqs ELSE flat[m]
  <2> HIDE DEF seqs
  <2> QED
    BY <1>2 DEF FlattenSeq, FlatSteps
<1>5. PICK cut : CutAt(chunks, e, n, cut)
  BY DEF Cuts
<1>6. /\ cut \in [0 .. m -> 0 .. n] /\ cut[0] = 0 /\ cut[m] = n
      /\ \A i \in 1 .. m : cut[i - 1] < cut[i] /\ chunks[i] = Piece(e, cut[i - 1], cut[i])
  BY <1>5 DEF CutAt
<1>7. words \in Seq(Line) /\ Len(words) = n /\ \A k \in 1 .. n : words[k] = e[k][2]
  BY <1>1
<1>8. CASE m = 0
  <2>1. n = 0
    BY <1>6, <1>8
  <2>2. seqs = [i \in 1 .. 0 |-> chunks[i].lines]
    BY <1>1, <1>8
  <2> HIDE DEF seqs, words
  <2>3. seqs \in Seq(Line) /\ Len(seqs) = 0
    BY <2>2
  <2>4. seqs = <<>> /\ words = <<>>
    BY <1>7, <2>1, <2>3, EmptySeq
  <2> QED
    BY <1>4, <1>8, <2>4 DEF seqs, words
<1>9. CASE m # 0
  <2> HIDE DEF seqs, flat, m
  <2>1. \A i \in 1 .. m : flat[i] = IF i = 1 THEN seqs[i] ELSE flat[i - 1] \o seqs[i]
    BY <1>3 DEF FlatSteps
  <2>2. \A i \in 1 .. m : /\ cut[i] \in Nat /\ cut[i - 1] \in Nat /\ cut[i - 1] < cut[i] /\ cut[i] <= n
                          /\ seqs[i] = Slice(e, cut[i - 1], cut[i])
    <3> TAKE i \in 1 .. m
    <3>1. i \in 0 .. m /\ i - 1 \in 0 .. m
      BY <1>1
    <3>2. cut[i] \in 0 .. n /\ cut[i - 1] \in 0 .. n
      BY <1>6, <3>1
    <3>3. seqs[i] = Slice(e, cut[i - 1], cut[i])
      <4>1. seqs[i] = chunks[i].lines
        BY <1>2
      <4>2. chunks[i] = Piece(e, cut[i - 1], cut[i])
        BY <1>6
      <4> QED
        BY <4>1, <4>2 DEF Piece
    <3> QED
      BY <1>1, <1>6, <3>2, <3>3
  <2> DEFINE S == {i \in 0 .. m : i > 0 => cut[i] > 0 /\ flat[i] = Slice(e, 0, cut[i])}
  <2>3. 0 \in S
    BY <1>1
  <2>4. ASSUME NEW i \in 1 .. m, i - 1 \in S PROVE i \in S
    <3> DEFINE b == cut[i - 1]
               c == cut[i]
    <3>1. b \in Nat /\ c \in Nat /\ b < c /\ c <= n /\ seqs[i] = Slice(e, b, c)
      BY <2>2
    <3>2. i \in 0 .. m /\ i - 1 \in 0 .. m
      BY <1>1
    <3>3. CASE i = 1
      <4>1. b = 0 /\ flat[i] = seqs[i]
        BY <1>6, <2>1, <3>3
      <4> QED
        BY <3>1, <3>2, <4>1
    <3>4. CASE i # 1
      <4>1. i - 1 > 0
        BY <1>1, <3>4
      <4>2. b > 0 /\ flat[i - 1] = Slice(e, 0, b)
        BY <2>4, <4>1
      <4>3. flat[i] = Slice(e, 0, b) \o Slice(e, b, c)
        BY <2>1, <3>1, <3>4, <4>2
      <4>4. Slice(e, 0, b) \o Slice(e, b, c) = Slice(e, 0, c)
        BY <3>1, <4>2, SlicesJoin DEF n
      <4>5. cut[i] > 0
        BY <3>1
      <4>6. flat[i] = Slice(e, 0, cut[i])
        BY <4>3, <4>4
      <4> QED
        BY <3>2, <4>5, <4>6
    <3> QED
      BY <3>3, <3>4
  <2>5. m \in S
    <3> HIDE DEF S
    <3>1. \A i \in 0 .. m : i \in S
      BY <1>1, <2>3, <2>4, Induct
    <3> QED
      BY <1>1, <3>1
  <2>6. n > 0 /\ flat[m] = Slice(e, 0, n)
    BY <1>1, <1>6, <1>9, <2>5
  <2>7. /\ Slice(e, 0, n) \in Seq(Line) /\ Len(Slice(e, 0, n)) = n
        /\ \A k \in 1 .. n : Slice(e, 0, n)[k] = e[k][2]
    <3>1. n - 0 = n /\ \A k \in 1 .. n : 0 + k = k
      BY <1>1
    <3> QED
      BY <1>1, <2>6, <3>1, SliceIs
  <2>8. Slice(e, 0, n) = words
    <3> HIDE DEF words, n
    <3> QED
      BY <1>7, <2>7, SeqEqual
  <2> QED
    BY <1>4, <1>9, <2>6, <2>8 DEF seqs
<1> QED
  BY <1>8, <1>9

-------------------------------------------------------------------------------
(* THE ARCHIVE                                                             *)
(* The meetings that may be fetched, and what a fetched transcript is.     *)
Fetchable == Meeting \ (NoCaptions \cup NoVideo)
Transcript == [of : Fetchable, kind : Kind, label : Kind, whole : BOOLEAN]
FileMap == [Meeting -> Path \cup {None}]

(* A file that a catalogue names is the one its meeting is written to.     *)
Aimed(cat) == \A m \in Meeting : cat[m] # None => m \in Fetchable /\ cat[m] = TargetFile(m)

(* The catalogue as the run that writes it has it, or as it is.            *)
Current == IF fetch.phase = "idle" THEN catalog ELSE fetch.file

ArchiveInv ==
  /\ said \in Speeches
  /\ catalog \in FileMap /\ Aimed(catalog)
  /\ docs \in [Path -> Transcript \cup {NoDoc}]
  /\ \A p \in Path : docs[p] # NoDoc => TargetFile(docs[p].of) = p
  /\ raw \subseteq Meeting
  /\ fetch \in RunType /\ fetch.todo \subseteq Fetchable /\ Aimed(fetch.file)
  /\ fetch.attempt <= Len(Attempts(First(fetch.todo)))
  /\ fetch.phase = "write" =>
       fetch.todo # {} /\ fetch.got \in Transcript /\ fetch.got.of = First(fetch.todo)
  /\ fetch.phase # "idle" /\ ~ fetch.changed => fetch.file = catalog
  /\ incidents \in 0 .. MaxIncidents
  /\ incidents = 0 => \A p \in Path : docs[p] # NoDoc => Current[docs[p].of] = p

LEMMA FirstIs ==
  ASSUME NEW todo \in SUBSET Meeting, todo # {}
  PROVE  First(todo) \in todo
<1> DEFINE S == {i \in 0 .. Meetings :
                   (\E m \in todo : m <= i) => \E m \in todo : \A n \in todo : m <= n}
<1>1. Meetings \in Nat /\ \A m \in todo : m \in 1 .. Meetings
  BY FetchConstants DEF Meeting
<1>2. 0 \in S
  BY <1>1
<1>3. ASSUME NEW i \in 1 .. Meetings, i - 1 \in S PROVE i \in S
  <2> SUFFICES ASSUME NEW m \in todo, m <= i PROVE \E x \in todo : \A y \in todo : x <= y
    BY <1>1
  <2>1. CASE \E x \in todo : x <= i - 1
    BY <1>3, <2>1
  <2>2. CASE \A x \in todo : ~ (x <= i - 1)
    <3>1. \A y \in todo : m <= y
      BY <1>1, <2>2
    <3> QED
      BY <3>1
  <2> QED
    BY <2>1, <2>2
<1>4. Meetings \in 0 .. Meetings
  BY <1>1
<1> HIDE DEF S
<1>5. Meetings \in S
  BY <1>1, <1>2, <1>3, <1>4, Induct
<1>6. \E m \in todo : \A n \in todo : m <= n
  <2>1. \E m \in todo : m <= Meetings
    BY <1>1
  <2> QED
    BY <1>5, <2>1 DEF S
<1> QED
  BY <1>6 DEF First

LEMMA TargetIs ==
  ASSUME NEW m \in Meeting
  PROVE  TargetFile(m) \in Path /\ TargetFile(m) # None
BY FetchConstants DEF TargetFile

(* At least the two calls for the captions of YouTube are made.            *)
LEMMA AttemptsAre ==
  ASSUME NEW m
  PROVE  Attempts(m) \in Seq(Kind) /\ Len(Attempts(m)) \in Nat /\ Len(Attempts(m)) >= 2
<1> DEFINE again == IF Impersonate THEN YouTubeKinds ELSE <<>>
           clip == IF m \in Clip THEN <<"granicus">> ELSE <<>>
<1>1. YouTubeKinds \in Seq(Kind) /\ Len(YouTubeKinds) = 2
  BY DEF YouTubeKinds, Kind
<1>2. again \in Seq(Kind) /\ Len(again) \in Nat
  BY <1>1
<1>3. clip \in Seq(Kind) /\ Len(clip) \in Nat
  <2>1. CASE m \in Clip
    BY <2>1 DEF Kind
  <2>2. CASE m \notin Clip
    BY <2>2
  <2> QED
    BY <2>1, <2>2
<1>4. Attempts(m) = (YouTubeKinds \o again) \o clip
  BY DEF Attempts
<1> HIDE DEF again, clip
<1>5. YouTubeKinds \o again \in Seq(Kind) /\ Len(YouTubeKinds \o again) = 2 + Len(again)
  <2>1. Len(YouTubeKinds \o again) = Len(YouTubeKinds) + Len(again)
    BY ONLY <1>1, <1>2, ConcatProperties
  <2>2. YouTubeKinds \o again \in Seq(Kind)
    BY ONLY <1>1, <1>2, ConcatProperties
  <2> QED
    BY <1>1, <2>1, <2>2
<1> DEFINE calls == YouTubeKinds \o again
<1> HIDE DEF calls
<1>6. calls \o clip \in Seq(Kind) /\ Len(calls \o clip) = Len(calls) + Len(clip)
  BY <1>3, <1>5 DEF calls
<1> QED
  BY <1>2, <1>3, <1>4, <1>5, <1>6 DEF calls

LEMMA NoDocIs == NoDoc \in Document /\ NoDoc \notin Transcript /\ Transcript \subseteq Document
<1>1. Meetings \in Nat
  BY FetchConstants
<1>2. 0 \notin Fetchable /\ Fetchable \subseteq 0 .. Meetings
  BY <1>1 DEF Fetchable, Meeting
<1> QED
  <2>1. NoDoc \in Document
    BY <1>1 DEF NoDoc, Document
  <2>2. NoDoc \notin Transcript
    BY <1>2 DEF NoDoc, Transcript
  <2>3. Transcript \subseteq Document
    <3> SUFFICES ASSUME NEW d \in Transcript PROVE d \in Document
      OBVIOUS
    <3>1. d = [of |-> d.of, kind |-> d.kind, label |-> d.label, whole |-> d.whole]
      BY DEF Transcript
    <3>2. d.of \in 0 .. Meetings /\ d.kind \in Kind /\ d.label \in Kind /\ d.whole \in BOOLEAN
      BY <1>2 DEF Transcript
    <3> QED
      BY <3>1, <3>2 DEF Document
  <2> QED
    BY <2>1, <2>2, <2>3

LEMMA NoRunIs ==
  /\ NoRun \in RunType /\ NoRun.phase = "idle" /\ NoRun.todo = {} /\ NoRun.file = NoFiles
  /\ NoRun.attempt = 1 /\ ~ NoRun.changed /\ NoFiles \in FileMap /\ Aimed(NoFiles)
BY NoDocIs DEF NoRun, RunType, NoFiles, FileMap, Aimed

(* The next entry of a run.                                                *)
LEMMA NextEntryKeeps ==
  ASSUME NEW run \in RunType, run.todo \subseteq Fetchable
  PROVE  /\ NextEntry(run) \in RunType /\ NextEntry(run).phase = "download"
         /\ NextEntry(run).todo \subseteq Fetchable /\ NextEntry(run).attempt = 1
         /\ NextEntry(run).file = run.file /\ NextEntry(run).changed = run.changed
<1> DEFINE rest == run.todo \ {First(run.todo)}
<1>1. rest \subseteq Fetchable /\ rest \in SUBSET Meeting
  BY DEF RunType
<1>2. NextEntry(run) = [run EXCEPT !.todo = rest, !.attempt = 1, !.phase = "download", !.got = NoDoc]
  BY DEF NextEntry
<1>3. NoDoc \in Document
  BY NoDocIs
<1> HIDE DEF rest
<1>4. NextEntry(run) = [phase |-> "download", file |-> run.file, todo |-> rest, attempt |-> 1,
                        got |-> NoDoc, changed |-> run.changed]
  BY <1>2 DEF RunType
<1>5. run.file \in [Meeting -> Path \cup {None}] /\ run.changed \in BOOLEAN
  BY DEF RunType
<1> QED
  BY <1>1, <1>3, <1>4, <1>5 DEF RunType

LEMMA ArchiveStart == FetchInit => ArchiveInv
<1> SUFFICES ASSUME FetchInit PROVE ArchiveInv
  OBVIOUS
<1>1. docs \in [Path -> Transcript \cup {NoDoc}] /\ \A p \in Path : docs[p] = NoDoc
  BY DEF FetchInit
<1>2. MaxIncidents \in Nat
  BY FetchConstants
<1>3. 1 <= Len(Attempts(First({})))
  BY AttemptsAre
<1> QED
  BY <1>1, <1>2, <1>3, NoRunIs DEF FetchInit, ArchiveInv

(* A run that goes on without touching the archive.                        *)
LEMMA RunKeeps ==
  ASSUME ArchiveInv, UNCHANGED <<said, catalog, docs, incidents>>, raw' \subseteq Meeting,
         fetch.phase # "idle", fetch'.phase # "idle", fetch' \in RunType,
         fetch'.todo \subseteq Fetchable, fetch'.file = fetch.file, fetch'.changed = fetch.changed,
         fetch'.attempt <= Len(Attempts(First(fetch'.todo))),
         fetch'.phase = "write" =>
           fetch'.todo # {} /\ fetch'.got \in Transcript /\ fetch'.got.of = First(fetch'.todo)
  PROVE  ArchiveInv'
BY DEF ArchiveInv, Current, Aimed

LEMMA StartFetchKeeps ==
  ASSUME ArchiveInv, NEW only, StartFetch(only)
  PROVE  ArchiveInv'
<1> DEFINE todo == {m \in Meeting : Pending(m, only)}
<1>1. fetch' = [NoRun EXCEPT !.phase = "download", !.file = catalog, !.todo = todo]
      /\ fetch.phase = "idle" /\ UNCHANGED <<said, catalog, docs, raw, incidents>>
  BY DEF StartFetch
<1>2. todo \in SUBSET Meeting /\ todo \subseteq Fetchable
  BY DEF Fetchable, Pending
<1> HIDE DEF todo
<1>3. fetch' \in RunType /\ fetch'.phase = "download" /\ fetch'.todo = todo /\ fetch'.file = catalog
      /\ fetch'.attempt = 1
  BY <1>1, <1>2, NoRunIs DEF ArchiveInv, RunType, FileMap, NoRun
<1>4. fetch'.attempt <= Len(Attempts(First(todo)))
  BY <1>3, AttemptsAre
<1> QED
  BY <1>1, <1>2, <1>3, <1>4 DEF ArchiveInv, Current, Aimed

LEMMA CalledKeeps ==
  ASSUME ArchiveInv, fetch.phase = "download", fetch.todo # {},
         UNCHANGED <<said, catalog, docs, incidents>>,
         NEW ok \in BOOLEAN, NEW named \in Named(First(fetch.todo), Asked),
         NEW variants \in Variants(First(fetch.todo), Asked),
         Called(First(fetch.todo), ok, named, variants)
  PROVE  ArchiveInv'
<1> DEFINE m == First(fetch.todo)
           taken == Taken(m, ok, Asked, named, variants)
           doc(k) == [of |-> m, kind |-> k, label |-> Asked, whole |-> TRUE]
<1>1. /\ fetch \in RunType /\ fetch.todo \subseteq Fetchable
      /\ fetch.todo \in SUBSET Meeting /\ raw \subseteq Meeting
      /\ fetch.attempt \in Nat \ {0} /\ fetch.attempt <= Len(Attempts(m))
  BY DEF ArchiveInv, RunType
<1>2. m \in fetch.todo /\ m \in Fetchable /\ m \in Meeting
  BY <1>1, FirstIs
<1>3. Asked \in Kind
  <2>1. Asked = Attempts(m)[fetch.attempt] /\ fetch.attempt \in 1 .. Len(Attempts(m))
    BY <1>1, AttemptsAre DEF Asked
  <2> QED
    BY <2>1, AttemptsAre
<1>4. taken \subseteq Kind
  <2>1. named \subseteq Kind
    BY <1>3 DEF Named
  <2> QED
    BY <2>1 DEF Taken, Kind
<1>5. raw' \subseteq Meeting
  <2>1. variants \subseteq Meeting
    BY <1>1, <1>2 DEF Variants
  <2> QED
    BY <2>1 DEF Called
<1> HIDE DEF m, taken
<1>6. CASE \E k \in taken : Text(doc(k)) # <<>>
  <2> DEFINE k == CHOOSE k \in taken : TRUE
             got == doc(k)
  <2>1. k \in taken /\ k \in Kind
    BY <1>4, <1>6
  <2> HIDE DEF k
  <2>2. got \in Transcript /\ got.of = m
    BY <1>2, <1>3, <2>1 DEF Transcript
  <2>3. fetch' = [fetch EXCEPT !.phase = "write", !.got = got]
    BY <1>6 DEF Called, m, taken, k
  <2> HIDE DEF got
  <2>4. got \in Document
    BY <2>2, NoDocIs
  <2>5. fetch' \in RunType /\ fetch'.phase = "write" /\ fetch'.got = got /\ fetch'.todo = fetch.todo
        /\ fetch'.file = fetch.file /\ fetch'.changed = fetch.changed /\ fetch'.attempt = fetch.attempt
    BY <1>1, <2>3, <2>4 DEF RunType
  <2>6. fetch'.got.of = First(fetch'.todo) /\ fetch'.attempt <= Len(Attempts(First(fetch'.todo)))
        /\ fetch'.todo \subseteq Fetchable
    BY <1>1, <2>2, <2>5 DEF m
  <2> QED
    BY <1>5, <2>2, <2>5, <2>6, RunKeeps
<1>7. CASE ~ (\E k \in taken : Text(doc(k)) # <<>>) /\ taken = {} /\ fetch.attempt < Len(Attempts(m))
  <2>1. fetch' = [fetch EXCEPT !.attempt = @ + 1]
    BY <1>7 DEF Called, m, taken
  <2>2. fetch' \in RunType /\ fetch'.phase = "download" /\ fetch'.todo = fetch.todo
        /\ fetch'.file = fetch.file /\ fetch'.changed = fetch.changed
        /\ fetch'.attempt = fetch.attempt + 1
    BY <1>1, <2>1 DEF RunType
  <2>3. fetch'.attempt <= Len(Attempts(First(fetch'.todo))) /\ fetch'.todo \subseteq Fetchable
    BY <1>1, <1>7, <2>2, AttemptsAre DEF m
  <2> QED
    BY <1>5, <2>2, <2>3, RunKeeps
<1>8. CASE ~ (\E k \in taken : Text(doc(k)) # <<>>)
           /\ ~ (taken = {} /\ fetch.attempt < Len(Attempts(m)))
  <2>1. fetch' = NextEntry(fetch)
    BY <1>8 DEF Called, m, taken
  <2>2. fetch' \in RunType /\ fetch'.phase = "download" /\ fetch'.todo \subseteq Fetchable
        /\ fetch'.file = fetch.file /\ fetch'.changed = fetch.changed /\ fetch'.attempt = 1
    BY <1>1, <2>1, NextEntryKeeps
  <2>3. fetch'.attempt <= Len(Attempts(First(fetch'.todo)))
    BY <2>2, AttemptsAre
  <2> QED
    BY <1>5, <2>2, <2>3, RunKeeps
<1> QED
  BY <1>6, <1>7, <1>8

(* A file of the meeting that is being written has changed.                *)
LEMMA WriteTranscriptKeeps ==
  ASSUME ArchiveInv, WriteTranscript
  PROVE  ArchiveInv'
<1> DEFINE m == First(fetch.todo)
           p == TargetFile(m)
           run == [fetch EXCEPT !.file[m] = p, !.changed = TRUE]
<1>1. /\ fetch \in RunType /\ fetch.todo \subseteq Fetchable /\ fetch.todo # {}
      /\ fetch.todo \in SUBSET Meeting /\ fetch.phase = "write"
      /\ fetch.got \in Transcript /\ fetch.got.of = m
      /\ fetch.file \in FileMap /\ Aimed(fetch.file)
  BY DEF ArchiveInv, RunType, WriteTranscript, FileMap
<1>2. m \in fetch.todo /\ m \in Fetchable /\ m \in Meeting
  BY <1>1, FirstIs
<1>3. p \in Path /\ p # None
  BY <1>2, TargetIs
<1>4. docs' = [docs EXCEPT ![p] = fetch.got] /\ fetch' = NextEntry(run)
      /\ UNCHANGED <<said, catalog, raw, incidents>>
  BY DEF WriteTranscript
<1>5. TargetFile(m) = p
  OBVIOUS
<1> HIDE DEF m, p
<1>6. /\ run \in RunType /\ run.todo = fetch.todo /\ run.changed = TRUE
      /\ run.file = [fetch.file EXCEPT ![m] = p]
  BY <1>1, <1>2, <1>3 DEF RunType, FileMap
<1> HIDE DEF run
<1>7. /\ fetch' \in RunType /\ fetch'.phase = "download" /\ fetch'.todo \subseteq Fetchable
      /\ fetch'.attempt = 1 /\ fetch'.file = [fetch.file EXCEPT ![m] = p] /\ fetch'.changed
  BY <1>1, <1>4, <1>6, NextEntryKeeps
<1>8. fetch'.attempt <= Len(Attempts(First(fetch'.todo)))
  BY <1>7, AttemptsAre
<1>9. \A n \in Meeting : fetch'.file[n] = IF n = m THEN p ELSE fetch.file[n]
  BY <1>1, <1>2, <1>7 DEF FileMap
<1>10. Aimed(fetch'.file)
  BY <1>1, <1>2, <1>5, <1>9 DEF Aimed
<1>11. /\ docs \in [Path -> Transcript \cup {NoDoc}]
       /\ docs' \in [Path -> Transcript \cup {NoDoc}]
       /\ \A q \in Path : docs'[q] = IF q = p THEN fetch.got ELSE docs[q]
  BY <1>1, <1>3, <1>4 DEF ArchiveInv
<1>12. \A q \in Path : docs'[q] # NoDoc => TargetFile(docs'[q].of) = q
  BY <1>1, <1>5, <1>11 DEF ArchiveInv
<1>13. incidents' = 0 => \A q \in Path : docs'[q] # NoDoc => fetch'.file[docs'[q].of] = q
  <2> SUFFICES ASSUME incidents = 0, NEW q \in Path, docs'[q] # NoDoc
               PROVE  fetch'.file[docs'[q].of] = q
    BY <1>4
  <2>1. docs'[q].of \in Meeting
    BY <1>11 DEF Transcript, Fetchable
  <2>2. CASE q = p
    BY <1>1, <1>2, <1>9, <1>11, <2>2
  <2>3. CASE q # p
    <3>1. docs'[q] = docs[q] /\ fetch.file[docs[q].of] = q /\ TargetFile(docs[q].of) = q
      BY <1>1, <1>11, <2>3 DEF ArchiveInv, Current
    <3>2. docs[q].of # m
      BY <1>5, <2>3, <3>1
    <3> QED
      BY <1>9, <2>1, <3>1, <3>2
  <2> QED
    BY <2>2, <2>3
<1>14. fetch'.phase # "idle" /\ fetch'.phase # "write"
  BY <1>7
<1>15. Current' = fetch'.file
  BY <1>14 DEF Current
<1>16. \A n \in Meeting : catalog'[n] # None => n \in Fetchable /\ catalog'[n] = TargetFile(n)
  BY <1>4 DEF ArchiveInv, Aimed
<1>17. Aimed(fetch.file)'
  BY <1>10 DEF Aimed
<1> QED
  BY <1>4, <1>7, <1>8, <1>11, <1>12, <1>13, <1>14, <1>15, <1>16, <1>17 DEF ArchiveInv, Aimed

LEMMA SaveCatalogKeeps ==
  ASSUME ArchiveInv, SaveCatalog
  PROVE  ArchiveInv'
<1>1. /\ fetch.phase # "idle" /\ fetch' = NoRun /\ UNCHANGED <<said, docs, raw, incidents>>
      /\ catalog' = fetch.file
  BY DEF SaveCatalog, ArchiveInv
<1>2. 1 <= Len(Attempts(First({})))
  BY AttemptsAre
<1>3. catalog' \in FileMap /\ Aimed(catalog')
  BY <1>1 DEF ArchiveInv, RunType, FileMap
<1>4. Current' = Current
  BY <1>1, NoRunIs DEF Current
<1>5. Aimed(catalog)' /\ Aimed(fetch.file)'
  BY <1>1, <1>3, NoRunIs DEF Aimed
<1> QED
  BY <1>1, <1>2, <1>3, <1>4, <1>5, NoRunIs DEF ArchiveInv

(* A run that dies leaves the archive, but for one file, and counts.       *)
LEMMA DeathKeeps ==
  ASSUME ArchiveInv, incidents < MaxIncidents, incidents' = incidents + 1, fetch' = NoRun,
         UNCHANGED <<said, catalog>>, raw' \subseteq Meeting,
         docs' \in [Path -> Transcript \cup {NoDoc}],
         \A p \in Path : docs'[p] # NoDoc => TargetFile(docs'[p].of) = p
  PROVE  ArchiveInv'
<1>1. 1 <= Len(Attempts(First({})))
  BY AttemptsAre
<1>2. incidents' \in 0 .. MaxIncidents /\ incidents' # 0
  BY FetchConstants DEF ArchiveInv
<1>3. Aimed(catalog)' /\ Aimed(fetch.file)'
  BY NoRunIs DEF Aimed, ArchiveInv
<1> QED
  BY <1>1, <1>2, <1>3, NoRunIs DEF ArchiveInv

LEMMA TimeOutKeeps ==
  ASSUME ArchiveInv, TimeOut
  PROVE  ArchiveInv'
<1>1. fetch.todo \in SUBSET Meeting /\ fetch.todo # {}
  BY DEF ArchiveInv, RunType, TimeOut
<1>2. raw' \subseteq Meeting
  BY <1>1, FirstIs DEF ArchiveInv, TimeOut, Variants
<1> QED
  BY <1>2, DeathKeeps DEF ArchiveInv, TimeOut

LEMMA KillFetchKeeps ==
  ASSUME ArchiveInv, KillFetch
  PROVE  ArchiveInv'
<1>1. CASE UNCHANGED docs
  BY <1>1, DeathKeeps DEF ArchiveInv, KillFetch
<1>2. CASE docs' # docs
  <2> DEFINE m == First(fetch.todo)
             p == TargetFile(m)
             cut == [fetch.got EXCEPT !.whole = FALSE]
  <2>1. /\ docs' = [docs EXCEPT ![p] = cut] /\ fetch.got \in Transcript /\ fetch.got.of = m
        /\ docs \in [Path -> Transcript \cup {NoDoc}]
    BY <1>2 DEF ArchiveInv, KillFetch
  <2>2. cut \in Transcript /\ cut.of = m
    BY <2>1 DEF Transcript
  <2> HIDE DEF m, cut
  <2>3. TargetFile(m) = p
    OBVIOUS
  <2> HIDE DEF p
  <2>4. /\ docs' \in [Path -> Transcript \cup {NoDoc}]
        /\ \A q \in Path : docs'[q] = IF q = p THEN cut ELSE docs[q]
    BY <2>1, <2>2
  <2>5. \A q \in Path : docs'[q] # NoDoc => TargetFile(docs'[q].of) = q
    BY <2>2, <2>3, <2>4 DEF ArchiveInv
  <2> QED
    BY <2>4, <2>5, DeathKeeps DEF ArchiveInv, KillFetch
<1> QED
  BY <1>1, <1>2

LEMMA RemoveTranscriptKeeps ==
  ASSUME ArchiveInv, NEW m \in Meeting, RemoveTranscript(m)
  PROVE  ArchiveInv'
<1>1. docs' = [docs EXCEPT ![catalog[m]] = NoDoc] /\ docs \in [Path -> Transcript \cup {NoDoc}]
  BY DEF RemoveTranscript, ArchiveInv
<1> DEFINE p == catalog[m]
<1>2. /\ docs' \in [Path -> Transcript \cup {NoDoc}]
      /\ \A q \in Path : docs'[q] = IF q = p THEN NoDoc ELSE docs[q]
  <2> HIDE DEF p
  <2> QED
    BY <1>1 DEF p
<1>3. \A q \in Path : docs'[q] # NoDoc => TargetFile(docs'[q].of) = q
  BY <1>2 DEF ArchiveInv
<1>4. incidents' \in 0 .. MaxIncidents /\ incidents' # 0
  BY FetchConstants DEF ArchiveInv, RemoveTranscript
<1>5. UNCHANGED <<said, catalog, raw, fetch>>
  BY DEF RemoveTranscript
<1> HIDE DEF p
<1> QED
  BY <1>2, <1>3, <1>4, <1>5 DEF ArchiveInv, Aimed, Current

LEMMA ArchiveStep == ArchiveInv /\ (FetchNext \/ UNCHANGED <<fetchVars, incidents>>) => ArchiveInv'
<1> SUFFICES ASSUME ArchiveInv, FetchNext \/ UNCHANGED <<fetchVars, incidents>> PROVE ArchiveInv'
  OBVIOUS
<1>1. ASSUME NEW only \in Selections, StartFetch(only) PROVE ArchiveInv'
  BY <1>1, StartFetchKeeps
<1>2. CASE Download
  BY <1>2, CalledKeeps DEF Download
<1>3. CASE TimeOut
  BY <1>3, TimeOutKeeps
<1>4. CASE WriteTranscript
  BY <1>4, WriteTranscriptKeeps
<1>5. CASE SaveCatalog
  BY <1>5, SaveCatalogKeeps
<1>6. CASE KillFetch
  BY <1>6, KillFetchKeeps
<1>7. ASSUME NEW m \in Meeting, RemoveTranscript(m) PROVE ArchiveInv'
  BY <1>7, RemoveTranscriptKeeps
<1>8. CASE UNCHANGED <<fetchVars, incidents>>
  BY <1>8 DEF ArchiveInv, Aimed, Current, fetchVars
<1> QED
  BY <1>1, <1>2, <1>3, <1>4, <1>5, <1>6, <1>7, <1>8 DEF FetchNext

-------------------------------------------------------------------------------
(* WHAT A TRANSCRIPT HOLDS                                                 *)
Record == [file : Path, video : Meeting, start : Nat \ {0}, lines : Seq(Line)]

(* The records whose words are spoken when they say.                       *)
Sound == {r \in Record : r.lines # <<>> /\ TimedWhereSpoken(r)}

(* The lines of a transcript, each with the number of the cue it ends.     *)
LEMMA SpokenAre ==
  ASSUME said \in Speeches, NEW m \in Meeting, NEW kind \in Kind
  PROVE  /\ said[m] \in Seq(Line)
         /\ EmittedLines(Cues(m, kind)) \in Timed
         /\ \A i \in 1 .. Len(EmittedLines(Cues(m, kind))) :
              LET c == EmittedLines(Cues(m, kind))[i][1]
              IN /\ c \in Nat \ {0} /\ c \in DOMAIN Cues(m, kind)
                 /\ Last(Cues(m, kind)[c]) = EmittedLines(Cues(m, kind))[i][2]
         /\ kind = "auto" =>
              EmittedLines(Cues(m, kind)) = [i \in 1 .. Len(said[m]) |-> <<2 * i - 1, said[m][i]>>]
<1> DEFINE lines == said[m]
           n == Len(lines)
           e == EmittedLines(Cues(m, kind))
<1>1. lines \in Seq(Line)
  BY FetchConstants
<1> HIDE DEF lines
<1>2. n \in Nat /\ \A i \in 1 .. n : lines[i] \in Line
  BY <1>1
<1>3. CASE kind = "auto"
  <2> DEFINE cues == Rolling(lines)
  <2>1. Cues(m, kind) = cues
    BY <1>3 DEF Cues, lines
  <2>2. e = [i \in 1 .. n |-> <<2 * i - 1, lines[i]>>]
    BY <1>1, <2>1, EmittedOfRolling
  <2>3. DOMAIN cues = 1 .. 2 * n
    BY DEF Rolling
  <2>4. \A i \in 1 .. n : 2 * i - 1 \in 1 .. 2 * n /\ 2 * i - 1 \in Nat \ {0}
    BY <1>2
  <2>5. ASSUME NEW i \in 1 .. n PROVE Last(cues[2 * i - 1]) = lines[i]
    <3> DEFINE before == lines[i - 1]
               line == lines[i]
    <3>1. ((2 * i - 1) + 1) \div 2 = i /\ (2 * i - 1) % 2 = 1
      BY <1>2
    <3>2. cues[2 * i - 1] = IF i > 1 THEN <<before, line>> ELSE <<line>>
      BY <2>4, <3>1 DEF Rolling
    <3> HIDE DEF before, line, cues
    <3>3. CASE i > 1
      <4>1. cues[2 * i - 1] = <<before, line>>
        BY <3>2, <3>3
      <4> QED
        BY <4>1 DEF Last, line
    <3>4. CASE ~ (i > 1)
      <4>1. cues[2 * i - 1] = <<line>>
        BY <3>2, <3>4
      <4> QED
        BY <4>1 DEF Last, line
    <3> QED
      BY <3>3, <3>4
  <2> HIDE DEF cues, e, n
  <2>6. Len(e) = n /\ \A i \in 1 .. n : e[i] = <<2 * i - 1, lines[i]>>
    BY <1>2, <2>2
  <2>7. e \in Timed
    BY <1>2, <2>2, <2>4 DEF Timed
  <2>8. \A i \in 1 .. n : e[i][1] = 2 * i - 1 /\ e[i][2] = lines[i]
    BY <2>6
  <2>9. \A i \in 1 .. Len(e) : e[i][1] \in Nat \ {0} /\ e[i][1] \in DOMAIN Cues(m, kind)
                               /\ Last(Cues(m, kind)[e[i][1]]) = e[i][2]
    BY <2>1, <2>3, <2>4, <2>5, <2>6, <2>8
  <2> QED
    BY <1>1, <2>2, <2>7, <2>9 DEF e, lines, n
<1>4. CASE kind # "auto"
  <2> DEFINE cues == Plain(lines)
  <2>1. Cues(m, kind) = cues
    BY <1>4 DEF Cues, lines
  <2>2. DOMAIN cues = 1 .. n /\ \A c \in 1 .. n : cues[c] = <<lines[c]>>
    BY DEF Plain
  <2>3. /\ EmittedLines(cues) \in Seq(Nat \X Line)
        /\ \A k \in 1 .. Len(EmittedLines(cues)) :
              LET x == EmittedLines(cues)[k]
              IN x[1] \in 1 .. Len(lines) /\ x[2] = lines[x[1]]
    BY <1>1, EmittedOfPlain
  <2>4. e = EmittedLines(cues)
    BY <2>1
  <2> HIDE DEF cues, e
  <2>5. e \in Timed /\ \A k \in 1 .. Len(e) : e[k][1] \in 1 .. n /\ e[k][2] = lines[e[k][1]]
    BY <2>3, <2>4 DEF Timed
  <2>6. ASSUME NEW c \in 1 .. n PROVE Last(cues[c]) = lines[c]
    <3> DEFINE line == lines[c]
    <3>1. cues[c] = <<line>>
      BY <2>2
    <3> HIDE DEF line
    <3>2. Last(cues[c]) = line
      BY <3>1 DEF Last
    <3> QED
      BY <3>2 DEF line
  <2> HIDE DEF n
  <2>7. \A i \in 1 .. Len(e) : e[i][1] \in Nat \ {0} /\ e[i][1] \in DOMAIN Cues(m, kind)
                               /\ Last(Cues(m, kind)[e[i][1]]) = e[i][2]
    BY <1>2, <2>1, <2>2, <2>5, <2>6
  <2> QED
    BY <1>1, <1>4, <2>5, <2>7 DEF e, lines
<1> QED
  BY <1>3, <1>4

(* A piece of a transcript makes a sound record.                           *)
LEMMA PiecesAreSound ==
  ASSUME said \in Speeches, NEW m \in Meeting, NEW kind \in Kind, NEW e,
         e = EmittedLines(Cues(m, kind)), NEW a \in 0 .. Len(e), NEW b \in 0 .. Len(e), a < b,
         NEW file \in Path, NEW r,
         r = [file |-> file, video |-> m, start |-> Piece(e, a, b).start, lines |-> Piece(e, a, b).lines]
  PROVE  r \in Sound
<1> DEFINE start == e[a + 1][1]
           lines == Slice(e, a, b)
           k == IF kind = "auto" THEN "auto" ELSE "manual"
<1>1. e \in Timed /\ said[m] \in Seq(Line)
  BY SpokenAre
<1>2. Len(e) \in Nat
  BY <1>1 DEF Timed
<1>3. a \in Nat /\ b \in Nat /\ b <= Len(e) /\ a + 1 \in 1 .. Len(e)
  BY <1>2
<1>4. /\ lines \in Seq(Line) /\ Len(lines) = b - a /\ lines # <<>> /\ lines[1] = e[a + 1][2]
      /\ \A i \in 1 .. b - a : lines[i] = e[a + i][2]
  BY <1>1, <1>3, SliceIs
<1>5. /\ start \in Nat \ {0} /\ start \in DOMAIN Cues(m, kind)
      /\ Last(Cues(m, kind)[start]) = e[a + 1][2]
  BY <1>3, SpokenAre
<1>6. Cues(m, k) = Cues(m, kind) /\ k \in {"auto", "manual"}
  BY DEF Cues
<1>7. k = "auto" => lines = SubSeq(said[m], (start + 1) \div 2, (start + 1) \div 2 + Len(lines) - 1)
  <2> SUFFICES ASSUME kind = "auto"
               PROVE  lines = SubSeq(said[m], (start + 1) \div 2, (start + 1) \div 2 + Len(lines) - 1)
    OBVIOUS
  <2> DEFINE spoken == said[m]
             piece == SubSeq(spoken, a + 1, b)
  <2>1. e = [i \in 1 .. Len(spoken) |-> <<2 * i - 1, spoken[i]>>]
    BY SpokenAre
  <2>2. spoken \in Seq(Line) /\ Len(spoken) \in Nat
    BY <1>1
  <2> HIDE DEF spoken
  <2>3. Len(e) = Len(spoken) /\ \A i \in 1 .. Len(spoken) : e[i][1] = 2 * i - 1 /\ e[i][2] = spoken[i]
    BY <2>1, <2>2
  <2>4. start = 2 * (a + 1) - 1
    BY <1>3, <2>3
  <2>5. (start + 1) \div 2 = a + 1 /\ (a + 1) + Len(lines) - 1 = b
    <3> DEFINE c == start
    <3>1. c = 2 * (a + 1) - 1 /\ Len(lines) = b - a
      BY <1>4, <2>4
    <3> HIDE DEF c, lines
    <3>2. (c + 1) \div 2 = a + 1 /\ (a + 1) + Len(lines) - 1 = b
      BY ONLY <1>3, <3>1
    <3> QED
      BY <3>2 DEF c
  <2>6. piece \in Seq(Line) /\ Len(piece) = b - a /\ \A i \in 1 .. b - a : piece[i] = spoken[a + i]
    <3>1. \A i \in a + 1 .. b : i \in 1 .. Len(spoken)
      BY <1>3, <2>2, <2>3
    <3>2. /\ piece = [i \in 1 .. b - (a + 1) + 1 |-> spoken[i + (a + 1) - 1]]
          /\ b - (a + 1) + 1 = b - a /\ b - a \in Nat
      BY <1>3
    <3>3. \A i \in 1 .. b - a : i + (a + 1) - 1 = a + i /\ a + i \in a + 1 .. b
      BY <1>3
    <3>4. \A i \in 1 .. Len(spoken) : spoken[i] \in Line
      BY <2>2
    <3> HIDE DEF piece
    <3> QED
      BY <3>1, <3>2, <3>3, <3>4
  <2>7. \A i \in 1 .. b - a : lines[i] = piece[i]
    <3> TAKE i \in 1 .. b - a
    <3>1. a + i \in 1 .. Len(spoken)
      BY <1>3, <2>3
    <3> QED
      BY <1>4, <2>3, <2>6, <3>1
  <2> HIDE DEF lines, piece
  <2>8. lines = piece
    BY <1>3, <1>4, <2>6, <2>7, SeqEqual
  <2> QED
    BY <2>5, <2>8 DEF piece, spoken
<1>8. r = [file |-> file, video |-> m, start |-> start, lines |-> lines]
  BY DEF Piece
<1> HIDE DEF start, lines, k
<1>9. r.start = start /\ r.lines = lines /\ r.video = m /\ r \in Record
  BY <1>4, <1>5, <1>8 DEF Record
<1>10. TimedWhereSpoken(r)
  BY <1>4, <1>5, <1>6, <1>7, <1>9 DEF TimedWhereSpoken
<1> QED
  BY <1>4, <1>9, <1>10 DEF Sound

(* The text of a document, cut into paragraphs.                            *)
LEMMA TextIsCut ==
  ASSUME said \in Speeches, NEW doc \in Transcript \cup {NoDoc}
  PROVE  IF doc.whole
         THEN /\ doc.of \in Meeting /\ doc.kind \in Kind
              /\ EmittedLines(Cues(doc.of, doc.kind)) \in Timed
              /\ Cuts(Text(doc), EmittedLines(Cues(doc.of, doc.kind)),
                      Len(EmittedLines(Cues(doc.of, doc.kind))))
         ELSE Text(doc) = <<>>
<1>1. CASE doc.whole
  <2>1. doc.of \in Meeting /\ doc.kind \in Kind
    BY <1>1 DEF Transcript, NoDoc, Fetchable
  <2>2. EmittedLines(Cues(doc.of, doc.kind)) \in Timed
    BY <2>1, SpokenAre
  <2> QED
    BY <1>1, <2>1, <2>2, ParagraphsCut DEF Text
<1>2. CASE ~ doc.whole
  BY <1>2 DEF Text
<1> QED
  BY <1>1, <1>2

LEMMA NothingMerged == Merged(<<>>) = <<>>
<1> DEFINE e == <<>>
           chunks == Merged(<<>>)
<1>1. e \in Timed /\ Len(e) = 0
  BY DEF Timed
<1>2. Cuts(<<>>, e, 0)
  BY CutsNothing
<1> HIDE DEF e
<1>3. Cuts(chunks, e, 0)
  BY <1>1, <1>2, MergedCut
<1> HIDE DEF chunks
<1>4. chunks \in Seq(Chunk) /\ Len(chunks) \in Nat
  BY <1>3 DEF Cuts
<1>5. ASSUME Len(chunks) # 0 PROVE FALSE
  <2>1. 1 \in 1 .. Len(chunks)
    BY <1>4, <1>5
  <2>2. \E a, b \in 0 .. 0 : a < b
    BY <1>1, <1>3, <2>1, CutsArePieces
  <2> QED
    BY <2>2
<1>6. chunks = <<>>
  BY <1>4, <1>5, EmptySeq
<1> QED
  BY <1>6 DEF chunks

(* The passages of a meeting's file are sound records.                     *)
LEMMA PassagesAre ==
  ASSUME said \in Speeches, docs \in [Path -> Transcript \cup {NoDoc}],
         NEW m \in Meeting, NEW file \in Path, docs[file] # NoDoc => docs[file].of = m
  PROVE  Passages(m, file) \in Seq(Sound)
<1> DEFINE doc == docs[file]
           merged == Merged(Text(doc))
           e == EmittedLines(Cues(doc.of, doc.kind))
<1>1. doc \in Transcript \cup {NoDoc}
  OBVIOUS
<1>2. Passages(m, file) = [i \in DOMAIN merged |->
        [file |-> file, video |-> m, start |-> merged[i].start, lines |-> merged[i].lines]]
  BY DEF Passages
<1>3. CASE ~ doc.whole
  <2>1. Text(doc) = <<>>
    BY <1>1, <1>3, TextIsCut
  <2>2. merged = <<>>
    BY <2>1, NothingMerged
  <2> HIDE DEF merged
  <2>3. DOMAIN merged = 1 .. 0
    BY <2>2
  <2>4. Passages(m, file) \in Seq(Sound)
    BY <1>2, <2>3
  <2> QED
    BY <2>4
<1>4. CASE doc.whole
  <2>1. doc # NoDoc /\ doc.of = m
    BY <1>4 DEF NoDoc
  <2>2. /\ doc.kind \in Kind /\ e \in Timed /\ Cuts(Text(doc), e, Len(e))
    BY <1>1, <1>4, TextIsCut
  <2>3. e = EmittedLines(Cues(m, doc.kind))
    BY <2>1
  <2>4. Len(e) \in Nat
    BY <2>2 DEF Timed
  <2> HIDE DEF e, doc
  <2>5. Cuts(merged, e, Len(e))
    BY <2>2, <2>4, MergedCut
  <2> HIDE DEF merged
  <2>6. merged \in Seq(Chunk) /\ Len(merged) \in Nat /\ DOMAIN merged = 1 .. Len(merged)
    BY <2>5 DEF Cuts
  <2>7. ASSUME NEW i \in 1 .. Len(merged)
        PROVE  [file |-> file, video |-> m, start |-> merged[i].start, lines |-> merged[i].lines] \in Sound
    <3>1. PICK a \in 0 .. Len(e), b \in 0 .. Len(e) : a < b /\ merged[i] = Piece(e, a, b)
      BY <2>2, <2>4, <2>5, CutsArePieces
    <3> DEFINE r == [file |-> file, video |-> m, start |-> Piece(e, a, b).start,
                     lines |-> Piece(e, a, b).lines]
    <3>2. r \in Sound
      BY <2>2, <2>3, <3>1, PiecesAreSound
    <3> QED
      BY <3>1, <3>2
  <2> QED
    BY <1>2, <2>6, <2>7
<1> QED
  BY <1>3, <1>4

(* Whatever file a meeting's passages are read from, they are records.     *)
Good == {r \in Record : r.lines # <<>>}

LEMMA PassagesAreRecords ==
  ASSUME said \in Speeches, docs \in [Path -> Transcript \cup {NoDoc}],
         NEW m \in Meeting, NEW file \in Path
  PROVE  Passages(m, file) \in Seq(Good)
<1>1. Sound \subseteq Good
  BY DEF Sound, Good
<1>2. CASE docs[file] = NoDoc
  BY <1>1, <1>2, PassagesAre
<1>3. CASE docs[file] # NoDoc
  <2> DEFINE n == docs[file].of
             merged == Merged(Text(docs[file]))
             made(v, i) == [file |-> file, video |-> v, start |-> merged[i].start, lines |-> merged[i].lines]
  <2>1. n \in Meeting
    BY <1>3 DEF Transcript, Fetchable
  <2>2. Passages(n, file) \in Seq(Sound)
    BY <2>1, PassagesAre
  <2>3. \A v : Passages(v, file) = [i \in DOMAIN merged |-> made(v, i)]
    BY DEF Passages
  <2> HIDE DEF n, merged
  <2>4. DOMAIN merged = 1 .. Len(Passages(n, file)) /\ Len(Passages(n, file)) \in Nat
    BY <2>2, <2>3
  <2>5. ASSUME NEW i \in DOMAIN merged PROVE made(m, i) \in Good
    <3>1. made(n, i) \in Sound
      BY <2>2, <2>3, <2>4
    <3>2. merged[i].start \in Nat \ {0} /\ merged[i].lines \in Seq(Line) /\ merged[i].lines # <<>>
      BY <3>1 DEF Sound, Record
    <3> QED
      BY <3>2 DEF Good, Record
  <2> QED
    BY <2>3, <2>4, <2>5
<1> QED
  BY <1>2, <1>3

(* And the words of a whole transcript are what was said.                  *)
LEMMA WordsAreSaid ==
  ASSUME said \in Speeches, NEW doc \in Transcript \cup {NoDoc}, doc.whole
  PROVE  Words(doc) = IF doc.kind = "auto" THEN said[doc.of] ELSE Unrepeated(said[doc.of])
<1> DEFINE e == EmittedLines(Cues(doc.of, doc.kind))
           lines == said[doc.of]
           words == [k \in 1 .. Len(e) |-> e[k][2]]
<1>1. /\ doc.of \in Meeting /\ doc.kind \in Kind /\ e \in Timed /\ Cuts(Text(doc), e, Len(e))
  BY TextIsCut
<1>2. Words(doc) = words
  <2> DEFINE text == Text(doc)
  <2> HIDE DEF e, text
  <2>1. FlattenSeq([i \in DOMAIN text |-> text[i].lines]) = [k \in 1 .. Len(e) |-> e[k][2]]
    BY <1>1, WordsOfCuts DEF text
  <2> QED
    BY <2>1 DEF Words, text
<1>3. lines \in Seq(Line)
  BY <1>1, SpokenAre
<1>4. CASE doc.kind = "auto"
  <2>1. e = [i \in 1 .. Len(lines) |-> <<2 * i - 1, lines[i]>>]
    BY <1>1, <1>4, SpokenAre
  <2> HIDE DEF lines, e
  <2>2. Len(e) = Len(lines) /\ Len(lines) \in Nat /\ \A k \in 1 .. Len(lines) : e[k][2] = lines[k]
    BY <1>3, <2>1
  <2>3. words \in Seq(Line) /\ Len(words) = Len(lines) /\ \A k \in 1 .. Len(lines) : words[k] = lines[k]
    BY <1>3, <2>2
  <2> HIDE DEF words
  <2>4. words = lines
    BY <1>3, <2>2, <2>3, SeqEqual
  <2> QED
    BY <1>2, <1>4, <2>4 DEF lines
<1>5. CASE doc.kind # "auto"
  <2>1. Cues(doc.of, doc.kind) = Plain(lines)
    BY <1>5 DEF Cues
  <2>2. Unrepeated(lines) = [k \in 1 .. Len(EmittedLines(Plain(lines))) |-> EmittedLines(Plain(lines))[k][2]]
    BY <1>3, EmittedOfPlain
  <2> QED
    BY <1>2, <1>5, <2>1, <2>2
<1> QED
  BY <1>4, <1>5

-------------------------------------------------------------------------------
(* SEQUENCES IN WHICH NOTHING BUT A BROKEN LINE IS THERE TWICE             *)
Once(s) == \A i, k \in DOMAIN s : s[i] = s[k] /\ s[i] # Broken => i = k

LEMMA OnceMore ==
  ASSUME NEW S, NEW s \in Seq(S), NEW p \in S, Once(s), p \notin ToSet(s) \/ p = Broken
  PROVE  /\ Append(s, p) \in Seq(S) /\ Once(Append(s, p))
         /\ ToSet(Append(s, p)) = ToSet(s) \cup {p}
<1> DEFINE t == Append(s, p)
           n == Len(s)
<1>1. n \in Nat /\ DOMAIN s = 1 .. n /\ ToSet(s) = {s[i] : i \in 1 .. n}
  BY DEF ToSet
<1>2. t \in Seq(S) /\ DOMAIN t = 1 .. n + 1 /\ t[n + 1] = p /\ \A i \in 1 .. n : t[i] = s[i]
  BY AppendProperties
<1> HIDE DEF t, n
<1>3. ToSet(t) = ToSet(s) \cup {p}
  <2>1. 1 .. n + 1 = 1 .. n \cup {n + 1}
    BY <1>1
  <2> QED
    BY <1>1, <1>2, <2>1 DEF ToSet
<1>4. Once(t)
  <2> SUFFICES ASSUME NEW i \in 1 .. n + 1, NEW k \in 1 .. n + 1, t[i] = t[k], t[i] # Broken
               PROVE  i = k
    BY <1>2 DEF Once
  <2>1. (i \in 1 .. n \/ i = n + 1) /\ (k \in 1 .. n \/ k = n + 1)
    BY <1>1
  <2> QED
    BY <1>1, <1>2, <2>1 DEF Once
<1> QED
  BY <1>2, <1>3, <1>4 DEF t

LEMMA OnceTogether ==
  ASSUME NEW S, NEW s \in Seq(S), NEW t \in Seq(S), Once(s), Once(t),
         ToSet(s) \cap ToSet(t) \subseteq {Broken}
  PROVE  s \o t \in Seq(S) /\ Once(s \o t) /\ ToSet(s \o t) = ToSet(s) \cup ToSet(t)
<1> DEFINE u == s \o t
           n == Len(s)
           m == Len(t)
<1>1. n \in Nat /\ DOMAIN s = 1 .. n /\ m \in Nat /\ DOMAIN t = 1 .. m
  OBVIOUS
<1>2. u \in Seq(S) /\ DOMAIN u = 1 .. n + m
      /\ \A i \in 1 .. n + m : u[i] = IF i <= n THEN s[i] ELSE t[i - n]
  BY ConcatProperties
<1> HIDE DEF u, n, m
<1>3. \A i \in 1 .. n + m : \/ i \in 1 .. n /\ u[i] = s[i]
                            \/ i - n \in 1 .. m /\ u[i] = t[i - n] /\ i > n
  BY <1>1, <1>2
<1>4. ToSet(u) \subseteq ToSet(s) \cup ToSet(t)
  BY <1>1, <1>2, <1>3 DEF ToSet
<1>5. ToSet(s) \cup ToSet(t) \subseteq ToSet(u)
  <2>1. \A i \in 1 .. n : i \in 1 .. n + m /\ u[i] = s[i]
    BY <1>1, <1>2
  <2>2. \A i \in 1 .. m : i + n \in 1 .. n + m /\ u[i + n] = t[i]
    BY <1>1, <1>2
  <2> QED
    <3>1. ASSUME NEW i \in 1 .. n PROVE s[i] \in ToSet(u)
      BY <1>2, <2>1 DEF ToSet
    <3>2. ASSUME NEW i \in 1 .. m PROVE t[i] \in ToSet(u)
      <4>1. i + n \in DOMAIN u /\ u[i + n] = t[i]
        BY <1>2, <2>2
      <4> QED
        BY <4>1 DEF ToSet
    <3> QED
      BY <1>1, <3>1, <3>2 DEF ToSet
<1>6. Once(u)
  <2> SUFFICES ASSUME NEW i \in 1 .. n + m, NEW k \in 1 .. n + m, u[i] = u[k], u[i] # Broken
               PROVE  i = k
    BY <1>2 DEF Once
  <2>1. \A x \in 1 .. n, y \in 1 .. m : s[x] = t[y] => s[x] = Broken
    BY <1>1 DEF ToSet
  <2>2. CASE i \in 1 .. n /\ k \in 1 .. n
    BY <1>1, <1>3, <2>2 DEF Once
  <2>3. CASE i \in 1 .. n /\ k \notin 1 .. n
    BY <1>1, <1>3, <2>1, <2>3
  <2>4. CASE i \notin 1 .. n /\ k \in 1 .. n
    BY <1>1, <1>3, <2>1, <2>4
  <2>5. CASE i \notin 1 .. n /\ k \notin 1 .. n
    <3>1. i - n \in 1 .. m /\ k - n \in 1 .. m /\ t[i - n] = t[k - n] /\ t[i - n] # Broken
      BY <1>3, <2>5
    <3>2. i - n = k - n
      BY <1>1, <3>1 DEF Once
    <3> QED
      BY <1>1, <3>2
  <2> QED
    BY <2>2, <2>3, <2>4, <2>5
<1> QED
  BY <1>2, <1>4, <1>5, <1>6 DEF u

LEMMA OnceInPart ==
  ASSUME NEW S, NEW s \in Seq(S), Once(s), NEW a \in Int, NEW b \in Int, 1 <= a, b <= Len(s)
  PROVE  /\ SubSeq(s, a, b) \in Seq(S) /\ Once(SubSeq(s, a, b))
         /\ ToSet(SubSeq(s, a, b)) \subseteq ToSet(s)
         /\ \A i \in b + 1 .. Len(s) : s[i] \in ToSet(SubSeq(s, a, b)) => s[i] = Broken
<1> DEFINE t == SubSeq(s, a, b)
           n == Len(s)
<1>1. n \in Nat /\ DOMAIN s = 1 .. n
  OBVIOUS
<1>2. \A i \in a .. b : i \in 1 .. n /\ s[i] \in S
  BY <1>1
<1>3. /\ t \in Seq(S) /\ Len(t) = IF a <= b THEN b - a + 1 ELSE 0
      /\ \A i \in 1 .. b - a + 1 : t[i] = s[a + i - 1]
  BY <1>2, SubSeqProperties
<1>4. DOMAIN t = 1 .. Len(t)
  BY <1>3
<1> HIDE DEF t
<1>5. \A i \in DOMAIN t : a + i - 1 \in 1 .. n /\ t[i] = s[a + i - 1] /\ i \in Int /\ a + i - 1 <= b
  BY <1>1, <1>3, <1>4
<1> HIDE DEF n
<1>6. Once(t)
  <2> SUFFICES ASSUME NEW i \in DOMAIN t, NEW k \in DOMAIN t, t[i] = t[k], t[i] # Broken PROVE i = k
    BY DEF Once
  <2>1. a + i - 1 = a + k - 1
    BY <1>1, <1>5 DEF Once
  <2> QED
    BY <1>5, <2>1
<1>7. ToSet(t) \subseteq ToSet(s)
  BY <1>1, <1>5 DEF ToSet
<1>8. \A i \in b + 1 .. n : s[i] \in ToSet(t) => s[i] = Broken
  <2> SUFFICES ASSUME NEW i \in b + 1 .. n, NEW k \in DOMAIN t, s[i] = t[k], s[i] # Broken PROVE FALSE
    BY DEF ToSet
  <2>1. a + k - 1 \in 1 .. n /\ s[a + k - 1] = s[i] /\ a + k - 1 <= b
    BY <1>5
  <2>2. i \in 1 .. n
    <3>1. 1 .. b \subseteq 1 .. n
      BY <1>1 DEF n
    <3> QED
      BY <1>1, <2>1
  <2>3. i = a + k - 1
    BY <1>1, <2>1, <2>2 DEF Once
  <2> QED
    BY <2>1, <2>3
<1> QED
  BY <1>3, <1>6, <1>7, <1>8 DEF t, n

-------------------------------------------------------------------------------
(* ONE RUN                                                                 *)
RunOfJob ==
  [phase : {"idle", "reading"}, mode : {None, "append", "rebuild"}, limit : Limits, file : FileMap,
   meetings : Seq(Meeting), known : SUBSET Good, buffer : Seq(Good), parked : SUBSET Good,
   seen : Nat, full : BOOLEAN, detached : BOOLEAN, glued : BOOLEAN, moved : BOOLEAN]

(* What a run knows is what was there and what it has written, once each.  *)
Writes(run, there) ==
  /\ run.known = there \cup ToSet(run.buffer)
  /\ there \cap ToSet(run.buffer) = {}
  /\ Once(run.buffer)

(* How a run grows while it classifies passages.                           *)
Grown(run, old) ==
  /\ run \in RunOfJob
  /\ run.phase = old.phase /\ run.mode = old.mode /\ run.limit = old.limit /\ run.file = old.file
  /\ run.meetings = old.meetings
  /\ run.detached = old.detached /\ run.glued = old.glued /\ run.moved = old.moved
  /\ old.known \subseteq run.known /\ old.parked \subseteq run.parked
  /\ ~ run.full => ~ old.full

LEMMA BrokenIs == Broken \notin Good
BY FetchConstants DEF Broken, Good, Record

LEMMA ClassifiedIs ==
  ASSUME NEW run \in RunOfJob, NEW there, Writes(run, there), NEW p \in Good, NEW fails \in BOOLEAN
  PROVE  /\ Grown(Classified(run, p, fails), run) /\ Writes(Classified(run, p, fails), there)
         /\ ~ Classified(run, p, fails).full =>
              p \in Classified(run, p, fails).known \cup Classified(run, p, fails).parked
         /\ ToSet(Classified(run, p, fails).buffer) \subseteq ToSet(run.buffer) \cup {p}
<1> DEFINE written == ~ fails /\ p \notin run.known
           full == ~ (~ fails /\ p \in run.known) /\ run.limit # 0 /\ run.seen + 1 >= run.limit
           seen == IF run.limit = 0 THEN 0 ELSE run.seen + 1
           known == IF written THEN run.known \cup {p} ELSE run.known
           buffer == IF written THEN Append(run.buffer, p) ELSE run.buffer
           parked == IF fails THEN run.parked \cup {p} ELSE run.parked
           new == Classified(run, p, fails)
<1>1. CASE run.full
  <2>1. new = run
    BY <1>1 DEF Classified
  <2> HIDE DEF new
  <2> QED
    BY <1>1, <2>1 DEF Grown, new
<1>2. CASE ~ run.full
  <2>1. new = [run EXCEPT !.seen = seen, !.known = known, !.buffer = buffer, !.parked = parked,
                          !.full = full]
    BY <1>2 DEF Classified
  <2>2. run.buffer \in Seq(Good) /\ run.known \subseteq Good /\ run.parked \subseteq Good
        /\ run.seen \in Nat /\ run.limit \in Limits
    BY DEF RunOfJob
  <2>3. /\ known \in SUBSET Good /\ buffer \in Seq(Good) /\ parked \in SUBSET Good
        /\ known = there \cup ToSet(buffer) /\ there \cap ToSet(buffer) = {} /\ Once(buffer)
        /\ run.known \subseteq known /\ run.parked \subseteq parked
        /\ p \in known \cup parked
        /\ ToSet(buffer) \subseteq ToSet(run.buffer) \cup {p}
    <3>1. CASE written
      <4>1. p \notin run.known /\ p \notin ToSet(run.buffer) /\ p \notin there
        BY <3>1 DEF Writes
      <4>2. /\ Append(run.buffer, p) \in Seq(Good) /\ Once(Append(run.buffer, p))
            /\ ToSet(Append(run.buffer, p)) = ToSet(run.buffer) \cup {p}
        BY <2>2, <4>1, OnceMore DEF Writes
      <4>3. known = run.known \cup {p} /\ buffer = Append(run.buffer, p) /\ parked = run.parked
        BY <3>1
      <4> HIDE DEF known, buffer, parked
      <4> QED
        BY <2>2, <4>1, <4>2, <4>3 DEF Writes
    <3>2. CASE ~ written
      <4>1. known = run.known /\ buffer = run.buffer
            /\ parked \subseteq run.parked \cup {p} /\ run.parked \subseteq parked
            /\ p \in known \cup parked
        BY <3>2
      <4> HIDE DEF known, buffer, parked
      <4> QED
        BY <2>2, <4>1 DEF Writes
    <3> QED
      BY <3>1, <3>2
  <2>4. seen \in Nat /\ full \in BOOLEAN
    BY <2>2, IngestConstants
  <2> HIDE DEF seen, known, buffer, parked, full, new
  <2>5. /\ new \in RunOfJob /\ new.known = known /\ new.buffer = buffer /\ new.parked = parked
        /\ new.phase = run.phase /\ new.mode = run.mode /\ new.limit = run.limit
        /\ new.file = run.file /\ new.meetings = run.meetings
        /\ new.detached = run.detached /\ new.glued = run.glued /\ new.moved = run.moved
    BY <2>1, <2>3, <2>4 DEF RunOfJob
  <2>6. Grown(new, run) /\ Writes(new, there)
    BY <1>2, <2>3, <2>5 DEF Grown, Writes
  <2> QED
    BY <2>3, <2>5, <2>6 DEF new
<1> QED
  BY <1>1, <1>2

ClassifySteps(f, k, run, passages, failing) ==
  f = [i \in 0 .. k |-> IF i = 0 THEN run ELSE Classified(f[i - 1], passages[i], passages[i] \in failing)]

LEMMA ClassifyStepsExist ==
  ASSUME NEW run, NEW passages, NEW failing, NEW n \in Nat
  PROVE  \E f : ClassifySteps(f, n, run, passages, failing)
<1> DEFINE S == {k \in 0 .. n : \E f : ClassifySteps(f, k, run, passages, failing)}
<1>1. 0 \in S
  <2> DEFINE f == [i \in 0 .. 0 |-> run]
  <2>1. ClassifySteps(f, 0, run, passages, failing)
    BY DEF ClassifySteps
  <2> QED
    BY <2>1
<1>2. ASSUME NEW k \in 1 .. n, k - 1 \in S PROVE k \in S
  <2>1. PICK f : ClassifySteps(f, k - 1, run, passages, failing)
    BY <1>2
  <2> DEFINE last == Classified(f[k - 1], passages[k], passages[k] \in failing)
             g == [i \in 0 .. k |-> IF i = k THEN last ELSE f[i]]
             h == k - 1
  <2>2. \A i \in 0 .. k :
          g[i] = IF i = 0 THEN run ELSE Classified(g[i - 1], passages[i], passages[i] \in failing)
    <3> TAKE i \in 0 .. k
    <3>1. CASE i = k
      <4>1. g[i] = last /\ g[i - 1] = f[k - 1] /\ i # 0
        BY <3>1
      <4> HIDE DEF g
      <4> QED
        BY <3>1, <4>1
    <3>2. CASE i # k
      <4>1. i \in 0 .. h /\ (i # 0 => i - 1 \in 0 .. h) /\ k \notin 0 .. h /\ 0 .. h \subseteq 0 .. k
        BY <3>2
      <4>2. f[i] = IF i = 0 THEN run ELSE Classified(f[i - 1], passages[i], passages[i] \in failing)
        BY <2>1, <4>1 DEF ClassifySteps
      <4>3. g[i] = f[i] /\ (i # 0 => g[i - 1] = f[i - 1])
        BY <4>1
      <4> HIDE DEF g
      <4> QED
        BY <4>2, <4>3
    <3> QED
      BY <3>1, <3>2
  <2>3. g = [i \in 0 .. k |-> g[i]]
    OBVIOUS
  <2>4. ClassifySteps(g, k, run, passages, failing)
    <3> HIDE DEF g
    <3> QED
      BY <2>2, <2>3 DEF ClassifySteps
  <2> QED
    BY <2>4
<1>3. n \in 0 .. n
  OBVIOUS
<1> HIDE DEF S
<1>4. n \in S
  BY <1>1, <1>2, <1>3, Induct
<1> QED
  BY <1>4 DEF S

LEMMA ClassifiedAllIs ==
  ASSUME NEW run \in RunOfJob, NEW there, Writes(run, there), NEW passages \in Seq(Good), NEW failing
  PROVE  LET new == ClassifiedAll(run, passages, failing)
         IN /\ Grown(new, run) /\ Writes(new, there)
            /\ ~ new.full => ToSet(passages) \subseteq new.known \cup new.parked
            /\ ToSet(new.buffer) \subseteq ToSet(run.buffer) \cup ToSet(passages)
<1> DEFINE n == Len(passages)
           after == CHOOSE f : ClassifySteps(f, n, run, passages, failing)
           fails(i) == passages[i] \in failing
<1>1. n \in Nat /\ \A i \in 1 .. n : passages[i] \in Good
  OBVIOUS
<1>2. ClassifySteps(after, n, run, passages, failing)
  BY <1>1, ClassifyStepsExist
<1>3. ClassifiedAll(run, passages, failing) = after[n]
  BY DEF ClassifiedAll, ClassifySteps
<1> HIDE DEF after
<1>4. after[0] = run /\ \A i \in 1 .. n : after[i] = Classified(after[i - 1], passages[i], fails(i))
  <2>1. 0 \in 0 .. n /\ \A i \in 1 .. n : i \in 0 .. n /\ i # 0
    BY <1>1
  <2> QED
    BY <1>2, <2>1 DEF ClassifySteps
<1> DEFINE S == {i \in 0 .. n :
                   /\ Grown(after[i], run) /\ Writes(after[i], there)
                   /\ ~ after[i].full => \A k \in 1 .. i : passages[k] \in after[i].known \cup after[i].parked
                   /\ ToSet(after[i].buffer) \subseteq ToSet(run.buffer) \cup ToSet(passages)}
<1>5. 0 \in S
  BY <1>1, <1>4 DEF Grown
<1>6. ASSUME NEW i \in 1 .. n, i - 1 \in S PROVE i \in S
  <2> DEFINE old == after[i - 1]
             new == after[i]
             p == passages[i]
  <2>1. /\ Grown(old, run) /\ Writes(old, there)
        /\ ~ old.full => \A k \in 1 .. i - 1 : passages[k] \in old.known \cup old.parked
        /\ ToSet(old.buffer) \subseteq ToSet(run.buffer) \cup ToSet(passages)
    BY <1>6
  <2>2. new = Classified(old, p, fails(i)) /\ p \in Good /\ p \in ToSet(passages) /\ fails(i) \in BOOLEAN
    BY <1>1, <1>4 DEF ToSet
  <2> HIDE DEF old, new, fails
  <2>3. old \in RunOfJob
    BY <2>1 DEF Grown
  <2>4. /\ Grown(new, old) /\ Writes(new, there)
        /\ ~ new.full => p \in new.known \cup new.parked
        /\ ToSet(new.buffer) \subseteq ToSet(old.buffer) \cup {p}
    BY <2>1, <2>2, <2>3, ClassifiedIs
  <2>5. Grown(new, run)
    BY <2>1, <2>4 DEF Grown
  <2>6. ~ new.full => \A k \in 1 .. i : passages[k] \in new.known \cup new.parked
    <3> SUFFICES ASSUME ~ new.full, NEW k \in 1 .. i PROVE passages[k] \in new.known \cup new.parked
      OBVIOUS
    <3>1. CASE k = i
      BY <2>4, <3>1
    <3>2. CASE k # i
      <4>1. k \in 1 .. i - 1
        BY <3>2
      <4> QED
        BY <2>1, <2>4, <4>1 DEF Grown
    <3> QED
      BY <3>1, <3>2
  <2>7. ToSet(new.buffer) \subseteq ToSet(run.buffer) \cup ToSet(passages)
    BY <2>1, <2>2, <2>4
  <2>8. i \in 0 .. n
    BY <1>1
  <2> QED
    BY <2>4, <2>5, <2>6, <2>7, <2>8 DEF new
<1>7. n \in 0 .. n
  BY <1>1
<1> HIDE DEF S
<1>8. n \in S
  BY <1>1, <1>5, <1>6, <1>7, Induct
<1>9. DOMAIN passages = 1 .. n
  OBVIOUS
<1> QED
  BY <1>3, <1>8, <1>9 DEF S, ToSet

-------------------------------------------------------------------------------
(* THE RECORDS AND THE RUNS                                                *)
RecordsOK ==
  records \in Seq(Good \cup {Broken}) /\ Once(records) /\ torn \in BOOLEAN /\ dead \subseteq Good

(* The passages of every file there is, and those a catalogue leads to.    *)
Held == [m \in Meeting |-> [p \in Path |-> IF docs[p] # NoDoc THEN ToSet(Passages(m, p)) ELSE {}]]
Listed(file, held) == UNION {held[m][file[m]] : m \in {n \in Meeting : file[n] # None}}

(* What a run has not come to yet is all that is missing of the archive.   *)
Covered(run, held) ==
  ~ run.full => \A m \in Meeting : run.file[m] # None =>
    m \in ToSet(run.meetings) \/ held[m][run.file[m]] \subseteq run.known \cup run.parked

Reading(run, ids, open, held) ==
  /\ run.mode \in {"append", "rebuild"} /\ Aimed(run.file)
  /\ \E there : Writes(run, there)
  /\ run.mode = "rebuild" => Writes(run, {})
  /\ run.mode = "append" /\ ~ run.detached => Writes(run, ids) /\ run.glued = open
  /\ ~ run.moved => Covered(run, held)
  /\ ~ run.moved /\ run.mode = "rebuild" => ToSet(run.buffer) \subseteq Listed(run.file, held)

(* One process appends at a time: it is the command line.                  *)
JobsOK ==
  /\ job \in [Job -> RunOfJob]
  /\ \A j \in Job : IF job[j].phase = "reading"
                    THEN Reading(job[j], ExistingIds, torn, Held) ELSE job[j] = Idle
  /\ job["ui"].mode # "append"

IngestInv == ArchiveInv /\ RecordsOK /\ JobsOK

LEMMA IdleIs ==
  Idle \in RunOfJob /\ Idle.phase = "idle" /\ Idle.mode = None /\ Idle.buffer = <<>> /\ Idle.parked = {}
BY NoRunIs, IngestConstants DEF Idle, RunOfJob

LEMMA IngestStart == Init => IngestInv
<1> SUFFICES ASSUME Init PROVE IngestInv
  OBVIOUS
<1>1. ArchiveInv
  BY ArchiveStart DEF Init
<1>2. RecordsOK
  <2>1. records = <<>> /\ torn = FALSE /\ dead = {}
    BY DEF Init, IngestInit
  <2>2. records \in Seq(Good \cup {Broken}) /\ DOMAIN records = {}
    BY <2>1
  <2> QED
    BY <2>1, <2>2 DEF RecordsOK, Once
<1>3. job = [j \in Job |-> Idle] /\ "ui" \in Job
  BY DEF Init, IngestInit, Job
<1>4. JobsOK
  BY <1>3, IdleIs DEF JobsOK, None
<1> QED
  BY <1>1, <1>2, <1>4 DEF IngestInv

LEMMA HeldStays ==
  ASSUME UNCHANGED <<said, docs>>
  PROVE  Held' = Held
<1>1. \A m, kind : Cues(m, kind)' = Cues(m, kind)
  BY DEF Cues
<1>2. \A doc : Text(doc)' = Text(doc)
  BY DEF Text, Cues
<1>3. \A m, file : Passages(m, file)' = Passages(m, file)
  BY <1>2 DEF Passages
<1> QED
  BY <1>3 DEF Held

LEMMA HeldIs ==
  ASSUME ArchiveInv, NEW file \in FileMap
  PROVE  /\ ArchivePassages(file) = Listed(file, Held)
         /\ \A m \in Meeting : file[m] # None =>
              /\ HasFile(file, m) => Held[m][file[m]] = ToSet(Passages(m, file[m]))
              /\ ~ HasFile(file, m) => Held[m][file[m]] = {}
<1>1. ASSUME NEW m \in Meeting, file[m] # None
      PROVE  /\ HasFile(file, m) => Held[m][file[m]] = ToSet(Passages(m, file[m]))
             /\ ~ HasFile(file, m) => Held[m][file[m]] = {}
  BY <1>1 DEF FileMap, HasFile, Held
<1>2. \A m \in Meeting : HasFile(file, m) => file[m] # None
  BY DEF HasFile
<1>3. ASSUME NEW p PROVE p \in ArchivePassages(file) <=> p \in Listed(file, Held)
  <2>1. ASSUME p \in ArchivePassages(file) PROVE p \in Listed(file, Held)
    BY <1>1, <1>2, <2>1 DEF ArchivePassages, Listed
  <2>2. ASSUME p \in Listed(file, Held) PROVE p \in ArchivePassages(file)
    <3>1. PICK m \in Meeting : file[m] # None /\ p \in Held[m][file[m]]
      BY <2>2 DEF Listed
    <3>2. HasFile(file, m) /\ p \in ToSet(Passages(m, file[m]))
      BY <1>1, <3>1
    <3> QED
      BY <3>2 DEF ArchivePassages
  <2> QED
    BY <2>1, <2>2
<1> QED
  BY <1>1, <1>3

(* The records, with lines behind them that are not there yet.             *)
LEMMA ExtendedIs ==
  ASSUME RecordsOK, NEW lines \in Seq(Good \cup {Broken}), Once(lines), ToSet(lines) \cap ExistingIds = {}
  PROVE  /\ Extended(lines) \in Seq(Good \cup {Broken}) /\ Once(Extended(lines))
         /\ ~ torn => ToSet(Extended(lines)) = ToSet(records) \cup ToSet(lines)
         /\ ToSet(Extended(lines)) \subseteq ToSet(records) \cup ToSet(lines) \cup {Broken}
<1> DEFINE S == Good \cup {Broken}
           front == Front(records)
           middle == <<Broken>>
           tail == Tail(lines)
<1>1. records \in Seq(S) /\ Once(records) /\ ToSet(lines) \cap ToSet(records) \subseteq {Broken}
  BY DEF RecordsOK, ExistingIds
<1> HIDE DEF S
<1>2. CASE lines = <<>>
  <2>1. Extended(lines) = records /\ ToSet(lines) = {}
    BY <1>2 DEF Extended, ToSet
  <2> QED
    BY <1>1, <2>1 DEF S
<1>3. CASE lines # <<>> /\ ~ torn
  <2>1. Extended(lines) = records \o lines
    BY <1>3 DEF Extended
  <2>2. lines \in Seq(S) /\ ToSet(records) \cap ToSet(lines) \subseteq {Broken}
    BY <1>1 DEF S
  <2> QED
    BY <1>1, <1>3, <2>1, <2>2, OnceTogether DEF S
<1>4. CASE lines # <<>> /\ torn
  <2>1. Extended(lines) = (front \o middle) \o tail
    BY <1>4 DEF Extended
  <2>2. lines \in Seq(S) /\ Len(lines) \in Nat /\ Len(records) \in Nat
    BY <1>1 DEF S
  <2>3. front \in Seq(S) /\ Once(front) /\ ToSet(front) \subseteq ToSet(records)
    BY <1>1, <2>2, OnceInPart DEF Front
  <2>4. tail \in Seq(S) /\ Once(tail) /\ ToSet(tail) \subseteq ToSet(lines)
    <3>1. tail = SubSeq(lines, 2, Len(lines))
      BY <1>4, <2>2
    <3> DEFINE two == 2
               n == Len(lines)
    <3>2. two \in Int /\ n \in Int /\ 1 <= two /\ n <= Len(lines)
      BY <2>2
    <3> HIDE DEF two, n, tail
    <3>3. tail = SubSeq(lines, two, n)
      BY <3>1 DEF two, n
    <3> QED
      BY <2>2, <3>2, <3>3, OnceInPart
  <2>5. middle \in Seq(S) /\ Once(middle) /\ ToSet(middle) = {Broken}
    <3>1. Broken \in S
      BY DEF S
    <3> DEFINE b == Broken
    <3> HIDE DEF b
    <3>2. <<b>> \in Seq({b}) /\ DOMAIN <<b>> = 1 .. 1 /\ <<b>>[1] = b
      OBVIOUS
    <3>3. 1 .. 1 = {1}
      OBVIOUS
    <3>4. ToSet(<<b>>) = {b} /\ Once(<<b>>)
      BY <3>2, <3>3 DEF ToSet, Once
    <3> QED
      BY <3>1, <3>4 DEF b
  <2> HIDE DEF front, middle, tail
  <2>6. front \o middle \in Seq(S) /\ Once(front \o middle)
        /\ ToSet(front \o middle) = ToSet(front) \cup {Broken}
    BY <2>3, <2>5, OnceTogether
  <2>7. ToSet(front \o middle) \cap ToSet(tail) \subseteq {Broken}
    BY <1>1, <2>3, <2>4, <2>6
  <2> DEFINE start == front \o middle
  <2> HIDE DEF start
  <2>8. start \o tail \in Seq(S) /\ Once(start \o tail)
        /\ ToSet(start \o tail) = ToSet(start) \cup ToSet(tail)
    BY <2>4, <2>6, <2>7, OnceTogether DEF start
  <2>9. ToSet(start \o tail) \subseteq ToSet(records) \cup ToSet(lines) \cup {Broken}
    BY <2>3, <2>4, <2>6, <2>8 DEF start
  <2> QED
    BY <1>4, <2>1, <2>8, <2>9 DEF S, start
<1> QED
  BY <1>2, <1>3, <1>4

-------------------------------------------------------------------------------
(* THE STEPS                                                               *)
(* What a run that is not this one sees of it.                             *)
LEMMA OthersRead ==
  ASSUME NEW run, NEW ids, NEW open, NEW held, Reading(run, ids, open, held),
         NEW ids2, NEW open2, run.mode # "append"
  PROVE  Reading(run, ids2, open2, held)
BY DEF Reading

LEMMA DetachedReads ==
  ASSUME NEW run \in RunOfJob, NEW ids, NEW open, NEW held, Reading(run, ids, open, held),
         NEW ids2, NEW open2, NEW run2, run2 = [run EXCEPT !.detached = TRUE], run.mode = "append"
  PROVE  run2 \in RunOfJob /\ Reading(run2, ids2, open2, held) /\ run2.phase = run.phase
         /\ run2.mode = run.mode
<1>1. /\ run2 \in RunOfJob /\ run2.detached = TRUE /\ run2.phase = run.phase /\ run2.mode = run.mode
      /\ run2.file = run.file /\ run2.known = run.known /\ run2.buffer = run.buffer
      /\ run2.parked = run.parked /\ run2.full = run.full /\ run2.meetings = run.meetings
      /\ run2.moved = run.moved /\ run2.glued = run.glued
  BY DEF RunOfJob
<1> QED
  BY <1>1 DEF Reading, Writes, Covered

(* The archive has changed under a run.                                    *)
LEMMA MovedReads ==
  ASSUME NEW run \in RunOfJob, NEW ids, NEW open, NEW held, Reading(run, ids, open, held),
         NEW held2, NEW run2, run2 = [run EXCEPT !.moved = TRUE]
  PROVE  run2 \in RunOfJob /\ Reading(run2, ids, open, held2) /\ run2.phase = run.phase
         /\ run2.mode = run.mode
<1>1. /\ run2 \in RunOfJob /\ run2.moved = TRUE /\ run2.phase = run.phase /\ run2.mode = run.mode
      /\ run2.file = run.file /\ run2.known = run.known /\ run2.buffer = run.buffer
      /\ run2.detached = run.detached /\ run2.glued = run.glued
  BY DEF RunOfJob
<1> QED
  BY <1>1 DEF Reading, Writes

LEMMA ArchiveKeepsJobs ==
  ASSUME IngestInv, Archive
  PROVE  RecordsOK' /\ JobsOK'
<1> DEFINE changed == <<docs, catalog>>' # <<docs, catalog>>
<1>1. /\ job' = [j \in Job |-> IF changed /\ job[j].phase # "idle"
                               THEN [job[j] EXCEPT !.moved = TRUE] ELSE job[j]]
      /\ UNCHANGED <<records, torn, dead>> /\ FetchNext
  BY DEF Archive
<1>2. said' = said
  BY <1>1 DEF FetchNext, StartFetch, Download, TimeOut, WriteTranscript, SaveCatalog, KillFetch,
              RemoveTranscript
<1>3. ~ changed => Held' = Held
  BY <1>2, HeldStays
<1>4. RecordsOK'
  BY <1>1 DEF IngestInv, RecordsOK
<1>5. ExistingIds' = ExistingIds
  BY <1>1 DEF ExistingIds
<1> HIDE DEF changed
<1>6. ASSUME NEW j \in Job
      PROVE  /\ job'[j] \in RunOfJob /\ job'[j].mode = job[j].mode
             /\ IF job'[j].phase = "reading"
                THEN Reading(job'[j], ExistingIds', torn', Held') ELSE job'[j] = Idle
  <2>1. job[j] \in RunOfJob /\ job[j].phase \in {"idle", "reading"}
    BY DEF IngestInv, JobsOK, RunOfJob
  <2>2. CASE job[j].phase = "reading" /\ changed
    <3>1. job'[j] = [job[j] EXCEPT !.moved = TRUE]
      BY <1>1, <2>2
    <3>2. Reading(job[j], ExistingIds, torn, Held)
      BY <2>2 DEF IngestInv, JobsOK
    <3>3. job'[j] \in RunOfJob /\ Reading(job'[j], ExistingIds, torn, Held')
          /\ job'[j].phase = job[j].phase /\ job'[j].mode = job[j].mode
      BY <2>1, <3>1, <3>2, MovedReads
    <3> QED
      BY <1>1, <1>5, <2>2, <3>3
  <2>3. CASE ~ (job[j].phase = "reading" /\ changed)
    <3>1. job'[j] = job[j]
      BY <1>1, <2>1, <2>3
    <3>2. CASE job[j].phase = "reading"
      <4>1. Held' = Held
        BY <1>3, <2>3, <3>2
      <4> QED
        BY <1>1, <1>5, <2>1, <3>1, <3>2, <4>1 DEF IngestInv, JobsOK
    <3>3. CASE job[j].phase # "reading"
      BY <2>1, <3>1, <3>3 DEF IngestInv, JobsOK
    <3> QED
      BY <3>2, <3>3
  <2> QED
    BY <2>1, <2>2, <2>3
<1>7. job' = [j \in Job |-> job'[j]] /\ "ui" \in Job
  BY <1>1 DEF Job
<1>8. job' \in [Job -> RunOfJob]
  BY <1>6, <1>7
<1> QED
  BY <1>4, <1>6, <1>7, <1>8 DEF IngestInv, JobsOK

(* One run goes on, and nothing else changes.                              *)
LEMMA RunGoesOn ==
  ASSUME IngestInv, NEW j \in Job, NEW run \in RunOfJob, job' = [job EXCEPT ![j] = run],
         run.phase = "reading", Reading(run, ExistingIds, torn, Held), j = "ui" => run.mode # "append",
         UNCHANGED <<fetchVars, incidents, records, torn, dead>>
  PROVE  IngestInv'
<1>1. ArchiveInv' /\ RecordsOK'
  BY ArchiveStep DEF IngestInv, RecordsOK
<1>2. Held' = Held /\ ExistingIds' = ExistingIds /\ torn' = torn
  BY HeldStays DEF ExistingIds, fetchVars
<1>3. \A k \in Job : job'[k] = IF k = j THEN run ELSE job[k]
  BY DEF IngestInv, JobsOK
<1>4. job' \in [Job -> RunOfJob] /\ "ui" \in Job
  BY DEF IngestInv, JobsOK, Job
<1>5. \A k \in Job : IF job'[k].phase = "reading"
                     THEN Reading(job'[k], ExistingIds', torn', Held') ELSE job'[k] = Idle
  BY <1>2, <1>3 DEF IngestInv, JobsOK
<1>6. job'["ui"].mode # "append"
  BY <1>3, <1>4 DEF IngestInv, JobsOK
<1> QED
  BY <1>1, <1>4, <1>5, <1>6 DEF IngestInv, JobsOK

LEMMA StartJobKeeps ==
  ASSUME IngestInv, NEW j \in Job, NEW mode \in {"append", "rebuild"}, NEW limit \in Limits,
         StartJob(j, mode, limit)
  PROVE  IngestInv'
<1> DEFINE known == IF mode = "append" THEN ExistingIds ELSE {}
           glued == mode = "append" /\ torn
           all == [m \in Meeting |-> m]
           run == [Idle EXCEPT !.phase = "reading", !.mode = mode, !.limit = limit, !.file = catalog,
                               !.meetings = all, !.known = known, !.glued = glued]
<1>1. /\ job' = [job EXCEPT ![j] = run] /\ (j = "ui" => mode = "rebuild")
      /\ UNCHANGED <<fetchVars, incidents, records, torn, dead>>
  BY DEF StartJob
<1>2. all \in Seq(Meeting) /\ ToSet(all) = Meeting
  <2>1. Meetings \in Nat
    BY FetchConstants
  <2>2. all = [m \in 1 .. Meetings |-> m]
    BY DEF Meeting
  <2>3. all \in Seq(Meeting)
    BY <2>1, <2>2 DEF Meeting
  <2> QED
    BY <2>3 DEF ToSet
<1>3. known \in SUBSET Good /\ glued \in BOOLEAN
  <2>1. ExistingIds \subseteq Good
    BY DEF IngestInv, RecordsOK, ExistingIds, ToSet
  <2> QED
    BY <2>1 DEF IngestInv, RecordsOK
<1>4. catalog \in FileMap /\ Aimed(catalog)
  BY DEF IngestInv, ArchiveInv
<1>5. known = (IF mode = "append" THEN ExistingIds ELSE {}) /\ (mode = "append" => glued = torn)
  BY DEF IngestInv, RecordsOK
<1> HIDE DEF all, known, glued
<1>6. /\ run \in RunOfJob /\ run.phase = "reading" /\ run.mode = mode /\ run.file = catalog
      /\ run.meetings = all /\ run.known = known /\ run.glued = glued /\ run.buffer = <<>>
      /\ ~ run.moved /\ ~ run.detached
  BY <1>2, <1>3, <1>4, IdleIs DEF RunOfJob, Idle
<1> HIDE DEF run
<1>7. ToSet(run.buffer) = {} /\ Once(run.buffer)
  <2>1. DOMAIN run.buffer = {}
    BY <1>6
  <2> QED
    BY <2>1 DEF ToSet, Once
<1>8. Writes(run, known)
  BY <1>6, <1>7 DEF Writes
<1>9. Reading(run, ExistingIds, torn, Held)
  BY <1>2, <1>4, <1>5, <1>6, <1>7, <1>8 DEF Reading, Covered
<1> QED
  BY <1>1, <1>6, <1>9, RunGoesOn

(* The passages of the meeting a run has come to.                          *)
HeldOf(m, file, held) == IF file[m] # None THEN held[m][file[m]] ELSE {}
PassagesNow(run) ==
  IF HasFile(run.file, Head(run.meetings))
  THEN Passages(Head(run.meetings), run.file[Head(run.meetings)]) ELSE <<>>

LEMMA PassagesNowAre ==
  ASSUME ArchiveInv, NEW run \in RunOfJob, run.meetings # <<>>
  PROVE  /\ PassagesNow(run) \in Seq(Good) /\ Head(run.meetings) \in Meeting
         /\ ToSet(PassagesNow(run)) = HeldOf(Head(run.meetings), run.file, Held)
<1> DEFINE m == Head(run.meetings)
           file == run.file
<1>1. m \in Meeting /\ file \in FileMap
  BY DEF RunOfJob
<1> HIDE DEF m, file
<1>2. \E s : s = <<>> /\ s \in Seq(Good) /\ ToSet(s) = {}
  <2> DEFINE s == <<>>
  <2>1. s \in Seq(Good) /\ DOMAIN s = {}
    OBVIOUS
  <2> QED
    BY <2>1 DEF ToSet
<1>3. PassagesNow(run) = IF HasFile(file, m) THEN Passages(m, file[m]) ELSE <<>>
  BY DEF PassagesNow, m, file
<1>4. CASE HasFile(file, m)
  <2>1. file[m] # None /\ file[m] \in Path
    BY <1>1, <1>4 DEF HasFile, FileMap
  <2>2. Passages(m, file[m]) \in Seq(Good)
    BY <1>1, <2>1, PassagesAreRecords DEF ArchiveInv
  <2>3. Held[m][file[m]] = ToSet(Passages(m, file[m]))
    BY <1>1, <1>4, <2>1, HeldIs
  <2> QED
    BY <1>1, <1>3, <1>4, <2>1, <2>2, <2>3 DEF m, file, HeldOf
<1>5. CASE ~ HasFile(file, m)
  <2>1. file[m] # None => Held[m][file[m]] = {}
    BY <1>1, <1>5, HeldIs
  <2> QED
    BY <1>1, <1>2, <1>3, <1>5, <2>1 DEF m, file, HeldOf
<1> QED
  BY <1>4, <1>5

(* A run reads the passages of a meeting, and has come to the next one.    *)
Further(run, passages, failing) ==
  [ClassifiedAll(run, passages, failing) EXCEPT !.meetings = Tail(@)]
LEMMA RunReads ==
  ASSUME NEW old \in RunOfJob, NEW ids, NEW open, NEW held, Reading(old, ids, open, held),
         NEW passages \in Seq(Good), NEW failing, old.meetings # <<>>,
         Head(old.meetings) \in Meeting,
         ToSet(passages) = HeldOf(Head(old.meetings), old.file, held)
  PROVE  /\ Further(old, passages, failing) \in RunOfJob
         /\ Reading(Further(old, passages, failing), ids, open, held)
         /\ Further(old, passages, failing).phase = old.phase
         /\ Further(old, passages, failing).mode = old.mode
         /\ ToSet(Further(old, passages, failing).buffer) \subseteq ToSet(old.buffer) \cup ToSet(passages)
<1> DEFINE new == ClassifiedAll(old, passages, failing)
           run == Further(old, passages, failing)
           m == Head(old.meetings)
           rest == Tail(old.meetings)
<1>1. ASSUME NEW there, Writes(old, there)
      PROVE  /\ Grown(new, old) /\ Writes(new, there)
             /\ ~ new.full => ToSet(passages) \subseteq new.known \cup new.parked
             /\ ToSet(new.buffer) \subseteq ToSet(old.buffer) \cup ToSet(passages)
  BY <1>1, ClassifiedAllIs
<1>2. \E there : Writes(old, there)
  BY DEF Reading
<1>3. /\ Grown(new, old)
      /\ ~ new.full => ToSet(passages) \subseteq new.known \cup new.parked
      /\ ToSet(new.buffer) \subseteq ToSet(old.buffer) \cup ToSet(passages)
  BY <1>1, <1>2
<1>4. \A there : Writes(old, there) => Writes(new, there)
  BY <1>1
<1>5. run = [new EXCEPT !.meetings = Tail(new.meetings)]
  BY DEF Further
<1> HIDE DEF new, run
<1>6. rest \in Seq(Meeting) /\ ToSet(old.meetings) \subseteq {m} \cup ToSet(rest)
  <2>1. old.meetings \in Seq(Meeting)
    BY DEF RunOfJob
  <2> DEFINE s == old.meetings
  <2> HIDE DEF s
  <2>2. s \in Seq(Meeting) /\ s # <<>>
    BY <2>1 DEF s
  <2>3. Tail(s) \in Seq(Meeting) /\ Len(Tail(s)) = Len(s) - 1 /\ Len(s) \in Nat
        /\ \A i \in 2 .. Len(s) : i - 1 \in 1 .. Len(s) - 1 /\ Tail(s)[i - 1] = s[i]
    BY <2>2
  <2>4. \A i \in 1 .. Len(s) : i = 1 \/ i \in 2 .. Len(s)
    BY <2>3
  <2>5. ASSUME NEW i \in 1 .. Len(s) PROVE s[i] \in {Head(s)} \cup ToSet(Tail(s))
    <3>1. CASE i = 1
      BY <2>2, <3>1
    <3>2. CASE i \in 2 .. Len(s)
      <4>1. i - 1 \in DOMAIN Tail(s) /\ Tail(s)[i - 1] = s[i]
        BY <2>3, <3>2
      <4> QED
        BY <4>1 DEF ToSet
    <3> QED
      BY <2>4, <3>1, <3>2
  <2>6. DOMAIN s = 1 .. Len(s)
    BY <2>2
  <2> QED
    BY <2>3, <2>5, <2>6 DEF s, ToSet
<1> HIDE DEF rest, m
<1>7. new \in RunOfJob /\ Tail(new.meetings) = rest
  BY <1>3 DEF Grown, rest
<1>8. /\ run \in RunOfJob /\ run.meetings = rest
      /\ run.phase = old.phase /\ run.mode = old.mode /\ run.file = old.file
      /\ run.known = new.known /\ run.buffer = new.buffer /\ run.parked = new.parked
      /\ run.full = new.full /\ run.detached = old.detached /\ run.glued = old.glued
      /\ run.moved = old.moved
  BY <1>3, <1>5, <1>6, <1>7 DEF RunOfJob, Grown
<1> HIDE DEF Grown
<1>9. ASSUME NEW there, Writes(old, there) PROVE Writes(run, there)
  <2>1. Writes(new, there)
    BY <1>4, <1>9
  <2> QED
    BY <1>8, <2>1 DEF Writes
<1>10. ~ run.moved => Covered(run, held)
  <2> SUFFICES ASSUME ~ old.moved, ~ run.full, NEW n \in Meeting, run.file[n] # None,
                      n \notin ToSet(run.meetings)
               PROVE  held[n][run.file[n]] \subseteq run.known \cup run.parked
    BY <1>8 DEF Covered
  <2>1. ~ old.full /\ old.known \subseteq run.known /\ old.parked \subseteq run.parked
    BY <1>3, <1>8 DEF Grown
  <2>2. CASE n = m
    <3>1. ToSet(passages) = held[n][run.file[n]]
      BY <1>8, <2>2 DEF m, HeldOf
    <3> QED
      BY <1>3, <1>8, <3>1
  <2>3. CASE n # m
    <3>1. n \notin ToSet(old.meetings)
      BY <1>6, <1>8, <2>3
    <3>2. held[n][old.file[n]] \subseteq old.known \cup old.parked
      BY <1>8, <2>1, <3>1 DEF Reading, Covered
    <3> QED
      BY <1>8, <2>1, <3>2
  <2> QED
    BY <2>2, <2>3
<1>11. ~ run.moved /\ run.mode = "rebuild" => ToSet(run.buffer) \subseteq Listed(run.file, held)
  <2>1. ToSet(passages) \subseteq Listed(old.file, held)
    <3>1. CASE old.file[m] = None
      BY <3>1 DEF m, HeldOf
    <3>2. CASE old.file[m] # None
      <4>1. m \in Meeting /\ ToSet(passages) = held[m][old.file[m]]
        BY <3>2 DEF m, HeldOf
      <4> QED
        BY <3>2, <4>1 DEF Listed
    <3> QED
      BY <3>1, <3>2
  <2> QED
    BY <1>3, <1>8, <2>1 DEF Reading
<1> QED
  BY <1>3, <1>8, <1>9, <1>10, <1>11 DEF Reading, run

LEMMA ReadMeetingKeeps ==
  ASSUME IngestInv, NEW j \in Job, ReadMeeting(j)
  PROVE  /\ IngestInv' /\ \A k \in Job : job'[k].phase = job[k].phase
         /\ \A k \in Job \ {j} : job'[k] = job[k]
         /\ ToSet(job'[j].buffer) \subseteq ToSet(job[j].buffer) \cup ToSet(PassagesNow(job[j]))
<1> DEFINE old == job[j]
<1>1. old \in RunOfJob /\ Reading(old, ExistingIds, torn, Held) /\ old.phase = "reading"
      /\ old.meetings # <<>>
  BY DEF IngestInv, JobsOK, ReadMeeting
<1>2. PICK failing :
        job' = [job EXCEPT ![j] = Further(job[j], PassagesNow(old), failing)]
  BY DEF ReadMeeting, PassagesNow, Further
<1>3. UNCHANGED <<fetchVars, incidents, records, torn, dead>>
  BY DEF ReadMeeting
<1>4. j = "ui" => old.mode # "append"
  BY DEF IngestInv, JobsOK
<1> DEFINE run == Further(old, PassagesNow(old), failing)
<1>5. job' = [job EXCEPT ![j] = run]
  BY <1>2
<1> HIDE DEF old
<1>6. /\ PassagesNow(old) \in Seq(Good) /\ Head(old.meetings) \in Meeting
      /\ ToSet(PassagesNow(old)) = HeldOf(Head(old.meetings), old.file, Held)
  BY <1>1, PassagesNowAre DEF IngestInv
<1>7. run \in RunOfJob /\ Reading(run, ExistingIds, torn, Held) /\ run.phase = old.phase
      /\ run.mode = old.mode
      /\ ToSet(run.buffer) \subseteq ToSet(old.buffer) \cup ToSet(PassagesNow(old))
  BY <1>1, <1>6, RunReads
<1> HIDE DEF run
<1>8. \A k \in Job : job'[k] = IF k = j THEN run ELSE job[k]
  BY <1>5 DEF IngestInv, JobsOK
<1>9. IngestInv'
  BY <1>1, <1>3, <1>4, <1>5, <1>7, RunGoesOn
<1> QED
  BY <1>7, <1>8, <1>9 DEF old

(* A run comes to its end, one way or another.                             *)
LEMMA IncidentKeeps ==
  ASSUME ArchiveInv, UNCHANGED fetchVars,
         incidents' = incidents \/ (incidents < MaxIncidents /\ incidents' = incidents + 1)
  PROVE  ArchiveInv' /\ Held' = Held
<1>1. incidents' \in 0 .. MaxIncidents /\ (incidents' = 0 => incidents = 0)
  BY FetchConstants DEF ArchiveInv
<1>2. UNCHANGED <<said, catalog, docs, raw, fetch>>
  BY DEF fetchVars
<1> QED
  BY <1>1, <1>2, HeldStays DEF ArchiveInv, Aimed, Current

LEMMA RunEnds ==
  ASSUME IngestInv, NEW j \in Job, job' = [job EXCEPT ![j] = Idle], ArchiveInv', Held' = Held,
         RecordsOK', UNCHANGED <<records, torn>> \/ j # "ui"
  PROVE  IngestInv'
<1>1. \A k \in Job : job'[k] = IF k = j THEN Idle ELSE job[k]
  BY DEF IngestInv, JobsOK
<1>2. job' \in [Job -> RunOfJob] /\ "ui" \in Job
  BY IdleIs DEF IngestInv, JobsOK, Job
<1>3. ASSUME NEW k \in Job, job'[k].phase = "reading"
      PROVE  Reading(job'[k], ExistingIds', torn', Held')
  <2>1. job'[k] = job[k] /\ k # j /\ Reading(job[k], ExistingIds, torn, Held)
    BY <1>1, <1>3, IdleIs DEF IngestInv, JobsOK
  <2>2. CASE UNCHANGED <<records, torn>>
    <3>1. ExistingIds' = ExistingIds /\ torn' = torn
      BY <2>2 DEF ExistingIds
    <3> QED
      BY <2>1, <3>1
  <2>3. CASE j # "ui"
    <3>1. k = "ui"
      BY <2>1, <2>3 DEF Job
    <3>2. job[k].mode # "append"
      BY <3>1 DEF IngestInv, JobsOK
    <3> QED
      BY <2>1, <3>2, OthersRead
  <2> QED
    BY <2>2, <2>3
<1>4. \A k \in Job : job'[k].phase # "reading" => job'[k] = Idle
  BY <1>1 DEF IngestInv, JobsOK
<1>5. job'["ui"].mode # "append"
  BY <1>1, <1>2, IdleIs DEF IngestInv, JobsOK, None
<1> QED
  BY <1>2, <1>3, <1>4, <1>5 DEF IngestInv, JobsOK

LEMMA AppendedKeeps ==
  ASSUME RecordsOK, NEW run, NEW lines \in Seq(Good), Once(lines), Appended(run, lines),
         ~ run.detached => ToSet(lines) \cap ExistingIds = {}, dead' \subseteq Good
  PROVE  RecordsOK'
<1>1. CASE UNCHANGED <<records, torn>>
  BY <1>1 DEF RecordsOK
<1>2. CASE ~ run.detached /\ records' = Extended(lines) /\ torn' = FALSE
  <2>1. lines \in Seq(Good \cup {Broken})
    OBVIOUS
  <2>2. Extended(lines) \in Seq(Good \cup {Broken}) /\ Once(Extended(lines))
    BY <1>2, <2>1, ExtendedIs
  <2> QED
    BY <1>2, <2>2 DEF RecordsOK
<1> QED
  BY <1>1, <1>2 DEF Appended

(* What a reading run has: its buffer can be written, and its dead letters.*)
LEMMA ReadingHas ==
  ASSUME IngestInv, NEW j \in Job, job[j].phase = "reading"
  PROVE  /\ job[j] \in RunOfJob /\ Reading(job[j], ExistingIds, torn, Held)
         /\ job[j].buffer \in Seq(Good) /\ Once(job[j].buffer)
         /\ dead \cup job[j].parked \subseteq Good
         /\ job[j].mode = "append" => j # "ui"
         /\ job[j].mode = "append" /\ ~ job[j].detached => ToSet(job[j].buffer) \cap ExistingIds = {}
<1>1. job[j] \in RunOfJob /\ Reading(job[j], ExistingIds, torn, Held)
  BY DEF IngestInv, JobsOK
<1>2. job[j].buffer \in Seq(Good) /\ job[j].parked \subseteq Good
  BY <1>1 DEF RunOfJob
<1> QED
  BY <1>1, <1>2 DEF IngestInv, JobsOK, RecordsOK, Reading, Writes

LEMMA FinishAppendKeeps ==
  ASSUME IngestInv, NEW j \in Job, FinishAppend(j)
  PROVE  IngestInv'
<1>1. job[j].phase = "reading" /\ job[j].mode = "append" /\ Appended(job[j], job[j].buffer)
      /\ job' = [job EXCEPT ![j] = Idle] /\ dead' = dead \cup job[j].parked
      /\ UNCHANGED <<fetchVars, incidents>>
  BY DEF FinishAppend, Read
<1>2. ArchiveInv' /\ Held' = Held
  BY <1>1, IncidentKeeps DEF IngestInv
<1>3. RecordsOK'
  BY <1>1, ReadingHas, AppendedKeeps DEF IngestInv
<1>4. j # "ui"
  BY <1>1, ReadingHas
<1> QED
  BY <1>1, <1>2, <1>3, <1>4, RunEnds

LEMMA AbortKeeps ==
  ASSUME IngestInv, NEW j \in Job, Abort(j)
  PROVE  IngestInv'
<1>1. job[j].phase = "reading" /\ dead' = dead \cup job[j].parked /\ job' = [job EXCEPT ![j] = Idle]
      /\ incidents < MaxIncidents /\ incidents' = incidents + 1 /\ UNCHANGED fetchVars
  BY DEF Abort
<1>2. ArchiveInv' /\ Held' = Held
  BY <1>1, IncidentKeeps DEF IngestInv
<1>3. CASE job[j].mode = "append"
  <2>1. Appended(job[j], job[j].buffer)
    BY <1>3 DEF Abort
  <2>2. RecordsOK' /\ j # "ui"
    BY <1>1, <1>3, <2>1, ReadingHas, AppendedKeeps DEF IngestInv
  <2> QED
    BY <1>1, <1>2, <2>2, RunEnds
<1>4. CASE job[j].mode # "append"
  <2>1. UNCHANGED <<records, torn>>
    BY <1>4 DEF Abort
  <2>2. RecordsOK'
    BY <1>1, <2>1, ReadingHas DEF IngestInv, RecordsOK
  <2> QED
    BY <1>1, <1>2, <2>1, <2>2, RunEnds
<1> QED
  BY <1>3, <1>4

(* What a killed process leaves in the file is a part of its buffer, and   *)
(* perhaps of a line.                                                      *)
LEMMA KilledWrites ==
  ASSUME IngestInv, NEW j \in Job, NEW n \in 0 .. Len(job[j].buffer), NEW rest, KillJob(j, n, rest)
  PROVE  \/ UNCHANGED <<records, torn>>
         \/ /\ j # "ui" /\ torn' \in BOOLEAN
            /\ \E lines \in Seq(Good \cup {Broken}) :
                 /\ Once(lines) /\ ToSet(lines) \subseteq ToSet(job[j].buffer) \cup {Broken}
                 /\ ToSet(lines) \cap ExistingIds = {} /\ records' = Extended(lines)
<1> DEFINE buffer == job[j].buffer
           lines == SubSeq(buffer, 1, n)
           S == Good \cup {Broken}
<1> SUFFICES ASSUME ~ UNCHANGED <<records, torn>>
             PROVE  /\ j # "ui" /\ torn' \in BOOLEAN
                    /\ \E all \in Seq(S) :
                         /\ Once(all) /\ ToSet(all) \subseteq ToSet(buffer) \cup {Broken}
                         /\ ToSet(all) \cap ExistingIds = {} /\ records' = Extended(all)
  OBVIOUS
<1>1. job[j].phase = "reading"
  BY DEF KillJob
<1>2. buffer \in Seq(Good) /\ Once(buffer) /\ Reading(job[j], ExistingIds, torn, Held)
  BY <1>1, ReadingHas
<1>3. job[j].mode = "append" /\ ~ job[j].detached
  BY <1>2 DEF KillJob, Reading
<1>4. ToSet(buffer) \cap ExistingIds = {} /\ j # "ui"
  BY <1>1, <1>3, ReadingHas
<1>5. \/ Appended(job[j], lines)
      \/ \E part \in IF n < Len(buffer) THEN {Broken, buffer[n + 1]} ELSE {} :
           records' = Extended(Append(lines, part)) /\ torn' = TRUE
  BY <1>3 DEF KillJob
<1> HIDE DEF buffer
<1>6. n \in Int /\ 1 \in Int /\ Len(buffer) \in Nat /\ n <= Len(buffer) /\ n \in Nat
  BY <1>2 DEF buffer
<1>7. /\ lines \in Seq(Good) /\ Once(lines) /\ ToSet(lines) \subseteq ToSet(buffer)
      /\ \A i \in n + 1 .. Len(buffer) : buffer[i] \in ToSet(lines) => buffer[i] = Broken
  <2> DEFINE one == 1
  <2>1. one \in Int /\ 1 <= one
    OBVIOUS
  <2> HIDE DEF one
  <2>2. lines = SubSeq(buffer, one, n)
    BY DEF one
  <2> HIDE DEF lines
  <2> QED
    BY <1>2, <1>6, <2>1, <2>2, OnceInPart
<1>8. lines \in Seq(S)
  BY <1>7
<1> HIDE DEF lines, S
<1>9. CASE Appended(job[j], lines)
  <2>1. records' = Extended(lines) /\ torn' = FALSE
    BY <1>9 DEF Appended
  <2>2. ToSet(lines) \cap ExistingIds = {} /\ ToSet(lines) \subseteq ToSet(buffer) \cup {Broken}
    BY <1>4, <1>7
  <2> QED
    BY <1>4, <1>7, <1>8, <2>1, <2>2
<1>10. ASSUME n < Len(buffer), NEW part \in {Broken, buffer[n + 1]},
              records' = Extended(Append(lines, part)), torn' = TRUE
       PROVE  \E all \in Seq(S) :
                /\ Once(all) /\ ToSet(all) \subseteq ToSet(buffer) \cup {Broken}
                /\ ToSet(all) \cap ExistingIds = {} /\ records' = Extended(all)
  <2> DEFINE all == Append(lines, part)
  <2>1. n + 1 \in 1 .. Len(buffer) /\ n + 1 \in n + 1 .. Len(buffer)
    BY <1>6, <1>10
  <2>2. buffer[n + 1] \in Good /\ buffer[n + 1] \in ToSet(buffer)
    BY <1>2, <2>1 DEF ToSet
  <2>3. part \in S /\ (part \notin ToSet(lines) \/ part = Broken)
    BY <1>7, <2>1, <2>2 DEF S
  <2>4. all \in Seq(S) /\ Once(all) /\ ToSet(all) = ToSet(lines) \cup {part}
    BY <1>7, <1>8, <2>3, OnceMore
  <2>5. records' = Extended(all)
    BY <1>10
  <2> HIDE DEF all
  <2>6. Broken \notin ExistingIds
    BY DEF ExistingIds
  <2>7. ToSet(all) \cap ExistingIds = {} /\ ToSet(all) \subseteq ToSet(buffer) \cup {Broken}
    BY <1>4, <1>7, <1>10, <2>2, <2>4, <2>6
  <2> QED
    BY <2>4, <2>5, <2>7
<1>11. torn' \in BOOLEAN
  BY <1>5 DEF Appended
<1> QED
  BY <1>4, <1>5, <1>9, <1>10, <1>11

LEMMA KillJobKeeps ==
  ASSUME IngestInv, NEW j \in Job, NEW n \in 0 .. Len(job[j].buffer), NEW rest, KillJob(j, n, rest)
  PROVE  IngestInv'
<1>1. job[j].phase = "reading" /\ job' = [job EXCEPT ![j] = Idle]
      /\ incidents < MaxIncidents /\ incidents' = incidents + 1 /\ UNCHANGED fetchVars
      /\ dead' \in {dead, dead \cup job[j].parked}
  BY DEF KillJob
<1>2. ArchiveInv' /\ Held' = Held
  BY <1>1, IncidentKeeps DEF IngestInv
<1>3. dead' \subseteq Good
  BY <1>1, ReadingHas
<1>4. CASE UNCHANGED <<records, torn>>
  <2>1. RecordsOK'
    BY <1>3, <1>4 DEF IngestInv, RecordsOK
  <2> QED
    BY <1>1, <1>2, <1>4, <2>1, RunEnds
<1>5. ASSUME j # "ui", torn' \in BOOLEAN, NEW lines \in Seq(Good \cup {Broken}), Once(lines),
             ToSet(lines) \cap ExistingIds = {}, records' = Extended(lines)
      PROVE  IngestInv'
  <2>1. Extended(lines) \in Seq(Good \cup {Broken}) /\ Once(Extended(lines))
    BY <1>5, ExtendedIs DEF IngestInv
  <2>2. RecordsOK'
    BY <1>3, <1>5, <2>1 DEF RecordsOK
  <2> QED
    BY <1>1, <1>2, <1>5, <2>2, RunEnds
<1> QED
  BY <1>4, <1>5, KilledWrites

LEMMA FinishRebuildKeeps ==
  ASSUME IngestInv, NEW j \in Job, FinishRebuild(j)
  PROVE  IngestInv'
<1>1. job[j].phase = "reading" /\ job[j].mode = "rebuild" /\ records' = job[j].buffer /\ torn' = FALSE
      /\ job' = Detach(j, [job EXCEPT ![j] = Idle]) /\ dead' = dead \cup job[j].parked
      /\ UNCHANGED <<fetchVars, incidents>>
  BY DEF FinishRebuild, Read
<1>2. ArchiveInv' /\ Held' = Held
  BY <1>1, IncidentKeeps DEF IngestInv
<1>3. RecordsOK'
  <2>1. job[j].buffer \in Seq(Good) /\ Once(job[j].buffer) /\ dead' \subseteq Good
    BY <1>1, ReadingHas
  <2>2. job[j].buffer \in Seq(Good \cup {Broken})
    BY <2>1
  <2> QED
    BY <1>1, <2>1, <2>2 DEF RecordsOK
<1>4. \A k \in Job : job'[k] =
        IF k = j THEN Idle
        ELSE IF job[k].mode = "append" THEN [job[k] EXCEPT !.detached = TRUE] ELSE job[k]
  <2>1. \A k \in Job : [job EXCEPT ![j] = Idle][k] = IF k = j THEN Idle ELSE job[k]
    BY DEF IngestInv, JobsOK
  <2> DEFINE jobs == [job EXCEPT ![j] = Idle]
  <2> HIDE DEF jobs
  <2>2. \A k \in Job : jobs[k] = IF k = j THEN Idle ELSE job[k]
    BY <2>1 DEF jobs
  <2>3. job' = Detach(j, jobs)
    BY <1>1 DEF jobs
  <2> QED
    BY <2>2, <2>3 DEF Detach
<1>5. ASSUME NEW k \in Job
      PROVE  /\ job'[k] \in RunOfJob
             /\ IF job'[k].phase = "reading"
                THEN Reading(job'[k], ExistingIds', torn', Held') ELSE job'[k] = Idle
             /\ k = "ui" => job'[k].mode # "append"
  <2>1. job[k] \in RunOfJob /\ (k = "ui" => job[k].mode # "append")
        /\ IF job[k].phase = "reading"
           THEN Reading(job[k], ExistingIds, torn, Held) ELSE job[k] = Idle
    BY DEF IngestInv, JobsOK
  <2>2. CASE k = j
    BY <1>4, <2>2, IdleIs DEF None
  <2>3. CASE k # j /\ job[k].mode = "append"
    <3>1. job[k].phase = "reading" /\ Reading(job[k], ExistingIds, torn, Held)
      BY <2>1, <2>3, IdleIs DEF None
    <3>2. job'[k] = [job[k] EXCEPT !.detached = TRUE]
      BY <1>4, <2>3
    <3>3. job'[k] \in RunOfJob /\ Reading(job'[k], ExistingIds', torn', Held)
          /\ job'[k].phase = job[k].phase /\ job'[k].mode = job[k].mode
      BY <2>1, <2>3, <3>1, <3>2, DetachedReads
    <3> QED
      BY <1>2, <2>1, <2>3, <3>1, <3>3
  <2>4. CASE k # j /\ job[k].mode # "append"
    <3>1. job'[k] = job[k]
      BY <1>4, <2>4
    <3>2. job[k].phase = "reading" => Reading(job[k], ExistingIds', torn', Held)
      BY <2>1, <2>4, OthersRead
    <3> QED
      BY <1>2, <2>1, <3>1, <3>2
  <2> QED
    BY <2>2, <2>3, <2>4
<1>6. job' = [k \in Job |-> job'[k]] /\ "ui" \in Job
  BY <1>1 DEF Detach, Job
<1>7. job' \in [Job -> RunOfJob]
  BY <1>5, <1>6
<1> QED
  BY <1>2, <1>3, <1>5, <1>6, <1>7 DEF IngestInv, JobsOK

LEMMA IngestStep == IngestInv /\ [Next]_vars => IngestInv'
<1> SUFFICES ASSUME IngestInv, [Next]_vars PROVE IngestInv'
  OBVIOUS
<1>1. CASE Archive
  <2>1. ArchiveInv'
    BY <1>1, ArchiveStep DEF IngestInv, Archive
  <2> QED
    BY <1>1, <2>1, ArchiveKeepsJobs DEF IngestInv
<1>2. ASSUME NEW j \in Job, NEW mode \in {"append", "rebuild"}, NEW limit \in Limits,
             StartJob(j, mode, limit)
      PROVE  IngestInv'
  BY <1>2, StartJobKeeps
<1>3. ASSUME NEW j \in Job, ReadMeeting(j) PROVE IngestInv'
  BY <1>3, ReadMeetingKeeps
<1>4. ASSUME NEW j \in Job, FinishAppend(j) PROVE IngestInv'
  BY <1>4, FinishAppendKeeps
<1>5. ASSUME NEW j \in Job, FinishRebuild(j) PROVE IngestInv'
  BY <1>5, FinishRebuildKeeps
<1>6. ASSUME NEW j \in Job, Abort(j) PROVE IngestInv'
  BY <1>6, AbortKeeps
<1>7. ASSUME NEW j \in Job, NEW n \in 0 .. Len(job[j].buffer), NEW rest, KillJob(j, n, rest)
      PROVE  IngestInv'
  BY <1>7, KillJobKeeps
<1>8. CASE UNCHANGED vars
  <2>1. UNCHANGED <<fetchVars, incidents, records, torn, dead, job>>
    BY <1>8 DEF vars, fetchVars
  <2>2. ArchiveInv' /\ Held' = Held
    BY <2>1, IncidentKeeps DEF IngestInv
  <2>3. ExistingIds' = ExistingIds
    BY <2>1 DEF ExistingIds
  <2> QED
    BY <2>1, <2>2, <2>3 DEF IngestInv, RecordsOK, JobsOK
<1> QED
  BY <1>1, <1>2, <1>3, <1>4, <1>5, <1>6, <1>7, <1>8 DEF Next

-------------------------------------------------------------------------------
(* WHAT IT MEANS                                                           *)
LEMMA IngestTypes == IngestInv => TypeOK
<1> SUFFICES ASSUME IngestInv PROVE TypeOK
  OBVIOUS
<1>1. Good \subseteq Record /\ \A r \in Good : Passage(r)
  BY DEF Good, Record, Passage
<1>2. docs \in [Path -> Document]
  <2>1. Transcript \cup {NoDoc} \subseteq Document
    BY NoDocIs
  <2> QED
    BY <2>1 DEF IngestInv, ArchiveInv
<1>3. \A r \in ToSet(records) \ {Broken} : Passage(r)
  <2>1. ToSet(records) \subseteq Good \cup {Broken}
    BY DEF IngestInv, RecordsOK, ToSet
  <2> QED
    BY <1>1, <2>1
<1>4. \A p \in dead : Passage(p)
  BY <1>1 DEF IngestInv, RecordsOK
<1>5. ASSUME NEW j \in Job
      PROVE  /\ job[j].phase \in {"idle", "reading"} /\ job[j].limit \in Limits
             /\ \A p \in job[j].known \cup ToSet(job[j].buffer) : Passage(p)
  <2>1. job[j] \in RunOfJob
    BY DEF IngestInv, JobsOK
  <2>2. job[j].buffer \in Seq(Good) /\ job[j].known \subseteq Good
        /\ job[j].phase \in {"idle", "reading"} /\ job[j].limit \in Limits
    BY <2>1 DEF RunOfJob
  <2>3. ToSet(job[j].buffer) \subseteq Good
    BY <2>2 DEF ToSet
  <2> QED
    BY <1>1, <2>2, <2>3
<1> QED
  BY <1>2, <1>3, <1>4, <1>5 DEF TypeOK, IngestInv, ArchiveInv, RecordsOK, FileMap

(* Nothing but the two ways to finish completes a run.                     *)
LEMMA CompletedIs ==
  ASSUME IngestInv, [Next]_vars, NEW j \in Job, Completed(j)
  PROVE  FinishAppend(j) \/ FinishRebuild(j)
<1>1. job[j].phase = "reading" /\ job'[j].phase = "idle" /\ incidents' = incidents /\ incidents \in Nat
  <2>1. MaxIncidents \in Nat
    BY FetchConstants
  <2> QED
    BY <2>1 DEF Completed, IngestInv, ArchiveInv
<1>2. job \in [Job -> RunOfJob] /\ job[j] \in RunOfJob
  BY DEF IngestInv, JobsOK
<1>3. CASE Archive
  <2>1. CASE job'[j] = job[j]
    BY <1>1, <2>1
  <2>2. CASE job'[j] # job[j]
    <3>1. job'[j] = [job[j] EXCEPT !.moved = TRUE]
      BY <1>3, <2>2 DEF Archive
    <3> QED
      BY <1>1, <1>2, <3>1 DEF RunOfJob
  <2> QED
    BY <2>1, <2>2
<1>4. ASSUME NEW i \in Job, NEW mode, NEW limit, StartJob(i, mode, limit) PROVE FALSE
  <2>1. i # j
    BY <1>1, <1>4 DEF StartJob
  <2>2. job'[j] = job[j]
    BY <1>2, <1>4, <2>1 DEF StartJob
  <2> QED
    BY <1>1, <2>2
<1>5. ASSUME NEW i \in Job, ReadMeeting(i) PROVE FALSE
  BY <1>1, <1>5, ReadMeetingKeeps
<1>6. ASSUME NEW i \in Job, FinishAppend(i) PROVE i = j
  <2> SUFFICES ASSUME i # j PROVE FALSE
    OBVIOUS
  <2>1. job'[j] = job[j]
    BY <1>2, <1>6 DEF FinishAppend
  <2> QED
    BY <1>1, <2>1
<1>7. ASSUME NEW i \in Job, FinishRebuild(i) PROVE i = j
  <2> SUFFICES ASSUME i # j PROVE FALSE
    OBVIOUS
  <2> DEFINE jobs == [job EXCEPT ![i] = Idle]
  <2>1. jobs[j] = job[j]
    BY <1>2
  <2> HIDE DEF jobs
  <2>2. job' = Detach(i, jobs)
    BY <1>7 DEF FinishRebuild, jobs
  <2>3. job'[j] = [job[j] EXCEPT !.detached = TRUE] \/ job'[j] = job[j]
    BY <2>1, <2>2 DEF Detach
  <2> QED
    BY <1>1, <1>2, <2>3 DEF RunOfJob
<1>8. ASSUME NEW i \in Job, Abort(i) PROVE FALSE
  BY <1>1, <1>8 DEF Abort
<1>9. ASSUME NEW i \in Job, NEW n, NEW rest, KillJob(i, n, rest) PROVE FALSE
  BY <1>1, <1>9 DEF KillJob
<1>10. CASE UNCHANGED vars
  BY <1>1, <1>10 DEF vars
<1> QED
  BY <1>3, <1>4, <1>5, <1>6, <1>7, <1>8, <1>9, <1>10 DEF Next

Kept == ToSet(records) \ {Broken}

LEMMA CompletedKeepsAll ==
  ASSUME IngestInv, [Next]_vars, NEW j \in Job, Completed(j)
  PROVE  /\ ~ job[j].detached /\ ~ job[j].glued => ArchivePassages(job[j].file) \subseteq Kept' \cup dead'
         /\ job[j].mode = "rebuild" =>
              Kept' \subseteq ArchivePassages(job[j].file) /\ Broken \notin ToSet(records')
<1> DEFINE run == job[j]
           archive == ArchivePassages(run.file)
<1>1. FinishAppend(j) \/ FinishRebuild(j)
  BY CompletedIs
<1>2. ~ run.full /\ ~ run.moved /\ run.phase = "reading" /\ run.meetings = <<>>
      /\ dead' = dead \cup run.parked
  BY <1>1 DEF Completed, FinishAppend, FinishRebuild, Read
<1>3. /\ run \in RunOfJob /\ Reading(run, ExistingIds, torn, Held) /\ run.buffer \in Seq(Good)
      /\ Once(run.buffer)
      /\ run.mode = "append" /\ ~ run.detached => ToSet(run.buffer) \cap ExistingIds = {}
  BY <1>2, ReadingHas
<1>4. archive = Listed(run.file, Held)
  BY <1>3, HeldIs DEF IngestInv, RunOfJob
<1>5. ToSet(run.meetings) = {}
  <2>1. DOMAIN run.meetings = {}
    BY <1>2
  <2> QED
    BY <2>1 DEF ToSet
<1>6. archive \subseteq run.known \cup run.parked
  BY <1>2, <1>3, <1>4, <1>5 DEF Reading, Covered, Listed
<1>7. ToSet(run.buffer) \subseteq Good /\ Broken \notin ToSet(run.buffer)
  BY <1>3, BrokenIs DEF ToSet
<1> HIDE DEF run, archive
<1>8. CASE FinishAppend(j)
  <2>1. run.mode = "append" /\ Appended(run, run.buffer)
    BY <1>8 DEF FinishAppend, run
  <2> SUFFICES ASSUME ~ run.detached, ~ run.glued PROVE archive \subseteq Kept' \cup dead'
    BY <2>1 DEF run, archive
  <2>2. Writes(run, ExistingIds) /\ ~ torn
    BY <1>3, <2>1 DEF Reading, IngestInv, RecordsOK
  <2>3. ToSet(records') = ToSet(records) \cup ToSet(run.buffer)
    <3>1. CASE run.buffer = <<>>
      <4>1. DOMAIN run.buffer = {}
        BY <3>1
      <4>2. ToSet(run.buffer) = {} /\ records' = records
        BY <2>1, <3>1, <4>1 DEF Appended, ToSet
      <4> QED
        BY <4>2
    <3>2. CASE run.buffer # <<>>
      <4>1. records' = Extended(run.buffer)
        BY <2>1, <3>2 DEF Appended
      <4>2. run.buffer \in Seq(Good \cup {Broken}) /\ ToSet(run.buffer) \cap ExistingIds = {}
        BY <1>3, <2>1
      <4> QED
        BY <1>3, <2>2, <4>1, <4>2, ExtendedIs DEF IngestInv
    <3> QED
      BY <3>1, <3>2
  <2>4. run.known \subseteq Kept'
    BY <1>7, <2>2, <2>3 DEF Writes, ExistingIds, Kept
  <2> QED
    BY <1>2, <1>6, <2>4
<1>9. CASE FinishRebuild(j)
  <2>1. run.mode = "rebuild" /\ records' = run.buffer
    BY <1>9 DEF FinishRebuild, run
  <2>2. run.known = ToSet(run.buffer)
    BY <1>3, <2>1 DEF Reading, Writes
  <2>3. ToSet(run.buffer) \subseteq archive
    BY <1>2, <1>3, <1>4, <2>1 DEF Reading
  <2>4. Kept' = ToSet(run.buffer) /\ Broken \notin ToSet(records')
    BY <1>7, <2>1 DEF Kept
  <2> QED
    BY <1>2, <1>6, <2>2, <2>3, <2>4 DEF run, archive
<1> QED
  BY <1>1, <1>8, <1>9

-------------------------------------------------------------------------------
(* WHERE THE WORDS ARE FROM                                                *)
(* The meetings that are fetched are written to files of their own.        *)
DistinctFiles == \A m, n \in Fetchable : TargetFile(m) = TargetFile(n) => m = n

LEMMA FilesAreTheirs ==
  ASSUME ArchiveInv, DistinctFiles, NEW file \in FileMap, Aimed(file), NEW m \in Meeting, HasFile(file, m)
  PROVE  docs[file[m]].of = m
<1>1. file[m] # None /\ file[m] \in Path /\ docs[file[m]] # NoDoc
  BY DEF HasFile, FileMap
<1>2. m \in Fetchable /\ file[m] = TargetFile(m)
  BY <1>1 DEF Aimed
<1>3. docs[file[m]] \in Transcript /\ TargetFile(docs[file[m]].of) = file[m]
  BY <1>1 DEF ArchiveInv
<1>4. docs[file[m]].of \in Fetchable
  BY <1>3 DEF Transcript
<1> QED
  BY <1>2, <1>3, <1>4 DEF DistinctFiles

(* Every line of the file and of the buffers is sound.                     *)
SoundInv ==
  /\ ToSet(records) \subseteq Sound \cup {Broken}
  /\ \A j \in Job : ToSet(job[j].buffer) \subseteq Sound \cup {Broken}

LEMMA SoundStart == Init => SoundInv
<1> SUFFICES ASSUME Init PROVE SoundInv
  OBVIOUS
<1>1. records = <<>> /\ \A j \in Job : job[j].buffer = <<>>
  BY IdleIs DEF Init, IngestInit
<1>2. DOMAIN records = {} /\ \A j \in Job : DOMAIN job[j].buffer = {}
  BY <1>1
<1> QED
  BY <1>2 DEF SoundInv, ToSet

(* Nobody is made to have said something else.                             *)
LEMMA SoundStays ==
  ASSUME said' = said
  PROVE  Sound' = Sound
<1>1. \A m, kind : Cues(m, kind)' = Cues(m, kind)
  BY DEF Cues
<1>2. \A r : TimedWhereSpoken(r)' <=> TimedWhereSpoken(r)
  BY <1>1 DEF TimedWhereSpoken
<1> QED
  BY <1>2 DEF Sound

LEMMA SaidStays ==
  ASSUME [Next]_vars
  PROVE  said' = said
<1>1. CASE Archive
  BY <1>1 DEF Archive, FetchNext, StartFetch, Download, TimeOut, WriteTranscript, SaveCatalog, KillFetch,
              RemoveTranscript
<1>2. CASE UNCHANGED vars
  BY <1>2 DEF vars
<1>3. CASE \E j \in Job :
             \/ \E mode \in {"append", "rebuild"}, limit \in Limits : StartJob(j, mode, limit)
             \/ ReadMeeting(j) \/ FinishAppend(j) \/ FinishRebuild(j) \/ Abort(j)
             \/ \E n \in 0 .. Len(job[j].buffer), rest \in {"none", "part", "unended"} : KillJob(j, n, rest)
  BY <1>3 DEF StartJob, ReadMeeting, FinishAppend, FinishRebuild, Abort, KillJob, fetchVars
<1> QED
  BY <1>1, <1>2, <1>3 DEF Next

(* What is appended is nothing but lines.                                  *)
LEMMA AppendsLines ==
  ASSUME RecordsOK, NEW S, ToSet(records) \subseteq S, Broken \in S,
         NEW lines \in Seq(Good \cup {Broken}), Once(lines), ToSet(lines) \subseteq S,
         ToSet(lines) \cap ExistingIds = {}, UNCHANGED records \/ records' = Extended(lines)
  PROVE  ToSet(records') \subseteq S
<1>1. ToSet(Extended(lines)) \subseteq ToSet(records) \cup ToSet(lines) \cup {Broken}
  BY ExtendedIs
<1>2. CASE UNCHANGED records
  BY <1>2
<1>3. CASE records' = Extended(lines)
  BY <1>1, <1>3
<1> QED
  BY <1>2, <1>3

(* A run that ends leaves no buffer.                                       *)
LEMMA BuffersEnd ==
  ASSUME IngestInv, SoundInv, NEW j \in Job, job' = [job EXCEPT ![j] = Idle], Sound' = Sound,
         ToSet(records') \subseteq Sound \cup {Broken}
  PROVE  SoundInv'
<1>1. \A k \in Job : job'[k] = job[k] \/ job'[k].buffer = <<>>
  BY IdleIs DEF IngestInv, JobsOK
<1>2. \A k \in Job : job'[k].buffer = <<>> => DOMAIN job'[k].buffer = {}
  OBVIOUS
<1>3. \A k \in Job : job'[k].buffer = <<>> => ToSet(job'[k].buffer) = {}
  BY <1>2 DEF ToSet
<1> QED
  BY <1>1, <1>3 DEF SoundInv

LEMMA SoundStep ==
  ASSUME DistinctFiles
  PROVE  IngestInv /\ SoundInv /\ [Next]_vars => SoundInv'
<1> SUFFICES ASSUME IngestInv, SoundInv, [Next]_vars PROVE SoundInv'
  OBVIOUS
<1> DEFINE S == Sound \cup {Broken}
<1>0. Sound' = Sound /\ job \in [Job -> RunOfJob] /\ RecordsOK /\ ArchiveInv
  BY SaidStays, SoundStays DEF IngestInv, JobsOK
<1>1. CASE Archive
  <2>1. records' = records
    BY <1>1 DEF Archive
  <2>2. ASSUME NEW j \in Job PROVE job'[j].buffer = job[j].buffer
    <3>1. job'[j] = [job[j] EXCEPT !.moved = TRUE] \/ job'[j] = job[j]
      BY <1>1 DEF Archive
    <3>2. job[j] \in RunOfJob
      BY <1>0
    <3> QED
      BY <3>1, <3>2 DEF RunOfJob
  <2> QED
    BY <1>0, <2>1, <2>2 DEF SoundInv
<1>2. ASSUME NEW j \in Job, NEW mode \in {"append", "rebuild"}, NEW limit \in Limits,
             StartJob(j, mode, limit)
      PROVE  SoundInv'
  <2>1. records' = records /\ job'[j].buffer = <<>> /\ \A k \in Job \ {j} : job'[k] = job[k]
    BY <1>0, <1>2 DEF StartJob, Idle
  <2>2. DOMAIN job'[j].buffer = {}
    BY <2>1
  <2>3. ToSet(job'[j].buffer) = {}
    BY <2>2 DEF ToSet
  <2> QED
    BY <1>0, <2>1, <2>3 DEF SoundInv
<1>3. ASSUME NEW j \in Job, ReadMeeting(j) PROVE SoundInv'
  <2> DEFINE run == job[j]
             m == Head(run.meetings)
  <2>1. run \in RunOfJob /\ Aimed(run.file) /\ run.meetings # <<>> /\ records' = records
    BY <1>0, <1>3 DEF ReadMeeting, IngestInv, JobsOK, Reading
  <2> HIDE DEF run
  <2>2. m \in Meeting /\ run.file \in FileMap
    BY <2>1 DEF RunOfJob
  <2>3. ToSet(PassagesNow(run)) \subseteq Sound
    <3>1. CASE HasFile(run.file, m)
      <4>1. run.file[m] \in Path
        BY <2>2, <3>1 DEF HasFile, FileMap
      <4>2. docs[run.file[m]].of = m
        BY <1>0, <2>1, <2>2, <3>1, FilesAreTheirs
      <4>3. Passages(m, run.file[m]) \in Seq(Sound)
        BY <1>0, <2>2, <4>1, <4>2, PassagesAre DEF ArchiveInv
      <4>4. PassagesNow(run) = Passages(m, run.file[m])
        BY <3>1 DEF PassagesNow
      <4> QED
        BY <4>3, <4>4 DEF ToSet
    <3>2. CASE ~ HasFile(run.file, m)
      <4>1. PassagesNow(run) = <<>>
        BY <3>2 DEF PassagesNow
      <4>2. DOMAIN PassagesNow(run) = {}
        BY <4>1
      <4> QED
        BY <4>2 DEF ToSet
    <3> QED
      BY <3>1, <3>2
  <2>4. /\ \A k \in Job \ {j} : job'[k] = job[k]
        /\ ToSet(job'[j].buffer) \subseteq ToSet(run.buffer) \cup ToSet(PassagesNow(run))
    BY <1>3, ReadMeetingKeeps DEF run
  <2>5. ToSet(job'[j].buffer) \subseteq S
    BY <2>3, <2>4 DEF SoundInv, run
  <2> QED
    BY <1>0, <2>1, <2>4, <2>5 DEF SoundInv
<1>4. ASSUME NEW j \in Job, FinishAppend(j) PROVE SoundInv'
  <2>1. job[j].phase = "reading" /\ job[j].mode = "append" /\ Appended(job[j], job[j].buffer)
        /\ job' = [job EXCEPT ![j] = Idle]
    BY <1>4 DEF FinishAppend, Read
  <2>2. ToSet(records') \subseteq S
    <3>1. CASE UNCHANGED records
      BY <3>1 DEF SoundInv
    <3>2. CASE ~ UNCHANGED records
      <4>1. ~ job[j].detached /\ records' = Extended(job[j].buffer)
        BY <2>1, <3>2 DEF Appended
      <4>2. /\ job[j].buffer \in Seq(Good) /\ Once(job[j].buffer)
            /\ ToSet(job[j].buffer) \cap ExistingIds = {}
        BY <2>1, <4>1, ReadingHas
      <4>3. job[j].buffer \in Seq(Good \cup {Broken}) /\ ToSet(job[j].buffer) \subseteq S
            /\ ToSet(records) \subseteq S /\ Broken \in S
        BY <4>2 DEF SoundInv
      <4> HIDE DEF S
      <4> QED
        BY <1>0, <4>1, <4>2, <4>3, AppendsLines
    <3> QED
      BY <3>1, <3>2
  <2> QED
    BY <1>0, <2>1, <2>2, BuffersEnd
<1>5. ASSUME NEW j \in Job, FinishRebuild(j) PROVE SoundInv'
  <2> DEFINE jobs == [job EXCEPT ![j] = Idle]
  <2>1. records' = job[j].buffer /\ job' = Detach(j, jobs)
    BY <1>5 DEF FinishRebuild
  <2>2. \A k \in Job : jobs[k] = IF k = j THEN Idle ELSE job[k]
    BY <1>0
  <2> HIDE DEF jobs
  <2>3. ASSUME NEW k \in Job PROVE job'[k].buffer = <<>> \/ job'[k].buffer = job[k].buffer
    <3>1. job'[k] = [jobs[k] EXCEPT !.detached = TRUE] \/ job'[k] = jobs[k]
      BY <2>1 DEF Detach
    <3>2. jobs[k] \in RunOfJob
      BY <1>0, <2>2, IdleIs
    <3>3. job'[k].buffer = jobs[k].buffer
      BY <3>1, <3>2 DEF RunOfJob
    <3> QED
      BY <2>2, <3>3, IdleIs
  <2>4. \A k \in Job : job'[k].buffer = <<>> => DOMAIN job'[k].buffer = {}
    OBVIOUS
  <2>5. \A k \in Job : job'[k].buffer = <<>> => ToSet(job'[k].buffer) = {}
    BY <2>4 DEF ToSet
  <2> QED
    BY <1>0, <2>1, <2>3, <2>5 DEF SoundInv
<1>6. ASSUME NEW j \in Job, Abort(j) PROVE SoundInv'
  <2>1. job[j].phase = "reading" /\ job' = [job EXCEPT ![j] = Idle]
        /\ IF job[j].mode = "append" THEN Appended(job[j], job[j].buffer) ELSE UNCHANGED <<records, torn>>
    BY <1>6 DEF Abort
  <2>2. ToSet(records') \subseteq S
    <3>1. CASE UNCHANGED records
      BY <3>1 DEF SoundInv
    <3>2. CASE ~ UNCHANGED records
      <4>1. job[j].mode = "append" /\ ~ job[j].detached /\ records' = Extended(job[j].buffer)
        BY <2>1, <3>2 DEF Appended
      <4>2. /\ job[j].buffer \in Seq(Good) /\ Once(job[j].buffer)
            /\ ToSet(job[j].buffer) \cap ExistingIds = {}
        BY <2>1, <4>1, ReadingHas
      <4>3. job[j].buffer \in Seq(Good \cup {Broken}) /\ ToSet(job[j].buffer) \subseteq S
            /\ ToSet(records) \subseteq S /\ Broken \in S
        BY <4>2 DEF SoundInv
      <4> HIDE DEF S
      <4> QED
        BY <1>0, <4>1, <4>2, <4>3, AppendsLines
    <3> QED
      BY <3>1, <3>2
  <2> QED
    BY <1>0, <2>1, <2>2, BuffersEnd
<1>7. ASSUME NEW j \in Job, NEW n \in 0 .. Len(job[j].buffer), NEW rest, KillJob(j, n, rest)
      PROVE  SoundInv'
  <2>1. job' = [job EXCEPT ![j] = Idle]
    BY <1>7 DEF KillJob
  <2>2. ToSet(records') \subseteq S
    <3>1. CASE UNCHANGED records
      BY <3>1 DEF SoundInv
    <3>2. ASSUME NEW lines \in Seq(Good \cup {Broken}), Once(lines),
                 ToSet(lines) \subseteq ToSet(job[j].buffer) \cup {Broken},
                 ToSet(lines) \cap ExistingIds = {}, records' = Extended(lines)
          PROVE  ToSet(records') \subseteq S
      <4>1. ToSet(lines) \subseteq S /\ ToSet(records) \subseteq S /\ Broken \in S
        BY <3>2 DEF SoundInv
      <4> HIDE DEF S
      <4> QED
        BY <1>0, <3>2, <4>1, AppendsLines
    <3> QED
      BY <1>7, <3>1, <3>2, KilledWrites
  <2> QED
    BY <1>0, <2>1, <2>2, BuffersEnd
<1>8. CASE UNCHANGED vars
  BY <1>0, <1>8 DEF vars, SoundInv
<1> QED
  BY <1>1, <1>2, <1>3, <1>4, <1>5, <1>6, <1>7, <1>8 DEF Next

-------------------------------------------------------------------------------
(* THE ROWS OF A REMOTE DATA SET                                           *)
(* The numbers of a finite set below one of them: fewer than it has.       *)
Below(S, r) == {q \in S : q < r}

LEMMA BelowIsCounted ==
  ASSUME NEW S, S \subseteq Nat, IsFiniteSet(S), NEW r \in S
  PROVE  /\ IsFiniteSet(Below(S, r)) /\ Cardinality(Below(S, r)) \in Nat
         /\ Cardinality(S) \in Nat /\ Cardinality(Below(S, r)) < Cardinality(S)
<1>1. Below(S, r) \in SUBSET S /\ r \notin Below(S, r)
  BY DEF Below
<1>2. IsFiniteSet(Below(S, r)) /\ Cardinality(Below(S, r)) <= Cardinality(S)
      /\ Cardinality(Below(S, r)) # Cardinality(S)
  BY <1>1, FS_Subset
<1>3. Cardinality(Below(S, r)) \in Nat /\ Cardinality(S) \in Nat
  BY <1>2, FS_CardinalityType
<1> QED
  BY <1>2, <1>3

(* The rows of a data set are finitely many and named by numbers.          *)
RowsOK == DOMAIN published \subseteq Row /\ IsFiniteSet(DOMAIN published)
Before(r) == Below(DOMAIN published, r)

LEMMA PlacesAre ==
  ASSUME RowsOK, NEW r \in DOMAIN published
  PROVE  /\ IsFiniteSet(Before(r)) /\ Place(r) = Cardinality(Before(r)) /\ Place(r) \in Nat
         /\ Cardinality(DOMAIN published) \in Nat /\ Place(r) < Cardinality(DOMAIN published)
         /\ r \in Nat
<1>1. IsFiniteSet(DOMAIN published) /\ r \in Nat /\ DOMAIN published \subseteq Nat
  BY RemoteConstants DEF RowsOK
<1>2. Place(r) = Cardinality(Before(r))
  BY DEF Place, Before, Below
<1> QED
  BY <1>1, <1>2, BelowIsCounted DEF Before

(* A row with a smaller id has an earlier place.                           *)
LEMMA PlacesGrow ==
  ASSUME RowsOK, NEW p \in DOMAIN published, NEW q \in DOMAIN published, p < q
  PROVE  Place(p) < Place(q)
<1>1. /\ IsFiniteSet(Before(q)) /\ Place(q) = Cardinality(Before(q)) /\ Place(q) \in Nat
      /\ Place(p) = Cardinality(Before(p)) /\ Place(p) \in Nat /\ p \in Nat /\ q \in Nat
  BY PlacesAre
<1>2. DOMAIN published \subseteq Nat
  BY RemoteConstants DEF RowsOK
<1>3. Before(p) \in SUBSET Before(q) /\ p \in Before(q) /\ p \notin Before(p)
  BY <1>1, <1>2 DEF Before, Below
<1>4. Cardinality(Before(p)) <= Cardinality(Before(q))
      /\ Cardinality(Before(p)) # Cardinality(Before(q))
  BY <1>1, <1>3, FS_Subset
<1> QED
  BY <1>1, <1>4

(* Every place below the number of rows is taken.                          *)
LEMMA PlacesAreTaken ==
  ASSUME RowsOK, NEW i \in Nat, i < Cardinality(DOMAIN published)
  PROVE  \E r \in DOMAIN published : Place(r) = i
<1> DEFINE N == Cardinality(DOMAIN published)
           T == 0 .. N - 1
           place == [r \in DOMAIN published |-> Place(r)]
<1>1. IsFiniteSet(DOMAIN published) /\ N \in Nat /\ DOMAIN published \subseteq Nat
  BY RemoteConstants, FS_CardinalityType DEF RowsOK
<1>2. 0 \in Int /\ N - 1 \in Int /\ ~ (0 > N - 1) /\ N - 1 - 0 + 1 = N
  BY <1>1
<1>3. IsFiniteSet(T) /\ Cardinality(T) = N
  BY <1>2, FS_Interval
<1>4. \A r \in DOMAIN published : Place(r) \in T
  <2> TAKE r \in DOMAIN published
  <2>1. Place(r) \in Nat /\ Place(r) < N
    BY PlacesAre
  <2> QED
    BY <1>1, <2>1
<1>5. \A p, q \in DOMAIN published : Place(p) = Place(q) => p = q
  <2> TAKE p, q \in DOMAIN published
  <2>1. Place(p) \in Nat /\ Place(q) \in Nat /\ p \in Nat /\ q \in Nat
    BY PlacesAre
  <2>2. p < q => Place(p) < Place(q)
    BY PlacesGrow
  <2>3. q < p => Place(q) < Place(p)
    BY PlacesGrow
  <2> QED
    BY <2>1, <2>2, <2>3
<1>6. place \in Injection(DOMAIN published, T)
  BY <1>4, <1>5 DEF Injection, IsInjective
<1>7. place \in Surjection(DOMAIN published, T)
  <2> HIDE DEF place, T
  <2> QED
    BY <1>3, <1>6, FS_Injection
<1>8. i \in T
  BY <1>1
<1> QED
  BY <1>7, <1>8 DEF Surjection

(* How many rows a page has: as many as there are from the offset, up to   *)
(* the server's cap.                                                       *)
LEMMA PagesAreFull ==
  ASSUME RowsOK, server.cap \in Nat, NEW offset \in Nat
  PROVE  /\ IsFiniteSet(PageAt(offset)) /\ Cardinality(PageAt(offset)) \in Nat
         /\ Cardinality(PageAt(offset)) <= server.cap
         /\ Cardinality(PageAt(offset)) < server.cap =>
              \A r \in DOMAIN published : Place(r) < offset + server.cap
<1> DEFINE page == PageAt(offset)
           T == offset .. offset + server.cap - 1
           place == [r \in page |-> Place(r)]
<1>1. IsFiniteSet(T) /\ Cardinality(T) = server.cap
  <2> DEFINE b == offset + server.cap - 1
  <2>1. offset \in Int /\ b \in Int /\ (IF offset > b THEN 0 ELSE b - offset + 1) = server.cap
    OBVIOUS
  <2> HIDE DEF b
  <2>2. IsFiniteSet(offset .. b) /\ Cardinality(offset .. b) = server.cap
    BY <2>1, FS_Interval
  <2> QED
    BY <2>2 DEF b
<1>2. page \in SUBSET (DOMAIN published) /\ \A r \in page : Place(r) \in T
  BY DEF PageAt
<1>3. \A p, q \in page : Place(p) = Place(q) => p = q
  <2> TAKE p, q \in page
  <2>0. p \in DOMAIN published /\ q \in DOMAIN published
    BY <1>2
  <2>1. Place(p) \in Nat /\ Place(q) \in Nat /\ p \in Nat /\ q \in Nat
    BY <2>0, PlacesAre
  <2>2. p < q => Place(p) < Place(q)
    BY <2>0, PlacesGrow
  <2>3. q < p => Place(q) < Place(p)
    BY <2>0, PlacesGrow
  <2> QED
    BY <2>1, <2>2, <2>3
<1>4. place \in Injection(page, T)
  BY <1>2, <1>3 DEF Injection, IsInjective
<1>5. /\ IsFiniteSet(page) /\ Cardinality(page) <= Cardinality(T)
      /\ place \in Surjection(page, T) => Cardinality(page) = Cardinality(T)
  <2> HIDE DEF page, place, T
  <2> QED
    BY <1>1, <1>4, FS_Injection
<1>6. Cardinality(page) \in Nat
  BY <1>5, FS_CardinalityType
<1>7. ASSUME NEW r \in DOMAIN published, ~ (Place(r) < offset + server.cap)
      PROVE  Cardinality(page) = Cardinality(T)
  <2>1. Place(r) \in Nat /\ Cardinality(DOMAIN published) \in Nat
        /\ Place(r) < Cardinality(DOMAIN published)
    BY PlacesAre
  <2>2. \A i \in T : \E q \in page : place[q] = i
    <3> TAKE i \in T
    <3>1. i \in Nat /\ i < Cardinality(DOMAIN published)
      BY <1>7, <2>1
    <3>2. PICK q \in DOMAIN published : Place(q) = i
      BY <3>1, PlacesAreTaken
    <3>3. q \in page
      BY <3>2 DEF PageAt
    <3> QED
      BY <3>2, <3>3
  <2>3. place \in [page -> T]
    BY <1>2
  <2>4. place \in Surjection(page, T)
    <3> HIDE DEF page, place, T
    <3> QED
      BY <2>2, <2>3 DEF Surjection
  <2> QED
    BY <1>5, <2>4
<1>8. Cardinality(page) < server.cap => \A r \in DOMAIN published : Place(r) < offset + server.cap
  <2> HIDE DEF page, T
  <2> QED
    BY <1>1, <1>6, <1>7
<1> QED
  BY <1>1, <1>5, <1>6, <1>8

(* The rows of a page have the first places from its offset.               *)
LEMMA PagesAreFirst ==
  ASSUME RowsOK, server.cap \in Nat, NEW offset \in Nat, NEW r \in PageAt(offset)
  PROVE  Place(r) < offset + Cardinality(PageAt(offset))
<1> DEFINE page == PageAt(offset)
           Q == {q \in page : Place(q) <= Place(r)}
           T == offset .. Place(r)
           place == [q \in Q |-> Place(q)]
<1>1. /\ r \in DOMAIN published /\ page \in SUBSET (DOMAIN published)
      /\ \A q \in page : Place(q) \in offset .. offset + server.cap - 1
  BY DEF PageAt
<1>2. Place(r) \in Nat /\ Cardinality(DOMAIN published) \in Nat
      /\ Place(r) < Cardinality(DOMAIN published)
  BY <1>1, PlacesAre
<1>3. Place(r) \in offset .. offset + server.cap - 1
  BY <1>1
<1>4. IsFiniteSet(T) /\ Cardinality(T) = Place(r) - offset + 1
  <2>1. offset \in Int /\ Place(r) \in Int /\ ~ (offset > Place(r))
    BY <1>2, <1>3
  <2> QED
    BY <2>1, FS_Interval
<1>5. IsFiniteSet(page) /\ Cardinality(page) \in Nat
  BY PagesAreFull
<1>6. IsFiniteSet(Q) /\ Cardinality(Q) <= Cardinality(page) /\ Cardinality(Q) \in Nat
  <2>1. Q \in SUBSET page
    OBVIOUS
  <2> HIDE DEF Q, page
  <2> QED
    BY <1>5, <2>1, FS_Subset, FS_CardinalityType
<1>7. \A i \in T : \E q \in Q : place[q] = i
  <2> TAKE i \in T
  <2>1. i \in Nat /\ i < Cardinality(DOMAIN published) /\ i <= Place(r)
        /\ i \in offset .. offset + server.cap - 1
    BY <1>2, <1>3
  <2>2. PICK q \in DOMAIN published : Place(q) = i
    BY <2>1, PlacesAreTaken
  <2>3. q \in Q
    BY <2>1, <2>2 DEF PageAt
  <2> QED
    BY <2>2, <2>3
<1>8. place \in [Q -> T]
  <2>1. \A q \in Q : Place(q) \in T
    BY <1>1, <1>2
  <2> QED
    BY <2>1
<1>9. place \in Surjection(Q, T)
  <2> HIDE DEF Q, T, place
  <2> QED
    BY <1>7, <1>8 DEF Surjection
<1>10. Cardinality(T) <= Cardinality(Q)
  <2> HIDE DEF Q, T, place
  <2> QED
    BY <1>6, <1>9, FS_Surjection
<1> HIDE DEF page, Q, T
<1>11. Cardinality(T) <= Cardinality(page)
  BY <1>2, <1>4, <1>5, <1>6, <1>10
<1> QED
  BY <1>2, <1>4, <1>5, <1>11 DEF page

-------------------------------------------------------------------------------
PullType ==
  [phase : {"idle", "reading", "read"}, mode : {"append", "rebuild"}, limit : Nat,
   offset : Nat, n : Nat, read : SUBSET RowText, full : BOOLEAN,
   steady : SUBSET Row, shown : SUBSET RowText, shifted : BOOLEAN]

RemoteType ==
  /\ RowsOK /\ published \in [DOMAIN published -> RowText]
  /\ server.cap \in Nat \ {0} /\ (server.kind = "socrata" => server.cap = PageSize)
  /\ pull \in PullType

(* Of the rows that stayed as they were the text is read when the offset   *)
(* has passed their place, as long as no row before the offset went.       *)
Passed ==
  /\ pull.read \subseteq pull.shown /\ Shown(published) \subseteq pull.shown
  /\ pull.steady \subseteq DOMAIN published
  /\ pull.full => pull.phase = "read"
  /\ ~ pull.full /\ ~ pull.shifted =>
       \A r \in pull.steady : pull.phase = "read" \/ Place(r) < pull.offset
                                => published[r] \in pull.read \cup {""}

RemoteInv == RemoteType /\ (pull.phase # "idle" => Passed)

LEMMA RemoteStart == RemoteInit => RemoteInv
<1> SUFFICES ASSUME RemoteInit PROVE RemoteInv
  OBVIOUS
<1>1. RowsOK /\ published \in [DOMAIN published -> RowText]
  BY RemoteConstants DEF RemoteInit, RowsOK
<1>2. server.cap \in Nat \ {0} /\ (server.kind = "socrata" => server.cap = PageSize)
  <2>1. CASE server = [kind |-> "socrata", cap |-> PageSize]
    BY <2>1, RemoteConstants
  <2>2. CASE \E c \in Caps : server = [kind |-> "arcgis", cap |-> c]
    <3>1. PICK c \in Caps : server = [kind |-> "arcgis", cap |-> c]
      BY <2>2
    <3>2. server.cap = c /\ server.kind = "arcgis"
      BY <3>1
    <3>3. PageSize \in Nat /\ c \in 1 .. PageSize
      BY RemoteConstants
    <3> QED
      BY <3>2, <3>3
  <2> QED
    BY <2>1, <2>2 DEF RemoteInit
<1>3. NoPull \in PullType /\ NoPull.phase = "idle"
  BY DEF NoPull, PullType
<1> QED
  BY <1>1, <1>2, <1>3 DEF RemoteInv, RemoteType, RemoteInit

(* The publisher changes the rows: what stays is as it was before.         *)
LEMMA RepublishKeeps ==
  ASSUME RemoteInv, NEW rows, NEW shifts \in BOOLEAN, Republish(rows, shifts),
         DOMAIN rows \subseteq Row, IsFiniteSet(DOMAIN rows), rows \in [DOMAIN rows -> RowText],
         ~ shifts => \A r \in DOMAIN published \cap DOMAIN rows :
                       Place(r)' < pull.offset => Place(r) < pull.offset
  PROVE  RemoteInv'
<1>1. published' = rows /\ server' = server
  BY DEF Republish
<1>2. RowsOK' /\ (published \in [DOMAIN published -> RowText])'
      /\ (server.cap \in Nat \ {0} /\ (server.kind = "socrata" => server.cap = PageSize))'
  BY <1>1 DEF RowsOK, RemoteInv, RemoteType
<1>3. pull \in PullType
  BY DEF RemoteInv, RemoteType
<1>4. CASE pull.phase = "idle"
  <2>1. pull' = pull
    BY <1>4 DEF Republish
  <2> QED
    BY <1>2, <1>3, <1>4, <2>1 DEF RemoteInv, RemoteType
<1>5. CASE pull.phase # "idle"
  <2> DEFINE steady == {r \in pull.steady : r \in DOMAIN rows /\ rows[r] = published[r]}
             shown == pull.shown \cup Shown(rows)
             shifted == pull.shifted \/ shifts
  <2>1. pull' = [pull EXCEPT !.steady = steady, !.shown = shown, !.shifted = shifted]
    BY <1>5 DEF Republish
  <2>2. steady \in SUBSET Row /\ shown \in SUBSET RowText /\ shifted \in BOOLEAN
        /\ steady \subseteq pull.steady
    BY <1>3 DEF PullType, Shown
  <2>3. /\ pull' \in PullType /\ pull'.phase = pull.phase /\ pull'.read = pull.read
        /\ pull'.full = pull.full /\ pull'.offset = pull.offset
        /\ pull'.steady = steady /\ pull'.shown = shown /\ pull'.shifted = shifted
    <3> HIDE DEF steady, shown, shifted
    <3> QED
      BY <1>3, <2>1, <2>2 DEF PullType
  <2>4. Passed
    BY <1>5 DEF RemoteInv
  <2>5. (pull.read \subseteq pull.shown /\ Shown(published) \subseteq pull.shown)'
    <3>1. Shown(published)' = Shown(rows)
      BY <1>1 DEF Shown
    <3> HIDE DEF steady, shifted
    <3> QED
      BY <2>3, <2>4, <3>1 DEF Passed
  <2>6. (pull.steady \subseteq DOMAIN published)'
    <3> HIDE DEF shown, shifted
    <3>1. steady \subseteq DOMAIN rows
      OBVIOUS
    <3> HIDE DEF steady
    <3> QED
      BY <1>1, <2>3, <3>1
  <2>9. (pull.full => pull.phase = "read")'
    <3> HIDE DEF steady, shown, shifted
    <3> QED
      BY <2>3, <2>4 DEF Passed
  <2>7. ASSUME ~ pull'.full, ~ pull'.shifted, NEW r \in pull'.steady,
               pull'.phase = "read" \/ Place(r)' < pull'.offset
        PROVE  published'[r] \in pull'.read \cup {""}
    <3>1. ~ pull.full /\ ~ pull.shifted /\ ~ shifts
      <4> HIDE DEF steady, shown
      <4> QED
        BY <2>3, <2>7
    <3>2. r \in pull.steady /\ r \in DOMAIN rows /\ rows[r] = published[r] /\ r \in DOMAIN published
      BY <2>3, <2>4, <2>7 DEF Passed
    <3>3. pull.phase = "read" \/ Place(r) < pull.offset
      <4> HIDE DEF steady, shown, shifted
      <4> QED
        BY <2>3, <2>7, <3>1, <3>2
    <3>4. published[r] \in pull.read \cup {""}
      BY <2>4, <3>1, <3>2, <3>3 DEF Passed
    <3> HIDE DEF steady, shown, shifted
    <3> QED
      BY <1>1, <2>3, <3>2, <3>4
  <2>8. Passed'
    <3> HIDE DEF steady, shown, shifted
    <3> QED
      BY <2>5, <2>6, <2>7, <2>9 DEF Passed
  <2> QED
    BY <1>2, <2>3, <2>8 DEF RemoteInv, RemoteType
<1> QED
  BY <1>4, <1>5

LEMMA PutRowKeeps ==
  ASSUME RemoteInv, NEW r \in Row, NEW text \in RowText, PutRow(r, text)
  PROVE  RemoteInv'
<1> DEFINE rows == [q \in DOMAIN published \cup {r} |-> IF q = r THEN text ELSE published[q]]
<1>1. Republish(rows, FALSE)
  BY DEF PutRow
<1>2. RowsOK /\ IsFiniteSet(DOMAIN published) /\ DOMAIN published \subseteq Row
      /\ published \in [DOMAIN published -> RowText] /\ pull.offset \in Nat
  BY DEF RemoteInv, RemoteType, RowsOK, PullType
<1>3. /\ DOMAIN rows = DOMAIN published \cup {r} /\ IsFiniteSet(DOMAIN published \cup {r})
      /\ rows \in [DOMAIN published \cup {r} -> RowText]
  BY <1>2, FS_AddElement
<1>4. published' = rows
  BY <1>1 DEF Republish
<1> HIDE DEF rows
<1>5. RowsOK'
  BY <1>2, <1>3, <1>4 DEF RowsOK
<1>6. ASSUME NEW q \in DOMAIN published PROVE Place(q) <= Place(q)' /\ Place(q)' \in Nat /\ Place(q) \in Nat
  <2>1. /\ IsFiniteSet(Before(q)) /\ Place(q) = Cardinality(Before(q)) /\ Place(q) \in Nat
    BY <1>2, PlacesAre
  <2>2. (q \in DOMAIN published)'
    BY <1>3, <1>4
  <2>3. IsFiniteSet(Before(q)') /\ Cardinality(Before(q)') \in Nat
    <3> DEFINE S == DOMAIN published'
    <3>1. S \subseteq Nat /\ IsFiniteSet(S) /\ q \in S
      BY <1>5, <2>2, RemoteConstants DEF RowsOK
    <3>2. Before(q)' = Below(S, q)
      BY DEF Before
    <3> HIDE DEF S
    <3> QED
      BY <3>1, <3>2, BelowIsCounted
  <2>6. Place(q)' = Cardinality(Before(q)')
    BY DEF Place, Before, Below
  <2>4. Before(q) \in SUBSET (Before(q)')
    BY <1>3, <1>4 DEF Before, Below
  <2>5. Cardinality(Before(q)) <= Cardinality(Before(q)')
    BY <2>3, <2>4, FS_Subset
  <2> QED
    BY <2>1, <2>3, <2>5, <2>6
<1>7. \A q \in DOMAIN published \cap DOMAIN rows :
        Place(q)' < pull.offset => Place(q) < pull.offset
  BY <1>2, <1>6
<1> QED
  BY <1>1, <1>2, <1>3, <1>7, RepublishKeeps

(* The places behind a removed row move up by one; none moves before one   *)
(* that stays before it.                                                   *)
LEMMA RemoveRowKeeps ==
  ASSUME RemoteInv, NEW r \in Row, RemoveRow(r)
  PROVE  RemoteInv'
<1> DEFINE rows == [q \in DOMAIN published \ {r} |-> published[q]]
           shifts == Place(r) < pull.offset
<1>1. Republish(rows, shifts) /\ r \in DOMAIN published
  BY DEF RemoveRow
<1>2. RowsOK /\ IsFiniteSet(DOMAIN published) /\ DOMAIN published \subseteq Row
      /\ published \in [DOMAIN published -> RowText] /\ pull.offset \in Nat
  BY DEF RemoteInv, RemoteType, RowsOK, PullType
<1>3. /\ DOMAIN rows = DOMAIN published \ {r} /\ IsFiniteSet(DOMAIN published \ {r})
      /\ rows \in [DOMAIN published \ {r} -> RowText]
  BY <1>2, FS_RemoveElement
<1>4. published' = rows
  BY <1>1 DEF Republish
<1>5. Place(r) \in Nat /\ IsFiniteSet(Before(r)) /\ Place(r) = Cardinality(Before(r)) /\ r \in Nat
  BY <1>1, <1>2, PlacesAre
<1>6. shifts \in BOOLEAN
  BY <1>2, <1>5
<1>7. ASSUME ~ shifts, NEW q \in DOMAIN published \cap DOMAIN rows, Place(q)' < pull.offset
      PROVE  Place(q) < pull.offset
  <2>1. /\ IsFiniteSet(Before(q)) /\ Place(q) = Cardinality(Before(q)) /\ Place(q) \in Nat
        /\ q \in Nat /\ q # r
    BY <1>2, <1>3, PlacesAre
  <2>2. DOMAIN published' \subseteq Nat /\ IsFiniteSet(DOMAIN published') /\ q \in DOMAIN published'
    <3> HIDE DEF rows
    <3> QED
      BY <1>2, <1>3, <1>4, <1>7, RemoteConstants
  <2>3. IsFiniteSet(Below(DOMAIN published', q)) /\ Cardinality(Below(DOMAIN published', q)) \in Nat
    BY <2>2, BelowIsCounted
  <2>4. Place(q)' = Cardinality(Below(DOMAIN published', q))
    BY DEF Place, Below
  <2>5. DOMAIN published' = DOMAIN published \ {r}
    BY <1>3, <1>4
  <2>8. DOMAIN published \subseteq Nat
    BY <1>2, RemoteConstants
  <2> DEFINE D == DOMAIN published
             E == DOMAIN published'
  <2>9. E = D \ {r} /\ D \subseteq Nat
    BY <2>5, <2>8
  <2>10. Before(r) = {p \in D : p < r} /\ Before(q) = {p \in D : p < q}
         /\ Below(E, q) = {p \in E : p < q}
    BY DEF Below, Before
  <2> HIDE DEF rows, shifts, D
  <2>6. CASE q < r
    <3>1. Below(DOMAIN published', q) = Before(q)
      <4> HIDE DEF E
      <4>1. Below(E, q) = Before(q)
        BY <1>5, <2>1, <2>6, <2>9, <2>10
      <4> QED
        BY <4>1 DEF E
    <3> QED
      BY <1>7, <2>1, <2>4, <3>1
  <2>7. CASE ~ (q < r)
    <3>1. Before(r) \in SUBSET Below(DOMAIN published', q)
      <4> HIDE DEF E
      <4>1. ASSUME NEW p \in Before(r) PROVE p \in Below(E, q)
        <5>1. p \in D /\ p \in Nat /\ p < r
          BY <2>9, <2>10, <4>1
        <5>2. p < q /\ p # r
          BY <1>5, <2>1, <2>7, <5>1
        <5> QED
          BY <2>9, <2>10, <5>1, <5>2
      <4> QED
        BY <4>1 DEF E
    <3>2. Cardinality(Before(r)) <= Cardinality(Below(DOMAIN published', q))
      BY <2>3, <3>1, FS_Subset
    <3> QED
      BY <1>2, <1>5, <1>7, <2>3, <2>4, <3>2 DEF shifts
  <2> QED
    BY <2>6, <2>7
<1> HIDE DEF rows, shifts
<1>8. DOMAIN rows \subseteq Row /\ IsFiniteSet(DOMAIN rows) /\ rows \in [DOMAIN rows -> RowText]
  BY <1>2, <1>3
<1> QED
  BY <1>1, <1>6, <1>7, <1>8, RepublishKeeps

LEMMA StartPullKeeps ==
  ASSUME RemoteInv, NEW mode \in {"append", "rebuild"}, NEW limit \in PullLimits,
         StartPull(mode, limit)
  PROVE  RemoteInv'
<1> DEFINE steady == DOMAIN published
           shown == Shown(published)
<1>1. pull' = [NoPull EXCEPT !.phase = "reading", !.mode = mode, !.limit = limit,
                             !.steady = steady, !.shown = shown]
      /\ UNCHANGED <<server, published>>
  BY DEF StartPull
<1>2. RemoteType
  BY DEF RemoteInv
<1>3. steady \in SUBSET Row /\ shown \in SUBSET RowText /\ limit \in Nat
  BY <1>2, RemoteConstants DEF RemoteType, RowsOK, Shown
<1> HIDE DEF steady, shown
<1>4. /\ pull' \in PullType /\ pull'.phase = "reading" /\ pull'.read = {} /\ pull'.offset = 0 /\ ~ pull'.full
      /\ pull'.steady = steady /\ pull'.shown = shown
  BY <1>1, <1>3 DEF NoPull, PullType
<1>5. RemoteType'
  BY <1>1, <1>2, <1>4 DEF RemoteType, RowsOK
<1>6. \A r \in steady : ~ (Place(r)' < 0)
  <2> TAKE r \in steady
  <2>1. r \in DOMAIN published /\ RowsOK
    BY <1>2 DEF steady, RemoteType
  <2>2. Place(r) \in Nat
    BY <2>1, PlacesAre
  <2>3. Place(r)' = Place(r)
    BY <1>1 DEF Place
  <2> QED
    BY <2>2, <2>3
<1>7. Shown(published)' = shown /\ steady = DOMAIN published'
  BY <1>1 DEF shown, steady, Shown
<1>8. Passed'
  BY <1>4, <1>6, <1>7 DEF Passed
<1> QED
  BY <1>5, <1>8 DEF RemoteInv

LEMMA EndPullKeeps ==
  ASSUME RemoteInv, EndPull
  PROVE  RemoteInv'
<1>1. NoPull \in PullType /\ NoPull.phase = "idle"
  BY DEF NoPull, PullType
<1> QED
  BY <1>1 DEF RemoteInv, RemoteType, EndPull, RowsOK

(* A page brings the texts of all rows between the old offset and the new  *)
(* one, and the last page those of all rows behind it.                     *)
LEMMA NextPageKeeps ==
  ASSUME RemoteInv, NextPage
  PROVE  RemoteInv'
<1> DEFINE page == PageAt(pull.offset)
           rows == IF pull.limit = 0 THEN page
                   ELSE {r \in page : Place(r) < pull.offset + pull.limit - pull.n}
           full == pull.limit # 0 /\ pull.n + Cardinality(page) >= pull.limit
           read == pull.read \cup ({published[r] : r \in rows} \ {""})
           n == IF pull.limit = 0 THEN 0 ELSE pull.n + Cardinality(rows)
           offset == NextOffset(pull.offset, page)
           phase == IF full \/ IsLastPage(pull.offset, page) THEN "read" ELSE "reading"
<1>1. /\ pull.phase = "reading" /\ UNCHANGED <<server, published>>
      /\ pull' = [pull EXCEPT !.read = read, !.n = n, !.full = full, !.offset = offset,
                              !.phase = phase]
  BY DEF NextPage
<1>2. /\ RowsOK /\ published \in [DOMAIN published -> RowText]
      /\ server.cap \in Nat /\ server.cap # 0 /\ (server.kind = "socrata" => server.cap = PageSize)
      /\ pull \in PullType /\ Passed
  BY <1>1 DEF RemoteInv, RemoteType
<1>3. /\ pull.offset \in Nat /\ pull.n \in Nat /\ pull.limit \in Nat /\ pull.read \in SUBSET RowText
      /\ PageSize \in Nat
  BY <1>2, RemoteConstants DEF PullType
<1>4. /\ IsFiniteSet(page) /\ Cardinality(page) \in Nat /\ Cardinality(page) <= server.cap
      /\ Cardinality(page) < server.cap =>
           \A r \in DOMAIN published : Place(r) < pull.offset + server.cap
  BY <1>2, <1>3, PagesAreFull
<1>5. page = {r \in DOMAIN published : Place(r) \in pull.offset .. pull.offset + server.cap - 1}
  BY DEF PageAt
<1>6. \A r \in DOMAIN published : Place(r) \in Nat /\ Place(r) < Cardinality(DOMAIN published)
                                  /\ Cardinality(DOMAIN published) \in Nat
  BY <1>2, PlacesAre
<1>7. rows \subseteq page
  OBVIOUS
<1>8. IsFiniteSet(rows) /\ Cardinality(rows) \in Nat
  <2> HIDE DEF rows, page
  <2> QED
    BY <1>4, <1>7, FS_Subset, FS_CardinalityType
<1>9. ~ full => rows = page
  <2>1. CASE pull.limit = 0
    BY <2>1
  <2>2. CASE pull.limit # 0 /\ ~ full
    <3>1. pull.n + Cardinality(page) < pull.limit
      <4> HIDE DEF page
      <4> QED
        BY <1>3, <1>4, <2>2
    <3>2. ASSUME NEW r \in page PROVE Place(r) < pull.offset + pull.limit - pull.n
      <4>1. Place(r) < pull.offset + Cardinality(page)
        BY <1>2, <1>3, PagesAreFirst
      <4>2. Place(r) \in Nat
        BY <1>5, <1>6
      <4> HIDE DEF page
      <4> QED
        BY <1>3, <1>4, <3>1, <4>1, <4>2
    <3> QED
      BY <2>2, <3>2
  <2> QED
    BY <2>1, <2>2
<1>10. /\ pull.offset <= offset /\ offset \in Nat
       /\ \A r \in DOMAIN published : Place(r) < offset => Place(r) < pull.offset \/ r \in page
  <2>1. offset = pull.offset + (IF server.kind = "socrata" THEN PageSize ELSE Cardinality(page))
    BY DEF NextOffset
  <2> HIDE DEF offset
  <2>2. offset <= pull.offset + server.cap /\ pull.offset <= offset /\ offset \in Nat
    <3> HIDE DEF page
    <3> QED
      BY <1>2, <1>3, <1>4, <2>1
  <2>3. ASSUME NEW r \in DOMAIN published, Place(r) < offset, ~ (Place(r) < pull.offset)
        PROVE  r \in page
    <3>1. Place(r) \in pull.offset .. pull.offset + server.cap - 1
      <4> HIDE DEF page
      <4> QED
        BY <1>2, <1>3, <1>6, <2>2, <2>3
    <3> QED
      BY <1>5, <3>1
  <2> QED
    BY <2>2, <2>3
<1>11. ASSUME ~ full, phase = "read", NEW r \in DOMAIN published
       PROVE  Place(r) < pull.offset \/ r \in page
  <2>1. IsLastPage(pull.offset, page)
    BY <1>11
  <2>2. ASSUME ~ (Place(r) < pull.offset), r \notin page
        PROVE  FALSE
    <3>1. ~ (Place(r) < pull.offset + server.cap)
      <4> SUFFICES ASSUME Place(r) < pull.offset + server.cap PROVE FALSE
        OBVIOUS
      <4>1. Place(r) \in pull.offset .. pull.offset + server.cap - 1
        <5> HIDE DEF page
        <5> QED
          BY <1>2, <1>3, <1>6, <2>2
      <4> QED
        BY <1>5, <2>2, <4>1
    <3>2. ~ (Cardinality(page) < server.cap)
      <4> HIDE DEF page
      <4> QED
        BY <1>4, <3>1
    <3>3. CASE server.kind = "socrata"
      <4> HIDE DEF page
      <4> QED
        BY <1>2, <2>1, <3>2, <3>3 DEF IsLastPage
    <3>4. CASE server.kind # "socrata"
      <4>1. page # {}
        <5> HIDE DEF page
        <5> QED
          BY <1>2, <1>4, <3>2, FS_EmptySet
      <4>2. pull.offset + server.cap >= Cardinality(DOMAIN published)
        <5> HIDE DEF page
        <5> QED
          BY <1>2, <1>3, <1>6, <2>1, <3>4, <4>1 DEF IsLastPage, ExceededTransferLimit
      <4> QED
        BY <1>2, <1>3, <1>6, <3>1, <4>2
    <3> QED
      BY <3>3, <3>4
  <2> QED
    BY <2>2
<1>12. read \in SUBSET RowText /\ n \in Nat /\ full \in BOOLEAN /\ phase \in {"reading", "read"}
  <2>1. \A r \in rows : published[r] \in RowText
    <3>1. rows \subseteq DOMAIN published
      BY <1>5, <1>7
    <3> HIDE DEF rows
    <3> QED
      BY <1>2, <3>1
  <2>2. read \in SUBSET RowText
    <3> HIDE DEF rows
    <3> QED
      BY <1>3, <2>1
  <2>3. n \in Nat
    <3> HIDE DEF rows
    <3> QED
      BY <1>3, <1>8
  <2>4. full \in BOOLEAN /\ phase \in {"reading", "read"}
    OBVIOUS
  <2> QED
    BY <2>2, <2>3, <2>4
<1>13. /\ read \subseteq pull.shown
       /\ \A r \in rows : published[r] \in read \cup {""}
       /\ pull.read \subseteq read
  <2>1. \A r \in rows : published[r] \in pull.shown
    <3>1. rows \subseteq DOMAIN published
      BY <1>5, <1>7
    <3> HIDE DEF rows
    <3> QED
      BY <1>2, <3>1 DEF Passed, Shown
  <2> HIDE DEF rows
  <2> QED
    BY <1>2, <2>1 DEF Passed
<1>14. ASSUME NEW r \in pull.steady, ~ full, ~ pull.full, ~ pull.shifted,
              phase = "read" \/ Place(r) < offset
       PROVE  published[r] \in read \cup {""}
  <2>1. r \in DOMAIN published
    BY <1>2, <1>14 DEF Passed
  <2>2. Place(r) < pull.offset \/ r \in page
    <3> HIDE DEF page, full, phase, offset
    <3> QED
      BY <1>10, <1>11, <1>14, <2>1
  <2>3. Place(r) < pull.offset => published[r] \in pull.read \cup {""}
    BY <1>2, <1>14 DEF Passed
  <2> HIDE DEF page, rows, full, phase, offset, read
  <2> QED
    BY <1>9, <1>13, <1>14, <2>2, <2>3
<1> HIDE DEF page, rows, full, read, n, offset, phase
<1>15. /\ pull' \in PullType /\ pull'.phase = phase /\ pull'.read = read /\ pull'.full = full
       /\ pull'.offset = offset /\ pull'.steady = pull.steady /\ pull'.shown = pull.shown
       /\ pull'.shifted = pull.shifted
  BY <1>1, <1>2, <1>10, <1>12 DEF PullType
<1>16. RemoteType'
  BY <1>1, <1>15 DEF RemoteType, RowsOK, RemoteInv
<1>17. Passed'
  <2>1. (pull.read \subseteq pull.shown)' /\ (pull.steady \subseteq DOMAIN published)'
    BY <1>1, <1>2, <1>13, <1>15 DEF Passed
  <2>3. (Shown(published) \subseteq pull.shown)'
    <3>1. Shown(published)' = Shown(published)
      BY <1>1 DEF Shown
    <3> QED
      BY <1>2, <1>15, <3>1 DEF Passed
  <2>4. (pull.full => pull.phase = "read")'
    BY <1>15 DEF full, phase
  <2>2. ASSUME NEW r \in pull'.steady, ~ pull'.full, ~ pull'.shifted,
               pull'.phase = "read" \/ Place(r)' < pull'.offset
        PROVE  published'[r] \in pull'.read \cup {""}
    <3>1. Place(r)' = Place(r)
      BY <1>1 DEF Place
    <3>2. published[r] \in read \cup {""}
      <4>1. ~ pull.full
        BY <1>1, <1>2 DEF Passed
      <4> QED
        BY <1>14, <1>15, <2>2, <3>1, <4>1
    <3> QED
      BY <1>1, <1>15, <3>2
  <2> QED
    BY <2>1, <2>2, <2>3, <2>4 DEF Passed
<1> QED
  BY <1>16, <1>17 DEF RemoteInv

LEMMA RemoteStep == RemoteInv /\ [RemoteNext]_remoteVars => RemoteInv'
<1> SUFFICES ASSUME RemoteInv, [RemoteNext]_remoteVars PROVE RemoteInv'
  OBVIOUS
<1>1. ASSUME NEW r \in Row, RemoveRow(r) PROVE RemoteInv'
  BY <1>1, RemoveRowKeeps
<1>2. ASSUME NEW r \in Row, NEW text \in RowText, PutRow(r, text) PROVE RemoteInv'
  BY <1>2, PutRowKeeps
<1>3. ASSUME NEW mode \in {"append", "rebuild"}, NEW limit \in PullLimits, StartPull(mode, limit)
      PROVE  RemoteInv'
  BY <1>3, StartPullKeeps
<1>4. CASE NextPage
  BY <1>4, NextPageKeeps
<1>5. CASE FinishPull \/ FailPull
  BY <1>5, EndPullKeeps DEF FinishPull, FailPull
<1>6. CASE UNCHANGED remoteVars
  BY <1>6 DEF remoteVars, RemoteInv, RemoteType, RowsOK, Passed, Place
<1> QED
  BY <1>1, <1>2, <1>3, <1>4, <1>5, <1>6 DEF RemoteNext

(* What a step may do to the records of rows.                              *)
LEMMA RowsStep == RemoteInv /\ [RemoteNext]_remoteVars => RowsKept
<1> SUFFICES ASSUME RemoteInv, [RemoteNext]_remoteVars,
                    pull.phase = "read", pull'.phase = "idle", ~ pull.full
             PROVE  /\ ~ pull.shifted => {published[r] : r \in pull.steady} \ {""} \subseteq indexed'
                    /\ pull.mode = "rebuild" => indexed' \subseteq pull.shown
  BY DEF RowsKept
<1>1. Passed /\ pull \in PullType
  BY DEF RemoteInv, RemoteType
<1>2. FinishPull
  <2>1. ASSUME NEW rows, NEW shifts, Republish(rows, shifts) PROVE FALSE
    <3>1. \/ pull' = pull
          \/ pull' = [pull EXCEPT !.steady = {r \in @ : r \in DOMAIN rows /\ rows[r] = published[r]},
                                  !.shown = @ \cup Shown(rows), !.shifted = @ \/ shifts]
      BY <2>1 DEF Republish
    <3>2. pull'.phase = pull.phase
      BY <1>1, <3>1 DEF PullType
    <3> QED
      BY <3>2
  <2>2. \A r \in Row : ~ RemoveRow(r) /\ \A text \in RowText : ~ PutRow(r, text)
    BY <2>1 DEF RemoveRow, PutRow
  <2> QED
    BY <2>2 DEF RemoteNext, StartPull, NextPage, FailPull, remoteVars
<1>3. pull.read \subseteq indexed' /\ (pull.mode = "rebuild" => indexed' = pull.read)
  BY <1>2 DEF FinishPull
<1>4. ~ pull.shifted => \A r \in pull.steady : published[r] \in pull.read \cup {""}
  BY <1>1 DEF Passed
<1> QED
  BY <1>1, <1>3, <1>4 DEF Passed

-------------------------------------------------------------------------------
(* WHAT IS PROVED                                                          *)
(* A meeting's file holds that meeting's words, and between two runs of    *)
(* the fetcher every transcript is in the catalogue unless a run died; and *)
(* everything has its type.  It holds of every catalogue in which          *)
(* target_file gives the meetings that are fetched files of their own.     *)
THEOREM CatalogIsTrue == ASSUME DistinctFiles PROVE Spec => []CatalogTrue
<1>1. ASSUME IngestInv PROVE CatalogTrue
  <2>1. ASSUME NEW m \in Meeting, HasFile(catalog, m) PROVE docs[catalog[m]].of = m
    BY <1>1, <2>1, FilesAreTheirs DEF IngestInv, ArchiveInv
  <2>2. fetch.phase = "idle" /\ incidents = 0 =>
          \A p \in Path : docs[p] # NoDoc => catalog[docs[p].of] = p
    BY <1>1 DEF IngestInv, ArchiveInv, Current
  <2> QED
    BY <1>1, <2>1, <2>2, IngestTypes DEF CatalogTrue
<1>2. IngestInv => CatalogTrue
  BY <1>1
<1> QED
  BY <1>2, IngestStart, IngestStep, PTL DEF Spec

(* Every word of the captions reaches the transcript, whatever was said,   *)
(* but the lines of plain captions that repeat the one before, for which   *)
(* WordingIsUnchanged is false; of rolling captions these too.  And every  *)
(* record of the audit opens the video where its words begin: through      *)
(* every paragraph and passage, and whatever runs are killed or overlap.   *)
(* The catalogue is as above.                                              *)
THEOREM RecordsAreFaithful == ASSUME DistinctFiles PROVE Spec => []RecordsFaithful
<1>1. IngestInv /\ SoundInv => RecordsFaithful
  <2> SUFFICES ASSUME IngestInv, SoundInv PROVE RecordsFaithful
    OBVIOUS
  <2>1. \A r \in ToSet(records) \ {Broken} : TimedWhereSpoken(r)
    BY DEF SoundInv, Sound
  <2>2. ASSUME NEW p \in Path, docs[p].whole
        PROVE  Words(docs[p]) = IF docs[p].kind = "auto" THEN said[docs[p].of]
                                ELSE Unrepeated(said[docs[p].of])
    <3>1. docs[p] \in Transcript \cup {NoDoc} /\ said \in Speeches
      BY DEF IngestInv, ArchiveInv
    <3> QED
      BY <2>2, <3>1, WordsAreSaid
  <2> QED
    BY <2>1, <2>2 DEF RecordsFaithful
<1> QED
  BY <1>1, IngestStart, IngestStep, SoundStart, SoundStep, PTL DEF Spec

(* Zero loss: a completed run leaves every passage of the archive in the   *)
(* file or among the dead letters and a rebuild nothing else, no record is *)
(* in the file twice, and a data set that is read to its end loses no row  *)
(* that stayed where it was.  The sources change side by side, or in turns *)
(* as the run does.                                                        *)
THEOREM NothingIsLost == Spec /\ RemoteSpec => NothingLost
<1> DEFINE Twice == \E i, k \in DOMAIN records' : records'[i] = records'[k] /\ records'[i] # Broken /\ i # k
           Lost(j) == LET kept == ToSet(records') \ {Broken}
                          archive == ArchivePassages(job[j].file)
                      IN /\ ~job[j].detached /\ ~job[j].glued => archive \subseteq kept \cup dead'
                         /\ job[j].mode = "rebuild" => kept \subseteq archive /\ Broken \notin ToSet(records')
           Body == /\ RowsKept
                   /\ \A i, k \in DOMAIN records' : records'[i] = records'[k] /\ records'[i] # Broken => i = k
                   /\ \A j \in Job : Completed(j) => Lost(j)
<1>1. IngestInv /\ [Next]_vars /\ RemoteInv /\ [RemoteNext]_remoteVars => Body
  <2> SUFFICES ASSUME IngestInv, [Next]_vars, RemoteInv, [RemoteNext]_remoteVars PROVE Body
    OBVIOUS
  <2>1. RowsKept
    BY RowsStep
  <2>2. \A i, k \in DOMAIN records' : records'[i] = records'[k] /\ records'[i] # Broken => i = k
    BY IngestStep DEF IngestInv, RecordsOK, Once
  <2>3. ASSUME NEW j \in Job, Completed(j) PROVE Lost(j)
    BY <2>3, CompletedKeepsAll DEF Kept
  <2> QED
    BY <2>1, <2>2, <2>3
<1>2. IngestInv /\ [Next]_vars /\ RemoteInv /\ [RemoteNext]_remoteVars => [Body]_<<vars, remoteVars>>
  BY <1>1
<1> QED
  BY <1>2, IngestStart, IngestStep, RemoteStart, RemoteStep, PTL DEF Spec, RemoteSpec, NothingLost
=============================================================================
