-------------------------- MODULE ManagedFile_proofs --------------------------
(***************************************************************************)
(* Theorems about a file under append(), copy() and template(), for any    *)
(* markers and contents, files of any length and any number of calls and   *)
(* edits.                                                                  *)
(***************************************************************************)
EXTENDS ManagedFile, TLAPS, FiniteSetTheorems, SequenceTheorems

(***************************************************************************)
(* First and Subsequence                                                   *)
(***************************************************************************)

\* The natural numbers are well ordered.
LEMMA Minimum ==
  ASSUME NEW S \in SUBSET Nat, S # {}
  PROVE  First(S) \in S /\ \A j \in S : First(S) <= j
<1> DEFINE Less == OpToRel(<, Nat)
<1>1. \A i, j \in Nat : <<i, j>> \in Less <=> i < j
  BY DEF OpToRel
<1>2. IsWellFoundedOn(Less, Nat)
  BY NatLessThanWellFounded
<1> HIDE DEF Less
<1>3. PICK i \in S : \A j \in S : ~ (<<j, i>> \in Less)
  BY <1>2, WFMin
<1>4. \A j \in S : i <= j
  <2>1. ASSUME NEW j \in S PROVE i <= j
    <3>1. i \in Nat /\ j \in Nat /\ ~ (j < i)
      BY <1>1, <1>3
    <3>2. QED BY <3>1
  <2>2. QED BY <2>1
<1>5. QED BY <1>4 DEF First

LEMMA FirstIs ==
  ASSUME NEW S \in SUBSET Nat, NEW i \in S, \A j \in S : i <= j
  PROVE  First(S) = i
<1>1. First(S) \in S /\ First(S) <= i
  BY Minimum
<1>2. First(S) \in Nat /\ i \in Nat /\ i <= First(S)
  BY <1>1
<1>3. QED BY <1>1, <1>2

\* The position in I with k - 1 others in front of it
Nth(I, k) == CHOOSE i \in I : Cardinality({j \in I : j <= i}) = k

LEMMA NthExists ==
  ASSUME NEW I \in SUBSET Nat, IsFiniteSet(I), NEW k \in 1 .. Cardinality(I)
  PROVE  Nth(I, k) \in I
<1> DEFINE Upto(i) == {j \in I : j <= i}
           rank == [i \in I |-> Cardinality(Upto(i))]
           n == Cardinality(I)
<1>0. \A i \in I : i \in Nat
  OBVIOUS
<1>1. n \in Nat /\ IsFiniteSet(1 .. n) /\ Cardinality(1 .. n) = n
  <2>1. n \in Nat
    BY FS_CardinalityType
  <2> HIDE DEF n
  <2>2. QED BY <2>1, FS_Interval
<1>2. ASSUME NEW i \in I
      PROVE  IsFiniteSet(Upto(i)) /\ rank[i] \in 1 .. n
  <2>1. IsFiniteSet(Upto(i)) /\ Cardinality(Upto(i)) <= n
    BY FS_Subset
  <2>2. i \in Upto(i)
    BY <1>0
  <2>3. Cardinality(Upto(i)) \in Nat /\ Cardinality(Upto(i)) # 0
    BY <2>1, <2>2, FS_CardinalityType, FS_EmptySet
  <2> HIDE DEF n, Upto
  <2>4. QED BY <1>1, <2>1, <2>3
<1>3. ASSUME NEW i \in I, NEW j \in I, i < j
      PROVE  rank[i] < rank[j]
  <2>1. Upto(i) \subseteq Upto(j) /\ j \in Upto(j) /\ j \notin Upto(i)
    <3>1. i \in Nat /\ j \in Nat /\ j <= j /\ ~ (j <= i)
      BY <1>0, <1>3
    <3>2. \A l \in I : l <= i => l <= j
      BY <1>0, <1>3
    <3>3. QED BY <3>1, <3>2
  <2>2. IsFiniteSet(Upto(j)) /\ Upto(i) # Upto(j)
    BY <1>2, <2>1
  <2> HIDE DEF Upto
  <2>3. Cardinality(Upto(i)) <= Cardinality(Upto(j)) /\ Cardinality(Upto(i)) # Cardinality(Upto(j))
    BY <2>1, <2>2, FS_Subset
  <2>4. Cardinality(Upto(i)) \in Nat /\ Cardinality(Upto(j)) \in Nat
    BY <1>2, FS_CardinalityType
  <2>5. QED BY <2>3, <2>4
<1>4. \A i, j \in I : rank[i] = rank[j] => i = j
  <2> SUFFICES ASSUME NEW i \in I, NEW j \in I, rank[i] = rank[j], i # j PROVE FALSE
    OBVIOUS
  <2>1. i < j \/ j < i
    <3>1. i \in Nat /\ j \in Nat
      BY <1>0
    <3>2. QED BY <3>1
  <2>2. rank[i] < rank[j] \/ rank[j] < rank[i]
    BY <1>3, <2>1
  <2>3. rank[i] \in 1 .. n /\ rank[j] \in 1 .. n
    BY <1>2
  <2> HIDE DEF rank, n
  <2>4. QED BY <1>1, <2>2, <2>3
<1>5. rank \in Injection(I, 1 .. n)
  <2>1. rank \in [I -> 1 .. n]
    BY <1>2
  <2> HIDE DEF rank
  <2>2. QED BY <1>4, <2>1 DEF Injection, IsInjective
<1>6. rank \in Surjection(I, 1 .. n)
  <2> HIDE DEF rank, n
  <2>1. QED BY <1>1, <1>5, FS_Injection DEF n
<1>7. PICK i \in I : rank[i] = k
  BY <1>6 DEF Surjection
<1>8. Cardinality({j \in I : j <= i}) = k
  BY <1>7
<1>9. QED BY <1>8 DEF Nth

LEMMA SubsequenceType ==
  ASSUME NEW S, NEW lines \in Seq(S), NEW I \in SUBSET (1 .. Len(lines))
  PROVE  Subsequence(lines, I) \in Seq(S)
<1>1. Len(lines) \in Nat /\ I \subseteq Nat
  BY LenProperties
<1>2. IsFiniteSet(I) /\ Cardinality(I) \in Nat
  <2>1. IsFiniteSet(1 .. Len(lines))
    BY <1>1, FS_Interval
  <2>2. QED BY <2>1, FS_Subset, FS_CardinalityType
<1>3. \A k \in 1 .. Cardinality(I) : Nth(I, k) \in I
  BY <1>1, <1>2, NthExists
<1>4. \A k \in 1 .. Cardinality(I) : lines[Nth(I, k)] \in S
  BY <1>3, ElementOfSeq
<1>5. Subsequence(lines, I) = [k \in 1 .. Cardinality(I) |-> lines[Nth(I, k)]]
  BY DEF Subsequence, Nth
<1>6. QED BY <1>2, <1>4, <1>5, IsASeq

\* Without a gap in I it is SubSeq.
LEMMA SubsequenceOfInterval ==
  ASSUME NEW S, NEW lines \in Seq(S), NEW a \in 1 .. Len(lines) + 1
  PROVE  Subsequence(lines, a .. Len(lines)) = SubSeq(lines, a, Len(lines))
<1> DEFINE n == Len(lines)
           I == a .. n
<1>1. n \in Nat /\ a \in Nat /\ a >= 1 /\ a <= n + 1
  BY LenProperties
<1> HIDE DEF n
<1>2. Cardinality(I) = n - a + 1
  <2>1. a \in Int /\ n \in Int /\ a <= n + 1
    BY <1>1
  <2>2. Cardinality(a .. n) = IF a > n THEN 0 ELSE n - a + 1
    BY <2>1, FS_Interval
  <2>3. QED BY <2>1, <2>2
<1>3. ASSUME NEW k \in 1 .. n - a + 1
      PROVE  Nth(I, k) = a + k - 1
  <2>1. \A i \in I : {j \in I : j <= i} = a .. i
    BY <1>1
  <2>2. \A i \in I : Cardinality({j \in I : j <= i}) = i - a + 1
    <3> SUFFICES ASSUME NEW i \in I PROVE Cardinality({j \in I : j <= i}) = i - a + 1
      OBVIOUS
    <3>1. a \in Int /\ i \in Int /\ a <= i
      BY <1>1
    <3>2. Cardinality(a .. i) = IF a > i THEN 0 ELSE i - a + 1
      BY <3>1, FS_Interval
    <3>3. Cardinality(a .. i) = i - a + 1
      BY <3>1, <3>2
    <3>4. {j \in I : j <= i} = a .. i
      BY <2>1
    <3>5. QED BY <3>3, <3>4
  <2>3. a + k - 1 \in I /\ \A i \in I : i - a + 1 = k <=> i = a + k - 1
    BY <1>1, <1>3
  <2> HIDE DEF I
  <2>4. QED BY <2>2, <2>3 DEF Nth
<1>4. Subsequence(lines, I) = [k \in 1 .. n - a + 1 |-> lines[a + k - 1]]
  <2>1. Subsequence(lines, I) = [k \in 1 .. Cardinality(I) |-> lines[Nth(I, k)]]
    BY DEF Subsequence, Nth
  <2>2. QED BY <1>2, <1>3, <2>1
<1>5. SubSeq(lines, a, n) = [k \in 1 .. n - a + 1 |-> lines[a + k - 1]]
  BY <1>1
<1>6. QED BY <1>4, <1>5 DEF n

(***************************************************************************)
(* Files                                                                   *)
(***************************************************************************)

Texts == {"", "note", "note, with a carriage return", "not UTF-8", "U+FFFD", "mention"}
Line  == [mark : Markers \cup {""}, text : STRING \cup Texts \cup Contents]
Files == [exists : BOOLEAN, lines : Seq(Line), eol : BOOLEAN]

LEMMA LineTypes ==
  /\ Blank \in Line /\ Blank.mark = "" /\ Note \in Line /\ Crlf \in Line /\ Latin \in Line
  /\ \A m \in Markers : Mention(m) \in Line /\ Mention(m).mark = m
  /\ \A m \in Markers, c \in Contents :
       Bound(m, c) \in Line /\ Bound(m, c).mark = m /\ Bound(m, c).text = c
<1>1. /\ Blank \in Line /\ Blank.mark = "" /\ Note \in Line /\ Crlf \in Line /\ Latin \in Line
  BY DEF Blank, Note, Crlf, Latin, Text, Line, Texts
<1>2. ASSUME NEW m \in Markers PROVE Mention(m) \in Line /\ Mention(m).mark = m
  BY DEF Mention, Line, Texts
<1>3. ASSUME NEW m \in Markers, NEW c \in Contents
      PROVE  Bound(m, c) \in Line /\ Bound(m, c).mark = m /\ Bound(m, c).text = c
  BY DEF Bound, Line
<1>4. QED BY <1>1, <1>2, <1>3

LEMMA NoMarker ==
  ASSUME NEW m \in Markers PROVE "" \notin Extensions[m] /\ m \in Extensions[m]
BY FileAssumption

\* Reading a line keeps the marker that it has, and all of a bound.
LEMMA ReadLines ==
  ASSUME NEW line \in Line
  PROVE  /\ Split(line) \in Line /\ Split(line).mark = line.mark
         /\ Decoded(line) \in Line /\ Decoded(line).mark = line.mark
         /\ line.mark # "" => Split(line) = line /\ Decoded(line) = line
<1>1. Note \in Line /\ Replaced \in Line /\ Note.mark = "" /\ Replaced.mark = ""
  BY DEF Note, Replaced, Text, Line, Texts
<1>2. Crlf.mark = "" /\ Latin.mark = ""
  BY DEF Crlf, Latin, Text
<1>3. CASE line = Crlf
  <2>1. Split(line) = Note /\ Decoded(line) \in {line, Replaced}
    BY <1>3 DEF Split, Decoded
  <2>2. QED BY <1>1, <1>2, <1>3, <2>1
<1>4. CASE line # Crlf
  <2>1. Split(line) = line
    BY <1>4 DEF Split
  <2>2. CASE line = Latin
    <3>1. Decoded(line) = Replaced
      BY <2>2 DEF Decoded
    <3>2. QED BY <1>1, <1>2, <2>1, <2>2, <3>1
  <2>3. CASE line # Latin
    <3>1. Decoded(line) = line
      BY <2>3 DEF Decoded
    <3>2. QED BY <2>1, <3>1
  <2>4. QED BY <2>2, <2>3
<1>5. QED BY <1>3, <1>4

\* What scripts write, as it is and by its lines()
LEMMA TextTypes ==
  ASSUME NEW c \in Contents
  PROVE  /\ TextOf[c] \in Seq(Line) /\ Len(TextOf[c]) \in Nat \ {0}
         /\ SplitText(c) \in Seq(Line) /\ Len(SplitText(c)) = Len(TextOf[c])
         /\ \A i \in 1 .. Len(TextOf[c]) : SplitText(c)[i] = Split(TextOf[c][i])
         /\ \A k \in Markers : Silent(c, k) =>
              \A i \in 1 .. Len(TextOf[c]) :
                TextOf[c][i].mark \notin Extensions[k] /\ SplitText(c)[i].mark \notin Extensions[k]
<1> DEFINE T == [mark : Markers \cup {""}, text : STRING]
           t == TextOf[c]
           n == Len(t)
<1>1. t \in Seq(T) /\ t # <<>>
  BY FileAssumption
<1>2. T \subseteq Line
  BY DEF Line
<1>3. t \in Seq(Line)
  BY <1>1, <1>2, SeqMonotonic
<1>4. n \in Nat \ {0} /\ DOMAIN t = 1 .. n /\ \A i \in 1 .. n : t[i] \in Line
  BY <1>1, <1>3, ElementOfSeq, EmptySeq, LenProperties
<1>5. SplitText(c) = [i \in 1 .. n |-> Split(t[i])]
  BY <1>4 DEF SplitText
<1> HIDE DEF T, t, n
<1>6. \A i \in 1 .. n : Split(t[i]) \in Line /\ Split(t[i]).mark = t[i].mark
  BY <1>4, ReadLines
<1>7. SplitText(c) \in Seq(Line) /\ Len(SplitText(c)) = n
  <2>1. \A i \in 1 .. n : Split(t[i]) \in Line
    BY <1>6
  <2> DEFINE u == [i \in 1 .. n |-> Split(t[i])]
  <2>2. u \in Seq(Line) /\ Len(u) = n
    BY <1>4, <2>1, IsASeq
  <2>3. QED BY <1>5, <2>2
<1>8. \A i \in 1 .. n : SplitText(c)[i] = Split(t[i])
  BY <1>5
<1>9. ASSUME NEW k \in Markers, Silent(c, k), NEW i \in 1 .. n
      PROVE  t[i].mark \notin Extensions[k] /\ SplitText(c)[i].mark \notin Extensions[k]
  <2>1. t[i].mark \notin Extensions[k]
    BY <1>4, <1>9 DEF Silent, Mentions, t
  <2>2. QED BY <1>6, <1>8, <2>1
<1>10. QED BY <1>3, <1>4, <1>7, <1>8, <1>9 DEF t, n

LEMMA FileTypes ==
  ASSUME NEW f \in Files
  PROVE  /\ f.lines \in Seq(Line) /\ Len(f.lines) \in Nat /\ DOMAIN f.lines = 1 .. Len(f.lines)
         /\ f.exists \in BOOLEAN /\ f.eol \in BOOLEAN
         /\ \A i \in 1 .. Len(f.lines) : f.lines[i] \in Line
BY LenProperties, ElementOfSeq DEF Files

LEMMA InitialFiles ==
  Absent \in Files /\ Empty \in Files /\ \A c \in Contents : Source(c) \in Files
<1>1. <<>> \in Seq(Line)
  BY EmptySeq
<1>2. ASSUME NEW c \in Contents PROVE Source(c) \in Files
  <2>1. TextOf[c] \in Seq(Line)
    BY TextTypes
  <2>2. CASE c \in Terminated
    BY <2>1, <2>2 DEF Source, Files
  <2>3. CASE c \notin Terminated
    BY <2>1, <2>3 DEF Source, Files
  <2>4. QED BY <2>2, <2>3
<1>3. Absent \in Files /\ Empty \in Files
  BY <1>1 DEF Absent, Empty, Files
<1>4. QED BY <1>2, <1>3

LEMMA HitsFacts ==
  ASSUME NEW f \in Files, NEW m \in Markers
  PROVE  /\ Hits(f, m) \subseteq 1 .. Len(f.lines) /\ Hits(f, m) \subseteq Nat
         /\ IsFiniteSet(Hits(f, m))
         /\ \A i \in 1 .. Len(f.lines) : i \in Hits(f, m) <=> f.lines[i].mark \in Extensions[m]
<1>1. Hits(f, m) = {i \in 1 .. Len(f.lines) : f.lines[i].mark \in Extensions[m]} /\ Len(f.lines) \in Nat
  BY FileTypes DEF Hits, Mentions
<1>2. IsFiniteSet(1 .. Len(f.lines))
  BY <1>1, FS_Interval
<1>3. QED BY <1>1, <1>2, FS_Subset

\* The section begins with a line with the marker, and ends with another one or the file.
LEMMA SectionFacts ==
  ASSUME NEW f \in Files, NEW m \in Markers, Hits(f, m) # {}
  PROVE  /\ First(Hits(f, m)) \in Hits(f, m) /\ SectionEnd(f, m) \in 1 .. Len(f.lines)
         /\ First(Hits(f, m)) <= SectionEnd(f, m)
         /\ \A i \in Hits(f, m) : First(Hits(f, m)) <= i
<1> DEFINE H == Hits(f, m)
           s == First(H)
           rest == H \ {s}
<1>1. H \subseteq 1 .. Len(f.lines) /\ H \in SUBSET Nat /\ rest \in SUBSET Nat /\ Len(f.lines) \in Nat
  BY HitsFacts, FileTypes
<1>2. s \in H /\ \A i \in H : s <= i
  BY <1>1, Minimum
<1>3. SectionEnd(f, m) = IF rest = {} THEN Len(f.lines) ELSE First(rest)
  BY DEF SectionEnd
<1>4. rest # {} => First(rest) \in rest
  BY <1>1, Minimum
<1> HIDE DEF H, s
<1>5. SectionEnd(f, m) \in 1 .. Len(f.lines) /\ s <= SectionEnd(f, m)
  <2>1. s \in 1 .. Len(f.lines)
    BY <1>1, <1>2
  <2>2. CASE rest = {}
    BY <1>1, <1>3, <2>1, <2>2
  <2>3. CASE rest # {}
    <3>1. First(rest) \in H
      BY <1>4, <2>3
    <3>2. First(rest) \in 1 .. Len(f.lines) /\ s <= First(rest)
      BY <1>1, <1>2, <3>1
    <3>3. QED BY <1>3, <2>3, <3>2
  <2>4. QED BY <2>2, <2>3
<1>6. QED BY <1>2, <1>5 DEF H, s

(***************************************************************************)
(* What append() writes                                                    *)
(***************************************************************************)

\* x is p, q and r one after the other.
Joins(x, p, q, r) ==
  /\ Len(x) = Len(p) + Len(q) + Len(r)
  /\ \A i \in 1 .. Len(p) : x[i] = p[i]
  /\ \A i \in 1 .. Len(q) : x[Len(p) + i] = q[i]
  /\ \A i \in 1 .. Len(r) : x[Len(p) + Len(q) + i] = r[i]

LEMMA Spliced ==
  ASSUME NEW S, NEW p \in Seq(S), NEW q \in Seq(S), NEW r \in Seq(S)
  PROVE  p \o q \o r \in Seq(S) /\ Joins(p \o q \o r, p, q, r)
<1> DEFINE pq == p \o q
<1>1. /\ pq \in Seq(S) /\ Len(pq) = Len(p) + Len(q)
      /\ \A i \in 1 .. Len(p) + Len(q) : pq[i] = IF i <= Len(p) THEN p[i] ELSE q[i - Len(p)]
  BY ConcatProperties
<1>2. Len(p) \in Nat /\ Len(q) \in Nat /\ Len(r) \in Nat
  BY LenProperties
<1> HIDE DEF pq
<1>3. /\ pq \o r \in Seq(S) /\ Len(pq \o r) = Len(pq) + Len(r)
      /\ \A i \in 1 .. Len(pq) + Len(r) : (pq \o r)[i] = IF i <= Len(pq) THEN pq[i] ELSE r[i - Len(pq)]
  <2>1. pq \in Seq(S)
    BY <1>1
  <2>2. QED BY <2>1, ConcatProperties, Zenon
<1>4. ASSUME NEW i \in 1 .. Len(p) PROVE (pq \o r)[i] = p[i]
  BY <1>1, <1>2, <1>3
<1>5. ASSUME NEW i \in 1 .. Len(q) PROVE (pq \o r)[Len(p) + i] = q[i]
  <2>1. Len(p) + i \in 1 .. Len(pq) + Len(r) /\ Len(p) + i <= Len(pq) /\ ~ (Len(p) + i <= Len(p))
        /\ Len(p) + i \in 1 .. Len(p) + Len(q) /\ Len(p) + i - Len(p) = i
    BY <1>1, <1>2
  <2>2. QED BY <1>1, <1>3, <2>1
<1>6. ASSUME NEW i \in 1 .. Len(r) PROVE (pq \o r)[Len(p) + Len(q) + i] = r[i]
  <2> DEFINE k == Len(p) + Len(q) + i
  <2>1. k \in 1 .. Len(pq) + Len(r) /\ ~ (k <= Len(pq)) /\ k - Len(pq) = i
    BY <1>1, <1>2
  <2> HIDE DEF k
  <2>2. (pq \o r)[k] = r[i]
    BY <1>3, <2>1
  <2>3. QED BY <2>2 DEF k
<1>7. QED BY <1>1, <1>2, <1>3, <1>4, <1>5, <1>6 DEF pq, Joins

\* A section: two bounds, and the content between them
LEMMA RewrittenLines ==
  ASSUME NEW m \in Markers, NEW c \in Contents
  PROVE  LET R == Rewritten(m, c)
             k == Len(TextOf[c])
         IN  /\ R \in Seq(Line) /\ Len(R) = k + 2
             /\ R[1] = Bound(m, c) /\ R[k + 2] = Bound(m, c)
             /\ \A i \in 1 .. k : R[i + 1] = SplitText(c)[i]
<1> DEFINE b == <<Bound(m, c)>>
<1>1. b \in Seq(Line) /\ Len(b) = 1 /\ b[1] = Bound(m, c)
  <2>1. Bound(m, c) \in Line
    BY LineTypes
  <2> HIDE DEF Line
  <2>2. QED BY <2>1
<1>2. SplitText(c) \in Seq(Line) /\ Len(SplitText(c)) \in Nat /\ Len(SplitText(c)) = Len(TextOf[c])
  BY TextTypes
<1>3. Rewritten(m, c) = b \o SplitText(c) \o b
  BY DEF Rewritten
<1> DEFINE t == SplitText(c)
           R == Rewritten(m, c)
           k == Len(t)
<1> HIDE DEF b, t, R
<1>4. b \o t \o b \in Seq(Line) /\ Joins(b \o t \o b, b, t, b)
  <2>1. b \in Seq(Line) /\ t \in Seq(Line)
    BY <1>1, <1>2 DEF t
  <2>2. QED BY <2>1, Spliced, Zenon
<1>5. R \in Seq(Line) /\ Joins(R, b, t, b)
  BY <1>3, <1>4 DEF R, t
<1>6. k \in Nat
  BY <1>2 DEF t
<1>7. /\ R \in Seq(Line) /\ Len(R) = 1 + k + 1 /\ R[1] = b[1] /\ R[1 + k + 1] = b[1]
      /\ \A i \in 1 .. k : R[1 + i] = t[i]
  <2>1. 1 \in 1 .. Len(b)
    BY <1>1
  <2>2. QED BY <1>1, <1>5, <2>1 DEF Joins
<1>8. /\ 1 + k + 1 = k + 2 /\ \A i \in 1 .. k : 1 + i = i + 1
  BY <1>6
<1>9. QED BY <1>1, <1>2, <1>7, <1>8 DEF R, t

\* The section is replaced where it begins, whatever becomes of the rest.
LEMMA RewriteLines ==
  ASSUME NEW f \in Files, NEW m \in Markers, NEW c \in Contents, Hits(f, m) # {}
  PROVE  LET s == First(Hits(f, m))
             k == Len(TextOf[c])
             L == Rewrite(f, m, c).lines
             rest == Behind(f, m)
         IN  /\ Rewrite(f, m, c) \in Files /\ Rewrite(f, m, c).exists
             /\ s \in 1 .. Len(f.lines) /\ k \in Nat
             /\ rest \in Seq(Line) /\ Len(L) = s + k + 1 + Len(rest)
             /\ \A i \in 1 .. s - 1 : L[i] = f.lines[i]
             /\ L[s] = Bound(m, c) /\ L[s + k + 1] = Bound(m, c)
             /\ \A i \in 1 .. k : L[s + i] = SplitText(c)[i]
             /\ \A i \in 1 .. Len(rest) : L[s + k + 1 + i] = rest[i]
<1> DEFINE s == First(Hits(f, m))
           k == Len(TextOf[c])
           e == SectionEnd(f, m)
           n == Len(f.lines)
           front == SubSeq(f.lines, 1, s - 1)
           R == Rewritten(m, c)
           rest == Behind(f, m)
           L == Rewrite(f, m, c).lines
<1>1. s \in 1 .. n /\ e \in 1 .. n /\ n \in Nat /\ k \in Nat /\ f.lines \in Seq(Line)
  BY SectionFacts, HitsFacts, FileTypes, TextTypes
<1>2. front \in Seq(Line) /\ Len(front) = s - 1 /\ \A i \in 1 .. s - 1 : front[i] = f.lines[i]
  <2> HIDE DEF s, n
  <2>1. \A i \in 1 .. s - 1 : f.lines[i] \in Line
    BY <1>1, ElementOfSeq DEF n
  <2>2. s - 1 \in Int /\ s - 1 >= 0
    BY <1>1
  <2>3. /\ front \in Seq(Line) /\ Len(front) = IF 1 <= s - 1 THEN s - 1 - 1 + 1 ELSE 0
        /\ \A i \in 1 .. s - 1 - 1 + 1 : front[i] = f.lines[1 + i - 1]
    BY <2>1, <2>2, SubSeqProperties
  <2>4. QED BY <1>1, <2>3
<1>3. /\ R \in Seq(Line) /\ Len(R) = k + 2 /\ R[1] = Bound(m, c) /\ R[k + 2] = Bound(m, c)
      /\ \A i \in 1 .. k : R[i + 1] = SplitText(c)[i]
  BY RewrittenLines
<1>4. rest \in Seq(Line) /\ Len(rest) \in Nat
  <2>1. {i \in e + 1 .. n : ~ Mentions(f.lines[i], m)} \in SUBSET (1 .. Len(f.lines))
    BY <1>1
  <2>2. QED BY <1>1, <2>1, SubsequenceType, LenProperties DEF Behind
<1>5. L = front \o R \o rest /\ Rewrite(f, m, c) = [exists |-> TRUE, eol |-> FALSE, lines |-> L]
  BY DEF Rewrite
<1> HIDE DEF front, R, rest, L, s, k, n
<1>6. /\ L \in Seq(Line) /\ Len(L) = s - 1 + (k + 2) + Len(rest)
      /\ \A i \in 1 .. s - 1 : L[i] = front[i]
      /\ \A i \in 1 .. k + 2 : L[s - 1 + i] = R[i]
      /\ \A i \in 1 .. Len(rest) : L[s - 1 + (k + 2) + i] = rest[i]
  <2>1. front \o R \o rest \in Seq(Line) /\ Joins(front \o R \o rest, front, R, rest)
    <3>1. front \in Seq(Line) /\ R \in Seq(Line) /\ rest \in Seq(Line)
      BY <1>2, <1>3, <1>4
    <3>2. QED BY <3>1, Spliced, Zenon
  <2>2. Len(front) = s - 1 /\ Len(R) = k + 2 /\ L = front \o R \o rest
    BY <1>2, <1>3, <1>5
  <2>3. QED BY <2>1, <2>2 DEF Joins
<1>7. Rewrite(f, m, c) \in Files /\ Rewrite(f, m, c).exists
  BY <1>5, <1>6 DEF Files
<1>8. L[s] = Bound(m, c) /\ L[s + k + 1] = Bound(m, c)
  <2>1. s - 1 + 1 = s /\ s - 1 + (k + 2) = s + k + 1 /\ 1 \in 1 .. k + 2 /\ k + 2 \in 1 .. k + 2
    BY <1>1
  <2>2. QED BY <1>3, <1>6, <2>1
<1>9. ASSUME NEW i \in 1 .. k PROVE L[s + i] = SplitText(c)[i]
  <2>1. s - 1 + (i + 1) = s + i /\ i + 1 \in 1 .. k + 2
    BY <1>1
  <2>2. QED BY <1>3, <1>6, <2>1
<1>10. ASSUME NEW i \in 1 .. Len(rest) PROVE L[s + k + 1 + i] = rest[i]
  <2>1. s - 1 + (k + 2) + i = s + k + 1 + i
    BY <1>1, <1>4
  <2>2. QED BY <1>6, <2>1
<1>11. Len(L) = s + k + 1 + Len(rest)
  BY <1>1, <1>4, <1>6
<1>12. QED
  BY <1>1, <1>2, <1>4, <1>6, <1>7, <1>8, <1>9, <1>10, <1>11 DEF L, s, k, n, rest

\* A well-formed section is its two bounds and what is between them.
LEMMA WellFormedFacts ==
  ASSUME NEW f \in Files, NEW m \in Markers, WellFormed(f, m), Hits(f, m) # {}
  PROVE  /\ Hits(f, m) = {First(Hits(f, m)), SectionEnd(f, m)}
         /\ First(Hits(f, m)) < SectionEnd(f, m)
         /\ f.lines[First(Hits(f, m))].mark = m /\ f.lines[SectionEnd(f, m)].mark = m
         /\ Behind(f, m) = SubSeq(f.lines, SectionEnd(f, m) + 1, Len(f.lines))
<1> DEFINE H == Hits(f, m)
           s == First(H)
           e == SectionEnd(f, m)
           n == Len(f.lines)
           rest == H \ {s}
<1>1. /\ H \subseteq 1 .. n /\ H \in SUBSET Nat /\ IsFiniteSet(H) /\ n \in Nat
      /\ s \in H /\ e \in 1 .. n /\ \A i \in H : s <= i
  BY HitsFacts, FileTypes, SectionFacts
<1>2. Cardinality(H) = 2
  BY <1>1, FS_EmptySet DEF WellFormed
<1>3. PICK x : rest = {x}
  <2> HIDE DEF s, H
  <2>1. IsFiniteSet(rest) /\ Cardinality(rest) = 1
    <3>1. Cardinality(rest) = Cardinality(H) - 1 /\ IsFiniteSet(rest)
      BY <1>1, FS_RemoveElement
    <3>2. QED BY <1>2, <3>1
  <2>2. QED BY <2>1, FS_Singleton
<1>4. x \in H /\ x # s /\ H = {s, x}
  BY <1>1, <1>3
<1>5. e = x
  <2>1. rest # {} /\ e = First(rest)
    BY <1>3 DEF SectionEnd
  <2>2. rest \in SUBSET Nat
    BY <1>1
  <2> HIDE DEF rest
  <2>3. First(rest) \in rest
    BY <2>1, <2>2, Minimum
  <2>4. QED BY <1>3, <2>1, <2>3
<1> HIDE DEF H, s, e
<1>6. s < e /\ s \in Nat /\ e \in Nat /\ H = {s, e}
  BY <1>1, <1>4, <1>5
<1>7. f.lines[s].mark = m /\ f.lines[e].mark = m
  <2>1. \A i \in H : \E c \in Contents : f.lines[i] = Bound(m, c)
    BY DEF WellFormed, H
  <2>2. \A i \in H : f.lines[i].mark = m
    <3> SUFFICES ASSUME NEW i \in H PROVE f.lines[i].mark = m
      OBVIOUS
    <3>1. PICK c \in Contents : f.lines[i] = Bound(m, c)
      BY <2>1
    <3>2. QED BY <3>1 DEF Bound
  <2>3. QED BY <1>6, <2>2
<1>8. {i \in e + 1 .. n : ~ Mentions(f.lines[i], m)} = e + 1 .. n
  <2> SUFFICES ASSUME NEW i \in e + 1 .. n PROVE ~ Mentions(f.lines[i], m)
    OBVIOUS
  <2>1. i \in 1 .. n /\ i \notin H
    BY <1>1, <1>6
  <2>2. QED BY <2>1, HitsFacts DEF H, Mentions
<1>9. Behind(f, m) = SubSeq(f.lines, e + 1, n)
  <2>1. f.lines \in Seq(Line) /\ e + 1 \in 1 .. n + 1
    BY <1>1, FileTypes
  <2>2. Subsequence(f.lines, e + 1 .. n) = SubSeq(f.lines, e + 1, n)
    BY <2>1, SubsequenceOfInterval
  <2>3. QED BY <1>8, <2>2 DEF Behind, e
<1>10. QED BY <1>6, <1>7, <1>9 DEF H, s, e

\* A new section: the content's last newline gives an empty line.
LEMMA NewSectionLines ==
  ASSUME NEW m \in Markers, NEW c \in Contents
  PROVE  LET N == NewSection(m, c)
             k == Len(TextOf[c])
         IN  /\ N \in Seq(Line) /\ Len(N) \in {k + 2, k + 3} /\ k \in Nat
             /\ N[1] = Bound(m, c) /\ N[Len(N)] = Bound(m, c)
             /\ \A i \in 1 .. k : N[i + 1] = TextOf[c][i]
             /\ Silent(c, m) => \A i \in 2 .. Len(N) - 1 : N[i].mark \notin Extensions[m]
<1> DEFINE b == <<Bound(m, c)>>
           t == TextOf[c]
           k == Len(t)
           gap == IF c \in Terminated THEN <<Blank>> ELSE <<>>
           N == NewSection(m, c)
           front == b \o t \o gap
<1>1. b \in Seq(Line) /\ Len(b) = 1 /\ b[1] = Bound(m, c)
  <2>1. Bound(m, c) \in Line
    BY LineTypes
  <2> HIDE DEF Line
  <2>2. QED BY <2>1
<1>2. /\ t \in Seq(Line) /\ k \in Nat
      /\ Silent(c, m) => \A i \in 1 .. k : t[i].mark \notin Extensions[m]
  BY TextTypes
<1>3. gap \in Seq(Line) /\ Len(gap) \in {0, 1} /\ \A i \in 1 .. Len(gap) : gap[i].mark = ""
  <2>0. Blank \in Line
    BY LineTypes
  <2>1. Blank.mark = ""
    BY LineTypes
  <2>2. <<Blank>> \in Seq(Line) /\ Len(<<Blank>>) = 1 /\ <<Blank>>[1] = Blank
    <3>1. <<Blank>> \in Seq(Line)
      BY <2>0
    <3>2. QED BY <3>1
  <2>3. <<>> \in Seq(Line) /\ Len(<<>>) = 0
    BY EmptySeq
  <2>4. CASE c \in Terminated
    <3>1. gap = <<Blank>>
      BY <2>4
    <3> HIDE DEF gap
    <3>2. gap \in Seq(Line) /\ Len(gap) = 1 /\ gap[1] = Blank
      BY <2>2, <3>1
    <3>3. \A i \in 1 .. Len(gap) : i = 1
      BY <3>2
    <3>4. QED BY <2>1, <3>2, <3>3
  <2>5. CASE c \notin Terminated
    BY <2>3, <2>5
  <2>6. QED BY <2>4, <2>5
<1>4. N = front \o b
  BY DEF NewSection
<1> HIDE DEF b, t, gap, N
<1>5. front \in Seq(Line) /\ Joins(front, b, t, gap)
  BY <1>1, <1>2, <1>3, Spliced, Zenon
<1>6. /\ front \in Seq(Line) /\ Len(front) = 1 + k + Len(gap) /\ front[1] = b[1]
      /\ \A i \in 1 .. k : front[1 + i] = t[i]
      /\ \A i \in 1 .. Len(gap) : front[1 + k + i] = gap[i]
  BY <1>1, <1>5 DEF Joins
<1> HIDE DEF front, k
<1>n. /\ k \in Nat /\ Len(gap) \in {0, 1} /\ Len(b) = 1
      /\ Len(front) = 1 + k + Len(gap)
  BY <1>1, <1>2, <1>3, <1>6
<1>7. ASSUME Silent(c, m), NEW i \in 2 .. Len(front) PROVE front[i].mark \notin Extensions[m]
  <2>1. CASE i <= 1 + k
    <3>1. i - 1 \in 1 .. k /\ 1 + (i - 1) = i
      BY <1>n, <2>1
    <3>2. front[i] = t[i - 1]
      BY <1>6, <3>1
    <3>3. QED BY <1>2, <1>7, <3>1, <3>2
  <2>2. CASE i > 1 + k
    <3>1. i - 1 - k \in 1 .. Len(gap) /\ 1 + k + (i - 1 - k) = i
      BY <1>n, <2>2
    <3>2. front[i] = gap[i - 1 - k]
      BY <1>6, <3>1
    <3>3. QED BY <1>3, <3>1, <3>2, NoMarker
  <2>3. i <= 1 + k \/ i > 1 + k
    BY <1>n
  <2>4. QED BY <2>1, <2>2, <2>3, Zenon
<1>8. /\ N \in Seq(Line) /\ Len(N) = Len(front) + Len(b)
      /\ \A i \in 1 .. Len(front) + Len(b) : N[i] = IF i <= Len(front) THEN front[i] ELSE b[i - Len(front)]
  <2>1. front \in Seq(Line) /\ b \in Seq(Line)
    BY <1>1, <1>6
  <2>2. QED BY <1>4, <2>1, ConcatProperties, Zenon
<1>9. Len(front) \in Nat /\ Len(N) = Len(front) + 1 /\ Len(front) \in {1 + k, 2 + k}
  <2>1. Len(N) = Len(front) + Len(b)
    BY <1>8
  <2> DEFINE lf == Len(front)
             lg == Len(gap)
             lb == Len(b)
             ln == Len(N)
  <2>2. k \in Nat /\ lg \in {0, 1} /\ lb = 1 /\ lf = 1 + k + lg /\ ln = lf + lb
    BY <1>n, <2>1
  <2> HIDE DEF lf, lg, lb, ln
  <2>3. lf \in Nat /\ ln = lf + 1 /\ lf \in {1 + k, 2 + k}
    BY <2>2
  <2>4. QED BY <2>3 DEF lf, ln
<1>10. N[1] = Bound(m, c) /\ N[Len(N)] = Bound(m, c)
  <2>1. /\ 1 \in 1 .. Len(front) + Len(b) /\ 1 <= Len(front) /\ Len(N) \in 1 .. Len(front) + Len(b)
        /\ ~ (Len(N) <= Len(front)) /\ Len(N) - Len(front) = 1
    BY <1>n, <1>9
  <2>2. QED BY <1>1, <1>6, <1>8, <2>1
<1>11. ASSUME NEW i \in 1 .. k PROVE N[i + 1] = t[i]
  <2>1. i + 1 \in 1 .. Len(front) + Len(b) /\ i + 1 <= Len(front) /\ 1 + i = i + 1
    BY <1>n, <1>9
  <2>2. QED BY <1>6, <1>8, <2>1
<1>12. ASSUME Silent(c, m), NEW i \in 2 .. Len(N) - 1 PROVE N[i].mark \notin Extensions[m]
  <2>1. i \in 1 .. Len(front) + Len(b) /\ i <= Len(front) /\ i \in 2 .. Len(front)
    BY <1>n, <1>9
  <2>2. QED BY <1>7, <1>8, <1>12, <2>1
<1>13. Len(N) \in {k + 2, k + 3}
  BY <1>n, <1>9
<1>14. QED
  BY <1>n, <1>8, <1>10, <1>11, <1>12, <1>13 DEF N, t, k

\* A section is added behind everything else, after an empty line if the last one ended.
LEMMA AddLines ==
  ASSUME NEW f \in Files, NEW m \in Markers, NEW c \in Contents
  PROVE  LET n == Len(f.lines)
             L == Add(f, m, c).lines
             N == NewSection(m, c)
         IN  /\ Add(f, m, c) \in Files /\ Add(f, m, c).exists
             /\ \E g \in {0, 1} :
                  /\ Len(L) = n + g + Len(N)
                  /\ \A i \in 1 .. n : L[i] = f.lines[i]
                  /\ g = 1 => L[n + 1] = Blank
                  /\ \A i \in 1 .. Len(N) : L[n + g + i] = N[i]
<1> DEFINE lines == f.lines
           n == Len(lines)
           gap == IF f.exists /\ f.eol THEN <<Blank>> ELSE <<>>
           N == NewSection(m, c)
           L == Add(f, m, c).lines
<1>1. lines \in Seq(Line) /\ n \in Nat
  BY FileTypes
<1>2. gap \in Seq(Line) /\ Len(gap) \in {0, 1} /\ (Len(gap) = 1 => gap[1] = Blank)
  <2>0. Blank \in Line
    BY LineTypes
  <2>1. <<Blank>> \in Seq(Line)
    BY <2>0
  <2>2. CASE f.exists /\ f.eol
    <3>1. gap = <<Blank>>
      BY <2>2
    <3>2. Len(<<Blank>>) = 1 /\ <<Blank>>[1] = Blank
      BY <2>0
    <3>3. QED BY <2>1, <3>1, <3>2
  <2>3. CASE ~ (f.exists /\ f.eol)
    <3>1. gap = <<>>
      BY <2>3
    <3>2. QED BY <3>1, EmptySeq
  <2>4. QED BY <2>2, <2>3
<1>3. N \in Seq(Line) /\ Len(N) \in Nat
  BY NewSectionLines, LenProperties
<1>4. L = lines \o gap \o N /\ Add(f, m, c) = [exists |-> TRUE, eol |-> TRUE, lines |-> L]
  BY DEF Add
<1> HIDE DEF lines, gap, N, L
<1>5. lines \o gap \o N \in Seq(Line) /\ Joins(lines \o gap \o N, lines, gap, N)
  BY <1>1, <1>2, <1>3, Spliced, Zenon
<1>6. L \in Seq(Line) /\ Joins(L, lines, gap, N)
  BY <1>4, <1>5
<1>7. Add(f, m, c) \in Files /\ Add(f, m, c).exists
  BY <1>4, <1>6 DEF Files
<1>8. /\ Len(L) = n + Len(gap) + Len(N)
      /\ \A i \in 1 .. n : L[i] = lines[i]
      /\ Len(gap) = 1 => L[n + 1] = Blank
      /\ \A i \in 1 .. Len(N) : L[n + Len(gap) + i] = N[i]
  <2>1. Len(gap) = 1 => 1 \in 1 .. Len(gap)
    BY <1>2
  <2>2. QED BY <1>2, <1>6, <2>1 DEF Joins
<1>9. QED BY <1>2, <1>7, <1>8 DEF lines, N, L

\* After append() the section begins with the marker and the hash of its content, and
\* the content follows.
LEMMA Written ==
  ASSUME NEW f \in Files, NEW m \in Markers, NEW c \in Contents
  PROVE  LET X == Placed(f, m, c)
             s == First(Hits(X, m))
             k == Len(TextOf[c])
         IN  /\ X \in Files /\ X.exists /\ Unchanged(X, m, c)
             /\ s + k <= Len(X.lines) /\ \A i \in 1 .. k : X.lines[s + i] \in {TextOf[c][i], Split(TextOf[c][i])}
             /\ Hits(f, m) = {} => s > Len(f.lines)
             /\ Hits(f, m) # {} => s = First(Hits(f, m))
<1> DEFINE X == Placed(f, m, c)
           L == X.lines
           n == Len(f.lines)
           k == Len(TextOf[c])
<1>0. n \in Nat /\ k \in Nat
  BY FileTypes, TextTypes
<1>1. CASE Hits(f, m) = {}
  <2> DEFINE N == NewSection(m, c)
  <2>1. X = Add(f, m, c)
    BY <1>1 DEF Placed
  <2>2. X \in Files /\ X.exists
    BY <2>1, AddLines
  <2>3. PICK g \in {0, 1} :
          /\ Len(L) = n + g + Len(N)
          /\ \A i \in 1 .. n : L[i] = f.lines[i]
          /\ g = 1 => L[n + 1] = Blank
          /\ \A i \in 1 .. Len(N) : L[n + g + i] = N[i]
    BY <2>1, AddLines
  <2>4. /\ Len(N) \in {k + 2, k + 3} /\ N[1] = Bound(m, c)
        /\ \A i \in 1 .. k : N[i + 1] = TextOf[c][i]
    BY NewSectionLines
  <2> DEFINE s == n + g + 1
  <2>5. s \in 1 .. Len(L) /\ s \in Nat /\ s + k <= Len(L) /\ s > n
    <3> DEFINE ln == Len(N)
               ll == Len(L)
    <3>1. n \in Nat /\ k \in Nat /\ g \in {0, 1} /\ ln \in {k + 2, k + 3} /\ ll = n + g + ln
      BY <1>0, <2>3, <2>4
    <3> HIDE DEF n, k, ln, ll
    <3>2. s \in 1 .. ll /\ s \in Nat /\ s + k <= ll /\ s > n
      BY <3>1
    <3>3. QED BY <3>2 DEF ll
  <2>6. L[s] = Bound(m, c)
    <3>1. 1 \in 1 .. Len(N)
      <4> HIDE DEF k, N
      <4>1. QED BY <1>0, <2>4
    <3>2. QED BY <2>3, <2>4, <3>1
  <2>7. ASSUME NEW i \in 1 .. k PROVE L[s + i] = TextOf[c][i]
    <3>1. i + 1 \in 1 .. Len(N) /\ n + g + (i + 1) = s + i
      <4> HIDE DEF n, k, N
      <4>1. QED BY <1>0, <2>4
    <3>2. QED BY <2>3, <2>4, <3>1
  <2> HIDE DEF X, L, n, k, N
  <2>8. s \in Hits(X, m)
    <3>1. L[s].mark \in Extensions[m]
      <4>1. L[s].mark = m
        BY <2>6 DEF Bound
      <4>2. QED BY <4>1, NoMarker
    <3>2. QED BY <2>2, <2>5, <3>1, HitsFacts DEF L
  <2>9. ASSUME NEW j \in Hits(X, m), j < s PROVE FALSE
    <3>1. j \in 1 .. Len(L) /\ L[j].mark \in Extensions[m]
      BY <2>2, HitsFacts DEF L
    <3>2. CASE j <= n
      <4>1. j \in 1 .. n /\ f.lines[j].mark \in Extensions[m]
        BY <1>0, <2>3, <3>1, <3>2
      <4>2. j \in Hits(f, m)
        BY <4>1, HitsFacts DEF n
      <4>3. QED BY <1>1, <4>2
    <3>3. CASE j > n
      <4>1. g = 1 /\ j = n + 1
        BY <1>0, <2>9, <3>1, <3>3
      <4>2. L[j] = Blank
        BY <2>3, <4>1
      <4>3. QED BY <3>1, <4>2, LineTypes, NoMarker
    <3>4. QED BY <1>0, <3>1, <3>2, <3>3
  <2>10. First(Hits(X, m)) = s
    <3>1. Hits(X, m) \in SUBSET Nat
      BY <2>2, HitsFacts
    <3>2. \A j \in Hits(X, m) : s <= j
      BY <2>5, <2>9, <3>1
    <3> HIDE DEF s
    <3>3. QED BY <2>8, <3>1, <3>2, FirstIs
  <2>11. Unchanged(X, m, c)
    BY <2>6, <2>8, <2>10 DEF Unchanged, L
  <2>12. QED BY <1>1, <2>2, <2>5, <2>7, <2>10, <2>11 DEF L, k, n, X
<1>2. CASE Hits(f, m) # {}
  <2> DEFINE s == First(Hits(f, m))
             rest == Behind(f, m)
  <2>1. X = Rewrite(f, m, c)
    BY <1>2 DEF Placed
  <2>2. /\ X \in Files /\ X.exists /\ s \in 1 .. n
        /\ rest \in Seq(Line) /\ Len(L) = s + k + 1 + Len(rest)
        /\ \A i \in 1 .. s - 1 : L[i] = f.lines[i]
        /\ L[s] = Bound(m, c) /\ \A i \in 1 .. k : L[s + i] \in {TextOf[c][i], Split(TextOf[c][i])}
    <3> DEFINE R == Rewrite(f, m, c)
    <3>1. /\ R \in Files /\ R.exists /\ s \in 1 .. n
          /\ rest \in Seq(Line) /\ Len(R.lines) = s + k + 1 + Len(rest)
          /\ \A i \in 1 .. s - 1 : R.lines[i] = f.lines[i]
          /\ R.lines[s] = Bound(m, c) /\ \A i \in 1 .. k : R.lines[s + i] = SplitText(c)[i]
      BY <1>2, RewriteLines
    <3>t. \A i \in 1 .. k : SplitText(c)[i] = Split(TextOf[c][i])
      BY TextTypes
    <3>2. X = R
      BY <2>1
    <3> HIDE DEF X, R, s, n, k, rest
    <3>3. QED BY <3>1, <3>2, <3>t
  <2>3. \A j \in Hits(f, m) : s <= j
    BY <1>2, SectionFacts
  <2> HIDE DEF X, L, n, k, s, rest
  <2>4. Len(rest) \in Nat
    BY <2>2, LenProperties
  <2>5. s \in Nat /\ s \in 1 .. Len(L) /\ s + k <= Len(L)
    BY <1>0, <2>2, <2>4
  <2>6. s \in Hits(X, m)
    <3>1. L[s].mark \in Extensions[m]
      <4>1. L[s].mark = m
        BY <2>2 DEF Bound
      <4>2. QED BY <4>1, NoMarker
    <3>2. QED BY <2>2, <2>5, <3>1, HitsFacts DEF L
  <2>7. ASSUME NEW j \in Hits(X, m), j < s PROVE FALSE
    <3>1. j \in 1 .. Len(L) /\ L[j].mark \in Extensions[m]
      BY <2>2, HitsFacts DEF L
    <3>2. j \in 1 .. s - 1 /\ j \in 1 .. n
      BY <1>0, <2>2, <2>7, <3>1
    <3>3. j \in Hits(f, m)
      BY <2>2, <3>1, <3>2, HitsFacts DEF n
    <3>4. QED BY <2>3, <2>5, <2>7, <3>2, <3>3
  <2>8. First(Hits(X, m)) = s
    <3>1. Hits(X, m) \in SUBSET Nat
      BY <2>2, HitsFacts
    <3>2. \A j \in Hits(X, m) : s <= j
      BY <2>5, <2>7, <3>1
    <3>3. QED BY <2>6, <3>1, <3>2, FirstIs
  <2>9. Unchanged(X, m, c)
    BY <2>2, <2>6, <2>8 DEF Unchanged, L
  <2>10. QED BY <1>2, <2>2, <2>5, <2>8, <2>9 DEF L, k, n, X, s
<1>3. QED BY <1>1, <1>2

LEMMA SubSeqIs ==
  ASSUME NEW s, NEW a \in Int, NEW b \in Int
  PROVE  SubSeq(s, a, b) = [i \in 1 .. b - a + 1 |-> s[a + i - 1]]
OBVIOUS

LEMMA SubSeqSame ==
  ASSUME NEW s, NEW t, NEW a \in Int, NEW b \in Int, NEW c \in Int, NEW d \in Int,
         b - a = d - c, \A i \in 1 .. b - a + 1 : s[a + i - 1] = t[c + i - 1]
  PROVE  SubSeq(s, a, b) = SubSeq(t, c, d)
<1>1. SubSeq(s, a, b) = [i \in 1 .. b - a + 1 |-> s[a + i - 1]]
  BY SubSeqIs
<1>2. SubSeq(t, c, d) = [i \in 1 .. b - a + 1 |-> t[c + i - 1]]
  BY SubSeqIs
<1>3. QED BY <1>1, <1>2

\* The lines from a to b have no marker that the content is silent of.
Quiet(lines, a, b, c) ==
  \A j \in Markers : Silent(c, j) => \A i \in a .. b : lines[i].mark \notin Extensions[j]

\* Of a well-formed section all but the section stays.
LEMMA RewriteMoves ==
  ASSUME NEW f \in Files, NEW m \in Markers, NEW c \in Contents, WellFormed(f, m), Hits(f, m) # {}
  PROVE  LET L == Placed(f, m, c).lines
             n == Len(f.lines)
             b == First(Hits(f, m))
             e == SectionEnd(f, m)
             q == b + Len(TextOf[c]) + 1
         IN  /\ b \in Nat /\ b >= 1 /\ q \in Nat /\ b < q /\ b < e /\ e \in 1 .. n
             /\ Hits(f, m) = {b, e} /\ f.lines[b].mark = m /\ f.lines[e].mark = m
             /\ Len(L) = q + (n - e)
             /\ \A i \in 1 .. b - 1 : L[i] = f.lines[i]
             /\ L[b] = Bound(m, c) /\ L[q] = Bound(m, c)
             /\ Quiet(L, b + 1, q - 1, c)
             /\ \A i \in 1 .. n - e : L[q + i] = f.lines[e + i]
<1> DEFINE L == Placed(f, m, c).lines
           n == Len(f.lines)
           k == Len(TextOf[c])
           b == First(Hits(f, m))
           e == SectionEnd(f, m)
           q == b + k + 1
           rest == Behind(f, m)
           R == Rewrite(f, m, c)
<1>1. /\ n \in Nat /\ k \in Nat /\ f.lines \in Seq(Line)
      /\ \A j \in Markers : Silent(c, j) =>
           \A i \in 1 .. k : SplitText(c)[i].mark \notin Extensions[j]
  BY FileTypes, TextTypes
<1>2. /\ b \in 1 .. n /\ rest \in Seq(Line) /\ Len(R.lines) = b + k + 1 + Len(rest)
      /\ \A i \in 1 .. b - 1 : R.lines[i] = f.lines[i]
      /\ R.lines[b] = Bound(m, c) /\ R.lines[b + k + 1] = Bound(m, c)
      /\ \A i \in 1 .. k : R.lines[b + i] = SplitText(c)[i]
      /\ \A i \in 1 .. Len(rest) : R.lines[b + k + 1 + i] = rest[i]
  BY RewriteLines
<1>3. /\ Hits(f, m) = {b, e} /\ b < e /\ e \in 1 .. n /\ f.lines[b].mark = m /\ f.lines[e].mark = m
      /\ rest = SubSeq(f.lines, e + 1, n)
  BY WellFormedFacts, SectionFacts
<1>4. L = R.lines
  BY DEF Placed
<1> DEFINE r == Len(rest)
<1> HIDE DEF L, n, k, b, e, rest, R, r
<1>5. /\ n \in Nat /\ k \in Nat /\ b \in Nat /\ e \in Nat /\ b >= 1 /\ b < e /\ e <= n
  <2>1. n \in Nat /\ k \in Nat /\ b \in 1 .. n /\ e \in 1 .. n /\ b < e
    BY <1>1, <1>2, <1>3
  <2>2. QED BY <2>1
<1>q. q \in Nat /\ b < q /\ q = b + k + 1
  BY <1>5
<1>6. r = n - e /\ \A i \in 1 .. n - e : rest[i] = f.lines[e + i]
  <2>1. e + 1 \in Int /\ n \in Int /\ \A i \in e + 1 .. n : i \in 1 .. n
    BY <1>5
  <2>2. \A i \in e + 1 .. n : f.lines[i] \in Line
    <3>1. f.lines \in Seq(Line) /\ n = Len(f.lines)
      BY <1>1 DEF n
    <3>2. QED BY <2>1, <3>1, ElementOfSeq
  <2>3. /\ Len(rest) = IF e + 1 <= n THEN n - (e + 1) + 1 ELSE 0
        /\ \A i \in 1 .. n - (e + 1) + 1 : rest[i] = f.lines[e + 1 + i - 1]
    <3>1. rest = SubSeq(f.lines, e + 1, n)
      BY <1>3
    <3>2. QED BY <2>1, <2>2, <3>1, SubSeqProperties
  <2>4. n - (e + 1) + 1 = n - e /\ \A i \in 1 .. n - e : e + 1 + i - 1 = e + i
    BY <1>5
  <2>5. r = n - e
    <3>1. r = IF e + 1 <= n THEN n - (e + 1) + 1 ELSE 0
      BY <2>3 DEF r
    <3>2. QED BY <1>5, <3>1
  <2>6. QED BY <2>3, <2>4, <2>5
<1> HIDE DEF q
<1>7. ASSUME NEW z \in Markers, Silent(c, z), NEW i \in b + 1 .. q - 1
      PROVE  L[i].mark \notin Extensions[z]
  <2>1. i - b \in 1 .. k /\ b + (i - b) = i
    BY <1>5, <1>q
  <2>2. \A j \in 1 .. k : R.lines[b + j] = SplitText(c)[j]
    BY <1>2
  <2>3. L[i] = SplitText(c)[i - b]
    BY <1>4, <2>1, <2>2
  <2>4. \A j \in 1 .. k : SplitText(c)[j].mark \notin Extensions[z]
    BY <1>1, <1>7
  <2>5. QED BY <2>1, <2>3, <2>4
<1>8. ASSUME NEW i \in 1 .. n - e PROVE L[q + i] = f.lines[e + i]
  <2>1. \A j \in 1 .. r : R.lines[b + k + 1 + j] = rest[j]
    BY <1>2 DEF r
  <2>2. i \in 1 .. r /\ b + k + 1 + i = q + i
    BY <1>6, <1>q
  <2>3. L[q + i] = rest[i]
    BY <1>4, <2>1, <2>2
  <2>4. QED BY <1>6, <2>3
<1>9. Len(L) = q + (n - e)
  <2>1. Len(L) = b + k + 1 + r
    BY <1>2, <1>4 DEF r
  <2>2. QED BY <1>6, <1>q, <2>1
<1>10. L[b] = Bound(m, c) /\ L[q] = Bound(m, c) /\ \A i \in 1 .. b - 1 : L[i] = f.lines[i]
  <2>1. R.lines[b] = Bound(m, c) /\ R.lines[b + k + 1] = Bound(m, c) /\ \A i \in 1 .. b - 1 : R.lines[i] = f.lines[i]
    BY <1>2
  <2>2. QED BY <1>4, <1>q, <2>1
<1>11. Hits(f, m) = {b, e} /\ b < e /\ e \in 1 .. n /\ f.lines[b].mark = m /\ f.lines[e].mark = m
  BY <1>3
<1>12. QED
  <2>1. Quiet(L, b + 1, q - 1, c)
    BY <1>7 DEF Quiet
  <2>2. QED BY <1>5, <1>q, <1>8, <1>9, <1>10, <1>11, <2>1 DEF L, n, k, b, e, q

\* A well-formed section stays one, and every line outside of it stays where it is in
\* the order of the lines; a file without a section gets one behind its lines.
LEMMA WrittenAround ==
  ASSUME NEW f \in Files, NEW m \in Markers, NEW c \in Contents, WellFormed(f, m), Silent(c, m)
  PROVE  LET X == Placed(f, m, c)
         IN  /\ WellFormed(X, m)
             /\ Outside(X, m) \in {Outside(f, m), Append(f.lines, Blank)}
<1> DEFINE X == Placed(f, m, c)
           L == X.lines
           n == Len(f.lines)
           k == Len(TextOf[c])
           H == Hits(X, m)
           s == First(H)
<1>0. n \in Nat /\ k \in Nat /\ f.lines \in Seq(Line)
  BY FileTypes, TextTypes
<1>1. X \in Files /\ Len(L) \in Nat /\ L \in Seq(Line)
  BY Written, FileTypes
<1>2. ASSUME NEW q \in 1 .. Len(L), s \in Nat, s < q, H = {s, q}, L[s] = Bound(m, c), L[q] = Bound(m, c)
      PROVE  /\ WellFormed(X, m) /\ SectionEnd(X, m) = q
             /\ Outside(X, m) = SubSeq(L, 1, s - 1) \o SubSeq(L, q + 1, Len(L))
  <2>1. H \ {s} = {q}
    BY <1>2
  <2>2. First({q}) = q
    <3>1. {q} \in SUBSET Nat /\ q \in {q} /\ \A j \in {q} : q <= j
      BY <1>2
    <3>2. QED BY <3>1, FirstIs
  <2>3. SectionEnd(X, m) = q
    BY <2>1, <2>2 DEF SectionEnd
  <2>4. Cardinality(H) = 2
    <3>1. IsFiniteSet({s}) /\ Cardinality({s}) = 1
      BY FS_Singleton
    <3>2. q \notin {s} /\ H = {s} \cup {q}
      BY <1>2
    <3> HIDE DEF H, s
    <3>3. Cardinality({s} \cup {q}) = Cardinality({s}) + 1
      <4>1. IsFiniteSet({s}) /\ q \notin {s}
        BY <3>1, <3>2
      <4>2. QED BY <4>1, FS_AddElement
    <3>4. Cardinality(H) = Cardinality({s}) + 1 /\ Cardinality({s}) = 1
      BY <3>1, <3>2, <3>3, Zenon
    <3> DEFINE cs == Cardinality({s})
    <3>5. Cardinality(H) = cs + 1 /\ cs = 1
      BY <3>4
    <3> HIDE DEF cs
    <3>6. QED BY <3>5
  <2>5. WellFormed(X, m)
    <3>1. \A i \in H : L[i] = Bound(m, c)
      BY <1>2
    <3> HIDE DEF X
    <3>2. QED BY <2>4, <3>1 DEF WellFormed
  <2>6. H # {}
    BY <1>2
  <2>7. QED BY <2>3, <2>5, <2>6 DEF Outside
<1>3. CASE Hits(f, m) = {}
  <2> DEFINE N == NewSection(m, c)
  <2>1. X = Add(f, m, c)
    BY <1>3 DEF Placed
  <2>2. PICK g \in {0, 1} :
          /\ Len(L) = n + g + Len(N)
          /\ \A i \in 1 .. n : L[i] = f.lines[i]
          /\ g = 1 => L[n + 1] = Blank
          /\ \A i \in 1 .. Len(N) : L[n + g + i] = N[i]
    BY <2>1, AddLines
  <2>3. /\ Len(N) \in {k + 2, k + 3} /\ N[1] = Bound(m, c) /\ N[Len(N)] = Bound(m, c)
        /\ \A i \in 2 .. Len(N) - 1 : N[i].mark \notin Extensions[m]
    BY NewSectionLines
  <2> DEFINE p == n + g + 1
             q == Len(L)
             ln == Len(N)
  <2> HIDE DEF X, L, n, k, N
  <2>4. /\ p \in Nat /\ p < q /\ p >= 1 /\ q \in 1 .. Len(L) /\ ln \in Nat /\ ln >= 2 /\ q = n + g + ln
        /\ 1 \in 1 .. ln /\ ln \in 1 .. ln
    <3>1. n \in Nat /\ k \in Nat /\ g \in {0, 1} /\ ln \in {k + 2, k + 3} /\ q = n + g + ln
      BY <1>0, <2>2, <2>3
    <3> HIDE DEF q, ln, s, H
    <3>2. /\ p \in Nat /\ p < q /\ p >= 1 /\ q \in 1 .. q /\ ln \in Nat /\ ln >= 2
          /\ 1 \in 1 .. ln /\ ln \in 1 .. ln
      BY <3>1
    <3>3. QED BY <3>1, <3>2 DEF q
  <2>5. L[p] = Bound(m, c) /\ L[q] = Bound(m, c)
    BY <2>2, <2>3, <2>4
  <2>6. ASSUME NEW j \in 1 .. Len(L), L[j].mark \in Extensions[m], j # p, j # q
        PROVE  FALSE
    <3>1. CASE j <= n
      <4>1. j \in 1 .. n /\ f.lines[j].mark \in Extensions[m]
        BY <1>0, <2>2, <2>6, <3>1
      <4>2. j \in Hits(f, m)
        BY <4>1, HitsFacts DEF n
      <4>3. QED BY <1>3, <4>2
    <3>2. CASE j > n /\ j <= n + g
      <4>1. g = 1 /\ j = n + 1
        BY <1>0, <3>2
      <4>2. L[j] = Blank
        BY <2>2, <4>1
      <4>3. QED BY <2>6, <4>2, LineTypes, NoMarker
    <3>3. CASE j > n + g
      <4>1. j - n - g \in 2 .. ln - 1 /\ j - n - g \in 1 .. ln /\ n + g + (j - n - g) = j
        <5>1. /\ n \in Nat /\ g \in {0, 1} /\ ln \in Nat /\ q = n + g + ln /\ p = n + g + 1
              /\ j \in Nat /\ j <= q /\ j # p /\ j # q /\ j > n + g
          BY <1>0, <1>1, <2>4, <2>6, <3>3
        <5> HIDE DEF p, q
        <5>2. QED BY <5>1
      <4>2. L[j] = N[j - n - g] /\ N[j - n - g].mark \notin Extensions[m]
        BY <2>2, <2>3, <4>1
      <4>3. QED BY <2>6, <4>2, NoMarker
    <3>4. QED BY <1>0, <3>1, <3>2, <3>3
  <2>7. H = {p, q}
    <3>1. p \in 1 .. Len(L) /\ q \in 1 .. Len(L)
      BY <2>4
    <3>2. L[p].mark \in Extensions[m] /\ L[q].mark \in Extensions[m]
      <4>1. L[p].mark = m /\ L[q].mark = m
        BY <2>5 DEF Bound
      <4>2. QED BY <4>1, NoMarker
    <3>3. /\ H \subseteq 1 .. Len(L)
          /\ \A i \in 1 .. Len(L) : i \in H <=> L[i].mark \in Extensions[m]
      BY <1>1, HitsFacts DEF L
    <3> HIDE DEF H, p, q
    <3>4. QED BY <2>6, <3>1, <3>2, <3>3
  <2>8. s = p
    <3>1. H \in SUBSET Nat /\ p \in H /\ \A j \in H : p <= j
      BY <2>4, <2>7
    <3> HIDE DEF H, p
    <3>2. QED BY <3>1, FirstIs
  <2> HIDE DEF H, s, p, q
  <2>9. /\ WellFormed(X, m)
        /\ Outside(X, m) = SubSeq(L, 1, p - 1) \o SubSeq(L, q + 1, Len(L))
    BY <1>2, <2>4, <2>5, <2>7, <2>8
  <2>10. SubSeq(L, q + 1, Len(L)) = <<>>
    <3>1. q + 1 \in Int /\ Len(L) \in Int /\ Len(L) < q + 1
      BY <1>1 DEF q
    <3>2. QED BY <3>1, SubSeqEmpty
  <2>11. SubSeq(L, 1, p - 1) \in Seq(Line)
    <3>1. p - 1 \in Int /\ \A i \in 1 .. p - 1 : i \in 1 .. Len(L)
      BY <1>1, <2>4
    <3>2. \A i \in 1 .. p - 1 : L[i] \in Line
      BY <1>1, <3>1, ElementOfSeq
    <3>3. QED BY <3>1, <3>2, SubSeqProperties
  <2>12. Outside(X, m) = SubSeq(L, 1, p - 1)
    BY <2>9, <2>10, <2>11, ConcatEmptySeq
  <2>13. Outside(f, m) = f.lines
    BY <1>3 DEF Outside
  <2>14. CASE g = 0
    <3>1. p - 1 = n
      BY <1>0, <2>14 DEF p
    <3>2. SubSeq(L, 1, n) = f.lines
      <4>1. Len(f.lines) = n
        BY DEF n
      <4>2. QED BY <1>0, <1>1, <2>2, <4>1
    <3>3. QED BY <2>9, <2>12, <2>13, <3>1, <3>2 DEF X
  <2>15. CASE g = 1
    <3>1. p - 1 = n + 1 /\ n + 1 \in 1 .. Len(L)
      BY <1>0, <2>4, <2>15 DEF p
    <3>2. SubSeq(L, 1, n + 1) = Append(f.lines, Blank)
      <4>1. Len(f.lines) = n /\ Blank \in Line
        BY LineTypes DEF n
      <4>2. /\ Append(f.lines, Blank) \in Seq(Line) /\ Len(Append(f.lines, Blank)) = n + 1
            /\ \A i \in 1 .. n : Append(f.lines, Blank)[i] = f.lines[i]
            /\ Append(f.lines, Blank)[n + 1] = Blank
        BY <1>0, <4>1, AppendProperties
      <4>3. /\ SubSeq(L, 1, n + 1) \in Seq(Line) /\ Len(SubSeq(L, 1, n + 1)) = n + 1
            /\ \A i \in 1 .. n + 1 : SubSeq(L, 1, n + 1)[i] = L[i]
        BY <1>0, <1>1, <2>11, <3>1
      <4>4. \A i \in 1 .. n + 1 : SubSeq(L, 1, n + 1)[i] = Append(f.lines, Blank)[i]
        BY <1>0, <2>2, <2>15, <4>2, <4>3
      <4>5. QED BY <4>2, <4>3, <4>4, SeqEqual
    <3>3. QED BY <2>9, <2>12, <3>1, <3>2 DEF X
  <2>16. QED BY <2>14, <2>15
<1>4. CASE Hits(f, m) # {}
  <2> DEFINE e == SectionEnd(f, m)
             b == First(Hits(f, m))
             q == b + k + 1
  <2>1. /\ b \in Nat /\ b >= 1 /\ q \in Nat /\ b < q /\ b < e /\ e \in 1 .. n
        /\ Hits(f, m) = {b, e} /\ f.lines[b].mark = m /\ f.lines[e].mark = m
        /\ Len(L) = q + (n - e)
        /\ \A i \in 1 .. b - 1 : L[i] = f.lines[i]
        /\ L[b] = Bound(m, c) /\ L[q] = Bound(m, c)
        /\ Quiet(L, b + 1, q - 1, c)
        /\ \A i \in 1 .. n - e : L[q + i] = f.lines[e + i]
    BY <1>4, RewriteMoves, Zenon
  <2>2. s = b
    BY <1>4, Written
  <2>3. Outside(f, m) = SubSeq(f.lines, 1, b - 1) \o SubSeq(f.lines, e + 1, n)
    BY <1>4 DEF Outside
  <2> DEFINE ll == Len(L)
  <2> HIDE DEF X, L, n, k, e, b, q, H, s, ll
  <2>n. /\ n \in Nat /\ b \in Nat /\ q \in Nat /\ e \in Nat /\ ll \in Nat
        /\ b >= 1 /\ b < q /\ b < e /\ e <= n /\ ll = q + (n - e)
    <3>1. n \in Nat /\ e \in 1 .. n
      BY <1>0, <2>1
    <3>2. e \in Nat /\ e <= n
      BY <3>1
    <3>3. b \in Nat /\ b >= 1 /\ q \in Nat /\ b < q /\ b < e
      BY <2>1
    <3>4. ll \in Nat /\ ll = q + (n - e)
      BY <1>1, <2>1 DEF ll
    <3>5. QED BY <3>1, <3>2, <3>3, <3>4
  <2>4. b \in 1 .. ll /\ q \in 1 .. ll
    BY <2>n
  <2>5. ASSUME NEW j \in 1 .. ll, L[j].mark \in Extensions[m], j # b, j # q
        PROVE  FALSE
    <3>1. CASE j < b
      <4>1. j \in 1 .. b - 1 /\ j \in 1 .. n
        BY <2>n, <3>1
      <4>2. L[j] = f.lines[j]
        BY <2>1, <4>1
      <4>3. j \in Hits(f, m)
        BY <2>5, <4>1, <4>2, HitsFacts DEF n
      <4>4. j = b \/ j = e
        BY <2>1, <4>3
      <4>5. QED BY <2>n, <3>1, <4>4
    <3>2. CASE j > b /\ j < q
      <4>1. j \in b + 1 .. q - 1
        BY <2>n, <3>2
      <4>2. L[j].mark \notin Extensions[m]
        <5>1. \A i \in b + 1 .. q - 1 : L[i].mark \notin Extensions[m]
          BY <2>1 DEF Quiet
        <5>2. QED BY <4>1, <5>1
      <4>3. QED BY <2>5, <4>2
    <3>3. CASE j > q
      <4>1. j - q \in 1 .. n - e /\ q + (j - q) = j /\ e + (j - q) \in 1 .. n /\ e + (j - q) > e
        BY <2>n, <3>3
      <4>2. L[j] = f.lines[e + (j - q)]
        BY <2>1, <4>1
      <4>3. e + (j - q) \in Hits(f, m)
        BY <2>5, <4>1, <4>2, HitsFacts DEF n
      <4>4. e + (j - q) = b \/ e + (j - q) = e
        BY <2>1, <4>3
      <4>5. QED BY <2>n, <4>1, <4>4
    <3>4. j < b \/ (j > b /\ j < q) \/ j > q
      BY <2>n, <2>5
    <3>5. QED BY <3>1, <3>2, <3>3, <3>4, Zenon
  <2>6. H = {b, q}
    <3>0. L[b] = Bound(m, c) /\ L[q] = Bound(m, c)
      BY <2>1
    <3>1. L[b].mark \in Extensions[m] /\ L[q].mark \in Extensions[m]
      <4>1. L[b].mark = m /\ L[q].mark = m
        BY <3>0 DEF Bound
      <4>2. QED BY <4>1, NoMarker
    <3>2. /\ H \subseteq 1 .. ll
          /\ \A i \in 1 .. ll : i \in H <=> L[i].mark \in Extensions[m]
      BY <1>1, HitsFacts DEF L, H, ll
    <3>3. QED BY <2>4, <2>5, <3>1, <3>2
  <2>7. /\ WellFormed(X, m)
        /\ Outside(X, m) = SubSeq(L, 1, b - 1) \o SubSeq(L, q + 1, ll)
    <3>1. L[b] = Bound(m, c) /\ L[q] = Bound(m, c)
      BY <2>1
    <3>2. q \in 1 .. Len(L) /\ s \in Nat /\ s < q /\ H = {s, q}
      BY <2>2, <2>4, <2>6, <2>n DEF ll
    <3>3. L[s] = Bound(m, c) /\ s - 1 = b - 1
      BY <2>2, <3>1
    <3>4. QED BY <1>2, <3>1, <3>2, <3>3 DEF ll
  <2>8. SubSeq(L, 1, b - 1) = SubSeq(f.lines, 1, b - 1)
    <3>0. \A i \in 1 .. b - 1 : L[i] = f.lines[i]
      BY <2>1
    <3>1. b - 1 \in Int /\ 1 \in Int /\ b - 1 - 1 = b - 1 - 1
      BY <2>n
    <3>2. ASSUME NEW i \in 1 .. b - 1 - 1 + 1 PROVE L[1 + i - 1] = f.lines[1 + i - 1]
      <4>1. 1 + i - 1 \in 1 .. b - 1
        BY <2>n
      <4>2. QED BY <3>0, <4>1
    <3>3. QED BY <3>1, <3>2, SubSeqSame
  <2>9. SubSeq(L, q + 1, ll) = SubSeq(f.lines, e + 1, n)
    <3>0. \A i \in 1 .. n - e : L[q + i] = f.lines[e + i]
      BY <2>1
    <3> DEFINE a == q + 1
               d == e + 1
    <3>1. /\ a \in Int /\ ll \in Int /\ d \in Int /\ n \in Int
          /\ ll - a = n - d /\ ll - a + 1 = n - e
      BY <2>n
    <3>2. ASSUME NEW i \in 1 .. ll - a + 1 PROVE L[a + i - 1] = f.lines[d + i - 1]
      <4>1. a + i - 1 = q + i /\ d + i - 1 = e + i /\ i \in 1 .. n - e
        BY <2>n, <3>1
      <4>2. QED BY <3>0, <4>1
    <3> HIDE DEF a, d
    <3>3. SubSeq(L, a, ll) = SubSeq(f.lines, d, n)
      <4>1. a \in Int /\ ll \in Int /\ d \in Int /\ n \in Int /\ ll - a = n - d
        BY <3>1
      <4>2. \A i \in 1 .. ll - a + 1 : L[a + i - 1] = f.lines[d + i - 1]
        BY <3>2
      <4>3. SubSeq(L, a, ll) = [i \in 1 .. ll - a + 1 |-> L[a + i - 1]]
        BY <4>1, SubSeqIs
      <4>4. SubSeq(f.lines, d, n) = [i \in 1 .. n - d + 1 |-> f.lines[d + i - 1]]
        BY <4>1, SubSeqIs
      <4>5. n - d + 1 = ll - a + 1
        BY <4>1
      <4>6. QED BY <4>2, <4>3, <4>4, <4>5, Zenon
    <3>4. QED BY <3>3 DEF a, d
  <2>10. QED BY <2>3, <2>7, <2>8, <2>9 DEF X
<1>5. QED BY <1>3, <1>4

(***************************************************************************)
(* What happens to the section of another marker                           *)
(***************************************************************************)

LEMMA UnchangedFacts ==
  ASSUME NEW f \in Files, NEW k \in Markers, NEW d \in Contents, Unchanged(f, k, d)
  PROVE  LET s == First(Hits(f, k))
         IN  /\ s \in 1 .. Len(f.lines) /\ s \in Hits(f, k) /\ f.lines[s] = Bound(k, d)
             /\ \A j \in Hits(f, k) : s <= j
             /\ \A j \in 1 .. Len(f.lines) : j < s => f.lines[j].mark \notin Extensions[k]
<1> DEFINE H == Hits(f, k)
           s == First(H)
           n == Len(f.lines)
<1>1. H \subseteq 1 .. n /\ n \in Nat /\ \A j \in 1 .. n : j \in H <=> f.lines[j].mark \in Extensions[k]
  BY HitsFacts, FileTypes
<1>2. s \in H /\ \A j \in H : s <= j
  BY SectionFacts DEF Unchanged
<1>3. f.lines[s] = Bound(k, d)
  BY DEF Unchanged
<1> HIDE DEF H, s, n
<1>4. s \in Nat
  BY <1>1, <1>2
<1>5. ASSUME NEW j \in 1 .. n, j < s PROVE f.lines[j].mark \notin Extensions[k]
  <2>1. j \in H => s <= j
    BY <1>2
  <2>2. j \notin H
    BY <1>1, <1>4, <1>5, <2>1
  <2>3. QED BY <1>1, <2>2
<1>6. QED BY <1>1, <1>2, <1>3, <1>5 DEF H, s, n

\* The first line with a marker decides.
LEMMA UnchangedIs ==
  ASSUME NEW X \in Files, NEW k \in Markers, NEW d \in Contents, NEW p \in 1 .. Len(X.lines),
         X.lines[p] = Bound(k, d),
         \A j \in 1 .. Len(X.lines) : j < p => X.lines[j].mark \notin Extensions[k]
  PROVE  Unchanged(X, k, d)
<1> DEFINE H == Hits(X, k)
           n == Len(X.lines)
<1>1. /\ H \subseteq 1 .. n /\ n \in Nat /\ H \in SUBSET Nat
      /\ \A j \in 1 .. n : j \in H <=> X.lines[j].mark \in Extensions[k]
  BY HitsFacts, FileTypes
<1>2. p \in H
  <2>1. X.lines[p].mark = k
    BY DEF Bound
  <2>2. QED BY <1>1, <2>1, NoMarker
<1>3. \A j \in H : p <= j
  <2> SUFFICES ASSUME NEW j \in H PROVE p <= j
    OBVIOUS
  <2>1. j \in 1 .. n /\ ~ (j < p)
    BY <1>1
  <2> HIDE DEF H
  <2>2. QED BY <1>1, <2>1
<1>4. First(H) = p
  BY <1>1, <1>2, <1>3, FirstIs
<1>5. QED BY <1>2, <1>4 DEF Unchanged

\* append() does not disturb a section that is outside of the one it replaces.
LEMMA KeptApart ==
  ASSUME NEW f \in Files, NEW m \in Markers, NEW c \in Contents, NEW k \in Markers, NEW d \in Contents,
         Apart(f, k, m), Silent(c, k), Unchanged(f, k, d)
  PROVE  Unchanged(Placed(f, m, c), k, d)
<1> DEFINE X == Placed(f, m, c)
           L == X.lines
           n == Len(f.lines)
           ll == Len(L)
           s == First(Hits(f, k))
<1>1. X \in Files /\ n \in Nat /\ ll \in Nat
  BY Written, FileTypes
<1>2. /\ s \in 1 .. n /\ s \in Hits(f, k) /\ f.lines[s] = Bound(k, d)
      /\ \A j \in Hits(f, k) : s <= j
      /\ \A j \in 1 .. n : j < s => f.lines[j].mark \notin Extensions[k]
  BY UnchangedFacts
<1>3. WellFormed(f, m) /\ k \notin Extensions[m] /\ s \notin Section(f, m)
  <2>1. ASSUME s \in Section(f, m) PROVE FALSE
    <3>1. PICK j \in Hits(f, k) : j < s
      BY <1>2, <2>1 DEF Apart
    <3>2. j \in Nat /\ s \in Nat /\ s <= j
      BY <1>2, HitsFacts
    <3>3. QED BY <3>1, <3>2
  <2>2. QED BY <2>1 DEF Apart
<1>4. CASE Hits(f, m) = {}
  <2>1. PICK g \in {0, 1} :
          /\ ll = n + g + Len(NewSection(m, c))
          /\ \A i \in 1 .. n : L[i] = f.lines[i]
    BY <1>4, AddLines DEF Placed
  <2> DEFINE ln == Len(NewSection(m, c))
  <2>2. ln \in Nat
    BY NewSectionLines, LenProperties
  <2> HIDE DEF X, L, n, ll, s, ln
  <2>3. n <= ll /\ s \in 1 .. ll
    <3>1. ll = n + g + ln /\ g \in {0, 1} /\ s \in 1 .. n
      BY <1>2, <2>1 DEF ln
    <3>2. QED BY <1>1, <2>2, <3>1
  <2>4. L[s] = Bound(k, d)
    BY <1>2, <2>1
  <2>5. ASSUME NEW j \in 1 .. ll, j < s PROVE L[j].mark \notin Extensions[k]
    <3>1. j \in 1 .. n
      BY <1>1, <1>2, <2>3, <2>5
    <3>2. L[j] = f.lines[j]
      BY <2>1, <3>1
    <3>3. QED BY <1>2, <2>5, <3>1, <3>2
  <2>6. Unchanged(X, k, d)
    BY <1>1, <2>3, <2>4, <2>5, UnchangedIs DEF L, ll
  <2>7. QED BY <2>6 DEF X
<1>5. CASE Hits(f, m) # {}
  <2> DEFINE b == First(Hits(f, m))
             e == SectionEnd(f, m)
             q == b + Len(TextOf[c]) + 1
  <2>1. /\ b \in Nat /\ b >= 1 /\ q \in Nat /\ b < q /\ b < e /\ e \in 1 .. n
        /\ Hits(f, m) = {b, e} /\ f.lines[b].mark = m /\ f.lines[e].mark = m
        /\ Len(L) = q + (n - e)
        /\ \A i \in 1 .. b - 1 : L[i] = f.lines[i]
        /\ L[b] = Bound(m, c) /\ L[q] = Bound(m, c)
        /\ Quiet(L, b + 1, q - 1, c)
        /\ \A i \in 1 .. n - e : L[q + i] = f.lines[e + i]
    <3>1. WellFormed(f, m)
      BY <1>3
    <3>2. QED BY <1>5, <3>1, RewriteMoves, Zenon
  <2>2. s \notin b .. e
    BY <1>3, <1>5 DEF Section
  <2> HIDE DEF X, L, n, ll, s, b, e, q
  <2>n. /\ n \in Nat /\ b \in Nat /\ q \in Nat /\ e \in Nat /\ ll \in Nat /\ s \in Nat
        /\ b >= 1 /\ b < q /\ b < e /\ e <= n /\ ll = q + (n - e) /\ 1 <= s /\ s <= n
        /\ (s < b \/ e < s)
    <3>1. n \in Nat /\ e \in 1 .. n /\ s \in 1 .. n
      BY <1>1, <1>2, <2>1
    <3>2. e \in Nat /\ e <= n /\ s \in Nat /\ 1 <= s /\ s <= n
      BY <3>1
    <3>3. b \in Nat /\ b >= 1 /\ q \in Nat /\ b < q /\ b < e
      BY <2>1
    <3>4. ll \in Nat /\ ll = q + (n - e)
      BY <1>1, <2>1 DEF ll
    <3>5. s < b \/ e < s
      BY <2>2, <3>2, <3>3
    <3>6. QED BY <3>1, <3>2, <3>3, <3>4, <3>5
  <2>3. CASE s < b
    <3>1. s \in 1 .. ll /\ s \in 1 .. b - 1
      BY <2>n, <2>3
    <3>2. L[s] = Bound(k, d)
      BY <1>2, <2>1, <3>1
    <3>3. ASSUME NEW j \in 1 .. ll, j < s PROVE L[j].mark \notin Extensions[k]
      <4>1. j \in 1 .. b - 1 /\ j \in 1 .. n
        BY <2>n, <2>3, <3>3
      <4>2. L[j] = f.lines[j]
        BY <2>1, <4>1
      <4>3. QED BY <1>2, <3>3, <4>1, <4>2
    <3>4. Unchanged(X, k, d)
      BY <1>1, <3>1, <3>2, <3>3, UnchangedIs DEF L, ll
    <3>5. QED BY <3>4 DEF X
  <2>4. CASE e < s
    <3> DEFINE p == q + (s - e)
    <3>1. s - e \in 1 .. n - e /\ e + (s - e) = s /\ p \in 1 .. ll
      BY <2>n, <2>4
    <3>2. L[p] = Bound(k, d)
      <4>1. \A i \in 1 .. n - e : L[q + i] = f.lines[e + i]
        BY <2>1
      <4>2. L[p] = f.lines[s]
        BY <3>1, <4>1
      <4>3. QED BY <1>2, <4>2
    <3>3. m \notin Extensions[k]
      <4>1. b \in 1 .. n /\ b < s
        BY <2>n, <2>4
      <4>2. f.lines[b].mark \notin Extensions[k] /\ f.lines[b].mark = m
        BY <1>2, <2>1, <4>1
      <4>3. QED BY <4>2
    <3>4. ASSUME NEW j \in 1 .. ll, j < p PROVE L[j].mark \notin Extensions[k]
      <4>1. CASE j < b
        <5>1. j \in 1 .. b - 1 /\ j \in 1 .. n /\ j < s
          BY <2>n, <2>4, <4>1
        <5>2. L[j] = f.lines[j]
          BY <2>1, <5>1
        <5>3. QED BY <1>2, <5>1, <5>2
      <4>2. CASE j = b \/ j = q
        <5>1. L[j] = Bound(m, c)
          BY <2>1, <4>2
        <5>2. L[j].mark = m
          BY <5>1 DEF Bound
        <5>3. QED BY <3>3, <5>2
      <4>3. CASE j > b /\ j < q
        <5>1. j \in b + 1 .. q - 1
          BY <2>n, <4>3
        <5>2. L[j].mark \notin Extensions[k]
          <6>1. \A i \in b + 1 .. q - 1 : L[i].mark \notin Extensions[k]
            BY <2>1 DEF Quiet
          <6>2. QED BY <5>1, <6>1
        <5>3. QED BY <5>2
      <4>4. CASE j > q
        <5>1. /\ j - q \in 1 .. n - e /\ q + (j - q) = j
              /\ e + (j - q) \in 1 .. n /\ e + (j - q) < s
          BY <2>n, <2>4, <3>4, <4>4
        <5>2. L[j] = f.lines[e + (j - q)]
          BY <2>1, <5>1
        <5>3. QED BY <1>2, <5>1, <5>2
      <4>5. j < b \/ (j = b \/ j = q) \/ (j > b /\ j < q) \/ j > q
        BY <2>n
      <4>6. QED BY <4>1, <4>2, <4>3, <4>4, <4>5, Zenon
    <3> HIDE DEF p
    <3>5. Unchanged(X, k, d)
      BY <1>1, <3>1, <3>2, <3>4, UnchangedIs DEF L, ll
    <3>6. QED BY <3>5 DEF X
  <2>5. QED BY <2>n, <2>3, <2>4
<1>6. QED BY <1>4, <1>5

\* Taking the file by its lines of text leaves every line with a marker where it is.
LEMMA TakenFacts ==
  ASSUME NEW f \in Files, NEW m \in Markers
  PROVE  LET T == Taken(f, m)
         IN  /\ T \in Files /\ Len(T.lines) = Len(f.lines)
             /\ \A i \in 1 .. Len(f.lines) :
                  T.lines[i].mark = f.lines[i].mark /\ (f.lines[i].mark # "" => T.lines[i] = f.lines[i])
             /\ \A k \in Markers : Hits(T, k) = Hits(f, k) /\ SectionEnd(T, k) = SectionEnd(f, k)
<1> DEFINE n == Len(f.lines)
           R(line) == IF Hits(f, m) = {} THEN Decoded(line) ELSE Split(Decoded(line))
           L == [i \in 1 .. n |-> R(f.lines[i])]
           T == Taken(f, m)
<1>1. /\ n \in Nat /\ DOMAIN f.lines = 1 .. n /\ \A i \in 1 .. n : f.lines[i] \in Line
      /\ f.exists \in BOOLEAN /\ f.eol \in BOOLEAN
  BY FileTypes
<1>2. T = [exists |-> f.exists, lines |-> L, eol |-> f.eol]
  <2>1. [i \in DOMAIN f.lines |-> R(f.lines[i])] = L
    BY <1>1
  <2>2. T = [f EXCEPT !.lines = [i \in DOMAIN f.lines |-> R(f.lines[i])]]
    BY DEF Taken
  <2>3. T = [f EXCEPT !.lines = L]
    BY <2>1, <2>2
  <2> HIDE DEF L, T
  <2>4. QED BY <2>3 DEF Files
<1>3. ASSUME NEW line \in Line
      PROVE  R(line) \in Line /\ R(line).mark = line.mark /\ (line.mark # "" => R(line) = line)
  <2>1. /\ Decoded(line) \in Line /\ Decoded(line).mark = line.mark
        /\ line.mark # "" => Decoded(line) = line
    BY ReadLines
  <2> DEFINE d == Decoded(line)
  <2>2. Split(d) \in Line /\ Split(d).mark = d.mark /\ (d.mark # "" => Split(d) = d)
    BY <2>1, ReadLines
  <2>3. R(line) \in {d, Split(d)}
    OBVIOUS
  <2> HIDE DEF d, R
  <2>4. QED BY <2>1, <2>2, <2>3 DEF d
<1> HIDE DEF n, R
<1>4. \A i \in 1 .. n : L[i] \in Line
  BY <1>1, <1>3
<1>5. L \in Seq(Line) /\ Len(L) = n
  BY <1>1, <1>4, IsASeq
<1>6. \A i \in 1 .. n : L[i].mark = f.lines[i].mark /\ (f.lines[i].mark # "" => L[i] = f.lines[i])
  BY <1>1, <1>3
<1> HIDE DEF L, T
<1>7. T \in Files /\ T.lines = L
  BY <1>1, <1>2, <1>5 DEF Files
<1>8. ASSUME NEW k \in Markers PROVE Hits(T, k) = Hits(f, k)
  <2>1. /\ Hits(T, k) \subseteq 1 .. n /\ Hits(f, k) \subseteq 1 .. n
        /\ \A i \in 1 .. n : i \in Hits(T, k) <=> L[i].mark \in Extensions[k]
        /\ \A i \in 1 .. n : i \in Hits(f, k) <=> f.lines[i].mark \in Extensions[k]
    BY <1>5, <1>7, HitsFacts DEF n
  <2>2. QED BY <1>6, <2>1
<1>9. ASSUME NEW k \in Markers PROVE SectionEnd(T, k) = SectionEnd(f, k)
  BY <1>5, <1>7, <1>8 DEF SectionEnd, n
<1>10. QED BY <1>5, <1>6, <1>7, <1>8, <1>9 DEF T, n

\* What append() finds in the file is what it finds in the lines it has read.
LEMMA TakenFinds ==
  ASSUME NEW f \in Files, NEW m \in Markers, NEW k \in Markers
  PROVE  LET T == Taken(f, m)
         IN  /\ \A d \in Contents : Unchanged(f, k, d) => Unchanged(T, k, d)
             /\ WellFormed(f, k) => WellFormed(T, k)
             /\ Apart(f, k, m) => Apart(T, k, m)
<1> DEFINE T == Taken(f, m)
           n == Len(f.lines)
<1>1. /\ T \in Files /\ Len(T.lines) = n
      /\ \A i \in 1 .. n :
           T.lines[i].mark = f.lines[i].mark /\ (f.lines[i].mark # "" => T.lines[i] = f.lines[i])
      /\ \A j \in Markers : Hits(T, j) = Hits(f, j) /\ SectionEnd(T, j) = SectionEnd(f, j)
  BY TakenFacts
<1> HIDE DEF T, n
<1>2. ASSUME NEW j \in Markers, NEW i \in Hits(f, j) PROVE T.lines[i] = f.lines[i]
  <2>1. i \in 1 .. n /\ f.lines[i].mark \in Extensions[j]
    BY HitsFacts DEF n
  <2>2. f.lines[i].mark # ""
    BY <2>1, NoMarker
  <2>3. QED BY <1>1, <2>1, <2>2
<1>3. ASSUME NEW d \in Contents, Unchanged(f, k, d) PROVE Unchanged(T, k, d)
  <2>1. Hits(f, k) # {} /\ f.lines[First(Hits(f, k))] = Bound(k, d)
    BY <1>3 DEF Unchanged
  <2>2. First(Hits(f, k)) \in Hits(f, k)
    BY <2>1, SectionFacts
  <2>3. T.lines[First(Hits(f, k))] = Bound(k, d)
    BY <1>2, <2>1, <2>2
  <2>4. QED BY <1>1, <2>1, <2>3 DEF Unchanged
<1>4. ASSUME NEW j \in Markers, WellFormed(f, j) PROVE WellFormed(T, j)
  <2>1. /\ Hits(T, j) = Hits(f, j) /\ Cardinality(Hits(f, j)) \in {0, 2}
        /\ \A i \in Hits(f, j) : \E c \in Contents : f.lines[i] = Bound(j, c)
    BY <1>1, <1>4 DEF WellFormed
  <2>2. \A i \in Hits(f, j) : T.lines[i] = f.lines[i]
    BY <1>2
  <2>3. \A i \in Hits(f, j) : \E c \in Contents : T.lines[i] = Bound(j, c)
    BY <2>1, <2>2
  <2>4. QED BY <2>1, <2>3 DEF WellFormed
<1>5. ASSUME Apart(f, k, m) PROVE Apart(T, k, m)
  <2>1. WellFormed(T, m) /\ k \notin Extensions[m]
    BY <1>4, <1>5 DEF Apart
  <2>2. Section(T, m) = Section(f, m) /\ Hits(T, k) = Hits(f, k)
    BY <1>1 DEF Section
  <2>3. QED BY <1>5, <2>1, <2>2 DEF Apart
<1>6. QED BY <1>3, <1>4, <1>5 DEF T

\* All that append() does to a file
LEMMA AppendedFacts ==
  ASSUME NEW f \in Files, NEW m \in Markers, NEW c \in Contents
  PROVE  LET X == Appended(f, m, c)
             s == First(Hits(X, m))
         IN  /\ X \in Files /\ X.exists /\ Unchanged(X, m, c)
             /\ s + Len(TextOf[c]) <= Len(X.lines)
             /\ \A i \in 1 .. Len(TextOf[c]) : X.lines[s + i] \in {TextOf[c][i], Split(TextOf[c][i])}
             /\ WellFormed(f, m) /\ Silent(c, m) =>
                  /\ WellFormed(X, m)
                  /\ Outside(X, m) \in {Outside(Taken(f, m), m), Append(Taken(f, m).lines, Blank)}
             /\ \A k \in Markers, d \in Contents :
                  Apart(f, k, m) /\ Silent(c, k) /\ Unchanged(f, k, d) => Unchanged(X, k, d)
<1> DEFINE T == Taken(f, m)
           X == Placed(T, m, c)
<1>1. T \in Files
  BY TakenFacts
<1>2. Appended(f, m, c) = X
  BY DEF Appended
<1>3. LET s == First(Hits(X, m))
      IN  /\ X \in Files /\ X.exists /\ Unchanged(X, m, c)
          /\ s + Len(TextOf[c]) <= Len(X.lines)
          /\ \A i \in 1 .. Len(TextOf[c]) : X.lines[s + i] \in {TextOf[c][i], Split(TextOf[c][i])}
  <2> HIDE DEF T
  <2>1. QED BY <1>1, Written
<1>4. ASSUME WellFormed(f, m), Silent(c, m)
      PROVE  WellFormed(X, m) /\ Outside(X, m) \in {Outside(T, m), Append(T.lines, Blank)}
  <2>1. WellFormed(T, m)
    BY <1>4, TakenFinds
  <2> HIDE DEF T
  <2>2. QED BY <1>1, <1>4, <2>1, WrittenAround
<1>5. ASSUME NEW k \in Markers, NEW d \in Contents, Apart(f, k, m), Silent(c, k), Unchanged(f, k, d)
      PROVE  Unchanged(X, k, d)
  <2>1. Apart(T, k, m) /\ Unchanged(T, k, d)
    BY <1>5, TakenFinds
  <2> HIDE DEF T
  <2>2. QED BY <1>1, <1>5, <2>1, KeptApart
<1> HIDE DEF X
<1>6. QED BY <1>2, <1>3, <1>4, <1>5 DEF T

\* A line that does not mention the marker can come and go.
LEMMA LineDeleted ==
  ASSUME NEW f \in Files, NEW i \in DOMAIN f.lines
  PROVE  LET L == RemoveAt(f.lines, i)
             n == Len(f.lines)
         IN  /\ L \in Seq(Line) /\ Len(L) = n - 1
             /\ \A j \in 1 .. i - 1 : L[j] = f.lines[j]
             /\ \A j \in i .. n - 1 : L[j] = f.lines[j + 1]
<1> DEFINE n == Len(f.lines)
           front == SubSeq(f.lines, 1, i - 1)
           rest == SubSeq(f.lines, i + 1, n)
<1>1. n \in Nat /\ i \in 1 .. n /\ \A j \in 1 .. n : f.lines[j] \in Line
  BY FileTypes
<1>2. RemoveAt(f.lines, i) = front \o rest
  BY DEF RemoveAt
<1> HIDE DEF n
<1>3. front \in Seq(Line) /\ Len(front) = i - 1 /\ \A j \in 1 .. i - 1 : front[j] = f.lines[j]
  <2>1. 1 \in Int /\ i - 1 \in Int /\ \A j \in 1 .. i - 1 : j \in 1 .. n
    BY <1>1
  <2>2. \A j \in 1 .. i - 1 : f.lines[j] \in Line
    BY <1>1, <2>1
  <2>3. /\ front \in Seq(Line) /\ Len(front) = IF 1 <= i - 1 THEN i - 1 - 1 + 1 ELSE 0
        /\ \A j \in 1 .. i - 1 - 1 + 1 : front[j] = f.lines[1 + j - 1]
    BY <2>1, <2>2, SubSeqProperties
  <2>4. i - 1 - 1 + 1 = i - 1 /\ \A j \in 1 .. i - 1 : 1 + j - 1 = j
    BY <1>1
  <2>5. Len(front) = i - 1
    BY <1>1, <2>3
  <2>6. QED BY <2>3, <2>4, <2>5
<1>4. rest \in Seq(Line) /\ Len(rest) = n - i /\ \A j \in 1 .. n - i : rest[j] = f.lines[i + j]
  <2>1. i + 1 \in Int /\ n \in Int /\ \A j \in i + 1 .. n : j \in 1 .. n
    BY <1>1
  <2>2. \A j \in i + 1 .. n : f.lines[j] \in Line
    BY <1>1, <2>1
  <2>3. /\ rest \in Seq(Line) /\ Len(rest) = IF i + 1 <= n THEN n - (i + 1) + 1 ELSE 0
        /\ \A j \in 1 .. n - (i + 1) + 1 : rest[j] = f.lines[i + 1 + j - 1]
    BY <2>1, <2>2, SubSeqProperties
  <2>4. n - (i + 1) + 1 = n - i /\ \A j \in 1 .. n - i : i + 1 + j - 1 = i + j
    BY <1>1
  <2>5. Len(rest) = n - i
    BY <1>1, <2>3
  <2>6. QED BY <2>3, <2>4, <2>5
<1> HIDE DEF front, rest
<1> DEFINE L == front \o rest
           lf == Len(front)
           lr == Len(rest)
<1>5. /\ L \in Seq(Line) /\ Len(L) = lf + lr
      /\ \A j \in 1 .. lf + lr : L[j] = IF j <= lf THEN front[j] ELSE rest[j - lf]
  BY <1>3, <1>4, ConcatProperties
<1>6. lf = i - 1 /\ lr = n - i
  BY <1>3, <1>4
<1> HIDE DEF L, lf, lr
<1>7. lf + lr = n - 1
  BY <1>1, <1>6
<1>8. ASSUME NEW j \in 1 .. i - 1 PROVE L[j] = f.lines[j]
  <2>1. j \in 1 .. lf + lr /\ j <= lf
    BY <1>1, <1>6, <1>7
  <2>2. QED BY <1>3, <1>5, <2>1
<1>9. ASSUME NEW j \in i .. n - 1 PROVE L[j] = f.lines[j + 1]
  <2>1. j \in 1 .. lf + lr /\ ~ (j <= lf) /\ j - lf \in 1 .. n - i /\ i + (j - lf) = j + 1
    BY <1>1, <1>6, <1>7
  <2>2. L[j] = rest[j - lf] /\ rest[j - lf] = f.lines[i + (j - lf)]
    BY <1>4, <1>5, <2>1
  <2>3. QED BY <2>1, <2>2
<1>10. QED BY <1>2, <1>5, <1>7, <1>8, <1>9 DEF L, n

LEMMA LineInserted ==
  ASSUME NEW f \in Files, NEW i \in 1 .. Len(f.lines) + 1, NEW line \in Line
  PROVE  LET L == InsertAt(f.lines, i, line)
             n == Len(f.lines)
         IN  /\ L \in Seq(Line) /\ Len(L) = n + 1 /\ L[i] = line
             /\ \A j \in 1 .. i - 1 : L[j] = f.lines[j]
             /\ \A j \in i .. n : L[j + 1] = f.lines[j]
<1> DEFINE n == Len(f.lines)
           front == SubSeq(f.lines, 1, i - 1)
           mid == <<line>>
           rest == SubSeq(f.lines, i, n)
<1>1. n \in Nat /\ i \in 1 .. n + 1 /\ \A j \in 1 .. n : f.lines[j] \in Line
  BY FileTypes
<1>2. InsertAt(f.lines, i, line) = front \o mid \o rest
  BY DEF InsertAt
<1>m. mid \in Seq(Line) /\ Len(mid) = 1 /\ mid[1] = line
  <2> HIDE DEF Line
  <2>1. QED OBVIOUS
<1> HIDE DEF n, mid
<1>3. front \in Seq(Line) /\ Len(front) = i - 1 /\ \A j \in 1 .. i - 1 : front[j] = f.lines[j]
  <2>1. 1 \in Int /\ i - 1 \in Int /\ \A j \in 1 .. i - 1 : j \in 1 .. n
    BY <1>1
  <2>2. \A j \in 1 .. i - 1 : f.lines[j] \in Line
    BY <1>1, <2>1
  <2>3. /\ front \in Seq(Line) /\ Len(front) = IF 1 <= i - 1 THEN i - 1 - 1 + 1 ELSE 0
        /\ \A j \in 1 .. i - 1 - 1 + 1 : front[j] = f.lines[1 + j - 1]
    BY <2>1, <2>2, SubSeqProperties
  <2>4. i - 1 - 1 + 1 = i - 1 /\ \A j \in 1 .. i - 1 : 1 + j - 1 = j
    BY <1>1
  <2>5. Len(front) = i - 1
    BY <1>1, <2>3
  <2>6. QED BY <2>3, <2>4, <2>5
<1>4. rest \in Seq(Line) /\ Len(rest) = n - i + 1 /\ \A j \in 1 .. n - i + 1 : rest[j] = f.lines[i + j - 1]
  <2>1. i \in Int /\ n \in Int /\ \A j \in i .. n : j \in 1 .. n
    BY <1>1
  <2>2. \A j \in i .. n : f.lines[j] \in Line
    BY <1>1, <2>1
  <2>3. /\ rest \in Seq(Line) /\ Len(rest) = IF i <= n THEN n - i + 1 ELSE 0
        /\ \A j \in 1 .. n - i + 1 : rest[j] = f.lines[i + j - 1]
    BY <2>1, <2>2, SubSeqProperties
  <2>4. Len(rest) = n - i + 1
    BY <1>1, <2>3
  <2>5. QED BY <2>3, <2>4
<1> HIDE DEF front, rest
<1> DEFINE L == front \o mid \o rest
<1>5. L \in Seq(Line) /\ Joins(L, front, mid, rest)
  BY <1>m, <1>3, <1>4, Spliced, Zenon
<1> HIDE DEF L
<1>6. /\ Len(L) = i - 1 + 1 + (n - i + 1)
      /\ \A j \in 1 .. i - 1 : L[j] = f.lines[j]
      /\ L[i - 1 + 1] = line
      /\ \A j \in 1 .. n - i + 1 : L[i - 1 + 1 + j] = f.lines[i + j - 1]
  <2>1. 1 \in 1 .. Len(mid)
    BY <1>m
  <2>2. QED BY <1>m, <1>3, <1>4, <1>5, <2>1 DEF Joins
<1>7. i - 1 + 1 = i /\ i - 1 + 1 + (n - i + 1) = n + 1
  BY <1>1
<1>8. ASSUME NEW j \in i .. n PROVE L[j + 1] = f.lines[j]
  <2>1. j - i + 1 \in 1 .. n - i + 1 /\ i - 1 + 1 + (j - i + 1) = j + 1 /\ i + (j - i + 1) - 1 = j
    BY <1>1
  <2>2. L[i - 1 + 1 + (j - i + 1)] = f.lines[i + (j - i + 1) - 1]
    BY <1>6, <2>1
  <2>3. QED BY <2>1, <2>2
<1>9. QED BY <1>2, <1>5, <1>6, <1>7, <1>8 DEF L, n

LEMMA KeptDeleted ==
  ASSUME NEW f \in Files, NEW X \in Files, NEW i \in DOMAIN f.lines, X.lines = RemoveAt(f.lines, i),
         NEW k \in Markers, NEW d \in Contents, ~ Mentions(f.lines[i], k), Unchanged(f, k, d)
  PROVE  Unchanged(X, k, d)
<1> DEFINE L == X.lines
           n == Len(f.lines)
           ll == Len(L)
           s == First(Hits(f, k))
<1>1. n \in Nat /\ i \in 1 .. n /\ f.lines[i].mark \notin Extensions[k]
  BY FileTypes DEF Mentions
<1>2. /\ s \in 1 .. n /\ f.lines[s] = Bound(k, d)
      /\ \A j \in 1 .. n : j < s => f.lines[j].mark \notin Extensions[k]
  BY UnchangedFacts
<1>3. /\ ll = n - 1
      /\ \A j \in 1 .. i - 1 : L[j] = f.lines[j]
      /\ \A j \in i .. n - 1 : L[j] = f.lines[j + 1]
  BY LineDeleted
<1>4. s # i
  <2>1. f.lines[s].mark = k
    BY <1>2 DEF Bound
  <2>2. QED BY <1>1, <2>1, NoMarker
<1> HIDE DEF L, n, ll, s
<1>n. n \in Nat /\ i \in Nat /\ s \in Nat /\ 1 <= i /\ i <= n /\ 1 <= s /\ s <= n /\ ll = n - 1
  BY <1>1, <1>2, <1>3
<1> DEFINE p == IF s < i THEN s ELSE s - 1
<1>5. p \in 1 .. ll /\ L[p] = Bound(k, d)
  <2>1. CASE s < i
    <3>1. p = s /\ s \in 1 .. i - 1 /\ s \in 1 .. ll
      BY <1>n, <2>1
    <3>2. QED BY <1>2, <1>3, <3>1
  <2>2. CASE ~ (s < i)
    <3>1. p = s - 1 /\ s - 1 \in i .. n - 1 /\ s - 1 \in 1 .. ll /\ s - 1 + 1 = s
      BY <1>n, <1>4, <2>2
    <3>2. QED BY <1>2, <1>3, <3>1
  <2>3. QED BY <2>1, <2>2
<1>6. ASSUME NEW j \in 1 .. ll, j < p PROVE L[j].mark \notin Extensions[k]
  <2>1. CASE j < i
    <3>1. j \in 1 .. i - 1 /\ j \in 1 .. n /\ j < s
      BY <1>n, <1>6, <2>1
    <3>2. L[j] = f.lines[j]
      BY <1>3, <3>1
    <3>3. QED BY <1>2, <3>1, <3>2
  <2>2. CASE ~ (j < i)
    <3>1. j \in i .. n - 1 /\ j + 1 \in 1 .. n /\ j + 1 < s
      BY <1>n, <1>6, <2>2
    <3>2. L[j] = f.lines[j + 1]
      BY <1>3, <3>1
    <3>3. QED BY <1>2, <3>1, <3>2
  <2>3. QED BY <2>1, <2>2
<1> HIDE DEF p
<1>7. QED BY <1>5, <1>6, UnchangedIs DEF L, ll

LEMMA KeptInserted ==
  ASSUME NEW f \in Files, NEW X \in Files, NEW i \in 1 .. Len(f.lines) + 1, NEW line \in Line,
         X.lines = InsertAt(f.lines, i, line),
         NEW k \in Markers, NEW d \in Contents, ~ Mentions(line, k), Unchanged(f, k, d)
  PROVE  Unchanged(X, k, d)
<1> DEFINE L == X.lines
           n == Len(f.lines)
           ll == Len(L)
           s == First(Hits(f, k))
<1>1. n \in Nat /\ i \in 1 .. n + 1 /\ line.mark \notin Extensions[k]
  BY FileTypes DEF Mentions
<1>2. /\ s \in 1 .. n /\ f.lines[s] = Bound(k, d)
      /\ \A j \in 1 .. n : j < s => f.lines[j].mark \notin Extensions[k]
  BY UnchangedFacts
<1>3. /\ ll = n + 1 /\ L[i] = line
      /\ \A j \in 1 .. i - 1 : L[j] = f.lines[j]
      /\ \A j \in i .. n : L[j + 1] = f.lines[j]
  BY LineInserted
<1> HIDE DEF L, n, ll, s
<1>n. n \in Nat /\ i \in Nat /\ s \in Nat /\ 1 <= i /\ i <= n + 1 /\ 1 <= s /\ s <= n /\ ll = n + 1
  BY <1>1, <1>2, <1>3
<1> DEFINE p == IF s < i THEN s ELSE s + 1
<1>5. p \in 1 .. ll /\ L[p] = Bound(k, d)
  <2>1. CASE s < i
    <3>1. p = s /\ s \in 1 .. i - 1 /\ s \in 1 .. ll
      BY <1>n, <2>1
    <3>2. QED BY <1>2, <1>3, <3>1
  <2>2. CASE ~ (s < i)
    <3>1. p = s + 1 /\ s \in i .. n /\ s + 1 \in 1 .. ll
      BY <1>n, <2>2
    <3>2. QED BY <1>2, <1>3, <3>1
  <2>3. QED BY <2>1, <2>2
<1>6. ASSUME NEW j \in 1 .. ll, j < p PROVE L[j].mark \notin Extensions[k]
  <2>1. CASE j < i
    <3>1. j \in 1 .. i - 1 /\ j \in 1 .. n /\ j < s
      BY <1>n, <1>6, <2>1
    <3>2. L[j] = f.lines[j]
      BY <1>3, <3>1
    <3>3. QED BY <1>2, <3>1, <3>2
  <2>2. CASE j = i
    BY <1>1, <1>3, <2>2
  <2>3. CASE j > i
    <3>1. j - 1 \in i .. n /\ j - 1 + 1 = j /\ j - 1 \in 1 .. n /\ j - 1 < s
      BY <1>n, <1>6, <2>3
    <3>2. L[j] = f.lines[j - 1]
      BY <1>3, <3>1
    <3>3. QED BY <1>2, <3>1, <3>2
  <2>4. j < i \/ j = i \/ j > i
    BY <1>n
  <2>5. QED BY <2>1, <2>2, <2>3, <2>4, Zenon
<1> HIDE DEF p
<1>7. QED BY <1>5, <1>6, UnchangedIs DEF L, ll

(***************************************************************************)
(* The inductive invariant                                                 *)
(***************************************************************************)

FileTyped ==
  /\ file \in Files /\ pending \in Files /\ before \in Files /\ pending.exists
  /\ pc \in {"idle", "write"} /\ (pc = "write" => file = Empty)
  /\ op \in {"none", "append", "copy", "template", "touch"}
  /\ outcome \in {"none", "updated", "unchanged", "ok", "error", "interrupted"}
  /\ applied \in [Markers -> Contents \cup {Nothing}]
  /\ calls \in 0..MaxCalls /\ edits \in 0..MaxEdits

\* What the call writes, and that it has to
Writes(new) ==
  \/ /\ op = "append"
     /\ \E m \in Markers, c \in Contents :
          args = <<m, c>> /\ new = Appended(before, m, c) /\ ~ Unchanged(before, m, c)
  \/ /\ op \in {"copy", "template"}
     /\ \E c \in Contents : args = <<c>> /\ new = Source(c) /\ ~ Holds(before, c)

CallInv ==
  /\ pc = "write" => Writes(pending)
  /\ pc = "idle" /\ outcome = "updated" => Writes(file)
  /\ pc = "idle" /\ outcome = "unchanged" =>
       file = before /\ (op \in {"copy", "template"} => Holds(file, args[1]))

\* The file as it is going to be
Coming == IF pc = "write" THEN pending ELSE file

BoundInv == \A m \in Markers : applied[m] # Nothing => Unchanged(Coming, m, applied[m])

FileInv == FileTyped /\ CallInv /\ BoundInv

LEMMA FileInitInv == FileInit => FileInv
<1> SUFFICES ASSUME FileInit PROVE FileInv
  OBVIOUS
<1>1. file \in Files /\ before \in Files /\ pending \in Files /\ pending.exists
  <2>1. pending = Empty /\ before = file
    BY DEF FileInit
  <2>2. file \in Files
    BY InitialFiles DEF FileInit
  <2>3. Empty.exists
    BY DEF Empty
  <2>4. QED BY <2>1, <2>2, <2>3, InitialFiles
<1>2. FileTyped
  <2>1. applied \in [Markers -> Contents \cup {Nothing}]
    BY DEF FileInit
  <2>2. pc = "idle" /\ op = "none" /\ outcome = "none"
    BY DEF FileInit
  <2>3. calls \in 0 .. MaxCalls /\ edits \in 0 .. MaxEdits
    <3>1. calls = 0 /\ edits = 0
      BY DEF FileInit
    <3>2. MaxCalls \in Nat /\ MaxEdits \in Nat
      BY FileAssumption
    <3>3. QED BY <3>1, <3>2
  <2>4. QED BY <1>1, <2>1, <2>2, <2>3 DEF FileTyped
<1>3. CallInv
  BY DEF FileInit, CallInv
<1>4. BoundInv
  BY DEF FileInit, BoundInv
<1>5. QED BY <1>2, <1>3, <1>4 DEF FileInv

LEMMA BeginTypes ==
  ASSUME FileTyped, NEW o \in {"none", "append", "copy", "template", "touch"}, NEW a, Begin(o, a)
  PROVE  op' = o /\ before' \in Files /\ calls' \in 0 .. MaxCalls /\ before' = file /\ pc = "idle" /\ args' = a
<1>1. calls \in 0 .. MaxCalls /\ calls < MaxCalls /\ calls' = calls + 1 /\ MaxCalls \in Nat
  BY FileAssumption DEF FileTyped, Begin
<1>2. calls' \in 0 .. MaxCalls
  BY <1>1
<1>3. QED BY <1>2 DEF FileTyped, Begin

LEMMA AppendKeeps ==
  ASSUME FileInv, NEW m \in Markers, NEW c \in Contents, AppendTo(m, c)
  PROVE  FileInv'
<1>1. FileTyped /\ file \in Files
  BY DEF FileInv, FileTyped
<1>2. /\ op' = "append" /\ before' \in Files /\ calls' \in 0 .. MaxCalls /\ before' = file
      /\ pc = "idle" /\ args' = <<m, c>> /\ edits' = edits
  <2>1. Begin("append", <<m, c>>) /\ edits' = edits
    BY DEF AppendTo
  <2>2. QED BY <1>1, <2>1, BeginTypes, Zenon
<1>3. CASE Unchanged(file, m, c)
  <2>1. pc' = "idle" /\ outcome' = "unchanged" /\ file' = file /\ pending' = pending /\ applied' = applied
    BY <1>3 DEF AppendTo, Return
  <2>2. FileTyped'
    BY <1>1, <1>2, <2>1 DEF FileTyped
  <2>3. CallInv'
    BY <1>2, <2>1 DEF CallInv
  <2>4. BoundInv'
    <3>1. Coming' = Coming
      BY <1>2, <2>1 DEF Coming
    <3>2. QED BY <2>1, <3>1 DEF FileInv, BoundInv, Unchanged, Hits, First
  <2>5. QED BY <2>2, <2>3, <2>4 DEF FileInv
<1>4. CASE ~ Unchanged(file, m, c)
  <2>1. /\ pc' = "write" /\ outcome' = "none" /\ file' = Empty /\ pending' = Appended(file, m, c)
        /\ applied' = [k \in Markers |->
             CASE k = m -> c
               [] k # m /\ Apart(file, k, m) /\ Silent(c, k) -> applied[k]
               [] OTHER -> Nothing]
    BY <1>4 DEF AppendTo, Truncate
  <2>2. Appended(file, m, c) \in Files /\ Appended(file, m, c).exists /\ Unchanged(Appended(file, m, c), m, c)
    BY <1>1, AppendedFacts
  <2>3. FileTyped'
    <3>1. applied' \in [Markers -> Contents \cup {Nothing}]
      BY <1>1, <2>1 DEF FileTyped
    <3>2. QED BY <1>1, <1>2, <2>1, <2>2, <3>1, InitialFiles DEF FileTyped
  <2>4. CallInv'
    <3>1. pending' = Appended(before', m, c) /\ ~ Unchanged(before', m, c)
      BY <1>2, <1>4, <2>1
    <3>2. Writes(pending)'
      BY <1>2, <3>1 DEF Writes
    <3>3. QED BY <2>1, <3>2 DEF CallInv
  <2>5. ASSUME NEW k \in Markers, applied'[k] # Nothing
        PROVE  Unchanged(Appended(file, m, c), k, applied'[k])
    <3>1. CASE k = m
      <4>1. applied'[k] = c
        BY <2>1, <3>1
      <4>2. QED BY <2>2, <3>1, <4>1
    <3>2. CASE k # m
      <4>1. Apart(file, k, m) /\ Silent(c, k) /\ applied'[k] = applied[k]
        BY <2>1, <2>5, <3>2
      <4>2. applied[k] # Nothing /\ applied[k] \in Contents
        BY <1>1, <2>5, <4>1 DEF FileTyped
      <4>3. Unchanged(file, k, applied[k])
        BY <1>2, <4>2 DEF FileInv, BoundInv, Coming
      <4>4. Unchanged(Appended(file, m, c), k, applied[k])
        BY <1>1, <4>1, <4>2, <4>3, AppendedFacts
      <4>5. QED BY <4>1, <4>4
    <3>3. QED BY <3>1, <3>2
  <2>6. BoundInv'
    <3>1. Coming' = Appended(file, m, c)
      BY <2>1 DEF Coming
    <3>2. QED BY <2>5, <3>1 DEF BoundInv
  <2>7. QED BY <2>3, <2>4, <2>6 DEF FileInv
<1>5. QED BY <1>3, <1>4

LEMMA OverwriteKeeps ==
  ASSUME FileInv, NEW o \in {"copy", "template"}, NEW c \in Contents, Overwrite(o, c)
  PROVE  FileInv'
<1>1. FileTyped /\ file \in Files
  BY DEF FileInv, FileTyped
<1>2. /\ op' = o /\ before' \in Files /\ calls' \in 0 .. MaxCalls /\ before' = file
      /\ pc = "idle" /\ args' = <<c>> /\ edits' = edits
  <2>1. Begin(o, <<c>>) /\ edits' = edits
    BY DEF Overwrite
  <2>2. o \in {"none", "append", "copy", "template", "touch"}
    OBVIOUS
  <2>3. QED BY <1>1, <2>1, <2>2, BeginTypes, Zenon
<1>3. CASE Holds(file, c)
  <2>1. pc' = "idle" /\ outcome' = "unchanged" /\ file' = file /\ pending' = pending /\ applied' = applied
    BY <1>3 DEF Overwrite, Return
  <2>2. FileTyped'
    BY <1>1, <1>2, <2>1 DEF FileTyped
  <2>3. CallInv'
    <3>1. file' = before' /\ Holds(file', args'[1])
      BY <1>2, <1>3, <2>1
    <3>2. QED BY <2>1, <3>1 DEF CallInv, Holds
  <2>4. BoundInv'
    <3>1. Coming' = Coming
      BY <1>2, <2>1 DEF Coming
    <3>2. QED BY <2>1, <3>1 DEF FileInv, BoundInv, Unchanged, Hits, First
  <2>5. QED BY <2>2, <2>3, <2>4 DEF FileInv
<1>4. CASE ~ Holds(file, c)
  <2>1. /\ pc' = "write" /\ outcome' = "none" /\ file' = Empty /\ pending' = Source(c)
        /\ applied' = [m \in Markers |-> Nothing]
    BY <1>4 DEF Overwrite, Truncate
  <2>2. Source(c) \in Files /\ Source(c).exists /\ Empty \in Files
    BY InitialFiles DEF Source
  <2>3. FileTyped'
    BY <1>1, <1>2, <2>1, <2>2 DEF FileTyped
  <2>4. CallInv'
    <3>1. Writes(pending)'
      BY <1>2, <1>4, <2>1 DEF Writes, Holds
    <3>2. QED BY <2>1, <3>1 DEF CallInv
  <2>5. BoundInv'
    BY <2>1 DEF BoundInv
  <2>6. QED BY <2>3, <2>4, <2>5 DEF FileInv
<1>5. QED BY <1>3, <1>4

\* A step that changes neither the lines of the file nor what is kept
LEMMA SameLines ==
  ASSUME BoundInv, pc = "idle", pc' = "idle", file'.lines = file.lines, applied' = applied
  PROVE  BoundInv'
<1>1. Coming.lines = file.lines /\ Coming'.lines = file.lines
  BY DEF Coming
<1>2. QED BY <1>1 DEF BoundInv, Unchanged, Hits, First

LEMMA EditKeeps ==
  ASSUME FileInv, Delete \/ Insert
  PROVE  FileInv'
<1>1. FileTyped /\ file \in Files /\ file.lines \in Seq(Line) /\ file.eol \in BOOLEAN /\ file.exists \in BOOLEAN
  BY FileTypes DEF FileInv, FileTyped
<1>2. ASSUME NEW lines \in Seq(Line), Edited(lines),
             applied' \in [Markers -> Contents \cup {Nothing}]
      PROVE  FileTyped' /\ CallInv' /\ file' \in Files /\ file'.lines = lines /\ pc = "idle" /\ pc' = "idle"
  <2>1. /\ pc = "idle" /\ pc' = "idle" /\ op' = "none" /\ outcome' = "none" /\ args' = <<>>
        /\ before' = file' /\ pending' = pending /\ calls' = calls
        /\ edits < MaxEdits /\ edits' = edits + 1
        /\ file' = [file EXCEPT !.lines = lines, !.eol = @ \/ lines = <<>>]
    BY <1>2 DEF Edited
  <2>2. file' \in Files /\ file'.lines = lines
    BY <1>1, <2>1 DEF Files
  <2>3. edits' \in 0 .. MaxEdits
    <3>1. edits \in 0 .. MaxEdits /\ MaxEdits \in Nat
      BY <1>1, FileAssumption DEF FileTyped
    <3>2. QED BY <2>1, <3>1
  <2>5. FileTyped'
    BY <1>1, <1>2, <2>1, <2>2, <2>3 DEF FileTyped
  <2>6. CallInv'
    BY <2>1 DEF CallInv
  <2>7. QED BY <2>1, <2>2, <2>5, <2>6
<1>3. CASE Delete
  <2>1. PICK i \in DOMAIN file.lines :
          /\ Edited(RemoveAt(file.lines, i))
          /\ applied' = [m \in Markers |-> IF Mentions(file.lines[i], m) THEN Nothing ELSE applied[m]]
    BY <1>3 DEF Delete
  <2>2. RemoveAt(file.lines, i) \in Seq(Line)
    BY <1>1, LineDeleted
  <2>t. applied' \in [Markers -> Contents \cup {Nothing}]
    BY <1>1, <2>1 DEF FileTyped
  <2>3. FileTyped' /\ CallInv' /\ file' \in Files /\ file'.lines = RemoveAt(file.lines, i)
        /\ pc = "idle" /\ pc' = "idle"
    BY <1>2, <2>1, <2>2, <2>t
  <2>4. ASSUME NEW m \in Markers, applied'[m] # Nothing PROVE Unchanged(file', m, applied'[m])
    <3>1. ~ Mentions(file.lines[i], m) /\ applied'[m] = applied[m]
      BY <2>1, <2>4
    <3>2. applied[m] \in Contents /\ Unchanged(file, m, applied[m])
      BY <1>1, <2>3, <2>4, <3>1 DEF FileInv, FileTyped, BoundInv, Coming
    <3>3. QED BY <1>1, <2>3, <3>1, <3>2, KeptDeleted
  <2>5. BoundInv'
    BY <2>3, <2>4 DEF BoundInv, Coming
  <2>6. QED BY <2>3, <2>5 DEF FileInv
<1>4. CASE Insert
  <2>1. PICK i \in 1 .. Len(file.lines) + 1, line \in {Note, Crlf, Latin} \cup {Mention(m) : m \in Markers} :
          /\ Edited(InsertAt(file.lines, i, line))
          /\ applied' = [m \in Markers |-> IF Mentions(line, m) THEN Nothing ELSE applied[m]]
    BY <1>4 DEF Insert
  <2>2. line \in Line /\ InsertAt(file.lines, i, line) \in Seq(Line)
    <3>1. line \in Line
      BY LineTypes
    <3>2. QED BY <1>1, <3>1, LineInserted
  <2>t. applied' \in [Markers -> Contents \cup {Nothing}]
    BY <1>1, <2>1 DEF FileTyped
  <2>3. FileTyped' /\ CallInv' /\ file' \in Files /\ file'.lines = InsertAt(file.lines, i, line)
        /\ pc = "idle" /\ pc' = "idle"
    BY <1>2, <2>1, <2>2, <2>t
  <2>4. ASSUME NEW m \in Markers, applied'[m] # Nothing PROVE Unchanged(file', m, applied'[m])
    <3>1. ~ Mentions(line, m) /\ applied'[m] = applied[m]
      BY <2>1, <2>4
    <3>2. applied[m] \in Contents /\ Unchanged(file, m, applied[m])
      BY <1>1, <2>3, <2>4, <3>1 DEF FileInv, FileTyped, BoundInv, Coming
    <3>3. QED BY <1>1, <2>2, <2>3, <3>1, <3>2, KeptInserted
  <2>5. BoundInv'
    BY <2>3, <2>4 DEF BoundInv, Coming
  <2>6. QED BY <2>3, <2>5 DEF FileInv
<1>5. QED BY <1>3, <1>4

LEMMA WriteKeeps ==
  ASSUME FileInv, WriteAll \/ Interrupted
  PROVE  FileInv'
<1>1. FileTyped
  BY DEF FileInv
<1>2. Empty \in Files /\ Empty.exists
  BY InitialFiles DEF Empty
<1>3. CASE WriteAll
  <2>1. /\ pc = "write" /\ pc' = "idle" /\ outcome' = "updated" /\ file' = pending /\ pending' = Empty
        /\ op' = op /\ args' = args /\ before' = before /\ calls' = calls /\ edits' = edits
        /\ applied' = applied
    BY <1>3 DEF WriteAll, Return
  <2>2. FileTyped'
    BY <1>1, <1>2, <2>1 DEF FileTyped
  <2>3. CallInv'
    <3>1. Writes(pending)
      BY <2>1 DEF FileInv, CallInv
    <3>2. Writes(file)'
      BY <2>1, <3>1 DEF Writes
    <3>3. QED BY <2>1, <3>2 DEF CallInv
  <2>4. BoundInv'
    <3>1. Coming = pending /\ Coming' = pending
      BY <2>1 DEF Coming
    <3>2. QED BY <2>1, <3>1 DEF FileInv, BoundInv, Unchanged, Hits, First
  <2>5. QED BY <2>2, <2>3, <2>4 DEF FileInv
<1>4. CASE Interrupted
  <2>1. /\ pc' = "idle" /\ outcome' = "interrupted" /\ pending' = Empty
        /\ op' = op /\ args' = args /\ before' = before /\ calls' = calls /\ edits' = edits
        /\ applied' = [m \in Markers |-> Nothing]
    BY <1>4 DEF Interrupted, Return
  <2>2. PICK n \in 0 .. Len(pending.lines) - 1 :
          file' = [exists |-> TRUE, lines |-> SubSeq(pending.lines, 1, n), eol |-> TRUE]
    BY <1>4 DEF Interrupted
  <2>3. SubSeq(pending.lines, 1, n) \in Seq(Line)
    <3>1. pending.lines \in Seq(Line) /\ Len(pending.lines) \in Nat
      BY <1>1, FileTypes DEF FileTyped
    <3>2. 1 \in Int /\ n \in Int /\ \A i \in 1 .. n : i \in 1 .. Len(pending.lines)
      BY <3>1
    <3>3. \A i \in 1 .. n : pending.lines[i] \in Line
      BY <3>1, <3>2, ElementOfSeq
    <3>4. QED BY <3>2, <3>3, SubSeqProperties
  <2>4. file' \in Files
    BY <2>2, <2>3 DEF Files
  <2>5. FileTyped'
    <3>1. applied' \in [Markers -> Contents \cup {Nothing}]
      BY <2>1
    <3>2. QED BY <1>1, <1>2, <2>1, <2>4, <3>1 DEF FileTyped
  <2>6. CallInv' /\ BoundInv'
    BY <2>1 DEF CallInv, BoundInv
  <2>7. QED BY <2>5, <2>6 DEF FileInv
<1>5. QED BY <1>3, <1>4

LEMMA FileStep == FileInv /\ [FileNext]_fileVars => FileInv'
<1> SUFFICES ASSUME FileInv, [FileNext]_fileVars PROVE FileInv'
  OBVIOUS
<1>1. FileTyped
  BY DEF FileInv
<1>2. ASSUME NEW m \in Markers, NEW c \in Contents, AppendTo(m, c) PROVE FileInv'
  BY <1>2, AppendKeeps
<1>3. ASSUME NEW c \in Contents, Copy(c) \/ Template(c) PROVE FileInv'
  BY <1>3, OverwriteKeeps DEF Copy, Template
<1>4. CASE CallFails
  <2>1. /\ pc' = "idle" /\ outcome' = "error" /\ file' = file /\ pending' = pending
        /\ edits' = edits /\ applied' = applied /\ Begin("none", <<>>)
    BY <1>4 DEF CallFails, Return
  <2>2. op' = "none" /\ before' \in Files /\ calls' \in 0 .. MaxCalls /\ pc = "idle"
    BY <1>1, <2>1, BeginTypes, Zenon
  <2>3. FileTyped' /\ CallInv'
    BY <1>1, <2>1, <2>2 DEF FileTyped, CallInv
  <2>4. BoundInv'
    <3>1. file'.lines = file.lines /\ BoundInv
      BY <2>1 DEF FileInv
    <3>2. QED BY <2>1, <2>2, <3>1, SameLines
  <2>5. QED BY <2>3, <2>4 DEF FileInv
<1>5. CASE Touch
  <2>1. /\ pc' = "idle" /\ outcome' = "ok" /\ file' = [file EXCEPT !.exists = TRUE] /\ pending' = pending
        /\ edits' = edits /\ applied' = applied /\ Begin("touch", <<>>)
    BY <1>5 DEF Touch, Return
  <2>2. op' = "touch" /\ before' \in Files /\ calls' \in 0 .. MaxCalls /\ pc = "idle"
    BY <1>1, <2>1, BeginTypes, Zenon
  <2>3. file' \in Files /\ file'.lines = file.lines
    BY <1>1, <2>1 DEF FileTyped, Files
  <2>4. FileTyped' /\ CallInv'
    BY <1>1, <2>1, <2>2, <2>3 DEF FileTyped, CallInv
  <2>5. BoundInv'
    <3>1. BoundInv
      BY DEF FileInv
    <3>2. QED BY <2>1, <2>2, <2>3, <3>1, SameLines
  <2>6. QED BY <2>4, <2>5 DEF FileInv
<1>6. CASE WriteAll \/ Interrupted
  BY <1>6, WriteKeeps
<1>7. CASE Delete \/ Insert
  BY <1>7, EditKeeps
<1>8. CASE UNCHANGED fileVars
  <2>1. UNCHANGED <<file, pending, pc, op, args, outcome, before, calls, edits, applied>>
    BY <1>8 DEF fileVars, callVars
  <2>2. FileTyped'
    BY <1>1, <2>1 DEF FileTyped
  <2>3. CallInv'
    <3>1. Writes(pending)' = Writes(pending) /\ Writes(file)' = Writes(file)
      BY <2>1 DEF Writes
    <3>2. QED BY <2>1, <3>1 DEF FileInv, CallInv
  <2>4. BoundInv'
    BY <2>1 DEF FileInv, BoundInv, Coming, Unchanged, Hits, First
  <2>5. QED BY <2>2, <2>3, <2>4 DEF FileInv
<1>9. QED
  BY <1>2, <1>3, <1>4, <1>5, <1>6, <1>7, <1>8 DEF FileNext

THEOREM FileInvariant == FileSpec => []FileInv
BY FileInitInv, FileStep, PTL DEF FileSpec

-----------------------------------------------------------------------------

\* The file and the call keep their types, and while a call writes, the file is empty.
THEOREM FileTypeCorrect == FileSpec => []FileTypeOK
<1>1. FileInv => FileTypeOK
  <2> SUFFICES ASSUME FileInv PROVE FileTypeOK
    OBVIOUS
  <2>1. FileTyped
    BY DEF FileInv
  <2>2. file.exists \in BOOLEAN /\ file.eol \in BOOLEAN /\ file \in Files
    BY <2>1, FileTypes DEF FileTyped
  <2>3. ASSUME NEW line \in Range(file.lines) PROVE line.mark \in Markers \cup {""}
    <3>1. PICK i \in DOMAIN file.lines : line = file.lines[i]
      BY DEF Range
    <3>2. line \in Line
      BY <2>2, <3>1, FileTypes
    <3>3. QED BY <3>2 DEF Line
  <2>4. QED BY <2>1, <2>2, <2>3 DEF FileTyped, FileTypeOK
<1>2. QED BY FileInvariant, <1>1, PTL

\* append() finds the bounds it has written, whatever other calls and users did to the
\* rest of the file, unless a content or an edit mentioned the marker since, or a call
\* replaced a section that is not between two bounds of its own or overlaps this one.
THEOREM FileBoundsKept == FileSpec => []BoundsKept
<1>1. FileInv => BoundsKept
  <2> SUFFICES ASSUME FileInv, pc = "idle", NEW m \in Markers, applied[m] # Nothing
               PROVE  Unchanged(file, m, applied[m])
    BY DEF BoundsKept
  <2>1. Coming = file
    BY DEF Coming
  <2>2. QED BY <2>1 DEF FileInv, BoundInv
<1>2. QED BY FileInvariant, <1>1, PTL

LEMMA SourceHeld ==
  ASSUME NEW c \in Contents PROVE Holds(Source(c), c)
BY DEF Holds

\* append() puts the content behind its bound and replaces its section, if it is one, and
\* nothing else but what reading the file as text changes; copy() and template() leave the
\* source; all of them tell whether they wrote.
THEOREM FileCallsExact == FileSpec => []CallsExact
<1>1. FileInv => CallsExact
  <2> DEFINE Replaces(m, c) ==
               LET text == TextOf[c]
                   old == Taken(before, m)
                   start == First(Hits(file, m))
               IN  /\ Len(file.lines) >= start + Len(text)
                   /\ \A i \in DOMAIN text : file.lines[start + i] \in {text[i], Split(text[i])}
                   /\ WellFormed(before, m) /\ Silent(c, m) =>
                        /\ WellFormed(file, m)
                        /\ Outside(file, m) \in {Outside(old, m), Append(old.lines, Blank)}
  <2> SUFFICES ASSUME FileInv, pc = "idle", outcome \in {"updated", "unchanged"}
               PROVE  /\ outcome = "unchanged" <=> file = before
                      /\ op = "append" /\ outcome = "updated" => Replaces(args[1], args[2])
                      /\ op \in {"copy", "template"} => Holds(file, args[1])
    BY DEF CallsExact
  <2>1. before \in Files
    BY DEF FileInv, FileTyped
  <2>2. CASE outcome = "unchanged"
    BY <2>2 DEF FileInv, CallInv
  <2>3. CASE outcome = "updated" /\ op = "append"
    <3>1. PICK m \in Markers, c \in Contents :
            args = <<m, c>> /\ file = Appended(before, m, c) /\ ~ Unchanged(before, m, c)
      BY <2>3 DEF FileInv, CallInv, Writes
    <3>2. args[1] = m /\ args[2] = c
      BY <3>1
    <3>3. file # before
      <4>1. Unchanged(Appended(before, m, c), m, c)
        BY <2>1, AppendedFacts
      <4>2. QED BY <3>1, <4>1
    <3>4. Replaces(m, c)
      <4>1. DOMAIN TextOf[c] = 1 .. Len(TextOf[c]) /\ Len(TextOf[c]) \in Nat
        BY TextTypes, LenProperties
      <4>2. file \in Files /\ Unchanged(file, m, c)
        BY <2>1, <3>1, AppendedFacts
      <4>3. First(Hits(file, m)) \in Nat /\ Len(file.lines) \in Nat
        BY <4>2, UnchangedFacts, FileTypes
      <4>4. LET s == First(Hits(file, m))
            IN  /\ s + Len(TextOf[c]) <= Len(file.lines)
                /\ \A i \in 1 .. Len(TextOf[c]) : file.lines[s + i] \in {TextOf[c][i], Split(TextOf[c][i])}
                /\ WellFormed(before, m) /\ Silent(c, m) =>
                     /\ WellFormed(file, m)
                     /\ Outside(file, m) \in {Outside(Taken(before, m), m), Append(Taken(before, m).lines, Blank)}
        BY <2>1, <3>1, AppendedFacts
      <4>5. QED BY <4>1, <4>3, <4>4
    <3>5. QED BY <2>3, <3>2, <3>3, <3>4
  <2>4. CASE outcome = "updated" /\ op # "append"
    <3>1. PICK c \in Contents : args = <<c>> /\ file = Source(c) /\ ~ Holds(before, c)
      BY <2>4 DEF FileInv, CallInv, Writes
    <3>2. args[1] = c
      BY <3>1
    <3>3. Holds(file, c) /\ file # before
      BY <3>1, SourceHeld
    <3>4. QED BY <2>4, <3>2, <3>3
  <2>5. QED BY <2>2, <2>3, <2>4
<1>2. QED BY FileInvariant, <1>1, PTL
=============================================================================
