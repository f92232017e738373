--------------------------- MODULE LineFileProofs ---------------------------
(***************************************************************************)
(* Proofs about LineFile, for a chain of any number of nodes, files of any  *)
(* length, any set of lines and any placement: no line is lost silently or  *)
(* inserted twice, what was inserted stays, and the functions that look for *)
(* a position agree.                                                        *)
(***************************************************************************)
EXTENDS LineFile, FiniteSetTheorems, SequenceTheorems, TLAPS

-----------------------------------------------------------------------------
(* Sequences.                                                               *)

Lines == Seq(Line)

LEMMA InsertShape ==
  ASSUME NEW t \in Lines, NEW p \in 1 .. Len(t) + 1, NEW x \in Line
  PROVE  /\ InsertAt(t, p, x) \in Lines
         /\ Len(InsertAt(t, p, x)) = Len(t) + 1
         /\ \A i \in 1 .. Len(t) + 1 :
              InsertAt(t, p, x)[i] = IF i < p THEN t[i] ELSE IF i = p THEN x ELSE t[i - 1]
<1> DEFINE a == SubSeq(t, 1, p - 1)
           b == SubSeq(t, p, Len(t))
<1>0. Len(t) \in Nat /\ p \in Nat /\ p >= 1 /\ \A i \in 1 .. Len(t) : t[i] \in Line
  BY LenProperties DEF Lines
<1>1. a \in Lines /\ Len(a) = p - 1 /\ \A i \in 1 .. p - 1 : a[i] = t[i]
  BY <1>0, SubSeqProperties DEF Lines
<1>2. b \in Lines /\ Len(b) = Len(t) - p + 1 /\ \A i \in 1 .. Len(t) - p + 1 : b[i] = t[p + i - 1]
  BY <1>0, SubSeqProperties DEF Lines
<1>3. <<x>> \in Lines /\ Len(<<x>>) = 1 /\ <<x>>[1] = x
  BY DEF Lines
<1> HIDE DEF a, b
<1> DEFINE c == a \o <<x>>
<1>4. c \in Lines /\ Len(c) = p /\ \A i \in 1 .. p : c[i] = IF i < p THEN t[i] ELSE x
  BY <1>0, <1>1, <1>3, ConcatProperties DEF Lines
<1> HIDE DEF c
<1>5. /\ c \o b \in Lines /\ Len(c \o b) = Len(t) + 1
      /\ \A i \in 1 .. Len(t) + 1 : (c \o b)[i] = IF i <= p THEN c[i] ELSE b[i - p]
  <2>1. Len(c) + Len(b) = Len(t) + 1
    BY <1>0, <1>2, <1>4
  <2> QED
    BY <1>2, <1>4, <2>1, ConcatProperties DEF Lines
<1>6. InsertAt(t, p, x) = c \o b
  BY DEF InsertAt, a, b, c
<1>7. ASSUME NEW i \in 1 .. Len(t) + 1
      PROVE  InsertAt(t, p, x)[i] = IF i < p THEN t[i] ELSE IF i = p THEN x ELSE t[i - 1]
  <2>1. CASE i <= p
    BY <1>0, <1>4, <1>5, <1>6, <2>1
  <2>2. CASE i > p
    BY <1>0, <1>2, <1>5, <1>6, <2>2
  <2> QED
    BY <1>0, <2>1, <2>2
<1> QED
  BY <1>5, <1>6, <1>7

LEMMA RemoveShape ==
  ASSUME NEW t \in Lines, NEW p \in 1 .. Len(t)
  PROVE  /\ RemoveAt(t, p) \in Lines
         /\ Len(RemoveAt(t, p)) = Len(t) - 1
         /\ \A i \in 1 .. Len(t) - 1 : RemoveAt(t, p)[i] = IF i < p THEN t[i] ELSE t[i + 1]
<1> DEFINE a == SubSeq(t, 1, p - 1)
           b == SubSeq(t, p + 1, Len(t))
<1>0. Len(t) \in Nat /\ p \in Nat /\ p >= 1 /\ \A i \in 1 .. Len(t) : t[i] \in Line
  BY LenProperties DEF Lines
<1>1. a \in Lines /\ Len(a) = p - 1 /\ \A i \in 1 .. p - 1 : a[i] = t[i]
  BY <1>0, SubSeqProperties DEF Lines
<1>2. b \in Lines /\ Len(b) = Len(t) - p /\ \A i \in 1 .. Len(t) - p : b[i] = t[p + i]
  BY <1>0, SubSeqProperties DEF Lines
<1> HIDE DEF a, b
<1>3. /\ a \o b \in Lines /\ Len(a \o b) = Len(t) - 1
      /\ \A i \in 1 .. Len(t) - 1 : (a \o b)[i] = IF i <= p - 1 THEN a[i] ELSE b[i - (p - 1)]
  BY <1>0, <1>1, <1>2, ConcatProperties DEF Lines
<1>4. RemoveAt(t, p) = a \o b
  BY DEF RemoveAt, a, b
<1>5. ASSUME NEW i \in 1 .. Len(t) - 1
      PROVE  RemoveAt(t, p)[i] = IF i < p THEN t[i] ELSE t[i + 1]
  <2>1. CASE i < p
    BY <1>0, <1>1, <1>3, <1>4, <2>1
  <2>2. CASE i >= p
    <3>1. b[i - (p - 1)] = t[i + 1]
      BY <1>0, <1>2, <2>2
    <3> QED
      BY <1>0, <1>3, <1>4, <2>2, <3>1
  <2> QED
    BY <1>0, <2>1, <2>2
<1> QED
  BY <1>3, <1>4, <1>5

LEMMA PrefixShape ==
  ASSUME NEW t \in Lines, NEW u \in Prefixes(t)
  PROVE  /\ u \in Lines /\ Len(u) <= Len(t)
         /\ \A i \in 1 .. Len(u) : u[i] = t[i]
<1>1. PICK l \in 0 .. Len(t) : u = SubSeq(t, 1, l)
  BY DEF Prefixes
<1>2. Len(t) \in Nat /\ \A i \in 1 .. Len(t) : t[i] \in Line
  BY LenProperties DEF Lines
<1> QED
  BY <1>1, <1>2, SubSeqProperties DEF Lines

\* What was inserted and is removed again leaves the lines as they were.
LEMMA RemoveInserted ==
  ASSUME NEW t \in Lines, NEW p \in 1 .. Len(t) + 1, NEW x \in Line
  PROVE  RemoveAt(InsertAt(t, p, x), p) = t
<1> DEFINE s == InsertAt(t, p, x)
<1>0. Len(t) \in Nat /\ p \in Nat /\ p >= 1
  BY LenProperties DEF Lines
<1>1. /\ s \in Lines /\ Len(s) = Len(t) + 1
      /\ \A i \in 1 .. Len(t) + 1 :
           s[i] = IF i < p THEN t[i] ELSE IF i = p THEN x ELSE t[i - 1]
  BY InsertShape
<1> HIDE DEF s
<1>2. /\ RemoveAt(s, p) \in Lines /\ Len(RemoveAt(s, p)) = Len(t)
      /\ \A i \in 1 .. Len(t) : RemoveAt(s, p)[i] = IF i < p THEN s[i] ELSE s[i + 1]
  <2>1. p \in 1 .. Len(s) /\ Len(s) - 1 = Len(t)
    BY <1>0, <1>1
  <2> QED
    BY <1>1, <2>1, RemoveShape
<1>3. \A i \in 1 .. Len(t) : RemoveAt(s, p)[i] = t[i]
  BY <1>0, <1>1, <1>2
<1>4. RemoveAt(s, p) = t
  BY <1>2, <1>3, SeqEqual DEF Lines
<1> QED
  BY <1>4 DEF s

\* What is in a sequence, by its positions.
LEMMA InLines ==
  ASSUME NEW t \in Lines
  PROVE  /\ DOMAIN t = 1 .. Len(t) /\ Len(t) \in Nat
         /\ \A x : x \in ToSet(t) <=> \E i \in 1 .. Len(t) : t[i] = x
BY LenProperties DEF Lines, ToSet

-----------------------------------------------------------------------------
(* Lines kept in their order.                                               *)

LEMMA WithinItself ==
  ASSUME NEW t \in Lines
  PROVE  Within(t, t)
<1>1. [i \in DOMAIN t |-> i] \in [DOMAIN t -> DOMAIN t]
  OBVIOUS
<1> QED
  BY <1>1 DEF Within

LEMMA WithinInserted ==
  ASSUME NEW a \in Lines, NEW t \in Lines, NEW p \in 1 .. Len(t) + 1, NEW x \in Line,
         Within(a, t)
  PROVE  Within(a, InsertAt(t, p, x))
<1> DEFINE s == InsertAt(t, p, x)
<1>0. /\ Len(t) \in Nat /\ p \in Nat /\ DOMAIN t = 1 .. Len(t) /\ DOMAIN a = 1 .. Len(a)
      /\ Len(a) \in Nat
  BY InLines
<1>1. /\ s \in Lines /\ DOMAIN s = 1 .. Len(t) + 1
      /\ \A i \in 1 .. Len(t) + 1 :
           s[i] = IF i < p THEN t[i] ELSE IF i = p THEN x ELSE t[i - 1]
  BY InsertShape, InLines
<1> HIDE DEF s
<1>2. PICK f \in [DOMAIN a -> DOMAIN t] :
        /\ \A i \in DOMAIN a : t[f[i]] = a[i]
        /\ \A i, j \in DOMAIN a : i < j => f[i] < f[j]
  BY DEF Within
<1> DEFINE g == [i \in DOMAIN a |-> IF f[i] < p THEN f[i] ELSE f[i] + 1]
<1>3. g \in [DOMAIN a -> DOMAIN s]
  BY <1>0, <1>1, <1>2
<1>4. ASSUME NEW i \in DOMAIN a PROVE s[g[i]] = a[i]
  <2>1. f[i] \in 1 .. Len(t) /\ g[i] = (IF f[i] < p THEN f[i] ELSE f[i] + 1) /\ t[f[i]] = a[i]
    BY <1>0, <1>2
  <2> QED
    BY <1>0, <1>1, <2>1
<1>5. ASSUME NEW i \in DOMAIN a, NEW j \in DOMAIN a, i < j PROVE g[i] < g[j]
  <2>1. f[i] \in Nat /\ f[j] \in Nat /\ f[i] < f[j]
    BY <1>0, <1>2, <1>5
  <2> QED
    BY <1>0, <2>1
<1>6. Within(a, s)
  BY <1>3, <1>4, <1>5 DEF Within
<1> QED
  BY <1>6 DEF s

-----------------------------------------------------------------------------
(* How often a line is in a file.                                           *)

Where(l, t) == {i \in DOMAIN t : t[i] = l}

LEMMA WhereFinite ==
  ASSUME NEW t \in Lines, NEW l
  PROVE  IsFiniteSet(Where(l, t)) /\ Occurrences(l, t) = Cardinality(Where(l, t))
         /\ Occurrences(l, t) \in Nat
<1>1. IsFiniteSet(1 .. Len(t))
  BY InLines, FS_Interval
<1>2. Where(l, t) \in SUBSET (1 .. Len(t))
  BY InLines DEF Where
<1>3. IsFiniteSet(Where(l, t))
  BY <1>1, <1>2, FS_Subset
<1> QED
  BY <1>3, FS_CardinalityType DEF Occurrences, Where

\* A line is not there more often if its positions can be mapped to different ones.
LEMMA FewerBy ==
  ASSUME NEW s \in Lines, NEW t \in Lines, NEW l, NEW f,
         f \in [Where(l, s) -> Where(l, t)],
         \A i, j \in Where(l, s) : f[i] = f[j] => i = j
  PROVE  Occurrences(l, s) <= Occurrences(l, t)
<1>1. f \in Injection(Where(l, s), Where(l, t))
  BY DEF Injection, IsInjective
<1> QED
  BY <1>1, WhereFinite, FS_Injection

LEMMA FewerInserted ==
  ASSUME NEW t \in Lines, NEW p \in 1 .. Len(t) + 1, NEW x \in Line, NEW l, l # x
  PROVE  Occurrences(l, InsertAt(t, p, x)) <= Occurrences(l, t)
<1> DEFINE s == InsertAt(t, p, x)
<1>0. Len(t) \in Nat /\ p \in Nat /\ p >= 1 /\ DOMAIN t = 1 .. Len(t)
  BY InLines
<1>1. /\ s \in Lines /\ DOMAIN s = 1 .. Len(t) + 1
      /\ \A i \in 1 .. Len(t) + 1 :
           s[i] = IF i < p THEN t[i] ELSE IF i = p THEN x ELSE t[i - 1]
  BY InsertShape, InLines
<1> HIDE DEF s
<1> DEFINE f == [i \in Where(l, s) |-> IF i < p THEN i ELSE i - 1]
<1>2. \A i \in Where(l, s) : /\ i \in Nat /\ i # p
                             /\ i < p => i \in Where(l, t)
                             /\ ~(i < p) => i - 1 \in Where(l, t)
  BY <1>0, <1>1 DEF Where
<1>3. f \in [Where(l, s) -> Where(l, t)]
  BY <1>2
<1>4. \A i, j \in Where(l, s) : f[i] = f[j] => i = j
  BY <1>0, <1>2
<1>5. Occurrences(l, s) <= Occurrences(l, t)
  BY <1>1, <1>3, <1>4, FewerBy
<1> QED
  BY <1>5 DEF s

\* A line that was not there is there once when it has been inserted.
LEMMA OnceInserted ==
  ASSUME NEW t \in Lines, NEW p \in 1 .. Len(t) + 1, NEW x \in Line, x \notin ToSet(t)
  PROVE  Occurrences(x, InsertAt(t, p, x)) <= 1
<1> DEFINE s == InsertAt(t, p, x)
<1>0. Len(t) \in Nat /\ p \in Nat /\ p >= 1 /\ \A i \in 1 .. Len(t) : t[i] # x
  BY InLines
<1>1. /\ s \in Lines /\ DOMAIN s = 1 .. Len(t) + 1
      /\ \A i \in 1 .. Len(t) + 1 :
           s[i] = IF i < p THEN t[i] ELSE IF i = p THEN x ELSE t[i - 1]
  BY InsertShape, InLines
<1> HIDE DEF s
<1>2. Where(x, s) \in SUBSET {p}
  BY <1>0, <1>1 DEF Where
<1>3. IsFiniteSet({p}) /\ Cardinality({p}) = 1
  BY FS_Singleton
<1>4. Cardinality(Where(x, s)) <= 1
  BY <1>2, <1>3, FS_Subset
<1>5. Occurrences(x, s) <= 1
  BY <1>1, <1>4, WhereFinite
<1> QED
  BY <1>5 DEF s

LEMMA FewerRemoved ==
  ASSUME NEW t \in Lines, NEW p \in 1 .. Len(t), NEW l
  PROVE  Occurrences(l, RemoveAt(t, p)) <= Occurrences(l, t)
<1> DEFINE s == RemoveAt(t, p)
<1>0. Len(t) \in Nat /\ p \in Nat /\ p >= 1 /\ DOMAIN t = 1 .. Len(t)
  BY InLines
<1>1. /\ s \in Lines /\ DOMAIN s = 1 .. Len(t) - 1
      /\ \A i \in 1 .. Len(t) - 1 : s[i] = IF i < p THEN t[i] ELSE t[i + 1]
  BY RemoveShape, InLines
<1> HIDE DEF s
<1> DEFINE f == [i \in Where(l, s) |-> IF i < p THEN i ELSE i + 1]
<1>2. \A i \in Where(l, s) : /\ i \in Nat
                             /\ i < p => i \in Where(l, t)
                             /\ ~(i < p) => i + 1 \in Where(l, t)
  BY <1>0, <1>1 DEF Where
<1>3. f \in [Where(l, s) -> Where(l, t)]
  BY <1>2
<1>4. \A i, j \in Where(l, s) : f[i] = f[j] => i = j
  BY <1>0, <1>2
<1>5. Occurrences(l, s) <= Occurrences(l, t)
  BY <1>1, <1>3, <1>4, FewerBy
<1> QED
  BY <1>5 DEF s

LEMMA FewerInPrefix ==
  ASSUME NEW t \in Lines, NEW u \in Prefixes(t), NEW l
  PROVE  Occurrences(l, u) <= Occurrences(l, t)
<1>1. u \in Lines /\ Len(u) <= Len(t) /\ \A i \in 1 .. Len(u) : u[i] = t[i]
  BY PrefixShape
<1>2. Where(l, u) \in SUBSET Where(l, t)
  BY <1>1, InLines DEF Where
<1> QED
  BY <1>1, <1>2, WhereFinite, FS_Subset

-----------------------------------------------------------------------------
(* Positions.                                                               *)

LEMMA AnchorShape ==
  ASSUME NEW place \in Placement, NEW t \in Lines, Anchored(place), Resolved(place, t)
  PROVE  Anchor(place, t) \in 1 .. Len(t) /\ Anchors(place, t) = {Anchor(place, t)}
<1>1. \E i \in DOMAIN t : Anchors(place, t) = {i}
  BY DEF Resolved
<1>2. Anchors(place, t) = {Anchor(place, t)}
  BY <1>1 DEF Anchor
<1> QED
  BY <1>1, <1>2, InLines DEF Anchors

\* The line of `t` that is about anchors, position by position.
LEMMA AnchorsOf ==
  ASSUME NEW place, NEW t \in Lines
  PROVE  \A i : i \in Anchors(place, t) <=> i \in 1 .. Len(t) /\ t[i] \in place.matches
BY InLines DEF Anchors

LEMMA PlacementCases ==
  ASSUME NEW place \in Placement
  PROVE  /\ place.at \in {"start", "end", "after", "before"}
         /\ place.at \in {"after", "before"} <=> Anchored(place)
BY DEF Placement, Anchored

LEMMA IndexShape ==
  ASSUME NEW place \in Placement, NEW t \in Lines, Resolved(place, t)
  PROVE  InsertionIndex(place, t) \in 1 .. Len(t) + 1
<1>1. CASE place.at = "start"
  BY <1>1, InLines DEF InsertionIndex
<1>2. CASE place.at = "end"
  BY <1>2, InLines DEF InsertionIndex
<1>3. CASE place.at = "after"
  BY <1>3, InLines, AnchorShape DEF InsertionIndex, Anchored
<1>4. CASE place.at = "before"
  BY <1>4, InLines, AnchorShape DEF InsertionIndex, Anchored
<1> QED
  BY <1>1, <1>2, <1>3, <1>4, PlacementCases

\* t is t0 with the line where its placement wants it.
Inserted(place, line, t, t0) ==
  /\ t0 \in Lines
  /\ Resolved(place, t0)
  /\ t = InsertAt(t0, InsertionIndex(place, t0), line)

LEMMA InsertedShape ==
  ASSUME NEW place \in Placement, NEW line \in Line, NEW t, NEW t0,
         Inserted(place, line, t, t0), NEW p, p = InsertionIndex(place, t0)
  PROVE  /\ p \in 1 .. Len(t0) + 1 /\ p \in Nat /\ Len(t0) \in Nat
         /\ t \in Lines /\ Len(t) = Len(t0) + 1
         /\ \A i \in 1 .. Len(t0) + 1 :
              t[i] = IF i < p THEN t0[i] ELSE IF i = p THEN line ELSE t0[i - 1]
BY IndexShape, InsertShape, InLines DEF Inserted

\* The rollback finds no other line than the one that was inserted.
LEMMA FoundIsInserted ==
  ASSUME NEW place \in Placement, NEW line \in Line, NEW t, NEW t0,
         Inserted(place, line, t, t0), NEW i \in PlacementLine(place, line, t)
  PROVE  RemoveAt(t, i) = t0
<1> DEFINE p == InsertionIndex(place, t0)
<1>1. /\ p \in 1 .. Len(t0) + 1 /\ p \in Nat /\ Len(t0) \in Nat
      /\ t \in Lines /\ Len(t) = Len(t0) + 1
      /\ \A j \in 1 .. Len(t0) + 1 :
           t[j] = IF j < p THEN t0[j] ELSE IF j = p THEN line ELSE t0[j - 1]
  BY InsertedShape
<1>2. t0 \in Lines /\ i \in 1 .. Len(t) /\ Resolved(place, t0)
  BY <1>1, InLines DEF Inserted, PlacementLine
<1>3. i = p
  <2>1. CASE place.at = "start"
    BY <2>1 DEF PlacementLine, InsertionIndex
  <2>2. CASE place.at = "end"
    BY <1>1, <2>2 DEF PlacementLine, InsertionIndex
  <2>3. CASE place.at = "after"
    <3> DEFINE a == Anchor(place, t0)
    <3>1. p = a + 1 /\ a \in 1 .. Len(t0) /\ a \in Anchors(place, t0)
      BY <1>2, <2>3, AnchorShape DEF InsertionIndex, Anchored
    <3>2. i > 1 /\ Anchors(place, t) = {i - 1}
      BY <2>3 DEF PlacementLine
    <3> HIDE DEF a, p
    <3>3. a \in 1 .. Len(t) /\ t[a] = t0[a]
      BY <1>1, <3>1
    <3>4. a \in Anchors(place, t)
      BY <1>1, <1>2, <3>1, <3>3, AnchorsOf
    <3> QED
      BY <1>1, <1>2, <3>1, <3>2, <3>4
  <2>4. CASE place.at = "before"
    <3> DEFINE a == Anchor(place, t0)
    <3>1. p = a /\ a \in 1 .. Len(t0) /\ a \in Anchors(place, t0)
      BY <1>2, <2>4, AnchorShape DEF InsertionIndex, Anchored
    <3>2. Anchors(place, t) = {i + 1}
      BY <2>4 DEF PlacementLine
    <3> HIDE DEF a, p
    <3>3. a + 1 \in 1 .. Len(t) /\ t[a + 1] = t0[a]
      BY <1>1, <3>1
    <3>4. a + 1 \in Anchors(place, t)
      BY <1>1, <1>2, <3>1, <3>3, AnchorsOf
    <3> QED
      BY <1>1, <1>2, <3>1, <3>2, <3>4
  <2> QED
    BY <2>1, <2>2, <2>3, <2>4, PlacementCases
<1>4. RemoveAt(InsertAt(t0, p, line), p) = t0
  BY <1>1, <1>2, RemoveInserted
<1> QED
  BY <1>3, <1>4 DEF Inserted

\* Unless its anchor matches it, a line is found where it has been inserted.
LEMMA InsertedFound ==
  ASSUME NEW place \in Placement, NEW line \in Line, NEW t, NEW t0,
         Inserted(place, line, t, t0), line \notin place.matches
  PROVE  Resolved(place, t) /\ ExpectedPresent(place, line, t)
<1> DEFINE p == InsertionIndex(place, t0)
           a == Anchor(place, t0)
<1>1. /\ p \in 1 .. Len(t0) + 1 /\ p \in Nat /\ Len(t0) \in Nat
      /\ t \in Lines /\ Len(t) = Len(t0) + 1
      /\ \A j \in 1 .. Len(t0) + 1 :
           t[j] = IF j < p THEN t0[j] ELSE IF j = p THEN line ELSE t0[j - 1]
  BY InsertedShape
<1>2. t0 \in Lines /\ Resolved(place, t0) /\ DOMAIN t = 1 .. Len(t)
  BY <1>1, InLines DEF Inserted
<1>3. CASE place.at = "start"
  <2>1. p = 1
    BY <1>3 DEF InsertionIndex
  <2> QED
    BY <1>1, <1>3, <2>1 DEF Resolved, Anchored, ExpectedPresent
<1>4. CASE place.at = "end"
  <2>1. p = Len(t0) + 1
    BY <1>4 DEF InsertionIndex
  <2> QED
    BY <1>1, <1>4, <2>1 DEF Resolved, Anchored, ExpectedPresent
<1>5. CASE place.at = "after"
  <2>1. p = a + 1 /\ a \in 1 .. Len(t0) /\ Anchors(place, t0) = {a}
    BY <1>2, <1>5, AnchorShape DEF InsertionIndex, Anchored
  <2> HIDE DEF a, p
  <2>2. Anchors(place, t) = {a}
    <3>1. a \in Anchors(place, t)
      <4>1. a \in 1 .. Len(t) /\ t[a] = t0[a] /\ t0[a] \in place.matches
        BY <1>1, <1>2, <2>1, AnchorsOf
      <4> QED
        BY <1>1, <4>1, AnchorsOf
    <3>2. ASSUME NEW j \in Anchors(place, t) PROVE j = a
      <4>1. j \in 1 .. Len(t) /\ t[j] \in place.matches
        BY <1>1, <3>2, AnchorsOf
      <4>2. CASE j < p
        <5>1. j \in 1 .. Len(t0) /\ t0[j] \in place.matches
          BY <1>1, <4>1, <4>2
        <5> QED
          BY <1>2, <2>1, <5>1, AnchorsOf
      <4>3. CASE j > p
        <5>1. j - 1 \in 1 .. Len(t0) /\ t0[j - 1] \in place.matches
          BY <1>1, <4>1, <4>3
        <5>2. j - 1 = a
          BY <1>2, <2>1, <5>1, AnchorsOf
        <5> QED
          BY <1>1, <2>1, <4>1, <4>3, <5>2
      <4> QED
        BY <1>1, <4>1, <4>2, <4>3
    <3> QED
      BY <3>1, <3>2
  <2>3. Resolved(place, t) /\ Anchor(place, t) = a
    <3>0. a \in DOMAIN t
      BY <2>2 DEF Anchors
    <3>1. Resolved(place, t)
      BY <2>2, <3>0 DEF Resolved
    <3>2. Anchors(place, t) = {Anchor(place, t)}
      BY <1>1, <3>1, AnchorShape, <1>5 DEF Anchored
    <3> QED
      BY <2>2, <3>1, <3>2
  <2>4. a < Len(t) /\ t[a + 1] = line
    BY <1>1, <2>1
  <2> QED
    BY <1>5, <2>3, <2>4 DEF ExpectedPresent
<1>6. CASE place.at = "before"
  <2>1. p = a /\ a \in 1 .. Len(t0) /\ Anchors(place, t0) = {a}
    BY <1>2, <1>6, AnchorShape DEF InsertionIndex, Anchored
  <2> HIDE DEF a, p
  <2>2. Anchors(place, t) = {a + 1}
    <3>1. a + 1 \in Anchors(place, t)
      <4>1. a + 1 \in 1 .. Len(t) /\ t[a + 1] = t0[a] /\ t0[a] \in place.matches
        BY <1>1, <1>2, <2>1, AnchorsOf
      <4> QED
        BY <1>1, <4>1, AnchorsOf
    <3>2. ASSUME NEW j \in Anchors(place, t) PROVE j = a + 1
      <4>1. j \in 1 .. Len(t) /\ t[j] \in place.matches
        BY <1>1, <3>2, AnchorsOf
      <4>2. CASE j < p
        <5>1. j \in 1 .. Len(t0) /\ t0[j] \in place.matches
          BY <1>1, <4>1, <4>2
        <5>2. j = a
          BY <1>2, <2>1, <5>1, AnchorsOf
        <5> QED
          BY <1>1, <2>1, <4>1, <4>2, <5>2
      <4>3. CASE j > p
        <5>1. j - 1 \in 1 .. Len(t0) /\ t0[j - 1] \in place.matches
          BY <1>1, <4>1, <4>3
        <5>2. j - 1 = a
          BY <1>2, <2>1, <5>1, AnchorsOf
        <5> QED
          BY <1>1, <2>1, <4>1, <5>2
      <4> QED
        BY <1>1, <4>1, <4>2, <4>3
    <3> QED
      BY <3>1, <3>2
  <2>3. Resolved(place, t) /\ Anchor(place, t) = a + 1
    <3>1. Resolved(place, t)
      <4>1. a + 1 \in DOMAIN t
        BY <1>1, <1>2, <2>1
      <4> QED
        BY <2>2, <4>1 DEF Resolved
    <3>2. Anchors(place, t) = {Anchor(place, t)}
      BY <1>1, <3>1, AnchorShape, <1>6 DEF Anchored
    <3> QED
      BY <2>2, <3>1, <3>2
  <2>4. a + 1 > 1 /\ t[(a + 1) - 1] = line
    BY <1>1, <2>1
  <2> QED
    BY <1>6, <2>3, <2>4 DEF ExpectedPresent
<1> QED
  BY <1>3, <1>4, <1>5, <1>6, PlacementCases

\* assess_state and the rollback look at the same position.
LEMMA SamePosition ==
  ASSUME NEW place \in Placement, NEW line \in Line, NEW t \in Lines, Resolved(place, t)
  PROVE  /\ ExpectedPresent(place, line, t) <=> PlacementLine(place, line, t) # {}
         /\ ExpectedPresent(place, line, t) => line \in ToSet(t)
<1>0. Len(t) \in Nat /\ DOMAIN t = 1 .. Len(t)
  BY InLines
<1>1. ExpectedPresent(place, line, t) <=> PlacementLine(place, line, t) # {}
  <2>1. CASE place.at = "start"
    BY <1>0, <2>1 DEF ExpectedPresent, PlacementLine
  <2>2. CASE place.at = "end"
    BY <1>0, <2>2 DEF ExpectedPresent, PlacementLine
  <2>3. CASE place.at = "after"
    <3> DEFINE a == Anchor(place, t)
    <3>1. a \in 1 .. Len(t) /\ Anchors(place, t) = {a}
      BY <2>3, AnchorShape DEF Anchored
    <3>2. ExpectedPresent(place, line, t) <=> a < Len(t) /\ t[a + 1] = line
      BY <2>3 DEF ExpectedPresent
    <3> HIDE DEF a
    <3>3. \A i : i \in PlacementLine(place, line, t) <=>
                 i \in 1 .. Len(t) /\ t[i] = line /\ i > 1 /\ a = i - 1
      BY <1>0, <2>3, <3>1 DEF PlacementLine
    <3>4. PlacementLine(place, line, t) # {} => a < Len(t) /\ t[a + 1] = line
      BY <1>0, <3>1, <3>3
    <3>5. a < Len(t) /\ t[a + 1] = line => a + 1 \in PlacementLine(place, line, t)
      BY <1>0, <3>1, <3>3
    <3> QED
      BY <3>2, <3>4, <3>5
  <2>4. CASE place.at = "before"
    <3> DEFINE a == Anchor(place, t)
    <3>1. a \in 1 .. Len(t) /\ Anchors(place, t) = {a}
      BY <2>4, AnchorShape DEF Anchored
    <3>2. ExpectedPresent(place, line, t) <=> a > 1 /\ t[a - 1] = line
      BY <2>4 DEF ExpectedPresent
    <3> HIDE DEF a
    <3>3. \A i : i \in PlacementLine(place, line, t) <=>
                 i \in 1 .. Len(t) /\ t[i] = line /\ a = i + 1
      BY <1>0, <2>4, <3>1 DEF PlacementLine
    <3>4. PlacementLine(place, line, t) # {} => a > 1 /\ t[a - 1] = line
      BY <1>0, <3>1, <3>3
    <3>5. a > 1 /\ t[a - 1] = line => a - 1 \in PlacementLine(place, line, t)
      BY <1>0, <3>1, <3>3
    <3> QED
      BY <3>2, <3>4, <3>5
  <2> QED
    BY <2>1, <2>2, <2>3, <2>4, PlacementCases
<1>2. PlacementLine(place, line, t) # {} => line \in ToSet(t)
  BY <1>0, InLines DEF PlacementLine
<1> QED
  BY <1>1, <1>2

-----------------------------------------------------------------------------
(* The invariant.                                                           *)

LineOf(n) == params[n].line

Phases   == {"assess", "transition", "open", "flush", "verify", "rollback", "done"}
Outcomes == {"NONE", "SUCCESS", "SKIPPED_ALREADY_APPLIED", "SKIPPED_BY_TRANSITION",
             "FAILED_INVALID", "FAILED_TRANSITION"}
Present  == {"SUCCESS", "SKIPPED_ALREADY_APPLIED"}

Damaged == \E n \in Node : "FAILURE" \in {result[n], undo[n]}

\* The lines that have to be in the file.
Needed ==
  IF "write" \in faults THEN {} ELSE {LineOf(n) : n \in {m \in Node : outcome[m] \in Present}}

Once(t, o) == \A l \in Line : Occurrences(l, t) <= 1 \/ Occurrences(l, t) <= Occurrences(l, o)

\* t is what the file may hold when no node is writing it.
Keep(t) ==
  /\ t \in Lines
  /\ Damaged \/ Within(original, t)
  /\ Needed \subseteq ToSet(t)
  /\ Once(t, original)

\* A node is assessed after the nodes before it have proceeded, so that one
\* node at a time works on the file.
OrderInv ==
  \A n \in Node : /\ phase[n] # "assess" => Released(n)
                  /\ outcome[n] # "NONE" <=> phase[n] = "done"

LifeOf(n) ==
  /\ phase[n] \in {"assess", "transition"} => result[n] = "NONE"
  /\ phase[n] \in {"open", "flush"} => result[n] \in {"NONE", "FAILURE", "MISMATCH"}
  /\ phase[n] = "verify" => result[n] = "SUCCESS"
  /\ phase[n] = "rollback" => result[n] \in {"FAILURE", "MISMATCH"}
  /\ phase[n] # "done" => undo[n] = "NONE"
  /\ outcome[n] = "FAILED_TRANSITION" => result[n] \in {"FAILURE", "MISMATCH"}

FaultFree(n) ==
  faults = {} => /\ result[n] # "FAILURE"
                 /\ result[n] = "MISMATCH" => LineOf(n) \in Place(n).matches

\* What a node knows of the file, and how it is to leave it.
WorkOf(n) ==
  /\ phase[n] = "transition" => Resolved(Place(n), text) /\ LineOf(n) \notin ToSet(text)
  /\ phase[n] \in {"open", "flush"} => Keep(buffer[n])
  /\ phase[n] \in {"open", "flush"} /\ result[n] = "NONE" =>
       \E t \in Lines : Keep(t) /\ Inserted(Place(n), LineOf(n), buffer[n], t)
  /\ phase[n] = "verify" \/ (phase[n] = "rollback" /\ result[n] = "MISMATCH") =>
       \E t \in Lines : Keep(t) /\ Inserted(Place(n), LineOf(n), text, t)
  /\ phase[n] = "rollback" /\ result[n] = "FAILURE" /\ "write" \notin faults =>
       LineOf(n) \notin ToSet(text)

TextInv ==
  /\ Once(text, original)
  /\ (\A n \in Node : phase[n] # "flush") => Keep(text)

IInv ==
  /\ TypeOK /\ original \in Lines
  /\ OrderInv /\ TextInv
  /\ \A n \in Node : LifeOf(n) /\ FaultFree(n) /\ WorkOf(n)

LEMMA Types ==
  ASSUME IInv
  PROVE  /\ faults \subseteq {"read", "write"}
         /\ text \in Lines /\ original \in Lines
         /\ phase \in [Node -> Phases] /\ outcome \in [Node -> Outcomes]
         /\ result \in [Node -> Status \cup {"NONE", "MISMATCH"}]
         /\ undo \in [Node -> Status \cup {"NONE"}]
         /\ buffer \in [Node -> Lines]
         /\ \A n \in Node : Place(n) \in Placement /\ LineOf(n) \in Line
BY ParamsAssumption
DEF IInv, TypeOK, LifeTypeOK, Lines, Phases, Outcomes, Place, LineOf

LEMMA EmptyFile == << >> \in Lines /\ \A o : Once(<< >>, o)
<1>1. << >> \in Lines /\ \A l : Where(l, << >>) = {}
  BY DEF Lines, Where
<1>2. \A l : Occurrences(l, << >>) = 0
  BY <1>1, WhereFinite, FS_EmptySet
<1> QED
  BY <1>1, <1>2 DEF Once

LEMMA OnceItself ==
  ASSUME NEW t \in Lines
  PROVE  Once(t, t)
BY WhereFinite DEF Once

LEMMA InitIInv == Init => IInv
<1> SUFFICES ASSUME Init PROVE IInv
  OBVIOUS
<1>1. /\ faults \in SUBSET {"read", "write"} /\ params \in [Node -> Params]
      /\ text \in Lines /\ original = text /\ buffer = [n \in Node |-> << >>]
      /\ phase = [n \in Node |-> "assess"] /\ outcome = [n \in Node |-> "NONE"]
      /\ result = [n \in Node |-> "NONE"] /\ undo = [n \in Node |-> "NONE"]
  BY FilesAssumption DEF Init, LifeInit, Lines
<1>2. TypeOK
  <2>1. buffer \in [Node -> Seq(Line)]
    BY <1>1
  <2> QED
    BY <1>1, <2>1 DEF TypeOK, LifeTypeOK, Lines
<1>3. OrderInv
  BY <1>1 DEF OrderInv
<1>4. \A n \in Node : LifeOf(n) /\ FaultFree(n) /\ WorkOf(n)
  BY <1>1 DEF LifeOf, FaultFree, WorkOf
<1>5. TextInv
  <2>1. Needed = {}
    BY <1>1 DEF Needed, Present
  <2> QED
    BY <1>1, <2>1, WithinItself, OnceItself DEF TextInv, Keep
<1> QED
  BY <1>1, <1>2, <1>3, <1>4, <1>5 DEF IInv

-----------------------------------------------------------------------------
(* What a step of one node leaves alone.                                    *)

\* Node n is the one that works.
Works(n) == phase[n] # "done" /\ Released(n)

LEMMA OthersIdle ==
  ASSUME IInv, NEW n \in Node, Works(n), NEW m \in Node, m # n
  PROVE  /\ phase[m] \in {"assess", "done"}
         /\ phase[m] = "done" => m < n
<1>1. m \in Nat /\ n \in Nat /\ phase[m] \in Phases /\ phase[n] # "done"
  BY NodeAssumption, Types DEF Works
<1>2. /\ phase[m] # "assess" => Released(m)
      /\ outcome[m] # "NONE" <=> phase[m] = "done"
      /\ outcome[n] # "NONE" <=> phase[n] = "done"
  BY DEF IInv, OrderInv
<1>3. CASE m < n
  BY <1>2, <1>3 DEF Works, Released
<1>4. CASE n < m
  BY <1>1, <1>2, <1>4 DEF Released
<1> QED
  BY <1>1, <1>3, <1>4

LEMMA NobodyWrites ==
  ASSUME IInv, NEW n \in Node, Works(n), phase[n] # "flush"
  PROVE  Keep(text)
BY OthersIdle DEF IInv, TextInv

LEMMA KeepNext ==
  ASSUME NEW t, Keep(t), original' = original, Damaged => Damaged',
         Needed' \subseteq Needed \cup ToSet(t)
  PROVE  Keep(t)'
BY DEF Keep

\* Only node n has changed.
StepOf(n) ==
  /\ UNCHANGED <<faults, params, original>>
  /\ phase' \in [Node -> Phases] /\ outcome' \in [Node -> Outcomes]
  /\ result' \in [Node -> Status \cup {"NONE", "MISMATCH"}]
  /\ undo' \in [Node -> Status \cup {"NONE"}]
  /\ buffer' \in [Node -> Lines] /\ text' \in Lines
  /\ \A m \in Node \ {n} : /\ phase'[m] = phase[m] /\ outcome'[m] = outcome[m]
                           /\ result'[m] = result[m] /\ undo'[m] = undo[m]
  /\ outcome'[n] # "NONE" <=> phase'[n] = "done"
  /\ result[n] = "FAILURE" => result'[n] = "FAILURE"

LEMMA DamageStays ==
  ASSUME IInv, NEW n \in Node, Works(n), StepOf(n)
  PROVE  Damaged => Damaged'
<1>1. undo[n] # "FAILURE"
  BY DEF IInv, LifeOf, Works
<1> QED
  BY <1>1 DEF StepOf, Damaged

LEMMA NeededNext ==
  ASSUME IInv, NEW n \in Node, StepOf(n)
  PROVE  /\ outcome'[n] \notin Present => Needed' \subseteq Needed
         /\ Needed' \subseteq Needed \cup {LineOf(n)}
         /\ "write" \in faults => Needed' = {}
BY DEF StepOf, Needed, LineOf

LEMMA StepIInv ==
  ASSUME IInv, NEW n \in Node, Works(n), StepOf(n),
         (LifeOf(n) /\ FaultFree(n) /\ WorkOf(n))', TextInv'
  PROVE  IInv'
<1>1. TypeOK' /\ (original \in Lines)'
  <2>1. params' \in [Node -> Params]
    BY DEF IInv, TypeOK, StepOf
  <2> QED
    BY <2>1, Types DEF StepOf, TypeOK, LifeTypeOK, Lines, Phases, Outcomes
<1>2. ASSUME NEW m \in Node, m # n
      PROVE  /\ (phase[m] # "assess" => Released(m))'
             /\ (outcome[m] # "NONE" <=> phase[m] = "done")'
  <2>1. (outcome[m] # "NONE" <=> phase[m] = "done")'
    BY <1>2 DEF StepOf, IInv, OrderInv
  <2>2. SUFFICES ASSUME phase'[m] # "assess", NEW k \in Node, k < m
                 PROVE  outcome'[k] = outcome[k]
    <3>1. phase'[m] # "assess" => Released(m)
      BY <1>2 DEF StepOf, IInv, OrderInv
    <3> QED
      BY <2>1, <2>2, <3>1 DEF Released
  <2>3. m < n
    BY <1>2, <2>2, OthersIdle DEF StepOf
  <2>4. k # n
    BY <2>2, <2>3, NodeAssumption
  <2> QED
    BY <2>4 DEF StepOf
<1>3. OrderInv'
  <2>1. (phase[n] # "assess" => Released(n))'
    <3>1. \A k \in Node : k < n => outcome'[k] = outcome[k]
      BY NodeAssumption DEF StepOf
    <3> QED
      BY <3>1 DEF Works, Released
  <2> QED
    BY <1>2, <2>1 DEF OrderInv, StepOf
<1>4. ASSUME NEW m \in Node, m # n
      PROVE  (LifeOf(m) /\ FaultFree(m) /\ WorkOf(m))'
  <2>1. /\ phase'[m] = phase[m] /\ outcome'[m] = outcome[m] /\ result'[m] = result[m]
        /\ undo'[m] = undo[m] /\ params' = params /\ faults' = faults
        /\ phase[m] \in {"assess", "done"} /\ LifeOf(m) /\ FaultFree(m)
    BY <1>4, OthersIdle DEF StepOf, IInv
  <2> QED
    BY <2>1 DEF LifeOf, FaultFree, WorkOf, LineOf, Place
<1> QED
  BY <1>1, <1>3, <1>4 DEF IInv

-----------------------------------------------------------------------------
(* The steps.                                                               *)

LEMMA WorksIn ==
  ASSUME IInv, NEW n \in Node, phase[n] \notin {"assess", "done"}
  PROVE  Works(n)
BY DEF IInv, OrderInv, Works

\* What is known of the node that works.
LEMMA OfNode ==
  ASSUME IInv, NEW n \in Node
  PROVE  /\ LifeOf(n) /\ FaultFree(n) /\ WorkOf(n)
         /\ outcome[n] # "NONE" <=> phase[n] = "done"
         /\ Place(n) \in Placement /\ LineOf(n) \in Line /\ LineOf(n) = params[n].line
BY Types DEF IInv, OrderInv, LineOf

\* The engine's moves, as what they make of the node.
LEMMA Reports ==
  ASSUME IInv, NEW n \in Node
  PROVE  /\ \A p \in Phases : Goto(n, p) =>
              /\ phase' \in [Node -> Phases] /\ phase'[n] = p
              /\ \A m \in Node \ {n} : phase'[m] = phase[m]
         /\ \A o \in Outcomes : Report(n, o) =>
              /\ phase' \in [Node -> Phases] /\ phase'[n] = "done"
              /\ outcome' \in [Node -> Outcomes] /\ outcome'[n] = o
              /\ \A m \in Node \ {n} : phase'[m] = phase[m] /\ outcome'[m] = outcome[m]
BY Types DEF Goto, Report, Phases

LEMMA ReturnsStep ==
  ASSUME IInv, NEW n \in Node, phase[n] \notin {"assess", "done"},
         NEW s \in {"SUCCESS", "FAILURE"}, Returns(n, s), result[n] # "FAILURE",
         UNCHANGED <<faults, params, original>>, text' \in Lines, buffer' \in [Node -> Lines]
  PROVE  /\ StepOf(n) /\ result'[n] = s /\ UNCHANGED <<outcome, undo>>
         /\ s = "SUCCESS" => phase'[n] = "verify"
         /\ s = "FAILURE" => phase'[n] = "rollback"
<1>1. /\ result' = [result EXCEPT ![n] = s] /\ UNCHANGED <<outcome, undo>>
      /\ \/ s = "SUCCESS" /\ Goto(n, "verify")
         \/ s = "FAILURE" /\ Goto(n, "rollback")
  BY DEF Returns, Failed
<1>2. /\ phase' \in [Node -> Phases] /\ \A m \in Node \ {n} : phase'[m] = phase[m]
      /\ s = "SUCCESS" => phase'[n] = "verify"
      /\ s = "FAILURE" => phase'[n] = "rollback"
  BY <1>1, Reports DEF Phases
<1>3. outcome[n] = "NONE"
  BY OfNode
<1> QED
  BY <1>1, <1>2, <1>3, Types DEF StepOf, Status

LEMMA UndoneStep ==
  ASSUME IInv, NEW n \in Node, NEW s \in Status, Undone(n, s),
         UNCHANGED <<faults, params, original>>, text' \in Lines, buffer' \in [Node -> Lines]
  PROVE  /\ StepOf(n) /\ undo'[n] = s /\ UNCHANGED result
         /\ phase'[n] = "done" /\ outcome'[n] = "FAILED_TRANSITION"
<1>1. /\ undo' = [undo EXCEPT ![n] = s] /\ UNCHANGED result
      /\ Report(n, "FAILED_TRANSITION")
  BY DEF Undone
<1>2. /\ phase' \in [Node -> Phases] /\ phase'[n] = "done"
      /\ outcome' \in [Node -> Outcomes] /\ outcome'[n] = "FAILED_TRANSITION"
      /\ \A m \in Node \ {n} : phase'[m] = phase[m] /\ outcome'[m] = outcome[m]
  BY <1>1, Reports DEF Outcomes
<1> QED
  BY <1>1, <1>2, Types DEF StepOf, Status

\* assess_state, the first and the second
LEMMA VerdictShape ==
  ASSUME IInv, NEW n \in Node
  PROVE  /\ Verdict(n) = "READY" => Resolved(Place(n), text) /\ LineOf(n) \notin ToSet(text)
         /\ Verdict(n) = "ALREADY_APPLIED" => LineOf(n) \in ToSet(text)
         /\ Resolved(Place(n), text) /\ ExpectedPresent(Place(n), LineOf(n), text) =>
              Verdict(n) = "ALREADY_APPLIED"
<1>1. Resolved(Place(n), text) /\ ExpectedPresent(Place(n), LineOf(n), text) =>
        LineOf(n) \in ToSet(text)
  BY SamePosition, Types
<1> QED
  BY <1>1 DEF Verdict, LineOf

LEMMA AssessStateIInv ==
  ASSUME IInv, NEW n \in Node, AssessState(n)
  PROVE  IInv'
<1>1. PICK state \in {Verdict(n)} \cup {s \in {"INVALID"} : "read" \in faults} :
        Assess(n, state) \/ Verify(n, state)
  BY DEF AssessState
<1>2. /\ UNCHANGED <<faults, params, text, original, buffer, undo>>
      /\ phase[n] \in {"assess", "verify"} /\ Works(n)
  BY <1>1 DEF AssessState, setVars, fileVars, Assess, Verify, Works
<1>3. Keep(text)
  BY <1>2, NobodyWrites
<1>4. state = "READY" => Resolved(Place(n), text) /\ LineOf(n) \notin ToSet(text)
  BY <1>1, VerdictShape
<1>5. state = "ALREADY_APPLIED" => LineOf(n) \in ToSet(text)
  BY <1>1, VerdictShape
<1>6. CASE Assess(n, state) /\ state = "READY"
  <2>1. /\ phase'[n] = "transition" /\ UNCHANGED <<outcome, result>> /\ StepOf(n)
        /\ result[n] = "NONE" /\ undo[n] = "NONE" /\ outcome[n] = "NONE"
    <3>1. Goto(n, "transition") /\ UNCHANGED <<outcome, result, undo>> /\ phase[n] = "assess"
      BY <1>6 DEF Assess
    <3>2. result[n] = "NONE" /\ undo[n] = "NONE" /\ outcome[n] = "NONE"
      BY <3>1, OfNode DEF LifeOf
    <3> QED
      BY <1>2, <3>1, <3>2, Reports, Types DEF StepOf, Phases
  <2>2. Keep(text)'
    BY <1>2, <1>3, <2>1, DamageStays, NeededNext, KeepNext DEF Keep, Present
  <2>3. TextInv'
    BY <2>2 DEF TextInv, Keep
  <2>4. (LifeOf(n) /\ FaultFree(n) /\ WorkOf(n))'
    BY <1>2, <1>4, <1>6, <2>1 DEF LifeOf, FaultFree, WorkOf, LineOf, Place
  <2> QED
    BY <1>2, <2>1, <2>3, <2>4, StepIInv
<1>7. CASE Assess(n, state) /\ state \in {"ALREADY_APPLIED", "INVALID"}
  <2>1. /\ phase'[n] = "done" /\ UNCHANGED result /\ StepOf(n)
        /\ result[n] = "NONE" /\ outcome'[n] # "FAILED_TRANSITION"
        /\ outcome'[n] \in Present => state = "ALREADY_APPLIED"
    <3>1. /\ UNCHANGED <<result, undo>> /\ phase[n] = "assess"
          /\ \/ state = "ALREADY_APPLIED" /\ Report(n, "SKIPPED_ALREADY_APPLIED")
             \/ state = "INVALID" /\ Report(n, "FAILED_INVALID")
      BY <1>7 DEF Assess
    <3>2. result[n] = "NONE"
      BY <3>1, OfNode DEF LifeOf
    <3> QED
      BY <1>2, <3>1, <3>2, Reports, Types DEF StepOf, Outcomes, Present
  <2>2. Keep(text)'
    <3>1. Needed' \subseteq Needed \cup ToSet(text)
      BY <1>5, <2>1, NeededNext
    <3> QED
      BY <1>2, <1>3, <2>1, <3>1, DamageStays, KeepNext DEF Keep
  <2>3. TextInv'
    BY <2>2 DEF TextInv, Keep
  <2>4. (LifeOf(n) /\ FaultFree(n) /\ WorkOf(n))'
    BY <2>1 DEF LifeOf, FaultFree, WorkOf
  <2> QED
    BY <1>2, <2>1, <2>3, <2>4, StepIInv
<1>8. CASE Verify(n, state) /\ state = "ALREADY_APPLIED"
  <2>1. /\ phase'[n] = "done" /\ UNCHANGED result /\ StepOf(n)
        /\ result[n] = "SUCCESS" /\ outcome'[n] # "FAILED_TRANSITION"
    <3>1. UNCHANGED <<result, undo>> /\ phase[n] = "verify" /\ Report(n, "SUCCESS")
      BY <1>8 DEF Verify
    <3>2. result[n] = "SUCCESS"
      BY <3>1, OfNode DEF LifeOf
    <3> QED
      BY <1>2, <3>1, <3>2, Reports, Types DEF StepOf, Outcomes
  <2>2. Keep(text)'
    <3>1. Needed' \subseteq Needed \cup ToSet(text)
      BY <1>5, <1>8, <2>1, NeededNext
    <3> QED
      BY <1>2, <1>3, <2>1, <3>1, DamageStays, KeepNext DEF Keep
  <2>3. TextInv'
    BY <2>2 DEF TextInv, Keep
  <2>4. (LifeOf(n) /\ FaultFree(n) /\ WorkOf(n))'
    BY <2>1 DEF LifeOf, FaultFree, WorkOf
  <2> QED
    BY <1>2, <2>1, <2>3, <2>4, StepIInv
<1>9. CASE Verify(n, state) /\ state # "ALREADY_APPLIED"
  <2>1. /\ phase'[n] = "rollback" /\ UNCHANGED outcome /\ StepOf(n)
        /\ result'[n] = "MISMATCH" /\ undo'[n] = "NONE" /\ outcome'[n] = "NONE"
        /\ phase[n] = "verify"
    <3>1. /\ result' = [result EXCEPT ![n] = "MISMATCH"] /\ Goto(n, "rollback")
          /\ UNCHANGED <<outcome, undo>> /\ phase[n] = "verify"
      BY <1>9 DEF Verify, Failed
    <3>2. result[n] = "SUCCESS" /\ undo[n] = "NONE" /\ outcome[n] = "NONE"
      BY <3>1, OfNode DEF LifeOf
    <3> QED
      BY <1>2, <3>1, <3>2, Reports, Types DEF StepOf, Phases
  <2>2. PICK t \in Lines : Keep(t) /\ Inserted(Place(n), LineOf(n), text, t)
    BY <2>1, OfNode DEF WorkOf
  <2>3. \A u : Keep(u) => Keep(u)'
    BY <1>2, <2>1, DamageStays, NeededNext, KeepNext DEF Present, StepOf
  <2>4. TextInv'
    BY <1>2, <1>3, <2>3 DEF TextInv, Keep
  <2>5. WorkOf(n)'
    <3>1. Keep(t)' /\ Inserted(Place(n), LineOf(n), text, t)'
      BY <1>2, <2>2, <2>3 DEF Inserted, Place, LineOf
    <3> QED
      BY <2>1, <3>1 DEF WorkOf
  <2>6. FaultFree(n)'
    <3>1. faults = {} => state = Verdict(n)
      BY <1>1
    <3>2. faults = {} => LineOf(n) \in Place(n).matches
      BY <1>9, <2>2, <3>1, InsertedFound, VerdictShape, OfNode
    <3> QED
      BY <1>2, <2>1, <3>2 DEF FaultFree, LineOf, Place
  <2>7. LifeOf(n)'
    BY <2>1 DEF LifeOf
  <2> QED
    BY <1>2, <2>1, <2>4, <2>5, <2>6, <2>7, StepIInv
<1> QED
  <2>1. state = Verdict(n) \/ state = "INVALID"
    BY <1>1
  <2>2. state \in {"READY", "ALREADY_APPLIED", "INVALID"}
    BY <2>1 DEF Verdict
  <2> QED
    BY <1>1, <1>6, <1>7, <1>8, <1>9, <2>2

\* The transition inserts a line that is not in the file.
LEMMA KeepInserted ==
  ASSUME IInv, NEW t \in Lines, Keep(t), NEW p \in 1 .. Len(t) + 1, NEW x \in Line,
         x \notin ToSet(t)
  PROVE  Keep(InsertAt(t, p, x))
<1> DEFINE s == InsertAt(t, p, x)
<1>1. s \in Lines
  BY InsertShape
<1>2. Damaged \/ Within(original, s)
  BY Types, WithinInserted DEF Keep
<1>3. Needed \subseteq ToSet(s)
  <2>1. ASSUME NEW l \in Needed PROVE l \in ToSet(s)
    <3>1. PICK i \in 1 .. Len(t) : t[i] = l
      BY InLines DEF Keep
    <3>2. Len(t) \in Nat
      BY InLines
    <3>3. \E j \in 1 .. Len(s) : s[j] = l
      <4>1. CASE i < p
        <5>1. i \in 1 .. Len(s) /\ s[i] = l
          BY <3>1, <3>2, <4>1, InsertShape
        <5> QED
          BY <5>1
      <4>2. CASE ~(i < p)
        <5>1. i + 1 \in 1 .. Len(s) /\ s[i + 1] = l
          BY <3>1, <3>2, <4>2, InsertShape
        <5> QED
          BY <5>1
      <4> QED
        BY <4>1, <4>2
    <3> QED
      BY <1>1, <3>3, InLines
  <2> QED
    BY <2>1
<1>4. Once(s, original)
  <2>1. ASSUME NEW l \in Line
        PROVE  Occurrences(l, s) <= 1 \/ Occurrences(l, s) <= Occurrences(l, original)
    <3>1. CASE l = x
      BY <3>1, OnceInserted
    <3>2. CASE l # x
      <4>1. Occurrences(l, s) <= Occurrences(l, t)
        BY <3>2, FewerInserted
      <4>2. Occurrences(l, t) <= 1 \/ Occurrences(l, t) <= Occurrences(l, original)
        BY DEF Keep, Once
      <4>3. Occurrences(l, s) \in Nat /\ Occurrences(l, t) \in Nat
            /\ Occurrences(l, original) \in Nat
        BY <1>1, Types, WhereFinite
      <4> QED
        BY <4>1, <4>2, <4>3
    <3> QED
      BY <3>1, <3>2
  <2> QED
    BY <2>1 DEF Once
<1> QED
  BY <1>1, <1>2, <1>3, <1>4 DEF Keep

LEMMA ReadLinesIInv ==
  ASSUME IInv, NEW n \in Node, ReadLines(n)
  PROVE  IInv'
<1> DEFINE p == InsertionIndex(Place(n), text)
           s == InsertAt(text, p, LineOf(n))
<1>1. /\ phase[n] = "transition" /\ Resolved(Place(n), text)
      /\ buffer' = [buffer EXCEPT ![n] = s] /\ Goto(n, "open")
      /\ UNCHANGED <<faults, params, text, original, outcome, result, undo>>
  BY DEF ReadLines, setVars, fileVars, LineOf
<1>2. Works(n) /\ Keep(text)
  BY <1>1, WorksIn, NobodyWrites
<1>3. /\ result[n] = "NONE" /\ undo[n] = "NONE" /\ outcome[n] = "NONE"
      /\ LineOf(n) \notin ToSet(text)
  BY <1>1, OfNode DEF LifeOf, WorkOf
<1>4. p \in 1 .. Len(text) + 1 /\ s \in Lines /\ Keep(s)
  BY <1>1, <1>2, <1>3, Types, IndexShape, InsertShape, KeepInserted
<1>5. Inserted(Place(n), LineOf(n), s, text)
  BY <1>1, Types DEF Inserted
<1> HIDE DEF p, s
<1>6. StepOf(n) /\ phase'[n] = "open" /\ buffer'[n] = s
  BY <1>1, <1>3, <1>4, Reports, Types DEF StepOf, Phases
<1>7. \A u : Keep(u) => Keep(u)'
  BY <1>1, <1>2, <1>3, <1>6, DamageStays, NeededNext, KeepNext DEF Present
<1>8. TextInv'
  BY <1>1, <1>2, <1>7 DEF TextInv, Keep
<1>9. WorkOf(n)'
  <2>1. Keep(buffer[n])' /\ Keep(text)'
    BY <1>1, <1>2, <1>4, <1>6, <1>7 DEF Keep
  <2>2. Inserted(Place(n), LineOf(n), buffer[n], text)'
    BY <1>1, <1>5, <1>6 DEF Inserted, Place, LineOf
  <2> QED
    BY <1>6, <2>1, <2>2, Types, <1>1 DEF WorkOf
<1>10. LifeOf(n)' /\ FaultFree(n)'
  BY <1>1, <1>3, <1>6 DEF LifeOf, FaultFree
<1> QED
  BY <1>2, <1>6, <1>8, <1>9, <1>10, StepIInv

LEMMA ReadFailsIInv ==
  ASSUME IInv, NEW n \in Node, ReadFails(n)
  PROVE  IInv'
<1>1. /\ phase[n] = "transition" /\ Returns(n, "FAILURE")
      /\ ~Resolved(Place(n), text) \/ "read" \in faults
      /\ UNCHANGED <<faults, params, text, original, buffer>>
  BY DEF ReadFails, setVars, fileVars
<1>2. Works(n) /\ Keep(text)
  BY <1>1, WorksIn, NobodyWrites
<1>3. /\ result[n] = "NONE" /\ undo[n] = "NONE" /\ outcome[n] = "NONE"
      /\ Resolved(Place(n), text) /\ LineOf(n) \notin ToSet(text)
  BY <1>1, OfNode DEF LifeOf, WorkOf
<1>4. /\ StepOf(n) /\ result'[n] = "FAILURE" /\ phase'[n] = "rollback"
      /\ UNCHANGED <<outcome, undo>>
  BY <1>1, <1>3, ReturnsStep, Types
<1>5. Keep(text)'
  BY <1>1, <1>2, <1>3, <1>4, DamageStays, NeededNext, KeepNext DEF Present, Keep
<1>6. TextInv'
  BY <1>5 DEF TextInv, Keep
<1>7. (LifeOf(n) /\ FaultFree(n) /\ WorkOf(n))'
  BY <1>1, <1>3, <1>4 DEF LifeOf, FaultFree, WorkOf, LineOf
<1> QED
  BY <1>2, <1>4, <1>6, <1>7, StepIInv

\* write_text_file returns: to the transition, or to the one of the inverse.
LEMMA WrittenIInv ==
  ASSUME IInv, NEW n \in Node, phase[n] \in {"open", "flush"},
         NEW s \in {"SUCCESS", "FAILURE"}, Written(n, s),
         UNCHANGED <<faults, params, original>>, text' \in Lines,
         Once(text', original), Needed \subseteq ToSet(text'),
         s = "FAILURE" => "write" \in faults,
         s = "SUCCESS" => text' = buffer[n]
  PROVE  IInv'
<1>1. Works(n) /\ undo[n] = "NONE" /\ outcome[n] = "NONE"
  BY WorksIn, OfNode DEF LifeOf
<1>2. buffer' = [buffer EXCEPT ![n] = << >>] /\ buffer' \in [Node -> Lines]
  BY EmptyFile, Types DEF Written
<1>3. Keep(buffer[n])
  BY OfNode DEF WorkOf
<1>4. ASSUME Damaged => Damaged', Needed' \subseteq Needed, s = "FAILURE" => Damaged'
      PROVE  Keep(text)' /\ TextInv'
  <2>1. Damaged' \/ Within(original, text')
    BY <1>3, <1>4 DEF Keep
  <2>2. Keep(text)'
    BY <1>4, <2>1 DEF Keep
  <2> QED
    BY <2>2 DEF TextInv, Keep
<1>5. CASE result[n] = "NONE"
  <2>1. /\ StepOf(n) /\ result'[n] = s /\ UNCHANGED <<outcome, undo>>
        /\ s = "SUCCESS" => phase'[n] = "verify"
        /\ s = "FAILURE" => phase'[n] = "rollback"
    BY <1>2, <1>5, ReturnsStep DEF Written
  <2>2. /\ Damaged => Damaged'
        /\ Needed' \subseteq Needed
        /\ s = "FAILURE" => Damaged'
    BY <1>1, <2>1, DamageStays, NeededNext DEF Present, Damaged
  <2>3. TextInv'
    BY <1>4, <2>2
  <2>4. s = "SUCCESS" => WorkOf(n)'
    <3>1. SUFFICES ASSUME s = "SUCCESS" PROVE WorkOf(n)'
      OBVIOUS
    <3>2. PICK t \in Lines : Keep(t) /\ Inserted(Place(n), LineOf(n), buffer[n], t)
      BY <1>5, OfNode DEF WorkOf
    <3>3. Keep(t)' /\ Inserted(Place(n), LineOf(n), text, t)'
      BY <2>2, <3>1, <3>2, KeepNext DEF Inserted, Place, LineOf
    <3> QED
      BY <2>1, <3>1, <3>3 DEF WorkOf
  <2>5. s = "FAILURE" => WorkOf(n)'
    BY <2>1 DEF WorkOf
  <2>6. LifeOf(n)' /\ FaultFree(n)'
    BY <1>1, <2>1 DEF LifeOf, FaultFree
  <2> QED
    BY <1>1, <2>1, <2>3, <2>4, <2>5, <2>6, StepIInv
<1>6. CASE result[n] # "NONE"
  <2>1. /\ StepOf(n) /\ undo'[n] = s /\ UNCHANGED result
        /\ phase'[n] = "done" /\ outcome'[n] = "FAILED_TRANSITION"
    BY <1>2, <1>6, UndoneStep DEF Written, Status
  <2>2. /\ Damaged => Damaged'
        /\ Needed' \subseteq Needed
        /\ s = "FAILURE" => Damaged'
    BY <1>1, <2>1, DamageStays, NeededNext DEF Present, Damaged
  <2>3. TextInv'
    BY <1>4, <2>2
  <2>4. LifeOf(n)' /\ FaultFree(n)'
    <3>1. result[n] \in {"FAILURE", "MISMATCH"} /\ FaultFree(n)
      BY <1>6, OfNode DEF LifeOf
    <3> QED
      BY <2>1, <3>1 DEF LifeOf, FaultFree, LineOf, Place
  <2>5. WorkOf(n)'
    BY <2>1 DEF WorkOf
  <2> QED
    BY <1>1, <2>1, <2>3, <2>4, <2>5, StepIInv
<1> QED
  BY <1>5, <1>6

LEMMA OpenFileIInv ==
  ASSUME IInv, NEW n \in Node, OpenFile(n)
  PROVE  IInv'
<1>1. phase[n] = "open" /\ UNCHANGED <<faults, params, original>>
  BY DEF OpenFile, setVars
<1>2. CASE text' = << >> /\ Goto(n, "flush") /\ UNCHANGED <<buffer, outcome, result, undo>>
  <2>1. Works(n) /\ undo[n] = "NONE" /\ outcome[n] = "NONE"
    BY <1>1, WorksIn, OfNode DEF LifeOf
  <2>2. StepOf(n) /\ phase'[n] = "flush"
    BY <1>1, <1>2, <2>1, Reports, EmptyFile, Types DEF StepOf, Phases
  <2>3. \A u : Keep(u) => Keep(u)'
    BY <1>1, <1>2, <2>1, <2>2, DamageStays, NeededNext, KeepNext DEF Present
  <2>4. TextInv'
    BY <1>2, <2>2, EmptyFile DEF TextInv
  <2>5. WorkOf(n)'
    <3>1. Keep(buffer[n])'
      BY <1>1, <1>2, <2>3, OfNode DEF WorkOf, Keep
    <3>2. ASSUME result[n] = "NONE"
          PROVE  \E t \in Lines : Keep(t)' /\ Inserted(Place(n), LineOf(n), buffer[n], t)'
      <4>1. PICK t \in Lines : Keep(t) /\ Inserted(Place(n), LineOf(n), buffer[n], t)
        BY <1>1, <3>2, OfNode DEF WorkOf
      <4> QED
        BY <1>1, <1>2, <2>3, <4>1 DEF Inserted, Place, LineOf
    <3> QED
      BY <1>2, <2>2, <3>1, <3>2 DEF WorkOf
  <2>6. LifeOf(n)' /\ FaultFree(n)'
    BY <1>1, <1>2, <2>1, <2>2, OfNode DEF LifeOf, FaultFree, LineOf, Place
  <2> QED
    BY <2>1, <2>2, <2>4, <2>5, <2>6, StepIInv
<1>3. CASE "write" \in faults /\ Written(n, "FAILURE") /\ UNCHANGED text
  <2>1. Keep(text)
    BY <1>1, WorksIn, NobodyWrites
  <2> QED
    BY <1>1, <1>3, <2>1, WrittenIInv DEF Keep
<1> QED
  BY <1>2, <1>3 DEF OpenFile

LEMMA WriteLinesIInv ==
  ASSUME IInv, NEW n \in Node, WriteLines(n)
  PROVE  IInv'
<1>1. phase[n] = "flush" /\ UNCHANGED <<faults, params, original>>
  BY DEF WriteLines, setVars
<1>2. Keep(buffer[n])
  BY <1>1, OfNode DEF WorkOf
<1>3. CASE text' = buffer[n] /\ Written(n, "SUCCESS")
  BY <1>1, <1>2, <1>3, WrittenIInv DEF Keep
<1>4. CASE "write" \in faults /\ text' \in Prefixes(buffer[n]) /\ Written(n, "FAILURE")
  <2>1. text' \in Lines
    BY <1>2, <1>4, PrefixShape DEF Keep
  <2>2. Once(text', original)
    <3>1. ASSUME NEW l \in Line
          PROVE  Occurrences(l, text') <= 1 \/ Occurrences(l, text') <= Occurrences(l, original)
      <4>1. Occurrences(l, text') <= Occurrences(l, buffer[n])
        BY <1>2, <1>4, FewerInPrefix DEF Keep
      <4>2. \/ Occurrences(l, buffer[n]) <= 1
            \/ Occurrences(l, buffer[n]) <= Occurrences(l, original)
        BY <1>2 DEF Keep, Once
      <4>3. Occurrences(l, text') \in Nat /\ Occurrences(l, buffer[n]) \in Nat
            /\ Occurrences(l, original) \in Nat
        BY <1>2, <2>1, Types, WhereFinite DEF Keep
      <4> QED
        BY <4>1, <4>2, <4>3
    <3> QED
      BY <3>1 DEF Once
  <2>3. Needed = {}
    BY <1>4 DEF Needed
  <2> QED
    BY <1>1, <1>4, <2>1, <2>2, <2>3, WrittenIInv
<1> QED
  BY <1>3, <1>4 DEF WriteLines

\* The rollback removes what the transition has inserted, and nothing else
\* unless a write may fail.
LEMMA RollbackReadIInv ==
  ASSUME IInv, NEW n \in Node, RollbackRead(n)
  PROVE  IInv'
<1> DEFINE found == PlacementLine(Place(n), LineOf(n), text)
<1>1. /\ phase[n] = "rollback" /\ UNCHANGED <<faults, params, text, original>>
      /\ \/ found = {} /\ Undone(n, "SKIPPED") /\ UNCHANGED buffer
         \/ \E i \in found :
              /\ buffer' = [buffer EXCEPT ![n] = RemoveAt(text, i)]
              /\ Goto(n, "open")
              /\ UNCHANGED <<outcome, result, undo>>
         \/ "read" \in faults /\ Undone(n, "FAILURE") /\ UNCHANGED buffer
  BY DEF RollbackRead, setVars, fileVars, LineOf
<1>2. Works(n) /\ Keep(text)
  BY <1>1, WorksIn, NobodyWrites
<1>3. /\ result[n] \in {"FAILURE", "MISMATCH"} /\ undo[n] = "NONE" /\ outcome[n] = "NONE"
      /\ FaultFree(n)
  BY <1>1, OfNode DEF LifeOf
<1>4. ASSUME NEW s \in Status, Undone(n, s), UNCHANGED buffer PROVE IInv'
  <2>1. /\ StepOf(n) /\ UNCHANGED result /\ phase'[n] = "done"
        /\ outcome'[n] = "FAILED_TRANSITION"
    BY <1>1, <1>4, UndoneStep, Types
  <2>2. Keep(text)'
    BY <1>1, <1>2, <2>1, DamageStays, NeededNext, KeepNext DEF Present, Keep
  <2>3. TextInv'
    BY <2>2 DEF TextInv, Keep
  <2>4. (LifeOf(n) /\ FaultFree(n) /\ WorkOf(n))'
    BY <1>1, <1>3, <2>1 DEF LifeOf, FaultFree, WorkOf, LineOf, Place
  <2> QED
    BY <1>2, <2>1, <2>3, <2>4, StepIInv
<1>5. ASSUME NEW i \in found, buffer' = [buffer EXCEPT ![n] = RemoveAt(text, i)],
             Goto(n, "open"), UNCHANGED <<outcome, result, undo>>
      PROVE  IInv'
  <2>1. i \in 1 .. Len(text) /\ text[i] = LineOf(n) /\ RemoveAt(text, i) \in Lines
    BY Types, InLines, RemoveShape DEF PlacementLine
  <2>2. Keep(RemoveAt(text, i))
    <3>1. CASE result[n] = "MISMATCH"
      <4>1. PICK t \in Lines : Keep(t) /\ Inserted(Place(n), LineOf(n), text, t)
        BY <1>1, <3>1, OfNode DEF WorkOf
      <4>2. RemoveAt(text, i) = t
        BY <1>5, <4>1, FoundIsInserted, OfNode
      <4> QED
        BY <4>1, <4>2
    <3>2. CASE result[n] = "FAILURE"
      <4>1. LineOf(n) \in ToSet(text)
        BY <2>1, InLines, Types
      <4>2. Needed = {} /\ Damaged
        BY <1>1, <3>2, <4>1, OfNode DEF WorkOf, Needed, Damaged
      <4>3. Once(RemoveAt(text, i), original)
        <5>1. ASSUME NEW l \in Line
              PROVE  \/ Occurrences(l, RemoveAt(text, i)) <= 1
                     \/ Occurrences(l, RemoveAt(text, i)) <= Occurrences(l, original)
          <6>1. Occurrences(l, RemoveAt(text, i)) <= Occurrences(l, text)
            BY <2>1, FewerRemoved, Types
          <6>2. Occurrences(l, text) <= 1 \/ Occurrences(l, text) <= Occurrences(l, original)
            BY <1>2 DEF Keep, Once
          <6>3. Occurrences(l, RemoveAt(text, i)) \in Nat /\ Occurrences(l, text) \in Nat
                /\ Occurrences(l, original) \in Nat
            BY <2>1, Types, WhereFinite
          <6> QED
            BY <6>1, <6>2, <6>3
        <5> QED
          BY <5>1 DEF Once
      <4> QED
        BY <2>1, <4>2, <4>3 DEF Keep
    <3> QED
      BY <1>3, <3>1, <3>2
  <2>3. StepOf(n) /\ phase'[n] = "open" /\ buffer'[n] = RemoveAt(text, i)
    BY <1>1, <1>3, <1>5, <2>1, Reports, Types DEF StepOf, Phases
  <2>4. \A u : Keep(u) => Keep(u)'
    BY <1>1, <1>2, <1>3, <1>5, <2>3, DamageStays, NeededNext, KeepNext DEF Present
  <2>5. TextInv'
    BY <1>1, <1>2, <2>4 DEF TextInv, Keep
  <2>6. WorkOf(n)'
    <3>1. Keep(buffer[n])'
      BY <2>2, <2>3, <2>4 DEF Keep
    <3> QED
      BY <1>3, <1>5, <2>3, <3>1 DEF WorkOf
  <2>7. LifeOf(n)' /\ FaultFree(n)'
    BY <1>1, <1>3, <1>5, <2>3 DEF LifeOf, FaultFree, LineOf, Place
  <2> QED
    BY <1>2, <2>3, <2>5, <2>6, <2>7, StepIInv
<1> QED
  BY <1>1, <1>4, <1>5 DEF Status

LEMMA StutterIInv ==
  ASSUME IInv, UNCHANGED vars
  PROVE  IInv'
<1>1. UNCHANGED <<faults, params, text, original, buffer, phase, outcome, result, undo>>
  BY DEF vars, lifeVars
<1>2. Damaged' = Damaged /\ Needed' = Needed
  BY <1>1 DEF Damaged, Needed, LineOf
<1>3. \A u : Keep(u) => Keep(u)'
  BY <1>1, <1>2 DEF Keep
<1>4. TypeOK' /\ (original \in Lines)' /\ OrderInv'
  BY <1>1 DEF IInv, TypeOK, LifeTypeOK, OrderInv, Released
<1>5. TextInv'
  BY <1>1, <1>3 DEF IInv, TextInv, Keep
<1>6. ASSUME NEW n \in Node PROVE (LifeOf(n) /\ FaultFree(n) /\ WorkOf(n))'
  <2>1. LifeOf(n) /\ FaultFree(n) /\ WorkOf(n)
    BY DEF IInv
  <2>2. (LifeOf(n) /\ FaultFree(n))'
    BY <1>1, <2>1 DEF LifeOf, FaultFree, LineOf, Place
  <2>3. \A t, u : Inserted(Place(n), LineOf(n), u, t) => Inserted(Place(n)', LineOf(n)', u, t)
    BY <1>1 DEF Place, LineOf
  <2>4. phase[n] \in {"open", "flush"} => Keep(buffer[n])'
    BY <1>1, <1>3, <2>1 DEF WorkOf, Keep
  <2>5. WorkOf(n)'
    BY <1>1, <1>3, <2>1, <2>3, <2>4 DEF WorkOf, LineOf, Place
  <2> QED
    BY <2>2, <2>5
<1> QED
  BY <1>4, <1>5, <1>6 DEF IInv

-----------------------------------------------------------------------------
(* The theorems.                                                            *)

\* The invariant is inductive.
THEOREM Invariant == Spec => []IInv
<1>1. ASSUME IInv, Next PROVE IInv'
  BY <1>1, AssessStateIInv, ReadLinesIInv, ReadFailsIInv, RollbackReadIInv, OpenFileIInv,
     WriteLinesIInv DEF Next, Run
<1>2. IInv /\ [Next]_vars => IInv'
  BY <1>1, StutterIInv
<1> QED
  BY InitIInv, <1>2, PTL DEF Spec

\* Every variable has its type, for any number of nodes and any file.
THEOREM TypeCorrect == Spec => []TypeOK
<1>1. IInv => TypeOK
  BY DEF IInv
<1> QED
  BY Invariant, <1>1, PTL

\* ensure_line_in_file never loses a line of the file, or the order of the
\* lines, without a report of a failure.
THEOREM NothingLostSilently == Spec => []NoSilentLoss
<1>1. IInv => NoSilentLoss
  BY DEF IInv, TextInv, Keep, Damaged, NoSilentLoss
<1> QED
  BY Invariant, <1>1, PTL

\* A line that a node has inserted or found stays, whatever the nodes below it
\* insert and remove again, as long as no write fails.
THEOREM SucceededLineStays == Spec => []SucceededLinePresent
<1>1. IInv => SucceededLinePresent
  BY DEF IInv, TextInv, Keep, Needed, Present, LineOf, SucceededLinePresent
<1> QED
  BY Invariant, <1>1, PTL

\* No line is inserted that is in the file already.
THEOREM InsertedOnce == Spec => []LineOnce
<1>1. IInv => LineOnce
  BY DEF IInv, TextInv, Once, LineOnce
<1> QED
  BY Invariant, <1>1, PTL

\* _insertion_index, _expected_line_present_at_placement and
\* _placement_line_index agree, in every file and for every placement.
THEOREM Agree == Spec => []PositionsAgree
<1>1. ASSUME IInv, NEW n \in Node
      PROVE  /\ faults = {} /\ outcome[n] = "FAILED_TRANSITION" => LineOf(n) \in Place(n).matches
             /\ Resolved(Place(n), text) =>
                  (ExpectedPresent(Place(n), LineOf(n), text)
                     <=> PlacementLine(Place(n), LineOf(n), text) # {})
  BY <1>1, OfNode, SamePosition, Types DEF LifeOf, FaultFree
<1>2. IInv => PositionsAgree
  BY <1>1 DEF PositionsAgree, LineOf
<1> QED
  BY Invariant, <1>2, PTL
=============================================================================
