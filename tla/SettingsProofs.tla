--------------------------- MODULE SettingsProofs ---------------------------
(***************************************************************************)
(* Proofs about MiniIni and Settings, for any threads, any number of       *)
(* saves, any earlier content of the card, and failures and losses of      *)
(* power at any step.                                                      *)
(***************************************************************************)
EXTENDS Settings, SequenceTheorems, WellFoundedInduction, TLAPS

-----------------------------------------------------------------------------
(***************************************************************************)
(* What getkeystring finds, without the search: line i is key k's when it  *)
(* follows the first head of its section with no other section and no      *)
(* earlier line of the key in between.                                     *)
(***************************************************************************)
IsSec(f, i)    == f[i][1] = "sec"
IsKey(f, i, k) == f[i][1] = "key" /\ f[i][2] = k

HeadAt(f, s, h) == h \in DOMAIN f /\ f[h] = Sec(s) /\ \A i \in DOMAIN f : f[i] = Sec(s) => h <= i
Found(f, k, i) ==
  /\ i \in DOMAIN f /\ IsKey(f, i, k)
  /\ \E h \in DOMAIN f : /\ HeadAt(f, SectionOf(k), h) /\ h < i
                         /\ \A j \in DOMAIN f : h < j /\ j < i => ~ IsSec(f, j) /\ ~ IsKey(f, j, k)

\* A set of naturals that is not empty has a least element, and First is it.
LEMMA FirstIsLeast ==
  ASSUME NEW S \in SUBSET Nat, S # {}
  PROVE  First(S) \in S /\ \A j \in S : First(S) <= j
  <1>1. \E i \in S : \A j \in S : ~(<<j, i>> \in OpToRel(<, Nat))
    BY NatLessThanWellFounded, WFMin, Zenon
  <1>2. \A i, j \in Nat : <<j, i>> \in OpToRel(<, Nat) <=> j < i
    BY DEF OpToRel
  <1>3. \E i \in S : \A j \in S : ~(j < i)
    BY <1>1, <1>2, Zenon
  <1>4. \E i \in S : \A j \in S : i <= j
    BY <1>3
  <1> QED
    BY <1>4 DEF First

\* Where the search begins and where it stops.
LEMMA SearchBegins ==
  ASSUME NEW f \in Seq(Lines), NEW s, SectionAt(f, s) # {}
  PROVE  HeadAt(f, s, First(SectionAt(f, s)))
  <1>1. SectionAt(f, s) \in SUBSET Nat
    BY DEF SectionAt
  <1> QED
    BY <1>1, FirstIsLeast DEF SectionAt, HeadAt

LEMMA SearchStops ==
  ASSUME NEW f \in Seq(Lines), NEW k, NEW h \in DOMAIN f
  PROVE  LET j == StopAt(f, k, h)
         IN  /\ j \in Nat /\ j > h /\ j <= Len(f) + 1
             /\ j <= Len(f) => IsSec(f, j) \/ IsKey(f, j, k)
             /\ \A i \in DOMAIN f : h < i /\ i < j => ~ IsSec(f, i) /\ ~ IsKey(f, i, k)
  <1> DEFINE S == { j \in DOMAIN f : j > h /\ (f[j][1] = "sec" \/ (f[j][1] = "key" /\ f[j][2] = k)) }
  <1>1. DOMAIN f = 1..Len(f) /\ Len(f) \in Nat /\ S \in SUBSET Nat
    OBVIOUS
  <1>2. StopAt(f, k, h) = IF S = {} THEN Len(f) + 1 ELSE First(S)
    BY DEF StopAt
  <1>3. \A i \in DOMAIN f : i \in S <=> i > h /\ (IsSec(f, i) \/ IsKey(f, i, k))
    BY DEF IsSec, IsKey
  <1>4. CASE S = {}
    <2>1. StopAt(f, k, h) = Len(f) + 1
      BY <1>2, <1>4
    <2> HIDE DEF S
    <2> QED
      BY <1>1, <1>3, <1>4, <2>1
  <1>5. CASE S # {}
    <2>1. StopAt(f, k, h) \in S /\ \A i \in S : StopAt(f, k, h) <= i
      BY <1>1, <1>2, <1>5, FirstIsLeast
    <2>2. S \subseteq DOMAIN f
      OBVIOUS
    <2> HIDE DEF S
    <2>3. PICK m \in DOMAIN f : m = StopAt(f, k, h)
      BY <2>1, <2>2
    <2>4. m > h /\ (IsSec(f, m) \/ IsKey(f, m, k))
      BY <1>3, <2>1, <2>3
    <2>5. \A i \in DOMAIN f : h < i /\ i < m => ~ IsSec(f, i) /\ ~ IsKey(f, i, k)
      BY <1>1, <1>3, <2>1, <2>3
    <2> QED
      BY <1>1, <2>3, <2>4, <2>5
  <1> QED
    BY <1>4, <1>5

\* getkeystring finds the line it should, and only that.
LEMMA KeyLineIsFound ==
  ASSUME NEW f \in Seq(Lines), NEW k, KeyLine(f, k) # 0
  PROVE  Found(f, k, KeyLine(f, k))
  <1> DEFINE h == First(SectionAt(f, SectionOf(k)))
             j == StopAt(f, k, h)
  <1>1. /\ SectionAt(f, SectionOf(k)) # {} /\ KeyLine(f, k) = j
        /\ j <= Len(f) /\ f[j][1] = "key"
    BY DEF KeyLine
  <1>2. HeadAt(f, SectionOf(k), h) /\ h \in DOMAIN f
    BY <1>1, SearchBegins DEF HeadAt
  <1>3. /\ j \in Nat /\ j > h /\ (IsSec(f, j) \/ IsKey(f, j, k))
        /\ \A i \in DOMAIN f : h < i /\ i < j => ~ IsSec(f, i) /\ ~ IsKey(f, i, k)
    BY <1>1, <1>2, SearchStops
  <1> HIDE DEF h, j
  <1>4. j \in DOMAIN f /\ IsKey(f, j, k)
    BY <1>1, <1>2, <1>3 DEF IsSec
  <1> QED
    BY <1>1, <1>2, <1>3, <1>4 DEF Found

LEMMA FoundIsKeyLine ==
  ASSUME NEW f \in Seq(Lines), NEW k, NEW i, Found(f, k, i)
  PROVE  KeyLine(f, k) = i /\ i # 0 /\ Value(f, k) = f[i][3]
  <1> DEFINE h == First(SectionAt(f, SectionOf(k)))
             j == StopAt(f, k, h)
  <1>1. PICK m \in DOMAIN f : /\ HeadAt(f, SectionOf(k), m) /\ m < i
                              /\ \A n \in DOMAIN f : m < n /\ n < i => ~ IsSec(f, n) /\ ~ IsKey(f, n, k)
    BY DEF Found
  <1>2. SectionAt(f, SectionOf(k)) # {}
    BY <1>1 DEF SectionAt, HeadAt
  <1>3. HeadAt(f, SectionOf(k), h)
    BY <1>2, SearchBegins
  <1>4. h = m /\ h \in DOMAIN f
    <2> HIDE DEF h
    <2> QED
      BY <1>1, <1>3 DEF HeadAt
  <1>5. /\ j \in Nat /\ j > h /\ j <= Len(f) + 1 /\ (j <= Len(f) => IsSec(f, j) \/ IsKey(f, j, k))
        /\ \A n \in DOMAIN f : h < n /\ n < j => ~ IsSec(f, n) /\ ~ IsKey(f, n, k)
    BY <1>4, SearchStops
  <1>6. i \in DOMAIN f /\ IsKey(f, i, k) /\ i \in Nat /\ i # 0 /\ i <= Len(f)
    BY DEF Found
  <1>7. KeyLine(f, k) = IF j <= Len(f) /\ f[j][1] = "key" THEN j ELSE 0
    BY <1>2 DEF KeyLine
  <1> HIDE DEF h, j
  <1>8. j = i
    BY <1>1, <1>4, <1>5, <1>6
  <1> QED
    BY <1>6, <1>7, <1>8 DEF IsKey, Value

LEMMA NotFoundIsNone ==
  ASSUME NEW f \in Seq(Lines), NEW k, \A i \in DOMAIN f : ~ Found(f, k, i)
  PROVE  KeyLine(f, k) = 0 /\ Value(f, k) = 0
  BY KeyLineIsFound DEF Value, Found

\* In a file that minIni wrote every line of a key is found.
LEMMA WrittenIsFound ==
  ASSUME NEW f \in Seq(Lines)
  PROVE  WellFormed(f) <=> /\ \A i, j \in DOMAIN f : IsSec(f, i) /\ f[j] = f[i] => j = i
                           /\ \A i \in DOMAIN f : f[i][1] = "key" => Found(f, f[i][2], i)
  <1>1. \A i \in DOMAIN f : f[i][1] = "key" => (KeyLine(f, f[i][2]) = i <=> Found(f, f[i][2], i))
    BY KeyLineIsFound, FoundIsKeyLine
  <1> QED
    BY <1>1 DEF WellFormed, IsSec

-----------------------------------------------------------------------------
(***************************************************************************)
(* A line of a key replaced by one of the same key                         *)
(***************************************************************************)
Replaces(f, g, j, k, v) ==
  /\ j \in DOMAIN f /\ IsKey(f, j, k) /\ Len(g) = Len(f)
  /\ \A i \in DOMAIN f : g[i] = IF i = j THEN Key(k, v) ELSE f[i]

LEMMA ReplacedIsFound ==
  ASSUME NEW f \in Seq(Lines), NEW g \in Seq(Lines), NEW j, NEW k, NEW v, Replaces(f, g, j, k, v), NEW l, NEW i
  PROVE  Found(f, l, i) <=> Found(g, l, i)
  <1>1. DOMAIN g = DOMAIN f
    BY DEF Replaces
  <1>2. \A n \in DOMAIN f : /\ IsSec(f, n) <=> IsSec(g, n)
                            /\ IsKey(f, n, l) <=> IsKey(g, n, l)
    BY DEF Replaces, IsSec, IsKey, Key
  <1>3. \A n \in DOMAIN f : f[n] = Sec(SectionOf(l)) <=> g[n] = Sec(SectionOf(l))
    BY DEF Replaces, IsKey, Key, Sec
  <1>4. \A n : HeadAt(f, SectionOf(l), n) <=> HeadAt(g, SectionOf(l), n)
    BY <1>1, <1>3 DEF HeadAt
  <1> QED
    BY <1>1, <1>2, <1>4 DEF Found

LEMMA ReplacedReads ==
  ASSUME NEW f \in Seq(Lines), NEW g \in Seq(Lines), NEW k, NEW v, WellFormed(f),
         KeyLine(f, k) # 0, Replaces(f, g, KeyLine(f, k), k, v)
  PROVE  /\ WellFormed(g) /\ Value(g, k) = v
         /\ \A l : l # k => Value(g, l) = Value(f, l)
  <1> DEFINE j == KeyLine(f, k)
  <1>1. Found(f, k, j) /\ \A l, i : Found(f, l, i) <=> Found(g, l, i)
    BY KeyLineIsFound, ReplacedIsFound
  <1>2. Value(g, k) = v
    <2>1. Found(g, k, j) /\ g[j] = Key(k, v)
      BY <1>1 DEF Replaces
    <2> QED
      BY <2>1, FoundIsKeyLine DEF Key
  <1>3. ASSUME NEW l, l # k PROVE Value(g, l) = Value(f, l)
    <2>1. CASE \E i \in DOMAIN f : Found(f, l, i)
      <3>1. PICK i \in DOMAIN f : Found(f, l, i)
        BY <2>1
      <3>2. Found(g, l, i) /\ g[i] = f[i]
        BY <1>1, <1>3, <3>1 DEF Replaces, Found, IsKey
      <3> QED
        BY <3>1, <3>2, FoundIsKeyLine
    <2>2. CASE \A i \in DOMAIN f : ~ Found(f, l, i)
      <3>1. \A i \in DOMAIN g : ~ Found(g, l, i)
        BY <1>1, <2>2 DEF Replaces
      <3> QED
        BY <2>2, <3>1, NotFoundIsNone
    <2> QED
      BY <2>1, <2>2
  <1>4. WellFormed(g)
    <2>1. DOMAIN g = DOMAIN f
      BY DEF Replaces
    <2>2. \A m, n \in DOMAIN g : IsSec(g, m) /\ g[n] = g[m] => n = m
      <3>1. \A m, n \in DOMAIN f : IsSec(f, m) /\ f[n] = f[m] => n = m
        BY WrittenIsFound
      <3> QED
        BY <2>1, <3>1 DEF Replaces, IsSec, IsKey, Key
    <2>3. \A n \in DOMAIN g : g[n][1] = "key" => Found(g, g[n][2], n)
      <3>1. \A n \in DOMAIN f : f[n][1] = "key" => Found(f, f[n][2], n)
        BY WrittenIsFound
      <3>2. \A n \in DOMAIN f : g[n][1] = f[n][1] /\ g[n][2] = f[n][2]
        BY DEF Replaces, IsKey, Key
      <3> QED
        BY <1>1, <2>1, <3>1, <3>2
    <2> QED
      BY <2>2, <2>3, WrittenIsFound
  <1> QED
    BY <1>2, <1>3, <1>4

-----------------------------------------------------------------------------
(***************************************************************************)
(* n lines put in before line j                                            *)
(***************************************************************************)
Splices(f, g, j, n) ==
  /\ j \in 1..Len(f) + 1 /\ n \in Nat /\ Len(g) = Len(f) + n
  /\ \A i \in DOMAIN f : IF i < j THEN g[i] = f[i] ELSE g[i + n] = f[i]
Moved(i, j, n) == IF i < j THEN i ELSE i + n

\* Lines that do not disturb key l: none of them is a line of the key, and a
\* new section is at the end of the file.
Quiet(f, g, j, n, l) ==
  \A p \in j..j + n - 1 : /\ ~ IsKey(g, p, l)
                          /\ IsSec(g, p) => j = Len(f) + 1 /\ \A i \in DOMAIN f : f[i] # g[p]

\* A line of the new file is an old one or a new one.
LEMMA SplicedLines ==
  ASSUME NEW f \in Seq(Lines), NEW g \in Seq(Lines), NEW j, NEW n, Splices(f, g, j, n)
  PROVE  /\ \A i \in DOMAIN f : Moved(i, j, n) \in DOMAIN g /\ g[Moved(i, j, n)] = f[i]
         /\ \A p \in DOMAIN g : p \in j..j + n - 1 \/ \E i \in DOMAIN f : p = Moved(i, j, n)
         /\ \A i, m \in DOMAIN f : i < m <=> Moved(i, j, n) < Moved(m, j, n)
         /\ \A i \in DOMAIN f : Moved(i, j, n) \in Nat /\ Moved(i, j, n) \notin j..j + n - 1
         /\ j = Len(f) + 1 => \A i \in DOMAIN f : Moved(i, j, n) = i /\ i < j
  <1>1. /\ j \in Nat /\ n \in Nat /\ Len(f) \in Nat /\ Len(g) = Len(f) + n /\ j >= 1 /\ j <= Len(f) + 1
        /\ DOMAIN f = 1..Len(f) /\ DOMAIN g = 1..Len(g)
    BY DEF Splices
  <1>2. \A i \in DOMAIN f : Moved(i, j, n) \in DOMAIN g /\ g[Moved(i, j, n)] = f[i]
    BY <1>1 DEF Splices, Moved
  <1>3. ASSUME NEW p \in DOMAIN g, p \notin j..j + n - 1 PROVE \E i \in DOMAIN f : p = Moved(i, j, n)
    <2>1. CASE p < j
      BY <1>1, <2>1 DEF Moved
    <2>2. CASE p >= j
      <3>1. p - n \in DOMAIN f /\ ~(p - n < j) /\ p = (p - n) + n
        BY <1>1, <1>3, <2>2
      <3> QED
        BY <3>1 DEF Moved
    <2> QED
      BY <1>1, <2>1, <2>2
  <1>4. \A i, m \in DOMAIN f : i < m <=> Moved(i, j, n) < Moved(m, j, n)
    BY <1>1 DEF Moved
  <1>5. \A i \in DOMAIN f : Moved(i, j, n) \in Nat /\ Moved(i, j, n) \notin j..j + n - 1
    BY <1>1 DEF Moved
  <1>6. j = Len(f) + 1 => \A i \in DOMAIN f : Moved(i, j, n) = i /\ i < j
    BY <1>1 DEF Moved
  <1> QED
    BY <1>2, <1>3, <1>4, <1>5, <1>6

\* The head of a section that was there moves with its line, and a head that
\* was not there is new.
LEMMA SplicedHeads ==
  ASSUME NEW f \in Seq(Lines), NEW g \in Seq(Lines), NEW j, NEW n, Splices(f, g, j, n), NEW l, Quiet(f, g, j, n, l),
         NEW s, NEW h \in DOMAIN f
  PROVE  HeadAt(f, s, h) <=> HeadAt(g, s, Moved(h, j, n))
  <1>1. j \in Nat /\ n \in Nat
    BY DEF Splices
  <1>2. HeadAt(f, s, h) => HeadAt(g, s, Moved(h, j, n))
    <2> SUFFICES ASSUME HeadAt(f, s, h), NEW p \in DOMAIN g, g[p] = Sec(s) PROVE Moved(h, j, n) <= p
      BY SplicedLines DEF HeadAt
    <2>1. p \notin j..j + n - 1
      <3> SUFFICES ASSUME p \in j..j + n - 1 PROVE FALSE
        OBVIOUS
      <3>1. IsSec(g, p)
        BY DEF IsSec, Sec
      <3> QED
        BY <3>1 DEF Quiet, HeadAt
    <2>2. PICK i \in DOMAIN f : p = Moved(i, j, n)
      BY <2>1, SplicedLines
    <2>3. h <= i /\ i \in Nat /\ h \in Nat
      BY <2>2, SplicedLines DEF HeadAt
    <2>4. h = i \/ h < i
      BY <2>3
    <2> QED
      BY <2>2, <2>4, SplicedLines
  <1>3. HeadAt(g, s, Moved(h, j, n)) => HeadAt(f, s, h)
    <2> SUFFICES ASSUME HeadAt(g, s, Moved(h, j, n)), NEW i \in DOMAIN f, f[i] = Sec(s) PROVE h <= i
      BY SplicedLines DEF HeadAt
    <2>1. Moved(h, j, n) <= Moved(i, j, n) /\ Moved(i, j, n) \in Nat /\ Moved(h, j, n) \in Nat
      BY SplicedLines DEF HeadAt
    <2>2. ~(Moved(i, j, n) < Moved(h, j, n))
      BY <2>1
    <2>3. ~(i < h) /\ i \in Nat /\ h \in Nat
      BY <2>2, SplicedLines
    <2> QED
      BY <2>3
  <1> QED
    BY <1>2, <1>3

\* A key the new lines do not disturb is found where its line has moved to.
LEMMA SplicedIsFound ==
  ASSUME NEW f \in Seq(Lines), NEW g \in Seq(Lines), NEW j, NEW n, Splices(f, g, j, n), NEW l, Quiet(f, g, j, n, l)
  PROVE  /\ \A i \in DOMAIN f : Found(f, l, i) <=> Found(g, l, Moved(i, j, n))
         /\ \A p \in DOMAIN g : Found(g, l, p) => \E i \in DOMAIN f : p = Moved(i, j, n)
  <1> DEFINE s == SectionOf(l)
             M(i) == Moved(i, j, n)
  <1>1. ASSUME NEW p \in DOMAIN g, Found(g, l, p) PROVE \E i \in DOMAIN f : p = M(i)
    <2>1. p \notin j..j + n - 1
      BY <1>1 DEF Found, Quiet
    <2> QED
      BY <2>1, SplicedLines
  <1>2. ASSUME NEW i \in DOMAIN f, Found(f, l, i) PROVE Found(g, l, M(i))
    <2>1. PICK h \in DOMAIN f : /\ HeadAt(f, s, h) /\ h < i
                                /\ \A m \in DOMAIN f : h < m /\ m < i => ~ IsSec(f, m) /\ ~ IsKey(f, m, l)
      BY <1>2 DEF Found
    <2>2. HeadAt(g, s, M(h)) /\ M(h) \in DOMAIN g /\ M(i) \in DOMAIN g /\ M(h) < M(i) /\ IsKey(g, M(i), l)
      BY <1>2, <2>1, SplicedHeads, SplicedLines DEF Found, IsKey
    <2>3. ASSUME NEW p \in DOMAIN g, M(h) < p, p < M(i) PROVE ~ IsSec(g, p) /\ ~ IsKey(g, p, l)
      <3>1. CASE \E m \in DOMAIN f : p = M(m)
        <4>1. PICK m \in DOMAIN f : p = M(m)
          BY <3>1
        <4>2. h < m /\ m < i /\ g[p] = f[m]
          BY <2>3, <4>1, SplicedLines
        <4> QED
          BY <2>1, <4>2 DEF IsSec, IsKey
      <3>2. CASE p \in j..j + n - 1
        <4>1. ~ IsKey(g, p, l) /\ (IsSec(g, p) => j = Len(f) + 1)
          BY <3>2 DEF Quiet
        <4>2. j = Len(f) + 1 => M(i) = i /\ i < j
          BY SplicedLines
        <4>3. j # Len(f) + 1
          BY <2>3, <3>2, <4>2 DEF Splices
        <4> QED
          BY <4>1, <4>3
      <3> QED
        BY <3>1, <3>2, SplicedLines
    <2> HIDE DEF M
    <2> QED
      BY <2>2, <2>3 DEF Found
  <1>3. ASSUME NEW i \in DOMAIN f, Found(g, l, M(i)) PROVE Found(f, l, i)
    <2>1. PICK p \in DOMAIN g : /\ HeadAt(g, s, p) /\ p < M(i)
                                /\ \A q \in DOMAIN g : p < q /\ q < M(i) => ~ IsSec(g, q) /\ ~ IsKey(g, q, l)
      BY <1>3 DEF Found
    <2>2. p \notin j..j + n - 1
      <3> SUFFICES ASSUME p \in j..j + n - 1 PROVE FALSE
        OBVIOUS
      <3>1. IsSec(g, p)
        BY <2>1 DEF HeadAt, IsSec, Sec
      <3>2. j = Len(f) + 1
        BY <3>1 DEF Quiet
      <3>3. M(i) = i /\ i < j
        BY <3>2, SplicedLines
      <3> QED
        BY <2>1, <3>3 DEF Splices
    <2>3. PICK h \in DOMAIN f : p = M(h)
      BY <2>2, SplicedLines
    <2>4. HeadAt(f, s, h) /\ h < i /\ IsKey(f, i, l)
      BY <1>3, <2>1, <2>3, SplicedHeads, SplicedLines DEF Found, IsKey
    <2>5. \A m \in DOMAIN f : h < m /\ m < i => ~ IsSec(f, m) /\ ~ IsKey(f, m, l)
      BY <2>1, <2>3, SplicedLines DEF IsSec, IsKey
    <2> QED
      BY <2>4, <2>5 DEF Found
  <1> QED
    BY <1>1, <1>2, <1>3

LEMMA SplicedReads ==
  ASSUME NEW f \in Seq(Lines), NEW g \in Seq(Lines), NEW j, NEW n, Splices(f, g, j, n), NEW l, Quiet(f, g, j, n, l)
  PROVE  Value(g, l) = Value(f, l)
  <1>1. CASE \E i \in DOMAIN f : Found(f, l, i)
    <2>1. PICK i \in DOMAIN f : Found(f, l, i)
      BY <1>1
    <2>2. Found(g, l, Moved(i, j, n)) /\ g[Moved(i, j, n)] = f[i]
      BY <2>1, SplicedIsFound, SplicedLines
    <2> QED
      BY <2>1, <2>2, FoundIsKeyLine
  <1>2. CASE \A i \in DOMAIN f : ~ Found(f, l, i)
    <2>1. \A p \in DOMAIN g : ~ Found(g, l, p)
      BY <1>2, SplicedIsFound
    <2> QED
      BY <1>2, <2>1, NotFoundIsNone
  <1> QED
    BY <1>1, <1>2

\* A new setting: its line is found, no other line of the file is disturbed,
\* and a section that comes with it is new.
NewLines(f, g, j, n, k) ==
  /\ \A i \in DOMAIN f : ~ IsKey(f, i, k)
  /\ \A p \in j..j + n - 1 :
       /\ g[p][1] = "key" => g[p][2] = k /\ Found(g, k, p)
       /\ IsSec(g, p) => /\ j = Len(f) + 1 /\ \A i \in DOMAIN f : f[i] # g[p]
                         /\ \A q \in j..j + n - 1 : g[q] = g[p] => q = p

LEMMA SplicedWritten ==
  ASSUME NEW f \in Seq(Lines), NEW g \in Seq(Lines), NEW j, NEW n, Splices(f, g, j, n), NEW k,
         NewLines(f, g, j, n, k), WellFormed(f)
  PROVE  /\ WellFormed(g)
         /\ \A l : l # k => Value(g, l) = Value(f, l)
  <1>1. \A l : l # k => Quiet(f, g, j, n, l)
    BY DEF NewLines, Quiet, IsKey
  <1>2. \A l : l # k => Value(g, l) = Value(f, l)
    BY <1>1, SplicedReads
  <1>3. ASSUME NEW p \in DOMAIN g, g[p][1] = "key" PROVE Found(g, g[p][2], p)
    <2>1. CASE p \in j..j + n - 1
      BY <1>3, <2>1 DEF NewLines
    <2>2. CASE \E i \in DOMAIN f : p = Moved(i, j, n)
      <3>1. PICK i \in DOMAIN f : p = Moved(i, j, n)
        BY <2>2
      <3>2. g[p] = f[i] /\ f[i][2] # k
        BY <1>3, <3>1, SplicedLines DEF NewLines, IsKey
      <3>3. Found(f, f[i][2], i)
        BY <1>3, <3>2, WrittenIsFound
      <3>4. \A l : l # k /\ Found(f, l, i) => Found(g, l, Moved(i, j, n))
        BY <1>1, SplicedIsFound
      <3> QED
        BY <3>1, <3>2, <3>3, <3>4
    <2> QED
      BY <2>1, <2>2, SplicedLines
  <1>4. ASSUME NEW p \in DOMAIN g, NEW q \in DOMAIN g, IsSec(g, p), g[q] = g[p] PROVE q = p
    <2>1. IsSec(g, q)
      BY <1>4 DEF IsSec
    <2>2. CASE p \in j..j + n - 1 /\ q \in j..j + n - 1
      BY <1>4, <2>2 DEF NewLines
    <2>3. CASE p \in j..j + n - 1 /\ \E i \in DOMAIN f : q = Moved(i, j, n)
      BY <1>4, <2>3, SplicedLines DEF NewLines
    <2>4. CASE q \in j..j + n - 1 /\ \E i \in DOMAIN f : p = Moved(i, j, n)
      BY <1>4, <2>1, <2>4, SplicedLines DEF NewLines
    <2>5. CASE (\E i \in DOMAIN f : p = Moved(i, j, n)) /\ (\E i \in DOMAIN f : q = Moved(i, j, n))
      <3>1. PICK i \in DOMAIN f, m \in DOMAIN f : p = Moved(i, j, n) /\ q = Moved(m, j, n)
        BY <2>5
      <3>2. IsSec(f, i) /\ f[m] = f[i]
        BY <1>4, <3>1, SplicedLines DEF IsSec
      <3>3. m = i
        BY <3>2, WrittenIsFound
      <3> QED
        BY <3>1, <3>3
    <2> QED
      BY <2>2, <2>3, <2>4, <2>5, SplicedLines
  <1> QED
    BY <1>2, <1>3, <1>4, WrittenIsFound

-----------------------------------------------------------------------------
(***************************************************************************)
(* ini_puts: what the copy, the rewritten file and the new file hold       *)
(***************************************************************************)
LEMMA LinesWritten ==
  ASSUME NEW k \in Keys, NEW v \in Values \cup {0}
  PROVE  /\ Key(k, v) \in Lines /\ Sec(SectionOf(k)) \in Lines /\ Blank \in Lines
         /\ Sec(SectionOf(k))[1] = "sec" /\ Blank[1] = "blank"
         /\ Key(k, v)[1] = "key" /\ Key(k, v)[2] = k /\ Key(k, v)[3] = v
  BY DEF Lines, Key, Sec, Blank, Keys, SectionOf

LEMMA PadIsBlank ==
  ASSUME NEW s \in Seq(Lines)
  PROVE  /\ Pad(s) \in Seq(Lines) /\ Len(Pad(s)) \in {0, 1}
         /\ \A i \in 1..Len(Pad(s)) : Pad(s)[i][1] = "blank"
  <1>1. Blank \in Lines /\ Blank[1] = "blank"
    BY DEF Lines, Blank
  <1> QED
    BY <1>1 DEF Pad

\* The lines of a sequence put together from three.
LEMMA Joined ==
  ASSUME NEW a \in Seq(Lines), NEW b \in Seq(Lines), NEW c \in Seq(Lines)
  PROVE  /\ a \o b \o c \in Seq(Lines) /\ Len(a \o b \o c) = Len(a) + Len(b) + Len(c)
         /\ \A i \in 1..Len(a) : (a \o b \o c)[i] = a[i]
         /\ \A i \in 1..Len(b) : (a \o b \o c)[Len(a) + i] = b[i]
         /\ \A i \in 1..Len(c) : (a \o b \o c)[Len(a) + Len(b) + i] = c[i]
  <1>1. a \o b \in Seq(Lines) /\ Len(a \o b) = Len(a) + Len(b)
        /\ \A m \in 1..Len(a) + Len(b) : (a \o b)[m] = IF m <= Len(a) THEN a[m] ELSE b[m - Len(a)]
    BY ConcatProperties
  <1>2. /\ (a \o b) \o c \in Seq(Lines) /\ Len((a \o b) \o c) = Len(a \o b) + Len(c)
        /\ \A m \in 1..Len(a \o b) + Len(c) : ((a \o b) \o c)[m] = IF m <= Len(a \o b) THEN (a \o b)[m] ELSE c[m - Len(a \o b)]
    BY <1>1, ConcatProperties
  <1> QED
    BY <1>1, <1>2

\* A section that was not there goes behind the last line.
LEMMA CopyAddsSection ==
  ASSUME NEW f \in Seq(Lines), WellFormed(f), NEW k \in Keys, NEW v \in Values \cup {0},
         SectionAt(f, SectionOf(k)) = {}
  PROVE  LET g == Copied(f, k, v)
         IN  /\ g \in Seq(Lines) /\ WellFormed(g) /\ Value(g, k) = v
             /\ \A l : l # k => Value(g, l) = Value(f, l)
  <1> DEFINE s == SectionOf(k)
             b == Pad(f)
             c == <<Sec(s), Key(k, v)>>
             g == f \o b \o c
             n == Len(b) + 2
  <1>1. Copied(f, k, v) = g
    BY DEF Copied
  <1>2. b \in Seq(Lines) /\ Len(b) \in {0, 1} /\ \A i \in 1..Len(b) : b[i][1] = "blank"
    BY PadIsBlank
  <1>3. c \in Seq(Lines) /\ Len(c) = 2 /\ c[1] = Sec(s) /\ c[2] = Key(k, v)
    BY LinesWritten
  <1> HIDE DEF b, c
  <1>4. /\ g \in Seq(Lines) /\ Len(g) = Len(f) + Len(b) + 2
        /\ \A i \in 1..Len(f) : g[i] = f[i]
        /\ \A i \in 1..Len(b) : g[Len(f) + i] = b[i]
        /\ g[Len(f) + Len(b) + 1] = Sec(s) /\ g[Len(f) + Len(b) + 2] = Key(k, v)
    <2>1. /\ g \in Seq(Lines) /\ Len(g) = Len(f) + Len(b) + Len(c)
          /\ \A i \in 1..Len(f) : g[i] = f[i]
          /\ \A i \in 1..Len(b) : g[Len(f) + i] = b[i]
          /\ \A i \in 1..Len(c) : g[Len(f) + Len(b) + i] = c[i]
      BY <1>2, <1>3, Joined, Zenon
    <2> HIDE DEF g
    <2> QED
      BY <1>3, <2>1
  <1> HIDE DEF g
  <1> DEFINE j == Len(f) + 1
  <1>5. Len(f) \in Nat /\ n \in Nat /\ j \in Nat /\ DOMAIN f = 1..Len(f) /\ DOMAIN g = 1..Len(f) + n
    BY <1>2, <1>4
  <1>6. Splices(f, g, j, n)
    BY <1>4, <1>5 DEF Splices
  <1>7. \A i \in DOMAIN f : f[i] # Sec(s)
    BY DEF SectionAt
  <1>8. \A i \in DOMAIN f : ~ IsKey(f, i, k)
    BY <1>7, WrittenIsFound DEF IsKey, Found, HeadAt
  <1>9. \A p \in j..j + n - 1 : \/ g[p][1] = "blank"
                                \/ p = j + Len(b) /\ g[p] = Sec(s)
                                \/ p = j + Len(b) + 1 /\ g[p] = Key(k, v)
    <2> TAKE p \in j..j + n - 1
    <2>1. p \in Nat /\ (p - Len(f) \in 1..Len(b) \/ p = Len(f) + Len(b) + 1 \/ p = Len(f) + Len(b) + 2)
      BY <1>2, <1>5
    <2>2. CASE p - Len(f) \in 1..Len(b)
      <3>1. PICK i \in 1..Len(b) : p = Len(f) + i
        <4>1. p = Len(f) + (p - Len(f))
          BY <1>5, <2>1
        <4> QED
          BY <2>2, <4>1
      <3> QED
        BY <1>2, <1>4, <3>1
    <2> QED
      BY <1>2, <1>4, <1>5, <2>1, <2>2
  <1>10. Found(g, k, j + Len(b) + 1)
    <2>1. HeadAt(g, s, j + Len(b))
      <3>1. j + Len(b) \in DOMAIN g /\ g[j + Len(b)] = Sec(s)
        BY <1>2, <1>4, <1>5
      <3>2. ASSUME NEW i \in DOMAIN g, g[i] = Sec(s) PROVE j + Len(b) <= i
        <4>1. i \notin DOMAIN f
          BY <1>4, <1>5, <1>7, <3>2
        <4>2. i \in j..j + n - 1
          BY <1>5, <4>1
        <4>3. g[i][1] = "sec"
          BY <3>2, LinesWritten
        <4> QED
          BY <1>2, <1>5, <1>9, <4>2, <4>3, LinesWritten
      <3> QED
        BY <3>1, <3>2 DEF HeadAt
    <2>2. j + Len(b) + 1 \in DOMAIN g /\ IsKey(g, j + Len(b) + 1, k)
      BY <1>2, <1>4, <1>5, LinesWritten DEF IsKey
    <2>3. \A i \in DOMAIN g : ~(j + Len(b) < i /\ i < j + Len(b) + 1)
      BY <1>2, <1>5
    <2> QED
      BY <1>2, <1>5, <2>1, <2>2, <2>3 DEF Found, HeadAt
  <1>11. NewLines(f, g, j, n, k)
    <2>1. ASSUME NEW p \in j..j + n - 1, g[p][1] = "key" PROVE g[p][2] = k /\ Found(g, k, p)
      <3>1. p = j + Len(b) + 1 /\ g[p] = Key(k, v)
        BY <1>9, <2>1, LinesWritten
      <3> QED
        BY <1>10, <3>1, LinesWritten
    <2>2. \A p \in j..j + n - 1 : IsSec(g, p) => p = j + Len(b) /\ g[p] = Sec(s)
      BY <1>9, LinesWritten DEF IsSec
    <2>3. \A p, q \in j..j + n - 1 : IsSec(g, p) /\ g[q] = g[p] => q = p
      BY <2>2 DEF IsSec
    <2>4. j = Len(f) + 1
      OBVIOUS
    <2> HIDE DEF j, n
    <2> QED
      BY <1>7, <1>8, <2>1, <2>2, <2>3, <2>4 DEF NewLines
  <1>12. g[j + Len(b) + 1][3] = v
    BY <1>2, <1>4, <1>5, LinesWritten
  <1> HIDE DEF j, n
  <1>13. WellFormed(g) /\ \A l : l # k => Value(g, l) = Value(f, l)
    BY <1>4, <1>6, <1>11, SplicedWritten
  <1>14. Value(g, k) = v
    BY <1>4, <1>10, <1>12, FoundIsKeyLine
  <1> QED
    BY <1>1, <1>4, <1>13, <1>14

LEMMA SubLines ==
  ASSUME NEW f \in Seq(Lines), NEW lo \in 1..Len(f) + 1, NEW hi \in 0..Len(f)
  PROVE  /\ SubSeq(f, lo, hi) \in Seq(Lines)
         /\ Len(SubSeq(f, lo, hi)) = IF lo <= hi THEN hi - lo + 1 ELSE 0
         /\ \A i \in 1..hi - lo + 1 : SubSeq(f, lo, hi)[i] = f[lo + i - 1]
  <1>1. lo \in Int /\ hi \in Int /\ \A i \in lo..hi : f[i] \in Lines
    OBVIOUS
  <1> QED
    BY <1>1, SubSeqProperties

LEMMA TailLines ==
  ASSUME NEW f \in Seq(Lines), NEW j \in 1..Len(f)
  PROVE  Len(SubSeq(f, j + 1, Len(f))) = Len(f) - j
  <1>1. Len(f) \in Nat /\ j + 1 \in 1..Len(f) + 1 /\ Len(f) \in 0..Len(f)
    OBVIOUS
  <1>2. Len(SubSeq(f, j + 1, Len(f))) = IF j + 1 <= Len(f) THEN Len(f) - (j + 1) + 1 ELSE 0
    BY <1>1, SubLines
  <1> QED
    BY <1>1, <1>2

\* The same for four sequences, the third of one line.
IsJoin(g, a, b, x, d) ==
  /\ g \in Seq(Lines) /\ Len(g) = Len(a) + Len(b) + 1 + Len(d)
  /\ \A i \in 1..Len(a) : g[i] = a[i]
  /\ \A i \in 1..Len(b) : g[Len(a) + i] = b[i]
  /\ g[Len(a) + Len(b) + 1] = x
  /\ \A i \in 1..Len(d) : g[Len(a) + Len(b) + 1 + i] = d[i]

LEMMA JoinedFour ==
  ASSUME NEW a \in Seq(Lines), NEW b \in Seq(Lines), NEW x \in Lines, NEW d \in Seq(Lines)
  PROVE  IsJoin(a \o b \o <<x>> \o d, a, b, x, d)
  <1> DEFINE c == <<x>>
             e == a \o b \o c
             g == e \o d
  <1>0. g = a \o b \o <<x>> \o d
    OBVIOUS
  <1>1. c \in Seq(Lines) /\ Len(c) = 1 /\ c[1] = x
    OBVIOUS
  <1> HIDE DEF c
  <1>2. /\ e \in Seq(Lines) /\ Len(e) = Len(a) + Len(b) + Len(c)
        /\ \A i \in 1..Len(a) : e[i] = a[i]
        /\ \A i \in 1..Len(b) : e[Len(a) + i] = b[i]
        /\ \A i \in 1..Len(c) : e[Len(a) + Len(b) + i] = c[i]
    BY <1>1, Joined, Zenon
  <1> HIDE DEF e
  <1>3. /\ g \in Seq(Lines) /\ Len(g) = Len(e) + Len(d)
        /\ \A i \in 1..Len(e) + Len(d) : g[i] = IF i <= Len(e) THEN e[i] ELSE d[i - Len(e)]
    BY <1>2, ConcatProperties
  <1> HIDE DEF g
  <1>4. Len(a) \in Nat /\ Len(b) \in Nat /\ Len(d) \in Nat /\ Len(e) = Len(a) + Len(b) + 1
    BY <1>1, <1>2
  <1>5. \A i \in 1..Len(a) : g[i] = a[i]
    BY <1>2, <1>3, <1>4
  <1>6. \A i \in 1..Len(b) : g[Len(a) + i] = b[i]
    BY <1>2, <1>3, <1>4
  <1>7. g[Len(a) + Len(b) + 1] = x
    BY <1>1, <1>2, <1>3, <1>4
  <1>8. ASSUME NEW i \in 1..Len(d) PROVE g[Len(a) + Len(b) + 1 + i] = d[i]
    <2>1. Len(e) + i \in 1..Len(e) + Len(d) /\ ~(Len(e) + i <= Len(e)) /\ (Len(e) + i) - Len(e) = i
      BY <1>4
    <2> QED
      BY <1>3, <1>4, <2>1
  <1> QED
    BY <1>0, <1>1, <1>3, <1>4, <1>5, <1>6, <1>7, <1>8 DEF IsJoin

\* A setting that was not there goes to the end of its section: before the
\* next one, or behind the last line.
LEMMA CopyAddsKey ==
  ASSUME NEW f \in Seq(Lines), WellFormed(f), NEW k \in Keys, NEW v \in Values \cup {0},
         SectionAt(f, SectionOf(k)) # {}, KeyLine(f, k) = 0
  PROVE  LET g == Copied(f, k, v)
         IN  /\ g \in Seq(Lines) /\ WellFormed(g) /\ Value(g, k) = v
             /\ \A l : l # k => Value(g, l) = Value(f, l)
  <1> DEFINE s == SectionOf(k)
             h == First(SectionAt(f, s))
             j == StopAt(f, k, h)
             a == SubSeq(f, 1, j - 1)
             b == IF j > Len(f) THEN Pad(SubSeq(f, h + 1, j - 1)) ELSE <<>>
             d == SubSeq(f, j, Len(f))
             g == a \o b \o <<Key(k, v)>> \o d
             m == Len(b)
             n == m + 1
  <1>1. HeadAt(f, s, h) /\ h \in DOMAIN f
    BY SearchBegins DEF HeadAt
  <1>2. /\ j \in Nat /\ j > h /\ j <= Len(f) + 1
        /\ j <= Len(f) => IsSec(f, j) \/ IsKey(f, j, k)
        /\ \A i \in DOMAIN f : h < i /\ i < j => ~ IsSec(f, i) /\ ~ IsKey(f, i, k)
    BY <1>1, SearchStops
  <1>3. ~(j <= Len(f) /\ f[j][1] = "key")
    <2>1. KeyLine(f, k) = IF j <= Len(f) /\ f[j][1] = "key" THEN j ELSE 0
      BY DEF KeyLine
    <2> HIDE DEF h, j
    <2> QED
      BY <1>1, <1>2, <2>1
  <1>4. Copied(f, k, v) = g
    <2>1. (IF j <= Len(f) /\ f[j][1] = "key" THEN j + 1 ELSE j) = j
      BY <1>3
    <2> QED
      BY <2>1 DEF Copied
  <1> HIDE DEF h, j
  <1>5. Len(f) \in Nat /\ DOMAIN f = 1..Len(f) /\ h \in 1..Len(f) /\ j \in 1..Len(f) + 1
    BY <1>1, <1>2
  <1>6. a \in Seq(Lines) /\ Len(a) = j - 1 /\ \A i \in 1..j - 1 : a[i] = f[i]
    BY <1>5, SubLines
  <1>7. b \in Seq(Lines) /\ m \in {0, 1} /\ (j <= Len(f) => m = 0) /\ \A i \in 1..m : b[i][1] = "blank"
    <2>1. CASE j > Len(f)
      <3>1. SubSeq(f, h + 1, j - 1) \in Seq(Lines) /\ ~(j <= Len(f))
        BY <1>5, <2>1, SubLines
      <3>2. b = Pad(SubSeq(f, h + 1, j - 1))
        BY <2>1
      <3> HIDE DEF b
      <3> QED
        BY <3>1, <3>2, PadIsBlank
    <2>2. CASE ~(j > Len(f))
      <3>1. b = <<>>
        BY <2>2
      <3> HIDE DEF b
      <3> QED
        BY <3>1
    <2> QED
      BY <2>1, <2>2
  <1>8. d \in Seq(Lines) /\ Len(d) = Len(f) - j + 1 /\ \A i \in 1..Len(f) - j + 1 : d[i] = f[j + i - 1]
    BY <1>5, SubLines
  <1> HIDE DEF a, b, d
  <1>9. /\ g \in Seq(Lines) /\ Len(g) = Len(a) + Len(b) + 1 + Len(d)
        /\ \A i \in 1..Len(a) : g[i] = a[i]
        /\ \A i \in 1..Len(b) : g[Len(a) + i] = b[i]
        /\ g[Len(a) + Len(b) + 1] = Key(k, v)
        /\ \A i \in 1..Len(d) : g[Len(a) + Len(b) + 1 + i] = d[i]
    <2>1. Key(k, v) \in Lines
      BY LinesWritten
    <2>2. a \in Seq(Lines) /\ b \in Seq(Lines) /\ d \in Seq(Lines)
      BY <1>6, <1>7, <1>8
    <2>3. IsJoin(g, a, b, Key(k, v), d)
      BY <2>1, <2>2, JoinedFour, Zenon
    <2> HIDE DEF g
    <2> QED
      BY <2>3 DEF IsJoin
  <1> HIDE DEF g
  <1>10. m \in Nat /\ n \in Nat /\ n = m + 1 /\ Len(g) = Len(f) + n /\ DOMAIN g = 1..Len(f) + n
    <2>1. m \in Nat
      BY <1>7
    <2>2. Len(g) = (j - 1) + m + 1 + (Len(f) - j + 1)
      BY <1>6, <1>8, <1>9
    <2> HIDE DEF m
    <2>3. n \in Nat /\ Len(g) = Len(f) + n
      BY <1>5, <2>1, <2>2
    <2>4. DOMAIN g = 1..Len(g)
      BY <1>9
    <2> HIDE DEF n
    <2> QED
      BY <2>1, <2>3, <2>4 DEF n
  <1>11. \A i \in DOMAIN f : i < j => g[i] = f[i]
    BY <1>5, <1>6, <1>9
  <1>12. ASSUME NEW i \in DOMAIN f, ~(i < j) PROVE g[i + n] = f[i]
    <2>1. i - j + 1 \in 1..Len(f) - j + 1 /\ j + (i - j + 1) - 1 = i
          /\ (j - 1) + m + 1 + (i - j + 1) = i + n
      BY <1>5, <1>10, <1>12
    <2>2. d[i - j + 1] = f[i]
      BY <1>8, <2>1
    <2> QED
      BY <1>6, <1>8, <1>9, <2>1, <2>2
  <1>13. g[j + m] = Key(k, v) /\ \A p \in j..j + m - 1 : g[p][1] = "blank"
    <2>1. g[j + m] = Key(k, v)
      BY <1>5, <1>6, <1>9, <1>10
    <2>2. ASSUME NEW p \in j..j + m - 1 PROVE g[p][1] = "blank"
      <3>1. p - j + 1 \in 1..m /\ (j - 1) + (p - j + 1) = p
        BY <1>5, <1>10
      <3>2. g[Len(a) + (p - j + 1)] = b[p - j + 1] /\ b[p - j + 1][1] = "blank"
        BY <1>7, <1>9, <3>1
      <3> QED
        BY <1>6, <3>1, <3>2
    <2> QED
      BY <2>1, <2>2
  <1> HIDE DEF m, n
  <1>14. Splices(f, g, j, n)
    BY <1>5, <1>10, <1>11, <1>12 DEF Splices
  <1>15. \A i \in DOMAIN f : ~ IsKey(f, i, k)
    BY WrittenIsFound, FoundIsKeyLine DEF IsKey
  <1>16. \A p \in j..j + n - 1 : g[p][1] = "blank" \/ (p = j + m /\ g[p] = Key(k, v))
    BY <1>5, <1>10, <1>13
  <1>17. \A l : l # k => Quiet(f, g, j, n, l)
    BY <1>16, LinesWritten DEF Quiet, IsKey, IsSec
  <1>18. Found(g, k, j + m)
    <2>1. "" # k /\ Moved(h, j, n) = h
      BY <1>2, <1>5 DEF Keys, Moved
    <2>2. HeadAt(g, s, h)
      <3>1. Quiet(f, g, j, n, "")
        BY <1>17, <2>1
      <3>2. HeadAt(f, s, h) <=> HeadAt(g, s, Moved(h, j, n))
        BY <1>1, <1>9, <1>14, <3>1, SplicedHeads
      <3> QED
        BY <1>1, <2>1, <3>2
    <2>3. ASSUME NEW p \in DOMAIN g, h < p, p < j + m PROVE ~ IsSec(g, p) /\ ~ IsKey(g, p, k)
      <3>1. CASE p < j
        BY <1>2, <1>5, <1>10, <1>11, <2>3, <3>1 DEF IsSec, IsKey
      <3>2. CASE ~(p < j)
        <4>1. p \in j..j + m - 1
          BY <1>5, <1>10, <2>3, <3>2
        <4> QED
          BY <1>13, <4>1 DEF IsSec, IsKey
      <3> QED
        BY <3>1, <3>2
    <2>4. j + m \in DOMAIN g /\ IsKey(g, j + m, k) /\ h < j + m /\ h \in DOMAIN g
      BY <1>2, <1>5, <1>10, <1>13, LinesWritten DEF IsKey
    <2> QED
      BY <2>2, <2>3, <2>4 DEF Found
  <1>19. NewLines(f, g, j, n, k)
    <2>1. ASSUME NEW p \in j..j + n - 1, g[p][1] = "key" PROVE g[p][2] = k /\ Found(g, k, p)
      BY <1>16, <1>18, <2>1, LinesWritten
    <2>2. \A p \in j..j + n - 1 : ~ IsSec(g, p)
      BY <1>16, LinesWritten DEF IsSec
    <2> QED
      BY <1>15, <2>1, <2>2 DEF NewLines
  <1>20. WellFormed(g) /\ \A l : l # k => Value(g, l) = Value(f, l)
    BY <1>9, <1>14, <1>19, SplicedWritten
  <1>21. Value(g, k) = v
    BY <1>9, <1>13, <1>18, FoundIsKeyLine, LinesWritten
  <1> QED
    BY <1>4, <1>9, <1>20, <1>21

\* The line of a setting that was there is replaced.
LEMMA CopyReplacesKey ==
  ASSUME NEW f \in Seq(Lines), WellFormed(f), NEW k \in Keys, NEW v \in Values \cup {0}, KeyLine(f, k) # 0
  PROVE  LET g == Copied(f, k, v)
         IN  /\ g \in Seq(Lines) /\ WellFormed(g) /\ Value(g, k) = v
             /\ \A l : l # k => Value(g, l) = Value(f, l)
  <1> DEFINE s == SectionOf(k)
             h == First(SectionAt(f, s))
             j == StopAt(f, k, h)
             a == SubSeq(f, 1, j - 1)
             b == <<>>
             d == SubSeq(f, j + 1, Len(f))
             g == a \o b \o <<Key(k, v)>> \o d
  <1>1. SectionAt(f, s) # {} /\ KeyLine(f, k) = j /\ j <= Len(f) /\ f[j][1] = "key"
    BY DEF KeyLine
  <1>2. j \in DOMAIN f /\ IsKey(f, j, k)
    BY <1>1, KeyLineIsFound DEF Found
  <1>3. Copied(f, k, v) = g
    <2>1. /\ (IF j <= Len(f) /\ f[j][1] = "key" THEN j + 1 ELSE j) = j + 1
          /\ (IF j > Len(f) THEN Pad(SubSeq(f, h + 1, j - 1)) ELSE <<>>) = b
      <3>1. Len(f) \in Nat /\ j \in Nat
        BY <1>2
      <3> HIDE DEF j, h
      <3> QED
        BY <1>1, <3>1
    <2> QED
      BY <1>1, <2>1 DEF Copied
  <1> HIDE DEF h, j
  <1>4. Len(f) \in Nat /\ DOMAIN f = 1..Len(f) /\ j \in 1..Len(f)
    BY <1>2
  <1>5. a \in Seq(Lines) /\ Len(a) = j - 1 /\ \A i \in 1..j - 1 : a[i] = f[i]
    BY <1>4, SubLines
  <1>6. b \in Seq(Lines) /\ Len(b) = 0
    OBVIOUS
  <1>7. d \in Seq(Lines) /\ Len(d) = Len(f) - j /\ \A i \in 1..Len(f) - j : d[i] = f[j + i]
    <2>1. j + 1 \in 1..Len(f) + 1 /\ Len(f) \in 0..Len(f) /\ Len(f) - (j + 1) + 1 = Len(f) - j
      BY <1>4
    <2>2. d \in Seq(Lines) /\ \A i \in 1..Len(f) - (j + 1) + 1 : d[i] = f[(j + 1) + i - 1]
      BY <2>1, SubLines
    <2>3. Len(d) = Len(f) - j
      BY <1>4, TailLines
    <2> HIDE DEF d
    <2>4. \A i \in 1..Len(f) - j : (j + 1) + i - 1 = j + i
      BY <1>4
    <2>5. \A i \in 1..Len(f) - j : d[i] = f[j + i]
      BY <2>1, <2>2, <2>4
    <2> QED
      BY <2>2, <2>3, <2>5
  <1> HIDE DEF a, b, d
  <1>8. /\ g \in Seq(Lines) /\ Len(g) = Len(a) + Len(b) + 1 + Len(d)
        /\ \A i \in 1..Len(a) : g[i] = a[i]
        /\ g[Len(a) + Len(b) + 1] = Key(k, v)
        /\ \A i \in 1..Len(d) : g[Len(a) + Len(b) + 1 + i] = d[i]
    <2>1. Key(k, v) \in Lines
      BY LinesWritten
    <2>2. a \in Seq(Lines) /\ b \in Seq(Lines) /\ d \in Seq(Lines)
      BY <1>5, <1>6, <1>7
    <2>3. IsJoin(g, a, b, Key(k, v), d)
      BY <2>1, <2>2, JoinedFour, Zenon
    <2> HIDE DEF g
    <2> QED
      BY <2>3 DEF IsJoin
  <1> HIDE DEF g
  <1>9. Len(g) = Len(f) /\ g[j] = Key(k, v)
    BY <1>4, <1>5, <1>6, <1>7, <1>8
  <1>10. ASSUME NEW i \in DOMAIN f, i # j PROVE g[i] = f[i]
    <2>1. CASE i < j
      BY <1>4, <1>5, <1>8, <2>1
    <2>2. CASE i > j
      <3>1. i - j \in 1..Len(f) - j /\ j + (i - j) = i /\ (j - 1) + 0 + 1 + (i - j) = i
        BY <1>4, <2>2
      <3>2. d[i - j] = f[i]
        BY <1>7, <3>1
      <3>3. g[Len(a) + Len(b) + 1 + (i - j)] = d[i - j]
        BY <1>7, <1>8, <3>1
      <3> QED
        BY <1>5, <1>6, <3>1, <3>2, <3>3
    <2> QED
      BY <1>4, <1>10, <2>1, <2>2
  <1>11. Replaces(f, g, KeyLine(f, k), k, v)
    BY <1>1, <1>2, <1>9, <1>10 DEF Replaces
  <1> QED
    BY <1>3, <1>8, <1>11, ReplacedReads

\* What ini_puts writes with a copy of the file: the new setting, and every
\* other setting as it was.
LEMMA CopyReads ==
  ASSUME NEW f \in Seq(Lines), WellFormed(f), NEW k \in Keys, NEW v \in Values \cup {0}
  PROVE  LET g == Copied(f, k, v)
         IN  /\ g \in Seq(Lines) /\ WellFormed(g) /\ Value(g, k) = v
             /\ \A l : l # k => Value(g, l) = Value(f, l)
  BY CopyAddsSection, CopyAddsKey, CopyReplacesKey

\* And in place.
LEMMA RewriteReads ==
  ASSUME NEW f \in Seq(Lines), WellFormed(f), NEW k \in Keys, NEW v \in Values \cup {0}, KeyLine(f, k) # 0
  PROVE  LET g == Rewritten(f, k, v)
         IN  /\ g \in Seq(Lines) /\ WellFormed(g) /\ Value(g, k) = v
             /\ \A l : l # k => Value(g, l) = Value(f, l)
  <1> DEFINE g == Rewritten(f, k, v)
             j == KeyLine(f, k)
  <1>1. j \in DOMAIN f /\ IsKey(f, j, k)
    BY KeyLineIsFound DEF Found
  <1>2. g = [i \in 1..Len(f) |-> IF i = j THEN Key(k, v) ELSE f[i]]
    BY DEF Rewritten
  <1> HIDE DEF g, j
  <1>3. \A i \in 1..Len(f) : (IF i = j THEN Key(k, v) ELSE f[i]) \in Lines
    BY LinesWritten
  <1>4. g \in Seq(Lines) /\ Len(g) = Len(f)
    BY <1>2, <1>3
  <1>5. Replaces(f, g, j, k, v)
    BY <1>1, <1>2, <1>4 DEF Replaces
  <1> QED
    BY <1>4, <1>5, ReplacedReads DEF g, j

\* A file without a line of a key has no setting.
LEMMA NoKeyReads ==
  ASSUME NEW f \in Seq(Lines), \A i \in DOMAIN f : f[i][1] \notin {"sec", "key"}
  PROVE  WellFormed(f) /\ \A k : Value(f, k) = 0
  <1>1. WellFormed(f)
    BY DEF WellFormed
  <1>2. \A k : \A i \in DOMAIN f : ~ Found(f, k, i)
    BY DEF Found, IsKey
  <1> QED
    BY <1>1, <1>2, NotFoundIsNone

LEMMA EmptyReads ==
  /\ <<>> \in Seq(Lines) /\ WellFormed(<<>>) /\ \A k : Value(<<>>, k) = 0
  /\ Missing \in Seq(Lines) /\ WellFormed(Missing) /\ \A k : Value(Missing, k) = 0
  /\ <<>> # Missing
  <1> DEFINE x == <<"missing", "", 0>>
  <1>0. x \in Lines /\ x[1] = "missing" /\ Missing = <<x>>
    BY DEF Missing, Lines
  <1> HIDE DEF x
  <1>1. <<>> \in Seq(Lines) /\ Missing \in Seq(Lines) /\ <<>> # Missing
    BY <1>0
  <1>2. \A i \in DOMAIN Missing : Missing[i][1] = "missing"
    BY <1>0
  <1>3. \A i \in DOMAIN <<>> : FALSE
    OBVIOUS
  <1> QED
    BY <1>1, <1>2, <1>3, NoKeyReads

\* A file that ini_puts made anew has the one setting.
LEMMA NewFileReads ==
  ASSUME NEW k \in Keys, NEW v \in Values \cup {0}
  PROVE  LET g == NewFile(k, v)
         IN  /\ g \in Seq(Lines) /\ WellFormed(g) /\ Value(g, k) = v
             /\ \A l : l # k => Value(g, l) = 0
  <1> DEFINE g == NewFile(k, v)
             s == SectionOf(k)
  <1>1. g \in Seq(Lines) /\ DOMAIN g = {1, 2} /\ g[1] = Sec(s) /\ g[2] = Key(k, v)
    BY LinesWritten DEF NewFile
  <1>2. g[1][1] = "sec" /\ g[2][1] = "key" /\ g[2][2] = k /\ g[2][3] = v /\ g[2] # g[1]
    BY <1>1, LinesWritten
  <1> HIDE DEF g
  <1>3. HeadAt(g, s, 1)
    BY <1>1, <1>2 DEF HeadAt
  <1>4. Found(g, k, 2)
    <2>1. \A i \in DOMAIN g : ~(1 < i /\ i < 2)
      BY <1>1
    <2>2. 2 \in DOMAIN g /\ 1 \in DOMAIN g /\ IsKey(g, 2, k) /\ 1 < 2
      BY <1>1, <1>2 DEF IsKey
    <2> QED
      BY <1>3, <2>1, <2>2 DEF Found
  <1>5. WellFormed(g)
    BY <1>1, <1>2, <1>4, WrittenIsFound DEF IsSec
  <1>6. Value(g, k) = v
    BY <1>1, <1>2, <1>4, FoundIsKeyLine
  <1>7. ASSUME NEW l, l # k PROVE Value(g, l) = 0
    <2>1. \A i \in DOMAIN g : ~ Found(g, l, i)
      BY <1>1, <1>2, <1>7 DEF Found, IsKey
    <2> QED
      BY <1>1, <2>1, NotFoundIsNone
  <1> QED
    BY <1>1, <1>5, <1>6, <1>7 DEF g

\* The relay address in a file of its own.
LEMMA AddressReads ==
  ASSUME NEW v \in Values \cup {0}
  PROVE  /\ Address(v) \in Seq(Lines)
         /\ Value(Address(v), "host") = v /\ Value(Address(v), "port") = v
  <1> DEFINE g == Address(v)
  <1>1. /\ g \in Seq(Lines) /\ DOMAIN g = {1, 2, 3}
        /\ g[1] = Sec("relay") /\ g[2] = Key("host", v) /\ g[3] = Key("port", v)
    <2>1. Sec("relay") \in Lines /\ Key("host", v) \in Lines /\ Key("port", v) \in Lines
      BY DEF Lines, Sec, Key, Keys
    <2> QED
      BY <2>1 DEF Address
  <1>2. /\ g[2] # Sec("relay") /\ g[3] # Sec("relay")
        /\ IsKey(g, 2, "host") /\ IsKey(g, 3, "port") /\ ~ IsSec(g, 2) /\ ~ IsKey(g, 2, "port")
        /\ g[2][3] = v /\ g[3][3] = v
    BY <1>1 DEF Sec, Key, IsKey, IsSec
  <1> HIDE DEF g
  <1>3. SectionOf("host") = "relay" /\ SectionOf("port") = "relay"
    BY DEF SectionOf
  <1>4. HeadAt(g, "relay", 1) /\ 1 \in DOMAIN g
    BY <1>1, <1>2 DEF HeadAt
  <1>5. Found(g, "host", 2)
    <2>1. \A i \in DOMAIN g : ~(1 < i /\ i < 2)
      BY <1>1
    <2> QED
      BY <1>1, <1>2, <1>3, <1>4, <2>1 DEF Found
  <1>6. Found(g, "port", 3)
    <2>1. \A i \in DOMAIN g : 1 < i /\ i < 3 => i = 2
      BY <1>1
    <2> QED
      BY <1>1, <1>2, <1>3, <1>4, <2>1 DEF Found
  <1> QED
    BY <1>1, <1>2, <1>5, <1>6, FoundIsKeyLine DEF g

-----------------------------------------------------------------------------
(***************************************************************************)
(* The inductive invariant                                                 *)
(***************************************************************************)
\* Where a saver is inside a call of ini_puts, and inside a save at all.
Inside == {"put_create", "put_fill", "put_look", "put_rewrite", "put_over", "put_temp",
           "put_reopen", "put_copy", "put_remove", "put_rename"}
Busy   == Inside \cup {"put", "txt_open", "txt_write", "alt_open", "alt_write"}
Places == Busy \cup {"idle", "open", "read", "connected", "halted"}

Texts  == Seq(Lines)
Reads  == [why : {"done", "check", "status", "relay"}, file : {"ini", "txt", "alt"}, key : Keys]
Calls  == [val : Values \cup {0}, key : Keys, clean : BOOLEAN]

\* The variables other than the card have their types.
TypesInv ==
  /\ fd \in [Threads -> [Files -> {Closed, Bound, Empty}]]
  /\ pc \in [Threads -> Places] /\ rd \in [Threads -> Reads] /\ call \in [Savers -> Calls]
  /\ saves \in 0..MaxSaves /\ faults \in 0..MaxFaults
  /\ kept \in [Keys -> Values \cup {0}] /\ address \in Values \cup {0} /\ due \in Values \cup {0}
  /\ torn \in {0, 1} /\ lost \in {0, 1}

\* One thread saves at a time, a value it was given.
OneSaver ==
  \A t \in Threads : pc[t] \in Busy =>
    /\ t \in Savers /\ call[t].val # 0
    /\ \A u \in Threads : pc[u] \in Busy => u = t

\* What a thread may have open, by its place; one that was stopped, anything.
MayHave(t, f) ==
  \/ f = "ini" /\ pc[t] \in {"put_look", "put_fill", "put_over", "put_copy"}
  \/ f = "tmp" /\ pc[t] \in {"put_reopen", "put_copy"}
  \/ f = "txt" /\ pc[t] = "txt_write"
  \/ f = "alt" /\ pc[t] = "alt_write"
  \/ f = rd[t].file /\ pc[t] = "read"
  \/ pc[t] = "halted"

OpenInv ==
  \A t \in Threads : \A f \in Files :
    fd[t][f] # Closed => MayHave(t, f) /\ (f = "ini" => disk[f] # Missing)

\* The copy belongs to the thread that makes it until it is renamed.
CopyInv ==
  \A t \in Savers :
    /\ pc[t] \in {"put_reopen", "put_copy"} /\ fd[t]["tmp"] # Empty => Alone(t, "tmp")
    /\ pc[t] \in {"put_remove", "put_rename"} => ~ InUse("tmp")

\* data.ini and its copy, step by step.
StepOf(t) ==
  /\ pc[t] \in Inside \ {"put_create", "put_rename"} => disk["ini"] # Missing
  /\ pc[t] = "put_create" /\ lost = 0 => disk["ini"] = Missing
  /\ pc[t] = "put_fill" /\ lost = 0 => disk["ini"] = <<>>
  /\ pc[t] = "put_fill" => \A k \in Keys : kept[k] = 0
  /\ pc[t] \in Inside => kept[call[t].key] = 0
  /\ pc[t] \in {"put_rewrite", "put_over"} => KeyLine(disk["ini"], call[t].key) # 0
  /\ pc[t] = "put_remove" /\ lost = 0 => disk["tmp"] = Copied(disk["ini"], call[t].key, call[t].val)
  /\ pc[t] = "put_rename" /\ lost = 0 /\ disk["ini"] = Missing
       => disk["tmp"] # Missing /\ Value(disk["tmp"], call[t].key) = call[t].val

StepInv == \A t \in Savers : StepOf(t)

\* data.ini is away only between its removal and the rename, or on a card on
\* which nothing was reported saved.
AwayInv ==
  lost = 0 /\ torn = 0 /\ disk["ini"] = Missing
    => (\E t \in Savers : pc[t] = "put_rename") \/ \A k \in Keys : kept[k] = 0

\* What a load of the relay address would find once the save under way has
\* renamed its copy.
IniNow == IF disk["ini"] = Missing /\ \E t \in Savers : pc[t] = "put_rename" THEN disk["tmp"] ELSE disk["ini"]
Source == IF Value(disk["txt"], "host") # 0 THEN disk["txt"] ELSE
          IF Value(IniNow, "host") # 0 THEN IniNow ELSE disk["alt"]

\* A save of the relay address, step by step, and what it leaves behind.
RelayInv ==
  \A t \in Savers : pc[t] \in Busy =>
    /\ pc[t] \in {"txt_open", "txt_write"} => call[t].key = "host"
    /\ pc[t] \in {"alt_open", "alt_write"} => call[t].key \in {"host", "port"}
    /\ call[t].key = "port" /\ call[t].clean /\ lost = 0 /\ torn = 0 => kept["host"] = call[t].val

\* What a load finds in /ai_relay.txt is due, whole; what is due is the address
\* last reported saved, or the older one that file still has; and while
\* data.ini and the last resort are being written, or after the truncation,
\* nothing else is due.
TextHas == Value(disk["txt"], "host") # 0
DueInv ==
  /\ TextHas => due # 0 /\ disk["txt"] = Address(due)
  /\ due # 0 => due = address \/ TextHas
  /\ \A t \in Savers :
       /\ pc[t] \in Inside \cup {"alt_open", "alt_write"} /\ call[t].key \in {"host", "port"} => due = 0 \/ TextHas
       /\ pc[t] = "txt_write" => fd[t]["txt"] # Closed /\ (fd[t]["txt"] = Bound => due = 0)

\* What is due is what a load finds, wherever it is.
AddressInv ==
  due # 0 /\ lost = 0 /\ torn = 0 => Value(Source, "host") = due /\ Value(Source, "port") = due

\* One thread at most has the file object of a file.
BoundInv ==
  \A f \in Files : \A t, u \in Threads : fd[t][f] = Bound /\ fd[u][f] = Bound => t = u

\* As long as nothing failed and no file is shared, every relay address goes to
\* /ai_relay.txt, and the one last reported saved is due.
CalmInv ==
  ~ Disturbed =>
    /\ lost = 0 /\ torn = 0
    /\ due = address \/ \E t \in Savers : pc[t] = "txt_write"
    /\ \A t \in Savers : pc[t] \in Busy /\ call[t].key \in {"host", "port"} => pc[t] \in {"txt_open", "txt_write"}

CardInv == disk \in [Files -> Texts] /\ WellFormed(disk["ini"]) /\ WellFormed(disk["tmp"])

SettingsInv == /\ TypesInv /\ CardInv /\ OneSaver /\ OpenInv /\ CopyInv /\ StepInv /\ AwayInv
               /\ ReportedIsKept /\ RelayInv /\ DueInv /\ AddressInv /\ BoundInv /\ CalmInv

-----------------------------------------------------------------------------
(***************************************************************************)
(* The file layer and the return of ini_puts, line by line                 *)
(***************************************************************************)
\* A thread opens or closes one file.
LEMMA OpenedAt ==
  ASSUME TypesInv, NEW t \in Threads, NEW f \in Files, fd' = Opened(t, f)
  PROVE  /\ fd' \in [Threads -> [Files -> {Closed, Bound, Empty}]]
         /\ \A u \in Threads : \A g \in Files :
              fd'[u][g] = IF u = t /\ g = f THEN (IF InUse(f) THEN Empty ELSE Bound) ELSE fd[u][g]
  <1> DEFINE x == IF InUse(f) THEN Empty ELSE Bound
  <1>1. x \in {Closed, Bound, Empty} /\ fd' = [fd EXCEPT ![t][f] = x]
    BY DEF Opened
  <1> HIDE DEF x
  <1>2. \A u \in Threads : \A g \in Files : fd'[u][g] = IF u = t /\ g = f THEN x ELSE fd[u][g]
    BY <1>1 DEF TypesInv
  <1>3. fd' \in [Threads -> [Files -> {Closed, Bound, Empty}]]
    BY <1>1 DEF TypesInv
  <1> QED
    BY <1>2, <1>3 DEF x

LEMMA ShutAt ==
  ASSUME TypesInv, NEW t \in Threads, NEW f \in Files, fd' = Shut(t, f)
  PROVE  /\ fd' \in [Threads -> [Files -> {Closed, Bound, Empty}]]
         /\ \A u \in Threads : \A g \in Files : fd'[u][g] = IF u = t /\ g = f THEN Closed ELSE fd[u][g]
  BY DEF TypesInv, Shut

\* The caller of ini_puts goes on with the next key, with another file, or ends.
LEMMA ReturnedAt ==
  ASSUME TypesInv, NEW t \in Savers, NEW r \in {0, 1}, NEW clean \in BOOLEAN, PutReturns(t, r, clean)
  PROVE  /\ \A u \in Threads : u # t => pc'[u] = pc[u]
         /\ \A u \in Savers : u # t => call'[u] = call[u]
         /\ pc' \in [Threads -> Places] /\ call' \in [Savers -> Calls]
         /\ kept' \in [Keys -> Values \cup {0}] /\ address' \in Values \cup {0} /\ due' \in Values \cup {0}
         /\ \/ pc'[t] = "idle"
            \/ /\ pc'[t] = "put" /\ call[t].key = "ssid" /\ call'[t].key = "password"
               /\ call'[t].val = call[t].val
            \/ /\ pc'[t] = "put" /\ call[t].key = "host" /\ call'[t].key = "port" /\ r = 1
               /\ call'[t].val = call[t].val /\ call'[t].clean = (call[t].clean /\ clean)
            \/ /\ pc'[t] = "alt_open" /\ call[t].key \in {"host", "port"} /\ call'[t].key = call[t].key /\ r = 0
               /\ call'[t].val = call[t].val /\ call'[t].clean = (call[t].clean /\ clean)
  <1> DEFINE c == call[t]
             n == [val |-> c.val, key |-> IF r = 1 \/ c.key = "ssid" THEN NextKey(c) ELSE c.key,
                   clean |-> c.clean /\ clean]
  <1>1. t \in Threads /\ c \in Calls /\ c.val \in Values \cup {0} /\ c.key \in Keys /\ c.clean \in BOOLEAN
    BY DEF TypesInv, Threads, Calls
  <1>2. AfterPut(c, r) \in {"put", "alt_open", "idle"} /\ AfterPut(c, r) \in Places
    BY DEF AfterPut, Places, Busy
  <1>3. pc' = [pc EXCEPT ![t] = AfterPut(c, r)]
    BY DEF PutReturns, Goto
  <1>4. call' = [call EXCEPT ![t] = IF AfterPut(c, r) = "idle" THEN NoCall ELSE n]
    BY DEF PutReturns
  <1>5. NextKey(c) \in Keys
    BY DEF NextKey, Keys
  <1>6. n \in Calls /\ NoCall \in Calls
    BY <1>1, <1>5 DEF Calls, NoCall, Keys
  <1>7. n.val = c.val /\ n.key = (IF r = 1 \/ c.key = "ssid" THEN NextKey(c) ELSE c.key) /\ n.clean = (c.clean /\ clean)
    OBVIOUS
  <1> HIDE DEF n
  <1>8. pc' \in [Threads -> Places] /\ pc'[t] = AfterPut(c, r) /\ \A u \in Threads : u # t => pc'[u] = pc[u]
    BY <1>1, <1>2, <1>3 DEF TypesInv
  <1>9. call' \in [Savers -> Calls] /\ \A u \in Savers : u # t => call'[u] = call[u]
    BY <1>4, <1>6 DEF TypesInv
  <1>10. AfterPut(c, r) # "idle" => call'[t] = n
    BY <1>4 DEF TypesInv
  <1>11. kept' \in [Keys -> Values \cup {0}]
    BY <1>1 DEF PutReturns, TypesInv
  <1>12. address' \in Values \cup {0} /\ due' \in Values \cup {0}
    BY <1>1 DEF PutReturns, TypesInv
  <1>13. \/ AfterPut(c, r) = "idle"
         \/ AfterPut(c, r) = "put" /\ c.key = "ssid" /\ NextKey(c) = "password"
         \/ AfterPut(c, r) = "put" /\ c.key = "host" /\ NextKey(c) = "port" /\ r = 1
         \/ AfterPut(c, r) = "alt_open" /\ c.key \in {"host", "port"} /\ r = 0
    BY DEF AfterPut, NextKey
  <1>14. CASE AfterPut(c, r) = "idle"
    BY <1>8, <1>9, <1>11, <1>12, <1>14
  <1>15. CASE AfterPut(c, r) = "put" /\ c.key = "ssid" /\ NextKey(c) = "password"
    BY <1>7, <1>8, <1>9, <1>10, <1>11, <1>12, <1>15
  <1>16. CASE AfterPut(c, r) = "put" /\ c.key = "host" /\ NextKey(c) = "port" /\ r = 1
    BY <1>7, <1>8, <1>9, <1>10, <1>11, <1>12, <1>16
  <1>17. CASE AfterPut(c, r) = "alt_open" /\ c.key \in {"host", "port"} /\ r = 0
    BY <1>7, <1>8, <1>9, <1>10, <1>11, <1>12, <1>17
  <1> QED
    BY <1>13, <1>14, <1>15, <1>16, <1>17

-----------------------------------------------------------------------------
(***************************************************************************)
(* What every step of a save, and every other step, leaves alone           *)
(***************************************************************************)
\* Thread t goes on with its save.
Works(t) ==
  /\ pc[t] \in Busy /\ Sound(t) /\ pc'[t] \in Busy \cup {"idle"} /\ rd' = rd
  /\ \A u \in Threads : u # t => pc'[u] = pc[u] /\ \A g \in Files : fd'[u][g] = fd[u][g]
  /\ \A u \in Savers : u # t => call'[u] = call[u]
  /\ pc'[t] \in Busy => call'[t].val = call[t].val
  /\ torn' = torn /\ (lost' = 0 => lost = 0)

\* Thread t begins a save, loads, or stops.
Aside(t) ==
  /\ disk' = disk /\ kept' = kept /\ torn' = torn /\ lost' = lost
  /\ \A u \in Threads : u # t => pc'[u] = pc[u] /\ rd'[u] = rd[u] /\ \A g \in Files : fd'[u][g] = fd[u][g]
  /\ \A u \in Savers : u # t => call'[u] = call[u]
  /\ pc'[t] \notin Inside /\ pc[t] \notin {"put_remove", "put_rename"}
  /\ fd'[t]["tmp"] = fd[t]["tmp"]

Starts(t, k) ==
  /\ Aside(t) /\ \A u \in Threads : pc[u] \notin Busy
  /\ pc[t] = "idle" /\ call'[t].val # 0 /\ call'[t].key = k /\ fd' = fd /\ rd' = rd

\* A failing step is counted.
LEMMA FaultCounted ==
  ASSUME TypesInv, Fault \/ NoFault
  PROVE  faults' \in 0..MaxFaults
  BY SettingsAssumption DEF TypesInv, Fault, NoFault

LEMMA PutWorks ==
  ASSUME TypesInv, NEW t \in Savers, Put(t)
  PROVE  Works(t) /\ TypesInv'
  <1> USE DEF Files, At, Goto
  <1>0. t \in Threads /\ call[t].key \in Keys
    BY DEF Threads, TypesInv, Calls
  <1>1. CASE PutOpen(t)
    <2>1. \/ fd' = fd \/ fd' = Opened(t, "ini")
      BY <1>1 DEF PutOpen
    <2>2. /\ fd' \in [Threads -> [Files -> {Closed, Bound, Empty}]]
          /\ \A u \in Threads : u # t => \A g \in Files : fd'[u][g] = fd[u][g]
      BY <1>0, <2>1, OpenedAt DEF TypesInv
    <2>3. faults' \in 0..MaxFaults
      BY <1>1, FaultCounted DEF PutOpen
    <2>4. /\ pc' \in [Threads -> Places] /\ \A u \in Threads : u # t => pc'[u] = pc[u]
          /\ pc[t] \in Busy /\ pc'[t] \in Busy
      BY <1>0, <1>1 DEF PutOpen, TypesInv, Places, Busy, Inside
    <2>5. kept' \in [Keys -> Values \cup {0}] /\ due' \in Values \cup {0}
      BY <1>1 DEF PutOpen, TypesInv
    <2>6. lost' \in {0, 1} /\ (lost' = 0 => lost = 0)
      BY <1>1 DEF PutOpen, TypesInv
    <2> QED
      BY <1>1, <2>2, <2>3, <2>4, <2>5, <2>6 DEF PutOpen, Works, TypesInv
  <1>2. CASE PutCreate(t)
    <2>1. CASE PutReturns(t, 0, TRUE) /\ fd' = fd /\ Fault
      <3>1. faults' \in 0..MaxFaults
        BY <2>1, FaultCounted
      <3> QED
        BY <1>0, <1>2, <2>1, <3>1, ReturnedAt DEF PutCreate, Works, TypesInv, Busy, Inside
    <2>2. CASE NoFault /\ fd' = Opened(t, "ini") /\ pc' = [pc EXCEPT ![t] = "put_fill"] /\ UNCHANGED <<call, address, due>>
               /\ kept' = [k \in Keys |-> 0]
      <3>1. faults' \in 0..MaxFaults
        BY <2>2, FaultCounted
      <3>2. kept' \in [Keys -> Values \cup {0}]
        BY <2>2
      <3> QED
        BY <1>0, <1>2, <2>2, <3>1, <3>2, OpenedAt DEF PutCreate, Works, TypesInv, Places, Busy, Inside
    <2> QED
      BY <1>2, <2>1, <2>2 DEF PutCreate
  <1>3. CASE PutFill(t)
    <2>1. faults' \in 0..MaxFaults /\ (lost' = 0 => lost = 0) /\ lost' \in {0, 1}
      BY <1>3, FaultCounted DEF PutFill, TypesInv
    <2>2. PICK clean \in BOOLEAN : PutReturns(t, 1, clean)
      <3>1. Alone(t, "ini") \in BOOLEAN
        BY DEF Alone
      <3> QED
        BY <1>3, <3>1 DEF PutFill
    <2> QED
      BY <1>0, <1>3, <2>1, <2>2, ReturnedAt, ShutAt DEF PutFill, Works, TypesInv, Busy, Inside
  <1>4. CASE PutLook(t)
    <2>1. pc[t] = "put_look" /\ Sound(t) /\ fd' = Shut(t, "ini") /\ UNCHANGED <<rd, saves, faults, torn, lost>>
      BY <1>4 DEF PutLook
    <2>2. CASE PutReturns(t, 1, TRUE)
      <3>1. PICK clean \in BOOLEAN : PutReturns(t, 1, clean)
        BY <2>2
      <3> QED
        BY <1>0, <2>1, <3>1, ReturnedAt, ShutAt DEF Works, TypesInv, Busy, Inside
    <2>3. CASE /\ pc' = [pc EXCEPT ![t] = "put_rewrite"] \/ pc' = [pc EXCEPT ![t] = "put_temp"]
               /\ UNCHANGED <<call, kept, address, due>>
      BY <1>0, <2>1, <2>3, ShutAt DEF Works, TypesInv, Places, Busy, Inside
    <2> QED
      BY <1>4, <2>2, <2>3 DEF PutLook
  <1>5. CASE PutRewrite(t)
    <2>1. faults' \in 0..MaxFaults
      BY <1>5, FaultCounted DEF PutRewrite
    <2>2. CASE PutReturns(t, 0, TRUE) /\ fd' = fd
      BY <1>0, <1>5, <2>1, <2>2, ReturnedAt DEF PutRewrite, Works, TypesInv, Busy, Inside
    <2>3. CASE UNCHANGED <<call, kept, address, due>> /\ fd' = Opened(t, "ini") /\ pc' = [pc EXCEPT ![t] = "put_over"]
      BY <1>0, <1>5, <2>1, <2>3, OpenedAt DEF PutRewrite, Works, TypesInv, Places, Busy, Inside
    <2> QED
      BY <1>5, <2>2, <2>3 DEF PutRewrite
  <1>6. CASE PutOver(t)
    <2>1. faults' \in 0..MaxFaults
      BY <1>6, FaultCounted DEF PutOver
    <2>2. PICK clean \in BOOLEAN : PutReturns(t, 1, clean)
      <3>1. Alone(t, "ini") \in BOOLEAN
        BY DEF Alone
      <3> QED
        BY <1>6, <3>1 DEF PutOver
    <2> QED
      BY <1>0, <1>6, <2>1, <2>2, ReturnedAt, ShutAt DEF PutOver, Works, TypesInv, Busy, Inside
  <1>7. CASE PutTemp(t)
    <2>1. faults' \in 0..MaxFaults
      BY <1>7, FaultCounted DEF PutTemp
    <2>2. CASE PutReturns(t, 0, TRUE) /\ fd' = fd
      BY <1>0, <1>7, <2>1, <2>2, ReturnedAt DEF PutTemp, Works, TypesInv, Busy, Inside
    <2>3. CASE UNCHANGED <<call, kept, address, due>> /\ fd' = Opened(t, "tmp") /\ pc' = [pc EXCEPT ![t] = "put_reopen"]
      BY <1>0, <1>7, <2>1, <2>3, OpenedAt DEF PutTemp, Works, TypesInv, Places, Busy, Inside
    <2> QED
      BY <1>7, <2>2, <2>3 DEF PutTemp
  <1>8. CASE PutReopen(t)
    <2>1. faults' \in 0..MaxFaults /\ pc[t] = "put_reopen" /\ Sound(t) /\ UNCHANGED <<rd, saves, torn, lost>>
      BY <1>8, FaultCounted DEF PutReopen
    <2>2. CASE PutReturns(t, 1, FALSE) /\ fd' = Shut(t, "tmp")
      <3>1. PICK clean \in BOOLEAN : PutReturns(t, 1, clean)
        BY <2>2
      <3> QED
        BY <1>0, <2>1, <2>2, <3>1, ReturnedAt, ShutAt DEF Works, TypesInv, Busy, Inside
    <2>3. CASE UNCHANGED <<call, kept, address, due>> /\ fd' = Opened(t, "ini") /\ pc' = [pc EXCEPT ![t] = "put_copy"]
      BY <1>0, <2>1, <2>3, OpenedAt DEF Works, TypesInv, Places, Busy, Inside
    <2> QED
      BY <1>8, <2>2, <2>3 DEF PutReopen
  <1>9. CASE PutCopy(t)
    <2>1. faults' \in 0..MaxFaults /\ (lost' = 0 => lost = 0) /\ lost' \in {0, 1}
      BY <1>9, FaultCounted DEF PutCopy, TypesInv
    <2>2. /\ fd' \in [Threads -> [Files -> {Closed, Bound, Empty}]]
          /\ \A u \in Threads : u # t => \A g \in Files : fd'[u][g] = fd[u][g]
      BY <1>0, <1>9 DEF PutCopy, TypesInv
    <2> QED
      BY <1>0, <1>9, <2>1, <2>2 DEF PutCopy, Works, TypesInv, Places, Busy, Inside
  <1>10. CASE PutRemove(t)
    <2>1. call' \in [Savers -> Calls] /\ call'[t].val = call[t].val /\ \A u \in Savers : u # t => call'[u] = call[u]
      BY <1>10 DEF PutRemove, TypesInv, Calls
    <2> QED
      BY <1>0, <1>10, <2>1 DEF PutRemove, hist, Works, TypesInv, Places, Busy, Inside
  <1>11. CASE PutRename(t)
    <2>1. faults' \in 0..MaxFaults /\ (lost' = 0 => lost = 0) /\ lost' \in {0, 1}
      BY <1>11, FaultCounted DEF PutRename, TypesInv
    <2>2. PICK clean \in BOOLEAN : PutReturns(t, 1, clean)
      <3>1. MayRename("tmp", "ini") \in BOOLEAN
        BY DEF MayRename
      <3> QED
        BY <1>11, <3>1 DEF PutRename
    <2> QED
      BY <1>0, <1>11, <2>1, <2>2, ReturnedAt DEF PutRename, Works, TypesInv, Busy, Inside
  <1> QED
    BY <1>1, <1>2, <1>3, <1>4, <1>5, <1>6, <1>7, <1>8, <1>9, <1>10, <1>11 DEF Put

LEMMA TextWorks ==
  ASSUME TypesInv, NEW t \in Savers, TxtOpen(t) \/ TxtWrite(t) \/ AltOpen(t) \/ AltWrite(t)
  PROVE  Works(t) /\ TypesInv' /\ kept' = kept
  <1> USE DEF Files, At, Goto
  <1>0. t \in Threads /\ call[t] \in Calls /\ call[t].val \in Values \cup {0} /\ NoCall \in Calls
    BY DEF Threads, TypesInv, Calls, NoCall, Keys
  <1>1. CASE TxtOpen(t)
    <2>1. /\ faults' \in 0..MaxFaults /\ pc[t] = "txt_open" /\ Sound(t)
          /\ UNCHANGED <<rd, call, saves, kept, address, torn, lost>> /\ due' \in Values \cup {0}
      BY <1>1, FaultCounted DEF TxtOpen, TypesInv
    <2>2. CASE fd' = Opened(t, "txt") /\ pc' = [pc EXCEPT ![t] = "txt_write"]
      BY <1>0, <2>1, <2>2, OpenedAt DEF Works, TypesInv, Places, Busy, Inside
    <2>3. CASE fd' = fd /\ pc' = [pc EXCEPT ![t] = "put"]
      BY <1>0, <2>1, <2>3 DEF Works, TypesInv, Places, Busy, Inside
    <2> QED
      BY <1>1, <2>2, <2>3 DEF TxtOpen
  <1>2. CASE TxtWrite(t)
    <2>1. /\ faults' \in 0..MaxFaults /\ pc[t] = "txt_write" /\ Sound(t) /\ fd' = Shut(t, "txt")
          /\ UNCHANGED <<rd, saves, kept, torn, lost>>
      BY <1>2, FaultCounted DEF TxtWrite
    <2>2. CASE pc' = [pc EXCEPT ![t] = "idle"] /\ call' = [call EXCEPT ![t] = NoCall]
               /\ address' = call[t].val /\ due' \in {due, call[t].val}
      <3>1. address' \in Values \cup {0} /\ due' \in Values \cup {0}
        BY <1>0, <2>2 DEF TypesInv
      <3> QED
        BY <1>0, <2>1, <2>2, <3>1, ShutAt DEF Works, TypesInv, Places, Busy, Inside
    <2>3. CASE pc' = [pc EXCEPT ![t] = "put"] /\ UNCHANGED <<call, address, due>>
      BY <1>0, <2>1, <2>3, ShutAt DEF Works, TypesInv, Places, Busy, Inside
    <2> QED
      BY <1>2, <2>2, <2>3 DEF TxtWrite, Ends
  <1>3. CASE AltOpen(t)
    <2>1. /\ faults' \in 0..MaxFaults /\ pc[t] = "alt_open" /\ Sound(t)
          /\ UNCHANGED <<rd, saves, kept, address, due, torn, lost>>
      BY <1>3, FaultCounted DEF AltOpen, hist
    <2>2. CASE fd' = Opened(t, "alt") /\ pc' = [pc EXCEPT ![t] = "alt_write"] /\ UNCHANGED call
      BY <1>0, <2>1, <2>2, OpenedAt DEF Works, TypesInv, Places, Busy, Inside
    <2>3. CASE fd' = fd /\ pc' = [pc EXCEPT ![t] = "idle"] /\ call' = [call EXCEPT ![t] = NoCall]
      BY <1>0, <2>1, <2>3 DEF Works, TypesInv, Places, Busy, Inside
    <2> QED
      BY <1>3, <2>2, <2>3 DEF AltOpen, Ends
  <1>4. CASE AltWrite(t)
    <2>1. /\ faults' \in 0..MaxFaults /\ pc[t] = "alt_write" /\ Sound(t) /\ fd' = Shut(t, "alt")
          /\ UNCHANGED <<rd, saves, kept, torn, lost>>
          /\ pc' = [pc EXCEPT ![t] = "idle"] /\ call' = [call EXCEPT ![t] = NoCall]
      BY <1>4, FaultCounted DEF AltWrite, Ends
    <2>2. address' \in Values \cup {0} /\ due' \in Values \cup {0}
      BY <1>0, <1>4 DEF AltWrite, TypesInv
    <2> QED
      BY <1>0, <2>1, <2>2, ShutAt DEF Works, TypesInv, Places, Busy, Inside
  <1> QED
    BY <1>1, <1>2, <1>3, <1>4

LEMMA SaveStarts ==
  ASSUME TypesInv, OneSaver, NEW t \in Savers, NEW k \in Keys, Begin(t, k), NEW p \in Busy \ Inside, Goto(t, p),
         UNCHANGED <<rd, disk, fd, faults, hist>>
  PROVE  Starts(t, k) /\ TypesInv' /\ pc'[t] = p
  <1>1. t \in Threads /\ pc[t] = "idle" /\ saves \in Nat /\ saves < MaxSaves
    BY SettingsAssumption DEF Threads, Begin, At, TypesInv
  <1>2. PICK v \in 1..saves + 1 : call' = [call EXCEPT ![t] = [val |-> v, key |-> k, clean |-> TRUE]]
    BY DEF Begin
  <1>3. v \in Values /\ v # 0
    BY <1>1, SettingsAssumption DEF Values
  <1>4. /\ call' \in [Savers -> Calls] /\ call'[t].val = v /\ call'[t].key = k
        /\ \A u \in Savers : u # t => call'[u] = call[u]
    BY <1>2, <1>3 DEF TypesInv, Calls
  <1>5. \A u \in Threads : pc[u] \notin Busy
    BY DEF Begin, Saving, OneSaver, Busy, Inside
  <1>6. pc' \in [Threads -> Places] /\ pc'[t] = p /\ \A u \in Threads : u # t => pc'[u] = pc[u]
    BY <1>1 DEF Goto, TypesInv, Places
  <1>7. saves' \in 0..MaxSaves
    BY <1>1, SettingsAssumption DEF Begin
  <1> QED
    BY <1>1, <1>3, <1>4, <1>5, <1>6, <1>7 DEF Starts, Aside, TypesInv, hist

\* A load goes on with a file the relay address or the credentials may be in.
LEMMA NextRead ==
  ASSUME NEW r \in Reads, NEW v
  PROVE  Then(r, v) \in Reads
  <1>1. r.why \in {"done", "check", "status", "relay"} /\ r.file \in {"ini", "txt", "alt"}
    BY DEF Reads
  <1>2. /\ Read("relay", r.file, "port") \in Reads /\ Read("relay", "ini", "host") \in Reads
        /\ Read("relay", "alt", "host") \in Reads /\ Read(r.why, "ini", "password") \in Reads
        /\ Read("check", "ini", "ssid") \in Reads /\ Read("status", "ini", "ssid") \in Reads /\ Done \in Reads
    BY <1>1 DEF Read, Done, Reads, Keys
  <1> QED
    BY <1>2, Zenon DEF Then

LEMMA LoadsAside ==
  ASSUME TypesInv, NEW t \in Threads, (t \in Loaders /\ LoadRelay(t)) \/ LoadOpen(t) \/ LoadRead(t)
  PROVE  /\ Aside(t) /\ TypesInv' /\ pc'[t] \notin Busy /\ pc[t] \notin Busy /\ call' = call /\ address' = address /\ due' = due
  <1> USE DEF Files, At, Goto, hist
  <1>0. rd[t] \in Reads /\ rd[t].file \in {"ini", "txt", "alt"} /\ Read("relay", "txt", "host") \in Reads
    BY DEF TypesInv, Reads, Read, Keys
  <1>1. ASSUME NEW v, LoadGoesOn(t, v)
        PROVE  /\ rd' \in [Threads -> Reads] /\ \A u \in Threads : u # t => rd'[u] = rd[u] /\ pc'[u] = pc[u]
               /\ pc' \in [Threads -> Places] /\ pc'[t] \in {"open", "connected", "idle"}
    <2>1. Then(rd[t], v) \in Reads
      BY <1>0, NextRead
    <2>2. rd' = [rd EXCEPT ![t] = Then(rd[t], v)]
      BY <1>1 DEF LoadGoesOn
    <2>3. PICK p \in {"open", "connected", "idle"} : pc' = [pc EXCEPT ![t] = p]
      BY <1>1 DEF LoadGoesOn
    <2> QED
      BY <2>1, <2>2, <2>3 DEF TypesInv, Places
  <1>2. CASE LoadRelay(t)
    BY <1>0, <1>2 DEF LoadRelay, Aside, TypesInv, Places, Busy, Inside
  <1>3. CASE LoadOpen(t)
    <2>1. /\ pc[t] = "open" /\ UNCHANGED <<disk, call, saves, kept, address, due, torn, lost>>
          /\ faults' \in 0..MaxFaults
      BY <1>3, FaultCounted DEF LoadOpen
    <2>2. CASE fd' = Opened(t, rd[t].file) /\ pc' = [pc EXCEPT ![t] = "read"] /\ UNCHANGED rd
      BY <1>0, <2>1, <2>2, OpenedAt DEF Aside, TypesInv, Places, Busy, Inside
    <2>3. CASE LoadGoesOn(t, 0) /\ UNCHANGED fd
      BY <1>1, <2>1, <2>3 DEF Aside, TypesInv, Busy, Inside
    <2> QED
      BY <1>3, <2>2, <2>3 DEF LoadOpen
  <1>4. CASE LoadRead(t)
    <2>1. /\ pc[t] = "read" /\ UNCHANGED <<disk, call, saves, faults, kept, address, due, torn, lost>>
          /\ fd' = Shut(t, rd[t].file)
      BY <1>4 DEF LoadRead
    <2>2. PICK v : LoadGoesOn(t, v)
      BY <1>4 DEF LoadRead
    <2> QED
      BY <1>0, <1>1, <2>1, <2>2, ShutAt DEF Aside, TypesInv, Busy, Inside
  <1> QED
    BY <1>2, <1>3, <1>4

\* A thread stops in RT_ASSERT only while it has a file open.
LEMMA HaltsAside ==
  ASSUME TypesInv, OpenInv, NEW t \in Threads, Halt(t)
  PROVE  /\ Aside(t) /\ TypesInv' /\ pc'[t] = "halted" /\ call' = call /\ address' = address /\ due' = due /\ fd' = fd
  <1>1. PICK f \in Files : fd[t][f] # Closed
    BY DEF Halt, Sound, Closed, Empty
  <1>2. pc[t] \notin {"put_remove", "put_rename"}
    BY <1>1 DEF OpenInv, MayHave
  <1> QED
    BY <1>2 DEF Halt, Goto, hist, Aside, TypesInv, Places, Busy, Inside

LEMMA PowerTypes ==
  ASSUME TypesInv, PowerLoss
  PROVE  TypesInv'
  <1>1. NoCall \in Calls /\ Done \in Reads /\ Read("check", "ini", "ssid") \in Reads
    BY DEF NoCall, Calls, Done, Read, Reads, Keys
  <1>2. faults' \in 0..MaxFaults
    BY FaultCounted DEF PowerLoss
  <1>3. /\ fd' \in [Threads -> [Files -> {Closed, Bound, Empty}]] /\ pc' \in [Threads -> Places]
        /\ rd' \in [Threads -> Reads] /\ call' \in [Savers -> Calls] /\ torn' \in {0, 1}
    BY <1>1 DEF PowerLoss, Places, TypesInv
  <1> QED
    BY <1>2, <1>3 DEF PowerLoss, TypesInv

-----------------------------------------------------------------------------
(***************************************************************************)
(* The card: what each step of a save does to the files                    *)
(***************************************************************************)
LEMMA WroteAt ==
  ASSUME CardInv, NEW f \in Files, NEW c \in Texts, disk' = disk \/ disk' = [disk EXCEPT ![f] = c],
         f \in {"ini", "tmp"} => WellFormed(c)
  PROVE  /\ CardInv' /\ disk'[f] \in {disk[f], c}
         /\ \A g \in Files : g # f => disk'[g] = disk[g]
  BY DEF CardInv, Files

LEMMA SaverHasCall ==
  ASSUME TypesInv, OneSaver, NEW t \in Savers, pc[t] \in Busy
  PROVE  /\ t \in Threads /\ call[t].key \in Keys /\ call[t].val \in Values \cup {0} /\ call[t].val # 0
         /\ \A u \in Threads : u # t => pc[u] \notin Busy
  BY DEF TypesInv, OneSaver, Calls, Threads

LEMMA PutCard ==
  ASSUME SettingsInv, NEW t \in Savers, Put(t)
  PROVE  /\ CardInv' /\ disk'["txt"] = disk["txt"] /\ disk'["alt"] = disk["alt"]
         /\ disk'["ini"] = Missing => disk["ini"] = Missing \/ ~ InUse("ini")
  <1> DEFINE k == call[t].key
             v == call[t].val
             f == disk["ini"]
  <1>1. pc[t] \in Busy
    BY PutWorks DEF SettingsInv, Works
  <1>2. k \in Keys /\ v \in Values \cup {0} /\ v # 0
    BY <1>1, SaverHasCall DEF SettingsInv
  <1>3. CardInv /\ f \in Texts /\ WellFormed(f) /\ disk["tmp"] \in Texts /\ WellFormed(disk["tmp"])
    BY DEF SettingsInv, CardInv, Files
  <1>4. /\ NewFile(k, v) \in Texts /\ WellFormed(NewFile(k, v)) /\ NewFile(k, v) # Missing
        /\ Copied(f, k, v) \in Texts /\ WellFormed(Copied(f, k, v)) /\ Copied(f, k, v) # Missing
        /\ <<>> \in Texts /\ WellFormed(<<>>) /\ <<>> # Missing /\ Missing \in Texts /\ WellFormed(Missing)
    BY <1>2, <1>3, NewFileReads, CopyReads, EmptyReads DEF Texts
  <1>5. "ini" \in Files /\ "tmp" \in Files /\ "txt" \in Files /\ "alt" \in Files
    BY DEF Files
  <1>6. CASE disk' = disk
    BY <1>3, <1>6 DEF CardInv
  <1>7. CASE disk' = [disk EXCEPT !["ini"] = <<>>] \/ disk' = [disk EXCEPT !["ini"] = NewFile(k, v)]
    BY <1>3, <1>4, <1>5, <1>7, WroteAt
  <1>8. CASE disk' = [disk EXCEPT !["tmp"] = <<>>] \/ disk' = [disk EXCEPT !["tmp"] = NewFile(k, v)]
             \/ disk' = [disk EXCEPT !["tmp"] = Copied(f, k, v)]
    BY <1>3, <1>4, <1>5, <1>8, WroteAt
  <1>9. CASE disk' = [disk EXCEPT !["ini"] = Rewritten(f, k, v)] /\ KeyLine(f, k) # 0
    <2>1. Rewritten(f, k, v) \in Texts /\ WellFormed(Rewritten(f, k, v)) /\ Rewritten(f, k, v) # Missing
      BY <1>2, <1>3, <1>9, RewriteReads, EmptyReads DEF Texts
    <2> QED
      BY <1>3, <1>5, <1>9, <2>1, WroteAt
  <1>10. CASE disk' = [disk EXCEPT !["ini"] = Missing] /\ ~ InUse("ini")
    BY <1>3, <1>4, <1>5, <1>10, WroteAt
  <1>11. CASE disk' = [disk EXCEPT !["ini"] = disk["tmp"], !["tmp"] = Missing]
              /\ disk["tmp"] # Missing
    BY <1>3, <1>4, <1>11 DEF CardInv, Files
  <1> HIDE DEF k, v, f
  <1>12. CASE PutOpen(t) \/ PutLook(t) \/ PutRewrite(t)
    BY <1>6, <1>12 DEF PutOpen, PutLook, PutRewrite
  <1>13. CASE PutCreate(t)
    BY <1>6, <1>7, <1>13 DEF PutCreate, Truncated
  <1>14. CASE PutFill(t)
    BY <1>6, <1>7, <1>14 DEF PutFill, Wrote, k, v
  <1>15. CASE PutOver(t)
    <2>1. KeyLine(f, k) # 0
      BY <1>15 DEF PutOver, At, SettingsInv, StepInv, StepOf, k, f
    <2> QED
      BY <1>6, <1>9, <1>15, <2>1 DEF PutOver, Wrote, k, v, f
  <1>16. CASE PutTemp(t)
    BY <1>6, <1>8, <1>16 DEF PutTemp, Truncated
  <1>17. CASE PutReopen(t)
    BY <1>6, <1>8, <1>17 DEF PutReopen, Wrote, k, v
  <1>18. CASE PutCopy(t)
    BY <1>6, <1>8, <1>18 DEF PutCopy, Wrote, k, v, f
  <1>19. CASE PutRemove(t)
    BY <1>6, <1>10, <1>19 DEF PutRemove, Removed
  <1>20. CASE PutRename(t)
    BY <1>6, <1>11, <1>20 DEF PutRename, Renamed, MayRename
  <1> QED
    BY <1>12, <1>13, <1>14, <1>15, <1>16, <1>17, <1>18, <1>19, <1>20 DEF Put

LEMMA TextCard ==
  ASSUME SettingsInv, NEW t \in Savers, TxtOpen(t) \/ TxtWrite(t) \/ AltOpen(t) \/ AltWrite(t)
  PROVE  CardInv' /\ disk'["ini"] = disk["ini"] /\ disk'["tmp"] = disk["tmp"]
  <1> DEFINE v == call[t].val
  <1>1. pc[t] \in Busy
    BY TextWorks DEF SettingsInv, Works
  <1>2. CardInv /\ Address(v) \in Texts /\ <<>> \in Texts
    BY <1>1, SaverHasCall, AddressReads, EmptyReads DEF SettingsInv, Texts
  <1>3. "ini" \in Files /\ "tmp" \in Files /\ "txt" \in Files /\ "alt" \in Files
    BY DEF Files
  <1>4. PICK g \in {"txt", "alt"}, c \in Texts : disk' = disk \/ disk' = [disk EXCEPT ![g] = c]
    BY <1>2 DEF TxtOpen, TxtWrite, AltOpen, AltWrite, Truncated, Wrote
  <1> QED
    BY <1>2, <1>3, <1>4, WroteAt

-----------------------------------------------------------------------------
(***************************************************************************)
(* Who saves, and who has which file open                                  *)
(***************************************************************************)
LEMMA OneSaverStep ==
  ASSUME SettingsInv, NEW t \in Threads
  PROVE  /\ t \in Savers /\ Works(t) => OneSaver'
         /\ \A k : t \in Savers /\ Starts(t, k) => OneSaver'
         /\ Aside(t) /\ pc'[t] \notin Busy /\ call' = call => OneSaver'
  <1>1. OneSaver /\ \A u \in Savers : u \in Threads
    BY DEF SettingsInv, Threads
  <1>2. ASSUME t \in Savers, Works(t) PROVE OneSaver'
    BY <1>1, <1>2 DEF Works, OneSaver
  <1>3. ASSUME NEW k, t \in Savers, Starts(t, k) PROVE OneSaver'
    BY <1>1, <1>3 DEF Starts, Aside, OneSaver
  <1>4. ASSUME Aside(t), pc'[t] \notin Busy, call' = call PROVE OneSaver'
    BY <1>1, <1>4 DEF Aside, OneSaver
  <1> QED
    BY <1>2, <1>3, <1>4

\* A step of a save: it is enough to look at the saver's own files.
LEMMA WorksOpen ==
  ASSUME SettingsInv, NEW t \in Savers, Works(t),
         disk'["ini"] = Missing => disk["ini"] = Missing \/ ~ InUse("ini"),
         \A f \in Files : fd'[t][f] # Closed => MayHave(t, f)' /\ (f = "ini" => disk'[f] # Missing)
  PROVE  OpenInv'
  <1> SUFFICES ASSUME NEW u \in Threads, NEW f \in Files, fd'[u][f] # Closed
               PROVE  MayHave(u, f)' /\ (f = "ini" => disk'[f] # Missing)
    BY DEF OpenInv
  <1>1. CASE u = t
    BY <1>1
  <1>2. CASE u # t
    <2>1. fd[u][f] # Closed /\ pc'[u] = pc[u] /\ rd' = rd
      BY <1>2 DEF Works
    <2>2. MayHave(u, f) /\ (f = "ini" => disk[f] # Missing /\ InUse(f))
      BY <2>1 DEF SettingsInv, OpenInv, InUse
    <2> QED
      BY <2>1, <2>2 DEF MayHave
  <1> QED
    BY <1>1, <1>2

LEMMA PutOpens ==
  ASSUME SettingsInv, NEW t \in Savers, Put(t)
  PROVE  OpenInv'
  <1> USE DEF Files, At, Goto
  <1>1. Works(t) /\ TypesInv /\ t \in Threads
    BY PutWorks DEF SettingsInv, Threads
  <1>2. \A f \in Files : fd[t][f] # Closed => MayHave(t, f)
    BY <1>1 DEF SettingsInv, OpenInv
  <1>3. /\ disk'["ini"] = Missing => disk["ini"] = Missing \/ ~ InUse("ini")
    BY PutCard
  <1> SUFFICES ASSUME NEW f \in Files, fd'[t][f] # Closed
               PROVE  MayHave(t, f)' /\ (f = "ini" => disk'[f] # Missing)
    BY <1>1, <1>3, WorksOpen
  <1>4. pc[t] \in Busy /\ rd' = rd
    BY <1>1 DEF Works
  <1>5. pc[t] \in Inside \ {"put_create", "put_rename"} => disk["ini"] # Missing
    BY DEF SettingsInv, StepInv, StepOf
  <1>6. CASE PutOpen(t)
    <2>1. pc[t] = "put" /\ fd[t][f] = Closed
      BY <1>2, <1>6 DEF PutOpen, MayHave
    <2>2. fd' = Opened(t, "ini") /\ pc' = [pc EXCEPT ![t] = "put_look"] /\ disk["ini"] # Missing /\ disk' = disk
      BY <1>6, <2>1 DEF PutOpen
    <2>3. f = "ini"
      BY <1>1, <2>1, <2>2, OpenedAt
    <2> QED
      BY <1>1, <2>2, <2>3 DEF MayHave, TypesInv
  <1>7. CASE PutCreate(t)
    <2>1. pc[t] = "put_create" /\ fd[t][f] = Closed
      BY <1>2, <1>7 DEF PutCreate, MayHave
    <2>2. fd' = Opened(t, "ini") /\ pc' = [pc EXCEPT ![t] = "put_fill"] /\ disk' = Truncated("ini")
      BY <1>7, <2>1 DEF PutCreate
    <2>3. f = "ini"
      BY <1>1, <2>1, <2>2, OpenedAt
    <2>4. InUse("ini") => disk["ini"] # Missing
      BY DEF SettingsInv, OpenInv, InUse
    <2>5. disk'["ini"] # Missing
      BY <2>2, <2>4, EmptyReads DEF Truncated, SettingsInv, CardInv
    <2> QED
      BY <1>1, <2>2, <2>3, <2>5 DEF MayHave, TypesInv
  <1>8. CASE PutFill(t) \/ PutLook(t) \/ PutOver(t)
    <2>1. pc[t] \in {"put_fill", "put_look", "put_over"} /\ fd' = Shut(t, "ini")
      BY <1>8 DEF PutFill, PutLook, PutOver
    <2>2. f # "ini" /\ fd[t][f] # Closed
      BY <1>1, <2>1, ShutAt
    <2> QED
      BY <1>2, <2>1, <2>2 DEF MayHave
  <1>9. CASE PutRewrite(t)
    <2>1. pc[t] = "put_rewrite" /\ fd[t][f] = Closed
      BY <1>2, <1>9 DEF PutRewrite, MayHave
    <2>2. fd' = Opened(t, "ini") /\ pc' = [pc EXCEPT ![t] = "put_over"] /\ disk' = disk
      BY <1>9, <2>1 DEF PutRewrite
    <2>3. f = "ini"
      BY <1>1, <2>1, <2>2, OpenedAt
    <2> QED
      BY <1>1, <1>5, <2>1, <2>2, <2>3 DEF MayHave, TypesInv, Inside
  <1>10. CASE PutTemp(t)
    <2>1. pc[t] = "put_temp" /\ fd[t][f] = Closed
      BY <1>2, <1>10 DEF PutTemp, MayHave
    <2>2. fd' = Opened(t, "tmp") /\ pc' = [pc EXCEPT ![t] = "put_reopen"]
      BY <1>10, <2>1 DEF PutTemp
    <2>3. f = "tmp"
      BY <1>1, <2>1, <2>2, OpenedAt
    <2> QED
      BY <1>1, <2>2, <2>3 DEF MayHave, TypesInv
  <1>11. CASE PutReopen(t)
    <2>1. pc[t] = "put_reopen" /\ (fd[t][f] # Closed => f = "tmp")
      BY <1>2, <1>11 DEF PutReopen, MayHave
    <2>2. CASE fd' = Opened(t, "ini") /\ pc' = [pc EXCEPT ![t] = "put_copy"] /\ disk' = disk
      <3>1. f = "ini" \/ f = "tmp"
        BY <1>1, <2>1, <2>2, OpenedAt
      <3> QED
        BY <1>1, <1>5, <2>1, <2>2, <3>1 DEF MayHave, TypesInv, Inside
    <2>3. CASE fd' = Shut(t, "tmp")
      BY <1>1, <2>1, <2>3, ShutAt
    <2> QED
      BY <1>11, <2>2, <2>3 DEF PutReopen
  <1>12. CASE PutCopy(t)
    <2>1. pc[t] = "put_copy" /\ (fd[t][f] # Closed => f = "tmp" \/ f = "ini")
      BY <1>2, <1>12 DEF PutCopy, MayHave
    <2>2. fd' = [fd EXCEPT ![t]["ini"] = Closed, ![t]["tmp"] = Closed]
      BY <1>12 DEF PutCopy
    <2>3. fd'[t]["ini"] = Closed /\ fd'[t]["tmp"] = Closed /\ (f \notin {"ini", "tmp"} => fd'[t][f] = fd[t][f])
      BY <1>1, <2>2 DEF TypesInv
    <2> QED
      BY <2>1, <2>3
  <1>13. CASE PutRemove(t) \/ PutRename(t)
    BY <1>2, <1>13 DEF PutRemove, PutRename, MayHave
  <1> QED
    BY <1>6, <1>7, <1>8, <1>9, <1>10, <1>11, <1>12, <1>13 DEF Put

LEMMA TextOpens ==
  ASSUME SettingsInv, NEW t \in Savers, TxtOpen(t) \/ TxtWrite(t) \/ AltOpen(t) \/ AltWrite(t)
  PROVE  OpenInv'
  <1> USE DEF Files, At, Goto
  <1>1. Works(t) /\ TypesInv /\ t \in Threads
    BY TextWorks DEF SettingsInv, Threads
  <1>2. \A f \in Files : fd[t][f] # Closed => MayHave(t, f)
    BY <1>1 DEF SettingsInv, OpenInv
  <1>3. /\ disk'["ini"] = Missing => disk["ini"] = Missing \/ ~ InUse("ini")
    BY TextCard
  <1> SUFFICES ASSUME NEW f \in Files, fd'[t][f] # Closed
               PROVE  MayHave(t, f)' /\ (f = "ini" => disk'[f] # Missing)
    BY <1>1, <1>3, WorksOpen
  <1>4. CASE TxtOpen(t) \/ AltOpen(t)
    <2>1. pc[t] \in {"txt_open", "alt_open"} /\ fd[t][f] = Closed
      BY <1>2, <1>4 DEF TxtOpen, AltOpen, MayHave
    <2>2. \/ fd' = Opened(t, "txt") /\ pc' = [pc EXCEPT ![t] = "txt_write"]
          \/ fd' = Opened(t, "alt") /\ pc' = [pc EXCEPT ![t] = "alt_write"]
      BY <1>4, <2>1 DEF TxtOpen, AltOpen
    <2> QED
      BY <1>1, <2>1, <2>2, OpenedAt DEF MayHave, TypesInv
  <1>5. CASE TxtWrite(t) \/ AltWrite(t)
    <2>1. \/ pc[t] = "txt_write" /\ fd' = Shut(t, "txt")
          \/ pc[t] = "alt_write" /\ fd' = Shut(t, "alt")
      BY <1>5 DEF TxtWrite, AltWrite
    <2> QED
      BY <1>1, <1>2, <2>1, ShutAt DEF MayHave
  <1> QED
    BY <1>4, <1>5

LEMMA AsideOpens ==
  ASSUME SettingsInv, NEW t \in Threads, Aside(t),
         \A f \in Files : fd'[t][f] # Closed => MayHave(t, f)' /\ (f = "ini" => disk[f] # Missing)
  PROVE  OpenInv'
  <1> SUFFICES ASSUME NEW u \in Threads, NEW f \in Files, fd'[u][f] # Closed, u # t
               PROVE  MayHave(u, f)' /\ (f = "ini" => disk'[f] # Missing)
    BY DEF OpenInv, Aside
  <1>1. fd[u][f] # Closed /\ pc'[u] = pc[u] /\ rd'[u] = rd[u] /\ disk' = disk
    BY DEF Aside
  <1> QED
    BY <1>1 DEF SettingsInv, OpenInv, MayHave

LEMMA LoadsOpen ==
  ASSUME SettingsInv, NEW t \in Threads, (t \in Loaders /\ LoadRelay(t)) \/ LoadOpen(t) \/ LoadRead(t)
  PROVE  OpenInv'
  <1> USE DEF Files, At, Goto
  <1>1. Aside(t) /\ TypesInv /\ rd[t].file \in Files
    BY LoadsAside DEF SettingsInv, TypesInv, Reads
  <1>2. \A f \in Files : fd[t][f] # Closed => MayHave(t, f) /\ (f = "ini" => disk[f] # Missing)
    BY <1>1 DEF SettingsInv, OpenInv
  <1> SUFFICES ASSUME NEW f \in Files, fd'[t][f] # Closed
               PROVE  MayHave(t, f)' /\ (f = "ini" => disk[f] # Missing)
    BY <1>1, AsideOpens
  <1>3. CASE LoadRelay(t)
    BY <1>2, <1>3 DEF LoadRelay, MayHave
  <1>4. CASE LoadOpen(t)
    <2>1. fd[t][f] = Closed
      BY <1>2, <1>4 DEF LoadOpen, MayHave
    <2>2. fd' = Opened(t, rd[t].file) /\ pc' = [pc EXCEPT ![t] = "read"] /\ rd' = rd /\ disk[rd[t].file] # Missing
      BY <1>4, <2>1 DEF LoadOpen
    <2>3. f = rd[t].file
      BY <1>1, <2>1, <2>2, OpenedAt
    <2> QED
      BY <1>1, <2>2, <2>3 DEF MayHave, TypesInv
  <1>5. CASE LoadRead(t)
    <2>1. pc[t] = "read" /\ fd' = Shut(t, rd[t].file)
      BY <1>5 DEF LoadRead
    <2>2. f # rd[t].file /\ fd[t][f] # Closed
      BY <1>1, <2>1, ShutAt
    <2> QED
      BY <1>2, <2>1, <2>2 DEF MayHave
  <1> QED
    BY <1>3, <1>4, <1>5

\* A save begins with no file open, and a thread that stops keeps its files.
LEMMA OthersOpen ==
  ASSUME SettingsInv, NEW t \in Threads, Aside(t), fd' = fd, pc[t] = "idle" \/ pc'[t] = "halted"
  PROVE  OpenInv'
  <1>1. \A f \in Files : fd[t][f] # Closed => MayHave(t, f) /\ (f = "ini" => disk[f] # Missing)
    BY DEF SettingsInv, OpenInv
  <1> QED
    BY <1>1, AsideOpens DEF MayHave

\* The copy.
LEMMA CopyKept ==
  ASSUME SettingsInv, NEW t \in Threads, Aside(t)
  PROVE  CopyInv'
  <1>1. \A u \in Threads : fd'[u]["tmp"] = fd[u]["tmp"]
    BY DEF Aside, Files
  <1>2. \A u \in Savers : u \in Threads /\ (pc'[u] \in Inside => pc[u] = pc'[u])
    BY DEF Aside, Threads
  <1> QED
    BY <1>1, <1>2 DEF SettingsInv, CopyInv, Alone, InUse, Inside

LEMMA PutCopies ==
  ASSUME SettingsInv, NEW t \in Savers, Put(t)
  PROVE  CopyInv'
  <1> USE DEF Files, At, Goto
  <1>1. Works(t) /\ TypesInv /\ t \in Threads /\ CopyInv
    BY PutWorks DEF SettingsInv, Threads
  <1>2. \A u \in Threads : u # t => pc'[u] \notin Busy /\ fd'[u]["tmp"] = fd[u]["tmp"]
    BY <1>1, SaverHasCall DEF SettingsInv, Works
  <1> SUFFICES /\ pc'[t] \in {"put_reopen", "put_copy"} /\ fd'[t]["tmp"] # Empty
                    => \A u \in Threads \ {t} : fd[u]["tmp"] = Closed
               /\ pc'[t] \in {"put_remove", "put_rename"}
                    => fd'[t]["tmp"] = Closed /\ \A u \in Threads \ {t} : fd[u]["tmp"] = Closed
    BY <1>1, <1>2 DEF CopyInv, Alone, InUse, Threads, Busy, Inside
  <1>3. CASE PutTemp(t)
    <2>1. CASE fd' = Opened(t, "tmp") /\ pc' = [pc EXCEPT ![t] = "put_reopen"]
      <3>1. fd'[t]["tmp"] = IF InUse("tmp") THEN Empty ELSE Bound
        BY <1>1, <2>1, OpenedAt
      <3> QED
        BY <1>1, <2>1, <3>1 DEF InUse, TypesInv
    <2>2. CASE PutReturns(t, 0, TRUE)
      BY <1>1, <2>2, ReturnedAt
    <2> QED
      BY <1>3, <2>1, <2>2 DEF PutTemp
  <1>4. CASE PutReopen(t)
    <2>1. fd[t]["tmp"] # Empty /\ Alone(t, "tmp")
      BY <1>1, <1>4 DEF PutReopen, Sound, CopyInv
    <2>2. CASE pc' = [pc EXCEPT ![t] = "put_copy"]
      BY <1>1, <2>1, <2>2 DEF Alone, TypesInv
    <2>3. CASE PutReturns(t, 1, FALSE)
      BY <1>1, <2>3, ReturnedAt
    <2> QED
      BY <1>4, <2>2, <2>3 DEF PutReopen
  <1>5. CASE PutCopy(t)
    <2>1. fd[t]["tmp"] # Empty /\ Alone(t, "tmp")
      BY <1>1, <1>5 DEF PutCopy, Sound, CopyInv
    <2>2. fd'[t]["tmp"] = Closed
      BY <1>1, <1>5 DEF PutCopy, TypesInv
    <2> QED
      BY <2>1, <2>2 DEF Alone
  <1>6. CASE PutRemove(t)
    <2>1. ~ InUse("tmp") /\ fd' = fd
      BY <1>1, <1>6 DEF PutRemove, CopyInv
    <2> QED
      BY <1>1, <2>1 DEF InUse
  <1>7. CASE PutOpen(t) \/ PutCreate(t) \/ PutFill(t) \/ PutLook(t) \/ PutRewrite(t) \/ PutOver(t) \/ PutRename(t)
    <2>1. CASE \E r \in {0, 1}, clean \in BOOLEAN : PutReturns(t, r, clean)
      BY <1>1, <2>1, ReturnedAt
    <2>2. CASE \E p \in {"put_look", "put_create", "put_fill", "put_rewrite", "put_temp", "put_over"} :
                  pc' = [pc EXCEPT ![t] = p]
      BY <1>1, <2>2 DEF TypesInv
    <2>3. Alone(t, "ini") \in BOOLEAN /\ MayRename("tmp", "ini") \in BOOLEAN
      BY DEF Alone, MayRename
    <2> QED
      BY <1>7, <2>1, <2>2, <2>3 DEF PutOpen, PutCreate, PutFill, PutLook, PutRewrite, PutOver, PutRename
  <1> QED
    BY <1>3, <1>4, <1>5, <1>6, <1>7 DEF Put

LEMMA TextCopies ==
  ASSUME SettingsInv, NEW t \in Savers, TxtOpen(t) \/ TxtWrite(t) \/ AltOpen(t) \/ AltWrite(t)
  PROVE  CopyInv' /\ pc'[t] \notin Inside
  <1>1. Works(t) /\ TypesInv /\ t \in Threads
    BY TextWorks DEF SettingsInv, Threads
  <1>2. \A u \in Threads : u # t => pc'[u] \notin Busy
    BY <1>1, SaverHasCall DEF SettingsInv, Works
  <1>3. pc'[t] \notin Inside
    BY <1>1 DEF TxtOpen, TxtWrite, AltOpen, AltWrite, Goto, Ends, TypesInv, Inside
  <1> QED
    BY <1>2, <1>3 DEF CopyInv, Threads, Busy, Inside

-----------------------------------------------------------------------------
(***************************************************************************)
(* data.ini and its copy through a call of ini_puts                        *)
(***************************************************************************)
LEMMA AsideSteps ==
  ASSUME SettingsInv, NEW t \in Threads, Aside(t)
  PROVE  StepInv'
  <1> SUFFICES ASSUME NEW u \in Savers PROVE StepOf(u)'
    BY DEF StepInv
  <1>1. CASE u = t
    <2>1. pc'[u] \notin Inside
      BY <1>1 DEF Aside
    <2> QED
      BY <2>1 DEF StepOf, Inside
  <1>2. CASE u # t
    <2>1. u \in Threads /\ pc'[u] = pc[u] /\ call'[u] = call[u] /\ disk' = disk /\ kept' = kept /\ lost' = lost
      BY <1>2 DEF Aside, Threads
    <2>2. StepOf(u)
      BY DEF SettingsInv, StepInv
    <2> QED
      BY <2>1, <2>2 DEF StepOf
  <1> QED
    BY <1>1, <1>2

\* A saver that leaves ini_puts.
LEMMA LeavesSteps ==
  ASSUME SettingsInv, NEW t \in Savers, Works(t), pc'[t] \notin Inside \/ StepOf(t)'
  PROVE  StepInv'
  <1>1. \A u \in Threads : u # t => pc'[u] \notin Busy
    BY SaverHasCall DEF SettingsInv, Works
  <1>2. \A u \in Savers : u # t => pc'[u] \notin Inside
    BY <1>1 DEF Threads, Busy
  <1>3. \A u \in Savers : pc'[u] \notin Inside => StepOf(u)'
    BY DEF StepOf, Inside
  <1> QED
    BY <1>2, <1>3 DEF StepInv

LEMMA PutSteps ==
  ASSUME SettingsInv, NEW t \in Savers, Put(t)
  PROVE  StepInv'
  <1> USE DEF At, Goto
  <1> DEFINE k == call[t].key
             v == call[t].val
  <1>1. Works(t) /\ TypesInv /\ t \in Threads /\ StepOf(t)
    BY PutWorks DEF SettingsInv, StepInv, Threads
  <1>2. k \in Keys /\ v \in Values \cup {0} /\ v # 0
    BY <1>1, SaverHasCall DEF SettingsInv, Works
  <1>3. CASE \E r \in {0, 1}, clean \in BOOLEAN : PutReturns(t, r, clean)
    <2>1. pc'[t] \notin Inside
      BY <1>1, <1>3, ReturnedAt DEF Inside
    <2> QED
      BY <1>1, <2>1, LeavesSteps
  <1>4. Alone(t, "ini") \in BOOLEAN /\ MayRename("tmp", "ini") \in BOOLEAN
    BY DEF Alone, MayRename
  <1>5. disk["ini"] \in Texts /\ WellFormed(disk["ini"])
    BY DEF SettingsInv, CardInv, Files
  <1> HIDE DEF k, v
  <1>6. CASE PutOpen(t)
    <2>1. call' = call /\ disk' = disk /\ kept'[k] = 0
      BY <1>2, <1>6 DEF PutOpen, TypesInv, SettingsInv, k
    <2>2. \/ pc'[t] = "put_look" /\ disk["ini"] # Missing
          \/ pc'[t] = "put_create" /\ (lost' = 0 => disk["ini"] = Missing)
      BY <1>1, <1>6 DEF PutOpen, TypesInv
    <2>3. StepOf(t)'
      BY <2>1, <2>2 DEF StepOf, Inside, k
    <2> QED
      BY <1>1, <2>3, LeavesSteps
  <1>7. CASE PutCreate(t)
    <2>1. CASE PutReturns(t, 0, TRUE)
      BY <1>3, <2>1
    <2>2. CASE /\ disk' = Truncated("ini") /\ pc' = [pc EXCEPT ![t] = "put_fill"]
               /\ kept' = [l \in Keys |-> 0] /\ call' = call
      <3>1. pc[t] = "put_create" /\ lost' = lost
        BY <1>7 DEF PutCreate
      <3>2. InUse("ini") => disk["ini"] # Missing
        BY DEF SettingsInv, OpenInv, InUse, Files
      <3>3. disk'["ini"] # Missing /\ (lost' = 0 => disk'["ini"] = <<>>)
        BY <1>1, <2>2, <3>1, <3>2, EmptyReads DEF Truncated, StepOf, SettingsInv, CardInv, Files
      <3>4. pc'[t] = "put_fill" /\ \A l \in Keys : kept'[l] = 0
        BY <1>1, <2>2 DEF TypesInv
      <3>5. StepOf(t)'
        BY <1>2, <2>2, <3>3, <3>4 DEF StepOf, Inside, k
      <3> QED
        BY <1>1, <3>5, LeavesSteps
    <2> QED
      BY <1>7, <2>1, <2>2 DEF PutCreate
  <1>8. CASE PutFill(t) \/ PutOver(t) \/ PutRename(t)
    BY <1>3, <1>4, <1>8 DEF PutFill, PutOver, PutRename
  <1>9. CASE PutLook(t)
    <2>1. CASE PutReturns(t, 1, TRUE)
      BY <1>3, <2>1
    <2>2. CASE /\ pc' = [pc EXCEPT ![t] = IF Fits(disk["ini"], k, v) THEN "put_rewrite" ELSE "put_temp"]
               /\ UNCHANGED <<call, kept>>
      <3>1. pc[t] = "put_look" /\ disk' = disk /\ lost' = lost
        BY <1>9 DEF PutLook
      <3>2. \/ pc'[t] = "put_rewrite" /\ KeyLine(disk["ini"], k) # 0
            \/ pc'[t] = "put_temp"
        BY <1>1, <2>2 DEF TypesInv, Fits
      <3>3. StepOf(t)'
        BY <1>1, <2>2, <3>1, <3>2 DEF StepOf, Inside, k
      <3> QED
        BY <1>1, <3>3, LeavesSteps
    <2> QED
      BY <1>9, <2>1, <2>2 DEF PutLook, k, v
  <1>10. CASE PutRewrite(t)
    <2>1. CASE PutReturns(t, 0, TRUE)
      BY <1>3, <2>1
    <2>2. CASE pc' = [pc EXCEPT ![t] = "put_over"] /\ UNCHANGED <<call, kept>>
      <3>1. pc[t] = "put_rewrite" /\ disk' = disk /\ lost' = lost /\ pc'[t] = "put_over"
        BY <1>1, <1>10, <2>2 DEF PutRewrite, TypesInv
      <3>2. StepOf(t)'
        BY <1>1, <2>2, <3>1 DEF StepOf, Inside
      <3> QED
        BY <1>1, <3>2, LeavesSteps
    <2> QED
      BY <1>10, <2>1, <2>2 DEF PutRewrite
  <1>11. CASE PutTemp(t)
    <2>1. CASE PutReturns(t, 0, TRUE)
      BY <1>3, <2>1
    <2>2. CASE pc' = [pc EXCEPT ![t] = "put_reopen"] /\ UNCHANGED <<call, kept>> /\ disk' = Truncated("tmp")
      <3>1. pc[t] = "put_temp" /\ lost' = lost /\ pc'[t] = "put_reopen" /\ disk'["ini"] = disk["ini"]
        BY <1>1, <1>11, <2>2 DEF PutTemp, TypesInv, Truncated, SettingsInv, CardInv, Files
      <3>2. StepOf(t)'
        BY <1>1, <2>2, <3>1 DEF StepOf, Inside
      <3> QED
        BY <1>1, <3>2, LeavesSteps
    <2> QED
      BY <1>11, <2>1, <2>2 DEF PutTemp
  <1>12. CASE PutReopen(t)
    <2>1. CASE PutReturns(t, 1, FALSE)
      BY <1>3, <2>1
    <2>2. CASE pc' = [pc EXCEPT ![t] = "put_copy"] /\ UNCHANGED <<call, kept, disk>>
      <3>1. pc[t] = "put_reopen" /\ lost' = lost /\ pc'[t] = "put_copy"
        BY <1>1, <1>12, <2>2 DEF PutReopen, TypesInv
      <3>2. StepOf(t)'
        BY <1>1, <2>2, <3>1 DEF StepOf, Inside
      <3> QED
        BY <1>1, <3>2, LeavesSteps
    <2> QED
      BY <1>12, <2>1, <2>2 DEF PutReopen
  <1>13. CASE PutCopy(t)
    <2>1. pc[t] = "put_copy" /\ pc'[t] = "put_remove" /\ UNCHANGED <<call, kept>>
      BY <1>1, <1>13 DEF PutCopy, TypesInv
    <2>2. Alone(t, "tmp")
      BY <1>13 DEF PutCopy, Sound, SettingsInv, CopyInv, Files
    <2>3. disk'["ini"] = disk["ini"] /\ (lost' = 0 => disk'["tmp"] = Copied(disk["ini"], k, v))
      BY <1>13, <2>2 DEF PutCopy, Wrote, SettingsInv, CardInv, Files, k, v
    <2>4. StepOf(t)'
      BY <1>1, <2>1, <2>3 DEF StepOf, Inside, k, v
    <2> QED
      BY <1>1, <2>4, LeavesSteps
  <1>14. CASE PutRemove(t)
    <2>1. /\ pc[t] = "put_remove" /\ pc'[t] = "put_rename" /\ kept' = kept /\ lost' = lost
          /\ disk' = Removed("ini") /\ disk'["tmp"] = disk["tmp"]
      BY <1>1, <1>14 DEF PutRemove, TypesInv, hist, Removed, SettingsInv, CardInv, Files
    <2>2. call'[t].key = k /\ call'[t].val = v
      BY <1>14 DEF PutRemove, TypesInv, SettingsInv, k, v
    <2>3. lost' = 0 => disk'["tmp"] # Missing /\ Value(disk'["tmp"], k) = v
      BY <1>1, <1>2, <1>5, <2>1, CopyReads, EmptyReads DEF StepOf, Texts, k, v
    <2>4. StepOf(t)'
      BY <1>1, <2>1, <2>2, <2>3 DEF StepOf, Inside, k, v
    <2> QED
      BY <1>1, <2>4, LeavesSteps
  <1> QED
    BY <1>6, <1>7, <1>8, <1>9, <1>10, <1>11, <1>12, <1>13, <1>14 DEF Put

LEMMA TextSteps ==
  ASSUME SettingsInv, NEW t \in Savers, TxtOpen(t) \/ TxtWrite(t) \/ AltOpen(t) \/ AltWrite(t)
  PROVE  StepInv'
  BY TextWorks, TextCopies, LeavesSteps DEF SettingsInv

-----------------------------------------------------------------------------
(***************************************************************************)
(* What was reported saved                                                 *)
(***************************************************************************)
LEMMA AsideKeeps ==
  ASSUME SettingsInv, NEW t \in Threads, Aside(t)
  PROVE  AwayInv' /\ ReportedIsKept'
  <1>1. disk' = disk /\ kept' = kept /\ torn' = torn /\ lost' = lost
    BY DEF Aside
  <1>2. \A u \in Savers : pc[u] = "put_rename" => pc'[u] = "put_rename"
    BY DEF Aside, Threads
  <1> QED
    BY <1>1, <1>2 DEF SettingsInv, AwayInv, ReportedIsKept, OnCard

\* Steps that leave data.ini where and what it is, and report nothing.
LEMMA LeavesIni ==
  ASSUME SettingsInv, NEW t \in Savers, Works(t), pc[t] # "put_rename",
         disk'["ini"] = disk["ini"], disk["ini"] = Missing => disk'["tmp"] = disk["tmp"],
         \A l \in Keys : kept'[l] \in {0, kept[l]}
  PROVE  AwayInv' /\ ReportedIsKept'
  <1>1. torn' = torn /\ (lost' = 0 => lost = 0) /\ \A u \in Savers : pc[u] # "put_rename"
    BY SaverHasCall DEF SettingsInv, Works, Threads, Busy, Inside
  <1>2. AwayInv'
    BY <1>1 DEF SettingsInv, AwayInv
  <1>3. ReportedIsKept'
    BY <1>1 DEF SettingsInv, ReportedIsKept, OnCard
  <1> QED
    BY <1>2, <1>3

\* Steps after which data.ini is there, with the setting in hand.
LEMMA ChangesIni ==
  ASSUME SettingsInv, NEW t \in Savers, Works(t), disk'["ini"] # Missing,
         lost' = 0 => \A l \in Keys : kept'[l] # 0 => Value(disk'["ini"], l) = kept'[l]
  PROVE  AwayInv' /\ ReportedIsKept'
  BY DEF AwayInv, ReportedIsKept, OnCard

LEMMA PutKeeps ==
  ASSUME SettingsInv, NEW t \in Savers, Put(t)
  PROVE  AwayInv' /\ ReportedIsKept'
  <1> USE DEF At, Goto
  <1> DEFINE k == call[t].key
             v == call[t].val
             f == disk["ini"]
  <1>1. Works(t) /\ TypesInv /\ t \in Threads /\ StepOf(t) /\ CardInv
    BY PutWorks DEF SettingsInv, StepInv, Threads
  <1>2. k \in Keys /\ v \in Values \cup {0} /\ v # 0 /\ (lost' = 0 => lost = 0)
    BY <1>1, SaverHasCall DEF SettingsInv, Works
  <1>3. f \in Texts /\ WellFormed(f) /\ disk["tmp"] \in Texts
    BY DEF SettingsInv, CardInv, Files
  <1>4. ASSUME NEW r, NEW clean, PutReturns(t, r, clean)
        PROVE  \A l \in Keys : kept'[l] = IF r = 1 /\ clean /\ l = k THEN v ELSE kept[l]
    BY <1>1, <1>2, <1>4 DEF PutReturns, TypesInv
  <1>0. PutReturns(t, 0, TRUE) => kept' = kept
    BY DEF PutReturns
  <1>5. lost = 0 => \A l \in Keys : kept[l] # 0 => OnCard(l) = kept[l]
    BY DEF SettingsInv, ReportedIsKept
  <1>6. disk["ini"] # Missing => \A l \in Keys : OnCard(l) = Value(f, l)
    BY DEF OnCard
  <1> HIDE DEF k, v, f
  <1>7. CASE PutOpen(t)
    <2>1. pc[t] = "put" /\ disk' = disk /\ \A l \in Keys : kept'[l] \in {0, kept[l]}
      BY <1>1, <1>7 DEF PutOpen, TypesInv
    <2> QED
      BY <1>1, <2>1, LeavesIni
  <1>8. CASE PutCreate(t)
    <2>1. CASE kept' = [l \in Keys |-> 0]
      BY <2>1 DEF AwayInv, ReportedIsKept
    <2>2. CASE PutReturns(t, 0, TRUE) /\ disk' = disk
      <3>1. pc[t] # "put_rename" /\ \A l \in Keys : kept'[l] \in {0, kept[l]}
        BY <1>0, <1>8, <2>2 DEF PutCreate
      <3> QED
        BY <1>1, <2>2, <3>1, LeavesIni
    <2> QED
      BY <1>8, <2>1, <2>2 DEF PutCreate
  <1>9. CASE PutFill(t)
    <2>1. pc[t] = "put_fill" /\ f # Missing /\ \A l \in Keys : kept[l] = 0
      BY <1>1, <1>9 DEF PutFill, StepOf, Inside, f
    <2>2. CASE lost' = 1
      BY <2>2 DEF AwayInv, ReportedIsKept
    <2>3. CASE Alone(t, "ini") /\ disk' = [disk EXCEPT !["ini"] = NewFile(k, v)] /\ PutReturns(t, 1, Alone(t, "ini"))
      <3>1. disk'["ini"] = NewFile(k, v)
        BY <1>1, <2>3 DEF CardInv, Files
      <3>2. disk'["ini"] # Missing /\ Value(disk'["ini"], k) = v
        BY <1>2, <3>1, NewFileReads, EmptyReads
      <3>3. \A l \in Keys : kept'[l] = IF l = k THEN v ELSE 0
        BY <1>4, <2>1, <2>3
      <3> QED
        BY <1>1, <3>2, <3>3, ChangesIni
    <2>4. CASE ~ Alone(t, "ini") /\ disk' = disk /\ PutReturns(t, 1, Alone(t, "ini"))
      <3>1. \A l \in Keys : kept'[l] = kept[l]
        BY <1>4, <2>4
      <3> QED
        BY <1>1, <2>1, <2>4, <3>1, LeavesIni
    <2> QED
      BY <1>9, <2>2, <2>3, <2>4 DEF PutFill, Wrote, k, v
  <1>10. CASE PutLook(t)
    <2>1. pc[t] = "put_look" /\ f # Missing /\ disk' = disk
      BY <1>1, <1>10 DEF PutLook, StepOf, Inside, f
    <2>2. CASE Value(f, k) = v /\ PutReturns(t, 1, TRUE)
      <3>1. \A l \in Keys : kept'[l] = IF l = k THEN v ELSE kept[l]
        BY <1>4, <2>2
      <3> QED
        BY <1>1, <1>2, <1>5, <1>6, <2>1, <2>2, <3>1, ChangesIni DEF f
    <2>3. CASE kept' = kept
      BY <1>1, <2>1, <2>3, LeavesIni
    <2> QED
      BY <1>10, <2>2, <2>3 DEF PutLook, k, v, f
  <1>11. CASE PutRewrite(t)
    <2>1. pc[t] = "put_rewrite" /\ disk' = disk
      BY <1>11 DEF PutRewrite
    <2>2. \A l \in Keys : kept'[l] = kept[l]
      BY <1>0, <1>11 DEF PutRewrite
    <2> QED
      BY <1>1, <2>1, <2>2, LeavesIni
  <1>12. CASE PutOver(t)
    <2>1. pc[t] = "put_over" /\ f # Missing /\ KeyLine(f, k) # 0
      BY <1>1, <1>12 DEF PutOver, StepOf, Inside, f, k
    <2>2. CASE Alone(t, "ini") /\ disk' = [disk EXCEPT !["ini"] = Rewritten(f, k, v)] /\ PutReturns(t, 1, Alone(t, "ini"))
      <3>1. disk'["ini"] = Rewritten(f, k, v)
        BY <1>1, <2>2 DEF CardInv, Files
      <3>2. /\ disk'["ini"] # Missing /\ Value(disk'["ini"], k) = v
            /\ \A l \in Keys : l # k => Value(disk'["ini"], l) = Value(f, l)
        BY <1>2, <1>3, <2>1, <3>1, RewriteReads, EmptyReads DEF Texts
      <3>3. \A l \in Keys : kept'[l] = IF l = k THEN v ELSE kept[l]
        BY <1>4, <2>2
      <3> QED
        BY <1>1, <1>2, <1>5, <1>6, <2>1, <3>2, <3>3, ChangesIni DEF f
    <2>3. CASE disk' = disk /\ \E clean \in BOOLEAN : ~ clean /\ PutReturns(t, 1, clean)
      <3>1. \A l \in Keys : kept'[l] = kept[l]
        BY <1>4, <2>3
      <3> QED
        BY <1>1, <2>1, <2>3, <3>1, LeavesIni
    <2>4. Alone(t, "ini") \in BOOLEAN
      BY DEF Alone
    <2> QED
      BY <1>12, <2>2, <2>3, <2>4 DEF PutOver, Wrote, k, v, f
  <1>13. CASE PutTemp(t)
    <2>1. pc[t] = "put_temp" /\ f # Missing /\ disk'["ini"] = f
      BY <1>1, <1>13 DEF PutTemp, Truncated, StepOf, Inside, CardInv, Files, f
    <2>2. \A l \in Keys : kept'[l] = kept[l]
      BY <1>0, <1>13 DEF PutTemp
    <2> QED
      BY <1>1, <2>1, <2>2, LeavesIni DEF f
  <1>14. CASE PutReopen(t)
    <2>1. pc[t] = "put_reopen" /\ f # Missing /\ disk'["ini"] = f
      BY <1>1, <1>14 DEF PutReopen, Wrote, StepOf, Inside, CardInv, Files, f
    <2>2. \A l \in Keys : kept'[l] = kept[l]
      BY <1>4, <1>14 DEF PutReopen
    <2> QED
      BY <1>1, <2>1, <2>2, LeavesIni DEF f
  <1>15. CASE PutCopy(t)
    <2>1. pc[t] = "put_copy" /\ f # Missing /\ disk'["ini"] = f /\ kept' = kept
      BY <1>1, <1>15 DEF PutCopy, Wrote, StepOf, Inside, CardInv, Files, f
    <2> QED
      BY <1>1, <2>1, LeavesIni DEF f
  <1>16. CASE PutRemove(t)
    <2>1. /\ pc[t] = "put_remove" /\ f # Missing /\ kept[k] = 0 /\ kept' = kept /\ lost' = lost
          /\ pc'[t] = "put_rename" /\ disk'["tmp"] = disk["tmp"]
          /\ disk'["ini"] = Missing \/ disk'["ini"] = f
      BY <1>1, <1>16 DEF PutRemove, Removed, StepOf, Inside, CardInv, Files, TypesInv, hist, f, k
    <2>2. AwayInv'
      BY <2>1 DEF AwayInv
    <2>3. lost = 0 => \A l \in Keys : l # k => Value(disk["tmp"], l) = Value(f, l)
      BY <1>1, <1>2, <1>3, <2>1, CopyReads DEF StepOf, Texts, f, k, v
    <2>4. ReportedIsKept'
      BY <1>5, <1>6, <2>1, <2>3 DEF ReportedIsKept, OnCard, f
    <2> QED
      BY <2>2, <2>4
  <1>17. CASE PutRename(t)
    <2>1. pc[t] = "put_rename" /\ (lost = 0 /\ f = Missing => disk["tmp"] # Missing /\ Value(disk["tmp"], k) = v)
      BY <1>1, <1>17 DEF PutRename, StepOf, f, k, v
    <2>2. CASE lost' = 1
      BY <2>2 DEF AwayInv, ReportedIsKept
    <2>3. CASE MayRename("tmp", "ini") /\ disk' = Renamed("tmp", "ini") /\ PutReturns(t, 1, MayRename("tmp", "ini"))
      <3>1. disk'["ini"] = disk["tmp"] /\ disk["tmp"] # Missing /\ f = Missing
        BY <1>1, <2>3 DEF Renamed, MayRename, CardInv, Files, f
      <3>2. \A l \in Keys : kept'[l] = IF l = k THEN v ELSE kept[l]
        BY <1>4, <2>3
      <3>3. lost = 0 => \A l \in Keys : kept[l] # 0 => Value(disk["tmp"], l) = kept[l]
        BY <1>5, <3>1 DEF OnCard, f
      <3> QED
        BY <1>1, <1>2, <2>1, <3>1, <3>2, <3>3, ChangesIni
    <2>4. CASE ~ MayRename("tmp", "ini") /\ disk' = Renamed("tmp", "ini") /\ PutReturns(t, 1, MayRename("tmp", "ini"))
               /\ lost' = lost
      <3>1. disk' = disk /\ \A l \in Keys : kept'[l] = kept[l]
        BY <1>4, <2>4 DEF Renamed
      <3>2. ~ InUse("tmp")
        BY <2>1 DEF SettingsInv, CopyInv
      <3>3. lost = 0 => f # Missing
        BY <2>1, <2>4, <3>2 DEF MayRename, f
      <3> QED
        BY <1>1, <1>2, <1>5, <1>6, <2>4, <3>1, <3>3 DEF AwayInv, ReportedIsKept, OnCard, f
    <2> QED
      BY <1>17, <2>2, <2>3, <2>4 DEF PutRename
  <1> QED
    BY <1>7, <1>8, <1>9, <1>10, <1>11, <1>12, <1>13, <1>14, <1>15, <1>16, <1>17 DEF Put

LEMMA TextKeeps ==
  ASSUME SettingsInv, NEW t \in Savers, TxtOpen(t) \/ TxtWrite(t) \/ AltOpen(t) \/ AltWrite(t)
  PROVE  AwayInv' /\ ReportedIsKept'
  <1>1. Works(t) /\ kept' = kept
    BY TextWorks DEF SettingsInv
  <1>2. pc[t] # "put_rename"
    BY DEF TxtOpen, TxtWrite, AltOpen, AltWrite, At
  <1> QED
    BY <1>1, <1>2, TextCard, LeavesIni

LEMMA PowerKeeps ==
  ASSUME SettingsInv, PowerLoss
  PROVE  AwayInv' /\ ReportedIsKept'
  <1>1. disk' = disk /\ kept' = kept /\ lost' = lost
    BY DEF PowerLoss
  <1>2. AwayInv'
    BY <1>1 DEF PowerLoss, SettingsInv, AwayInv
  <1> QED
    BY <1>1, <1>2 DEF SettingsInv, ReportedIsKept, OnCard

-----------------------------------------------------------------------------
(***************************************************************************)
(* The relay address                                                       *)
(***************************************************************************)
LEMMA HoldsIs == \A f : Holds(f) <=> Value(disk[f], "host") # 0
  BY EmptyReads DEF Holds

\* ini_puts returns: the host is followed by the port, or by the last resort.
LEMMA RelayReturns ==
  ASSUME SettingsInv, NEW t \in Savers, Works(t), NEW r \in {0, 1}, NEW clean \in BOOLEAN, PutReturns(t, r, clean)
  PROVE  RelayInv'
  <1>1. TypesInv /\ pc[t] \in Busy /\ (lost' = 0 => lost = 0) /\ torn' = torn
    BY DEF SettingsInv, Works
  <1>2. \A u \in Savers : u # t => pc'[u] \notin Busy
    BY SaverHasCall DEF SettingsInv, Works, Threads
  <1>3. call[t].key = "port" /\ call[t].clean /\ lost = 0 /\ torn = 0 => kept["host"] = call[t].val
    BY <1>1 DEF SettingsInv, RelayInv
  <1> SUFFICES ASSUME pc'[t] \in Busy
               PROVE  /\ pc'[t] \in {"txt_open", "txt_write"} => call'[t].key = "host"
                      /\ pc'[t] \in {"alt_open", "alt_write"} => call'[t].key \in {"host", "port"}
                      /\ call'[t].key = "port" /\ call'[t].clean /\ lost' = 0 /\ torn' = 0
                           => kept'["host"] = call'[t].val
    BY <1>2 DEF RelayInv
  <1>4. CASE pc'[t] = "put" /\ call'[t].key = "password"
    BY <1>4
  <1>5. CASE /\ pc'[t] = "put" /\ call[t].key = "host" /\ call'[t].key = "port" /\ r = 1
             /\ call'[t].val = call[t].val /\ call'[t].clean = (call[t].clean /\ clean)
    <2>1. call'[t].clean => clean
      BY <1>5
    <2>2. clean => kept'["host"] = call[t].val
      BY <1>1, <1>5 DEF PutReturns, TypesInv, Keys
    <2> QED
      BY <1>3, <1>5, <2>1, <2>2
  <1>6. CASE /\ pc'[t] = "alt_open" /\ call[t].key \in {"host", "port"} /\ call'[t].key = call[t].key /\ r = 0
             /\ call'[t].val = call[t].val /\ call'[t].clean = (call[t].clean /\ clean)
    <2>1. kept' = kept
      BY <1>6 DEF PutReturns
    <2>2. call'[t].clean => call[t].clean
      BY <1>6
    <2> QED
      BY <1>1, <1>3, <1>6, <2>1, <2>2
  <1>7. pc'[t] # "idle"
    BY DEF Busy, Inside
  <1> QED
    BY <1>1, <1>4, <1>5, <1>6, <1>7, ReturnedAt

\* ini_puts goes on.
LEMMA RelayStays ==
  ASSUME SettingsInv, NEW t \in Savers, Works(t), call'[t].key = call[t].key,
         call'[t].val = call[t].val, call'[t].clean => call[t].clean,
         pc'[t] \in {"txt_open", "txt_write"} => pc[t] \in {"txt_open", "txt_write"},
         pc'[t] \in {"alt_open", "alt_write"} => pc[t] \in {"alt_open", "alt_write"},
         lost = 0 /\ torn = 0 /\ call[t].key = "port" /\ kept["host"] # 0 => kept'["host"] = kept["host"]
  PROVE  RelayInv'
  <1>1. pc[t] \in Busy /\ (lost' = 0 => lost = 0) /\ torn' = torn
    BY DEF Works
  <1>2. \A u \in Savers : u # t => pc'[u] \notin Busy
    BY <1>1, SaverHasCall DEF SettingsInv, Works, Threads
  <1>3. call[t].val # 0
    BY <1>1, SaverHasCall DEF SettingsInv
  <1>4. /\ pc[t] \in {"txt_open", "txt_write"} => call[t].key = "host"
        /\ pc[t] \in {"alt_open", "alt_write"} => call[t].key \in {"host", "port"}
        /\ call[t].key = "port" /\ call[t].clean /\ lost = 0 /\ torn = 0 => kept["host"] = call[t].val
    BY <1>1 DEF SettingsInv, RelayInv
  <1>5. call'[t].key = "port" /\ call'[t].clean /\ lost' = 0 /\ torn' = 0 => kept'["host"] = call'[t].val
    BY <1>1, <1>3, <1>4
  <1> QED
    BY <1>2, <1>4, <1>5 DEF RelayInv

LEMMA PutRelay ==
  ASSUME SettingsInv, NEW t \in Savers, Put(t)
  PROVE  RelayInv'
  <1> USE DEF At, Goto
  <1>1. Works(t) /\ TypesInv /\ t \in Threads /\ call[t].key \in Keys
    BY PutWorks DEF SettingsInv, Threads, TypesInv, Calls
  <1>2. CASE \E r \in {0, 1}, clean \in BOOLEAN : PutReturns(t, r, clean)
    BY <1>1, <1>2, RelayReturns
  <1>3. Alone(t, "ini") \in BOOLEAN /\ MayRename("tmp", "ini") \in BOOLEAN
    BY DEF Alone, MayRename
  <1>4. CASE pc'[t] \in Inside /\ call' = call /\ kept' = kept
    BY <1>1, <1>4, RelayStays DEF Inside
  <1>5. CASE PutOpen(t)
    <2>1. pc'[t] \in Inside /\ call' = call
      BY <1>1, <1>5 DEF PutOpen, TypesInv, Inside
    <2>2. call[t].key = "port" => kept'["host"] = kept["host"]
      BY <1>1, <1>5 DEF PutOpen, TypesInv, Keys
    <2> QED
      BY <1>1, <2>1, <2>2, RelayStays DEF Inside
  <1>6. CASE PutCreate(t)
    <2>1. CASE PutReturns(t, 0, TRUE)
      BY <1>2, <2>1
    <2>2. CASE pc' = [pc EXCEPT ![t] = "put_fill"] /\ call' = call
      <3>1. pc[t] = "put_create" /\ pc'[t] = "put_fill"
        BY <1>1, <1>6, <2>2 DEF PutCreate, TypesInv
      <3>2. \A u \in Savers : pc[u] # "put_rename"
        BY <3>1, SaverHasCall DEF SettingsInv, Threads, Busy, Inside
      <3>3. lost = 0 /\ torn = 0 => kept["host"] = 0
        BY <3>1, <3>2 DEF SettingsInv, StepInv, StepOf, AwayInv, Keys
      <3> QED
        BY <1>1, <2>2, <3>1, <3>3, RelayStays
    <2> QED
      BY <1>6, <2>1, <2>2 DEF PutCreate
  <1>7. CASE PutFill(t) \/ PutOver(t) \/ PutRename(t)
    BY <1>2, <1>3, <1>7 DEF PutFill, PutOver, PutRename
  <1>8. CASE PutLook(t) \/ PutRewrite(t) \/ PutTemp(t) \/ PutReopen(t) \/ PutCopy(t)
    <2>1. CASE PutReturns(t, 0, TRUE) \/ PutReturns(t, 1, TRUE) \/ PutReturns(t, 1, FALSE)
      BY <1>2, <2>1
    <2>2. CASE /\ \E p \in {"put_rewrite", "put_over", "put_temp", "put_reopen", "put_copy", "put_remove"} :
                     pc' = [pc EXCEPT ![t] = p]
               /\ call' = call /\ kept' = kept
      <3>1. pc'[t] \in Inside
        BY <1>1, <2>2 DEF TypesInv, Inside
      <3> QED
        BY <1>4, <2>2, <3>1
    <2> QED
      BY <1>8, <2>1, <2>2 DEF PutLook, PutRewrite, PutTemp, PutReopen, PutCopy
  <1>9. CASE PutRemove(t)
    <2>1. pc'[t] = "put_rename" /\ kept' = kept
      BY <1>1, <1>9 DEF PutRemove, TypesInv, hist
    <2>2. call' = [call EXCEPT ![t].clean = call[t].clean /\ ~ InUse("ini")]
      BY <1>9 DEF PutRemove
    <2>3. call'[t].key = call[t].key /\ call'[t].val = call[t].val /\ (call'[t].clean => call[t].clean)
      BY <1>1, <2>2 DEF TypesInv, Calls
    <2> QED
      BY <1>1, <2>1, <2>3, RelayStays
  <1> QED
    BY <1>5, <1>6, <1>7, <1>8, <1>9 DEF Put

LEMMA TextRelay ==
  ASSUME SettingsInv, NEW t \in Savers, TxtOpen(t) \/ TxtWrite(t) \/ AltOpen(t) \/ AltWrite(t)
  PROVE  RelayInv'
  <1> USE DEF At, Goto
  <1>1. Works(t) /\ TypesInv /\ t \in Threads /\ kept' = kept
    BY TextWorks DEF SettingsInv, Threads
  <1>2. CASE pc'[t] = "idle"
    <2>1. \A u \in Savers : pc'[u] \notin Busy
      BY <1>1, <1>2, SaverHasCall DEF SettingsInv, Works, Threads, Busy, Inside
    <2> QED
      BY <2>1 DEF RelayInv
  <1>3. CASE call' = call
    <2>1. /\ pc'[t] \in {"txt_open", "txt_write"} => pc[t] \in {"txt_open", "txt_write"}
          /\ pc'[t] \in {"alt_open", "alt_write"} => pc[t] \in {"alt_open", "alt_write"}
      BY <1>1 DEF TxtOpen, TxtWrite, AltOpen, AltWrite, Ends, TypesInv
    <2> QED
      BY <1>1, <1>3, <2>1, RelayStays
  <1> QED
    BY <1>1, <1>2, <1>3 DEF TxtOpen, TxtWrite, AltOpen, AltWrite, Ends, TypesInv, hist

LEMMA AsideRelay ==
  ASSUME SettingsInv, NEW t \in Threads, Aside(t),
         t \in Savers /\ pc'[t] \in Busy =>
           \/ call'[t].key = "host" /\ pc'[t] = "txt_open"
           \/ call'[t].key = "ssid" /\ pc'[t] = "put"
  PROVE  RelayInv'
  <1> SUFFICES ASSUME NEW u \in Savers, u # t, pc'[u] \in Busy
               PROVE  /\ pc'[u] \in {"txt_open", "txt_write"} => call'[u].key = "host"
                      /\ pc'[u] \in {"alt_open", "alt_write"} => call'[u].key \in {"host", "port"}
                      /\ call'[u].key = "port" /\ call'[u].clean /\ lost' = 0 /\ torn' = 0
                           => kept'["host"] = call'[u].val
    BY DEF RelayInv
  <1>1. pc'[u] = pc[u] /\ call'[u] = call[u] /\ kept' = kept /\ lost' = lost /\ torn' = torn
    BY DEF Aside, Threads
  <1> QED
    BY <1>1 DEF SettingsInv, RelayInv

\* A step of ini_puts opens the file, returns, or goes on with the same key.
LEMMA PutShape ==
  ASSUME SettingsInv, NEW t \in Savers, Put(t)
  PROVE  \/ PutOpen(t) /\ pc'[t] \in Inside /\ call' = call /\ address' = address
         \/ pc[t] \in Inside /\ \E r \in {0, 1}, clean \in BOOLEAN : PutReturns(t, r, clean)
         \/ /\ pc[t] \in Inside /\ pc'[t] \in Inside /\ address' = address /\ due' = due
            /\ call'[t].key = call[t].key
  <1> USE DEF At, Goto
  <1>1. pc \in [Threads -> Places] /\ t \in Threads /\ call \in [Savers -> Calls]
    BY DEF SettingsInv, TypesInv, Threads
  <1>2. Alone(t, "ini") \in BOOLEAN /\ MayRename("tmp", "ini") \in BOOLEAN
    BY DEF Alone, MayRename
  <1>3. CASE PutOpen(t)
    BY <1>1, <1>3 DEF PutOpen, Inside
  <1>4. CASE PutFill(t) \/ PutOver(t) \/ PutRename(t)
    BY <1>2, <1>4 DEF PutFill, PutOver, PutRename, Inside
  <1>5. CASE PutCreate(t) \/ PutLook(t) \/ PutRewrite(t) \/ PutTemp(t) \/ PutReopen(t) \/ PutCopy(t)
    <2>1. pc[t] \in Inside
      BY <1>5 DEF PutCreate, PutLook, PutRewrite, PutTemp, PutReopen, PutCopy, Inside
    <2>2. CASE PutReturns(t, 0, TRUE) \/ PutReturns(t, 1, TRUE) \/ PutReturns(t, 1, FALSE)
      BY <2>1, <2>2
    <2>3. CASE /\ \E p \in {"put_fill", "put_rewrite", "put_over", "put_temp", "put_reopen", "put_copy", "put_remove"} :
                     pc' = [pc EXCEPT ![t] = p]
               /\ address' = address /\ due' = due /\ call' = call
      BY <1>1, <2>1, <2>3 DEF Inside
    <2> QED
      BY <1>5, <2>2, <2>3 DEF PutCreate, PutLook, PutRewrite, PutTemp, PutReopen, PutCopy
  <1>6. CASE PutRemove(t)
    <2>1. call'[t].key = call[t].key
      BY <1>1, <1>6 DEF PutRemove, Calls
    <2> QED
      BY <1>1, <1>6, <2>1 DEF PutRemove, hist, Inside
  <1> QED
    BY <1>3, <1>4, <1>5, <1>6 DEF Put

LEMMA PutDue ==
  ASSUME SettingsInv, NEW t \in Savers, Put(t)
  PROVE  DueInv'
  <1>1. Works(t) /\ TypesInv /\ t \in Threads /\ DueInv /\ call[t].key \in Keys
    BY PutWorks DEF SettingsInv, Threads, TypesInv, Calls
  <1>2. disk'["txt"] = disk["txt"] /\ (Holds("txt") <=> TextHas)
    BY PutCard, HoldsIs DEF TextHas
  <1>3. \A u \in Savers : u # t => pc'[u] \notin Busy
    BY <1>1, SaverHasCall DEF SettingsInv, Works, Threads
  <1>4. \A u \in Savers : u # t => pc'[u] \notin Inside \cup {"alt_open", "alt_write", "txt_write"}
    BY <1>3 DEF Busy
  <1>5. TextHas' <=> TextHas
    BY <1>2 DEF TextHas
  <1>6. CASE PutOpen(t) /\ pc'[t] \in Inside /\ call' = call /\ address' = address
    <2>1. due' = IF call[t].key \in {"host", "port"} /\ ~ TextHas THEN 0 ELSE due
      BY <1>2, <1>6 DEF PutOpen
    <2>2. pc'[t] # "txt_write"
      BY <1>6 DEF Inside
    <2> QED
      BY <1>1, <1>2, <1>4, <1>5, <1>6, <2>1, <2>2 DEF DueInv
  <1>7. CASE pc[t] \in Inside /\ \E r \in {0, 1}, clean \in BOOLEAN : PutReturns(t, r, clean)
    <2>1. PICK r \in {0, 1}, clean \in BOOLEAN : PutReturns(t, r, clean)
      BY <1>7
    <2>2. /\ address' = IF r = 1 /\ call[t].key = "port" THEN call[t].val ELSE address
          /\ due' = IF r = 1 /\ call[t].key = "port" /\ call[t].clean /\ clean /\ ~ TextHas THEN call[t].val ELSE due
      BY <1>2, <2>1 DEF PutReturns
    <2>3. call[t].key \in {"host", "port"} => due = 0 \/ TextHas
      BY <1>1, <1>7 DEF DueInv
    <2>4. /\ pc'[t] \in {"idle", "put", "alt_open"}
          /\ pc'[t] = "alt_open" => r = 0 /\ call[t].key \in {"host", "port"}
      BY <1>1, <2>1, ReturnedAt
    <2>5. pc'[t] \notin Inside /\ pc'[t] \notin {"txt_write", "alt_write"}
      BY <2>4 DEF Inside
    <2>6. call[t].val # 0
      BY <1>1, <1>7, SaverHasCall DEF SettingsInv, Busy
    <2> QED
      BY <1>1, <1>2, <1>4, <1>5, <2>2, <2>3, <2>4, <2>5, <2>6 DEF DueInv
  <1>8. CASE /\ pc[t] \in Inside /\ pc'[t] \in Inside /\ address' = address /\ due' = due
             /\ call'[t].key = call[t].key
    <2>1. pc'[t] # "txt_write"
      BY <1>8 DEF Inside
    <2> QED
      BY <1>1, <1>2, <1>4, <1>5, <1>8, <2>1 DEF DueInv
  <1> QED
    BY <1>6, <1>7, <1>8, PutShape

LEMMA TextDue ==
  ASSUME SettingsInv, NEW t \in Savers, TxtOpen(t) \/ TxtWrite(t) \/ AltOpen(t) \/ AltWrite(t)
  PROVE  DueInv'
  <1> USE DEF At, Goto
  <1> DEFINE v == call[t].val
  <1>1. Works(t) /\ TypesInv /\ t \in Threads /\ DueInv /\ CardInv /\ pc[t] \in Busy
    BY TextWorks DEF SettingsInv, Threads, Works
  <1>2. v \in Values \cup {0} /\ v # 0 /\ Value(Address(v), "host") = v
    BY <1>1, SaverHasCall, AddressReads DEF SettingsInv
  <1>3. \A u \in Savers : u # t => pc'[u] \notin Busy
    BY <1>1, SaverHasCall DEF SettingsInv, Works, Threads
  <1>4. \A u \in Savers : u # t => pc'[u] \notin Inside \cup {"alt_open", "alt_write", "txt_write"}
    BY <1>3 DEF Busy
  <1>5. Holds("txt") <=> TextHas
    BY HoldsIs DEF TextHas
  <1>6. Value(<<>>, "host") = 0
    BY EmptyReads
  <1> HIDE DEF v
  <1>7. CASE TxtOpen(t)
    <2>1. CASE /\ disk' = Truncated("txt") /\ fd' = Opened(t, "txt") /\ pc' = [pc EXCEPT ![t] = "txt_write"]
               /\ due' = IF InUse("txt") THEN due ELSE 0
      <3>1. /\ pc'[t] = "txt_write" /\ pc'[t] \notin Inside \cup {"alt_open", "alt_write"}
            /\ fd'[t]["txt"] = IF InUse("txt") THEN Empty ELSE Bound
        BY <1>1, <2>1, OpenedAt DEF TypesInv, Inside, Files
      <3>2. disk'["txt"] = IF InUse("txt") THEN disk["txt"] ELSE <<>>
        BY <1>1, <2>1 DEF Truncated, CardInv, Files
      <3>3. InUse("txt") => (TextHas' <=> TextHas)
        BY <3>2 DEF TextHas
      <3>4. ~ InUse("txt") => ~ TextHas'
        BY <1>6, <3>2 DEF TextHas
      <3> QED
        BY <1>1, <1>4, <1>7, <2>1, <3>1, <3>2, <3>3, <3>4 DEF DueInv, TxtOpen, Closed, Bound, Empty
    <2>2. CASE pc' = [pc EXCEPT ![t] = "put"] /\ UNCHANGED <<disk, fd, due>>
      <3>1. pc'[t] = "put" /\ pc'[t] \notin Inside
        BY <1>1, <2>2 DEF TypesInv, Inside
      <3>2. TextHas' <=> TextHas
        BY <2>2 DEF TextHas
      <3> QED
        BY <1>1, <1>4, <1>7, <2>2, <3>1, <3>2 DEF DueInv, TxtOpen
    <2> QED
      BY <1>7, <2>1, <2>2 DEF TxtOpen
  <1>8. CASE TxtWrite(t)
    <2>1. pc[t] = "txt_write" /\ fd[t]["txt"] # Empty /\ fd[t]["txt"] \in {Closed, Bound, Empty}
      BY <1>1, <1>8 DEF TxtWrite, Sound, TypesInv, Files
    <2>2. due = 0 /\ ~ TextHas
      BY <1>1, <2>1 DEF DueInv
    <2>3. pc'[t] \in {"idle", "put"} /\ pc'[t] \notin Inside
      BY <1>1, <1>8 DEF TxtWrite, Ends, TypesInv, Inside
    <2>4. CASE disk' = [disk EXCEPT !["txt"] = Address(v)] /\ due' = v /\ address' = v
      <3>1. disk'["txt"] = Address(v)
        BY <1>1, <2>4 DEF CardInv, Files
      <3> QED
        BY <1>2, <1>4, <2>3, <2>4, <3>1 DEF DueInv, TextHas
    <2>5. CASE disk' = disk /\ due' = due
      <3>1. ~ TextHas'
        BY <2>2, <2>5 DEF TextHas
      <3> QED
        BY <1>4, <2>2, <2>3, <2>5, <3>1 DEF DueInv
    <2> QED
      BY <1>8, <2>4, <2>5 DEF TxtWrite, Wrote, v
  <1>9. CASE AltOpen(t) \/ AltWrite(t)
    <2>1. pc[t] \in {"alt_open", "alt_write"} /\ call[t].key \in {"host", "port"}
      BY <1>1, <1>9 DEF AltOpen, AltWrite, SettingsInv, RelayInv
    <2>2. due = 0 \/ TextHas
      BY <1>1, <2>1 DEF DueInv
    <2>3. disk'["txt"] = disk["txt"]
      BY <1>1, <1>9 DEF AltOpen, AltWrite, Truncated, Wrote, CardInv, Files
    <2>4. TextHas' <=> TextHas
      BY <2>3 DEF TextHas
    <2>5. /\ pc'[t] \in {"alt_write", "idle"} /\ pc'[t] \notin Inside
          /\ pc'[t] = "alt_write" => call' = call /\ due' = due /\ address' = address
      BY <1>1, <1>9 DEF AltOpen, AltWrite, Ends, TypesInv, hist, Inside
    <2>6. \/ due' = due /\ address' = address
          \/ due' = due /\ address' = v
          \/ ~ TextHas /\ due' = v /\ address' = v
      BY <1>5, <1>9 DEF AltOpen, AltWrite, hist, v
    <2>7. TextHas' => due' = due
      BY <2>4, <2>6
    <2>8. due' # 0 => due' = address' \/ TextHas'
      BY <1>1, <2>2, <2>4, <2>6 DEF DueInv
    <2>9. TextHas' => due' # 0 /\ disk'["txt"] = Address(due')
      BY <1>1, <2>3, <2>4, <2>7 DEF DueInv
    <2>10. ~ (pc'[t] = "txt_write") /\ (pc'[t] \in Inside \cup {"alt_open", "alt_write"} => due' = 0 \/ TextHas')
      BY <2>2, <2>4, <2>5
    <2> QED
      BY <1>4, <2>8, <2>9, <2>10 DEF DueInv
  <1> QED
    BY <1>7, <1>8, <1>9

\* A thread that begins a save, loads or stops changes nothing of this.
LEMMA AsideDue ==
  ASSUME SettingsInv, NEW t \in Threads, Aside(t), address' = address, due' = due,
         t \in Savers => pc'[t] \notin {"alt_open", "alt_write", "txt_write"}
  PROVE  DueInv'
  <1>1. DueInv /\ disk' = disk /\ \A u \in Savers : u \in Threads
    BY DEF SettingsInv, Aside, Threads
  <1>2. TextHas' <=> TextHas
    BY <1>1 DEF TextHas
  <1>3. \A u \in Savers : u # t => pc'[u] = pc[u] /\ call'[u] = call[u] /\ fd'[u]["txt"] = fd[u]["txt"]
    BY <1>1 DEF Aside, Files
  <1>4. t \in Savers => pc'[t] \notin Inside \cup {"alt_open", "alt_write", "txt_write"}
    BY DEF Aside
  <1> QED
    BY <1>1, <1>2, <1>3, <1>4 DEF DueInv

\* Where the relay settings of data.ini are while t saves.
LEMMA IniNowIs ==
  ASSUME SettingsInv, NEW t \in Savers, Works(t)
  PROVE  /\ IniNow  = IF disk["ini"] = Missing /\ pc[t] = "put_rename" THEN disk["tmp"] ELSE disk["ini"]
         /\ IniNow' = IF disk'["ini"] = Missing /\ pc'[t] = "put_rename" THEN disk'["tmp"] ELSE disk'["ini"]
  <1>1. \A u \in Savers : u # t => pc[u] # "put_rename" /\ pc'[u] # "put_rename"
    BY SaverHasCall DEF SettingsInv, Works, Threads, Busy, Inside
  <1> QED
    BY <1>1 DEF IniNow

\* A save of another setting leaves them as they are.
LEMMA PutIniNow ==
  ASSUME SettingsInv, NEW t \in Savers, Put(t), NEW l \in Keys, l # call[t].key, lost' = 0
  PROVE  Value(IniNow', l) = Value(IniNow, l)
  <1> USE DEF At, Goto
  <1> DEFINE k == call[t].key
             v == call[t].val
             f == disk["ini"]
  <1>1. Works(t) /\ TypesInv /\ t \in Threads /\ StepOf(t) /\ CardInv /\ lost = 0
    BY PutWorks DEF SettingsInv, StepInv, Threads, Works
  <1>2. k \in Keys /\ v \in Values \cup {0} /\ v # 0
    BY <1>1, SaverHasCall DEF SettingsInv, Works
  <1>3. f \in Texts /\ WellFormed(f)
    BY DEF SettingsInv, CardInv, Files
  <1>4. /\ IniNow  = IF disk["ini"] = Missing /\ pc[t] = "put_rename" THEN disk["tmp"] ELSE disk["ini"]
        /\ IniNow' = IF disk'["ini"] = Missing /\ pc'[t] = "put_rename" THEN disk'["tmp"] ELSE disk'["ini"]
    BY <1>1, IniNowIs
  <1>5. CASE pc[t] # "put_rename" /\ pc'[t] # "put_rename" /\ Value(disk'["ini"], l) = Value(f, l)
    BY <1>4, <1>5
  <1>6. \A r, clean : r \in {0, 1} /\ clean \in BOOLEAN /\ PutReturns(t, r, clean) => pc'[t] # "put_rename"
    BY <1>1, ReturnedAt
  <1>7. Alone(t, "ini") \in BOOLEAN /\ MayRename("tmp", "ini") \in BOOLEAN
    BY DEF Alone, MayRename
  <1>8. PutReturns(t, 0, TRUE) \/ PutReturns(t, 1, TRUE) \/ PutReturns(t, 1, FALSE) => pc'[t] # "put_rename"
    BY <1>6
  <1> HIDE DEF k, v, f
  <1>9. CASE PutOpen(t)
    BY <1>1, <1>5, <1>9 DEF PutOpen, TypesInv, f
  <1>10. CASE PutCreate(t)
    <2>1. pc[t] = "put_create" /\ f = Missing /\ pc'[t] # "put_rename"
      BY <1>1, <1>8, <1>10 DEF PutCreate, StepOf, TypesInv, f
    <2>2. disk'["ini"] = f \/ disk'["ini"] = <<>>
      BY <1>1, <1>10 DEF PutCreate, Truncated, CardInv, Files, f
    <2> QED
      BY <1>5, <2>1, <2>2, EmptyReads
  <1>11. CASE PutFill(t)
    <2>1. pc[t] = "put_fill" /\ f = <<>> /\ pc'[t] # "put_rename"
      BY <1>1, <1>6, <1>7, <1>11 DEF PutFill, StepOf, f
    <2>2. disk'["ini"] = f \/ disk'["ini"] = NewFile(k, v)
      BY <1>1, <1>11 DEF PutFill, Wrote, CardInv, Files, f, k, v
    <2>3. Value(NewFile(k, v), l) = 0
      BY <1>2, NewFileReads DEF k
    <2> QED
      BY <1>5, <2>1, <2>2, <2>3, EmptyReads
  <1>12. CASE PutLook(t) \/ PutRewrite(t)
    BY <1>1, <1>5, <1>8, <1>12 DEF PutLook, PutRewrite, TypesInv, f
  <1>13. CASE PutOver(t)
    <2>1. pc[t] = "put_over" /\ KeyLine(f, k) # 0 /\ pc'[t] # "put_rename"
      BY <1>1, <1>6, <1>7, <1>13 DEF PutOver, StepOf, f, k
    <2>2. disk'["ini"] = f \/ disk'["ini"] = Rewritten(f, k, v)
      BY <1>1, <1>13 DEF PutOver, Wrote, CardInv, Files, f, k, v
    <2>3. Value(Rewritten(f, k, v), l) = Value(f, l)
      BY <1>2, <1>3, <2>1, RewriteReads DEF Texts, k
    <2> QED
      BY <1>5, <2>1, <2>2, <2>3
  <1>14. CASE PutTemp(t) \/ PutReopen(t) \/ PutCopy(t)
    <2>1. pc[t] # "put_rename" /\ pc'[t] # "put_rename"
      BY <1>1, <1>8, <1>14 DEF PutTemp, PutReopen, PutCopy, TypesInv
    <2>2. disk'["ini"] = f
      BY <1>1, <1>14 DEF PutTemp, PutReopen, PutCopy, Truncated, Wrote, CardInv, Files, f
    <2> QED
      BY <1>5, <2>1, <2>2
  <1>15. CASE PutRemove(t)
    <2>1. /\ pc[t] = "put_remove" /\ disk["tmp"] = Copied(f, k, v) /\ disk'["tmp"] = disk["tmp"]
          /\ disk'["ini"] = f \/ disk'["ini"] = Missing
          /\ pc'[t] = "put_rename"
      BY <1>1, <1>15 DEF PutRemove, StepOf, Removed, TypesInv, CardInv, Files, f, k, v
    <2>2. Value(Copied(f, k, v), l) = Value(f, l)
      BY <1>2, <1>3, CopyReads DEF Texts, k
    <2>3. f # Missing
      BY <1>1, <2>1 DEF StepOf, Inside, f
    <2> QED
      BY <1>4, <2>1, <2>2, <2>3 DEF f
  <1>16. CASE PutRename(t)
    <2>1. pc[t] = "put_rename" /\ pc'[t] # "put_rename" /\ (f = Missing => disk["tmp"] # Missing) /\ ~ InUse("tmp")
      BY <1>1, <1>6, <1>7, <1>16 DEF PutRename, StepOf, SettingsInv, CopyInv, f
    <2>2. disk' = Renamed("tmp", "ini")
      BY <1>1, <1>16 DEF PutRename
    <2>3. CASE f = Missing
      <3>1. disk'["ini"] = disk["tmp"]
        BY <1>1, <2>1, <2>2, <2>3 DEF Renamed, MayRename, CardInv, Files, f
      <3> QED
        BY <1>4, <2>1, <2>3, <3>1 DEF f
    <2>4. CASE f # Missing
      <3>1. disk'["ini"] = f
        BY <2>2, <2>4 DEF Renamed, MayRename, f
      <3> QED
        BY <1>4, <2>1, <2>4, <3>1 DEF f
    <2> QED
      BY <2>3, <2>4
  <1> QED
    BY <1>9, <1>10, <1>11, <1>12, <1>13, <1>14, <1>15, <1>16 DEF Put

LEMMA PutAddress ==
  ASSUME SettingsInv, NEW t \in Savers, Put(t)
  PROVE  AddressInv'
  <1> DEFINE k == call[t].key
             v == call[t].val
  <1>1. Works(t) /\ TypesInv /\ t \in Threads /\ pc[t] \in Busy /\ (lost' = 0 => lost = 0) /\ torn' = torn /\ DueInv
    BY PutWorks DEF SettingsInv, Threads, Works
  <1>2. k \in Keys /\ v # 0
    BY <1>1, SaverHasCall DEF SettingsInv
  <1>3. k = "port" /\ call[t].clean /\ lost = 0 /\ torn = 0 => kept["host"] = v
    BY <1>1 DEF SettingsInv, RelayInv
  <1> SUFFICES ASSUME due' # 0, lost' = 0, torn' = 0
               PROVE  Value(Source', "host") = due' /\ Value(Source', "port") = due'
    BY DEF AddressInv
  <1>4. disk'["txt"] = disk["txt"] /\ disk'["alt"] = disk["alt"] /\ (Holds("txt") <=> TextHas)
    BY PutCard, HoldsIs DEF TextHas
  <1>5. CASE due' = due
    <2>1. Value(Source, "host") = due /\ Value(Source, "port") = due
      BY <1>1, <1>5 DEF SettingsInv, AddressInv
    <2>2. CASE TextHas
      BY <1>4, <1>5, <2>1, <2>2 DEF Source, TextHas
    <2>3. CASE ~ TextHas
      <3>1. k \notin {"host", "port"} /\ "host" \in Keys /\ "port" \in Keys
        <4>1. pc[t] \in Inside => k \notin {"host", "port"}
          BY <1>1, <1>5, <2>3 DEF DueInv
        <4>2. PutOpen(t) => k \notin {"host", "port"}
          BY <1>4, <1>5, <2>3 DEF PutOpen
        <4> QED
          BY <4>1, <4>2, PutShape DEF Keys
      <3>2. Value(IniNow', "host") = Value(IniNow, "host") /\ Value(IniNow', "port") = Value(IniNow, "port")
        BY <3>1, PutIniNow
      <3> QED
        BY <1>4, <1>5, <2>1, <3>2 DEF Source
    <2> QED
      BY <2>2, <2>3
  <1>6. CASE due' # due
    <2>1. PICK r \in {0, 1}, clean \in BOOLEAN : PutReturns(t, r, clean)
      <3>1. ~ PutOpen(t)
        BY <1>6 DEF PutOpen
      <3> QED
        BY <1>6, <3>1, PutShape
    <2>2. r = 1 /\ k = "port" /\ call[t].clean /\ clean /\ ~ Holds("txt") /\ due' = v
      <3>1. due' = IF r = 1 /\ k = "port" /\ call[t].clean /\ clean /\ ~ Holds("txt") THEN v ELSE due
        BY <2>1 DEF PutReturns
      <3> QED
        BY <1>6, <3>1
    <2>3. kept["host"] = v
      BY <1>1, <1>3, <2>2
    <2>4. kept'["host"] = v /\ kept'["port"] = v
      BY <1>1, <2>1, <2>2, <2>3 DEF PutReturns, TypesInv, Keys
    <2>5. pc'[t] = "idle"
      <3>1. r = 1 /\ call[t].key = "port"
        BY <2>2
      <3> QED
        BY <1>1, <2>1, <3>1, ReturnedAt
    <2>6. \A u \in Savers : pc'[u] # "put_rename"
      BY <1>1, <2>5, SaverHasCall DEF SettingsInv, Works, Threads, Busy, Inside
    <2>7. disk'["ini"] # Missing
      BY <1>2, <2>4, <2>6, PutKeeps DEF AwayInv, Keys
    <2>8. Value(disk'["ini"], "host") = v /\ Value(disk'["ini"], "port") = v
      BY <1>2, <2>4, <2>7, PutKeeps DEF ReportedIsKept, OnCard, Keys
    <2>9. IniNow' = disk'["ini"] /\ Value(disk'["txt"], "host") = 0
      BY <1>4, <2>2, <2>7, HoldsIs DEF IniNow
    <2> QED
      BY <1>2, <2>2, <2>8, <2>9 DEF Source
  <1> QED
    BY <1>5, <1>6

LEMMA TextAddress ==
  ASSUME SettingsInv, NEW t \in Savers, TxtOpen(t) \/ TxtWrite(t) \/ AltOpen(t) \/ AltWrite(t)
  PROVE  AddressInv'
  <1> USE DEF At
  <1> DEFINE v == call[t].val
  <1>1. /\ Works(t) /\ TypesInv /\ t \in Threads /\ pc[t] \in Busy /\ CardInv /\ DueInv /\ AddressInv
        /\ (lost' = 0 => lost = 0) /\ torn' = torn
    BY TextWorks DEF SettingsInv, Works, Threads
  <1>2. v \in Values \cup {0} /\ v # 0
    BY <1>1, SaverHasCall DEF SettingsInv
  <1>3. Value(Address(v), "host") = v /\ Value(Address(v), "port") = v
    BY <1>2, AddressReads
  <1>4. Holds("txt") <=> TextHas
    BY HoldsIs DEF TextHas
  <1> HIDE DEF v
  <1>5. CASE TxtOpen(t)
    <2>1. CASE ~ InUse("txt") /\ due' = 0
      BY <2>1 DEF AddressInv
    <2>2. CASE disk' = disk /\ due' = due
      <3>1. pc'[t] # "put_rename" /\ pc[t] # "put_rename"
        BY <1>1, <1>5 DEF TxtOpen, Goto, TypesInv
      <3>2. Source' = Source
        BY <1>1, <2>2, <3>1, IniNowIs DEF Source
      <3> QED
        BY <1>1, <2>2, <3>2 DEF AddressInv
    <2> QED
      BY <1>5, <2>1, <2>2 DEF TxtOpen, Truncated
  <1>6. CASE TxtWrite(t)
    <2>1. due = 0
      <3>1. pc[t] = "txt_write" /\ fd[t]["txt"] # Empty /\ fd[t]["txt"] \in {Closed, Bound, Empty}
        BY <1>1, <1>6 DEF TxtWrite, Sound, TypesInv, Files
      <3> QED
        BY <1>1, <3>1 DEF DueInv
    <2>2. CASE due' = due
      BY <2>1, <2>2 DEF AddressInv
    <2>3. CASE due' = v /\ disk'["txt"] = Address(v)
      BY <1>2, <1>3, <2>3 DEF AddressInv, Source
    <2> QED
      BY <1>1, <1>6, <2>2, <2>3 DEF TxtWrite, Wrote, CardInv, Files, v
  <1>7. CASE AltOpen(t) \/ AltWrite(t)
    <2>1. pc[t] \in {"alt_open", "alt_write"} /\ call[t].key \in {"host", "port"}
      BY <1>1, <1>7 DEF AltOpen, AltWrite, SettingsInv, RelayInv
    <2>2. due = 0 \/ TextHas
      BY <1>1, <2>1 DEF DueInv
    <2>3. CASE due' = due
      <3>1. disk'["txt"] = disk["txt"]
        BY <1>1, <1>7 DEF AltOpen, AltWrite, Truncated, Wrote, CardInv, Files
      <3>2. CASE TextHas
        <4>1. Source' = Source
          BY <3>1, <3>2 DEF Source, TextHas
        <4> QED
          BY <1>1, <2>3, <4>1 DEF AddressInv
      <3> QED
        BY <2>2, <2>3, <3>2 DEF AddressInv
    <2>4. CASE /\ due' = v /\ ~ Holds("txt") /\ ~ Holds("ini") /\ AltWrite(t)
               /\ disk' = [disk EXCEPT !["alt"] = Address(v)]
      <3>1. disk'["alt"] = Address(v) /\ disk'["txt"] = disk["txt"] /\ disk'["ini"] = disk["ini"]
        BY <1>1, <2>4 DEF CardInv, Files
      <3>2. Value(disk'["txt"], "host") = 0 /\ Value(disk'["ini"], "host") = 0
        BY <2>4, <3>1, HoldsIs
      <3>3. pc'[t] = "idle"
        BY <1>1, <2>4 DEF AltWrite, Ends, Goto, TypesInv
      <3>4. IniNow' = disk'["ini"]
        BY <1>1, <3>3, IniNowIs
      <3> QED
        BY <1>3, <2>4, <3>1, <3>2, <3>4 DEF AddressInv, Source
    <2> QED
      BY <1>7, <2>3, <2>4 DEF AltOpen, AltWrite, Wrote, hist, v
  <1> QED
    BY <1>5, <1>6, <1>7

LEMMA AsideAddress ==
  ASSUME SettingsInv, NEW t \in Threads, Aside(t), due' = due
  PROVE  AddressInv'
  <1>1. disk' = disk /\ torn' = torn /\ lost' = lost
    BY DEF Aside
  <1>2. \A u \in Savers : pc[u] = "put_rename" <=> pc'[u] = "put_rename"
    BY DEF Aside, Threads, Inside
  <1>3. IniNow' = IniNow
    BY <1>1, <1>2 DEF IniNow
  <1>4. Source' = Source
    BY <1>1, <1>3 DEF Source
  <1> QED
    BY <1>1, <1>4 DEF SettingsInv, AddressInv

-----------------------------------------------------------------------------
(***************************************************************************)
(* Undisturbed saves                                                       *)
(***************************************************************************)
\* Opening and closing leave one file object for each file, and what another
\* thread shares stays shared.
LEMMA OpensOne ==
  ASSUME TypesInv, BoundInv, NEW t \in Threads,
         \A u \in Threads : u # t => \A g \in Files : fd'[u][g] = fd[u][g],
         \/ \E f \in Files : fd' = Opened(t, f)
         \/ \A g \in Files : fd'[t][g] \in {fd[t][g], Closed}
  PROVE  BoundInv'
  <1> SUFFICES ASSUME NEW g \in Files, NEW u \in Threads, NEW w \in Threads, fd'[u][g] = Bound, fd'[w][g] = Bound, u # w
               PROVE  FALSE
    BY DEF BoundInv
  <1>1. CASE \A h \in Files : fd'[t][h] \in {fd[t][h], Closed}
    BY <1>1 DEF BoundInv, Closed, Bound
  <1>2. ASSUME NEW f \in Files, fd' = Opened(t, f) PROVE FALSE
    <2>1. \A x \in Threads : \A h \in Files :
            fd'[x][h] = IF x = t /\ h = f THEN (IF InUse(f) THEN Empty ELSE Bound) ELSE fd[x][h]
      BY <1>2, OpenedAt
    <2>2. CASE g # f
      BY <2>1, <2>2 DEF BoundInv
    <2>3. CASE g = f
      BY <2>1, <2>3 DEF BoundInv, InUse, Empty, Bound, Closed
    <2> QED
      BY <2>2, <2>3
  <1> QED
    BY <1>1, <1>2

LEMMA PutBound ==
  ASSUME SettingsInv, NEW t \in Savers, Put(t)
  PROVE  BoundInv'
  <1> USE DEF Files
  <1>1. TypesInv /\ BoundInv /\ Works(t) /\ t \in Threads
    BY PutWorks DEF SettingsInv, Threads
  <1>2. \/ \E f \in Files : fd' = Opened(t, f)
        \/ \E f \in Files : fd' = Shut(t, f)
        \/ fd' = fd
        \/ fd' = [fd EXCEPT ![t]["ini"] = Closed, ![t]["tmp"] = Closed]
    BY DEF Put, PutOpen, PutCreate, PutFill, PutLook, PutRewrite, PutOver, PutTemp, PutReopen, PutCopy,
           PutRemove, PutRename
  <1>3. CASE \E f \in Files : fd' = Shut(t, f)
    BY <1>1, <1>3, ShutAt, OpensOne DEF Works
  <1>4. CASE fd' = fd \/ fd' = [fd EXCEPT ![t]["ini"] = Closed, ![t]["tmp"] = Closed]
    <2>1. \A g \in Files : fd'[t][g] \in {fd[t][g], Closed}
      BY <1>1, <1>4 DEF TypesInv
    <2> QED
      BY <1>1, <2>1, OpensOne DEF Works
  <1> QED
    BY <1>1, <1>2, <1>3, <1>4, OpensOne DEF Works

LEMMA TextBound ==
  ASSUME SettingsInv, NEW t \in Savers, TxtOpen(t) \/ TxtWrite(t) \/ AltOpen(t) \/ AltWrite(t)
  PROVE  BoundInv'
  <1> USE DEF Files
  <1>1. TypesInv /\ BoundInv /\ Works(t) /\ t \in Threads
    BY TextWorks DEF SettingsInv, Threads
  <1>2. \/ \E f \in Files : fd' = Opened(t, f)
        \/ \E f \in Files : fd' = Shut(t, f)
        \/ fd' = fd
    BY DEF TxtOpen, TxtWrite, AltOpen, AltWrite
  <1>3. CASE fd' = fd \/ \E f \in Files : fd' = Shut(t, f)
    BY <1>1, <1>3, ShutAt, OpensOne DEF Works
  <1> QED
    BY <1>1, <1>2, <1>3, OpensOne DEF Works

LEMMA LoadsBound ==
  ASSUME SettingsInv, NEW t \in Threads, LoadOpen(t) \/ LoadRead(t), Aside(t)
  PROVE  BoundInv'
  <1> USE DEF Files
  <1>1. TypesInv /\ BoundInv /\ rd[t].file \in Files
    BY DEF SettingsInv, TypesInv, Reads
  <1>2. fd' = Opened(t, rd[t].file) \/ fd' = Shut(t, rd[t].file) \/ fd' = fd
    BY DEF LoadOpen, LoadRead
  <1>3. CASE fd' = fd \/ fd' = Shut(t, rd[t].file)
    BY <1>1, <1>3, ShutAt, OpensOne DEF Aside
  <1> QED
    BY <1>1, <1>2, <1>3, OpensOne DEF Aside

\* A failure is never forgotten, and a thread that shares a file stops there.
LEMMA StaysDisturbed ==
  ASSUME TypesInv, NEW t \in Threads, Fault \/ NoFault, Sound(t) \/ fd' = fd,
         \A u \in Threads : u # t => \A g \in Files : fd'[u][g] = fd[u][g], ~ Disturbed'
  PROVE  ~ Disturbed /\ NoFault
  <1>1. faults \in Nat /\ faults' = 0
    BY SettingsAssumption DEF TypesInv, Disturbed
  <1>2. NoFault /\ faults = 0
    BY <1>1 DEF Fault, NoFault
  <1>3. \A u \in Threads : \A f \in Files : fd'[u][f] # Empty
    BY DEF Disturbed, Sound
  <1>4. \A u \in Threads : Sound(u)
    BY <1>3 DEF Sound
  <1> QED
    BY <1>2, <1>4 DEF Disturbed

LEMMA PutCalm ==
  ASSUME SettingsInv, NEW t \in Savers, Put(t)
  PROVE  CalmInv'
  <1> USE DEF At, Goto
  <1> SUFFICES ASSUME ~ Disturbed' PROVE CalmInv'
    BY DEF CalmInv
  <1>1. Works(t) /\ TypesInv /\ t \in Threads /\ pc[t] \in Busy /\ Sound(t) /\ torn' = torn
    BY PutWorks DEF SettingsInv, Threads, Works
  <1>2. Fault \/ NoFault
    BY DEF Put, PutOpen, PutCreate, PutFill, PutLook, PutRewrite, PutOver, PutTemp, PutReopen, PutCopy,
           PutRemove, PutRename, NoFault
  <1>3. ~ Disturbed /\ NoFault
    BY <1>1, <1>2, StaysDisturbed DEF Works
  <1>4. ~ Fault
    BY <1>1, <1>3 DEF Fault, NoFault, TypesInv
  <1>5. lost' = lost
    BY <1>4 DEF Put, PutOpen, PutCreate, PutFill, PutLook, PutRewrite, PutOver, PutTemp, PutReopen, PutCopy,
           PutRemove, PutRename, hist
  <1>6. pc[t] \notin {"txt_open", "txt_write"}
    BY DEF Put, PutOpen, PutCreate, PutFill, PutLook, PutRewrite, PutOver, PutTemp, PutReopen, PutCopy,
           PutRemove, PutRename
  <1>7. /\ lost = 0 /\ torn = 0 /\ call[t].key \notin {"host", "port"}
        /\ due = address \/ \E u \in Savers : pc[u] = "txt_write"
    BY <1>1, <1>3, <1>6 DEF SettingsInv, CalmInv
  <1>8. \A u \in Savers : u # t => pc[u] \notin Busy /\ pc'[u] \notin Busy
    BY <1>1, SaverHasCall DEF SettingsInv, Works, Threads
  <1>9. due = address
    BY <1>6, <1>7, <1>8 DEF Busy
  <1>10. due' = due /\ address' = address /\ (pc'[t] \in Busy => call'[t].key \notin {"host", "port"})
    <2>1. CASE PutOpen(t) /\ call' = call /\ address' = address
      BY <1>7, <2>1 DEF PutOpen
    <2>2. ASSUME NEW r \in {0, 1}, NEW clean \in BOOLEAN, PutReturns(t, r, clean)
          PROVE  due' = due /\ address' = address /\ (pc'[t] \in Busy => call'[t].key \notin {"host", "port"})
      <3>1. due' = due /\ address' = address
        BY <1>7, <2>2 DEF PutReturns
      <3>2. pc'[t] \in Busy => call'[t].key \notin {"host", "port"}
        BY <1>1, <1>7, <2>2, ReturnedAt DEF Busy, Inside
      <3> QED
        BY <3>1, <3>2
    <2> QED
      BY <1>7, <2>1, <2>2, PutShape
  <1> QED
    BY <1>1, <1>5, <1>7, <1>8, <1>9, <1>10 DEF CalmInv

LEMMA TextCalm ==
  ASSUME SettingsInv, NEW t \in Savers, TxtOpen(t) \/ TxtWrite(t) \/ AltOpen(t) \/ AltWrite(t)
  PROVE  CalmInv'
  <1> USE DEF At, Goto
  <1> SUFFICES ASSUME ~ Disturbed' PROVE CalmInv'
    BY DEF CalmInv
  <1>1. Works(t) /\ TypesInv /\ t \in Threads /\ pc[t] \in Busy /\ Sound(t) /\ torn' = torn /\ "txt" \in Files
    BY TextWorks DEF SettingsInv, Threads, Works, Files
  <1>2. (Fault \/ NoFault) /\ lost' = lost
    BY DEF TxtOpen, TxtWrite, AltOpen, AltWrite, hist
  <1>3. ~ Disturbed /\ NoFault
    BY <1>1, <1>2, StaysDisturbed DEF Works
  <1>4. ~ Fault
    BY <1>1, <1>3 DEF Fault, NoFault, TypesInv
  <1>5. /\ lost = 0 /\ torn = 0
        /\ call[t].key \in {"host", "port"} => pc[t] \in {"txt_open", "txt_write"}
    BY <1>1, <1>3 DEF SettingsInv, CalmInv
  <1>6. \A u \in Savers : u # t => pc'[u] \notin Busy
    BY <1>1, SaverHasCall DEF SettingsInv, Works, Threads
  <1>7. pc[t] \in {"txt_open", "txt_write"}
    <2>1. pc[t] \in {"alt_open", "alt_write"} => call[t].key \in {"host", "port"}
      BY <1>1 DEF SettingsInv, RelayInv
    <2> QED
      BY <1>5, <2>1 DEF TxtOpen, TxtWrite, AltOpen, AltWrite
  <1>8. CASE TxtOpen(t)
    <2>1. pc'[t] = "txt_write"
      BY <1>1, <1>4, <1>8 DEF TxtOpen, TypesInv
    <2> QED
      BY <1>1, <1>2, <1>5, <1>6, <2>1 DEF CalmInv
  <1>9. CASE TxtWrite(t)
    <2>1. Alone(t, "txt")
      <3>1. fd[t]["txt"] # Closed
        BY <1>9 DEF TxtWrite, SettingsInv, DueInv
      <3>2. \A u \in Threads : fd[u]["txt"] \in {Closed, Bound}
        BY <1>1, <1>3 DEF Disturbed, Sound, TypesInv
      <3> QED
        BY <1>1, <3>1, <3>2 DEF Alone, SettingsInv, BoundInv
    <2>2. due' = address' /\ pc'[t] = "idle"
      BY <1>1, <1>4, <1>9, <2>1 DEF TxtWrite, Ends, TypesInv
    <2>3. \A u \in Savers : pc'[u] \notin Busy
      BY <1>6, <2>2 DEF Busy, Inside
    <2> QED
      BY <1>1, <1>2, <1>5, <2>2, <2>3 DEF CalmInv
  <1> QED
    BY <1>7, <1>8, <1>9 DEF TxtOpen, TxtWrite, AltOpen, AltWrite

LEMMA AsideCalm ==
  ASSUME SettingsInv, NEW t \in Threads, Aside(t), address' = address, due' = due, Fault \/ NoFault,
         Sound(t) \/ fd' = fd, pc[t] # "txt_write" \/ ~ Sound(t),
         t \in Savers /\ pc'[t] \in Busy => call'[t].key \notin {"host", "port"} \/ pc'[t] = "txt_open"
  PROVE  CalmInv'
  <1> SUFFICES ASSUME ~ Disturbed' PROVE CalmInv'
    BY DEF CalmInv
  <1>1. ~ Disturbed
    BY StaysDisturbed DEF SettingsInv, Aside
  <1>2. /\ lost = 0 /\ torn = 0 /\ lost' = lost /\ torn' = torn
        /\ due = address \/ \E u \in Savers : pc[u] = "txt_write"
        /\ \A u \in Savers : pc[u] \in Busy /\ call[u].key \in {"host", "port"} => pc[u] \in {"txt_open", "txt_write"}
    BY <1>1 DEF SettingsInv, CalmInv, Aside
  <1>3. pc[t] # "txt_write"
    BY <1>1 DEF Disturbed
  <1>4. \A u \in Savers : u # t => pc'[u] = pc[u] /\ call'[u] = call[u]
    BY DEF Aside, Threads
  <1> QED
    BY <1>2, <1>3, <1>4 DEF CalmInv

\* Power fails: every thread starts over, with what is on the card.
LEMMA PowerStep ==
  ASSUME SettingsInv, PowerLoss
  PROVE  /\ CardInv' /\ OneSaver' /\ OpenInv' /\ CopyInv' /\ StepInv' /\ RelayInv'
         /\ DueInv' /\ AddressInv' /\ BoundInv' /\ CalmInv'
  <1>1. disk' = disk /\ kept' = kept /\ lost' = lost /\ address' = address /\ due' = due
    BY DEF PowerLoss
  <1>2. \A u \in Threads : pc'[u] \notin Busy /\ \A f \in Files : fd'[u][f] = Closed
    BY DEF PowerLoss, Busy, Inside
  <1>3. \A u \in Savers : u \in Threads /\ pc'[u] \notin Busy /\ pc'[u] \notin Inside
    BY <1>2 DEF Threads, Busy
  <1>4. CardInv'
    BY <1>1 DEF SettingsInv, CardInv
  <1>5. OneSaver' /\ OpenInv'
    BY <1>2 DEF OneSaver, OpenInv
  <1>6. CopyInv'
    BY <1>3 DEF CopyInv, Inside
  <1>7. StepInv'
    BY <1>3 DEF StepInv, StepOf, Inside
  <1>8. RelayInv'
    BY <1>3 DEF RelayInv
  <1>9. AddressInv'
    <2>1. torn' = 0 => torn = 0 /\ ~(disk["ini"] = Missing /\ \E t \in Savers : pc[t] = "put_rename")
      BY DEF PowerLoss, SettingsInv, TypesInv
    <2>2. torn' = 0 => IniNow' = IniNow
      BY <1>1, <1>3, <2>1 DEF IniNow, Inside
    <2>3. torn' = 0 => Source' = Source
      BY <1>1, <2>2 DEF Source
    <2> QED
      BY <1>1, <2>1, <2>3 DEF SettingsInv, AddressInv
  <1>10. DueInv'
    BY <1>1, <1>3 DEF SettingsInv, DueInv, TextHas, Busy
  <1>11. BoundInv'
    BY <1>2 DEF BoundInv, Closed, Bound
  <1>12. CalmInv'
    BY SettingsAssumption DEF PowerLoss, Fault, CalmInv, Disturbed, SettingsInv, TypesInv
  <1> QED
    BY <1>4, <1>5, <1>6, <1>7, <1>8, <1>9, <1>10, <1>11, <1>12

-----------------------------------------------------------------------------
(***************************************************************************)
(* The theorems                                                            *)
(***************************************************************************)
LEMMA ValueIsOne ==
  ASSUME NEW f \in Seq(Lines), NEW k
  PROVE  Value(f, k) \in Values \cup {0}
  <1>1. CASE KeyLine(f, k) = 0
    BY <1>1 DEF Value
  <1>2. CASE KeyLine(f, k) # 0
    <2>1. PICK i \in DOMAIN f : i = KeyLine(f, k)
      BY <1>2, KeyLineIsFound DEF Found
    <2>2. f[i] \in Lines
      BY <2>1
    <2>3. f[i][3] \in Values \cup {0}
      BY <2>2 DEF Lines
    <2> QED
      BY <1>2, <2>1, <2>3 DEF Value
  <1> QED
    BY <1>1, <1>2

LEMMA SettingsInitial == SettingsInit => SettingsInv
  <1> SUFFICES ASSUME SettingsInit PROVE SettingsInv
    OBVIOUS
  <1>1. PICK f \in Earlier : /\ disk = [g \in Files |-> IF g = "ini" /\ f # <<>> THEN f ELSE Missing]
                             /\ kept = [k \in Keys |-> Value(f, k)]
    BY DEF SettingsInit
  <1>2. f \in Texts /\ WellFormed(f) /\ Missing \in Texts /\ WellFormed(Missing)
    BY SettingsAssumption, EmptyReads DEF Texts
  <1>3. \A k \in Keys : Value(f, k) \in Values \cup {0}
    BY <1>2, ValueIsOne DEF Texts
  <1>4. disk["ini"] = (IF f # <<>> THEN f ELSE Missing) /\ disk["tmp"] = Missing /\ disk \in [Files -> Texts]
    BY <1>1, <1>2 DEF Files
  <1>5. NoCall \in Calls /\ Done \in Reads /\ Read("check", "ini", "ssid") \in Reads
    BY DEF NoCall, Calls, Done, Read, Reads, Keys
  <1>6. TypesInv
    <2>1. /\ fd \in [Threads -> [Files -> {Closed, Bound, Empty}]] /\ pc \in [Threads -> Places]
          /\ rd \in [Threads -> Reads] /\ call \in [Savers -> Calls]
      BY <1>5 DEF SettingsInit, Places
    <2>2. saves \in 0..MaxSaves /\ faults \in 0..MaxFaults /\ address \in Values \cup {0} /\ due \in Values \cup {0} /\ torn \in {0, 1} /\ lost \in {0, 1}
      BY SettingsAssumption DEF SettingsInit
    <2>3. kept \in [Keys -> Values \cup {0}]
      BY <1>1, <1>3
    <2> QED
      BY <2>1, <2>2, <2>3 DEF TypesInv
  <1>7. CardInv
    BY <1>2, <1>4 DEF CardInv
  <1>8. \A t \in Threads : pc[t] \notin Busy /\ \A g \in Files : fd[t][g] = Closed
    BY DEF SettingsInit, Busy, Inside
  <1>9. \A t \in Savers : t \in Threads /\ pc[t] \notin Busy /\ pc[t] \notin Inside
    BY <1>8 DEF Threads, Busy
  <1>10. OneSaver /\ OpenInv
    BY <1>8 DEF OneSaver, OpenInv
  <1>11. CopyInv /\ RelayInv
    BY <1>9 DEF CopyInv, RelayInv, Inside
  <1>12. StepInv
    BY <1>9 DEF StepInv, StepOf, Inside
  <1>13. AwayInv
    BY <1>1, <1>4, EmptyReads DEF AwayInv
  <1>14. ReportedIsKept
    BY <1>1, <1>4, EmptyReads DEF ReportedIsKept, OnCard
  <1>15. AddressInv /\ BoundInv /\ CalmInv
    BY <1>8, <1>9 DEF SettingsInit, AddressInv, BoundInv, CalmInv, Closed, Bound
  <1>16. DueInv
    <2>1. disk["txt"] = Missing
      BY <1>1 DEF Files
    <2>2. ~ TextHas
      BY <2>1, EmptyReads DEF TextHas
    <2> QED
      BY <1>9, <2>2 DEF SettingsInit, DueInv, Busy
  <1> QED
    BY <1>6, <1>7, <1>10, <1>11, <1>12, <1>13, <1>14, <1>15, <1>16 DEF SettingsInv

LEMMA SettingsStep == SettingsInv /\ [SettingsNext]_svars => SettingsInv'
  <1> SUFFICES ASSUME SettingsInv, [SettingsNext]_svars PROVE SettingsInv'
    OBVIOUS
  <1>0. TypesInv /\ CardInv /\ OneSaver /\ OpenInv
    BY DEF SettingsInv
  <1>1. ASSUME NEW t \in Savers, Put(t) PROVE SettingsInv'
    <2>1. Works(t) /\ TypesInv' /\ t \in Threads
      BY <1>0, <1>1, PutWorks DEF Threads
    <2>2. CardInv' /\ OneSaver' /\ OpenInv' /\ CopyInv' /\ StepInv'
      BY <1>1, <2>1, PutCard, OneSaverStep, PutOpens, PutCopies, PutSteps
    <2>3. AwayInv' /\ ReportedIsKept' /\ RelayInv' /\ DueInv' /\ AddressInv' /\ BoundInv' /\ CalmInv'
      BY <1>1, PutKeeps, PutRelay, PutDue, PutAddress, PutBound, PutCalm
    <2> QED
      BY <2>1, <2>2, <2>3 DEF SettingsInv
  <1>2. ASSUME NEW t \in Savers, TxtOpen(t) \/ TxtWrite(t) \/ AltOpen(t) \/ AltWrite(t) PROVE SettingsInv'
    <2>1. Works(t) /\ TypesInv' /\ t \in Threads
      BY <1>0, <1>2, TextWorks DEF Threads
    <2>2. CardInv' /\ OneSaver' /\ OpenInv' /\ CopyInv' /\ StepInv'
      BY <1>2, <2>1, TextCard, OneSaverStep, TextOpens, TextCopies, TextSteps
    <2>3. AwayInv' /\ ReportedIsKept' /\ RelayInv' /\ DueInv' /\ AddressInv' /\ BoundInv' /\ CalmInv'
      BY <1>2, TextKeeps, TextRelay, TextDue, TextAddress, TextBound, TextCalm
    <2> QED
      BY <2>1, <2>2, <2>3 DEF SettingsInv
  <1>3. ASSUME NEW t \in Threads, Aside(t), TypesInv', OneSaver', OpenInv', RelayInv', due' = due,
               DueInv', BoundInv', CalmInv'
        PROVE  SettingsInv'
    <2>1. CardInv'
      BY <1>0, <1>3 DEF Aside, CardInv
    <2>2. CopyInv' /\ StepInv' /\ AwayInv' /\ ReportedIsKept' /\ AddressInv'
      BY <1>3, CopyKept, AsideSteps, AsideKeeps, AsideAddress
    <2> QED
      BY <1>3, <2>1, <2>2 DEF SettingsInv
  <1>4. ASSUME NEW t \in Savers, SaveWifi(t) \/ SaveRelay(t) PROVE SettingsInv'
    <2>1. t \in Threads /\ "ssid" \in Keys /\ "host" \in Keys /\ "put" \in Busy \ Inside /\ "txt_open" \in Busy \ Inside
      BY DEF Threads, Keys, Busy, Inside
    <2>2. CASE SaveWifi(t)
      <3>1. Starts(t, "ssid") /\ TypesInv' /\ pc'[t] = "put" /\ UNCHANGED <<faults, address, due>>
        BY <1>0, <2>1, <2>2, SaveStarts DEF SaveWifi, hist
      <3>2. Aside(t) /\ pc[t] = "idle" /\ fd' = fd /\ call'[t].key = "ssid"
        BY <3>1 DEF Starts
      <3>3. OneSaver' /\ OpenInv' /\ RelayInv'
        BY <2>1, <3>1, <3>2, OneSaverStep, OthersOpen, AsideRelay
      <3>4. DueInv' /\ BoundInv' /\ CalmInv'
        BY <2>1, <3>1, <3>2, AsideDue, AsideCalm DEF SettingsInv, BoundInv, NoFault
      <3> QED
        BY <1>3, <2>1, <3>1, <3>2, <3>3, <3>4
    <2>3. CASE SaveRelay(t)
      <3>1. Starts(t, "host") /\ TypesInv' /\ pc'[t] = "txt_open" /\ UNCHANGED <<faults, address, due>>
        BY <1>0, <2>1, <2>3, SaveStarts DEF SaveRelay, hist
      <3>2. Aside(t) /\ pc[t] = "idle" /\ fd' = fd /\ call'[t].key = "host"
        BY <3>1 DEF Starts
      <3>3. OneSaver' /\ OpenInv' /\ RelayInv'
        BY <2>1, <3>1, <3>2, OneSaverStep, OthersOpen, AsideRelay
      <3>4. DueInv' /\ BoundInv' /\ CalmInv'
        BY <2>1, <3>1, <3>2, AsideDue, AsideCalm DEF SettingsInv, BoundInv, NoFault
      <3> QED
        BY <1>3, <2>1, <3>1, <3>2, <3>3, <3>4
    <2> QED
      BY <1>4, <2>2, <2>3
  <1>5. ASSUME NEW t \in Threads, (t \in Loaders /\ LoadRelay(t)) \/ LoadOpen(t) \/ LoadRead(t) PROVE SettingsInv'
    <2>1. /\ Aside(t) /\ TypesInv' /\ pc'[t] \notin Busy /\ pc[t] \notin Busy /\ call' = call
          /\ address' = address /\ due' = due
      BY <1>0, <1>5, LoadsAside
    <2>2. OneSaver' /\ OpenInv' /\ RelayInv'
      BY <1>5, <2>1, OneSaverStep, LoadsOpen, AsideRelay
    <2>3. BoundInv'
      <3>1. CASE LoadRelay(t)
        BY <3>1 DEF LoadRelay, SettingsInv, BoundInv
      <3> QED
        BY <1>5, <2>1, <3>1, LoadsBound
    <2>4. (Fault \/ NoFault) /\ Sound(t)
      BY <1>5 DEF LoadRelay, LoadOpen, LoadRead, At, NoFault
    <2>5. DueInv' /\ CalmInv'
      BY <2>1, <2>4, AsideDue, AsideCalm DEF Busy
    <2> QED
      BY <1>3, <2>1, <2>2, <2>3, <2>5
  <1>6. ASSUME NEW t \in Threads, Halt(t) PROVE SettingsInv'
    <2>1. Aside(t) /\ TypesInv' /\ pc'[t] = "halted" /\ call' = call /\ address' = address /\ due' = due /\ fd' = fd
      BY <1>0, <1>6, HaltsAside
    <2>2. pc'[t] \notin Busy
      BY <2>1 DEF Busy, Inside
    <2>3. OneSaver' /\ OpenInv' /\ RelayInv'
      BY <2>1, <2>2, OneSaverStep, OthersOpen, AsideRelay
    <2>4. ~ Sound(t) /\ NoFault
      BY <1>6 DEF Halt, NoFault
    <2>5. DueInv' /\ BoundInv' /\ CalmInv'
      BY <2>1, <2>2, <2>4, AsideDue, AsideCalm DEF SettingsInv, BoundInv, Busy
    <2> QED
      BY <1>3, <2>1, <2>3, <2>5
  <1>7. CASE PowerLoss
    BY <1>0, <1>7, PowerTypes, PowerStep, PowerKeeps DEF SettingsInv
  <1>8. CASE UNCHANGED svars
    <2>1. /\ TypesInv' /\ CardInv' /\ OneSaver' /\ AwayInv' /\ ReportedIsKept' /\ RelayInv'
      BY <1>8 DEF svars, SettingsInv, TypesInv, CardInv, OneSaver, AwayInv, ReportedIsKept, OnCard, RelayInv
    <2>2. OpenInv' /\ CopyInv' /\ StepInv' /\ AddressInv'
      BY <1>8 DEF svars, SettingsInv, OpenInv, MayHave, CopyInv, Alone, InUse, StepInv, StepOf, AddressInv, Source, IniNow
    <2>3. DueInv' /\ BoundInv' /\ CalmInv'
      BY <1>8 DEF svars, SettingsInv, DueInv, TextHas, BoundInv, CalmInv, Disturbed, Sound
    <2> QED
      BY <2>1, <2>2, <2>3 DEF SettingsInv
  <1>9. \A t \in Loaders : t \in Threads
    BY DEF Threads
  <1> QED
    BY <1>1, <1>2, <1>4, <1>5, <1>6, <1>7, <1>8, <1>9 DEF SettingsNext, Save

\* The invariant holds in every reachable state, whatever the threads, the
\* earlier content of the card and the number of saves and failures.
THEOREM SettingsInvariant == SettingsSpec => []SettingsInv
  BY SettingsInitial, SettingsStep, PTL DEF SettingsSpec

\* A setting that ini_puts reported as saved, undisturbed by a reader, stays
\* readable on the card through every later step, failure and loss of power.
THEOREM ReportedStaysOnCard == SettingsSpec => []ReportedIsKept
  <1>1. SettingsInv => ReportedIsKept
    BY DEF SettingsInv
  <1> QED
    BY <1>1, SettingsInvariant, PTL

\* ini_puts makes data.ini anew while settings were reported saved only after
\* power failed between its removal and the rename, or an open or write failed.
THEOREM SettingsForgottenOnlyTorn == SettingsSpec => []OnlyTornForgets
  <1>1. SettingsInv => OnlyTornForgets
    <2> SUFFICES ASSUME SettingsInv, NEW t \in Savers, pc[t] = "put_create", lost = 0, torn = 0
                 PROVE  \A k \in Keys : kept[k] = 0
      BY DEF OnlyTornForgets
    <2>1. disk["ini"] = Missing
      BY DEF SettingsInv, StepInv, StepOf
    <2>2. \A u \in Savers : pc[u] # "put_rename"
      BY SaverHasCall DEF SettingsInv, Threads, Busy, Inside
    <2> QED
      BY <2>1, <2>2 DEF SettingsInv, AwayInv
  <1> QED
    BY <1>1, SettingsInvariant, PTL

\* The variables have their types, and neither data.ini nor its copy ever
\* holds a section or a key twice or a key outside its own section.
THEOREM SettingsWellFormed == SettingsSpec => []IniWellFormed
  <1>1. SettingsInv => IniWellFormed
    <2> SUFFICES ASSUME SettingsInv PROVE SettingsTypeOK /\ WellFormed(disk["ini"]) /\ WellFormed(disk["tmp"])
      BY DEF IniWellFormed
    <2>1. ASSUME NEW f \in Files, NEW i \in DOMAIN disk[f]
          PROVE  disk[f][i][1] \in {"sec", "key", "blank", "missing"} /\ disk[f][i][3] \in Values \cup {0}
      <3>1. disk[f] \in Seq(Lines)
        BY DEF SettingsInv, CardInv, Texts
      <3>2. disk[f][i] \in Lines
        BY <3>1
      <3> QED
        BY <3>2 DEF Lines
    <2>2. \A t \in Savers : call[t].val \in Values \cup {0} /\ call[t].key \in Keys /\ call[t].clean \in BOOLEAN
      BY DEF SettingsInv, TypesInv, Calls
    <2> QED
      BY <2>1, <2>2 DEF SettingsInv, TypesInv, CardInv, SettingsTypeOK
  <1> QED
    BY <1>1, SettingsInvariant, PTL

\* While no save is under way a load finds the relay address last reported
\* saved, host and port, from whichever of the three files.  If it does not,
\* a failure or a shared file is the reason, and it finds the older address
\* that /ai_relay.txt still has, whole, or, where that file was left empty,
\* what data.ini was reported to keep.
THEOREM AddressIsLoaded == SettingsSpec => []AddressLoads
  <1>1. SettingsInv => AddressLoads
    <2> SUFFICES ASSUME SettingsInv, ~ Saving, ~(address # 0 /\ Finds(address))
                 PROVE  /\ address # 0 => Disturbed
                        /\ Holds("txt") => due # 0 /\ Finds(due)
                        /\ ~ Holds("txt") /\ lost = 0 /\ torn = 0 =>
                             /\ due = 0
                             /\ \A k \in {"host", "port"} : kept["host"] # 0 /\ kept[k] # 0 => Loaded(k) = kept[k]
      BY DEF AddressLoads
    <2>1. IniNow = disk["ini"] /\ \A t \in Savers : pc[t] \notin {"txt_write", "put_rename"}
      BY DEF IniNow, Saving
    <2>2. Source = disk[IF Holds("txt") THEN "txt" ELSE IF Holds("ini") THEN "ini" ELSE "alt"]
      BY <2>1, HoldsIs DEF Source
    <2>3. due # 0 /\ lost = 0 /\ torn = 0 => Finds(due)
      BY <2>2 DEF SettingsInv, AddressInv, Finds, Loaded
    <2>4. Holds("txt") => due # 0 /\ Finds(due)
      <3> SUFFICES ASSUME Holds("txt") PROVE due # 0 /\ Finds(due)
        OBVIOUS
      <3>1. due # 0 /\ disk["txt"] = Address(due) /\ due \in Values \cup {0}
        BY HoldsIs DEF SettingsInv, DueInv, TextHas, TypesInv
      <3> QED
        BY <3>1, AddressReads DEF Finds, Loaded
    <2>5. address # 0 => Disturbed
      BY <2>1, <2>3 DEF SettingsInv, CalmInv
    <2>6. ASSUME ~ Holds("txt"), lost = 0, torn = 0 PROVE due = 0
      BY <2>3, <2>6, HoldsIs DEF SettingsInv, DueInv, TextHas
    <2>7. ASSUME ~ Holds("txt"), lost = 0, torn = 0, NEW k \in {"host", "port"}, kept["host"] # 0, kept[k] # 0
          PROVE  Loaded(k) = kept[k]
      <3>1. disk["ini"] # Missing
        BY <2>1, <2>7 DEF SettingsInv, AwayInv, Keys
      <3>2. Value(disk["ini"], "host") = kept["host"] /\ Value(disk["ini"], k) = kept[k]
        BY <2>7, <3>1 DEF SettingsInv, ReportedIsKept, OnCard, Keys
      <3> QED
        BY <2>7, <3>2, HoldsIs DEF Loaded
    <2> QED
      BY <2>4, <2>5, <2>6, <2>7
  <1> QED
    BY <1>1, SettingsInvariant, PTL
=============================================================================
