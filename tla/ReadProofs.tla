------------------------------ MODULE ReadProofs ------------------------------
(* Proofs about modules PagedRead, CursorCodec and Aggregates, for any      *)
(* table, any page size, any limit, any number of segments and any writes  *)
(* of others between two pages.                                            *)
EXTENDS PagedRead, FiniteSetTheorems, WellFoundedInduction, TLAPS

-----------------------------------------------------------------------------
(* Cursors.                                                                *)

\* cursor.go: what attributeValueToJSON writes for a key attribute, or for any other value
\* that is not a list or a map, jsonToAttributeValue reads back.
LEMMA AttributeReadBack ==
    ASSUME NEW tag \in {"S", "N", "B", "BOOL", "SS", "NS"}, NEW value
    PROVE  JsonToAttributeValue(AttributeValueToJSON(AV(tag, value))) = AV(tag, value)
BY DEF JsonToAttributeValue, JsonSetToAttributeValue, AttributeValueToJSON, AV, Json, Base64, Unbase64

\* The same for a set of byte strings, which is converted element by element.
LEMMA BinarySetReadBack ==
    ASSUME NEW values
    PROVE  JsonToAttributeValue(AttributeValueToJSON(AV("BS", values))) = AV("BS", values)
<1>. DEFINE texts == {Base64(b) : b \in values}
<1>1. {Unbase64(x) : x \in texts} \subseteq values
  BY DEF Base64, Unbase64
<1>2. \A b \in values : Base64(b) \in texts /\ Unbase64(Base64(b)) = b
  BY DEF Base64, Unbase64
<1>3. {Unbase64(x) : x \in texts} = values
  BY <1>1, <1>2
<1>. QED
  BY <1>3 DEF JsonToAttributeValue, JsonSetToAttributeValue, AttributeValueToJSON,
              AttributeValueBinarySetToJSON, AV, Json

\* EncodeCursor and DecodeCursor: a key goes through a cursor unchanged.
LEMMA CursorReadBack ==
    ASSUME NEW r, NEW index, NEW direction
    PROVE  DecodeCursor(EncodeCursor(KeyOf(r), index, direction)) = KeyOf(r)
<1>. DEFINE key == KeyOf(r)
            cursor == EncodeCursor(key, index, direction)
<1>1. key = [a \in {"pk", "sk"} |-> IF a = "pk" THEN AV("S", 0) ELSE AV(KeyTag, r)]
  BY DEF KeyOf
<1>2. \A a \in {"pk", "sk"} : JsonToAttributeValue(AttributeValueToJSON(key[a])) = key[a]
  BY <1>1, AttributeReadBack, ReadAssumption
<1>3. /\ DOMAIN cursor.lastKey = {"pk", "sk"}
      /\ \A a \in {"pk", "sk"} : cursor.lastKey[a] = AttributeValueToJSON(key[a])
  <2>. HIDE DEF key
  <2>. QED  BY <1>1 DEF EncodeCursor
<1>4. DecodeCursor(cursor) = [a \in {"pk", "sk"} |-> key[a]]
  <2>. HIDE DEF cursor, key
  <2>. QED  BY <1>2, <1>3 DEF DecodeCursor
<1>5. key = [a \in {"pk", "sk"} |-> key[a]]
  BY <1>1
<1>6. DecodeCursor(cursor) = key
  BY <1>4, <1>5
<1>. QED  BY <1>6

\* Different rows have different keys, and the row after a key is found by it.
LEMMA KeysDiffer ==
    ASSUME NEW r \in Rows
    PROVE  KeyOf(r) # <<>> /\ After(KeyOf(r)) = r
<1>1. \A q \in Rows : KeyOf(q).sk.v = q
  BY DEF KeyOf, AV
<1>2. "pk" \in DOMAIN KeyOf(r) /\ "pk" \notin DOMAIN <<>>
  BY DEF KeyOf
<1>3. KeyOf(r) # <<>>
  BY <1>2
<1>4. (CHOOSE q \in Rows : KeyOf(q) = KeyOf(r)) = r
  BY <1>1
<1>. QED  BY <1>3, <1>4 DEF After

-----------------------------------------------------------------------------
(* Lists of rows.                                                          *)

\* Two lists without repetition and without a common member make one without repetition.
LEMMA JoinedOnce ==
    ASSUME NEW T, NEW a \in Seq(T), NEW b \in Seq(T), IsInjective(a), IsInjective(b),
           ToSet(a) \cap ToSet(b) = {}
    PROVE  /\ a \o b \in Seq(T) /\ IsInjective(a \o b)
           /\ ToSet(a \o b) = ToSet(a) \union ToSet(b)
<1>. DEFINE c == a \o b
<1>1. /\ c \in Seq(T) /\ Len(c) = Len(a) + Len(b)
      /\ \A i \in 1 .. Len(c) : c[i] = IF i <= Len(a) THEN a[i] ELSE b[i - Len(a)]
  OBVIOUS
<1>2. \A i \in 1 .. Len(c) : /\ i <= Len(a) => i \in DOMAIN a
                             /\ i > Len(a) => i - Len(a) \in DOMAIN b
  BY <1>1
<1>. HIDE DEF c
<1>3. ToSet(c) \subseteq ToSet(a) \union ToSet(b)
  BY <1>1, <1>2 DEF ToSet
<1>4. \A i \in DOMAIN a : i \in DOMAIN c /\ c[i] = a[i]
  BY <1>1
<1>5. \A i \in DOMAIN b : i + Len(a) \in DOMAIN c /\ c[i + Len(a)] = b[i]
  BY <1>1
<1>6. ToSet(a) \union ToSet(b) \subseteq ToSet(c)
  BY <1>4, <1>5 DEF ToSet
<1>. \A x \in ToSet(a), y \in ToSet(b) : x # y
  OBVIOUS
<1>a. \A i \in 1 .. Len(c) : /\ i <= Len(a) => c[i] \in ToSet(a)
                             /\ i > Len(a) => c[i] \in ToSet(b)
  BY <1>1, <1>2 DEF ToSet
<1>7. ASSUME NEW i \in DOMAIN c, NEW j \in DOMAIN c, c[i] = c[j]
      PROVE  i = j
  <2>1. CASE i <= Len(a) /\ j <= Len(a)
    BY <2>1, <1>1, <1>2, <1>7 DEF IsInjective
  <2>2. CASE i > Len(a) /\ j > Len(a)
    <3>1. /\ i - Len(a) \in DOMAIN b /\ j - Len(a) \in DOMAIN b
          /\ c[i] = b[i - Len(a)] /\ c[j] = b[j - Len(a)]
      BY <2>2, <1>1, <1>2
    <3>2. i - Len(a) = j - Len(a)
      BY <3>1, <1>7 DEF IsInjective
    <3>. QED  BY <3>2, <1>1
  <2>3. CASE (i <= Len(a) /\ j > Len(a)) \/ (j <= Len(a) /\ i > Len(a))
    BY <2>3, <1>1, <1>7, <1>a
  <2>. QED  BY <2>1, <2>2, <2>3, <1>1
<1>8. IsInjective(c)
  BY <1>7 DEF IsInjective
<1>. QED  BY <1>1, <1>3, <1>6, <1>8 DEF c

\* The first part of a list without repetition.
LEMMA FrontOnce ==
    ASSUME NEW T, NEW a \in Seq(T), IsInjective(a), NEW n \in 0 .. Len(a)
    PROVE  /\ SubSeq(a, 1, n) \in Seq(T) /\ Len(SubSeq(a, 1, n)) = n
           /\ IsInjective(SubSeq(a, 1, n)) /\ ToSet(SubSeq(a, 1, n)) \subseteq ToSet(a)
<1>. DEFINE c == SubSeq(a, 1, n)
<1>1. c \in Seq(T) /\ Len(c) = n /\ \A i \in 1 .. n : c[i] = a[i] /\ i \in DOMAIN a
  OBVIOUS
<1>. HIDE DEF c
<1>2. DOMAIN c = 1 .. n
  BY <1>1
<1>3. IsInjective(c) /\ ToSet(c) \subseteq ToSet(a)
  BY <1>1, <1>2 DEF IsInjective, ToSet
<1>. QED  BY <1>1, <1>3 DEF c

\* Rows in order: every row of the set, once.
LEMMA OrderedOnce ==
    ASSUME NEW S \in SUBSET Rows, NEW q \in InOrder(S)
    PROVE  q \in Seq(Rows) /\ IsInjective(q) /\ ToSet(q) = S
<1>1. IsFiniteSet(S) /\ S \subseteq Nat
  BY FS_Subset, ReadAssumption
<1>. DEFINE n == Cardinality(S)
<1>2. n \in Nat
  BY <1>1, FS_CardinalityType
<1>3. IsFiniteSet(1 .. n) /\ Cardinality(1 .. n) = n
  <2>1. IsFiniteSet(1 .. n) /\ Cardinality(1 .. n) = IF 1 > n THEN 0 ELSE n - 1 + 1
    BY <1>2, FS_Interval
  <2>. QED  BY <2>1, <1>2
<1>. HIDE DEF n
<1>4. q \in [1 .. n -> S] /\ \A i, j \in 1 .. n : i < j => q[i] < q[j]
  BY DEF InOrder, n
<1>5. IsInjective(q)
  <2>. SUFFICES ASSUME NEW i \in 1 .. n, NEW j \in 1 .. n, q[i] = q[j]
                PROVE  i = j
    BY <1>4 DEF IsInjective
  <2>1. i \in Nat /\ j \in Nat
    BY <1>2
  <2>2. q[i] \in S
    BY <1>4
  <2>3. q[i] \in Nat
    BY <1>1, <2>2
  <2>4. (i < j => q[i] < q[j]) /\ (j < i => q[j] < q[i])
    BY <1>4
  <2>5. ~(i < j) /\ ~(j < i)
    BY <2>3, <2>4
  <2>. QED  BY <2>1, <2>5
<1>6. q \in Injection(1 .. n, S)
  BY <1>4, <1>5 DEF Injection
<1>7. q \in Surjection(1 .. n, S)
  <2>1. Cardinality(1 .. n) = Cardinality(S)
    BY <1>3 DEF n
  <2>. QED  BY <1>1, <1>3, <1>6, <2>1, FS_Injection
<1>8. ToSet(q) = S
  BY <1>4, <1>7 DEF Surjection, ToSet
<1>9. q \in Seq(Rows)
  BY <1>2, <1>4
<1>. QED  BY <1>5, <1>8, <1>9

-----------------------------------------------------------------------------
(* The page loop.                                                          *)

PageStates ==
    [at : {"fetch", "failed", "done", "collected"},
     start : {<<>>} \union {KeyOf(r) : r \in Rows}, items : Seq(Rows)]

ReadTypeOK ==
    /\ req \in [mode : Modes, executor : {"session", "main"}, limit : Limits]
    /\ req.mode = "segments" => req.limit = 0
    /\ steady \subseteq present /\ present \subseteq ever /\ ever \subseteq Rows
    /\ page \in [Parts -> PageStates] /\ combined \in Seq(Rows)
    /\ readResult \in {"running", "nil", "error"}

\* The rows that a segment is to return.
SegmentRows(s, mode) == {r \in Matching : mode = "segments" => r % Segments = s - 1}

\* The number of items at which a loop stops before the last page, 0 if it does not.
StopsAt == IF req.mode = "all" \/ (req.mode = "count" /\ req.executor = "main") THEN Limit ELSE 0

\* What has been read of a segment: no row twice, none that is not wanted or was never
\* there.  While there are pages to read, these are the rows up to the start key, and
\* every one of them that was there all the time; after the last page, all such rows.
PageSound(p, s, mode, stop, always, once) ==
    /\ IsInjective(p.items) /\ ToSet(p.items) \subseteq SegmentRows(s, mode) \cap once
    /\ p.at = "fetch" =>
          /\ \A r \in ToSet(p.items) : r <= After(p.start)
          /\ \A r \in always \cap SegmentRows(s, mode) : r <= After(p.start) => r \in ToSet(p.items)
    /\ (p.at \in {"done", "collected"} /\ (stop = 0 \/ Len(p.items) < stop)) =>
          (always \cap SegmentRows(s, mode)) \subseteq ToSet(p.items)

PagesSound == \A s \in Parts : PageSound(page[s], s, req.mode, StopsAt, steady, ever)

\* The results of a scan that have been collected: those of whole segments.
CollectedSound ==
    (readResult = "running" /\ req.mode = "segments") =>
        /\ IsInjective(combined) /\ ToSet(combined) \subseteq Matching \cap ever
        /\ \A r \in ToSet(combined) : \A s \in Parts : InSegment(r, s) => page[s].at = "collected"
        /\ \A s \in Parts : page[s].at = "collected" => ToSet(page[s].items) \subseteq ToSet(combined)

ReadInv == ReadTypeOK /\ PagesSound /\ CollectedSound /\ EachRowOnce

\* The limit of a request is a number, and a scan of segments has none.
LEMMA LimitType ==
    ASSUME ReadTypeOK
    PROVE  Limit \in Nat /\ StopsAt \in Nat /\ (req.mode = "segments" => Limit = 0)
BY ReadAssumption DEF ReadTypeOK, Limit, PageLimit, SessionLimit, MainLimit, StopsAt, Modes

\* The row after which a segment goes on.
LEMMA AfterType ==
    ASSUME NEW start \in {<<>>} \union {KeyOf(r) : r \in Rows}
    PROVE  After(start) \in Nat
<1>1. CASE start = <<>>
  BY <1>1 DEF After
<1>2. CASE \E r \in Rows : start = KeyOf(r)
  BY <1>2, KeysDiffer, ReadAssumption
<1>. QED  BY <1>1, <1>2

\* The start key of the next page: the key of the last row, through a cursor or not.
LEMMA NextStartIs ==
    ASSUME NEW answer
    PROVE  NextStart(answer) = LastKey(answer)
<1>1. answer.last # 0 => DecodeCursor(EncodeCursor(LastKey(answer), "", "asc")) = LastKey(answer)
  BY CursorReadBack DEF LastKey
<1>. QED  BY <1>1 DEF NextStart

\* A page appended to what a segment has read.
LEMMA FoundSound ==
    ASSUME ReadTypeOK, NEW s \in Parts, page[s].at = "fetch",
           PageSound(page[s], s, req.mode, StopsAt, steady, ever),
           NEW answer \in Answers(s, page[s].start, Limit),
           NEW rows \in InOrder(answer.rows \cap Matching),
           NEW found, found = page[s].items \o rows,
           NEW next, next = NextStart(answer)
    PROVE  /\ found \in Seq(Rows) /\ IsInjective(found)
           /\ ToSet(found) \subseteq SegmentRows(s, req.mode) \cap ever
           /\ next \in {<<>>} \union {KeyOf(r) : r \in Rows}
           /\ next = <<>> => (steady \cap SegmentRows(s, req.mode)) \subseteq ToSet(found)
           /\ next # <<>> =>
                 /\ \A r \in ToSet(found) : r <= After(next)
                 /\ \A r \in steady \cap SegmentRows(s, req.mode) : r <= After(next) => r \in ToSet(found)
<1>. DEFINE items == page[s].items
            a0 == After(page[s].start)
            wanted == SegmentRows(s, req.mode)
            ahead == {r \in present : r > a0 /\ InSegment(r, s)}
            new == answer.rows \cap Matching
<1>1. page[s] \in PageStates
  BY DEF ReadTypeOK
<1>2. a0 \in Nat /\ items \in Seq(Rows)
  BY <1>1, AfterType DEF PageStates
<1>3. steady \subseteq present /\ present \subseteq ever /\ ever \subseteq Rows /\ Rows \subseteq Nat \ {0}
  BY ReadAssumption DEF ReadTypeOK
<1>4. /\ answer.rows \subseteq ahead /\ answer.last \in ahead \union {0}
      /\ \A r \in answer.rows, q \in ahead : q < r => q \in answer.rows
      /\ answer.last # 0 => answer.last \in answer.rows
      /\ answer.last # 0 => \A r \in answer.rows : r <= answer.last
      /\ answer.last = 0 => answer.rows = ahead
  BY DEF Answers
<1>5. ahead \subseteq Rows /\ \A r \in ahead : r > a0 /\ r \in Nat /\ r \in ever
  BY <1>3
<1>6. ahead \cap Matching \subseteq wanted
  BY DEF InSegment, SegmentRows
<1>7. \A r \in steady \cap wanted : r \in Matching /\ r \in Nat /\ (r > a0 => r \in ahead)
  BY <1>3 DEF InSegment, SegmentRows
<1>8. /\ IsInjective(items) /\ ToSet(items) \subseteq wanted \cap ever
      /\ \A r \in ToSet(items) : r <= a0
      /\ \A r \in steady \cap wanted : r <= a0 => r \in ToSet(items)
  BY DEF PageSound
<1>. HIDE DEF items, a0, wanted, ahead, new
<1>9. new \subseteq ahead \cap Matching
  BY <1>4 DEF new
<1>10. rows \in Seq(Rows) /\ IsInjective(rows) /\ ToSet(rows) = new
  <2>1. new \in SUBSET Rows
    BY <1>5, <1>9
  <2>. QED  BY <2>1, OrderedOnce DEF new
<1>11. ToSet(items) \cap ToSet(rows) = {}
  <2>1. \A r \in new : r > a0 /\ r \in Nat
    BY <1>5, <1>9
  <2>. QED  BY <1>2, <1>8, <1>10, <2>1
<1>12. found \in Seq(Rows) /\ IsInjective(found) /\ ToSet(found) = ToSet(items) \union new
  BY <1>2, <1>8, <1>10, <1>11, JoinedOnce DEF items
<1>13. ToSet(found) \subseteq wanted \cap ever
  BY <1>5, <1>6, <1>8, <1>9, <1>12
<1>14. next = IF answer.last = 0 THEN <<>> ELSE KeyOf(answer.last)
  BY NextStartIs DEF LastKey
<1>15. CASE answer.last = 0
  <2>1. \A r \in steady \cap wanted : r \in ToSet(found)
    <3>. SUFFICES ASSUME NEW r \in steady \cap wanted
                  PROVE  r \in ToSet(found)
      OBVIOUS
    <3>1. CASE r <= a0
      BY <3>1, <1>8, <1>12
    <3>2. CASE r > a0
      BY <3>2, <1>4, <1>7, <1>12, <1>15 DEF new
    <3>. QED  BY <3>1, <3>2, <1>2, <1>7
  <2>. QED  BY <1>12, <1>13, <1>14, <1>15, <2>1 DEF wanted
<1>16. CASE answer.last # 0
  <2>1. answer.last \in ahead /\ answer.last \in Rows /\ answer.last \in Nat /\ answer.last > a0
    BY <1>4, <1>5, <1>16
  <2>2. next = KeyOf(answer.last) /\ next # <<>> /\ After(next) = answer.last
    BY <1>14, <1>16, <2>1, KeysDiffer
  <2>3. \A r \in ToSet(found) : r <= answer.last
    <3>. SUFFICES ASSUME NEW r \in ToSet(found)
                  PROVE  r <= answer.last
      OBVIOUS
    <3>1. CASE r \in ToSet(items)
      <4>1. r <= a0 /\ r \in Nat
        BY <3>1, <1>3, <1>8
      <4>. QED  BY <4>1, <2>1, <1>2
    <3>2. CASE r \in new
      BY <3>2, <1>4, <1>16 DEF new
    <3>. QED  BY <3>1, <3>2, <1>12
  <2>4. \A r \in steady \cap wanted : r <= answer.last => r \in ToSet(found)
    <3>. SUFFICES ASSUME NEW r \in steady \cap wanted, r <= answer.last
                  PROVE  r \in ToSet(found)
      OBVIOUS
    <3>1. CASE r <= a0
      BY <3>1, <1>8, <1>12
    <3>2. CASE r > a0
      <4>1. r \in ahead /\ r \in Matching /\ r \in Nat
        BY <3>2, <1>7
      <4>2. r = answer.last \/ r < answer.last
        BY <4>1, <2>1
      <4>3. r \in answer.rows
        BY <4>1, <4>2, <1>4, <1>16
      <4>. QED  BY <4>1, <4>3, <1>12 DEF new
    <3>. QED  BY <3>1, <3>2, <1>2, <1>7
  <2>. QED  BY <1>12, <1>13, <2>1, <2>2, <2>3, <2>4 DEF wanted
<1>. QED  BY <1>15, <1>16

\* What an executor makes of a page: it goes on, it stops after the last page, or it stops
\* at the limit, where collectPaginatedItems cuts the list.
LEMMA FetchedSound ==
    ASSUME ReadTypeOK, NEW s \in Parts, page[s].at = "fetch",
           PageSound(page[s], s, req.mode, StopsAt, steady, ever),
           NEW answer \in Answers(s, page[s].start, Limit),
           NEW rows \in InOrder(answer.rows \cap Matching),
           NEW p, p = PageRead(page[s].items \o rows, NextStart(answer))
    PROVE  /\ p \in PageStates /\ p.at \in {"fetch", "done"}
           /\ PageSound(p, s, req.mode, StopsAt, steady, ever)
<1>. DEFINE found == page[s].items \o rows
            next == NextStart(answer)
            wanted == SegmentRows(s, req.mode)
<1>1. /\ found \in Seq(Rows) /\ IsInjective(found)
      /\ ToSet(found) \subseteq wanted \cap ever
      /\ next \in {<<>>} \union {KeyOf(r) : r \in Rows}
      /\ next = <<>> => (steady \cap wanted) \subseteq ToSet(found)
      /\ next # <<>> =>
            /\ \A r \in ToSet(found) : r <= After(next)
            /\ \A r \in steady \cap wanted : r <= After(next) => r \in ToSet(found)
  BY FoundSound
<1>2. Limit \in Nat /\ (req.mode = "segments" => Limit = 0)
  BY LimitType
<1>3. req.mode \in Modes /\ req.executor \in {"session", "main"}
  BY DEF ReadTypeOK
<1>. DEFINE whole == NextPage(FALSE, next, found)
            stopped == NextPage(Enough(found), next, found)
            cut == CollectItems(found, next)
<1>4. p = IF req.mode = "pages" \/ (req.mode = "count" /\ req.executor = "session") THEN whole
          ELSE IF req.executor = "session" THEN cut ELSE stopped
  BY <1>3 DEF PageRead, SessionSinglePage, MainSinglePage, CollectCounts, ExecutePagedItems
<1>. HIDE DEF found, next, wanted
<1>5. /\ whole \in PageStates /\ whole.at \in {"fetch", "done"}
      /\ PageSound(whole, s, req.mode, StopsAt, steady, ever)
  <2>1. whole = [at |-> IF next = <<>> THEN "done" ELSE "fetch", start |-> next, items |-> found]
    BY DEF NextPage
  <2>. HIDE DEF whole
  <2>. QED  BY <1>1, <2>1 DEF PageStates, PageSound, wanted
<1>6. ASSUME ~Enough(found)
      PROVE  stopped = whole /\ cut = whole
  BY <1>6 DEF CollectItems, NextPage
<1>7. ASSUME Enough(found), req.mode \in {"all", "count", "segments"},
             req.mode = "count" => req.executor = "main",
             NEW kept, kept \in Seq(Rows), Len(kept) >= Limit, IsInjective(kept),
             ToSet(kept) \subseteq ToSet(found)
      PROVE  /\ NextPage(TRUE, next, kept) \in PageStates
             /\ NextPage(TRUE, next, kept).at \in {"fetch", "done"}
             /\ PageSound(NextPage(TRUE, next, kept), s, req.mode, StopsAt, steady, ever)
  <2>1. Limit > 0 /\ req.mode # "segments"
    BY <1>2, <1>7 DEF Enough
  <2>2. StopsAt = Limit
    BY <1>7, <2>1 DEF StopsAt
  <2>3. Len(kept) \in Nat /\ ~(StopsAt = 0 \/ Len(kept) < StopsAt)
    BY <1>2, <1>7, <2>1, <2>2
  <2>. DEFINE end == NextPage(TRUE, next, kept)
  <2>4. end = [at |-> "done", start |-> next, items |-> kept]
    BY DEF NextPage
  <2>. HIDE DEF end
  <2>5. end \in PageStates /\ end.at \in {"fetch", "done"}
    BY <1>1, <1>7, <2>4 DEF PageStates
  <2>6. PageSound(end, s, req.mode, StopsAt, steady, ever)
    BY <1>1, <1>7, <2>3, <2>4 DEF PageSound, wanted
  <2>. QED  BY <2>5, <2>6 DEF end
<1>8. CASE ~Enough(found)
  BY <1>4, <1>5, <1>6, <1>8
<1>9. CASE Enough(found)
  <2>1. Limit \in 0 .. Len(found) /\ Len(found) >= Limit
    BY <1>1, <1>2, <1>9 DEF Enough
  <2>2. CASE p = whole
    BY <2>2, <1>5
  <2>3. CASE p = stopped /\ req.mode # "pages" /\ ~(req.mode = "count" /\ req.executor = "session")
    <3>1. stopped = NextPage(TRUE, next, found)
      BY <1>9
    <3>. QED  BY <2>1, <2>3, <3>1, <1>1, <1>3, <1>7, <1>9 DEF Modes
  <2>4. CASE p = cut /\ req.mode # "pages" /\ ~(req.mode = "count" /\ req.executor = "session")
             /\ req.executor = "session"
    <3>. DEFINE kept == SubSeq(found, 1, Limit)
    <3>1. cut = NextPage(TRUE, next, kept)
      BY <1>9 DEF CollectItems
    <3>2. kept \in Seq(Rows) /\ Len(kept) = Limit /\ IsInjective(kept) /\ ToSet(kept) \subseteq ToSet(found)
      BY <1>1, <2>1, FrontOnce
    <3>. HIDE DEF kept, cut
    <3>3. Len(kept) >= Limit
      BY <1>2, <3>2
    <3>. QED  BY <2>4, <3>1, <3>2, <3>3, <1>3, <1>7, <1>9 DEF Modes
  <2>. QED  BY <2>2, <2>3, <2>4, <1>3, <1>4
<1>. QED  BY <1>8, <1>9

\* Writes of others between two pages: what was read stays right.
LEMMA StillSound ==
    ASSUME NEW p, NEW s, NEW mode, NEW stop, NEW always, NEW once, NEW always2, NEW once2,
           PageSound(p, s, mode, stop, always, once), always2 \subseteq always, once \subseteq once2
    PROVE  PageSound(p, s, mode, stop, always2, once2)
BY DEF PageSound

\* A segment that has read nothing.
LEMMA FreshSound ==
    ASSUME NEW s, NEW mode, NEW stop, NEW always, always \subseteq Rows, NEW once
    PROVE  Fresh \in PageStates /\ PageSound(Fresh, s, mode, stop, always, once)
<1>1. After(Fresh.start) = 0 /\ ToSet(Fresh.items) = {} /\ IsInjective(Fresh.items)
  BY DEF Fresh, After, ToSet, IsInjective
<1>2. \A r \in always : ~(r <= 0)
  BY ReadAssumption
<1>. QED  BY <1>1, <1>2 DEF PageSound, PageStates, Fresh

\* Nothing has been read.
LEMMA ReadInvInit == ReadInit => ReadInv
<1>. SUFFICES ASSUME ReadInit
              PROVE  ReadInv
  OBVIOUS
<1>1. steady \subseteq Rows /\ Fresh \in PageStates
  BY FreshSound, ReadAssumption DEF ReadInit
<1>2. ReadTypeOK
  BY <1>1, ReadAssumption DEF ReadInit, ReadTypeOK
<1>3. PagesSound
  <2>. SUFFICES ASSUME NEW s \in Parts
                PROVE  PageSound(page[s], s, req.mode, StopsAt, steady, ever)
    BY DEF PagesSound
  <2>1. page[s] = Fresh
    BY DEF ReadInit
  <2>. QED  BY <1>1, <2>1, FreshSound
<1>4. CollectedSound
  <2>1. IsInjective(combined) /\ ToSet(combined) = {}
    BY DEF ReadInit, IsInjective, ToSet
  <2>2. \A s \in Parts : page[s].at = "fetch"
    BY DEF ReadInit, Fresh
  <2>. QED  BY <2>1, <2>2 DEF CollectedSound
<1>5. EachRowOnce
  BY DEF ReadInit, EachRowOnce
<1>. QED  BY <1>2, <1>3, <1>4, <1>5 DEF ReadInv

\* A step that leaves the request alone leaves its parts and its limit alone.
LEMMA RequestKept ==
    ASSUME UNCHANGED req
    PROVE  Parts' = Parts /\ Limit' = Limit /\ StopsAt' = StopsAt
BY DEF Parts, Limit, PageLimit, SessionLimit, MainLimit, StopsAt

\* Others write.
LEMMA WritesKeep ==
    ASSUME ReadInv, NEW r \in Rows, OtherWrites(r)
    PROVE  ReadInv'
<1>. USE DEF ReadInv
<1>1. Parts' = Parts /\ Limit' = Limit /\ StopsAt' = StopsAt
  BY RequestKept DEF OtherWrites
<1>2. UNCHANGED <<req, page, combined, readResult>> /\ readResult = "running"
  BY DEF OtherWrites
<1>3. steady' \subseteq steady /\ ever \subseteq ever' /\ steady' \subseteq present' /\ present' \subseteq ever' /\ ever' \subseteq Rows
  BY DEF OtherWrites, ReadTypeOK
<1>4. ReadTypeOK'
  BY <1>1, <1>2, <1>3 DEF ReadTypeOK
<1>5. PagesSound'
  <2>. SUFFICES ASSUME NEW s \in Parts
                PROVE  PageSound(page[s], s, req.mode, StopsAt, steady', ever')
    BY <1>1, <1>2 DEF PagesSound
  <2>. QED  BY <1>3, StillSound DEF PagesSound
<1>6. CollectedSound'
  BY <1>1, <1>2, <1>3 DEF CollectedSound, InSegment
<1>7. EachRowOnce'
  BY <1>2 DEF EachRowOnce
<1>. QED  BY <1>4, <1>5, <1>6, <1>7

\* One segment moves while the read goes on, and is not collected by it: FetchPage,
\* FetchFails and AllWithRetry.
LEMMA PageMoves ==
    ASSUME ReadInv, NEW s \in Parts, NEW p \in PageStates,
           page[s].at # "collected" \/ req.mode # "segments", p.at # "collected",
           page' = [page EXCEPT ![s] = p],
           PageSound(p, s, req.mode, StopsAt, steady, ever),
           UNCHANGED <<req, present, steady, ever, combined, readResult>>
    PROVE  ReadInv'
<1>. USE DEF ReadInv
<1>1. Parts' = Parts /\ Limit' = Limit /\ StopsAt' = StopsAt
  BY RequestKept
<1>2. \A t \in Parts : page'[t] = IF t = s THEN p ELSE page[t]
  BY DEF ReadTypeOK
<1>3. ReadTypeOK'
  BY <1>1 DEF ReadTypeOK
<1>4. PagesSound'
  <2>. SUFFICES ASSUME NEW t \in Parts
                PROVE  PageSound(page'[t], t, req.mode, StopsAt, steady, ever)
    BY <1>1 DEF PagesSound
  <2>. QED  BY <1>2 DEF PagesSound
<1>5. CollectedSound'
  BY <1>1, <1>2 DEF CollectedSound, InSegment
<1>6. EachRowOnce'
  BY <1>1 DEF EachRowOnce
<1>. QED  BY <1>3, <1>4, <1>5, <1>6

\* A page is read.
LEMMA FetchKeeps ==
    ASSUME ReadInv, NEW s \in Parts, FetchPage(s)
    PROVE  ReadInv'
<1>1. page[s].at = "fetch" /\ UNCHANGED <<req, present, steady, ever, combined, readResult>>
  BY DEF FetchPage
<1>2. PICK answer \in Answers(s, page[s].start, Limit) : \E rows \in InOrder(answer.rows \cap Matching) :
        page' = [page EXCEPT ![s] = PageRead(page[s].items \o rows, NextStart(answer))]
  BY DEF FetchPage
<1>3. PICK rows \in InOrder(answer.rows \cap Matching) :
        page' = [page EXCEPT ![s] = PageRead(page[s].items \o rows, NextStart(answer))]
  BY <1>2
<1>. DEFINE p == PageRead(page[s].items \o rows, NextStart(answer))
<1>4. ReadTypeOK /\ PageSound(page[s], s, req.mode, StopsAt, steady, ever)
  BY DEF ReadInv, PagesSound
<1>5. p \in PageStates /\ p.at \in {"fetch", "done"} /\ PageSound(p, s, req.mode, StopsAt, steady, ever)
  BY <1>1, <1>4, FetchedSound
<1>6. page' = [page EXCEPT ![s] = p]
  BY <1>3
<1>. HIDE DEF p
<1>. QED  BY <1>1, <1>5, <1>6, PageMoves

\* A request fails.
LEMMA FailureKeeps ==
    ASSUME ReadInv, NEW s \in Parts, FetchFails(s)
    PROVE  ReadInv'
<1>. DEFINE p == [page[s] EXCEPT !.at = "failed"]
<1>1. page[s] \in PageStates /\ PageSound(page[s], s, req.mode, StopsAt, steady, ever)
  BY DEF ReadInv, ReadTypeOK, PagesSound
<1>2. p \in PageStates /\ p.at = "failed" /\ p.items = page[s].items
  BY <1>1 DEF PageStates
<1>3. /\ page[s].at = "fetch" /\ page' = [page EXCEPT ![s] = p]
      /\ UNCHANGED <<req, present, steady, ever, combined, readResult>>
  BY DEF FetchFails, Moved
<1>. HIDE DEF p
<1>4. PageSound(p, s, req.mode, StopsAt, steady, ever)
  BY <1>1, <1>2 DEF PageSound
<1>. QED  BY <1>2, <1>3, <1>4, PageMoves

\* allWithRetry starts again.
LEMMA RetryKeeps ==
    ASSUME ReadInv, AllWithRetry
    PROVE  ReadInv'
<1>1. /\ req.mode = "all" /\ page' = [page EXCEPT ![1] = Fresh]
      /\ UNCHANGED <<req, present, steady, ever, combined, readResult>>
  BY DEF AllWithRetry, Retried
<1>2. 1 \in Parts
  BY <1>1 DEF Parts
<1>3. steady \subseteq Rows
  BY DEF ReadInv, ReadTypeOK
<1>4. Fresh \in PageStates /\ PageSound(Fresh, 1, req.mode, StopsAt, steady, ever)
  BY <1>3, FreshSound
<1>5. Fresh.at # "collected"
  BY DEF Fresh
<1>. QED  BY <1>1, <1>2, <1>4, <1>5, PageMoves

\* ScanAllSegments takes the result of a segment: it has no row in common with those of
\* the others.
LEMMA CollectKeeps ==
    ASSUME ReadInv, NEW s \in Parts, CollectSegment(s)
    PROVE  ReadInv'
<1>. DEFINE p == [page[s] EXCEPT !.at = "collected"]
            items == page[s].items
<1>1. /\ readResult = "running" /\ req.mode = "segments" /\ page[s].at = "done"
      /\ page' = [page EXCEPT ![s] = p] /\ combined' = combined \o items
      /\ UNCHANGED <<req, present, steady, ever, readResult>>
  BY DEF CollectSegment, Moved
<1>2. Parts' = Parts /\ Limit' = Limit /\ StopsAt' = StopsAt
  BY <1>1, RequestKept
<1>3. page[s] \in PageStates /\ PageSound(page[s], s, req.mode, StopsAt, steady, ever)
  BY DEF ReadInv, ReadTypeOK, PagesSound
<1>4. p \in PageStates /\ p.at = "collected" /\ p.items = items
  BY <1>3 DEF PageStates
<1>. HIDE DEF p
<1>5. PageSound(p, s, req.mode, StopsAt, steady, ever)
  BY <1>1, <1>3, <1>4 DEF PageSound
<1>6. \A t \in Parts : page'[t] = IF t = s THEN p ELSE page[t]
  BY <1>1 DEF ReadInv, ReadTypeOK
<1>7. /\ items \in Seq(Rows) /\ IsInjective(items)
      /\ \A r \in ToSet(items) : r \in Matching /\ r \in ever /\ InSegment(r, s)
  BY <1>1, <1>3 DEF PageStates, PageSound, SegmentRows, InSegment
<1>8. /\ combined \in Seq(Rows) /\ IsInjective(combined) /\ ToSet(combined) \subseteq Matching \cap ever
      /\ \A r \in ToSet(combined) : \A t \in Parts : InSegment(r, t) => page[t].at = "collected"
      /\ \A t \in Parts : page[t].at = "collected" => ToSet(page[t].items) \subseteq ToSet(combined)
  BY <1>1 DEF ReadInv, ReadTypeOK, CollectedSound
<1>. HIDE DEF items
<1>9. ToSet(combined) \cap ToSet(items) = {}
  BY <1>1, <1>7, <1>8
<1>10. /\ combined' \in Seq(Rows) /\ IsInjective(combined')
       /\ ToSet(combined') = ToSet(combined) \union ToSet(items)
  BY <1>1, <1>7, <1>8, <1>9, JoinedOnce
<1>11. ReadTypeOK'
  BY <1>1, <1>2, <1>4, <1>10 DEF ReadInv, ReadTypeOK
<1>12. PagesSound'
  <2>. SUFFICES ASSUME NEW t \in Parts
                PROVE  PageSound(page'[t], t, req.mode, StopsAt, steady, ever)
    BY <1>1, <1>2 DEF PagesSound
  <2>. QED  BY <1>5, <1>6 DEF ReadInv, PagesSound
<1>13. CollectedSound'
  <2>1. ASSUME NEW r \in ToSet(combined'), NEW t \in Parts, InSegment(r, t)
        PROVE  page'[t].at = "collected"
    <3>1. CASE t = s
      BY <3>1, <1>4, <1>6
    <3>2. CASE t # s /\ r \in ToSet(combined)
      BY <3>2, <2>1, <1>6, <1>8
    <3>3. CASE t # s /\ r \in ToSet(items)
      <4>1. r % Segments = s - 1 /\ r % Segments = t - 1
        BY <3>3, <2>1, <1>1, <1>7 DEF InSegment
      <4>2. s \in Int /\ t \in Int
        BY ReadAssumption DEF Parts
      <4>. QED  BY <3>3, <4>1, <4>2
    <3>. QED  BY <3>1, <3>2, <3>3, <1>10
  <2>2. ASSUME NEW t \in Parts, page'[t].at = "collected"
        PROVE  ToSet(page'[t].items) \subseteq ToSet(combined')
    BY <2>2, <1>4, <1>6, <1>8, <1>10
  <2>3. ToSet(combined') \subseteq Matching \cap ever
    BY <1>7, <1>8, <1>10
  <2>. QED  BY <1>1, <1>2, <1>10, <2>1, <2>2, <2>3 DEF CollectedSound, InSegment
<1>14. EachRowOnce'
  BY <1>1 DEF EachRowOnce
<1>. QED  BY <1>11, <1>12, <1>13, <1>14 DEF ReadInv

\* The read returns: what it hands out is the whole result of its one part, or that of all
\* segments.
LEMMA ReturnKeeps ==
    ASSUME ReadInv, Return
    PROVE  ReadInv'
<1>1. UNCHANGED <<req, present, steady, ever, page>> /\ readResult = "running"
  BY DEF Return
<1>2. Parts' = Parts /\ Limit' = Limit /\ StopsAt' = StopsAt
  BY <1>1, RequestKept
<1>3. DOMAIN page = Parts /\ page \in [Parts -> PageStates] /\ combined \in Seq(Rows)
  BY DEF ReadInv, ReadTypeOK
<1>4. readResult' # "running" /\ readResult' \in {"nil", "error"}
  BY DEF Return, WriteResult
<1>5. CollectedSound'
  BY <1>4 DEF CollectedSound
<1>6. PagesSound'
  BY <1>1, <1>2 DEF ReadInv, PagesSound
<1>7. CASE readResult' = "error" /\ combined' = <<>>
  <2>1. EachRowOnce'
    BY <1>7 DEF EachRowOnce
  <2>2. ReadTypeOK'
    BY <1>1, <1>2, <1>7 DEF ReadInv, ReadTypeOK
  <2>. QED  BY <1>5, <1>6, <2>1, <2>2 DEF ReadInv
<1>8. CASE req.mode # "segments" /\ page[1].at = "done" /\ readResult' = WriteResult /\ combined' = page[1].items
  <2>1. 1 \in Parts /\ page[1] \in PageStates
    BY <1>3, <1>8 DEF Parts
  <2>2. PageSound(page[1], 1, req.mode, StopsAt, steady, ever)
    BY <2>1 DEF ReadInv, PagesSound
  <2>3. SegmentRows(1, req.mode) = Matching
    BY <1>8 DEF SegmentRows
  <2>4. combined' \in Seq(Rows) /\ IsInjective(combined') /\ ToSet(combined') \subseteq Matching \cap ever
    BY <1>8, <2>1, <2>2, <2>3 DEF PageStates, PageSound
  <2>5. ASSUME readResult' = "nil", req.mode # "all" \/ Limit = 0 \/ Len(combined') < Limit
        PROVE  (steady \cap Matching) \subseteq ToSet(combined')
    <3>1. StopsAt = 0 \/ Len(page[1].items) < StopsAt
      BY <1>8, <2>5 DEF StopsAt, WriteResult
    <3>. QED  BY <1>8, <2>2, <2>3, <3>1 DEF PageSound
  <2>6. EachRowOnce'
    BY <1>1, <1>2, <2>4, <2>5 DEF EachRowOnce
  <2>7. ReadTypeOK'
    BY <1>1, <1>2, <1>4, <2>4 DEF ReadInv, ReadTypeOK
  <2>. QED  BY <1>5, <1>6, <2>6, <2>7 DEF ReadInv
<1>9. CASE req.mode = "segments" /\ (\A s \in Parts : page[s].at = "collected") /\ UNCHANGED combined
  <2>1. /\ IsInjective(combined) /\ ToSet(combined) \subseteq Matching \cap ever
        /\ \A s \in Parts : ToSet(page[s].items) \subseteq ToSet(combined)
    BY <1>1, <1>9 DEF ReadInv, CollectedSound
  <2>2. ASSUME NEW r \in steady \cap Matching
        PROVE  r \in ToSet(combined)
    <3>1. r \in Nat /\ Segments \in Nat \ {0}
      BY ReadAssumption DEF ReadInv, ReadTypeOK
    <3>2. r % Segments \in 0 .. Segments - 1
      BY <3>1
    <3>. DEFINE s == (r % Segments) + 1
    <3>3. s \in 1 .. Segments /\ s - 1 = r % Segments
      BY <3>1, <3>2
    <3>. HIDE DEF s
    <3>4. s \in Parts /\ r \in SegmentRows(s, req.mode)
      BY <1>9, <3>3 DEF Parts, SegmentRows
    <3>5. PageSound(page[s], s, req.mode, StopsAt, steady, ever) /\ page[s].at = "collected"
      BY <1>9, <3>4 DEF ReadInv, PagesSound
    <3>6. StopsAt = 0
      BY <1>9 DEF StopsAt
    <3>7. r \in ToSet(page[s].items)
      BY <3>4, <3>5, <3>6 DEF PageSound
    <3>. QED  BY <2>1, <3>4, <3>7
  <2>3. EachRowOnce'
    BY <1>1, <1>2, <1>9, <2>1, <2>2 DEF EachRowOnce
  <2>4. ReadTypeOK'
    BY <1>1, <1>2, <1>3, <1>4, <1>9 DEF ReadInv, ReadTypeOK
  <2>. QED  BY <1>5, <1>6, <2>3, <2>4 DEF ReadInv
<1>. QED  BY <1>3, <1>7, <1>8, <1>9 DEF Return

\* Every step keeps the invariant.
LEMMA ReadInvStep == ReadInv /\ [ReadNext]_readVars => ReadInv'
<1>. SUFFICES ASSUME ReadInv, [ReadNext]_readVars
              PROVE  ReadInv'
  OBVIOUS
<1>1. DOMAIN page = Parts
  BY DEF ReadInv, ReadTypeOK
<1>2. ASSUME NEW r \in Rows, OtherWrites(r)
      PROVE  ReadInv'
  BY <1>2, WritesKeep
<1>3. ASSUME NEW s \in Parts, FetchPage(s) \/ FetchFails(s) \/ CollectSegment(s)
      PROVE  ReadInv'
  BY <1>3, FetchKeeps, FailureKeeps, CollectKeeps
<1>4. CASE AllWithRetry \/ Return
  BY <1>4, RetryKeeps, ReturnKeeps
<1>5. CASE UNCHANGED readVars
  <2>1. Parts' = Parts /\ Limit' = Limit /\ StopsAt' = StopsAt
    BY <1>5, RequestKept DEF readVars
  <2>2. UNCHANGED <<req, present, steady, ever, page, combined, readResult>>
    BY <1>5 DEF readVars
  <2>3. ReadTypeOK' /\ EachRowOnce'
    BY <2>1, <2>2 DEF ReadInv, ReadTypeOK, EachRowOnce
  <2>4. PagesSound'
    BY <2>1, <2>2 DEF ReadInv, PagesSound
  <2>5. CollectedSound'
    BY <2>1, <2>2 DEF ReadInv, CollectedSound, InSegment
  <2>. QED  BY <2>3, <2>4, <2>5 DEF ReadInv
<1>. QED  BY <1>1, <1>2, <1>3, <1>4, <1>5 DEF ReadNext

\* Every paged read (AllPaginated, collectPaginatedItems, executePagedItems,
\* ScanAllSegments), for any table, pages, limits and number of segments, while others
\* write: no row twice, none that was never there or does not match, and, unless a limit
\* ended the read, none missed that was there all the time.
THEOREM EachRowReadOnce == ReadSpec => []EachRowOnce
<1>1. ReadInv => EachRowOnce
  BY DEF ReadInv
<1>. QED  BY <1>1, ReadInvInit, ReadInvStep, PTL DEF ReadSpec

-----------------------------------------------------------------------------
(* Induction.                                                              *)

\* Induction on the natural numbers, for a set.
LEMMA CountUp ==
    ASSUME NEW T, 0 \in T, \A n \in Nat : n \in T => n + 1 \in T
    PROVE  Nat \subseteq T
<1>. SUFFICES ASSUME Nat \ T # {}
              PROVE  FALSE
  OBVIOUS
<1>. DEFINE Less == OpToRel(<, Nat)
<1>1. IsWellFoundedOn(Less, Nat)
  BY NatLessThanWellFounded
<1>2. \A x, y \in Nat : <<x, y>> \in Less <=> x < y
  BY DEF OpToRel
<1>. HIDE DEF Less
<1>3. \E x \in Nat \ T : \A y \in Nat \ T : ~(<<y, x>> \in Less)
  BY <1>1, WFMin
<1>4. PICK x \in Nat \ T : \A y \in Nat \ T : ~(<<y, x>> \in Less)
  BY <1>3
<1>5. \A y \in Nat : y < x => y \in T
  BY <1>2, <1>4
<1>6. x - 1 \in Nat /\ x - 1 < x /\ x - 1 + 1 = x
  <2>1. x # 0
    OBVIOUS
  <2>. QED  BY <2>1
<1>7. x - 1 \in T
  BY <1>5, <1>6
<1>. QED  BY <1>6, <1>7

-----------------------------------------------------------------------------
(* Sums.                                                                   *)

\* The running totals of the first n numbers.
Totals(g, d, n) == g = [m \in 0 .. n |-> IF m = 0 THEN 0 ELSE g[m - 1] + d[m]]

\* Running totals go on.
LEMMA TotalsLonger ==
    ASSUME NEW n \in Nat, NEW d, NEW g, Totals(g, d, n)
    PROVE  \E h : Totals(h, d, n + 1) /\ h[n] = g[n]
<1>. DEFINE last == g[n] + d[n + 1]
            h == [k \in 0 .. n + 1 |-> IF k = n + 1 THEN last ELSE g[k]]
<1>1. \A k \in 0 .. n : g[k] = IF k = 0 THEN 0 ELSE g[k - 1] + d[k]
  BY DEF Totals
<1>2. \A k \in 0 .. n + 1 : h[k] = IF k = 0 THEN 0 ELSE h[k - 1] + d[k]
  <2>. TAKE k \in 0 .. n + 1
  <2>1. CASE k = n + 1
    <3>1. k # 0 /\ k - 1 = n /\ n \in 0 .. n + 1 /\ n # n + 1
      BY <2>1
    <3>2. h[k - 1] = g[n] /\ h[k] = last
      BY <2>1, <3>1
    <3>. QED  BY <2>1, <3>1, <3>2
  <2>2. CASE k # n + 1
    <3>1. k \in 0 .. n /\ h[k] = g[k]
      BY <2>2
    <3>2. k # 0 => k - 1 \in 0 .. n + 1 /\ k - 1 # n + 1
      BY <3>1
    <3>3. k # 0 => h[k - 1] = g[k - 1]
      BY <3>2
    <3>. HIDE DEF h
    <3>. QED  BY <1>1, <3>1, <3>3
  <2>. QED  BY <2>1, <2>2
<1>3. h = [k \in 0 .. n + 1 |-> h[k]]
  OBVIOUS
<1>4. h[n] = g[n]
  OBVIOUS
<1>5. Totals(h, d, n + 1)
  <2>. HIDE DEF h
  <2>. QED  BY <1>2, <1>3 DEF Totals
<1>. QED  BY <1>4, <1>5

\* There are running totals of any list.
LEMMA TotalsExist ==
    ASSUME NEW n \in Nat, NEW d
    PROVE  \E g : Totals(g, d, n)
<1>. DEFINE T == {k \in Nat : \E g : Totals(g, d, k)}
<1>1. 0 \in T
  <2>. DEFINE g == [k \in 0 .. 0 |-> 0]
  <2>1. Totals(g, d, 0)
    BY DEF Totals
  <2>. QED  BY <2>1
<1>2. \A k \in Nat : k \in T => k + 1 \in T
  BY TotalsLonger
<1>3. Nat \subseteq T
  <2>. HIDE DEF T
  <2>. QED  BY <1>1, <1>2, CountUp
<1>. QED  BY <1>3

\* ... and only one.
LEMMA TotalsUnique ==
    ASSUME NEW n \in Nat, NEW d, NEW g, Totals(g, d, n), NEW h, Totals(h, d, n)
    PROVE  g[n] = h[n]
<1>1. \A k \in 0 .. n : /\ g[k] = IF k = 0 THEN 0 ELSE g[k - 1] + d[k]
                        /\ h[k] = IF k = 0 THEN 0 ELSE h[k - 1] + d[k]
  BY DEF Totals
<1>. DEFINE T == {k \in Nat : k <= n => g[k] = h[k]}
<1>2. 0 \in T
  BY <1>1
<1>3. \A k \in Nat : k \in T => k + 1 \in T
  <2>. SUFFICES ASSUME NEW k \in Nat, k \in T, k + 1 <= n
                PROVE  g[k + 1] = h[k + 1]
    OBVIOUS
  <2>1. k + 1 \in 0 .. n /\ k + 1 # 0 /\ k + 1 - 1 = k /\ g[k] = h[k]
    OBVIOUS
  <2>. QED  BY <1>1, <2>1
<1>4. Nat \subseteq T
  <2>. HIDE DEF T
  <2>. QED  BY <1>2, <1>3, CountUp
<1>. QED  BY <1>4

\* Total is the last of them.
LEMMA TotalIs ==
    ASSUME NEW n \in Nat, NEW d, NEW g, Totals(g, d, n)
    PROVE  Total(d, n) = g[n]
<1>. DEFINE h == CHOOSE f : Totals(f, d, n)
<1>1. Totals(h, d, n)
  BY TotalsExist
<1>2. Total(d, n) = h[n]
  BY DEF Total, Totals
<1>. HIDE DEF h
<1>. QED  BY <1>1, <1>2, TotalsUnique

\* The sum of nothing.
LEMMA TotalNone ==
    ASSUME NEW d
    PROVE  Total(d, 0) = 0
<1>1. PICK g : Totals(g, d, 0)
  BY TotalsExist
<1>2. g[0] = 0
  BY <1>1 DEF Totals
<1>. QED  BY <1>1, <1>2, TotalIs

\* One number more.
LEMMA TotalNext ==
    ASSUME NEW n \in Nat, NEW d
    PROVE  Total(d, n + 1) = Total(d, n) + d[n + 1]
<1>1. PICK g : Totals(g, d, n)
  BY TotalsExist
<1>2. PICK h : Totals(h, d, n + 1) /\ h[n] = g[n]
  BY <1>1, TotalsLonger
<1>3. \A k \in 0 .. n + 1 : h[k] = IF k = 0 THEN 0 ELSE h[k - 1] + d[k]
  BY <1>2 DEF Totals
<1>4. h[n + 1] = h[n] + d[n + 1]
  <2>1. n + 1 \in 0 .. n + 1 /\ n + 1 # 0 /\ n + 1 - 1 = n
    OBVIOUS
  <2>. QED  BY <1>3, <2>1
<1>5. Total(d, n) = g[n] /\ Total(d, n + 1) = h[n + 1]
  BY <1>1, <1>2, TotalIs
<1>. QED  BY <1>2, <1>4, <1>5

\* A sum of integers is one.
LEMMA TotalInt ==
    ASSUME NEW n \in Nat, NEW d, \A i \in 1 .. n : d[i] \in Int
    PROVE  Total(d, n) \in Int
<1>. DEFINE T == {k \in Nat : k <= n => Total(d, k) \in Int}
<1>1. 0 \in T
  BY TotalNone
<1>2. \A k \in Nat : k \in T => k + 1 \in T
  <2>. SUFFICES ASSUME NEW k \in Nat, k \in T, k + 1 <= n
                PROVE  Total(d, k + 1) \in Int
    OBVIOUS
  <2>1. Total(d, k) \in Int /\ d[k + 1] \in Int
    OBVIOUS
  <2>2. Total(d, k + 1) = Total(d, k) + d[k + 1]
    BY TotalNext
  <2>. QED  BY <2>1, <2>2
<1>3. Nat \subseteq T
  <2>. HIDE DEF T
  <2>. QED  BY <1>1, <1>2, CountUp
<1>. QED  BY <1>3

\* Equal numbers have equal sums.
LEMMA TotalSame ==
    ASSUME NEW n \in Nat, NEW d, NEW e, \A i \in 1 .. n : d[i] = e[i]
    PROVE  Total(d, n) = Total(e, n)
<1>. DEFINE T == {k \in Nat : k <= n => Total(d, k) = Total(e, k)}
<1>1. 0 \in T
  BY TotalNone
<1>2. \A k \in Nat : k \in T => k + 1 \in T
  <2>. SUFFICES ASSUME NEW k \in Nat, k \in T, k + 1 <= n
                PROVE  Total(d, k + 1) = Total(e, k + 1)
    OBVIOUS
  <2>1. Total(d, k) = Total(e, k) /\ d[k + 1] = e[k + 1]
    OBVIOUS
  <2>2. Total(d, k + 1) = Total(d, k) + d[k + 1] /\ Total(e, k + 1) = Total(e, k) + e[k + 1]
    BY TotalNext
  <2>. QED  BY <2>1, <2>2
<1>3. Nat \subseteq T
  <2>. HIDE DEF T
  <2>. QED  BY <1>1, <1>2, CountUp
<1>. QED  BY <1>3

\* The sum of sums.
LEMMA TotalAdds ==
    ASSUME NEW n \in Nat, NEW d, NEW e, NEW f,
           \A i \in 1 .. n : d[i] \in Int /\ e[i] \in Int /\ f[i] = d[i] + e[i]
    PROVE  Total(f, n) = Total(d, n) + Total(e, n)
<1>. DEFINE T == {k \in Nat : k <= n =>
                    /\ Total(d, k) \in Int /\ Total(e, k) \in Int
                    /\ Total(f, k) = Total(d, k) + Total(e, k)}
<1>1. 0 \in T
  BY TotalNone
<1>2. \A k \in Nat : k \in T => k + 1 \in T
  <2>. SUFFICES ASSUME NEW k \in Nat, k \in T, k + 1 <= n
                PROVE  /\ Total(d, k + 1) \in Int /\ Total(e, k + 1) \in Int
                       /\ Total(f, k + 1) = Total(d, k + 1) + Total(e, k + 1)
    OBVIOUS
  <2>1. /\ Total(d, k) \in Int /\ Total(e, k) \in Int /\ Total(f, k) = Total(d, k) + Total(e, k)
        /\ d[k + 1] \in Int /\ e[k + 1] \in Int /\ f[k + 1] = d[k + 1] + e[k + 1]
    OBVIOUS
  <2>2. /\ Total(d, k + 1) = Total(d, k) + d[k + 1] /\ Total(e, k + 1) = Total(e, k) + e[k + 1]
        /\ Total(f, k + 1) = Total(f, k) + f[k + 1]
    BY TotalNext
  <2>. QED  BY <2>1, <2>2
<1>3. Nat \subseteq T
  <2>. HIDE DEF T
  <2>. QED  BY <1>1, <1>2, CountUp
<1>. QED  BY <1>3

\* At most one of the numbers is not 0.
OnlyAt(d, n, j, v) == \A i \in 1 .. n : d[i] = IF i = j THEN v ELSE 0

\* A list with one number that is not 0.
LEMMA TotalOfOne ==
    ASSUME NEW n \in Nat, NEW d, NEW j, NEW v \in Int, OnlyAt(d, n, j, v)
    PROVE  Total(d, n) = IF j \in 1 .. n THEN v ELSE 0
<1>. DEFINE T == {k \in Nat : k <= n => Total(d, k) = IF j \in 1 .. k THEN v ELSE 0}
<1>1. 0 \in T
  BY TotalNone
<1>2. \A k \in Nat : k \in T => k + 1 \in T
  <2>. SUFFICES ASSUME NEW k \in Nat, k \in T, k + 1 <= n
                PROVE  Total(d, k + 1) = IF j \in 1 .. k + 1 THEN v ELSE 0
    OBVIOUS
  <2>1. Total(d, k) = (IF j \in 1 .. k THEN v ELSE 0) /\ d[k + 1] = IF k + 1 = j THEN v ELSE 0
    BY DEF OnlyAt
  <2>2. Total(d, k + 1) = Total(d, k) + d[k + 1]
    BY TotalNext
  <2>3. CASE j = k + 1
    <3>1. j \notin 1 .. k /\ j \in 1 .. k + 1
      BY <2>3
    <3>. QED  BY <2>1, <2>2, <2>3, <3>1
  <2>4. CASE j # k + 1
    <3>1. j \in 1 .. k <=> j \in 1 .. k + 1
      BY <2>4
    <3>. QED  BY <2>1, <2>2, <2>4, <3>1
  <2>. QED  BY <2>3, <2>4
<1>3. Nat \subseteq T
  <2>. HIDE DEF T
  <2>. QED  BY <1>1, <1>2, CountUp
<1>. QED  BY <1>3

\* A sum of numbers that are not positive is not.
LEMMA TotalOfNothing ==
    ASSUME NEW n \in Nat, NEW d, \A i \in 1 .. n : d[i] \in Int /\ d[i] <= 0
    PROVE  Total(d, n) \in Int /\ Total(d, n) <= 0
<1>. DEFINE T == {k \in Nat : k <= n => Total(d, k) \in Int /\ Total(d, k) <= 0}
<1>1. 0 \in T
  BY TotalNone
<1>2. \A k \in Nat : k \in T => k + 1 \in T
  <2>. SUFFICES ASSUME NEW k \in Nat, k \in T, k + 1 <= n
                PROVE  Total(d, k + 1) \in Int /\ Total(d, k + 1) <= 0
    OBVIOUS
  <2>1. Total(d, k) \in Int /\ Total(d, k) <= 0 /\ d[k + 1] \in Int /\ d[k + 1] <= 0
    OBVIOUS
  <2>2. Total(d, k + 1) = Total(d, k) + d[k + 1]
    BY TotalNext
  <2>. QED  BY <2>1, <2>2
<1>3. Nat \subseteq T
  <2>. HIDE DEF T
  <2>. QED  BY <1>1, <1>2, CountUp
<1>. QED  BY <1>3

\* A table of numbers has one sum, by rows and by columns.
LEMMA SumsSwap ==
    ASSUME NEW m \in Nat, NEW n \in Nat, NEW t, \A k \in 1 .. m, i \in 1 .. n : t[k][i] \in Int
    PROVE  Total([k \in 1 .. m |-> Total(t[k], n)], m) =
             Total([i \in 1 .. n |-> Total([k \in 1 .. m |-> t[k][i]], m)], n)
<1>. DEFINE R(p) == Total([k \in 1 .. p |-> Total(t[k], n)], p)
            C(p) == [i \in 1 .. n |-> Total([k \in 1 .. p |-> t[k][i]], p)]
            T == {p \in Nat : p <= m => R(p) = Total(C(p), n)}
<1>1. 0 \in T
  <2>1. R(0) = 0
    BY TotalNone
  <2>2. \A i \in 1 .. n : C(0)[i] = 0
    BY TotalNone
  <2>3. Total(C(0), n) = 0
    <3>. DEFINE d == C(0)
    <3>1. OnlyAt(d, n, 0, 0)
      BY <2>2 DEF OnlyAt
    <3>. HIDE DEF d
    <3>2. Total(d, n) = IF 0 \in 1 .. n THEN 0 ELSE 0
      BY <3>1, TotalOfOne
    <3>. QED  BY <3>2 DEF d
  <2>. QED  BY <2>1, <2>3
<1>2. \A p \in Nat : p \in T => p + 1 \in T
  <2>. SUFFICES ASSUME NEW p \in Nat, p \in T, p + 1 <= m
                PROVE  R(p + 1) = Total(C(p + 1), n)
    OBVIOUS
  <2>0. R(p) = Total(C(p), n)
    OBVIOUS
  <2>. DEFINE r == [k \in 1 .. p |-> Total(t[k], n)]
              q == [k \in 1 .. p + 1 |-> Total(t[k], n)]
  <2>1. R(p + 1) = R(p) + Total(t[p + 1], n)
    <3>1. \A k \in 1 .. p : r[k] = q[k]
      OBVIOUS
    <3>2. q[p + 1] = Total(t[p + 1], n)
      OBVIOUS
    <3>. HIDE DEF r, q
    <3>3. Total(r, p) = Total(q, p)
      BY <3>1, TotalSame
    <3>4. Total(q, p + 1) = Total(q, p) + q[p + 1]
      BY TotalNext
    <3>. QED  BY <3>2, <3>3, <3>4 DEF r, q
  <2>2. \A i \in 1 .. n : /\ C(p)[i] \in Int /\ t[p + 1][i] \in Int
                          /\ C(p + 1)[i] = C(p)[i] + t[p + 1][i]
    <3>. TAKE i \in 1 .. n
    <3>. DEFINE a == [k \in 1 .. p |-> t[k][i]]
                b == [k \in 1 .. p + 1 |-> t[k][i]]
    <3>1. /\ \A k \in 1 .. p : a[k] = b[k] /\ a[k] \in Int
          /\ b[p + 1] = t[p + 1][i] /\ t[p + 1][i] \in Int
      OBVIOUS
    <3>2. C(p)[i] = Total(a, p) /\ C(p + 1)[i] = Total(b, p + 1)
      OBVIOUS
    <3>. HIDE DEF a, b, C
    <3>3. Total(a, p) = Total(b, p)
      BY <3>1, TotalSame
    <3>4. Total(a, p) \in Int
      BY <3>1, TotalInt
    <3>5. Total(b, p + 1) = Total(b, p) + b[p + 1]
      BY TotalNext
    <3>. QED  BY <3>1, <3>2, <3>3, <3>4, <3>5
  <2>3. Total(C(p + 1), n) = Total(C(p), n) + Total(t[p + 1], n)
    <3>. DEFINE a == C(p)
                b == C(p + 1)
                c == t[p + 1]
    <3>1. \A i \in 1 .. n : a[i] \in Int /\ c[i] \in Int /\ b[i] = a[i] + c[i]
      BY <2>2
    <3>. HIDE DEF a, b, c
    <3>2. Total(b, n) = Total(a, n) + Total(c, n)
      BY <3>1, TotalAdds
    <3>. QED  BY <3>2 DEF a, b, c
  <2>. HIDE DEF R, C
  <2>. QED  BY <2>0, <2>1, <2>3
<1>3. Nat \subseteq T
  <2>. HIDE DEF T
  <2>. QED  BY <1>1, <1>2, CountUp
<1>4. R(m) = Total(C(m), n)
  BY <1>3
<1>. QED  BY <1>4

-----------------------------------------------------------------------------
(* Extremes.                                                               *)

\* What the loop over the items has selected after n of them.
Selecting(acc, k, items, S, field, direction) ==
    IF k \in S THEN Pick(acc, FieldValue(items[k], field), direction) ELSE acc
Extremes(g, items, S, field, direction, n) ==
    g = [k \in 0 .. n |-> IF k = 0 THEN Nil ELSE Selecting(g[k - 1], k, items, S, field, direction)]

\* The loop of extremeValue goes on.
LEMMA ExtremesLonger ==
    ASSUME NEW n \in Nat, NEW items, NEW S, NEW field, NEW direction,
           NEW g, Extremes(g, items, S, field, direction, n)
    PROVE  \E h : Extremes(h, items, S, field, direction, n + 1)
<1>. DEFINE Chosen(acc, k) == Selecting(acc, k, items, S, field, direction)
            last == Chosen(g[n], n + 1)
            h == [k \in 0 .. n + 1 |-> IF k = n + 1 THEN last ELSE g[k]]
<1>1. \A k \in 0 .. n : g[k] = IF k = 0 THEN Nil ELSE Chosen(g[k - 1], k)
  BY DEF Extremes
<1>. HIDE DEF Chosen
<1>2. \A k \in 0 .. n + 1 : h[k] = IF k = 0 THEN Nil ELSE Chosen(h[k - 1], k)
  <2>. TAKE k \in 0 .. n + 1
  <2>1. CASE k = n + 1
    <3>1. k # 0 /\ k - 1 = n /\ n \in 0 .. n + 1 /\ n # n + 1
      BY <2>1
    <3>2. h[k - 1] = g[n] /\ h[k] = last
      BY <2>1, <3>1
    <3>. QED  BY <2>1, <3>1, <3>2
  <2>2. CASE k # n + 1
    <3>1. k \in 0 .. n /\ h[k] = g[k]
      BY <2>2
    <3>2. k # 0 => k - 1 \in 0 .. n + 1 /\ k - 1 # n + 1
      BY <3>1
    <3>3. k # 0 => h[k - 1] = g[k - 1]
      BY <3>2
    <3>. HIDE DEF h
    <3>. QED  BY <1>1, <3>1, <3>3
  <2>. QED  BY <2>1, <2>2
<1>3. h = [k \in 0 .. n + 1 |-> h[k]]
  OBVIOUS
<1>4. Extremes(h, items, S, field, direction, n + 1)
  <2>. HIDE DEF h
  <2>. QED  BY <1>2, <1>3 DEF Extremes, Chosen
<1>. QED  BY <1>4

\* The values that are selected one after the other lead to the extreme.
Scanning(g, items, S, field, direction) ==
    /\ ExtremeValue(items, S, field, direction) = g[Len(items)] /\ g[0] = Nil
    /\ \A n \in Nat : n + 1 <= Len(items) =>
          g[n + 1] = Selecting(g[n], n + 1, items, S, field, direction)

\* ExtremeValue goes through the items one after the other.
LEMMA ExtremeOneByOne ==
    ASSUME NEW items, Len(items) \in Nat, NEW S, NEW field, NEW direction
    PROVE  \E g : Scanning(g, items, S, field, direction)
<1>. DEFINE T == {n \in Nat : \E g : Extremes(g, items, S, field, direction, n)}
            L == Len(items)
<1>1. 0 \in T
  <2>. DEFINE g == [k \in 0 .. 0 |-> Nil]
  <2>1. Extremes(g, items, S, field, direction, 0)
    BY DEF Extremes
  <2>. QED  BY <2>1
<1>2. \A n \in Nat : n \in T => n + 1 \in T
  BY ExtremesLonger
<1>3. Nat \subseteq T
  <2>. HIDE DEF T
  <2>. QED  BY <1>1, <1>2, CountUp
<1>4. \E g : Extremes(g, items, S, field, direction, L)
  BY <1>3
<1>. DEFINE h == CHOOSE g : Extremes(g, items, S, field, direction, L)
<1>5. Extremes(h, items, S, field, direction, L)
  BY <1>4
<1>6. ExtremeValue(items, S, field, direction) = h[L]
  BY DEF ExtremeValue, Extremes, Selecting
<1>. HIDE DEF h
<1>7. \A k \in 0 .. L : h[k] = IF k = 0 THEN Nil ELSE Selecting(h[k - 1], k, items, S, field, direction)
  BY <1>5 DEF Extremes
<1>8. h[0] = Nil
  BY <1>7
<1>9. \A n \in Nat : n + 1 <= L => h[n + 1] = Selecting(h[n], n + 1, items, S, field, direction)
  <2>. TAKE n \in Nat
  <2>. HAVE n + 1 <= L
  <2>1. n + 1 \in 0 .. L /\ n + 1 # 0 /\ n + 1 - 1 = n
    OBVIOUS
  <2>. QED  BY <1>7, <2>1
<1>. QED  BY <1>6, <1>8, <1>9 DEF Scanning

\* m is the extreme of the values at the first n positions that are in S.
IsExtreme(m, items, S, field, direction, n) ==
    /\ m \in Int
    /\ m # Nil => \E i \in 1 .. n : i \in S /\ m = FieldValue(items[i], field)
    /\ \A i \in 1 .. n : (i \in S /\ FieldValue(items[i], field) # Nil) =>
          m # Nil /\ direction * FieldValue(items[i], field) <= direction * m

\* One item more: the extreme stays or the item replaces it.
LEMMA PickedExtreme ==
    ASSUME NEW n \in Nat, NEW items, NEW S, NEW field, NEW direction \in {-1, 1},
           \A i \in 1 .. n + 1 : FieldValue(items[i], field) \in Int,
           NEW m, IsExtreme(m, items, S, field, direction, n),
           NEW p, p = Selecting(m, n + 1, items, S, field, direction)
    PROVE  IsExtreme(p, items, S, field, direction, n + 1)
<1>. DEFINE x(i) == FieldValue(items[i], field)
<1>1. /\ m \in Int
      /\ m # Nil => \E i \in 1 .. n : i \in S /\ m = x(i)
      /\ \A i \in 1 .. n : (i \in S /\ x(i) # Nil) => m # Nil /\ direction * x(i) <= direction * m
  BY DEF IsExtreme
<1>2. \A i \in 1 .. n + 1 : x(i) \in Int
  OBVIOUS
<1>3. p = IF n + 1 \in S /\ x(n + 1) # Nil /\ (m = Nil \/ direction * x(n + 1) > direction * m)
          THEN x(n + 1) ELSE m
  BY DEF Selecting, Pick, Beats
<1>. HIDE DEF x
<1>4. n + 1 \in 1 .. n + 1 /\ \A i \in 1 .. n + 1 : i = n + 1 \/ i \in 1 .. n
  OBVIOUS
<1>5. \A i \in 1 .. n : i \in 1 .. n + 1
  OBVIOUS
<1>6. p \in Int
  BY <1>1, <1>2, <1>3, <1>4
<1>7. p # Nil => \E i \in 1 .. n + 1 : i \in S /\ p = x(i)
  BY <1>1, <1>3, <1>4, <1>5
<1>8. ASSUME NEW i \in 1 .. n + 1, i \in S, x(i) # Nil
      PROVE  p # Nil /\ direction * x(i) <= direction * p
  <2>1. CASE direction = 1
    BY <1>1, <1>2, <1>3, <1>4, <1>8, <2>1
  <2>2. CASE direction = -1
    <3>1. \A k \in Int : direction * k = -k
      BY <2>2
    <3>. QED  BY <1>1, <1>2, <1>3, <1>4, <1>6, <1>8, <3>1
  <2>. QED  BY <2>1, <2>2
<1>. QED  BY <1>6, <1>7, <1>8 DEF IsExtreme, x

\* extremeValue returns a value that no other beats, and none if there is none.
LEMMA ExtremeIs ==
    ASSUME NEW items, Len(items) \in Nat, NEW S, NEW field, NEW direction \in {-1, 1},
           \A i \in 1 .. Len(items) : FieldValue(items[i], field) \in Int
    PROVE  IsExtreme(ExtremeValue(items, S, field, direction), items, S, field, direction, Len(items))
<1>. DEFINE L == Len(items)
<1>0. PICK g : Scanning(g, items, S, field, direction)
  BY ExtremeOneByOne
<1>1. /\ ExtremeValue(items, S, field, direction) = g[L] /\ g[0] = Nil
      /\ \A n \in Nat : n + 1 <= L => g[n + 1] = Selecting(g[n], n + 1, items, S, field, direction)
  BY <1>0 DEF Scanning
<1>. DEFINE T == {n \in Nat : n <= L => IsExtreme(g[n], items, S, field, direction, n)}
<1>2. 0 \in T
  BY <1>1 DEF IsExtreme, Nil
<1>3. \A n \in Nat : n \in T => n + 1 \in T
  <2>. SUFFICES ASSUME NEW n \in Nat, n \in T, n + 1 <= L
                PROVE  IsExtreme(g[n + 1], items, S, field, direction, n + 1)
    OBVIOUS
  <2>1. IsExtreme(g[n], items, S, field, direction, n)
    OBVIOUS
  <2>2. g[n + 1] = Selecting(g[n], n + 1, items, S, field, direction)
    BY <1>1
  <2>3. \A i \in 1 .. n + 1 : FieldValue(items[i], field) \in Int
    OBVIOUS
  <2>. QED  BY <2>1, <2>2, <2>3, PickedExtreme
<1>4. Nat \subseteq T
  <2>. HIDE DEF T
  <2>. QED  BY <1>2, <1>3, CountUp
<1>. QED  BY <1>1, <1>4

-----------------------------------------------------------------------------
(* Groups.                                                                 *)

\* The members of a finite set, one after the other.
Lists(q, n, K) ==
    /\ q \in [1 .. n -> K] /\ Len(q) = n
    /\ \A j, k \in 1 .. n : q[j] = q[k] => j = k
    /\ \A x \in K : \E k \in 1 .. n : q[k] = x

\* SetToSeq lists each element of a finite set once.
LEMMA Listed ==
    ASSUME NEW K, IsFiniteSet(K), NEW q, q = SetToSeq(K)
    PROVE  \E n \in Nat : Lists(q, n, K)
<1>. DEFINE n == Cardinality(K)
<1>1. n \in Nat /\ ExistsBijection(1 .. n, K)
  BY FS_CardinalityType
<1>2. \E f \in [1 .. n -> K] : IsInjective(f)
  BY <1>1 DEF ExistsBijection, Bijection, Injection
<1>3. q \in [1 .. n -> K] /\ IsInjective(q)
  BY <1>2 DEF SetToSeq
<1>4. IsFiniteSet(1 .. n) /\ Cardinality(1 .. n) = n
  <2>. HIDE DEF n
  <2>1. IsFiniteSet(1 .. n) /\ Cardinality(1 .. n) = IF 1 > n THEN 0 ELSE n - 1 + 1
    BY <1>1, FS_Interval
  <2>. QED  BY <2>1, <1>1
<1>5. q \in Surjection(1 .. n, K)
  <2>1. Cardinality(1 .. n) = Cardinality(K)
    BY <1>4
  <2>. HIDE DEF n
  <2>2. q \in Injection(1 .. n, K)
    BY <1>3 DEF Injection
  <2>. QED  BY <2>1, <2>2, FS_Injection
<1>. HIDE DEF n
<1>6. \A x \in K : \E k \in 1 .. n : q[k] = x
  BY <1>5 DEF Surjection
<1>7. \A j, k \in 1 .. n : q[j] = q[k] => j = k
  BY <1>3 DEF IsInjective
<1>8. q \in Seq(K) /\ Len(q) = n
  BY <1>1, <1>3
<1>. QED  BY <1>1, <1>3, <1>6, <1>7, <1>8 DEF Lists

\* Items with numbers in the fields of interest.
IsItems(items, n, fields) ==
    /\ n \in Nat /\ Len(items) = n /\ DOMAIN items = 1 .. n
    /\ \A i \in 1 .. n : \A f \in fields : items[i][f] \in Int /\ items[i][f] # Nil

\* A list of items has finitely many values.
LEMMA ValuesFinite ==
    ASSUME NEW items, NEW n, NEW fields, IsItems(items, n, fields), NEW field
    PROVE  IsFiniteSet(ValuesOf(items, field))
<1>. DEFINE f == [i \in 1 .. n |-> FieldValue(items[i], field)]
            V == {FieldValue(items[i], field) : i \in 1 .. n}
<1>1. n \in Nat /\ DOMAIN items = 1 .. n
  BY DEF IsItems
<1>2. IsFiniteSet(1 .. n)
  BY <1>1, FS_Interval
<1>3. f \in Surjection(1 .. n, V)
  BY DEF Surjection
<1>4. ValuesOf(items, field) \subseteq V
  BY <1>1 DEF ValuesOf
<1>. HIDE DEF f, V
<1>5. IsFiniteSet(V)
  BY <1>2, <1>3, FS_Surjection
<1>. QED  BY <1>4, <1>5, FS_Subset

\* An item counts in the group of its own key, and in no other.
CountedIn(d, n, q, x, v) == \A k \in 1 .. n : d[k] = IF x = q[k] THEN v ELSE 0

\* A number that is counted with one group counts once.
LEMMA InOneGroup ==
    ASSUME NEW n \in Nat, NEW K, NEW q, Lists(q, n, K), NEW x, NEW v \in Int, NEW d, CountedIn(d, n, q, x, v)
    PROVE  Total(d, n) = IF x \in K THEN v ELSE 0
<1>1. CASE x \in K
  <2>1. PICK j \in 1 .. n : q[j] = x
    BY <1>1 DEF Lists
  <2>2. OnlyAt(d, n, j, v)
    BY <2>1 DEF Lists, CountedIn, OnlyAt
  <2>3. Total(d, n) = IF j \in 1 .. n THEN v ELSE 0
    BY <2>2, TotalOfOne
  <2>. QED  BY <1>1, <2>3
<1>2. CASE x \notin K
  <2>1. OnlyAt(d, n, 0, v)
    <3>1. \A k \in 1 .. n : q[k] # x /\ k # 0
      BY <1>2 DEF Lists
    <3>. QED  BY <3>1 DEF OnlyAt, CountedIn
  <2>2. Total(d, n) = IF 0 \in 1 .. n THEN v ELSE 0
    BY <2>1, TotalOfOne
  <2>. QED  BY <1>2, <2>2
<1>. QED  BY <1>1, <1>2

\* GroupByQuery.Execute: every item that has a key is in one group.
LEMMA GroupsAddUp ==
    ASSUME NEW items, NEW n, NEW by, NEW field, IsItems(items, n, {by, field}),
           NEW S, S = {i \in 1 .. n : items[i][by] # 0}
    PROVE  SumOf(items, S, field) = GroupSums(items, by, field)
<1>. DEFINE groups == Groups(items, by)
            K == ValuesOf(items, by)
            q == SetToSeq(K)
<1>1. n \in Nat /\ Len(items) = n /\ DOMAIN items = 1 .. n
  BY DEF IsItems
<1>2. \A i \in 1 .. n : items[i][field] \in Int /\ items[i][by] # Nil
  BY DEF IsItems
<1>3. DOMAIN groups = K /\ \A x \in K : groups[x] = {i \in 1 .. n : FieldValue(items[i], by) = x}
  BY <1>1 DEF Groups
<1>4. PICK m \in Nat : Lists(q, m, K)
  <2>1. IsFiniteSet(K)
    BY ValuesFinite
  <2>. HIDE DEF K
  <2>. QED  BY <2>1, Listed
<1>. DEFINE t == [k \in 1 .. m |-> [i \in 1 .. n |-> IF i \in groups[q[k]] THEN items[i][field] ELSE 0]]
            C == [i \in 1 .. n |-> Total([k \in 1 .. m |-> t[k][i]], m)]
            R == [k \in 1 .. m |-> Total(t[k], n)]
            D == [i \in 1 .. n |-> IF i \in S THEN items[i][field] ELSE 0]
<1>5. \A i \in 1 .. n : i \in S <=> FieldValue(items[i], by) \in K
  BY <1>1, <1>2 DEF FieldValue, ValuesOf
<1>. HIDE DEF K, q, groups
<1>6. \A k \in 1 .. m, i \in 1 .. n : t[k][i] = IF FieldValue(items[i], by) = q[k] THEN items[i][field] ELSE 0
  BY <1>3, <1>4 DEF Lists
<1>7. \A k \in 1 .. m, i \in 1 .. n : t[k][i] \in Int
  BY <1>2, <1>6
<1>8. Total(R, m) = Total(C, n)
  <2>. HIDE DEF t
  <2>. QED  BY <1>1, <1>7, SumsSwap
<1>9. GroupSums(items, by, field) = Total(R, m)
  <2>1. \A k \in 1 .. m : SumOf(items, groups[q[k]], field) = Total(t[k], n)
    BY <1>1 DEF SumOf
  <2>. DEFINE G == [k \in DOMAIN q |-> SumOf(items, groups[q[k]], field)]
  <2>2. GroupSums(items, by, field) = Total(G, m)
    BY <1>3, <1>4 DEF GroupSums, Lists, groups, q
  <2>3. \A k \in 1 .. m : G[k] = R[k]
    BY <1>4, <2>1 DEF Lists
  <2>. HIDE DEF G, R
  <2>4. Total(G, m) = Total(R, m)
    BY <2>3, TotalSame
  <2>. QED  BY <2>2, <2>4
<1>10. Total(C, n) = Total(D, n)
  <2>1. ASSUME NEW i \in 1 .. n
        PROVE  C[i] = D[i]
    <3>. DEFINE x == FieldValue(items[i], by)
                v == items[i][field]
                d == [k \in 1 .. m |-> t[k][i]]
    <3>1. CountedIn(d, m, q, x, v)
      BY <1>6 DEF CountedIn
    <3>2. v \in Int
      BY <1>2
    <3>3. C[i] = Total(d, m)
      OBVIOUS
    <3>4. D[i] = IF x \in K THEN v ELSE 0
      BY <1>5
    <3>. HIDE DEF x, v, d, C, D
    <3>5. Total(d, m) = IF x \in K THEN v ELSE 0
      BY <1>4, <3>1, <3>2, InOneGroup
    <3>. QED  BY <3>3, <3>4, <3>5
  <2>. HIDE DEF C, D
  <2>. QED  BY <1>1, <2>1, TotalSame
<1>11. SumOf(items, S, field) = Total(D, n)
  BY <1>1 DEF SumOf
<1>. QED  BY <1>8, <1>9, <1>10, <1>11

PositiveItem(items, n, by, field, x) == \E i \in 1 .. n : items[i][by] = x /\ items[i][field] > 0

\* calculateAggregate and evaluateHaving: a sum, an average or a maximum above 1 comes from
\* an item of the group.
LEMMA HavingByItem ==
    ASSUME NEW items, NEW n, NEW by, NEW field, IsItems(items, n, {by, field}),
           NEW f \in {"SUM", "AVG", "MAX"}, NEW x \in HavingAbove(items, by, f, field, 1)
    PROVE  PositiveItem(items, n, by, field, x)
<1>. DEFINE S == Groups(items, by)[x]
            r == CalculateAggregate(items, S, f, field)
            top == ExtremeValue(items, S, field, 1)
            sum == SumOf(items, S, field)
<1>1. n \in Nat /\ Len(items) = n /\ DOMAIN items = 1 .. n
  BY DEF IsItems
<1>2. \A i \in 1 .. n : items[i][field] \in Int /\ items[i][field] # Nil
  BY DEF IsItems
<1>3. x \in ValuesOf(items, by) /\ Above(AggregateResultValue(r), 1)
  BY DEF HavingAbove, Groups, AggregateValue
<1>4. S = {i \in 1 .. n : FieldValue(items[i], by) = x}
  BY <1>1, <1>3 DEF Groups
<1>5. \A i \in S : i \in 1 .. n /\ items[i][by] = x
  BY <1>3, <1>4 DEF FieldValue, ValuesOf
<1>. HIDE DEF S
<1>6. ASSUME sum \in Int => sum > 0
      PROVE  PositiveItem(items, n, by, field, x)
  <2>. DEFINE d == [i \in 1 .. n |-> IF i \in S THEN items[i][field] ELSE 0]
  <2>1. sum = Total(d, n)
    BY <1>1 DEF SumOf
  <2>2. \E i \in S : items[i][field] > 0
    <3>. SUFFICES ASSUME \A i \in S : ~(items[i][field] > 0)
                  PROVE  FALSE
      OBVIOUS
    <3>1. \A i \in 1 .. n : d[i] \in Int /\ d[i] <= 0
      BY <1>2
    <3>. HIDE DEF d, sum
    <3>2. Total(d, n) \in Int /\ Total(d, n) <= 0
      BY <1>1, <3>1, TotalOfNothing
    <3>. QED  BY <1>6, <2>1, <3>2
  <2>. QED  BY <1>5, <2>2 DEF PositiveItem
<1>7. CASE f = "SUM"
  <2>1. r.min = Nil /\ r.max = Nil /\ r.count = 0 /\ r.sum = sum /\ r.average = Ratio(0, 1)
    BY <1>7 DEF CalculateAggregate
  <2>2. sum \in Int => sum > 0
    <3>. HIDE DEF sum, r
    <3>. QED  BY <1>3, <2>1 DEF AggregateResultValue, Above, Ratio
  <2>. QED  BY <1>6, <2>2
<1>8. CASE f = "AVG"
  <2>1. r.min = Nil /\ r.max = Nil /\ r.count = 0 /\ r.sum = 0 /\ r.average = AverageOf(items, S, field)
    BY <1>8 DEF CalculateAggregate
  <2>2. Above(AverageOf(items, S, field), 1)
    BY <1>3, <2>1 DEF AggregateResultValue
  <2>3. S # {} /\ sum > 1 * Cardinality(S)
    <3>1. ~Above(Ratio(0, 1), 1)
      BY DEF Above, Ratio
    <3>2. S # {}
      BY <2>2, <3>1 DEF AverageOf
    <3>. QED  BY <2>2, <3>2 DEF AverageOf, Above, Ratio
  <2>4. Cardinality(S) \in Nat
    <3>1. IsFiniteSet(S)
      BY <1>1, <1>4, FS_Interval, FS_Subset
    <3>. QED  BY <3>1, FS_CardinalityType
  <2>5. sum \in Int => sum > 0
    <3>. HIDE DEF sum
    <3>. QED  BY <2>3, <2>4
  <2>. QED  BY <1>6, <2>5
<1>9. CASE f = "MAX"
  <2>1. r.min = Nil /\ r.max = top /\ r.count = 0 /\ r.sum = 0 /\ r.average = Ratio(0, 1)
    BY <1>9 DEF CalculateAggregate
  <2>3. IsExtreme(top, items, S, field, 1, n)
    <3>1. \A i \in 1 .. Len(items) : FieldValue(items[i], field) \in Int
      BY <1>1, <1>2 DEF FieldValue, Nil
    <3>2. Len(items) \in Nat /\ 1 \in {-1, 1}
      BY <1>1
    <3>3. IsExtreme(ExtremeValue(items, S, field, 1), items, S, field, 1, Len(items))
      BY <3>1, <3>2, ExtremeIs
    <3>. QED  BY <1>1, <3>3
  <2>. HIDE DEF top, r
  <2>2. top # Nil /\ top > 1
    <3>1. top \in Int
      BY <2>3 DEF IsExtreme
    <3>. QED  BY <1>3, <2>1, <3>1 DEF AggregateResultValue, Above, Ratio
  <2>4. PICK i \in 1 .. n : i \in S /\ top = FieldValue(items[i], field)
    BY <2>2, <2>3 DEF IsExtreme
  <2>5. items[i][field] = top
    BY <2>2, <2>4 DEF FieldValue
  <2>6. top \in Int
    BY <2>3 DEF IsExtreme
  <2>. QED  BY <1>5, <2>2, <2>4, <2>5, <2>6 DEF PositiveItem
<1>. QED  BY <1>7, <1>8, <1>9

TwoItems(items, n, by, x) == \E i, j \in 1 .. n : i # j /\ items[i][by] = x /\ items[j][by] = x

\* aggregateValue, COUNT(*): a count above 1 is that of two items of the group.
LEMMA HavingByCount ==
    ASSUME NEW items, NEW n, NEW by, NEW field, IsItems(items, n, {by, field}),
           NEW x \in HavingAbove(items, by, "COUNT(*)", field, 1)
    PROVE  TwoItems(items, n, by, x)
<1>. DEFINE S == Groups(items, by)[x]
<1>1. n \in Nat /\ DOMAIN items = 1 .. n
  BY DEF IsItems
<1>2. x \in ValuesOf(items, by) /\ Above(Ratio(Cardinality(S), 1), 1)
  BY DEF HavingAbove, Groups, AggregateValue
<1>3. S = {i \in 1 .. n : FieldValue(items[i], by) = x}
  BY <1>1, <1>2 DEF Groups
<1>4. \A i \in S : i \in 1 .. n /\ items[i][by] = x
  BY <1>2, <1>3 DEF FieldValue, ValuesOf
<1>. HIDE DEF S
<1>5. IsFiniteSet(S)
  BY <1>1, <1>3, FS_Interval, FS_Subset
<1>6. Cardinality(S) \in Nat /\ Cardinality(S) > 1
  BY <1>2, <1>5, FS_CardinalityType DEF Above, Ratio
<1>7. PICK i : i \in S
  BY <1>6, FS_EmptySet
<1>8. PICK j \in S : j # i
  <2>1. S # {i}
    BY <1>6, FS_Singleton
  <2>. QED  BY <1>7, <2>1
<1>. QED  BY <1>4, <1>7, <1>8 DEF TwoItems

NonZero(items, n, field) == {items[i][field] : i \in 1 .. n} \ {0}
Bounds(m, V, direction) ==
    /\ V = {} => m = Nil
    /\ V # {} => m \in V
    /\ \A v \in V : direction * v <= direction * m

\* extremeValue: the smallest and the largest of the values that are set.
LEMMA ExtremesBound ==
    ASSUME NEW items, NEW n, NEW field, NEW fields, field \in fields, IsItems(items, n, fields),
           NEW direction \in {-1, 1}, NEW m, m = ExtremeValue(items, 1 .. n, field, direction)
    PROVE  Bounds(m, NonZero(items, n, field), direction)
<1>. DEFINE V == NonZero(items, n, field)
<1>1. n \in Nat /\ Len(items) = n
  BY DEF IsItems
<1>2. \A i \in 1 .. n : items[i][field] \in Int /\ items[i][field] # Nil
  BY DEF IsItems
<1>3. IsExtreme(m, items, 1 .. n, field, direction, n)
  <2>1. \A i \in 1 .. Len(items) : FieldValue(items[i], field) \in Int
    BY <1>1, <1>2 DEF FieldValue, Nil
  <2>2. Len(items) \in Nat
    BY <1>1
  <2>3. IsExtreme(ExtremeValue(items, 1 .. n, field, direction), items, 1 .. n, field, direction, Len(items))
    BY <2>1, <2>2, ExtremeIs
  <2>. QED  BY <1>1, <2>3
<1>4. /\ m # Nil => \E i \in 1 .. n : m = FieldValue(items[i], field)
      /\ \A i \in 1 .. n : FieldValue(items[i], field) # Nil =>
            m # Nil /\ direction * FieldValue(items[i], field) <= direction * m
  BY <1>3 DEF IsExtreme
<1>5. \A i \in 1 .. n : /\ items[i][field] = 0 => FieldValue(items[i], field) = Nil
                        /\ items[i][field] # 0 => FieldValue(items[i], field) = items[i][field]
  BY DEF FieldValue
<1>6. m # Nil => m \in V
  BY <1>4, <1>5 DEF NonZero
<1>7. \A v \in V : m # Nil /\ direction * v <= direction * m
  BY <1>2, <1>4, <1>5 DEF NonZero
<1>. HIDE DEF V
<1>. QED  BY <1>6, <1>7 DEF Bounds, V

\* The items of a read have a team and an amount that are numbers.
LEMMA ItemsAre ==
    ASSUME combined \in Seq(Rows)
    PROVE  IsItems(Items, Len(combined), {"team", "amount"})
<1>. DEFINE n == Len(combined)
            X == [amount : Int, team : Int]
<1>1. n \in Nat /\ DOMAIN combined = 1 .. n /\ \A i \in 1 .. n : combined[i] \in Rows
  OBVIOUS
<1>2. \A i \in 1 .. n : /\ Items[i]["amount"] = Amount[combined[i]] /\ Items[i]["team"] = Team[combined[i]]
                        /\ Items[i] \in X
  BY <1>1, ReadAssumption DEF Items
<1>3. DOMAIN Items = 1 .. n
  BY <1>1 DEF Items
<1>4. Items = [i \in 1 .. n |-> Items[i]]
  BY <1>1 DEF Items
<1>. HIDE DEF X, n
<1>5. Items \in Seq(X)
  BY <1>1, <1>2, <1>4
<1>6. Len(Items) = n
  BY <1>1, <1>3, <1>5
<1>7. \A i \in 1 .. n : \A f \in {"team", "amount"} : Items[i][f] \in Int /\ Items[i][f] # Nil
  BY <1>1, <1>2, ReadAssumption
<1>. QED  BY <1>1, <1>3, <1>6, <1>7 DEF IsItems, n

\* The aggregates of any list of rows agree.
LEMMA AggregatesRight ==
    ASSUME combined \in Seq(Rows)
    PROVE  AggregatesAgree
<1>. DEFINE n == Len(combined)
            r == Aggregate(Items, "amount")
            S == {i \in DOMAIN Items : Items[i].team # 0}
            low == ExtremeValue(Items, 1 .. n, "amount", -1)
            high == ExtremeValue(Items, 1 .. n, "amount", 1)
<1>1. IsItems(Items, n, {"team", "amount"})
  BY ItemsAre
<1>2. n \in Nat /\ DOMAIN Items = 1 .. n /\ \A i \in 1 .. n : Items[i].amount \in Int \ {Nil}
  BY <1>1 DEF IsItems
<1>3. r.min = low /\ r.max = high
  BY <1>2 DEF Aggregate
<1>4. Values = NonZero(Items, n, "amount")
  BY <1>2 DEF Values, NonZero
<1>5. /\ Values = {} => low = Nil
      /\ Values # {} => low \in Values
      /\ \A v \in Values : (-1) * v <= (-1) * low
  <2>. DEFINE direction == -1
              field == "amount"
              fields == {"team", "amount"}
  <2>1. /\ direction \in {-1, 1} /\ low = ExtremeValue(Items, 1 .. n, field, direction)
        /\ field \in fields /\ IsItems(Items, n, fields)
        /\ Values = NonZero(Items, n, field)
    BY <1>1, <1>4
  <2>. HIDE DEF low, direction, n, field, fields
  <2>2. Bounds(low, NonZero(Items, n, field), direction)
    BY <2>1, ExtremesBound
  <2>. QED  BY <2>1, <2>2 DEF Bounds, direction
<1>6. /\ Values = {} => high = Nil
      /\ Values # {} => high \in Values
      /\ \A v \in Values : 1 * v <= 1 * high
  <2>. DEFINE direction == 1
              field == "amount"
              fields == {"team", "amount"}
  <2>1. /\ direction \in {-1, 1} /\ high = ExtremeValue(Items, 1 .. n, field, direction)
        /\ field \in fields /\ IsItems(Items, n, fields)
        /\ Values = NonZero(Items, n, field)
    BY <1>1, <1>4
  <2>. HIDE DEF high, direction, n, field, fields
  <2>2. Bounds(high, NonZero(Items, n, field), direction)
    BY <2>1, ExtremesBound
  <2>. QED  BY <2>1, <2>2 DEF Bounds, direction
<1>7. Values \subseteq Int
  BY <1>2 DEF Values
<1>8. Values # {} => {r.min, r.max} \subseteq Values /\ \A v \in Values : r.min <= v /\ v <= r.max
  <2>. HIDE DEF low, high, r
  <2>1. \A k \in Int : (-1) * k = -k /\ 1 * k = k
    OBVIOUS
  <2>2. ASSUME NEW v \in Values
        PROVE  low <= v /\ v <= high
    <3>1. v \in Int /\ low \in Int /\ high \in Int
      BY <1>5, <1>6, <1>7
    <3>2. -v <= -low /\ v <= high
      BY <1>5, <1>6, <2>1, <3>1
    <3>. QED  BY <3>1, <3>2
  <2>. QED  BY <1>3, <1>5, <1>6, <2>2
<1>9. CountDistinct(Items, "amount") = Cardinality(Values)
  <2>1. \A i \in 1 .. n : FieldValue(Items[i], "amount") = IF Items[i].amount = 0 THEN Nil ELSE Items[i].amount
    BY DEF FieldValue
  <2>2. ValuesOf(Items, "amount") = Values
    BY <1>2, <2>1 DEF ValuesOf, Values
  <2>. QED  BY <2>2 DEF CountDistinct
<1>10. SumOf(Items, S, "amount") = GroupSums(Items, "team", "amount")
  <2>1. S = {i \in 1 .. n : Items[i]["team"] # 0}
    BY <1>2
  <2>. HIDE DEF S, n
  <2>. QED  BY <1>1, <2>1, GroupsAddUp
<1>11. \A f \in {"SUM", "AVG", "MAX"} : \A x \in HavingAbove(Items, "team", f, "amount", 1) :
          \E i \in DOMAIN Items : Items[i].team = x /\ Items[i].amount > 0
  <2>. TAKE f \in {"SUM", "AVG", "MAX"}
  <2>. TAKE x \in HavingAbove(Items, "team", f, "amount", 1)
  <2>1. \E i \in 1 .. n : Items[i]["team"] = x /\ Items[i]["amount"] > 0
    <3>. DEFINE by == "team"
                field == "amount"
    <3>1. x \in HavingAbove(Items, by, f, field, 1) /\ IsItems(Items, n, {by, field})
      BY <1>1
    <3>. HIDE DEF by, field, n
    <3>2. PositiveItem(Items, n, by, field, x)
      BY <3>1, HavingByItem
    <3>. QED  BY <3>2 DEF PositiveItem, by, field
  <2>. QED  BY <1>2, <2>1
<1>12. Values = {} => r.min = Nil /\ r.max = Nil
  BY <1>3, <1>5, <1>6
<1>13. \A x \in HavingAbove(Items, "team", "COUNT(*)", "amount", 1) :
          \E i, j \in DOMAIN Items : i # j /\ Items[i].team = x /\ Items[j].team = x
  <2>. TAKE x \in HavingAbove(Items, "team", "COUNT(*)", "amount", 1)
  <2>. DEFINE by == "team"
              field == "amount"
  <2>1. x \in HavingAbove(Items, by, "COUNT(*)", field, 1) /\ IsItems(Items, n, {by, field})
    BY <1>1
  <2>2. TwoItems(Items, n, by, x)
    <3>. HIDE DEF by, field, n
    <3>. QED  BY <2>1, HavingByCount
  <2>. QED  BY <1>2, <2>2 DEF TwoItems
<1>. HIDE DEF r, S
<1>. QED  BY <1>8, <1>9, <1>10, <1>11, <1>12, <1>13 DEF AggregatesAgree, r, S

\* aggregates.go over the rows that any read returned, whatever others wrote meanwhile: the
\* extremes bound every value that is set and are values, the sums of the groups add up to
\* the sum of the items that have a group, and HAVING keeps a group only by its own items.
THEOREM AggregatesOfReadAgree == ReadSpec => []AggregatesAgree
<1>1. ReadInv => AggregatesAgree
  BY AggregatesRight DEF ReadInv, ReadTypeOK
<1>. QED  BY <1>1, ReadInvInit, ReadInvStep, PTL DEF ReadSpec
=============================================================================
