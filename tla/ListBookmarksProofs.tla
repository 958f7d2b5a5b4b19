-------------------------- MODULE ListBookmarksProofs --------------------------
(***************************************************************************)
(* The listing of the bookmarks for any feed, page size, limit and number of   *)
(* attempts, however often the feed changes.  The first part says of the       *)
(* operators on sequences what they return, position by position; the proofs   *)
(* about the steps argue with positions only.                                  *)
(***************************************************************************)
EXTENDS ListBookmarks, SequenceTheorems, FiniteSetTheorems, TLAPS

LEMMA EntrySeq ==
  ASSUME NEW s \in Seq(Entry)
  PROVE  /\ Len(s) \in Nat
         /\ DOMAIN s = 1 .. Len(s)
         /\ \A i \in DOMAIN s : s[i] \in Entry
BY LenProperties, ElementOfSeq

\* A sequence with the number of entries and the entries that are asked for.
LEMMA UpToElements ==
  ASSUME NEW s \in Seq(Entry), NEW n \in Nat
  PROVE  /\ upTo(n, s) \in Seq(Entry)
         /\ Len(upTo(n, s)) = IF n < Len(s) THEN n ELSE Len(s)
         /\ \A i \in 1 .. Len(upTo(n, s)) : upTo(n, s)[i] = s[i]
<1> DEFINE m == IF n < Len(s) THEN n ELSE Len(s)
<1>1. m \in Nat /\ m <= Len(s) /\ \A i \in 1 .. m : s[i] \in Entry
  BY EntrySeq
<1>2. upTo(n, s) = SubSeq(s, 1, m)
  BY DEF upTo
<1> HIDE DEF m
<1>3. /\ SubSeq(s, 1, m) \in Seq(Entry)
      /\ Len(SubSeq(s, 1, m)) = m
      /\ \A i \in 1 .. m : SubSeq(s, 1, m)[i] = s[i]
  BY <1>1, SubSeqProperties
<1> QED
  BY <1>2, <1>3 DEF m

\* A page holds what the feed has at its places, and only the last is not full.
LEMMA PageElements ==
  ASSUME TypeOK
  PROVE  /\ page \in Seq(Entry)
         /\ Len(page) \in Nat /\ Len(page) <= BatchSize
         /\ Len(page) < BatchSize => Len(feed) <= offset + Len(page)
         /\ \A i \in 1 .. Len(page) : offset + i \in DOMAIN feed /\ page[i] = feed[offset + i]
<1> DEFINE s == upTo(offset + BatchSize, feed)
<1>1. /\ feed \in Seq(Entry) /\ Len(feed) \in Nat /\ DOMAIN feed = 1 .. Len(feed)
      /\ offset \in Nat /\ BatchSize \in Nat /\ BatchSize > 0
  <2>1. feed \in Seq(Entry) /\ Len(feed) \in Nat /\ DOMAIN feed = 1 .. Len(feed)
    BY EntrySeq DEF TypeOK
  <2> QED
    BY <2>1, ListBookmarksAssumption DEF TypeOK
<1>2. /\ s \in Seq(Entry)
      /\ Len(s) = IF offset + BatchSize < Len(feed) THEN offset + BatchSize ELSE Len(feed)
      /\ \A i \in 1 .. Len(s) : s[i] = feed[i]
  BY <1>1, UpToElements
<1>3. page = SubSeq(s, offset + 1, Len(s))
  BY DEF page
<1> HIDE DEF s
<1>4. Len(s) \in Nat /\ \A i \in offset + 1 .. Len(s) : s[i] \in Entry
  <2>1. Len(s) \in Nat /\ DOMAIN s = 1 .. Len(s) /\ \A i \in DOMAIN s : s[i] \in Entry
    BY <1>2, EntrySeq
  <2> QED
    BY <1>1, <2>1
<1>5. /\ page \in Seq(Entry)
      /\ Len(page) = IF offset + 1 <= Len(s) THEN Len(s) - (offset + 1) + 1 ELSE 0
      /\ \A i \in 1 .. Len(s) - (offset + 1) + 1 : page[i] = s[(offset + 1) + i - 1]
  BY <1>1, <1>3, <1>4, SubSeqProperties
<1>6. /\ Len(page) \in Nat /\ Len(page) <= BatchSize
      /\ Len(page) < BatchSize => Len(feed) <= offset + Len(page)
  <2>1. ASSUME NEW f \in Nat, NEW o \in Nat, NEW b \in Nat, NEW n \in Nat, NEW m,
               n = IF o + b < f THEN o + b ELSE f,
               m = IF o + 1 <= n THEN n - (o + 1) + 1 ELSE 0
        PROVE  m \in Nat /\ m <= b /\ (m < b => f <= o + m)
    BY <2>1
  <2>2. /\ Len(feed) \in Nat /\ offset \in Nat /\ BatchSize \in Nat /\ Len(s) \in Nat
        /\ Len(s) = IF offset + BatchSize < Len(feed) THEN offset + BatchSize ELSE Len(feed)
        /\ Len(page) = IF offset + 1 <= Len(s) THEN Len(s) - (offset + 1) + 1 ELSE 0
    BY <1>1, <1>2, <1>4, <1>5
  <2> QED
    BY <2>1, <2>2
<1>7. ASSUME NEW i \in 1 .. Len(page)
      PROVE  offset + i \in DOMAIN feed /\ page[i] = feed[offset + i]
  <2>1. i \in Int /\ offset + i \in 1 .. Len(s) /\ offset + i \in 1 .. Len(feed)
    <3>1. Len(page) \in Nat /\ (Len(page) <= Len(s) - offset \/ Len(page) = 0)
      BY <1>1, <1>4, <1>5
    <3>2. i \in Int /\ 1 <= i /\ i <= Len(s) - offset
      BY <1>1, <1>4, <3>1
    <3> QED
      BY <1>1, <1>2, <1>4, <3>2
  <2>2. (offset + 1) + i - 1 = offset + i /\ i \in 1 .. Len(s) - (offset + 1) + 1
    BY <1>1, <1>4, <1>5, <2>1
  <2>3. page[i] = s[offset + i]
    BY <1>5, <2>2
  <2> QED
    BY <1>1, <1>2, <2>1, <2>3
<1> QED
  BY <1>5, <1>6, <1>7

LEMMA InsertElements ==
  ASSUME NEW s \in Seq(Entry), NEW e \in Entry, NEW k \in 1 .. Len(s) + 1
  PROVE  /\ InsertAt(s, k, e) \in Seq(Entry)
         /\ Len(InsertAt(s, k, e)) = Len(s) + 1
         /\ \A i \in 1 .. Len(s) + 1 : InsertAt(s, k, e)[i] =
              IF i < k THEN s[i] ELSE IF i = k THEN e ELSE s[i - 1]
<1> DEFINE a == SubSeq(s, 1, k - 1)
           b == SubSeq(s, k, Len(s))
           c == <<e>>
<1>0. Len(s) \in Nat /\ k \in Int /\ \A i \in 1 .. Len(s) : s[i] \in Entry
  BY EntrySeq
<1>1. /\ a \in Seq(Entry) /\ Len(a) = k - 1
      /\ \A i \in 1 .. k - 1 : a[i] = s[i]
  <2>1. \A i \in 1 .. k - 1 : s[i] \in Entry
    BY <1>0
  <2>2. /\ a \in Seq(Entry)
        /\ Len(a) = IF 1 <= k - 1 THEN (k - 1) - 1 + 1 ELSE 0
        /\ \A i \in 1 .. (k - 1) - 1 + 1 : a[i] = s[1 + i - 1]
    BY <1>0, <2>1, SubSeqProperties
  <2> QED
    BY <1>0, <2>2
<1>2. /\ b \in Seq(Entry) /\ Len(b) = Len(s) - k + 1
      /\ \A i \in 1 .. Len(s) - k + 1 : b[i] = s[k + i - 1]
  <2>1. \A i \in k .. Len(s) : s[i] \in Entry
    BY <1>0
  <2>2. /\ b \in Seq(Entry)
        /\ Len(b) = IF k <= Len(s) THEN Len(s) - k + 1 ELSE 0
        /\ \A i \in 1 .. Len(s) - k + 1 : b[i] = s[k + i - 1]
    BY <1>0, <2>1, SubSeqProperties
  <2> QED
    BY <1>0, <2>2
<1>3. c \in Seq(Entry) /\ Len(c) = 1 /\ c[1] = e
  OBVIOUS
<1>4. InsertAt(s, k, e) = (a \o c) \o b
  BY DEF InsertAt
<1> HIDE DEF a, b, c
<1>5. /\ a \o c \in Seq(Entry) /\ Len(a \o c) = k
      /\ \A i \in 1 .. k : (a \o c)[i] = IF i < k THEN s[i] ELSE e
  <2>0. /\ a \o c \in Seq(Entry) /\ Len(a \o c) = Len(a) + Len(c)
        /\ \A i \in 1 .. Len(a) + Len(c) : (a \o c)[i] = IF i <= Len(a) THEN a[i] ELSE c[i - Len(a)]
    BY <1>1, <1>3, ConcatProperties
  <2>1. /\ a \o c \in Seq(Entry) /\ Len(a \o c) = k
        /\ \A i \in 1 .. k : (a \o c)[i] = IF i <= k - 1 THEN a[i] ELSE c[i - (k - 1)]
    BY <1>0, <1>1, <1>3, <2>0
  <2>2. ASSUME NEW i \in 1 .. k PROVE (a \o c)[i] = IF i < k THEN s[i] ELSE e
    <3>1. CASE i < k
      BY <1>0, <1>1, <2>1, <3>1
    <3>2. CASE ~(i < k)
      <4>1. i = k /\ i - (k - 1) = 1 /\ ~(i <= k - 1)
        BY <1>0, <3>2
      <4> QED
        BY <1>0, <1>3, <2>1, <4>1
    <3> QED
      BY <3>1, <3>2
  <2> QED
    BY <1>0, <2>1, <2>2
<1>6. /\ (a \o c) \o b \in Seq(Entry) /\ Len((a \o c) \o b) = Len(s) + 1
      /\ \A i \in 1 .. Len(s) + 1 :
           ((a \o c) \o b)[i] = IF i <= k THEN (a \o c)[i] ELSE b[i - k]
  <2> DEFINE d == a \o c
  <2> HIDE DEF d
  <2>1. d \in Seq(Entry) /\ Len(d) = k
    BY <1>5 DEF d
  <2>2. /\ d \o b \in Seq(Entry) /\ Len(d \o b) = Len(d) + Len(b)
        /\ \A i \in 1 .. Len(d) + Len(b) : (d \o b)[i] = IF i <= Len(d) THEN d[i] ELSE b[i - Len(d)]
    BY <1>2, <2>1, ConcatProperties
  <2>3. Len(d) + Len(b) = Len(s) + 1
    BY <1>0, <1>2, <2>1
  <2> QED
    BY <2>1, <2>2, <2>3 DEF d
<1>7. ASSUME NEW i \in 1 .. Len(s) + 1
      PROVE  ((a \o c) \o b)[i] = IF i < k THEN s[i] ELSE IF i = k THEN e ELSE s[i - 1]
  <2>1. CASE i <= k
    BY <1>0, <1>5, <1>6, <2>1
  <2>2. CASE ~(i <= k)
    <3>1. i - k \in 1 .. Len(s) - k + 1 /\ k + (i - k) - 1 = i - 1 /\ ~(i < k) /\ i # k
      BY <1>0, <2>2
    <3> QED
      BY <1>0, <1>2, <1>6, <2>2, <3>1
  <2> QED
    BY <2>1, <2>2
<1> QED
  BY <1>0, <1>4, <1>6, <1>7

LEMMA RemoveElements ==
  ASSUME NEW s \in Seq(Entry), NEW k \in DOMAIN s
  PROVE  /\ RemoveAt(s, k) \in Seq(Entry)
         /\ Len(RemoveAt(s, k)) = Len(s) - 1
         /\ \A i \in 1 .. Len(s) - 1 : RemoveAt(s, k)[i] = IF i < k THEN s[i] ELSE s[i + 1]
<1> DEFINE a == SubSeq(s, 1, k - 1)
           b == SubSeq(s, k + 1, Len(s))
<1>0. Len(s) \in Nat /\ k \in 1 .. Len(s) /\ k \in Int /\ \A i \in 1 .. Len(s) : s[i] \in Entry
  BY EntrySeq
<1>1. /\ a \in Seq(Entry) /\ Len(a) = k - 1
      /\ \A i \in 1 .. k - 1 : a[i] = s[i]
  <2>1. \A i \in 1 .. k - 1 : s[i] \in Entry
    BY <1>0
  <2>2. /\ a \in Seq(Entry)
        /\ Len(a) = IF 1 <= k - 1 THEN (k - 1) - 1 + 1 ELSE 0
        /\ \A i \in 1 .. (k - 1) - 1 + 1 : a[i] = s[1 + i - 1]
    BY <1>0, <2>1, SubSeqProperties
  <2> QED
    BY <1>0, <2>2
<1>2. /\ b \in Seq(Entry) /\ Len(b) = Len(s) - k
      /\ \A i \in 1 .. Len(s) - k : b[i] = s[k + i]
  <2>1. \A i \in k + 1 .. Len(s) : s[i] \in Entry
    BY <1>0
  <2>2. /\ b \in Seq(Entry)
        /\ Len(b) = IF k + 1 <= Len(s) THEN Len(s) - (k + 1) + 1 ELSE 0
        /\ \A i \in 1 .. Len(s) - (k + 1) + 1 : b[i] = s[(k + 1) + i - 1]
    BY <1>0, <2>1, SubSeqProperties
  <2>3. \A i \in 1 .. Len(s) - k : (k + 1) + i - 1 = k + i /\ i \in 1 .. Len(s) - (k + 1) + 1
    BY <1>0
  <2> QED
    BY <1>0, <2>2, <2>3
<1>3. RemoveAt(s, k) = a \o b
  BY DEF RemoveAt
<1> HIDE DEF a, b
<1>4. /\ a \o b \in Seq(Entry) /\ Len(a \o b) = Len(s) - 1
      /\ \A i \in 1 .. Len(s) - 1 :
           (a \o b)[i] = IF i <= k - 1 THEN a[i] ELSE b[i - (k - 1)]
  <2>1. /\ a \o b \in Seq(Entry) /\ Len(a \o b) = Len(a) + Len(b)
        /\ \A i \in 1 .. Len(a) + Len(b) : (a \o b)[i] = IF i <= Len(a) THEN a[i] ELSE b[i - Len(a)]
    BY <1>1, <1>2, ConcatProperties
  <2>2. Len(a) + Len(b) = Len(s) - 1
    BY <1>0, <1>1, <1>2
  <2> QED
    BY <1>1, <2>1, <2>2
<1>5. ASSUME NEW i \in 1 .. Len(s) - 1
      PROVE  (a \o b)[i] = IF i < k THEN s[i] ELSE s[i + 1]
  <2>1. CASE i < k
    BY <1>0, <1>1, <1>4, <2>1
  <2>2. CASE ~(i < k)
    <3>1. i - (k - 1) \in 1 .. Len(s) - k /\ k + (i - (k - 1)) = i + 1 /\ ~(i <= k - 1)
      BY <1>0, <2>2
    <3> QED
      BY <1>0, <1>2, <1>4, <2>2, <3>1
  <2> QED
    BY <2>1, <2>2
<1> QED
  BY <1>0, <1>3, <1>4, <1>5

-----------------------------------------------------------------------------
\* Counting: a subset has no more members, one element adds one at most, and places
\* with distinct bookmarks are no more than the bookmarks.
LEMMA FewerMembers ==
  ASSUME NEW S, IsFiniteSet(S), NEW T, T \subseteq S
  PROVE  /\ IsFiniteSet(T) /\ Cardinality(T) \in Nat /\ Cardinality(S) \in Nat
         /\ Cardinality(T) <= Cardinality(S)
BY FS_Subset, FS_CardinalityType

LEMMA OneMore ==
  ASSUME NEW S, IsFiniteSet(S), NEW x, NEW T, T \subseteq S \cup {x}
  PROVE  IsFiniteSet(T) /\ Cardinality(T) <= Cardinality(S) + 1
<1>1. /\ IsFiniteSet(S \cup {x}) /\ Cardinality(S) \in Nat
      /\ Cardinality(S \cup {x}) = IF x \in S THEN Cardinality(S) ELSE Cardinality(S) + 1
  BY FS_AddElement, FS_CardinalityType
<1>2. /\ IsFiniteSet(T) /\ Cardinality(T) \in Nat /\ Cardinality(S \cup {x}) \in Nat
      /\ Cardinality(T) <= Cardinality(S \cup {x})
  BY <1>1, FewerMembers
<1> QED
  BY <1>1, <1>2

LEMMA DistinctPlaces ==
  ASSUME NEW s \in Seq(Entry), NEW P, P \subseteq DOMAIN s,
         NEW T, IsFiniteSet(T), \A i \in P : s[i].id \in T,
         \A i, j \in P : s[i].id = s[j].id => i = j
  PROVE  IsFiniteSet(P) /\ Cardinality(P) <= Cardinality(T)
<1> DEFINE f == [i \in P |-> s[i].id]
<1>1. f \in Injection(P, T)
  BY DEF Injection, IsInjective
<1> QED
  BY <1>1, FS_Injection

LEMMA Disjoint ==
  ASSUME NEW S, IsFiniteSet(S), NEW T, IsFiniteSet(T), S \cap T = {}
  PROVE  /\ IsFiniteSet(S \cup T)
         /\ Cardinality(S \cup T) = Cardinality(S) + Cardinality(T)
BY FS_Union, FS_EmptySet, FS_CardinalityType

\* All that is counted here is finite.
LEMMA Finite ==
  ASSUME TypeOK
  PROVE  /\ IsFiniteSet(seen) /\ IsFiniteSet(hidden) /\ IsFiniteSet(repeated)
         /\ IsFiniteSet(DOMAIN all) /\ Cardinality(DOMAIN all) = Len(all)
<1>1. all \in Seq(Entry) /\ Len(all) \in Nat /\ DOMAIN all = 1 .. Len(all) /\ stayed \subseteq Ids
  BY EntrySeq DEF TypeOK
<1>2. seen \subseteq Ids /\ hidden \subseteq Ids /\ repeated \subseteq DOMAIN all
  BY <1>1, EntrySeq DEF seen, hidden, repeated, Entry
<1>3. IsFiniteSet(DOMAIN all) /\ Cardinality(DOMAIN all) = Len(all)
  <2>1. 1 \in Int /\ Len(all) \in Int
    BY <1>1
  <2>2. /\ IsFiniteSet(1 .. Len(all))
        /\ Cardinality(1 .. Len(all)) = IF 1 > Len(all) THEN 0 ELSE Len(all) - 1 + 1
    BY <2>1, FS_Interval, Zenon
  <2> QED
    BY <1>1, <2>2
<1> QED
  BY <1>2, <1>3, FewerMembers, ListBookmarksAssumption

-----------------------------------------------------------------------------
LEMMA SelectedMembers ==
  ASSUME NEW s \in Seq(Entry)
  PROVE  /\ selected(s) \subseteq Ids
         /\ \A b : b \in selected(s) <=> \E i \in DOMAIN s : s[i].id = b /\ matchesLabelFilter(s[i])
<1>1. \A i \in DOMAIN s : s[i].id \in Ids
  BY EntrySeq DEF Entry
<1>2. \A b : b \in selected(s) <=> \E i \in DOMAIN s : s[i].id = b /\ matchesLabelFilter(s[i])
  BY DEF selected, ToSet, matchesLabelFilter
<1> QED
  BY <1>1, <1>2

\* A feed to begin with is a permutation of some of the bookmarks.
LEMMA InitFeed ==
  ASSUME Init
  PROVE  /\ feed \in Seq(Entry)
         /\ \A i, j \in DOMAIN feed : feed[i].id = feed[j].id => i = j
<1>1. PICK p \in SetToAllKPermutations(Ids) :
        feed = [i \in DOMAIN p |-> [id |-> p[i], tagged |-> p[i] \in Tagged]]
  BY DEF Init
<1>2. PICK S \in SUBSET Ids : p \in SetToSeqs(S)
  BY <1>1 DEF SetToAllKPermutations
<1>3. Cardinality(S) \in Nat
  BY ListBookmarksAssumption, FS_Subset, FS_CardinalityType
<1>4. /\ p \in [1 .. Cardinality(S) -> S]
      /\ \A i, j \in 1 .. Cardinality(S) : i # j => p[i] # p[j]
  BY <1>2 DEF SetToSeqs
<1>5. DOMAIN p = 1 .. Cardinality(S) /\ \A i \in 1 .. Cardinality(S) : p[i] \in Ids
  BY <1>2, <1>4
<1>6. feed \in [1 .. Cardinality(S) -> Entry]
  BY <1>1, <1>5 DEF Entry
<1>7. feed \in Seq(Entry)
  BY <1>3, <1>6, SeqDef
<1>8. \A i \in DOMAIN feed : feed[i].id = p[i] /\ i \in 1 .. Cardinality(S)
  BY <1>1, <1>5
<1> QED
  BY <1>4, <1>7, <1>8

LEMMA InitInv == Init => IInv
<1> SUFFICES ASSUME Init PROVE IInv
  OBVIOUS
<1> USE ListBookmarksAssumption
<1>1. /\ feed \in Seq(Entry) /\ Len(feed) \in Nat
      /\ \A i, j \in DOMAIN feed : feed[i].id = feed[j].id => i = j
  BY InitFeed, EntrySeq
<1>2. <<>> \in Seq(Entry) /\ Len(<<>>) = 0 /\ DOMAIN <<>> = {}
  OBVIOUS
<1>3. TypeOK
  <2>1. stayed \subseteq Ids
    BY <1>1, SelectedMembers DEF Init
  <2>2. offset \in 0 .. Len(feed) + edits /\ edits \in 0 .. MaxEdits /\ attempt \in 1 .. MaxAttempts
    BY <1>1 DEF Init, Unchanged
  <2> QED
    BY <1>1, <1>2, <2>1, <2>2 DEF Init, TypeOK, Unchanged
<1>4. FeedInv
  BY <1>1 DEF Init, FeedInv
<1>5. QuietInv
  BY <1>2 DEF Init, QuietInv
<1>6. hidden = {} /\ repeated = {} /\ seen = {}
  <2>1. selected(feed) \subseteq ahead
    <3>1. \A i \in DOMAIN feed : i > 0
      BY <1>1, EntrySeq
    <3> QED
      BY <1>1, <3>1, SelectedMembers DEF Init, ahead
  <2> QED
    BY <1>2, <2>1 DEF Init, hidden, repeated, seen
<1>7. EnteringInv /\ LeavingInv
  <2>1. seen \cap ahead = {} /\ changes.removed = 0 /\ changes.added = 0
    BY <1>6 DEF Init, Unchanged
  <2> QED
    BY <1>6, <2>1, FS_EmptySet DEF EnteringInv, LeavingInv
<1>8. ChosenInv
  BY <1>2 DEF Init, ChosenInv
<1> QED
  BY <1>3, <1>4, <1>5, <1>7, <1>8 DEF IInv

-----------------------------------------------------------------------------
\* How many entries have been received with the next page.
reached == offset + Len(page)

\* What a request appends stands in the feed at the place it gets in the list; the
\* listing goes on behind a full page, and ends at the end of the feed or the limit.
LEMMA RequestElements ==
  ASSUME TypeOK, Request
  PROVE  /\ all' \in Seq(Entry) /\ Len(all') \in Nat
         /\ \A i \in 1 .. Len(all') :
              IF i <= offset THEN i \in DOMAIN all /\ all'[i] = all[i]
                             ELSE i \in DOMAIN feed /\ all'[i] = feed[i]
         /\ \/ /\ pc' = "request" /\ offset' = offset + BatchSize
               /\ Len(all') = offset + BatchSize /\ Len(all') <= Len(feed)
            \/ /\ pc' = "select" /\ offset' = offset
               /\ Len(all') = IF limit > 0 /\ limit < reached THEN limit ELSE reached
               /\ Len(feed) <= reached \/ (limit > 0 /\ limit <= reached)
<1> DEFINE entries == all \o page
<1>1. /\ offset \in Nat /\ BatchSize \in Nat /\ BatchSize > 0 /\ limit \in Nat
      /\ feed \in Seq(Entry) /\ Len(feed) \in Nat /\ DOMAIN feed = 1 .. Len(feed)
      /\ all \in Seq(Entry) /\ Len(all) = offset /\ DOMAIN all = 1 .. offset
  <2>1. /\ feed \in Seq(Entry) /\ Len(feed) \in Nat /\ DOMAIN feed = 1 .. Len(feed)
        /\ all \in Seq(Entry) /\ DOMAIN all = 1 .. Len(all) /\ Len(all) = offset
    BY EntrySeq DEF TypeOK, Request
  <2> QED
    BY <2>1, ListBookmarksAssumption DEF TypeOK
<1>2. /\ entries \in Seq(Entry) /\ Len(entries) = Len(all) + Len(page)
      /\ \A i \in 1 .. Len(all) + Len(page) :
           entries[i] = IF i <= Len(all) THEN all[i] ELSE page[i - Len(all)]
  BY <1>1, PageElements, ConcatProperties
<1>3. Len(entries) = reached /\ reached \in Nat /\ offset <= reached
  BY <1>1, <1>2, PageElements DEF reached
<1>4. ASSUME NEW i \in 1 .. reached
      PROVE  IF i <= offset THEN i \in DOMAIN all /\ entries[i] = all[i]
                            ELSE i \in DOMAIN feed /\ entries[i] = feed[i]
  <2>1. CASE i <= offset
    BY <1>1, <1>2, <1>3, <2>1
  <2>2. CASE ~(i <= offset)
    <3>1. i - offset \in 1 .. Len(page) /\ offset + (i - offset) = i
      BY <1>1, <1>3, <2>2, PageElements DEF reached
    <3>2. entries[i] = page[i - offset]
      BY <1>1, <1>2, <1>3, <2>2
    <3> QED
      BY <2>2, <3>1, <3>2, PageElements
  <2> QED
    BY <2>1, <2>2
<1>5. lastPage(page) => Len(feed) <= reached
  BY <1>1, <1>3, PageElements DEF lastPage, reached
<1>6. ~lastPage(page) => reached = offset + BatchSize /\ reached <= Len(feed)
  <2>1. ~lastPage(page) => Len(page) = BatchSize
    BY <1>1, PageElements DEF lastPage
  <2>2. ~lastPage(page) => offset + BatchSize \in DOMAIN feed
    BY <1>1, <2>1, PageElements
  <2> QED
    BY <1>1, <2>1, <2>2 DEF reached
<1>7. limitReached(entries) <=> limit > 0 /\ limit <= reached
  BY <1>1, <1>3 DEF limitReached
<1>8. IF lastPage(page) \/ limitReached(entries)
      THEN all' = truncated(entries) /\ pc' = "select" /\ offset' = offset
      ELSE all' = entries /\ offset' = offset + BatchSize /\ pc' = "request"
  BY DEF Request
<1> HIDE DEF entries
<1>9. CASE lastPage(page) \/ limitReached(entries)
  <2>1. /\ truncated(entries) \in Seq(Entry)
        /\ Len(truncated(entries)) = IF limit > 0 /\ limit < reached THEN limit ELSE reached
        /\ \A i \in 1 .. Len(truncated(entries)) : truncated(entries)[i] = entries[i]
    <3>1. CASE limit > 0
      BY <1>1, <1>2, <1>3, <3>1, UpToElements DEF truncated
    <3>2. CASE ~(limit > 0)
      BY <1>2, <1>3, <3>2 DEF truncated
    <3> QED
      BY <3>1, <3>2
  <2>2. \A i \in 1 .. Len(truncated(entries)) : i \in 1 .. reached
    BY <1>1, <1>3, <2>1
  <2>3. \A i \in 1 .. Len(all') :
          IF i <= offset THEN i \in DOMAIN all /\ all'[i] = all[i]
                         ELSE i \in DOMAIN feed /\ all'[i] = feed[i]
    BY <1>4, <1>8, <1>9, <2>1, <2>2
  <2>4. Len(feed) <= reached \/ (limit > 0 /\ limit <= reached)
    BY <1>5, <1>7, <1>9
  <2> QED
    BY <1>8, <1>9, <2>1, <2>3, <2>4, EntrySeq
<1>10. CASE ~(lastPage(page) \/ limitReached(entries))
  BY <1>2, <1>3, <1>4, <1>6, <1>8, <1>10
<1> QED
  BY <1>9, <1>10

LEMMA RequestInv == ASSUME IInv, Request PROVE IInv'
<1> USE ListBookmarksAssumption
<1>0. /\ TypeOK /\ FeedInv /\ QuietInv /\ EnteringInv /\ LeavingInv /\ ChosenInv
      /\ pc = "request" /\ chosen' = chosen /\ UNCHANGED <<options, server, attempt, capacity, history>>
  BY DEF IInv, Request
<1>1. /\ offset \in Nat /\ BatchSize \in Nat /\ BatchSize > 0 /\ limit \in Nat
      /\ feed \in Seq(Entry) /\ Len(feed) \in Nat /\ DOMAIN feed = 1 .. Len(feed)
      /\ all \in Seq(Entry) /\ Len(all) = offset /\ DOMAIN all = 1 .. offset
  <2>1. /\ feed \in Seq(Entry) /\ Len(feed) \in Nat /\ DOMAIN feed = 1 .. Len(feed)
        /\ all \in Seq(Entry) /\ DOMAIN all = 1 .. Len(all) /\ Len(all) = offset
    BY <1>0, EntrySeq DEF TypeOK
  <2> QED
    BY <1>0, <2>1 DEF TypeOK
<1>2. DOMAIN all' = 1 .. Len(all') /\ feed' = feed /\ filter' = filter /\ limit' = limit
      /\ check' = check /\ edits' = edits /\ first' = first /\ stayed' = stayed /\ changes' = changes
  BY <1>0, RequestElements, EntrySeq DEF options, server, history
<1>3. TypeOK'
  <2>1. offset' \in 0 .. Len(feed) + changes.removed /\ (pc' = "request" => Len(all') = offset')
    BY <1>0, <1>1, RequestElements DEF TypeOK
  <2>2. chosen' \subseteq DOMAIN all'
    BY <1>0 DEF ChosenInv
  <2> QED
    BY <1>0, <1>2, <2>1, <2>2, RequestElements DEF TypeOK
<1>4. FeedInv'
  BY <1>0, <1>2 DEF FeedInv, selected, ToSet
<1>5. QuietInv'
  <2> SUFFICES ASSUME changes = Unchanged
               PROVE  /\ feed = first
                      /\ \A i \in DOMAIN all' : i \in DOMAIN feed /\ all'[i] = feed[i]
                      /\ pc' \in {"select", "done"} =>
                           Len(all') = IF limit > 0 /\ limit < Len(feed) THEN limit ELSE Len(feed)
    BY <1>2 DEF QuietInv
  <2>1. feed = first /\ \A i \in 1 .. offset : i \in DOMAIN feed /\ all[i] = feed[i]
    BY <1>0, <1>1 DEF QuietInv
  <2>2. \A i \in DOMAIN all' : i \in DOMAIN feed /\ all'[i] = feed[i]
    BY <1>0, <1>1, <1>2, <2>1, RequestElements
  <2>3. reached <= Len(feed) /\ reached \in Nat
    <3>1. offset <= Len(feed)
      <4>1. offset > 0 => offset \in 1 .. Len(feed)
        BY <1>1, <2>1
      <4> QED
        BY <1>1, <4>1
    <3>2. Len(page) \in Nat /\ (Len(page) > 0 => offset + Len(page) \in 1 .. Len(feed))
      BY <1>0, <1>1, PageElements
    <3> QED
      BY <1>1, <3>1, <3>2 DEF reached
  <2>4. pc' = "select" => Len(all') = IF limit > 0 /\ limit < Len(feed) THEN limit ELSE Len(feed)
    BY <1>0, <1>1, <2>3, RequestElements
  <2> QED
    BY <1>0, <2>1, <2>2, <2>4, RequestElements
<1>6. EnteringInv'
  <2> SUFFICES ASSUME limit = 0 PROVE Cardinality(hidden') <= changes.removed
    BY <1>2 DEF EnteringInv
  <2>1. Len(all') \in Nat /\ Len(all') >= offset
    BY <1>0, <1>1, RequestElements, PageElements DEF reached
  <2>2. ASSUME NEW b \in hidden' PROVE b \in hidden
    <3>1. /\ b \in stayed /\ b \notin ahead'
          /\ \A i \in 1 .. Len(all') : matchesLabelFilter(all'[i]) => all'[i].id # b
      BY <1>2 DEF hidden, filterBookmarksByLabel, matchesLabelFilter
    <3>2. ASSUME NEW i \in filterBookmarksByLabel(all) PROVE all[i].id # b
      <4>1. i \in 1 .. offset /\ matchesLabelFilter(all[i])
        BY <1>1 DEF filterBookmarksByLabel
      <4>2. i \in 1 .. Len(all') /\ all'[i] = all[i]
        BY <1>0, <1>1, <2>1, <4>1, RequestElements
      <4> QED
        BY <3>1, <4>1, <4>2
    <3>3. ASSUME NEW i \in DOMAIN feed, i > offset, feed[i].id = b PROVE FALSE
      <4>1. matchesLabelFilter(feed[i])
        <5>1. PICK j \in DOMAIN feed : feed[j].id = b /\ matchesLabelFilter(feed[j])
          BY <1>0, <1>1, <3>1, SelectedMembers DEF FeedInv
        <5> QED
          BY <1>0, <3>3, <5>1 DEF FeedInv
      <4>2. CASE i \in 1 .. Len(all')
        <5>1. all'[i] = feed[i]
          BY <1>0, <1>1, <3>3, <4>2, RequestElements
        <5> QED
          BY <3>1, <3>3, <4>1, <4>2, <5>1
      <4>3. CASE i \notin 1 .. Len(all')
        <5>1. pc' = "request" /\ i > offset'
          BY <1>0, <1>1, <2>1, <3>3, <4>3, RequestElements
        <5> QED
          BY <1>2, <3>1, <3>3, <5>1 DEF ahead
      <4> QED
        BY <4>2, <4>3
    <3> QED
      BY <1>0, <3>1, <3>2, <3>3 DEF hidden, ahead
  <2>3. Cardinality(hidden) <= changes.removed
    BY <1>0 DEF EnteringInv
  <2>4. hidden' \subseteq hidden /\ changes.removed \in Nat
    BY <1>0, <2>2 DEF TypeOK
  <2> QED
    BY <1>0, <2>3, <2>4, Finite, FewerMembers
<1>7. LeavingInv'
  <2> DEFINE more == {i \in repeated' : i > offset}
             due == seen \cap ahead
  <2>1. Len(all') \in Nat /\ DOMAIN all' = 1 .. Len(all') /\ repeated' \subseteq DOMAIN all'
    BY <1>0, <1>2, RequestElements DEF repeated
  <2>2. \A i, j \in DOMAIN feed : feed[i].id = feed[j].id => i = j
    BY <1>0 DEF FeedInv
  <2>3. ASSUME NEW i \in DOMAIN all'
        PROVE  \/ i <= offset /\ i \in DOMAIN all /\ all'[i] = all[i]
               \/ i > offset /\ i \in DOMAIN feed /\ all'[i] = feed[i]
    <3>1. i \in 1 .. Len(all') /\ i \in Nat
      BY <2>1
    <3>2. IF i <= offset THEN i \in DOMAIN all /\ all'[i] = all[i]
                         ELSE i \in DOMAIN feed /\ all'[i] = feed[i]
      BY <1>0, <3>1, RequestElements
    <3> QED
      BY <1>1, <3>1, <3>2
  <2>4. ASSUME NEW b \in ahead'
        PROVE  b \in ahead /\ \E j \in DOMAIN feed : j > Len(all') /\ j > offset /\ feed[j].id = b
    <3>1. PICK j \in DOMAIN feed : pc' = "request" /\ j > offset' /\ feed[j].id = b
      BY <1>2, <2>4 DEF ahead
    <3>2. j > offset /\ j > Len(all')
      BY <1>0, <1>1, <3>1, RequestElements
    <3> QED
      BY <1>0, <3>1, <3>2 DEF ahead
  <2>5. repeated' \ more \subseteq repeated
    <3> SUFFICES ASSUME NEW i \in repeated', i \notin more PROVE i \in repeated
      OBVIOUS
    <3>1. PICK j \in DOMAIN all' : j < i /\ all'[j].id = all'[i].id /\ i \in DOMAIN all'
      BY DEF repeated
    <3>2. i \in Nat /\ j \in Nat /\ i <= offset /\ j <= offset
      BY <1>1, <2>1, <3>1
    <3>3. i \in DOMAIN all /\ all'[i] = all[i] /\ j \in DOMAIN all /\ all'[j] = all[j]
      BY <1>1, <2>3, <3>1, <3>2
    <3> QED
      BY <3>1, <3>3 DEF repeated
  <2>6. ASSUME NEW i \in more
        PROVE  i \in DOMAIN feed /\ feed[i].id \in due \ due'
    <3>1. PICK j \in DOMAIN all' : j < i /\ all'[j].id = all'[i].id /\ i \in DOMAIN all' /\ i > offset
      BY <2>6 DEF repeated
    <3>2. i \in DOMAIN feed /\ all'[i] = feed[i] /\ i \in Nat /\ j \in Nat /\ i <= Len(all')
      BY <1>1, <2>1, <2>3, <3>1
    <3>3. j \in DOMAIN all /\ all'[j] = all[j]
      BY <2>2, <2>3, <3>1, <3>2
    <3>4. feed[i].id \in due
      BY <1>0, <3>1, <3>2, <3>3 DEF seen, ahead
    <3>5. feed[i].id \notin ahead'
      BY <2>1, <2>2, <2>4, <3>2
    <3> QED
      BY <3>2, <3>4, <3>5
  <2>7. due' \subseteq due
    <3> SUFFICES ASSUME NEW b \in seen', b \in ahead' PROVE b \in seen /\ b \in ahead
      OBVIOUS
    <3>1. PICK i \in DOMAIN all' : all'[i].id = b
      BY DEF seen
    <3>2. PICK j \in DOMAIN feed : j > Len(all') /\ j > offset /\ feed[j].id = b
      BY <2>4
    <3>3. i # j
      BY <1>1, <2>1, <3>1, <3>2
    <3>4. i \in DOMAIN all /\ all'[i] = all[i]
      BY <2>2, <2>3, <3>1, <3>2, <3>3
    <3> QED
      BY <2>4, <3>1, <3>4 DEF seen
  <2>8. IsFiniteSet(repeated) /\ IsFiniteSet(due) /\ changes.added \in Nat
    BY <1>0, Finite, FewerMembers DEF TypeOK
  <2>9. /\ IsFiniteSet(due') /\ IsFiniteSet(due \ due')
        /\ Cardinality(due) = Cardinality(due') + Cardinality(due \ due')
    <3>1. IsFiniteSet(due') /\ IsFiniteSet(due \ due')
      BY <2>7, <2>8, FewerMembers
    <3>2. due' \cap (due \ due') = {} /\ due' \cup (due \ due') = due
      BY <2>7
    <3> HIDE DEF due
    <3>3. Cardinality(due' \cup (due \ due')) = Cardinality(due') + Cardinality(due \ due')
      BY <3>1, <3>2, Disjoint
    <3> QED
      BY <3>1, <3>2, <3>3
  <2>10. IsFiniteSet(more) /\ Cardinality(more) <= Cardinality(due \ due')
    <3>1. more \subseteq DOMAIN feed /\ \A i \in more : feed[i].id \in due \ due'
      BY <2>6
    <3>2. \A i, j \in more : feed[i].id = feed[j].id => i = j
      BY <2>2, <3>1
    <3> HIDE DEF more, due
    <3> QED
      BY <1>1, <2>9, <3>1, <3>2, DistinctPlaces
  <2>11. Cardinality(repeated') = Cardinality(repeated' \ more) + Cardinality(more)
    <3>1. IsFiniteSet(repeated' \ more)
      BY <2>5, <2>8, FewerMembers
    <3>2. (repeated' \ more) \cap more = {} /\ (repeated' \ more) \cup more = repeated'
      OBVIOUS
    <3> HIDE DEF more
    <3>3. Cardinality((repeated' \ more) \cup more) = Cardinality(repeated' \ more) + Cardinality(more)
      BY <2>10, <3>1, <3>2, Disjoint
    <3> QED
      BY <3>2, <3>3
  <2>12. Cardinality(repeated) + Cardinality(due) <= changes.added
    BY <1>0 DEF LeavingInv
  <2>13. Cardinality(repeated' \ more) <= Cardinality(repeated)
    BY <2>5, <2>8, FewerMembers
  <2>14. /\ Cardinality(repeated' \ more) \in Nat /\ Cardinality(repeated) \in Nat
         /\ Cardinality(due) \in Nat /\ Cardinality(due') \in Nat
         /\ Cardinality(more) \in Nat /\ Cardinality(due \ due') \in Nat
    <3> HIDE DEF more, due
    <3> QED
      BY <2>5, <2>8, <2>9, <2>10, FewerMembers, FS_CardinalityType
  <2>15. Cardinality(repeated') + Cardinality(due') <= changes.added
    <3> HIDE DEF more, due
    <3> QED
      BY <2>8, <2>9, <2>10, <2>11, <2>12, <2>13, <2>14
  <2> QED
    BY <1>2, <2>15 DEF LeavingInv
<1>8. ChosenInv'
  BY <1>0, <1>2, RequestElements DEF ChosenInv
<1> QED
  BY <1>3, <1>4, <1>5, <1>6, <1>7, <1>8 DEF IInv

LEMMA RequestFailsInv == ASSUME IInv, RequestFails PROVE IInv'
<1> USE ListBookmarksAssumption
<1>0. /\ TypeOK /\ FeedInv /\ QuietInv /\ ChosenInv /\ pc = "request"
      /\ chosen' = chosen /\ UNCHANGED <<options, server, capacity>>
  BY DEF IInv, RequestFails
<1>1. feed \in Seq(Entry) /\ Len(feed) \in Nat /\ DOMAIN feed = 1 .. Len(feed) /\ chosen = {}
  BY <1>0, EntrySeq DEF TypeOK, ChosenInv
<1>2. /\ all' = <<>> /\ all' \in Seq(Entry) /\ Len(all') = 0 /\ DOMAIN all' = {}
      /\ feed' = feed /\ filter' = filter /\ limit' = limit /\ check' = check /\ edits' = edits
  <2>1. all' = <<>>
    BY DEF RequestFails, received
  <2> QED
    BY <1>0, <2>1 DEF options, server
<1>3. CASE attempt < attempts /\ attempt' = attempt + 1 /\ offset' = 0 /\ Watch /\ pc' = pc
  <2>1. stayed' = selected(feed) /\ selected(feed)' = selected(feed)
    BY <1>2, <1>3 DEF Watch, selected, ToSet
  <2>2. TypeOK'
    <3>1. attempt' \in 1 .. MaxAttempts
      BY <1>0, <1>3 DEF TypeOK, attempts
    <3>2. offset' \in 0 .. Len(feed) + changes'.removed
      BY <1>1, <1>3 DEF Watch, Unchanged
    <3> QED
      BY <1>0, <1>1, <1>2, <1>3, <2>1, <3>1, <3>2, SelectedMembers DEF TypeOK, Watch, Unchanged
  <2>3. FeedInv'
    BY <1>0, <1>2, <2>1 DEF FeedInv
  <2>4. QuietInv'
    BY <1>0, <1>2, <1>3 DEF QuietInv, Watch
  <2>5. hidden' = {} /\ repeated' = {} /\ seen' = {}
    <3>1. selected(feed) \subseteq ahead'
      <4>1. \A i \in DOMAIN feed : i > 0
        BY <1>1
      <4> QED
        BY <1>0, <1>1, <1>2, <1>3, <4>1, SelectedMembers DEF ahead
    <3> QED
      BY <1>2, <2>1, <3>1 DEF hidden, repeated, seen
  <2>6. EnteringInv' /\ LeavingInv'
    <3>1. (seen \cap ahead)' = {} /\ changes'.removed = 0 /\ changes'.added = 0
      BY <1>3, <2>5 DEF Watch, Unchanged
    <3> QED
      BY <2>5, <3>1, FS_EmptySet DEF EnteringInv, LeavingInv
  <2>7. ChosenInv'
    BY <1>0, <1>1, <1>2, <1>3 DEF ChosenInv
  <2> QED
    BY <2>2, <2>3, <2>4, <2>6, <2>7 DEF IInv
<1>4. CASE pc' = "failed" /\ attempt' = attempt /\ offset' = offset /\ UNCHANGED history
  <2>1. stayed' = stayed /\ first' = first /\ changes' = changes
    BY <1>4 DEF history
  <2>2. TypeOK'
    BY <1>0, <1>1, <1>2, <1>4, <2>1 DEF TypeOK
  <2>3. FeedInv' /\ QuietInv'
    BY <1>0, <1>2, <1>4, <2>1 DEF FeedInv, QuietInv, selected, ToSet
  <2>4. EnteringInv' /\ ChosenInv'
    BY <1>0, <1>1, <1>2, <1>4, <2>1 DEF EnteringInv, ChosenInv
  <2>5. LeavingInv'
    <3>1. repeated' = {} /\ seen' \cap ahead' = {}
      BY <1>2 DEF repeated, seen
    <3>2. 0 + 0 <= changes'.added
      BY <1>0, <2>1 DEF TypeOK
    <3>3. Cardinality(repeated') = 0 /\ Cardinality(seen' \cap ahead') = 0
      BY <3>1, FS_EmptySet
    <3> QED
      BY <3>2, <3>3 DEF LeavingInv
  <2> QED
    BY <2>2, <2>3, <2>4, <2>5 DEF IInv
<1> QED
  BY <1>3, <1>4 DEF RequestFails, nextAttempt

\* With distinct entries only those that match are scheduled.
LEMMA ChoiceInv == ASSUME IInv, Dispatch \/ PrintSummary PROVE IInv'
<1>0. /\ TypeOK /\ FeedInv /\ QuietInv /\ EnteringInv /\ LeavingInv /\ ChosenInv
      /\ pc = "select" /\ pc' = "done"
  BY DEF IInv, Dispatch, PrintSummary
<1>1. /\ all' = all /\ feed' = feed /\ filter' = filter /\ limit' = limit /\ check' = check
      /\ edits' = edits /\ stayed' = stayed /\ first' = first /\ changes' = changes
      /\ offset' = offset /\ attempt' = attempt
  BY DEF Dispatch, PrintSummary, options, server, history
<1>2. filterBookmarksByLabel(all)' = filterBookmarksByLabel(all)
  BY <1>1 DEF filterBookmarksByLabel, matchesLabelFilter
<1>3. filterBookmarksByLabel(all) \subseteq chosen' /\ chosen' \subseteq DOMAIN all
  BY DEF Dispatch, PrintSummary, filterBookmarksByLabel
<1>4. changes = Unchanged => chosen' = filterBookmarksByLabel(all)
  <2>1. CASE PrintSummary
    BY <2>1 DEF PrintSummary
  <2>2. CASE Dispatch
    <3> SUFFICES ASSUME changes = Unchanged, NEW i \in chosen' PROVE i \in filterBookmarksByLabel(all)
      BY <1>3
    <3>1. \A j, k \in DOMAIN all : all[j].id = all[k].id => j = k
      BY <1>0 DEF QuietInv, FeedInv
    <3>2. PICK j \in filterBookmarksByLabel(all) : all[i].id = all[j].id /\ i \in DOMAIN all
      BY <2>2 DEF Dispatch
    <3> QED
      BY <3>1, <3>2 DEF filterBookmarksByLabel
  <2> QED
    BY <2>1, <2>2
<1>5. capacity' \in Nat /\ (~check => capacity' = Len(all))
  BY <1>0, EntrySeq DEF Dispatch, PrintSummary, maxDownloads, TypeOK
<1>6. TypeOK'
  BY <1>0, <1>1, <1>3, <1>5 DEF TypeOK
<1>7. FeedInv' /\ QuietInv'
  BY <1>0, <1>1 DEF FeedInv, QuietInv, selected, ToSet
<1>8. EnteringInv' /\ LeavingInv'
  <2>1. ahead' = ahead /\ seen' = seen /\ hidden' = hidden /\ repeated' = repeated
    BY <1>0, <1>1, <1>2 DEF ahead, seen, hidden, repeated
  <2> QED
    BY <1>0, <1>1, <2>1 DEF EnteringInv, LeavingInv
<1>9. ChosenInv'
  BY <1>0, <1>1, <1>2, <1>3, <1>4, <1>5 DEF ChosenInv
<1> QED
  BY <1>6, <1>7, <1>8, <1>9 DEF IInv

-----------------------------------------------------------------------------
\* A change of the feed during the listing: no bookmark comes to be there twice; only
\* a removal takes bookmarks off the pages to come, only an addition puts some there,
\* and either only one.
LEMMA EditInv ==
  ASSUME IInv, NEW kind \in {"added", "removed", "relabelled"}, Edit(kind),
         feed' \in Seq(Entry),
         Len(feed) <= Len(feed') + (IF kind = "removed" THEN 1 ELSE 0),
         \A i, j \in DOMAIN feed' : feed'[i].id = feed'[j].id => i = j,
         NEW x,
         ahead \subseteq ahead' \cup (IF kind = "removed" THEN {x} ELSE {}),
         ahead' \subseteq ahead \cup (IF kind = "added" THEN {x} ELSE {})
  PROVE  IInv'
<1>0. /\ TypeOK /\ FeedInv /\ EnteringInv /\ LeavingInv /\ ChosenInv
      /\ pc = "request" /\ pc' = "request" /\ chosen = {}
  BY DEF IInv, Edit, ChosenInv
<1>1. /\ all' = all /\ filter' = filter /\ limit' = limit /\ check' = check
      /\ first' = first /\ offset' = offset /\ attempt' = attempt /\ chosen' = chosen
      /\ capacity' = capacity /\ edits' = edits + 1
      /\ changes' = [changes EXCEPT ![kind] = @ + 1]
  BY DEF Edit, options
<1>2. Len(feed) \in Nat /\ Len(feed') \in Nat /\ offset \in Nat
  BY <1>0, EntrySeq DEF TypeOK
<1>3. stayed' \subseteq stayed /\ stayed' \subseteq selected(feed)'
  BY <1>1 DEF Edit, selected, ToSet
<1>4. /\ changes \in [added : Nat, removed : Nat, relabelled : Nat]
      /\ changes' \in [added : Nat, removed : Nat, relabelled : Nat]
      /\ changes'.removed = changes.removed + (IF kind = "removed" THEN 1 ELSE 0)
      /\ changes'.added = changes.added + (IF kind = "added" THEN 1 ELSE 0)
      /\ changes' # Unchanged
  <2>1. changes \in [added : Nat, removed : Nat, relabelled : Nat]
    BY <1>0 DEF TypeOK
  <2>2. CASE kind = "added"
    BY <1>1, <2>1, <2>2 DEF Unchanged
  <2>3. CASE kind = "removed"
    BY <1>1, <2>1, <2>3 DEF Unchanged
  <2>4. CASE kind = "relabelled"
    BY <1>1, <2>1, <2>4 DEF Unchanged
  <2> QED
    BY <2>2, <2>3, <2>4
<1>5. TypeOK'
  <2>1. edits' \in 0 .. MaxEdits
    BY <1>0, <1>1, ListBookmarksAssumption DEF TypeOK, Edit
  <2>2. offset' \in 0 .. Len(feed') + changes'.removed
    BY <1>0, <1>1, <1>2, <1>4 DEF TypeOK
  <2>3. stayed' \subseteq Ids
    BY <1>0, <1>3 DEF TypeOK
  <2> QED
    BY <1>0, <1>1, <1>4, <2>1, <2>2, <2>3 DEF TypeOK
<1>6. FeedInv' /\ QuietInv'
  BY <1>3, <1>4 DEF FeedInv, QuietInv
<1>7. seen' = seen /\ repeated' = repeated
      /\ filterBookmarksByLabel(all)' = filterBookmarksByLabel(all)
  BY <1>1 DEF seen, repeated, filterBookmarksByLabel, matchesLabelFilter
<1>8. EnteringInv'
  <2> SUFFICES ASSUME limit = 0 PROVE Cardinality(hidden') <= changes'.removed
    BY <1>1 DEF EnteringInv
  <2>1. hidden' \subseteq hidden \cup (IF kind = "removed" THEN {x} ELSE {})
    BY <1>1, <1>3, <1>7 DEF hidden
  <2>2. Cardinality(hidden) <= changes.removed /\ IsFiniteSet(hidden)
    BY <1>0, Finite DEF EnteringInv
  <2>3. CASE kind = "removed"
    <3>1. Cardinality(hidden') <= Cardinality(hidden) + 1 /\ Cardinality(hidden) \in Nat
      BY <2>1, <2>2, <2>3, OneMore, FS_CardinalityType
    <3>2. IsFiniteSet(hidden')
      BY <2>1, <2>2, <2>3, OneMore
    <3> QED
      BY <1>4, <2>2, <2>3, <3>1, <3>2, FS_CardinalityType
  <2>4. CASE kind # "removed"
    <3>1. /\ Cardinality(hidden') <= Cardinality(hidden) /\ Cardinality(hidden) \in Nat
          /\ Cardinality(hidden') \in Nat
      BY <2>1, <2>2, <2>4, FewerMembers
    <3> QED
      BY <1>4, <2>2, <2>4, <3>1
  <2> QED
    BY <2>3, <2>4
<1>9. LeavingInv'
  <2> DEFINE due == seen \cap ahead
  <2>1. due' \subseteq due \cup (IF kind = "added" THEN {x} ELSE {})
    BY <1>7
  <2>2. /\ Cardinality(repeated) + Cardinality(due) <= changes.added
        /\ IsFiniteSet(repeated) /\ IsFiniteSet(due) /\ Cardinality(repeated) \in Nat
    BY <1>0, Finite, FewerMembers, FS_CardinalityType DEF LeavingInv
  <2>3. Cardinality(repeated) + Cardinality(due') <= changes'.added
    <3> HIDE DEF due
    <3>1. CASE kind = "added"
      <4>1. IsFiniteSet(due') /\ Cardinality(due') <= Cardinality(due) + 1
        BY <2>1, <2>2, <3>1, OneMore
      <4>2. Cardinality(due') \in Nat /\ Cardinality(due) \in Nat
        BY <2>2, <4>1, FS_CardinalityType
      <4> QED
        BY <1>4, <2>2, <3>1, <4>1, <4>2
    <3>2. CASE kind # "added"
      <4>1. /\ Cardinality(due') <= Cardinality(due) /\ Cardinality(due) \in Nat
            /\ Cardinality(due') \in Nat
        BY <2>1, <2>2, <3>2, FewerMembers
      <4> QED
        BY <1>4, <2>2, <3>2, <4>1
    <3> QED
      BY <3>1, <3>2
  <2> QED
    BY <1>7, <2>3 DEF LeavingInv
<1>10. ChosenInv'
  BY <1>0, <1>1 DEF ChosenInv
<1> QED
  BY <1>5, <1>6, <1>8, <1>9, <1>10 DEF IInv

\* The pages to come, while the listing is under way.
LEMMA AheadMembers ==
  ASSUME pc = "request"
  PROVE  \A b : b \in ahead <=> \E i \in DOMAIN feed : i > offset /\ feed[i].id = b
BY DEF ahead

LEMMA EntersInv == ASSUME IInv, Enters PROVE IInv'
<1>0. /\ feed \in Seq(Entry) /\ \A i, j \in DOMAIN feed : feed[i].id = feed[j].id => i = j
      /\ offset \in Nat
  BY DEF IInv, TypeOK, FeedInv
<1>1. PICK e \in Entry, k \in 1 .. Len(feed) + 1 :
        e.id \notin ToSet(ids(feed)) /\ feed' = InsertAt(feed, k, e) /\ Edit("added")
  BY DEF Enters
<1>2. \A i \in DOMAIN feed : feed[i].id # e.id
  BY <1>1 DEF ToSet, ids
<1>3. /\ feed' \in Seq(Entry) /\ Len(feed') = Len(feed) + 1
      /\ \A i \in 1 .. Len(feed) + 1 : feed'[i] =
           IF i < k THEN feed[i] ELSE IF i = k THEN e ELSE feed[i - 1]
  <2>1. /\ InsertAt(feed, k, e) \in Seq(Entry) /\ Len(InsertAt(feed, k, e)) = Len(feed) + 1
        /\ \A i \in 1 .. Len(feed) + 1 : InsertAt(feed, k, e)[i] =
             IF i < k THEN feed[i] ELSE IF i = k THEN e ELSE feed[i - 1]
    BY <1>0, InsertElements
  <2> QED
    BY <1>1, <2>1
<1>4. /\ Len(feed) \in Nat /\ DOMAIN feed = 1 .. Len(feed) /\ DOMAIN feed' = 1 .. Len(feed) + 1
      /\ k \in Nat /\ k <= Len(feed) + 1
  BY <1>0, <1>3, EntrySeq
<1>5. \A i \in DOMAIN feed' :
        \/ i < k /\ i \in DOMAIN feed /\ feed'[i] = feed[i]
        \/ i = k /\ feed'[i] = e
        \/ i > k /\ i - 1 \in DOMAIN feed /\ feed'[i] = feed[i - 1]
  BY <1>3, <1>4
<1>6. ASSUME NEW i \in DOMAIN feed', NEW j \in DOMAIN feed', feed'[i].id = feed'[j].id
      PROVE  i = j
  <2>1. i \in Nat /\ j \in Nat
    BY <1>4
  <2> QED
    BY <1>0, <1>2, <1>4, <1>5, <1>6, <2>1
<1>7. pc = "request" /\ pc' = "request" /\ offset' = offset
  BY <1>1 DEF Edit
<1>8. ahead \subseteq ahead'
  <2> SUFFICES ASSUME NEW i \in DOMAIN feed, i > offset PROVE feed[i].id \in ahead'
    BY <1>7, AheadMembers
  <2>1. CASE i < k
    <3>1. i \in DOMAIN feed' /\ feed'[i] = feed[i]
      BY <1>3, <1>4, <2>1
    <3> QED
      BY <1>7, <3>1 DEF ahead
  <2>2. CASE ~(i < k)
    <3>1. i + 1 \in DOMAIN feed' /\ i + 1 > offset /\ feed'[i + 1] = feed[i]
      BY <1>0, <1>3, <1>4, <2>2
    <3> QED
      BY <1>7, <3>1 DEF ahead
  <2> QED
    BY <2>1, <2>2
<1>9. \E x : ahead' \subseteq ahead \cup {x}
  <2>1. ASSUME NEW j \in DOMAIN feed', j > offset
        PROVE  \/ feed'[j].id \in ahead
               \/ j = k /\ feed'[j].id = e.id
               \/ j > k /\ j = offset + 1 /\ feed'[j].id = feed[offset].id
    <3>1. /\ j \in Nat
          /\ \/ j < k /\ j \in DOMAIN feed /\ feed'[j] = feed[j]
             \/ j = k /\ feed'[j] = e
             \/ j > k /\ j - 1 \in DOMAIN feed /\ feed'[j] = feed[j - 1]
      BY <1>4, <1>5
    <3>2. CASE j > k /\ j - 1 = offset
      BY <1>0, <3>1, <3>2
    <3>3. CASE j > k /\ j - 1 # offset
      <4>1. j - 1 > offset /\ j - 1 \in DOMAIN feed /\ feed'[j] = feed[j - 1]
        BY <1>0, <1>4, <2>1, <3>1, <3>3
      <4> QED
        BY <1>7, <4>1 DEF ahead
    <3>4. CASE j < k
      BY <1>4, <1>7, <2>1, <3>1, <3>4 DEF ahead
    <3> QED
      BY <1>4, <3>1, <3>2, <3>3, <3>4
  <2>2. \A b \in ahead' : \E j \in DOMAIN feed' : j > offset /\ feed'[j].id = b
    BY <1>7 DEF ahead
  <2>3. CASE k > offset
    <3>1. \A j \in DOMAIN feed' : ~(j > k /\ j = offset + 1)
      BY <1>0, <1>4, <2>3
    <3> WITNESS e.id
    <3> QED
      BY <2>1, <2>2, <3>1
  <2>4. CASE ~(k > offset)
    <3>1. \A j \in DOMAIN feed' : j > offset => j # k
      BY <1>0, <1>4, <2>4
    <3> WITNESS feed[offset].id
    <3> QED
      BY <2>1, <2>2, <3>1
  <2> QED
    BY <2>3, <2>4
<1>10. PICK x : ahead' \subseteq ahead \cup {x}
  BY <1>9
<1>11. Len(feed) <= Len(feed')
  BY <1>3, <1>4
<1> QED
  BY <1>1, <1>3, <1>4, <1>6, <1>8, <1>10, <1>11, EditInv

LEMMA LeavesInv == ASSUME IInv, Leaves PROVE IInv'
<1>0. /\ feed \in Seq(Entry) /\ \A i, j \in DOMAIN feed : feed[i].id = feed[j].id => i = j
      /\ offset \in Nat
  BY DEF IInv, TypeOK, FeedInv
<1>1. PICK k \in DOMAIN feed : feed' = RemoveAt(feed, k) /\ Edit("removed")
  BY DEF Leaves
<1>2. /\ feed' \in Seq(Entry) /\ Len(feed') = Len(feed) - 1
      /\ \A i \in 1 .. Len(feed) - 1 : feed'[i] = IF i < k THEN feed[i] ELSE feed[i + 1]
  BY <1>0, <1>1, RemoveElements
<1>3. /\ Len(feed) \in Nat /\ DOMAIN feed = 1 .. Len(feed) /\ DOMAIN feed' = 1 .. Len(feed) - 1
      /\ k \in Nat
  BY <1>0, <1>1, <1>2, EntrySeq
<1>4. \A i \in DOMAIN feed' :
        \/ i < k /\ i \in DOMAIN feed /\ feed'[i] = feed[i]
        \/ i >= k /\ i + 1 \in DOMAIN feed /\ feed'[i] = feed[i + 1]
  BY <1>2, <1>3
<1>5. ASSUME NEW i \in DOMAIN feed', NEW j \in DOMAIN feed', feed'[i].id = feed'[j].id
      PROVE  i = j
  <2>1. i \in Nat /\ j \in Nat
    BY <1>3
  <2> QED
    BY <1>0, <1>3, <1>4, <1>5, <2>1
<1>6. pc = "request" /\ pc' = "request" /\ offset' = offset
  BY <1>1 DEF Edit
<1>7. ahead' \subseteq ahead
  <2> SUFFICES ASSUME NEW i \in DOMAIN feed', i > offset PROVE feed'[i].id \in ahead
    BY <1>6 DEF ahead
  <2>1. CASE i < k
    BY <1>3, <1>4, <1>6, <2>1 DEF ahead
  <2>2. CASE ~(i < k)
    <3>1. i + 1 \in DOMAIN feed /\ i + 1 > offset /\ feed'[i] = feed[i + 1]
      BY <1>0, <1>3, <1>4, <2>2
    <3> QED
      BY <1>6, <3>1 DEF ahead
  <2> QED
    BY <2>1, <2>2
<1>8. \E x : ahead \subseteq ahead' \cup {x}
  <2>1. ASSUME NEW i \in DOMAIN feed, i > offset, i # k, ~(k <= offset /\ i = offset + 1)
        PROVE  feed[i].id \in ahead'
    <3>1. CASE i < k
      <4>1. i \in DOMAIN feed' /\ feed'[i] = feed[i]
        BY <1>2, <1>3, <3>1
      <4> QED
        BY <1>6, <2>1, <4>1 DEF ahead
    <3>2. CASE i > k
      <4>1. i - 1 \in DOMAIN feed' /\ i - 1 > offset /\ ~(i - 1 < k) /\ (i - 1) + 1 = i
        BY <1>0, <1>3, <2>1, <3>2
      <4>2. feed'[i - 1] = feed[i]
        BY <1>2, <1>3, <4>1
      <4> QED
        BY <1>6, <4>1, <4>2 DEF ahead
    <3> QED
      BY <1>3, <2>1, <3>1, <3>2
  <2>2. \A b \in ahead : \E i \in DOMAIN feed : i > offset /\ feed[i].id = b
    BY <1>6, AheadMembers
  <2>3. CASE k > offset
    <3>1. ~(k <= offset)
      BY <1>0, <1>3, <2>3
    <3> WITNESS feed[k].id
    <3> QED
      BY <2>1, <2>2, <3>1
  <2>4. CASE ~(k > offset)
    <3>1. \A i \in DOMAIN feed : i > offset => i # k
      BY <2>4
    <3> WITNESS feed[offset + 1].id
    <3> QED
      BY <2>1, <2>2, <3>1
  <2> QED
    BY <2>3, <2>4
<1>9. PICK x : ahead \subseteq ahead' \cup {x}
  BY <1>8
<1>10. Len(feed) <= Len(feed') + 1
  BY <1>2, <1>3
<1> QED
  BY <1>1, <1>2, <1>5, <1>7, <1>9, <1>10, EditInv

LEMMA RelabelsInv == ASSUME IInv, Relabels PROVE IInv'
<1>0. feed \in Seq(Entry) /\ \A i, j \in DOMAIN feed : feed[i].id = feed[j].id => i = j
  BY DEF IInv, TypeOK, FeedInv
<1>1. PICK k \in DOMAIN feed : feed' = [feed EXCEPT ![k].tagged = ~@] /\ Edit("relabelled")
  BY DEF Relabels
<1> DEFINE e == [feed[k] EXCEPT !.tagged = ~@]
<1>2. k \in 1 .. Len(feed) /\ e \in Entry /\ e.id = feed[k].id
  <2>1. k \in 1 .. Len(feed) /\ feed[k] \in Entry
    BY <1>0, EntrySeq
  <2> QED
    BY <2>1 DEF Entry
<1>3. feed' = [feed EXCEPT ![k] = e]
  BY <1>1
<1> HIDE DEF e
<1>4. /\ feed' \in Seq(Entry) /\ Len(feed') = Len(feed)
      /\ \A j \in 1 .. Len(feed) : feed'[j] = IF j = k THEN e ELSE feed[j]
  BY <1>0, <1>2, <1>3, ExceptSeq
<1>5. DOMAIN feed = 1 .. Len(feed) /\ DOMAIN feed' = DOMAIN feed /\ Len(feed) \in Nat
  BY <1>0, <1>4, EntrySeq
<1>6. \A i \in DOMAIN feed : feed'[i].id = feed[i].id
  BY <1>2, <1>4, <1>5
<1>7. ahead' = ahead
  <2>1. pc = "request" /\ pc' = "request" /\ offset' = offset
    BY <1>1 DEF Edit
  <2> QED
    BY <1>5, <1>6, <2>1 DEF ahead
<1>8. Len(feed) <= Len(feed')
  BY <1>4, <1>5
<1>9. \A i, j \in DOMAIN feed' : feed'[i].id = feed'[j].id => i = j
  BY <1>0, <1>5, <1>6
<1> QED
  BY <1>1, <1>4, <1>5, <1>7, <1>8, <1>9, EditInv

LEMMA InvStep == IInv /\ [Next]_vars => IInv'
<1> SUFFICES ASSUME IInv, [Next]_vars PROVE IInv'
  OBVIOUS
<1>1. CASE Request
  BY <1>1, RequestInv
<1>2. CASE RequestFails
  BY <1>2, RequestFailsInv
<1>3. CASE Dispatch \/ PrintSummary
  BY <1>3, ChoiceInv
<1>4. CASE Enters
  BY <1>4, EntersInv
<1>5. CASE Leaves
  BY <1>5, LeavesInv
<1>6. CASE Relabels
  BY <1>6, RelabelsInv
<1>7. CASE UNCHANGED vars
  <2> USE <1>7 DEF vars, options, server, history
  <2>1. TypeOK' /\ FeedInv' /\ QuietInv'
    BY DEF IInv, TypeOK, FeedInv, QuietInv, selected, ToSet
  <2>2. filterBookmarksByLabel(all)' = filterBookmarksByLabel(all)
    BY DEF filterBookmarksByLabel, matchesLabelFilter
  <2>3. ahead' = ahead /\ seen' = seen /\ hidden' = hidden /\ repeated' = repeated
    BY <2>2 DEF ahead, seen, hidden, repeated
  <2>4. EnteringInv' /\ LeavingInv' /\ ChosenInv'
    BY <2>2, <2>3 DEF IInv, EnteringInv, LeavingInv, ChosenInv
  <2> QED
    BY <2>1, <2>4 DEF IInv
<1> QED
  BY <1>1, <1>2, <1>3, <1>4, <1>5, <1>6, <1>7 DEF Next, Program

-----------------------------------------------------------------------------
\* Whatever happens to the feed and to the requests, the inductive invariant holds.
THEOREM InvCorrect == Spec => []IInv
<1> QED
  BY InitInv, InvStep, PTL DEF Spec

\* An undisturbed feed is received exactly, and exactly its labelled entries are
\* downloaded or printed.
THEOREM QuietSelectionExactHolds == Spec => []QuietSelectionExact
<1>1. IInv => QuietSelectionExact
  <2> SUFFICES ASSUME IInv, pc = "done", changes = Unchanged
               PROVE  /\ all = IF limit = 0 THEN first ELSE upTo(limit, first)
                      /\ chosen = {i \in DOMAIN all : filter => all[i].tagged}
    BY DEF QuietSelectionExact
  <2>1. /\ feed \in Seq(Entry) /\ all \in Seq(Entry) /\ feed = first
        /\ \A i \in DOMAIN all : all[i] = feed[i]
        /\ Len(all) = IF limit > 0 /\ limit < Len(feed) THEN limit ELSE Len(feed)
        /\ Len(feed) \in Nat /\ DOMAIN all = 1 .. Len(all)
    BY EntrySeq DEF IInv, TypeOK, QuietInv
  <2>2. limit \in Nat
    BY ListBookmarksAssumption DEF IInv, TypeOK
  <2>3. chosen = {i \in DOMAIN all : filter => all[i].tagged}
    BY DEF IInv, ChosenInv, filterBookmarksByLabel, matchesLabelFilter
  <2>4. CASE limit = 0
    <3>1. Len(all) = Len(feed)
      BY <2>1, <2>2, <2>4
    <3>2. all = feed
      BY <2>1, <3>1, SeqEqual
    <3> QED
      BY <2>1, <2>4, <2>3, <3>2
  <2>5. CASE limit # 0
    <3>1. /\ upTo(limit, feed) \in Seq(Entry)
          /\ Len(upTo(limit, feed)) = IF limit < Len(feed) THEN limit ELSE Len(feed)
          /\ \A i \in 1 .. Len(upTo(limit, feed)) : upTo(limit, feed)[i] = feed[i]
      BY <2>1, <2>2, UpToElements
    <3>2. Len(all) = Len(upTo(limit, feed))
      BY <2>1, <2>2, <2>5, <3>1
    <3>3. all = upTo(limit, feed)
      BY <2>1, <3>1, <3>2, SeqEqual
    <3> QED
      BY <2>1, <2>5, <2>3, <3>3
  <2> QED
    BY <2>4, <2>5
<1> QED
  BY <1>1, InvCorrect, PTL

\* Without a limit no more of the bookmarks that are selected all along are missed than
\* bookmarks have left the feed.
THEOREM EnteringNeverHidesHolds == Spec => []EnteringNeverHides
<1>1. IInv => EnteringNeverHides
  <2> SUFFICES ASSUME IInv, pc = "done", limit = 0
               PROVE  Cardinality(stayed \ {all[i].id : i \in chosen}) <= changes.removed
    BY DEF EnteringNeverHides
  <2>1. stayed \ {all[i].id : i \in chosen} \subseteq hidden
    BY DEF IInv, ChosenInv, hidden, ahead
  <2>2. Cardinality(hidden) <= changes.removed /\ changes.removed \in Nat /\ IsFiniteSet(hidden)
    BY Finite DEF IInv, EnteringInv, TypeOK
  <2> QED
    BY <2>1, <2>2, FewerMembers
<1> QED
  BY <1>1, InvCorrect, PTL

\* No more bookmarks are listed twice than bookmarks have entered the feed.
THEOREM LeavingNeverRepeatsHolds == Spec => []LeavingNeverRepeats
<1>1. IInv => LeavingNeverRepeats
  <2> SUFFICES ASSUME IInv, pc = "done" PROVE Len(all) <= Cardinality(seen) + changes.added
    BY DEF LeavingNeverRepeats, seen
  <2> DEFINE once == DOMAIN all \ repeated
  <2>1. /\ IsFiniteSet(seen) /\ IsFiniteSet(repeated)
        /\ IsFiniteSet(DOMAIN all) /\ Cardinality(DOMAIN all) = Len(all)
        /\ all \in Seq(Entry) /\ DOMAIN all = 1 .. Len(all)
    BY Finite, EntrySeq DEF IInv, TypeOK
  <2>2. IsFiniteSet(once) /\ Cardinality(once) <= Cardinality(seen)
    <3>1. \A i \in once : all[i].id \in seen
      BY DEF seen
    <3>2. \A i, j \in once : ~(j < i /\ all[j].id = all[i].id)
      BY DEF repeated
    <3>3. \A i, j \in once : all[i].id = all[j].id => i = j
      BY <2>1, <3>2
    <3> HIDE DEF once
    <3>4. once \subseteq DOMAIN all
      BY DEF once
    <3> QED
      BY <2>1, <3>1, <3>3, <3>4, DistinctPlaces
  <2>3. Cardinality(DOMAIN all) = Cardinality(once) + Cardinality(repeated)
    <3>1. once \cap repeated = {} /\ once \cup repeated = DOMAIN all
      BY DEF repeated
    <3> HIDE DEF once
    <3>2. Cardinality(once \cup repeated) = Cardinality(once) + Cardinality(repeated)
      BY <2>1, <2>2, <3>1, Disjoint
    <3> QED
      BY <3>1, <3>2
  <2>4. Cardinality(repeated) <= changes.added /\ changes.added \in Nat
    <3>1. seen \cap ahead = {}
      BY DEF ahead
    <3>2. Cardinality(repeated) + 0 <= changes.added
      BY <3>1, FS_EmptySet DEF IInv, LeavingInv
    <3> QED
      BY <2>1, <3>2, FS_CardinalityType DEF IInv, TypeOK
  <2>5. Cardinality(once) \in Nat /\ Cardinality(repeated) \in Nat /\ Cardinality(seen) \in Nat
    BY <2>1, <2>2, FS_CardinalityType
  <2> HIDE DEF once
  <2> QED
    BY <2>1, <2>2, <2>3, <2>4, <2>5
<1> QED
  BY <1>1, InvCorrect, PTL

\* The failures of all downloads that are scheduled fit into their channel.
THEOREM FailuresFitHolds == Spec => []FailuresFit
<1>1. IInv => FailuresFit
  <2> SUFFICES ASSUME IInv, pc = "done", ~check PROVE Cardinality(chosen) <= capacity
    BY DEF FailuresFit
  <2>1. chosen \subseteq 1 .. Len(all) /\ capacity = Len(all) /\ Len(all) \in Nat
    BY EntrySeq DEF IInv, TypeOK, ChosenInv
  <2>2. IsFiniteSet(1 .. Len(all)) /\ Cardinality(1 .. Len(all)) = Len(all)
    <3>1. 1 \in Int /\ Len(all) \in Int
      BY <2>1
    <3>2. /\ IsFiniteSet(1 .. Len(all))
          /\ Cardinality(1 .. Len(all)) = IF 1 > Len(all) THEN 0 ELSE Len(all) - 1 + 1
      BY <3>1, FS_Interval, Zenon
    <3> QED
      BY <2>1, <3>2
  <2> QED
    BY <2>1, <2>2, FS_Subset
<1> QED
  BY <1>1, InvCorrect, PTL

-----------------------------------------------------------------------------
(* Why the listing ends, however often the feed changes: with each of its     *)
(* steps it is done, or in a later attempt, or further in the same, and there *)
(* are only so many attempts and, with the bookmarks there are, so many pages.*)

\* No page begins after the last bookmark there is: a page that is not the last was
\* full, and the server never lists a bookmark twice in it or in those before.
OffsetBounded == offset <= Cardinality(Ids)

\* A step of the listing asks for no page again in an attempt; users cannot set it back.
ListingAdvances ==
  [][/\ attempt' >= attempt /\ attempt' <= MaxAttempts
     /\ attempt' = attempt => offset' >= offset
     /\ Program => \/ pc = "request" /\ pc' # "request"
                   \/ pc = "select" /\ pc' = "done"
                   \/ attempt' > attempt
                   \/ attempt' = attempt /\ offset' > offset]_vars

\* A feed has no more entries than there are bookmarks.
LEMMA FeedFits == ASSUME TypeOK, FeedInv PROVE Len(feed) <= Cardinality(Ids)
<1>1. feed \in Seq(Entry) /\ Len(feed) \in Nat /\ DOMAIN feed = 1 .. Len(feed)
  BY EntrySeq DEF TypeOK
<1>2. \A i \in DOMAIN feed : feed[i].id \in Ids
  BY <1>1, EntrySeq DEF Entry
<1>3. Cardinality(DOMAIN feed) <= Cardinality(Ids)
  BY <1>1, <1>2, DistinctPlaces, ListBookmarksAssumption DEF FeedInv
<1>4. 1 \in Int /\ Len(feed) \in Int
  BY <1>1
<1>5. Cardinality(1 .. Len(feed)) = IF 1 > Len(feed) THEN 0 ELSE Len(feed) - 1 + 1
  BY <1>4, FS_Interval
<1> QED
  BY <1>1, <1>3, <1>5

\* The page asked for always begins where there may be bookmarks.
THEOREM OffsetBoundedHolds == Spec => []OffsetBounded
<1>1. Cardinality(Ids) \in Nat
  BY ListBookmarksAssumption, FS_CardinalityType
<1>2. Init => OffsetBounded
  BY <1>1 DEF Init, OffsetBounded
<1>3. ASSUME IInv, OffsetBounded, [Next]_vars PROVE OffsetBounded'
  <2>1. CASE Request
    <3>0. TypeOK
      BY <1>3 DEF IInv
    <3>1. offset' = offset \/ (offset' = offset + BatchSize /\ offset + BatchSize <= Len(feed))
      <4>1. \/ offset' = offset
            \/ /\ offset' = offset + BatchSize
               /\ Len(all') = offset + BatchSize /\ Len(all') <= Len(feed)
        BY <2>1, <3>0, RequestElements
      <4> QED
        BY <4>1
    <3>2. Len(feed) <= Cardinality(Ids) /\ Len(feed) \in Nat /\ offset \in Nat
      BY <1>3, FeedFits, EntrySeq DEF IInv, TypeOK
    <3> QED
      BY <1>1, <1>3, <3>1, <3>2, ListBookmarksAssumption DEF OffsetBounded
  <2>2. CASE offset' \in {0, offset}
    BY <1>1, <1>3, <2>2 DEF OffsetBounded
  <2>3. CASE RequestFails \/ Dispatch \/ PrintSummary
    BY <2>2, <2>3 DEF RequestFails, Dispatch, PrintSummary
  <2>4. CASE Enters \/ Leaves \/ Relabels
    BY <2>2, <2>4 DEF Enters, Leaves, Relabels, Edit
  <2>5. CASE UNCHANGED vars
    BY <2>2, <2>5 DEF vars
  <2> QED
    BY <1>3, <2>1, <2>3, <2>4, <2>5 DEF Next, Program
<1> QED
  BY <1>2, <1>3, InvCorrect, PTL DEF Spec

\* The listing goes forward only.
THEOREM ListingAdvancesHolds == Spec => ListingAdvances
<1> DEFINE Forward == /\ attempt' >= attempt /\ attempt' <= MaxAttempts
                      /\ attempt' = attempt => offset' >= offset
           Onward == \/ pc = "request" /\ pc' # "request"
                     \/ pc = "select" /\ pc' = "done"
                     \/ attempt' > attempt
                     \/ attempt' = attempt /\ offset' > offset
<1>1. ASSUME IInv, [Next]_vars PROVE [Forward /\ (Program => Onward)]_vars
  <2>1. /\ attempt \in 1 .. MaxAttempts /\ MaxAttempts \in Nat
        /\ offset \in Nat /\ BatchSize \in Nat /\ BatchSize > 0
    BY <1>1, ListBookmarksAssumption DEF IInv, TypeOK
  <2>2. CASE Request
    <3>1. pc = "request" /\ attempt' = attempt
      BY <2>2 DEF Request
    <3>2. offset' = offset + BatchSize \/ (offset' = offset /\ pc' = "select")
      BY <2>2 DEF Request
    <3> QED
      BY <2>1, <3>1, <3>2
  <2>3. CASE RequestFails
    <3>1. pc = "request"
      BY <2>3 DEF RequestFails
    <3>2. CASE attempt < attempts /\ attempt' = nextAttempt
      BY <2>1, <3>2 DEF nextAttempt, attempts
    <3>3. CASE pc' = "failed" /\ UNCHANGED <<attempt, offset>>
      BY <2>1, <3>1, <3>3
    <3> QED
      BY <2>3, <3>2, <3>3 DEF RequestFails
  <2>4. CASE Dispatch \/ PrintSummary
    BY <2>1, <2>4 DEF Dispatch, PrintSummary
  <2>5. CASE Enters \/ Leaves \/ Relabels
    <3>1. attempt' = attempt /\ offset' = offset /\ pc' = pc /\ edits' # edits
      BY <1>1, <2>5, ListBookmarksAssumption DEF Enters, Leaves, Relabels, Edit, IInv, TypeOK
    <3>2. ~Program
      BY <3>1 DEF Program, Request, RequestFails, Dispatch, PrintSummary, server
    <3> QED
      BY <2>1, <3>1, <3>2
  <2> QED
    BY <1>1, <2>2, <2>3, <2>4, <2>5 DEF Next, Program
<1> QED
  BY <1>1, InvCorrect, PTL DEF Spec, ListingAdvances
=============================================================================
