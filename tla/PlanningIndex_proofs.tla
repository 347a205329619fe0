------------------------ MODULE PlanningIndex_proofs ------------------------
(***************************************************************************)
(* Proofs about PlanningIndex, for any processes, sessions, plans and      *)
(* limits: type correctness, that the index is always normal and backed by *)
(* checkpoints, and that it loses nothing without a race.                  *)
(***************************************************************************)
EXTENDS PlanningIndex, Ordering_proofs

-----------------------------------------------------------------------------
(* Lists that are sorted, or taken from others.                            *)

\* place[n] is the position of the entry that comes in the nth place.
Places(place, entries, ahead) ==
  LET size == Cardinality(DOMAIN ahead)
  IN  /\ place \in [1 .. size -> DOMAIN ahead]
      /\ \A n \in 1 .. size : /\ Arranged(entries, ahead)[n] = entries[place[n]]
                              /\ Cardinality(ahead[place[n]]) = n - 1
      /\ \A i \in DOMAIN ahead : \E n \in 1 .. size : place[n] = i
      /\ \A m, n \in 1 .. size : m < n <=> place[m] \in ahead[place[n]]

LEMMA ArrangedPlaces ==
  ASSUME NEW S, NEW entries \in Seq(S), NEW ahead, Orders(ahead),
         DOMAIN ahead \subseteq DOMAIN entries
  PROVE  /\ Arranged(entries, ahead) \in Seq(S)
         /\ Len(Arranged(entries, ahead)) = Cardinality(DOMAIN ahead)
         /\ DOMAIN Arranged(entries, ahead) = 1 .. Cardinality(DOMAIN ahead)
         /\ \E place : Places(place, entries, ahead)
<1> DEFINE size == Cardinality(DOMAIN ahead)
           place == InOrder(ahead)
           list == Arranged(entries, ahead)
<1>1. /\ size \in Nat
      /\ place \in [1 .. size -> DOMAIN ahead]
      /\ \A n \in 1 .. size : Cardinality(ahead[place[n]]) = n - 1
      /\ \A i \in DOMAIN ahead : /\ Cardinality(ahead[i]) + 1 \in 1 .. size
                                 /\ place[Cardinality(ahead[i]) + 1] = i
      /\ \A m, n \in 1 .. size : m < n <=> place[m] \in ahead[place[n]]
  BY InOrderPlaces
<1>2. list = [n \in DOMAIN place |-> entries[place[n]]]
  BY DEF Arranged
<1> HIDE DEF place, list, size
<1>3. \A n \in 1 .. size : entries[place[n]] \in S
  BY <1>1, LenProperties
<1>4. list \in [1 .. size -> S] /\ \A n \in 1 .. size : list[n] = entries[place[n]]
  BY <1>1, <1>2, <1>3
<1>5. list \in Seq(S) /\ Len(list) = size /\ DOMAIN list = 1 .. size
  BY <1>1, <1>4
<1>6. Places(place, entries, ahead)
  BY <1>1, <1>4 DEF Places, size, list
<1> QED BY <1>5, <1>6 DEF size, list

\* What is arranged in the order it is in stays as it is.
LEMMA ArrangedInPlace ==
  ASSUME NEW S, NEW entries \in Seq(S), NEW ahead, DOMAIN ahead = DOMAIN entries,
         \A i \in DOMAIN entries : ahead[i] = 1 .. i - 1
  PROVE  Arranged(entries, ahead) = entries
<1>1. DOMAIN entries = 1 .. Len(entries) /\ Len(entries) \in Nat
  OBVIOUS
<1>2. IsFiniteSet(1 .. Len(entries)) /\ Cardinality(1 .. Len(entries)) = Len(entries)
  BY <1>1, CountTo
<1>3. Orders(ahead)
  BY <1>1, <1>2 DEF Orders
<1>4. PICK place : Places(place, entries, ahead)
  BY <1>3, ArrangedPlaces
<1>5. \A n \in 1 .. Len(entries) : place[n] = n
  <2> TAKE n \in 1 .. Len(entries)
  <2>1. place[n] \in 1 .. Len(entries) /\ Cardinality(ahead[place[n]]) = n - 1
    BY <1>1, <1>2, <1>4 DEF Places
  <2>2. Cardinality(1 .. place[n] - 1) = n - 1
    BY <1>1, <2>1
  <2>3. Cardinality(1 .. place[n] - 1) = place[n] - 1
    BY <1>1, <2>1, CountTo
  <2> QED BY <2>1, <2>2, <2>3
<1>6. /\ Arranged(entries, ahead) \in Seq(S)
      /\ Len(Arranged(entries, ahead)) = Len(entries)
  BY <1>1, <1>2, <1>3, ArrangedPlaces
<1>7. \A n \in 1 .. Len(entries) : Arranged(entries, ahead)[n] = entries[n]
  BY <1>1, <1>2, <1>4, <1>5 DEF Places
<1> QED BY <1>6, <1>7, SeqEqual


-----------------------------------------------------------------------------
(* The entries of an index.                                                *)

OnePerPlan(entries) ==
  \A i, j \in DOMAIN entries : entries[i].key = entries[j].key => i = j

Sorted(entries) ==
  \A i, j \in DOMAIN entries : i < j => entries[i].at >= entries[j].at

\* part has only entries of whole.
PartOf(part, whole) ==
  \A i \in DOMAIN part : \E j \in DOMAIN whole : part[i] = whole[j]

LEMMA MemberTime ==
  /\ \A e \in Entry : e.at \in Nat /\ e.key \in Keys /\ e.session \in Sessions
  /\ \A entries \in Seq(Entry) : \A i \in DOMAIN entries : entries[i] \in Entry
<1>1. \A e \in Entry : e.at \in Nat /\ e.key \in Keys /\ e.session \in Sessions
  BY IndexAssumption DEF Entry
<1>2. \A entries \in Seq(Entry) : \A i \in DOMAIN entries : entries[i] \in Entry
  OBVIOUS
<1> QED BY <1>1, <1>2

\* A list that is taken from another keeps its order, and has the entries at
\* the positions, and no others.
LEMMA ListedPlaces ==
  ASSUME NEW entries \in Seq(Entry), NEW positions \in SUBSET DOMAIN entries
  PROVE  \E place \in [1 .. Cardinality(positions) -> positions] :
           /\ Listed(entries, positions) \in Seq(Entry)
           /\ DOMAIN Listed(entries, positions) = 1 .. Cardinality(positions)
           /\ Len(Listed(entries, positions)) = Cardinality(positions)
           /\ Cardinality(positions) \in Nat
           /\ \A n \in 1 .. Cardinality(positions) :
                Listed(entries, positions)[n] = entries[place[n]]
           /\ \A i \in positions : \E n \in 1 .. Cardinality(positions) : place[n] = i
           /\ \A m, n \in 1 .. Cardinality(positions) : m < n <=> place[m] < place[n]
<1> DEFINE ahead == [i \in positions |-> {j \in positions : j < i}]
<1>1. DOMAIN entries = 1 .. Len(entries) /\ Len(entries) \in Nat
  OBVIOUS
<1>2. IsFiniteSet(positions)
  BY <1>1, CountTo, FS_Subset
<1>3. DOMAIN ahead = positions /\ DOMAIN ahead \subseteq DOMAIN entries
  OBVIOUS
<1>4. Orders(ahead)
  BY <1>1, <1>2 DEF Orders
<1>5. \A i, j \in positions : i \in ahead[j] <=> i < j
  OBVIOUS
<1>6. Listed(entries, positions) = Arranged(entries, ahead)
  BY DEF Listed
<1> HIDE DEF ahead
<1>7. PICK place : Places(place, entries, ahead)
  BY <1>3, <1>4, ArrangedPlaces
<1>8. /\ Arranged(entries, ahead) \in Seq(Entry)
      /\ Len(Arranged(entries, ahead)) = Cardinality(positions)
      /\ DOMAIN Arranged(entries, ahead) = 1 .. Cardinality(positions)
  BY <1>3, <1>4, ArrangedPlaces
<1>9. Cardinality(positions) \in Nat
  BY <1>2, FS_CardinalityType
<1>10. /\ place \in [1 .. Cardinality(positions) -> positions]
       /\ \A n \in 1 .. Cardinality(positions) :
            Arranged(entries, ahead)[n] = entries[place[n]]
       /\ \A i \in positions : \E n \in 1 .. Cardinality(positions) : place[n] = i
       /\ \A m, n \in 1 .. Cardinality(positions) : m < n <=> place[m] \in ahead[place[n]]
  BY <1>3, <1>7 DEF Places
<1>11. \A m, n \in 1 .. Cardinality(positions) : m < n <=> place[m] < place[n]
  BY <1>5, <1>10
<1> QED BY <1>6, <1>8, <1>9, <1>10, <1>11

LEMMA ListedEntries ==
  ASSUME NEW entries \in Seq(Entry), NEW positions \in SUBSET DOMAIN entries
  PROVE  /\ Listed(entries, positions) \in Seq(Entry)
         /\ Len(Listed(entries, positions)) <= Len(entries)
         /\ PartOf(Listed(entries, positions), entries)
         /\ \A n \in DOMAIN Listed(entries, positions) :
              \E i \in positions : Listed(entries, positions)[n] = entries[i]
         /\ \A i \in positions : \E n \in DOMAIN Listed(entries, positions) :
              Listed(entries, positions)[n] = entries[i]
         /\ OnePerPlan(entries) => OnePerPlan(Listed(entries, positions))
         /\ Sorted(entries) => Sorted(Listed(entries, positions))
<1>1. DOMAIN entries = 1 .. Len(entries) /\ Len(entries) \in Nat
  OBVIOUS
<1>2. IsFiniteSet(1 .. Len(entries)) /\ Cardinality(1 .. Len(entries)) = Len(entries)
  BY <1>1, CountTo
<1>3. Cardinality(positions) <= Len(entries)
  BY <1>1, <1>2, FS_Subset
<1>4. PICK place \in [1 .. Cardinality(positions) -> positions] :
           /\ Listed(entries, positions) \in Seq(Entry)
           /\ DOMAIN Listed(entries, positions) = 1 .. Cardinality(positions)
           /\ Len(Listed(entries, positions)) = Cardinality(positions)
           /\ Cardinality(positions) \in Nat
           /\ \A n \in 1 .. Cardinality(positions) :
                Listed(entries, positions)[n] = entries[place[n]]
           /\ \A i \in positions : \E n \in 1 .. Cardinality(positions) : place[n] = i
           /\ \A m, n \in 1 .. Cardinality(positions) : m < n <=> place[m] < place[n]
  BY ListedPlaces
<1> DEFINE list == Listed(entries, positions)
           size == Cardinality(positions)
<1>5. /\ DOMAIN list = 1 .. size /\ size \in Nat /\ Len(list) = size
      /\ place \in [1 .. size -> positions]
      /\ \A n \in 1 .. size : list[n] = entries[place[n]]
      /\ \A i \in positions : \E n \in 1 .. size : place[n] = i
      /\ \A m, n \in 1 .. size : m < n <=> place[m] < place[n]
  BY <1>4
<1> HIDE DEF list, size
<1>6. \A n \in DOMAIN list : \E i \in positions : list[n] = entries[i]
  BY <1>5
<1>7. ASSUME NEW i \in positions PROVE \E n \in DOMAIN list : list[n] = entries[i]
  <2>1. PICK n \in 1 .. size : place[n] = i
    BY <1>5
  <2>2. n \in DOMAIN list /\ list[n] = entries[i]
    BY <1>5, <2>1
  <2> QED BY <2>2
<1>8. PartOf(list, entries)
  BY <1>6 DEF PartOf
<1>9. ASSUME OnePerPlan(entries) PROVE OnePerPlan(list)
  <2> SUFFICES ASSUME NEW m \in 1 .. size, NEW n \in 1 .. size,
                      list[m].key = list[n].key
      PROVE  m = n
    BY <1>5 DEF OnePerPlan
  <2>1. /\ place[m] \in DOMAIN entries /\ place[n] \in DOMAIN entries
        /\ list[m] = entries[place[m]] /\ list[n] = entries[place[n]]
    BY <1>5
  <2>2. place[m] = place[n]
    BY <1>9, <2>1 DEF OnePerPlan
  <2>3. ~ (m < n) /\ ~ (n < m)
    BY <1>1, <1>5, <2>1, <2>2
  <2> QED BY <1>5, <2>3
<1>10. ASSUME Sorted(entries) PROVE Sorted(list)
  <2> SUFFICES ASSUME NEW m \in 1 .. size, NEW n \in 1 .. size, m < n
      PROVE  list[m].at >= list[n].at
    BY <1>5 DEF Sorted
  <2>1. /\ place[m] \in DOMAIN entries /\ place[n] \in DOMAIN entries
        /\ list[m] = entries[place[m]] /\ list[n] = entries[place[n]]
        /\ place[m] < place[n]
    BY <1>5
  <2> QED BY <1>10, <2>1 DEF Sorted
<1> QED BY <1>3, <1>4, <1>6, <1>7, <1>8, <1>9, <1>10 DEF list

\* The part of a list that is the whole list.
LEMMA ListedWhole ==
  ASSUME NEW entries \in Seq(Entry)
  PROVE  Listed(entries, DOMAIN entries) = entries
<1> DEFINE ahead == [i \in DOMAIN entries |-> {j \in DOMAIN entries : j < i}]
<1>1. DOMAIN entries = 1 .. Len(entries) /\ Len(entries) \in Nat
  OBVIOUS
<1>2. \A i \in DOMAIN entries : ahead[i] = 1 .. i - 1
  BY <1>1
<1>3. DOMAIN ahead = DOMAIN entries
  OBVIOUS
<1>4. Listed(entries, DOMAIN entries) = Arranged(entries, ahead)
  BY DEF Listed
<1> HIDE DEF ahead
<1> QED BY <1>2, <1>3, <1>4, ArrangedInPlace

LEMMA NewestFirstEntries ==
  ASSUME NEW entries \in Seq(Entry)
  PROVE  /\ NewestFirst(entries) \in Seq(Entry)
         /\ Len(NewestFirst(entries)) = Len(entries)
         /\ Sorted(NewestFirst(entries))
         /\ PartOf(NewestFirst(entries), entries)
         /\ PartOf(entries, NewestFirst(entries))
         /\ OnePerPlan(entries) => OnePerPlan(NewestFirst(entries))
         /\ Sorted(entries) => NewestFirst(entries) = entries
<1> DEFINE ahead == [i \in DOMAIN entries |->
                       {j \in DOMAIN entries : \/ entries[j].at > entries[i].at
                                               \/ entries[j].at = entries[i].at /\ j < i}]
           list == NewestFirst(entries)
           size == Len(entries)
<1>1. DOMAIN entries = 1 .. size /\ size \in Nat /\ DOMAIN ahead = 1 .. size
  OBVIOUS
<1>2. IsFiniteSet(1 .. size) /\ Cardinality(1 .. size) = size
  BY <1>1, CountTo
<1>3. \A i \in 1 .. size : entries[i] \in Entry /\ entries[i].at \in Nat
  BY <1>1, MemberTime, LenProperties
<1>4. Orders(ahead)
  <2>1. \A i, j \in 1 .. size : j \in ahead[i] <=> \/ entries[j].at > entries[i].at
                                                   \/ entries[j].at = entries[i].at /\ j < i
    BY <1>1
  <2>2. \A i \in 1 .. size : ahead[i] \subseteq 1 .. size
    BY <1>1
  <2> HIDE DEF ahead
  <2>3. \A i \in 1 .. size : i \notin ahead[i]
    BY <1>3, <2>1
  <2>4. \A i, j, k \in 1 .. size : i \in ahead[j] /\ k \in ahead[i] => k \in ahead[j]
    BY <1>3, <2>1
  <2>5. \A i, j \in 1 .. size : i = j \/ i \in ahead[j] \/ j \in ahead[i]
    BY <1>3, <2>1
  <2> QED BY <1>1, <1>2, <2>2, <2>3, <2>4, <2>5 DEF Orders
<1>5. list = Arranged(entries, ahead)
  BY DEF NewestFirst
<1>6. \A i, j \in 1 .. size : j \in ahead[i] => entries[j].at >= entries[i].at
  BY <1>1, <1>3
<1>7. ASSUME Sorted(entries) PROVE list = entries
  <2>1. \A i \in 1 .. size : ahead[i] = 1 .. i - 1
    BY <1>1, <1>3, <1>7 DEF Sorted
  <2> HIDE DEF ahead
  <2> QED BY <1>1, <1>5, <2>1, ArrangedInPlace
<1> HIDE DEF ahead
<1>8. PICK place : Places(place, entries, ahead)
  BY <1>1, <1>4, ArrangedPlaces
<1>9. list \in Seq(Entry) /\ Len(list) = size /\ DOMAIN list = 1 .. size
  BY <1>1, <1>2, <1>4, <1>5, ArrangedPlaces
<1>10. /\ place \in [1 .. size -> 1 .. size]
       /\ \A n \in 1 .. size : list[n] = entries[place[n]]
       /\ \A i \in 1 .. size : \E n \in 1 .. size : place[n] = i
       /\ \A m, n \in 1 .. size : m < n <=> place[m] \in ahead[place[n]]
  BY <1>1, <1>2, <1>5, <1>8 DEF Places
<1> HIDE DEF list
<1>11. Sorted(list)
  <2> SUFFICES ASSUME NEW m \in 1 .. size, NEW n \in 1 .. size, m < n
      PROVE  list[m].at >= list[n].at
    BY <1>9 DEF Sorted
  <2>1. /\ place[m] \in 1 .. size /\ place[n] \in 1 .. size
        /\ list[m] = entries[place[m]] /\ list[n] = entries[place[n]]
        /\ place[m] \in ahead[place[n]]
    BY <1>10
  <2> QED BY <1>6, <2>1
<1>12. PartOf(list, entries) /\ PartOf(entries, list)
  BY <1>1, <1>9, <1>10 DEF PartOf
<1>13. ASSUME OnePerPlan(entries) PROVE OnePerPlan(list)
  <2> SUFFICES ASSUME NEW m \in 1 .. size, NEW n \in 1 .. size,
                      list[m].key = list[n].key
      PROVE  m = n
    BY <1>9 DEF OnePerPlan
  <2>1. /\ place[m] \in DOMAIN entries /\ place[n] \in DOMAIN entries
        /\ list[m] = entries[place[m]] /\ list[n] = entries[place[n]]
    BY <1>1, <1>10
  <2>2. place[m] = place[n]
    BY <1>13, <2>1 DEF OnePerPlan
  <2>3. ~ (m < n) /\ ~ (n < m)
    BY <1>4, <1>1, <1>10, <2>2 DEF Orders
  <2> QED BY <1>1, <2>3
<1> QED BY <1>7, <1>9, <1>11, <1>12, <1>13 DEF list

LEMMA DeduplicatedSame ==
  ASSUME NEW entries \in Seq(Entry), OnePerPlan(entries)
  PROVE  Deduplicated(entries) = entries
<1>1. DOMAIN entries = 1 .. Len(entries) /\ Len(entries) \in Nat
  OBVIOUS
<1>2. {i \in DOMAIN entries : \A j \in 1 .. i - 1 : ~ SameSubject(entries[j], entries[i])}
        = DOMAIN entries
  BY <1>1 DEF OnePerPlan, SameSubject
<1> QED BY <1>2, ListedWhole DEF Deduplicated

LEMMA LimitedEntries ==
  ASSUME NEW entries \in Seq(Entry), NEW n \in Nat
  PROVE  /\ slice(entries, n) \in Seq(Entry)
         /\ Len(slice(entries, n)) <= n
         /\ Len(slice(entries, n)) <= Len(entries)
         /\ \A i \in DOMAIN slice(entries, n) :
              i \in DOMAIN entries /\ slice(entries, n)[i] = entries[i]
         /\ PartOf(slice(entries, n), entries)
         /\ OnePerPlan(entries) => OnePerPlan(slice(entries, n))
         /\ Sorted(entries) => Sorted(slice(entries, n))
         /\ Len(entries) <= n => slice(entries, n) = entries
<1> DEFINE list == slice(entries, n)
           size == least(n, Len(entries))
<1>1. /\ size \in Nat /\ size <= n /\ size <= Len(entries)
      /\ list \in Seq(Entry) /\ Len(list) = size /\ DOMAIN list = 1 .. size
      /\ \A i \in 1 .. size : i \in DOMAIN entries /\ list[i] = entries[i]
      /\ Len(entries) <= n => list = entries
  BY SliceIsBeginning
<1> HIDE DEF size, list
<1>2. \A i \in DOMAIN list : i \in DOMAIN entries /\ list[i] = entries[i]
  BY <1>1
<1>3. PartOf(list, entries)
  BY <1>2 DEF PartOf
<1>4. OnePerPlan(entries) => OnePerPlan(list)
  BY <1>2 DEF OnePerPlan
<1>5. Sorted(entries) => Sorted(list)
  BY <1>2 DEF Sorted
<1> QED BY <1>1, <1>2, <1>3, <1>4, <1>5 DEF list

\* Normalizing a list with one entry for each plan sorts and limits it.
LEMMA NormalizedEntries ==
  ASSUME NEW entries \in Seq(Entry), OnePerPlan(entries)
  PROVE  LET list == normalizePlanningArtifactEntries(entries)
         IN  /\ list = slice(NewestFirst(entries), RetentionLimit)
             /\ list \in Seq(Entry)
             /\ Len(list) <= RetentionLimit
             /\ OnePerPlan(list)
             /\ Sorted(list)
             /\ PartOf(list, entries)
<1>1. /\ NewestFirst(entries) \in Seq(Entry) /\ Sorted(NewestFirst(entries))
      /\ OnePerPlan(NewestFirst(entries)) /\ PartOf(NewestFirst(entries), entries)
  BY NewestFirstEntries
<1>2. normalizePlanningArtifactEntries(entries) = slice(NewestFirst(entries), RetentionLimit)
  BY <1>1, DeduplicatedSame DEF normalizePlanningArtifactEntries
<1>3. RetentionLimit \in Nat
  BY IndexAssumption
<1> DEFINE list == slice(NewestFirst(entries), RetentionLimit)
<1>4. /\ list \in Seq(Entry) /\ Len(list) <= RetentionLimit
      /\ OnePerPlan(list) /\ Sorted(list) /\ PartOf(list, NewestFirst(entries))
  BY <1>1, <1>3, LimitedEntries
<1>5. PartOf(list, entries)
  BY <1>1, <1>4 DEF PartOf
<1> QED BY <1>2, <1>4, <1>5


-----------------------------------------------------------------------------
(* Type correctness.                                                       *)

LEMMA NormalizedType ==
  ASSUME NEW entries \in Seq(Entry)
  PROVE  normalizePlanningArtifactEntries(entries) \in Seq(Entry)
<1>1. NewestFirst(entries) \in Seq(Entry)
  BY NewestFirstEntries
<1> DEFINE list == NewestFirst(entries)
<1> HIDE DEF list
<1>2. Deduplicated(list) \in Seq(Entry)
  BY <1>1, ListedEntries DEF Deduplicated, list
<1>3. RetentionLimit \in Nat
  BY IndexAssumption
<1> QED BY <1>2, <1>3, LimitedEntries DEF normalizePlanningArtifactEntries, list

LEMMA OfOtherPlansEntries ==
  ASSUME NEW entries \in Seq(Entry), NEW key
  PROVE  LET other == OfOtherPlans(entries, key)
         IN  /\ other \in Seq(Entry)
             /\ Len(other) <= Len(entries)
             /\ PartOf(other, entries)
             /\ \A n \in DOMAIN other : other[n].key # key
             /\ OnePerPlan(entries) => OnePerPlan(other)
             /\ Sorted(entries) => Sorted(other)
<1> DEFINE positions == {i \in DOMAIN entries : entries[i].key # key}
<1>1. OfOtherPlans(entries, key) = Listed(entries, positions)
  BY DEF OfOtherPlans
<1>2. positions \in SUBSET DOMAIN entries /\ \A i \in positions : entries[i].key # key
  OBVIOUS
<1> HIDE DEF positions
<1> QED BY <1>1, <1>2, ListedEntries

LEMMA IndexWithType ==
  ASSUME NEW entries \in Seq(Entry), NEW e \in Entry
  PROVE  IndexWith(e, entries) \in Seq(Entry)
<1>1. OfOtherPlans(entries, e.key) \in Seq(Entry)
  BY OfOtherPlansEntries
<1>2. <<e>> \o OfOtherPlans(entries, e.key) \in Seq(Entry)
  BY <1>1
<1> QED BY <1>2, NormalizedType DEF IndexWith

LEMMA IndexWithoutType ==
  ASSUME NEW entries \in Seq(Entry), NEW key, NEW stale
  PROVE  IndexWithout(key, stale, entries) \in Seq(Entry)
<1> DEFINE positions == {i \in DOMAIN entries : entries[i].key = key =>
                                                  entries[i].session \notin stale}
<1>1. Listed(entries, positions) \in Seq(Entry)
  BY ListedEntries
<1> QED BY <1>1, NormalizedType DEF IndexWithout

LEMMA MatchesType ==
  ASSUME NEW entries \in Seq(Entry), NEW key
  PROVE  Matches(entries, key) \in Seq(Entry)
<1>1. Listed(entries, {i \in DOMAIN entries : entries[i].key = key}) \in Seq(Entry)
  BY ListedEntries
<1> QED BY <1>1, NewestFirstEntries DEF Matches

LEMMA InsertedType ==
  ASSUME NEW entries \in Seq(Entry), NEW e \in Entry
  PROVE  Inserted(e, entries) \in Seq(Entry)
<1> DEFINE newer == {i \in DOMAIN entries : entries[i].at > e.at}
           n == Cardinality(newer)
<1>1. DOMAIN entries = 1 .. Len(entries) /\ Len(entries) \in Nat
  OBVIOUS
<1>2. IsFiniteSet(1 .. Len(entries)) /\ Cardinality(1 .. Len(entries)) = Len(entries)
  BY <1>1, CountTo
<1>3. IsFiniteSet(newer) /\ n <= Len(entries)
  BY <1>1, <1>2, FS_Subset
<1>4. n \in Nat
  BY <1>3, FS_CardinalityType
<1>5. Inserted(e, entries) = SubSeq(entries, 1, n) \o <<e>> \o SubSeq(entries, n + 1, Len(entries))
  BY DEF Inserted
<1> HIDE DEF n
<1>6. \A i \in 1 .. Len(entries) : entries[i] \in Entry
  BY LenProperties
<1>7. SubSeq(entries, 1, n) \in Seq(Entry)
  BY <1>1, <1>3, <1>4, <1>6, SubSeqProperties
<1>8. SubSeq(entries, n + 1, Len(entries)) \in Seq(Entry)
  BY <1>1, <1>3, <1>4, <1>6, SubSeqProperties
<1> QED BY <1>5, <1>7, <1>8

\* What TypeOK says of a call.
WellFormed(c) ==
  /\ c \in Call
  /\ c.op = "save" <=> c.entry \in Entry
  /\ c.pc \in {"empty file", "fill file"} => c.op = "save"
  /\ c.pc = "load" => c.op = "lookup" /\ c.left # <<>>
  /\ c.op = "lookup" /\ c.pc \in {"empty index", "fill index"} =>
       c.left = <<>> /\ c.stale # {}

LEMMA CallsWellFormed ==
  TypeOK <=> /\ files \in [FileNames -> Entry \cup {NoCheckpoint}]
             /\ index \in Seq(Entry)
             /\ call \in [Processes -> Call \cup {NoCall}]
             /\ \A p \in Processes : call[p] # NoCall => WellFormed(call[p])
             /\ now \in 0 .. MaxTime
             /\ calls \in 0 .. MaxCalls
             /\ written \subseteq Entry
             /\ kept \in Seq(Entry)
             /\ exposed \in BOOLEAN
BY DEF TypeOK, WellFormed

\* The calls that a step makes of a call.
LEMMA SaveCall ==
  ASSUME NEW e \in Entry
  PROVE  WellFormed([op |-> "save", pc |-> "empty file", entry |-> e, read |-> <<>>,
                     left |-> <<>>, stale |-> {}, overtaken |-> FALSE])
<1>1. <<>> \in Seq(Entry)
  OBVIOUS
<1> QED BY <1>1 DEF WellFormed, Call

LEMMA LookupCall ==
  ASSUME NEW key \in Keys
  PROVE  WellFormed([op |-> "lookup", pc |-> "read", entry |-> [key |-> key], read |-> <<>>,
                     left |-> <<>>, stale |-> {}, overtaken |-> FALSE])
<1>1. <<>> \in Seq(Entry)
  OBVIOUS
<1>2. [key |-> key] \notin Entry
  <2>1. \A e \in Entry : DOMAIN e = {"key", "session", "at"}
    BY DEF Entry
  <2>2. DOMAIN [key |-> key] = {"key"}
    OBVIOUS
  <2>3. "at" \in {"key", "session", "at"} /\ "at" \notin {"key"}
    OBVIOUS
  <2> QED BY <2>1, <2>2, <2>3
<1> QED BY <1>1, <1>2 DEF WellFormed, Call

LEMMA CallFields ==
  ASSUME NEW c \in Call
  PROVE  /\ c.op \in {"save", "lookup"}
         /\ c.pc \in {"empty file", "fill file", "read", "load", "empty index", "fill index"}
         /\ c.entry \in Entry \cup [key : Keys]
         /\ c.read \in Seq(Entry) /\ c.left \in Seq(Entry)
         /\ c.stale \subseteq Sessions /\ c.overtaken \in BOOLEAN
BY DEF Call

LEMMA MovedCall ==
  ASSUME NEW c, WellFormed(c)
  PROVE  /\ c.pc = "empty file" => WellFormed([c EXCEPT !.pc = "fill file"])
         /\ c.pc = "fill file" => WellFormed([c EXCEPT !.pc = "read"])
         /\ c.pc = "empty index" => WellFormed([c EXCEPT !.pc = "fill index"])
         /\ \A o \in BOOLEAN : WellFormed([c EXCEPT !.overtaken = o])
         /\ \A entries \in Seq(Entry) :
              /\ c.op = "save" => WellFormed([c EXCEPT !.pc = "empty index", !.read = entries])
              /\ \A found \in Seq(Entry) :
                   (c.op = "lookup" /\ found # <<>>) =>
                     WellFormed([c EXCEPT !.pc = "load", !.left = found, !.read = entries])
         /\ (c.pc = "load" /\ c.stale # {}) =>
              WellFormed([c EXCEPT !.pc = "empty index", !.left = <<>>])
<1>1. ASSUME c.pc = "empty file" PROVE WellFormed([c EXCEPT !.pc = "fill file"])
  BY <1>1 DEF WellFormed, Call
<1>2. ASSUME c.pc = "fill file" PROVE WellFormed([c EXCEPT !.pc = "read"])
  BY <1>2 DEF WellFormed, Call
<1>3. ASSUME c.pc = "empty index" PROVE WellFormed([c EXCEPT !.pc = "fill index"])
  BY <1>3 DEF WellFormed, Call
<1>4. ASSUME NEW o \in BOOLEAN PROVE WellFormed([c EXCEPT !.overtaken = o])
  BY DEF WellFormed, Call
<1>5. ASSUME NEW entries \in Seq(Entry), c.op = "save"
      PROVE  WellFormed([c EXCEPT !.pc = "empty index", !.read = entries])
  BY <1>5 DEF WellFormed, Call
<1>6. ASSUME NEW entries \in Seq(Entry), NEW found \in Seq(Entry), c.op = "lookup", found # <<>>
      PROVE  WellFormed([c EXCEPT !.pc = "load", !.left = found, !.read = entries])
  BY <1>6 DEF WellFormed, Call
<1>7. ASSUME c.pc = "load", c.stale # {}
      PROVE  WellFormed([c EXCEPT !.pc = "empty index", !.left = <<>>])
  <2>1. <<>> \in Seq(Entry)
    OBVIOUS
  <2> QED BY <1>7, <2>1 DEF WellFormed, Call
<1> QED BY <1>1, <1>2, <1>3, <1>4, <1>5, <1>6, <1>7

LEMMA StaleCall ==
  ASSUME NEW c, WellFormed(c), c.pc = "load"
  PROVE  WellFormed([c EXCEPT !.stale = c.stale \cup {Head(c.left).session},
                              !.left = Tail(c.left),
                              !.pc = IF Len(c.left) = 1 THEN "empty index" ELSE "load"])
<1>1. c.op = "lookup" /\ c.left \in Seq(Entry) /\ c.left # <<>> /\ c \in Call
  BY DEF WellFormed, Call
<1>2. /\ Head(c.left) \in Entry /\ Tail(c.left) \in Seq(Entry)
      /\ Len(Tail(c.left)) = Len(c.left) - 1
  BY <1>1, HeadTailProperties
<1>3. Len(c.left) # 1 <=> Tail(c.left) # <<>>
  <2>1. \A s \in Seq(Entry) : Len(s) \in Nat /\ (s = <<>> <=> Len(s) = 0)
    BY EmptySeq, LenProperties
  <2> DEFINE rest == Tail(c.left)
             list == c.left
  <2>2. rest \in Seq(Entry) /\ Len(rest) = Len(list) - 1 /\ Len(list) \in Nat
    BY <1>1, <1>2, <2>1
  <2> HIDE DEF rest, list
  <2>3. rest = <<>> <=> Len(rest) = 0
    BY <2>1, <2>2
  <2>4. Len(list) = 1 <=> Len(rest) = 0
    BY <2>2
  <2> QED BY <2>3, <2>4 DEF rest, list
<1>4. c.stale \cup {Head(c.left).session} \in SUBSET Sessions
  BY <1>1, <1>2, MemberTime DEF Call
<1> DEFINE stale == c.stale \cup {Head(c.left).session}
           left == Tail(c.left)
           pc == IF Len(c.left) = 1 THEN "empty index" ELSE "load"
<1>5. stale # {} /\ stale \in SUBSET Sessions /\ left \in Seq(Entry)
      /\ \/ pc = "empty index" /\ left = <<>>
         \/ pc = "load" /\ left # <<>>
  BY <1>2, <1>3, <1>4
<1> HIDE DEF stale, left, pc
<1>6. WellFormed([c EXCEPT !.stale = stale, !.left = left, !.pc = pc])
  BY <1>1, <1>5 DEF WellFormed, Call
<1> QED BY <1>6 DEF stale, left, pc


LEMMA TypeInit == Init => TypeOK
<1> SUFFICES ASSUME Init PROVE TypeOK
  OBVIOUS
<1>1. 0 \in 0 .. MaxTime /\ 0 \in 0 .. MaxCalls /\ <<>> \in Seq(Entry)
  BY IndexAssumption
<1> QED BY <1>1 DEF Init, TypeOK

\* A step that changes the call of one process.
LEMMA OneCall ==
  ASSUME TypeOK, NEW p \in Processes, NEW c,
         c = NoCall \/ WellFormed(c), call' = [call EXCEPT ![p] = c]
  PROVE  /\ call' \in [Processes -> Call \cup {NoCall}]
         /\ \A q \in Processes : call'[q] # NoCall => WellFormed(call'[q])
<1>1. c \in Call \cup {NoCall}
  BY DEF WellFormed
<1>2. call \in [Processes -> Call \cup {NoCall}]
      /\ \A q \in Processes : call[q] # NoCall => WellFormed(call[q])
  BY CallsWellFormed
<1> QED BY <1>1, <1>2

LEMMA TypeStep == TypeOK /\ [Next]_vars => TypeOK'
<1> SUFFICES ASSUME TypeOK, [Next]_vars PROVE TypeOK'
  OBVIOUS
<1> DEFINE CallsOK == /\ call' \in [Processes -> Call \cup {NoCall}]
                      /\ \A q \in Processes : call'[q] # NoCall => WellFormed(call'[q])
<1> USE CallsWellFormed
<1>1. /\ files \in [FileNames -> Entry \cup {NoCheckpoint}]
      /\ index \in Seq(Entry)
      /\ call \in [Processes -> Call \cup {NoCall}]
      /\ \A p \in Processes : call[p] # NoCall => WellFormed(call[p])
      /\ now \in 0 .. MaxTime /\ calls \in 0 .. MaxCalls
      /\ written \subseteq Entry /\ kept \in Seq(Entry) /\ exposed \in BOOLEAN
  OBVIOUS
<1>2. readPlanningArtifactIndex \in Seq(Entry)
  BY <1>1, NormalizedType DEF readPlanningArtifactIndex
<1>3. SUFFICES /\ files' \in [FileNames -> Entry \cup {NoCheckpoint}]
               /\ index' \in Seq(Entry)
               /\ CallsOK
               /\ now' \in 0 .. MaxTime
               /\ calls' \in 0 .. MaxCalls
               /\ written' \subseteq Entry
               /\ kept' \in Seq(Entry)
               /\ exposed' \in BOOLEAN
  BY DEF TypeOK, WellFormed
<1> DEFINE Goal == /\ files' \in [FileNames -> Entry \cup {NoCheckpoint}]
                   /\ index' \in Seq(Entry)
                   /\ CallsOK
                   /\ now' \in 0 .. MaxTime
                   /\ calls' \in 0 .. MaxCalls
                   /\ written' \subseteq Entry
                   /\ kept' \in Seq(Entry)
                   /\ exposed' \in BOOLEAN
<1>4. ASSUME UNCHANGED call PROVE CallsOK
  BY <1>1, <1>4
<1>5. ASSUME NEW p \in Processes, NEW c, c = NoCall \/ WellFormed(c),
             call' = [call EXCEPT ![p] = c]
      PROVE  CallsOK
  BY <1>5, OneCall
<1> HIDE DEF CallsOK
<1>6. ASSUME NEW p \in Processes, NEW c, WellFormed(c), calls < MaxCalls,
             call' = [call EXCEPT ![p] = c], calls' = calls + 1,
             UNCHANGED <<files, index, now, written, kept, exposed>>
      PROVE  Goal
  <2>1. calls' \in 0 .. MaxCalls
    BY <1>1, <1>6, IndexAssumption
  <2> QED BY <1>1, <1>5, <1>6, <2>1
<1>7. ASSUME NEW p \in Processes, BeginSave(p) PROVE Goal
  <2>1. PICK key \in Keys, session \in Sessions :
          Begin(p, "save", "empty file", [key |-> key, session |-> session, at |-> now])
    BY <1>7 DEF BeginSave
  <2> DEFINE e == [key |-> key, session |-> session, at |-> now]
             c == [op |-> "save", pc |-> "empty file", entry |-> e, read |-> <<>>,
                   left |-> <<>>, stale |-> {}, overtaken |-> FALSE]
  <2>2. e \in Entry
    BY <1>1 DEF Entry
  <2>3. WellFormed(c)
    <3> HIDE DEF e
    <3> QED BY <2>2, SaveCall
  <2>4. /\ calls < MaxCalls /\ call' = [call EXCEPT ![p] = c] /\ calls' = calls + 1
        /\ UNCHANGED <<files, index, now, written, kept, exposed>>
    BY <2>1 DEF Begin
  <2> HIDE DEF c
  <2> QED BY <1>6, <2>3, <2>4
<1>8. ASSUME NEW p \in Processes, BeginLookup(p) PROVE Goal
  <2>1. PICK key \in Keys : Begin(p, "lookup", "read", [key |-> key])
    BY <1>8 DEF BeginLookup
  <2> DEFINE c == [op |-> "lookup", pc |-> "read", entry |-> [key |-> key], read |-> <<>>,
                   left |-> <<>>, stale |-> {}, overtaken |-> FALSE]
  <2>2. WellFormed(c)
    BY LookupCall
  <2>3. /\ calls < MaxCalls /\ call' = [call EXCEPT ![p] = c] /\ calls' = calls + 1
        /\ UNCHANGED <<files, index, now, written, kept, exposed>>
    BY <2>1 DEF Begin
  <2> HIDE DEF c
  <2> QED BY <1>6, <2>2, <2>3
<1>9. ASSUME NEW p \in Processes, NEW pc, At(p, pc)
      PROVE  call[p] # NoCall /\ WellFormed(call[p]) /\ call[p].pc = pc
  BY <1>1, <1>9 DEF At
<1>10. ASSUME NEW p \in Processes, At(p, "empty file") \/ At(p, "fill file")
       PROVE  call[p].entry \in Entry
  BY <1>9, <1>10 DEF WellFormed
<1>11. ASSUME NEW p \in Processes, EmptyFile(p) PROVE Goal
  <2>1. WellFormed([call[p] EXCEPT !.pc = "fill file"])
    BY <1>9, <1>11, MovedCall DEF EmptyFile
  <2> QED BY <1>1, <1>5, <1>11, <2>1 DEF EmptyFile
<1>12. ASSUME NEW p \in Processes, FillFile(p) PROVE Goal
  <2>1. WellFormed([call[p] EXCEPT !.pc = "read"])
    BY <1>9, <1>12, MovedCall DEF FillFile
  <2>2. call[p].entry \in Entry
    BY <1>10, <1>12 DEF FillFile
  <2> QED BY <1>1, <1>5, <1>12, <2>1, <2>2 DEF FillFile
<1>13. ASSUME NEW p \in Processes, ReadIndexToSave(p) PROVE Goal
  <2>1. WellFormed([call[p] EXCEPT !.pc = "empty index", !.read = readPlanningArtifactIndex])
    BY <1>2, <1>9, <1>13, MovedCall DEF ReadIndexToSave
  <2>2. exposed' \in BOOLEAN
    BY <1>13 DEF ReadIndexToSave
  <2> QED BY <1>1, <1>5, <1>13, <2>1, <2>2 DEF ReadIndexToSave
<1>14. ASSUME NEW p \in Processes, ReadIndexToLookUp(p) PROVE Goal
  <2> DEFINE found == Matches(readPlanningArtifactIndex, call[p].entry.key)
             c == IF found = <<>> THEN NoCall
                  ELSE [call[p] EXCEPT !.pc = "load", !.left = found,
                                       !.read = readPlanningArtifactIndex]
  <2>1. found \in Seq(Entry)
    BY <1>2, MatchesType
  <2>2. call' = [call EXCEPT ![p] = c]
    BY <1>14 DEF ReadIndexToLookUp
  <2>3. call[p].op = "lookup" /\ WellFormed(call[p])
    BY <1>9, <1>14 DEF ReadIndexToLookUp
  <2>4. c = NoCall \/ WellFormed(c)
    <3> HIDE DEF found
    <3> QED BY <1>2, <2>1, <2>3, MovedCall
  <2> HIDE DEF c
  <2> QED BY <1>1, <1>5, <1>14, <2>2, <2>4 DEF ReadIndexToLookUp
<1>15. ASSUME NEW p \in Processes, LoadUsable(p) PROVE Goal
  <2> DEFINE c == IF call[p].stale = {} THEN NoCall
                  ELSE [call[p] EXCEPT !.pc = "empty index", !.left = <<>>]
  <2>1. call' = [call EXCEPT ![p] = c]
    BY <1>15 DEF LoadUsable
  <2>2. c = NoCall \/ WellFormed(c)
    BY <1>9, <1>15, MovedCall DEF LoadUsable
  <2> HIDE DEF c
  <2> QED BY <1>1, <1>5, <1>15, <2>1, <2>2 DEF LoadUsable
<1>16. ASSUME NEW p \in Processes, LoadStale(p) PROVE Goal
  <2> DEFINE c == [call[p] EXCEPT
                     !.stale = call[p].stale \cup {Head(call[p].left).session},
                     !.left = Tail(call[p].left),
                     !.pc = IF Len(call[p].left) = 1 THEN "empty index" ELSE "load"]
  <2>1. call' = [call EXCEPT ![p] = c]
    BY <1>16 DEF LoadStale
  <2>2. WellFormed(c)
    BY <1>9, <1>16, StaleCall DEF LoadStale
  <2> HIDE DEF c
  <2> QED BY <1>1, <1>5, <1>16, <2>1, <2>2 DEF LoadStale
<1>17. ASSUME NEW p \in Processes, EmptyIndex(p) PROVE Goal
  <2> DEFINE over(q) == call[q].overtaken \/ call[q].pc \in {"load", "empty index"}
             c(q) == IF q = p THEN [call[p] EXCEPT !.pc = "fill index"]
                     ELSE IF call[q] = NoCall THEN NoCall
                     ELSE [call[q] EXCEPT !.overtaken = over(q)]
  <2>1. call' = [q \in Processes |-> c(q)]
    BY <1>17 DEF EmptyIndex
  <2>2. WellFormed([call[p] EXCEPT !.pc = "fill index"])
    BY <1>9, <1>17, MovedCall DEF EmptyIndex
  <2>3. ASSUME NEW q \in Processes, q # p PROVE c(q) = NoCall \/ WellFormed(c(q))
    <3>1. over(q) \in BOOLEAN
      <4>1. CASE call[q] = NoCall
        BY <4>1
      <4>2. CASE call[q] # NoCall
        BY <1>1, <4>2, CallFields DEF WellFormed
      <4> QED BY <4>1, <4>2
    <3> HIDE DEF over
    <3> QED BY <1>1, <2>3, <3>1, MovedCall
  <2>4. \A q \in Processes : c(q) = NoCall \/ WellFormed(c(q))
    BY <2>2, <2>3
  <2> HIDE DEF c
  <2>5. CallsOK
    BY <2>1, <2>4 DEF CallsOK, WellFormed
  <2>6. exposed' \in BOOLEAN
    <3>1. exposed' = (exposed \/ call[p].overtaken)
      BY <1>17 DEF EmptyIndex
    <3> QED BY <3>1
  <2>7. <<>> \in Seq(Entry)
    OBVIOUS
  <2> QED BY <1>1, <1>17, <2>5, <2>6, <2>7 DEF EmptyIndex
<1>18. ASSUME NEW p \in Processes, FillIndex(p) PROVE Goal
  <2>1. WellFormed(call[p])
    BY <1>9, <1>18 DEF FillIndex
  <2>2. /\ call[p].op \in {"save", "lookup"} /\ call[p].read \in Seq(Entry)
        /\ call[p].op = "save" => call[p].entry \in Entry
    BY <2>1, CallFields DEF WellFormed
  <2>3. index' \in Seq(Entry)
    <3>1. CASE call[p].op = "save"
      <4>1. index' = IndexWith(call[p].entry, call[p].read)
        BY <1>18, <3>1 DEF FillIndex
      <4> QED BY <2>2, <3>1, <4>1, IndexWithType
    <3>2. CASE call[p].op # "save"
      <4>1. index' = IndexWithout(call[p].entry.key, call[p].stale, call[p].read)
        BY <1>18, <3>2 DEF FillIndex
      <4> QED BY <2>2, <4>1, IndexWithoutType
    <3> QED BY <3>1, <3>2
  <2>4. kept' \in Seq(Entry)
    <3> DEFINE other == OfOtherPlans(kept, call[p].entry.key)
    <3>1. other \in Seq(Entry)
      BY <1>1, OfOtherPlansEntries
    <3>2. kept' = IF call[p].op = "lookup" THEN other
                  ELSE slice(Inserted(call[p].entry, other), RetentionLimit)
      BY <1>18 DEF FillIndex, KeptAfter
    <3> HIDE DEF other
    <3>3. RetentionLimit \in Nat
      BY IndexAssumption
    <3>4. ASSUME call[p].op # "lookup"
          PROVE  slice(Inserted(call[p].entry, other), RetentionLimit) \in Seq(Entry)
      <4>1. Inserted(call[p].entry, other) \in Seq(Entry)
        BY <2>2, <3>1, <3>4, InsertedType
      <4> QED BY <3>3, <4>1, LimitedEntries
    <3> QED BY <3>1, <3>2, <3>4
  <2>5. CallsOK
    BY <1>5, <1>18 DEF FillIndex
  <2> QED BY <1>1, <1>18, <2>3, <2>4, <2>5 DEF FillIndex
<1>19. ASSUME NEW p \in Processes, Interrupt(p) PROVE Goal
  <2>1. CallsOK
    BY <1>5, <1>19 DEF Interrupt
  <2>2. exposed' \in BOOLEAN
    BY <1>19 DEF Interrupt
  <2> QED BY <1>1, <1>19, <2>1, <2>2 DEF Interrupt
<1>20. ASSUME Tick PROVE Goal
  <2>1. now' \in 0 .. MaxTime
    BY <1>1, <1>20, IndexAssumption DEF Tick
  <2> QED BY <1>1, <1>4, <1>20, <2>1 DEF Tick
<1>21. CASE UNCHANGED vars
  BY <1>1, <1>4, <1>21 DEF vars
<1> QED
  BY <1>7, <1>8, <1>11, <1>12, <1>13, <1>14, <1>15, <1>16, <1>17, <1>18, <1>19, <1>20, <1>21
     DEF Next

\* Every reachable state is well typed: in particular a call that looks a plan
\* up writes the index only when it has found a stale entry in it, and has
\* then none left to load.
THEOREM IndexTypeCorrect == Spec => []TypeOK
BY TypeInit, TypeStep, PTL DEF Spec


-----------------------------------------------------------------------------
(* The index is always sound. It is so because a call only ever holds a     *)
(* list that was read from a sound index, and reaches for the index only    *)
(* when its own checkpoint has been written.                                *)

SoundList(entries, backed) ==
  /\ entries \in Seq(Entry)
  /\ OnePerPlan(entries)
  /\ Sorted(entries)
  /\ Len(entries) <= RetentionLimit
  /\ \A i \in DOMAIN entries : entries[i] \in backed

SoundCall(c, backed) ==
  /\ SoundList(c.read, backed)
  /\ (c.op = "save" /\ c.pc \notin {"empty file", "fill file"}) => c.entry \in backed

Sound ==
  /\ TypeOK
  /\ SoundList(index, written)
  /\ \A p \in Processes : call[p] # NoCall => SoundCall(call[p], written)

LEMMA EmptyIsSound == \A backed : SoundList(<<>>, backed)
BY IndexAssumption DEF SoundList, OnePerPlan, Sorted

LEMMA SoundGrows ==
  ASSUME NEW small, NEW large, small \subseteq large
  PROVE  /\ \A entries : SoundList(entries, small) => SoundList(entries, large)
         /\ \A c : SoundCall(c, small) => SoundCall(c, large)
BY DEF SoundList, SoundCall

\* Reading a sound index changes nothing about it.
LEMMA SoundIsNormal ==
  ASSUME NEW entries, NEW backed, SoundList(entries, backed)
  PROVE  normalizePlanningArtifactEntries(entries) = entries
<1>1. /\ entries \in Seq(Entry) /\ OnePerPlan(entries) /\ Sorted(entries)
      /\ Len(entries) <= RetentionLimit /\ RetentionLimit \in Nat
  BY IndexAssumption DEF SoundList
<1>2. normalizePlanningArtifactEntries(entries) = slice(NewestFirst(entries), RetentionLimit)
  BY <1>1, NormalizedEntries
<1>3. NewestFirst(entries) = entries
  BY <1>1, NewestFirstEntries
<1> QED BY <1>1, <1>2, <1>3, LimitedEntries

LEMMA NormalizedIsSound ==
  ASSUME NEW entries \in Seq(Entry), NEW backed, OnePerPlan(entries),
         \A i \in DOMAIN entries : entries[i] \in backed
  PROVE  SoundList(normalizePlanningArtifactEntries(entries), backed)
<1> DEFINE list == normalizePlanningArtifactEntries(entries)
<1>1. /\ list \in Seq(Entry) /\ Len(list) <= RetentionLimit
      /\ OnePerPlan(list) /\ Sorted(list) /\ PartOf(list, entries)
  BY NormalizedEntries
<1> HIDE DEF list
<1>2. \A i \in DOMAIN list : list[i] \in backed
  BY <1>1 DEF PartOf
<1> QED BY <1>1, <1>2 DEF SoundList, list

\* The list that save normalizes.
LEMMA EntryFirst ==
  ASSUME NEW entries \in Seq(Entry), NEW e \in Entry, OnePerPlan(entries)
  PROVE  LET other == OfOtherPlans(entries, e.key)
             list  == <<e>> \o other
         IN  /\ list \in Seq(Entry)
             /\ Len(list) = Len(other) + 1
             /\ DOMAIN list = 1 .. Len(other) + 1
             /\ list[1] = e
             /\ \A i \in 2 .. Len(other) + 1 : list[i] = other[i - 1]
             /\ OnePerPlan(list)
<1> DEFINE other == OfOtherPlans(entries, e.key)
           list  == <<e>> \o other
<1>1. /\ other \in Seq(Entry) /\ OnePerPlan(other)
      /\ \A n \in DOMAIN other : other[n].key # e.key
  BY OfOtherPlansEntries
<1>2. Len(other) \in Nat /\ DOMAIN other = 1 .. Len(other)
  BY <1>1
<1>3. /\ list \in Seq(Entry) /\ Len(list) = Len(other) + 1
      /\ DOMAIN list = 1 .. Len(other) + 1
      /\ list[1] = e /\ \A i \in 2 .. Len(other) + 1 : list[i] = other[i - 1]
  <2> HIDE DEF other
  <2> QED BY <1>1, <1>2
<1> HIDE DEF list, other
<1>4. OnePerPlan(list)
  <2> SUFFICES ASSUME NEW i \in 1 .. Len(other) + 1, NEW j \in 1 .. Len(other) + 1,
                      list[i].key = list[j].key
      PROVE  i = j
    BY <1>3 DEF OnePerPlan
  <2>1. \A n \in 2 .. Len(other) + 1 : n - 1 \in DOMAIN other
    BY <1>2
  <2>2. \A n \in 2 .. Len(other) + 1 : list[n].key # e.key
    BY <1>1, <1>3, <2>1
  <2>3. CASE i = 1 \/ j = 1
    BY <1>2, <1>3, <2>2, <2>3
  <2>4. CASE i # 1 /\ j # 1
    <3>1. /\ i \in 2 .. Len(other) + 1 /\ j \in 2 .. Len(other) + 1
          /\ other[i - 1].key = other[j - 1].key
      BY <1>2, <1>3, <2>4
    <3>2. i - 1 = j - 1
      BY <1>1, <2>1, <3>1 DEF OnePerPlan
    <3> QED BY <1>2, <3>2
  <2> QED BY <2>3, <2>4
<1> QED BY <1>3, <1>4 DEF list, other

LEMMA IndexWithIsSound ==
  ASSUME NEW entries, NEW backed, SoundList(entries, backed), NEW e \in Entry, e \in backed
  PROVE  SoundList(IndexWith(e, entries), backed)
<1>1. entries \in Seq(Entry) /\ OnePerPlan(entries) /\ \A i \in DOMAIN entries : entries[i] \in backed
  BY DEF SoundList
<1> DEFINE other == OfOtherPlans(entries, e.key)
           list  == <<e>> \o other
<1>2. other \in Seq(Entry) /\ PartOf(other, entries)
  BY <1>1, OfOtherPlansEntries
<1>3. /\ list \in Seq(Entry) /\ OnePerPlan(list)
      /\ DOMAIN list = 1 .. Len(other) + 1 /\ list[1] = e
      /\ \A i \in 2 .. Len(other) + 1 : list[i] = other[i - 1]
  BY <1>1, EntryFirst
<1>4. IndexWith(e, entries) = normalizePlanningArtifactEntries(list)
  BY DEF IndexWith
<1> HIDE DEF list, other
<1>5. \A i \in DOMAIN list : list[i] \in backed
  <2> TAKE i \in DOMAIN list
  <2>1. CASE i = 1
    BY <1>3, <2>1
  <2>2. CASE i # 1
    <3>1. i \in 2 .. Len(other) + 1 /\ i - 1 \in DOMAIN other
      BY <1>2, <1>3, <2>2
    <3> QED BY <1>1, <1>2, <1>3, <3>1 DEF PartOf
  <2> QED BY <2>1, <2>2
<1> QED BY <1>3, <1>4, <1>5, NormalizedIsSound

LEMMA IndexWithoutIsSound ==
  ASSUME NEW entries, NEW backed, SoundList(entries, backed), NEW key, NEW stale
  PROVE  SoundList(IndexWithout(key, stale, entries), backed)
<1> DEFINE positions == {i \in DOMAIN entries : entries[i].key = key =>
                                                  entries[i].session \notin stale}
           list == Listed(entries, positions)
<1>1. entries \in Seq(Entry) /\ OnePerPlan(entries) /\ \A i \in DOMAIN entries : entries[i] \in backed
  BY DEF SoundList
<1>2. positions \in SUBSET DOMAIN entries
  OBVIOUS
<1>3. IndexWithout(key, stale, entries) = normalizePlanningArtifactEntries(list)
  BY DEF IndexWithout
<1> HIDE DEF positions
<1>4. list \in Seq(Entry) /\ OnePerPlan(list) /\ PartOf(list, entries)
  BY <1>1, <1>2, ListedEntries
<1> HIDE DEF list
<1>5. \A i \in DOMAIN list : list[i] \in backed
  BY <1>1, <1>4 DEF PartOf
<1> QED BY <1>3, <1>4, <1>5, NormalizedIsSound

LEMMA SoundInit == Init => Sound
BY TypeInit, EmptyIsSound DEF Init, Sound

LEMMA SoundStep == Sound /\ [Next]_vars => Sound'
<1> SUFFICES ASSUME Sound, [Next]_vars PROVE Sound'
  OBVIOUS
<1>1. TypeOK /\ TypeOK'
  BY TypeStep DEF Sound
<1>2. /\ call \in [Processes -> Call \cup {NoCall}]
      /\ \A p \in Processes : call[p] # NoCall => WellFormed(call[p])
  BY <1>1, CallsWellFormed
<1>3. /\ SoundList(index, written)
      /\ \A p \in Processes : call[p] # NoCall => SoundCall(call[p], written)
  BY DEF Sound
<1> DEFINE Goal == /\ SoundList(index', written')
                   /\ \A p \in Processes : call'[p] # NoCall => SoundCall(call'[p], written')
<1>4. SUFFICES Goal
  BY <1>1 DEF Sound
<1>5. readPlanningArtifactIndex = index
  BY <1>3, SoundIsNormal DEF readPlanningArtifactIndex
\* A step that changes one call and leaves the index alone.
<1>6. ASSUME NEW p \in Processes, NEW c, call' = [call EXCEPT ![p] = c], UNCHANGED index,
             written \subseteq written', c # NoCall => SoundCall(c, written')
      PROVE  Goal
  <2>1. SoundList(index', written')
    BY <1>3, <1>6, SoundGrows
  <2>2. \A q \in Processes : call'[q] = IF q = p THEN c ELSE call[q]
    BY <1>2, <1>6
  <2>3. \A q \in Processes : call[q] # NoCall => SoundCall(call[q], written')
    BY <1>3, <1>6, SoundGrows
  <2> QED BY <1>6, <2>1, <2>2, <2>3
<1>7. ASSUME NEW p \in Processes, NEW pc, At(p, pc)
      PROVE  /\ call[p] # NoCall /\ WellFormed(call[p]) /\ call[p].pc = pc
             /\ call[p] \in Call /\ SoundCall(call[p], written)
  BY <1>2, <1>3, <1>7 DEF At, WellFormed
<1> HIDE DEF Goal
<1>8. ASSUME NEW p \in Processes, BeginSave(p) \/ BeginLookup(p) PROVE Goal
  <2>1. PICK c : /\ call' = [call EXCEPT ![p] = c] /\ c.read = <<>>
                 /\ c.op = "lookup" \/ c.pc = "empty file"
                 /\ UNCHANGED <<index, written>>
    <3>1. CASE BeginSave(p)
      <4>1. PICK key \in Keys, session \in Sessions :
              Begin(p, "save", "empty file", [key |-> key, session |-> session, at |-> now])
        BY <3>1 DEF BeginSave
      <4> DEFINE c == [op |-> "save", pc |-> "empty file",
                       entry |-> [key |-> key, session |-> session, at |-> now],
                       read |-> <<>>, left |-> <<>>, stale |-> {}, overtaken |-> FALSE]
      <4>2. call' = [call EXCEPT ![p] = c] /\ UNCHANGED <<index, written>>
        BY <4>1 DEF Begin
      <4>3. c.read = <<>> /\ c.pc = "empty file"
        OBVIOUS
      <4> HIDE DEF c
      <4> QED BY <4>2, <4>3
    <3>2. CASE BeginLookup(p)
      <4>1. PICK key \in Keys : Begin(p, "lookup", "read", [key |-> key])
        BY <3>2 DEF BeginLookup
      <4> DEFINE c == [op |-> "lookup", pc |-> "read", entry |-> [key |-> key],
                       read |-> <<>>, left |-> <<>>, stale |-> {}, overtaken |-> FALSE]
      <4>2. call' = [call EXCEPT ![p] = c] /\ UNCHANGED <<index, written>>
        BY <4>1 DEF Begin
      <4>3. c.read = <<>> /\ c.op = "lookup"
        OBVIOUS
      <4> HIDE DEF c
      <4> QED BY <4>2, <4>3
    <3> QED BY <1>8, <3>1, <3>2
  <2>2. SoundCall(c, written')
    BY <2>1, EmptyIsSound DEF SoundCall
  <2> QED BY <1>6, <2>1, <2>2
<1>9. ASSUME NEW p \in Processes, EmptyFile(p) PROVE Goal
  <2>1. SoundCall([call[p] EXCEPT !.pc = "fill file"], written)
    BY <1>7, <1>9 DEF EmptyFile, SoundCall, Call
  <2> QED BY <1>6, <1>9, <2>1 DEF EmptyFile
<1>10. ASSUME NEW p \in Processes, FillFile(p) PROVE Goal
  <2>1. written' = written \cup {call[p].entry} /\ At(p, "fill file")
    BY <1>10 DEF FillFile
  <2>2. SoundList(call[p].read, written')
    BY <1>7, <2>1, SoundGrows DEF SoundCall
  <2>3. SoundCall([call[p] EXCEPT !.pc = "read"], written')
    BY <1>7, <2>1, <2>2 DEF SoundCall, Call
  <2> QED BY <1>6, <1>10, <2>1, <2>3 DEF FillFile
<1>11. ASSUME NEW p \in Processes, ReadIndexToSave(p) PROVE Goal
  <2>1. SoundCall([call[p] EXCEPT !.pc = "empty index", !.read = readPlanningArtifactIndex],
                  written)
    BY <1>3, <1>5, <1>7, <1>11 DEF ReadIndexToSave, SoundCall, Call
  <2> QED BY <1>6, <1>11, <2>1 DEF ReadIndexToSave
<1>12. ASSUME NEW p \in Processes, ReadIndexToLookUp(p) PROVE Goal
  <2> DEFINE found == Matches(readPlanningArtifactIndex, call[p].entry.key)
             c == IF found = <<>> THEN NoCall
                  ELSE [call[p] EXCEPT !.pc = "load", !.left = found,
                                       !.read = readPlanningArtifactIndex]
  <2>1. call' = [call EXCEPT ![p] = c] /\ UNCHANGED <<index, written>>
    BY <1>12 DEF ReadIndexToLookUp
  <2>2. call[p].op = "lookup" /\ call[p] \in Call
    BY <1>7, <1>12 DEF ReadIndexToLookUp
  <2>3. c # NoCall => SoundCall(c, written)
    <3> HIDE DEF found
    <3> QED BY <1>3, <1>5, <2>2 DEF SoundCall, Call
  <2> HIDE DEF c
  <2> QED BY <1>6, <2>1, <2>3
<1>13. ASSUME NEW p \in Processes, LoadUsable(p) \/ LoadStale(p) PROVE Goal
  <2>1. PICK c : /\ call' = [call EXCEPT ![p] = c] /\ UNCHANGED <<index, written>>
                 /\ c # NoCall => c.read = call[p].read /\ c.op = call[p].op
    <3>1. call[p] \in Call
      BY <1>7, <1>13 DEF LoadUsable, LoadStale
    <3>2. CASE LoadUsable(p)
      <4> DEFINE c == IF call[p].stale = {} THEN NoCall
                      ELSE [call[p] EXCEPT !.pc = "empty index", !.left = <<>>]
      <4>1. call' = [call EXCEPT ![p] = c] /\ UNCHANGED <<index, written>>
        BY <3>2 DEF LoadUsable
      <4>2. c # NoCall => c.read = call[p].read /\ c.op = call[p].op
        BY <3>1 DEF Call
      <4> HIDE DEF c
      <4> QED BY <4>1, <4>2
    <3>3. CASE LoadStale(p)
      <4> DEFINE c == [call[p] EXCEPT
                         !.stale = call[p].stale \cup {Head(call[p].left).session},
                         !.left = Tail(call[p].left),
                         !.pc = IF Len(call[p].left) = 1 THEN "empty index" ELSE "load"]
      <4>1. call' = [call EXCEPT ![p] = c] /\ UNCHANGED <<index, written>>
        BY <3>3 DEF LoadStale
      <4>2. c.read = call[p].read /\ c.op = call[p].op
        BY <3>1 DEF Call
      <4> HIDE DEF c
      <4> QED BY <4>1, <4>2
    <3> QED BY <1>13, <3>2, <3>3
  <2>2. call[p].op = "lookup" /\ SoundList(call[p].read, written)
    BY <1>7, <1>13 DEF LoadUsable, LoadStale, WellFormed, SoundCall
  <2>3. c # NoCall => SoundCall(c, written)
    BY <2>1, <2>2 DEF SoundCall
  <2> QED BY <1>6, <2>1, <2>3
<1>14. ASSUME NEW p \in Processes, EmptyIndex(p) PROVE Goal
  <2>1. index' = <<>> /\ written' = written
    BY <1>14 DEF EmptyIndex
  <2>2. ASSUME NEW q \in Processes, call'[q] # NoCall
        PROVE  SoundCall(call'[q], written)
    <3>1. CASE q = p
      <4>1. call'[q] = [call[p] EXCEPT !.pc = "fill index"]
        BY <1>14, <3>1 DEF EmptyIndex
      <4>2. call[p] \in Call /\ SoundCall(call[p], written) /\ call[p].pc = "empty index"
        BY <1>7, <1>14 DEF EmptyIndex
      <4> QED BY <4>1, <4>2 DEF SoundCall, Call
    <3>2. CASE q # p
      <4>1. PICK o : call[q] # NoCall /\ call'[q] = [call[q] EXCEPT !.overtaken = o]
        BY <1>14, <2>2, <3>2 DEF EmptyIndex
      <4>2. call[q] \in Call /\ SoundCall(call[q], written)
        BY <1>2, <1>3, <4>1 DEF WellFormed
      <4> QED BY <4>1, <4>2 DEF SoundCall, Call
    <3> QED BY <3>1, <3>2
  <2> QED BY <2>1, <2>2, EmptyIsSound DEF Goal
<1>15. ASSUME NEW p \in Processes, FillIndex(p) PROVE Goal
  <2>1. /\ WellFormed(call[p]) /\ SoundCall(call[p], written) /\ call[p].pc = "fill index"
        /\ call' = [call EXCEPT ![p] = NoCall] /\ written' = written
    BY <1>7, <1>15 DEF FillIndex
  <2>2. SoundList(index', written)
    <3>1. SoundList(call[p].read, written)
      BY <2>1 DEF SoundCall
    <3>2. CASE call[p].op = "save"
      <4>1. index' = IndexWith(call[p].entry, call[p].read)
        BY <1>15, <3>2 DEF FillIndex
      <4>2. call[p].entry \in written /\ call[p].entry \in Entry
        BY <2>1, <3>2 DEF SoundCall, WellFormed
      <4> QED BY <3>1, <4>1, <4>2, IndexWithIsSound
    <3>3. CASE call[p].op # "save"
      <4>1. index' = IndexWithout(call[p].entry.key, call[p].stale, call[p].read)
        BY <1>15, <3>3 DEF FillIndex
      <4> QED BY <3>1, <4>1, IndexWithoutIsSound
    <3> QED BY <3>2, <3>3
  <2>3. \A q \in Processes : call'[q] # NoCall => call'[q] = call[q] /\ call[q] # NoCall
    BY <1>2, <2>1
  <2> QED BY <1>3, <2>1, <2>2, <2>3 DEF Goal
<1>16. ASSUME NEW p \in Processes, Interrupt(p) PROVE Goal
  BY <1>6, <1>16 DEF Interrupt
<1>17. ASSUME UNCHANGED <<index, call, written>> PROVE Goal
  BY <1>3, <1>17 DEF Goal
<1>18. ASSUME Tick PROVE Goal
  BY <1>17, <1>18 DEF Tick
<1>19. CASE UNCHANGED vars
  BY <1>17, <1>19 DEF vars
<1> QED
  BY <1>8, <1>9, <1>10, <1>11, <1>12, <1>13, <1>14, <1>15, <1>16, <1>18, <1>19 DEF Next

\* However the writes of any number of processes meet, and whatever is
\* interrupted, the index on disk is sorted, within its limit, has one entry
\* for each plan, and every entry is of a checkpoint that was written whole.
THEOREM IndexAlwaysSound == Spec => []IndexIsSound
<1>1. Sound => IndexIsSound
  <2> SUFFICES ASSUME Sound PROVE IndexIsSound
    OBVIOUS
  <2>1. SoundList(index, written)
    BY DEF Sound
  <2>2. DOMAIN index = 1 .. Len(index)
    BY <2>1 DEF SoundList
  <2>3. IndexIsNormal
    BY <2>1, <2>2 DEF SoundList, OnePerPlan, Sorted, IndexIsNormal
  <2> QED BY <2>1, <2>3 DEF SoundList, IndexIsSound, EntriesAreBacked
<1>2. Spec => []Sound
  BY SoundInit, SoundStep, PTL DEF Spec
<1> QED BY <1>1, <1>2, PTL


-----------------------------------------------------------------------------
(* Inserting an entry in its place is what sorting a list does that is      *)
(* sorted but for the entry that save has put first.                        *)

LEMMA InitialSegment ==
  ASSUME NEW m \in Nat, NEW S \in SUBSET (1 .. m), \A i \in S : 1 .. i \subseteq S
  PROVE  S = 1 .. Cardinality(S) /\ Cardinality(S) \in 0 .. m
<1>1. IsFiniteSet(1 .. m) /\ Cardinality(1 .. m) = m
  BY CountTo
<1>2. IsFiniteSet(S) /\ Cardinality(S) <= m
  BY <1>1, FS_Subset
<1>3. Cardinality(S) \in Nat
  BY <1>2, FS_CardinalityType
<1>4. \A i \in S : i <= Cardinality(S)
  <2> TAKE i \in S
  <2>1. i \in Nat /\ 1 .. i \subseteq S
    OBVIOUS
  <2>2. Cardinality(1 .. i) = i
    BY <2>1, CountTo
  <2>3. Cardinality(1 .. i) <= Cardinality(S)
    BY <1>2, <2>1, FS_Subset
  <2> QED BY <2>2, <2>3
<1>5. S \subseteq 1 .. Cardinality(S)
  BY <1>3, <1>4
<1>6. /\ IsFiniteSet(1 .. Cardinality(S))
      /\ Cardinality(1 .. Cardinality(S)) = Cardinality(S)
  BY <1>3, CountTo
<1>7. S = 1 .. Cardinality(S)
  BY <1>5, <1>6, FS_Subset
<1> QED BY <1>2, <1>3, <1>7

LEMMA SortingInserts ==
  ASSUME NEW other \in Seq(Entry), Sorted(other), NEW e \in Entry
  PROVE  NewestFirst(<<e>> \o other) = Inserted(e, other)
<1> DEFINE list == <<e>> \o other
           m == Len(other)
           newer == {i \in DOMAIN other : other[i].at > e.at}
           k == Cardinality(newer)
           ahead == [i \in DOMAIN list |->
                       {j \in DOMAIN list : \/ list[j].at > list[i].at
                                            \/ list[j].at = list[i].at /\ j < i}]
           result == Inserted(e, other)
<1>1. /\ m \in Nat /\ DOMAIN other = 1 .. m
      /\ \A i \in 1 .. m : other[i] \in Entry /\ other[i].at \in Nat
      /\ e.at \in Nat
  BY MemberTime, LenProperties
<1>2. /\ list \in Seq(Entry) /\ Len(list) = m + 1 /\ DOMAIN list = 1 .. m + 1
      /\ list[1] = e /\ \A i \in 1 .. m : list[i + 1] = other[i]
  <2> HIDE DEF m
  <2>1. list \in Seq(Entry) /\ Len(list) = m + 1
    BY DEF m
  <2>2. list[1] = e /\ \A i \in 1 .. m : list[i + 1] = other[i]
    BY <1>1 DEF m
  <2> HIDE DEF list
  <2>3. DOMAIN list = 1 .. m + 1
    BY <2>1
  <2> QED BY <2>1, <2>2, <2>3
<1>3. newer = 1 .. k /\ k \in 0 .. m
  <2>1. newer \in SUBSET (1 .. m)
    BY <1>1
  <2>2. ASSUME NEW i \in newer, NEW j \in 1 .. i PROVE j \in newer
    <3>1. i \in 1 .. m /\ j \in 1 .. m /\ other[i].at > e.at
      BY <1>1
    <3>2. other[j].at >= other[i].at
      BY <1>1, <3>1 DEF Sorted
    <3> QED BY <1>1, <3>1, <3>2
  <2> HIDE DEF newer
  <2> QED BY <1>1, <2>1, <2>2, InitialSegment
<1>4. \A i \in 1 .. m : i <= k <=> other[i].at > e.at
  BY <1>1, <1>3
<1>5. NewestFirst(list) = Arranged(list, ahead) /\ DOMAIN ahead = 1 .. m + 1
  BY <1>2 DEF NewestFirst
<1>6. \A i, j \in 1 .. m + 1 : j \in ahead[i] <=> \/ list[j].at > list[i].at
                                                  \/ list[j].at = list[i].at /\ j < i
  BY <1>2
<1>7. \A i \in 1 .. m + 1 : ahead[i] \subseteq 1 .. m + 1
  BY <1>2
<1>8. Orders(ahead)
  <2>1. \A i \in 1 .. m + 1 : list[i].at \in Nat
    BY <1>2, MemberTime
  <2>2. IsFiniteSet(1 .. m + 1)
    BY <1>1, CountTo
  <2> HIDE DEF ahead, list, m
  <2>3. \A i \in 1 .. m + 1 : i \notin ahead[i]
    BY <1>6, <2>1
  <2>4. \A i, j, h \in 1 .. m + 1 : i \in ahead[j] /\ h \in ahead[i] => h \in ahead[j]
    BY <1>6, <2>1
  <2>5. \A i, j \in 1 .. m + 1 : i = j \/ i \in ahead[j] \/ j \in ahead[i]
    BY <1>6, <2>1
  <2> QED BY <1>5, <1>7, <2>2, <2>3, <2>4, <2>5 DEF Orders
<1> HIDE DEF ahead, newer
<1>9. \A j \in 1 .. m + 1 : j # 1 => j - 1 \in 1 .. m /\ list[j] = other[j - 1]
  <2> TAKE j \in 1 .. m + 1
  <2> HAVE j # 1
  <2>1. j - 1 \in 1 .. m /\ (j - 1) + 1 = j
    BY <1>1
  <2> QED BY <1>2, <2>1
<1> HIDE DEF list, m, k
<1>10. ahead[1] = 2 .. k + 1
  <2>1. \A j \in 1 .. m + 1 : j \in ahead[1] <=> j \in 2 .. k + 1
    <3> TAKE j \in 1 .. m + 1
    <3>1. 1 \in 1 .. m + 1
      BY <1>1
    <3>2. j \in ahead[1] <=> \/ list[j].at > e.at
                             \/ list[j].at = e.at /\ j < 1
      BY <1>2, <1>6, <3>1
    <3>3. CASE j = 1
      BY <1>1, <1>2, <3>2, <3>3
    <3>4. CASE j # 1
      <4>1. j - 1 \in 1 .. m /\ list[j] = other[j - 1]
        BY <1>9, <3>4
      <4>2. j \in ahead[1] <=> j - 1 <= k
        BY <1>1, <1>4, <3>2, <4>1
      <4> QED BY <1>1, <1>3, <3>4, <4>2
    <3> QED BY <3>3, <3>4
  <2>2. ahead[1] \subseteq 1 .. m + 1
    BY <1>1, <1>7
  <2>3. 2 .. k + 1 \subseteq 1 .. m + 1
    BY <1>1, <1>3
  <2> QED BY <2>1, <2>2, <2>3
<1>11. ASSUME NEW i \in 1 .. m
       PROVE  ahead[i + 1] = IF i <= k THEN 2 .. i ELSE 1 .. i
  <2>1. i + 1 \in 1 .. m + 1 /\ i + 1 # 1 /\ list[i + 1] = other[i]
    BY <1>1, <1>2
  <2>2. ASSUME NEW j \in 1 .. m + 1
        PROVE  j \in ahead[i + 1] <=> j \in IF i <= k THEN 2 .. i ELSE 1 .. i
    <3>1. j \in ahead[i + 1] <=> \/ list[j].at > other[i].at
                                 \/ list[j].at = other[i].at /\ j < i + 1
      BY <1>6, <2>1
    <3>2. CASE j = 1
      <4>1. j \in ahead[i + 1] <=> e.at >= other[i].at
        BY <1>1, <1>2, <3>1, <3>2
      <4>2. j \in ahead[i + 1] <=> ~ (i <= k)
        BY <1>1, <1>4, <4>1
      <4> QED BY <1>1, <3>2, <4>2
    <3>3. CASE j # 1
      <4>1. j - 1 \in 1 .. m /\ list[j] = other[j - 1]
        BY <1>9, <3>3
      <4>2. /\ j - 1 < i => other[j - 1].at >= other[i].at
            /\ i < j - 1 => other[i].at >= other[j - 1].at
        BY <1>1, <4>1 DEF Sorted
      <4>3. j \in ahead[i + 1] <=> j - 1 < i
        BY <1>1, <3>1, <4>1, <4>2
      <4> QED BY <1>1, <3>3, <4>3
    <3> QED BY <3>2, <3>3
  <2>3. ahead[i + 1] \subseteq 1 .. m + 1
    BY <1>7, <2>1
  <2>4. (IF i <= k THEN 2 .. i ELSE 1 .. i) \subseteq 1 .. m + 1
    BY <1>1
  <2> QED BY <2>2, <2>3, <2>4
<1>12. Cardinality(ahead[1]) = k
  <2> DEFINE last == k + 1
  <2>1. 2 \in Int /\ last \in Int
    BY <1>3
  <2> HIDE DEF last
  <2>2. Cardinality(2 .. last) = IF 2 > last THEN 0 ELSE last - 2 + 1
    BY <2>1, CountInterval
  <2> QED BY <1>3, <1>10, <2>2 DEF last
<1>13. ASSUME NEW i \in 1 .. m
       PROVE  Cardinality(ahead[i + 1]) = IF i <= k THEN i - 1 ELSE i
  <2>1. 1 \in Int /\ 2 \in Int /\ i \in Int
    OBVIOUS
  <2>2. /\ Cardinality(2 .. i) = IF 2 > i THEN 0 ELSE i - 2 + 1
        /\ Cardinality(1 .. i) = IF 1 > i THEN 0 ELSE i - 1 + 1
    BY <2>1, CountInterval
  <2> QED BY <1>11, <2>2
<1>14. Cardinality(1 .. m + 1) = m + 1
  BY <1>1, CountTo
<1>15. PICK place : Places(place, list, ahead)
  BY <1>2, <1>5, <1>8, ArrangedPlaces
<1>16. ASSUME NEW n \in 1 .. m + 1
       PROVE  /\ n <= k => place[n] = n + 1
              /\ n = k + 1 => place[n] = 1
              /\ n > k + 1 => place[n] = n
  <2>1. place[n] \in 1 .. m + 1 /\ Cardinality(ahead[place[n]]) = n - 1
    BY <1>5, <1>14, <1>15 DEF Places
  <2>2. CASE place[n] = 1
    BY <1>3, <1>12, <2>1, <2>2
  <2>3. CASE place[n] # 1
    <3> DEFINE i == place[n] - 1
    <3>1. i \in 1 .. m /\ place[n] = i + 1
      BY <1>1, <2>1, <2>3
    <3> HIDE DEF i
    <3>2. n - 1 = IF i <= k THEN i - 1 ELSE i
      BY <1>13, <2>1, <3>1
    <3> QED BY <1>1, <1>3, <3>1, <3>2
  <2> QED BY <2>2, <2>3
<1>17. ASSUME NEW n \in 1 .. m + 1
       PROVE  Arranged(list, ahead)[n] = IF n <= k THEN other[n]
                                         ELSE IF n = k + 1 THEN e ELSE other[n - 1]
  <2>1. Arranged(list, ahead)[n] = list[place[n]] /\ place[n] \in 1 .. m + 1
    BY <1>5, <1>14, <1>15 DEF Places
  <2>2. CASE n <= k
    <3>1. place[n] = n + 1 /\ n \in 1 .. m
      BY <1>1, <1>3, <1>16, <2>2
    <3> QED BY <1>2, <2>1, <2>2, <3>1
  <2>3. CASE n = k + 1
    BY <1>2, <1>3, <1>16, <2>1, <2>3
  <2>4. CASE n > k + 1
    <3>1. place[n] = n /\ n # 1
      BY <1>3, <1>16, <2>4
    <3> QED BY <1>3, <1>9, <2>1, <2>4, <3>1
  <2> QED BY <1>3, <2>2, <2>3, <2>4
<1>18. /\ result \in Seq(Entry) /\ Len(result) = m + 1
       /\ \A n \in 1 .. m + 1 : result[n] = IF n <= k THEN other[n]
                                            ELSE IF n = k + 1 THEN e ELSE other[n - 1]
  <2> DEFINE front == SubSeq(other, 1, k)
             back == SubSeq(other, k + 1, m)
  <2>1. result = front \o <<e>> \o back
    BY DEF Inserted, k, newer, m
  <2>2. /\ front \in Seq(Entry) /\ Len(front) = k
        /\ \A i \in 1 .. k : front[i] = other[i]
    <3>1. 1 \in Int /\ k \in Int /\ \A i \in 1 .. k : other[i] \in Entry
      BY <1>1, <1>3
    <3>2. /\ front \in Seq(Entry)
          /\ Len(front) = IF 1 <= k THEN k - 1 + 1 ELSE 0
          /\ \A i \in 1 .. k - 1 + 1 : front[i] = other[1 + i - 1]
      BY <3>1, SubSeqProperties
    <3> QED BY <1>3, <3>2
  <2>3. /\ back \in Seq(Entry) /\ Len(back) = m - k
        /\ \A i \in 1 .. m - k : back[i] = other[k + i]
    <3>1. k + 1 \in Int /\ m \in Int /\ \A i \in k + 1 .. m : other[i] \in Entry
      BY <1>1, <1>3
    <3>2. /\ back \in Seq(Entry)
          /\ Len(back) = IF k + 1 <= m THEN m - (k + 1) + 1 ELSE 0
          /\ \A i \in 1 .. m - (k + 1) + 1 : back[i] = other[k + 1 + i - 1]
      BY <3>1, SubSeqProperties
    <3> QED BY <1>1, <1>3, <3>2
  <2> HIDE DEF front, back, result
  <2>4. /\ front \o <<e>> \in Seq(Entry) /\ Len(front \o <<e>>) = k + 1
        /\ \A i \in 1 .. k : (front \o <<e>>)[i] = other[i]
        /\ (front \o <<e>>)[k + 1] = e
    BY <1>3, <2>2
  <2> DEFINE start == front \o <<e>>
  <2> HIDE DEF start
  <2>5. /\ start \in Seq(Entry) /\ Len(start) = k + 1
        /\ \A i \in 1 .. k : start[i] = other[i]
        /\ start[k + 1] = e
        /\ result = start \o back
    BY <2>1, <2>4 DEF start
  <2>6. /\ result \in Seq(Entry) /\ Len(result) = (k + 1) + (m - k)
        /\ \A n \in 1 .. (k + 1) + (m - k) :
             result[n] = IF n <= k + 1 THEN start[n] ELSE back[n - (k + 1)]
    BY <2>3, <2>5, ConcatProperties
  <2>7. ASSUME NEW n \in 1 .. m + 1
        PROVE  result[n] = IF n <= k THEN other[n] ELSE IF n = k + 1 THEN e ELSE other[n - 1]
    <3>1. result[n] = IF n <= k + 1 THEN start[n] ELSE back[n - (k + 1)]
      BY <1>1, <1>3, <2>6
    <3>2. CASE n <= k
      BY <1>3, <2>5, <3>1, <3>2
    <3>3. CASE n = k + 1
      BY <1>3, <2>5, <3>1, <3>3
    <3>4. CASE n > k + 1
      <4>1. n - (k + 1) \in 1 .. m - k /\ k + (n - (k + 1)) = n - 1
        BY <1>1, <1>3, <3>4
      <4> QED BY <1>3, <2>3, <3>1, <3>4, <4>1
    <3> QED BY <1>3, <3>2, <3>3, <3>4
  <2>8. Len(result) = m + 1
    BY <1>1, <1>3, <2>6
  <2> QED BY <2>6, <2>7, <2>8
<1>19. Arranged(list, ahead) \in Seq(Entry) /\ Len(Arranged(list, ahead)) = m + 1
  BY <1>2, <1>5, <1>8, <1>14, ArrangedPlaces
<1> HIDE DEF result
<1>20. Arranged(list, ahead) = result
  BY <1>17, <1>18, <1>19, SeqEqual
<1> QED BY <1>5, <1>20 DEF list, result


-----------------------------------------------------------------------------
(* The index loses nothing without a race. While no write was made from a  *)
(* read that another has overtaken, and none was read halfway or           *)
(* interrupted, the writes follow one another, each from what the one      *)
(* before has left.                                                        *)

\* A look-up holds the one entry of its plan, and writes the index only when
\* it has found that one to be stale.
LookupHolds(c) ==
  c.op = "lookup" =>
    /\ c.pc \in {"read", "load"} => c.stale = {}
    /\ c.pc = "load" =>
         /\ Len(c.left) = 1
         /\ \A i \in DOMAIN c.read : c.read[i].key = c.entry.key => c.read[i] = c.left[1]
    /\ c.pc \in {"empty index", "fill index"} =>
         \A i \in DOMAIN c.read : c.read[i].key = c.entry.key => c.read[i].session \in c.stale

Writing(p) == At(p, "fill index")

\* The call has read the index and has not begun to write it.
Holding(p) == At(p, "load") \/ At(p, "empty index")

Undisturbed ==
  /\ (\A p \in Processes : ~ Writing(p)) => index = kept
  /\ \A p \in Processes : Writing(p) =>
       /\ index = <<>>
       /\ call[p].read = kept
       /\ \A q \in Others(p) : ~ Writing(q) /\ (Holding(q) => call[q].overtaken)
  /\ \A p \in Processes : (Holding(p) /\ ~ call[p].overtaken) => call[p].read = kept

NoLoss ==
  /\ Sound
  /\ \A p \in Processes : call[p] # NoCall => LookupHolds(call[p])
  /\ ~ exposed => Undisturbed

\* What a write makes of the index it was made from is what the calls would
\* make of it one after the other.
LEMMA SaveIsInOrder ==
  ASSUME NEW entries, NEW backed, SoundList(entries, backed), NEW e \in Entry
  PROVE  IndexWith(e, entries)
           = slice(Inserted(e, OfOtherPlans(entries, e.key)), RetentionLimit)
<1>1. entries \in Seq(Entry) /\ OnePerPlan(entries) /\ Sorted(entries)
  BY DEF SoundList
<1> DEFINE other == OfOtherPlans(entries, e.key)
           list  == <<e>> \o other
<1>2. other \in Seq(Entry) /\ Sorted(other)
  BY <1>1, OfOtherPlansEntries
<1>3. list \in Seq(Entry) /\ OnePerPlan(list)
  BY <1>1, EntryFirst
<1>4. NewestFirst(list) = Inserted(e, other)
  <2> HIDE DEF other
  <2> QED BY <1>2, SortingInserts
<1>5. IndexWith(e, entries) = normalizePlanningArtifactEntries(list)
  BY DEF IndexWith
<1> HIDE DEF list
<1>6. normalizePlanningArtifactEntries(list) = slice(NewestFirst(list), RetentionLimit)
  BY <1>3, NormalizedEntries
<1> QED BY <1>4, <1>5, <1>6

LEMMA RemovalIsInOrder ==
  ASSUME NEW entries, NEW backed, SoundList(entries, backed), NEW key, NEW stale,
         \A i \in DOMAIN entries : entries[i].key = key => entries[i].session \in stale
  PROVE  IndexWithout(key, stale, entries) = OfOtherPlans(entries, key)
<1>1. /\ entries \in Seq(Entry) /\ OnePerPlan(entries) /\ Sorted(entries)
      /\ Len(entries) <= RetentionLimit
  BY DEF SoundList
<1> DEFINE other == OfOtherPlans(entries, key)
<1>2. {i \in DOMAIN entries : entries[i].key = key => entries[i].session \notin stale}
        = {i \in DOMAIN entries : entries[i].key # key}
  OBVIOUS
<1>3. IndexWithout(key, stale, entries) = normalizePlanningArtifactEntries(other)
  BY <1>2 DEF IndexWithout, OfOtherPlans
<1>4. /\ other \in Seq(Entry) /\ OnePerPlan(other) /\ Sorted(other)
      /\ Len(other) <= Len(entries)
  BY <1>1, OfOtherPlansEntries
<1>5. Len(other) <= RetentionLimit
  <2>1. Len(other) \in Int /\ Len(entries) \in Int /\ RetentionLimit \in Int
    BY <1>1, <1>4, IndexAssumption
  <2> QED BY <1>1, <1>4, <2>1
<1>6. SoundList(other, Entry)
  BY <1>4, <1>5, MemberTime DEF SoundList
<1> QED BY <1>3, <1>6, SoundIsNormal

\* The matches of a plan in a sound index: none, or the entry it has.
LEMMA OneMatch ==
  ASSUME NEW entries, NEW backed, SoundList(entries, backed), NEW key,
         Matches(entries, key) # <<>>
  PROVE  /\ Len(Matches(entries, key)) = 1
         /\ \A i \in DOMAIN entries :
              entries[i].key = key => entries[i] = Matches(entries, key)[1]
<1> DEFINE positions == {i \in DOMAIN entries : entries[i].key = key}
           list == Listed(entries, positions)
           found == NewestFirst(list)
<1>1. entries \in Seq(Entry) /\ OnePerPlan(entries)
  BY DEF SoundList
<1>2. Matches(entries, key) = found
  BY DEF Matches
<1>3. positions \in SUBSET DOMAIN entries /\ \A i \in positions : entries[i].key = key
  OBVIOUS
<1>4. \A i \in DOMAIN entries : entries[i].key = key => i \in positions
  OBVIOUS
<1> HIDE DEF positions
<1>5. /\ list \in Seq(Entry)
      /\ \A n \in DOMAIN list : \E i \in positions : list[n] = entries[i]
      /\ \A i \in positions : \E n \in DOMAIN list : list[n] = entries[i]
      /\ OnePerPlan(list)
  BY <1>1, <1>3, ListedEntries
<1> HIDE DEF list
<1>6. /\ found \in Seq(Entry) /\ OnePerPlan(found)
      /\ PartOf(found, list) /\ PartOf(list, found)
  BY <1>5, NewestFirstEntries
<1> HIDE DEF found
<1>7. \A n \in DOMAIN found : found[n].key = key
  <2> TAKE n \in DOMAIN found
  <2>1. PICK j \in DOMAIN list : found[n] = list[j]
    BY <1>6 DEF PartOf
  <2>2. PICK i \in positions : list[j] = entries[i]
    BY <1>5
  <2> QED BY <1>3, <2>1, <2>2
<1>8. DOMAIN found = 1 .. Len(found) /\ Len(found) \in Nat
  BY <1>6
<1>9. Len(found) # 0
  BY <1>2, <1>6, EmptySeq
<1>10. Len(found) = 1
  <2>1. SUFFICES ASSUME Len(found) > 1 PROVE FALSE
    BY <1>8, <1>9
  <2>2. 1 \in DOMAIN found /\ 2 \in DOMAIN found
    BY <1>8, <2>1
  <2> QED BY <1>6, <1>7, <2>2 DEF OnePerPlan
<1>11. ASSUME NEW i \in DOMAIN entries, entries[i].key = key PROVE entries[i] = found[1]
  <2>1. PICK n \in DOMAIN found : entries[i] = found[n]
    BY <1>4, <1>5, <1>6, <1>11 DEF PartOf
  <2> QED BY <1>8, <1>10, <2>1
<1> QED BY <1>2, <1>10, <1>11

LEMMA NoMatchInNothing == \A key : Matches(<<>>, key) = <<>>
<1> TAKE key
<1>1. <<>> \in Seq(Entry)
  OBVIOUS
<1> DEFINE list == Listed(<<>>, {i \in DOMAIN <<>> : <<>>[i].key = key})
<1>2. list \in Seq(Entry) /\ Len(list) <= Len(<<>>)
  BY <1>1, ListedEntries
<1>3. Matches(<<>>, key) = NewestFirst(list)
  BY DEF Matches
<1> HIDE DEF list
<1>4. NewestFirst(list) \in Seq(Entry) /\ Len(NewestFirst(list)) = Len(list)
  BY <1>2, NewestFirstEntries
<1>5. Len(list) = 0
  BY <1>2, EmptySeq, LenProperties
<1> QED BY <1>3, <1>4, <1>5, EmptySeq


LEMMA NoLossInit == Init => NoLoss
BY SoundInit DEF Init, NoLoss, Undisturbed, Writing, Holding, At

LEMMA NoLossStep == NoLoss /\ [Next]_vars => NoLoss'
<1> SUFFICES ASSUME NoLoss, [Next]_vars PROVE NoLoss'
  OBVIOUS
<1>1. Sound /\ Sound' /\ TypeOK
  BY SoundStep DEF NoLoss, Sound
<1>2. /\ call \in [Processes -> Call \cup {NoCall}]
      /\ \A p \in Processes : call[p] # NoCall =>
           WellFormed(call[p]) /\ SoundCall(call[p], written) /\ LookupHolds(call[p])
      /\ SoundList(index, written)
      /\ exposed \in BOOLEAN
      /\ ~ exposed => Undisturbed
  BY <1>1, CallsWellFormed DEF NoLoss, Sound
<1>3. readPlanningArtifactIndex = index
  BY <1>2, SoundIsNormal DEF readPlanningArtifactIndex
<1> DEFINE Goal == /\ \A p \in Processes : call'[p] # NoCall => LookupHolds(call'[p])
                   /\ ~ exposed' => Undisturbed'
           HeldBy(c) == c # NoCall /\ c.pc \in {"load", "empty index"}
<1>4. SUFFICES Goal
  BY <1>1 DEF NoLoss
<1>5. ASSUME NEW p \in Processes, NEW pc, At(p, pc)
      PROVE  /\ call[p] # NoCall /\ WellFormed(call[p]) /\ call[p].pc = pc
             /\ call[p] \in Call /\ SoundCall(call[p], written) /\ LookupHolds(call[p])
  BY <1>2, <1>5 DEF At, WellFormed
\* A step of a call that is not writing the index.
<1>6. ASSUME NEW p \in Processes, NEW c, call' = [call EXCEPT ![p] = c],
             UNCHANGED <<index, kept>>, c # NoCall => LookupHolds(c),
             ~ exposed' =>
               /\ ~ exposed
               /\ ~ Writing(p)
               /\ c # NoCall => c.pc # "fill index"
               /\ HeldBy(c) => /\ ~ c.overtaken => c.read = kept
                               /\ \A q \in Others(p) : Writing(q) => c.overtaken
      PROVE  Goal
  <2>1. \A q \in Processes : call'[q] = IF q = p THEN c ELSE call[q]
    BY <1>2, <1>6
  <2>2. \A q \in Processes : call'[q] # NoCall => LookupHolds(call'[q])
    BY <1>2, <1>6, <2>1
  <2>3. ASSUME ~ exposed' PROVE Undisturbed'
    <3>1. /\ Undisturbed
          /\ ~ Writing(p)
          /\ c # NoCall => c.pc # "fill index"
          /\ HeldBy(c) => /\ ~ c.overtaken => c.read = kept
                          /\ \A q \in Others(p) : Writing(q) => c.overtaken
      BY <1>2, <1>6, <2>3
    <3>2. \A q \in Processes : Writing(q)' <=> Writing(q)
      BY <2>1, <3>1 DEF Writing, At
    <3>3. /\ Holding(p)' => HeldBy(c)
          /\ \A q \in Others(p) : Holding(q)' <=> Holding(q)
      BY <2>1 DEF Holding, At, Others
    <3>4. (\A q \in Processes : ~ Writing(q)') => index' = kept'
      BY <1>6, <3>1, <3>2 DEF Undisturbed
    <3>5. ASSUME NEW q \in Processes, Writing(q)'
          PROVE  /\ index' = <<>> /\ call'[q].read = kept'
                 /\ \A r \in Others(q) : ~ Writing(r)' /\ (Holding(r)' => call'[r].overtaken)
      <4>1. Writing(q) /\ q # p /\ p \in Others(q) /\ q \in Others(p)
        BY <3>1, <3>2, <3>5 DEF Others
      <4>2. index' = <<>> /\ call'[q].read = kept'
        BY <1>6, <2>1, <3>1, <4>1 DEF Undisturbed
      <4>3. ASSUME NEW r \in Others(q)
            PROVE  ~ Writing(r)' /\ (Holding(r)' => call'[r].overtaken)
        <5>1. r \in Processes /\ ~ Writing(r) /\ (Holding(r) => call[r].overtaken)
          BY <3>1, <4>1 DEF Undisturbed, Others
        <5>2. CASE r = p
          BY <2>1, <3>1, <3>2, <3>3, <4>1, <5>1, <5>2
        <5>3. CASE r # p
          BY <2>1, <3>2, <3>3, <5>1, <5>3 DEF Others
        <5> QED BY <5>2, <5>3
      <4> QED BY <4>2, <4>3
    <3>6. ASSUME NEW q \in Processes, Holding(q)', ~ call'[q].overtaken
          PROVE  call'[q].read = kept'
      <4>1. CASE q = p
        BY <1>6, <2>1, <3>1, <3>3, <3>6, <4>1
      <4>2. CASE q # p
        BY <1>6, <2>1, <3>1, <3>3, <3>6, <4>2 DEF Undisturbed, Others
      <4> QED BY <4>1, <4>2
    <3> QED BY <3>4, <3>5, <3>6 DEF Undisturbed, Others
  <2> QED BY <2>2, <2>3
<1> HIDE DEF Goal
<1>7. ASSUME NEW p \in Processes, NEW pc, At(p, pc), pc # "fill index" PROVE ~ Writing(p)
  BY <1>7 DEF Writing, At
<1>8. ASSUME NEW p \in Processes, BeginSave(p) \/ BeginLookup(p) PROVE Goal
  <2>1. PICK c : /\ call' = [call EXCEPT ![p] = c] /\ call[p] = NoCall
                 /\ UNCHANGED <<index, kept, exposed>>
                 /\ c.pc \in {"empty file", "read"} /\ c.stale = {}
    <3>1. CASE BeginSave(p)
      <4>1. PICK key \in Keys, session \in Sessions :
              Begin(p, "save", "empty file", [key |-> key, session |-> session, at |-> now])
        BY <3>1 DEF BeginSave
      <4> DEFINE c == [op |-> "save", pc |-> "empty file",
                       entry |-> [key |-> key, session |-> session, at |-> now],
                       read |-> <<>>, left |-> <<>>, stale |-> {}, overtaken |-> FALSE]
      <4>2. /\ call' = [call EXCEPT ![p] = c] /\ call[p] = NoCall
            /\ UNCHANGED <<index, kept, exposed>>
        BY <4>1 DEF Begin
      <4>3. c.pc = "empty file" /\ c.stale = {}
        OBVIOUS
      <4> HIDE DEF c
      <4> QED BY <4>2, <4>3
    <3>2. CASE BeginLookup(p)
      <4>1. PICK key \in Keys : Begin(p, "lookup", "read", [key |-> key])
        BY <3>2 DEF BeginLookup
      <4> DEFINE c == [op |-> "lookup", pc |-> "read", entry |-> [key |-> key],
                       read |-> <<>>, left |-> <<>>, stale |-> {}, overtaken |-> FALSE]
      <4>2. /\ call' = [call EXCEPT ![p] = c] /\ call[p] = NoCall
            /\ UNCHANGED <<index, kept, exposed>>
        BY <4>1 DEF Begin
      <4>3. c.pc = "read" /\ c.stale = {}
        OBVIOUS
      <4> HIDE DEF c
      <4> QED BY <4>2, <4>3
    <3> QED BY <1>8, <3>1, <3>2
  <2>2. LookupHolds(c) /\ c.pc # "fill index" /\ ~ HeldBy(c)
    BY <2>1 DEF LookupHolds
  <2>3. ~ Writing(p)
    BY <2>1 DEF Writing, At
  <2> QED BY <1>6, <2>1, <2>2, <2>3
<1>9. ASSUME NEW p \in Processes, EmptyFile(p) \/ FillFile(p) PROVE Goal
  <2>1. PICK c : /\ call' = [call EXCEPT ![p] = c]
                 /\ UNCHANGED <<index, kept, exposed>>
                 /\ c.pc \in {"fill file", "read"} /\ c.op = "save"
    <3>1. call[p] \in Call /\ call[p].op = "save"
      BY <1>5, <1>9 DEF EmptyFile, FillFile, WellFormed
    <3>2. CASE EmptyFile(p)
      <4> DEFINE c == [call[p] EXCEPT !.pc = "fill file"]
      <4>1. call' = [call EXCEPT ![p] = c] /\ UNCHANGED <<index, kept, exposed>>
        BY <3>2 DEF EmptyFile
      <4>2. c.pc = "fill file" /\ c.op = "save"
        BY <3>1 DEF Call
      <4> HIDE DEF c
      <4> QED BY <4>1, <4>2
    <3>3. CASE FillFile(p)
      <4> DEFINE c == [call[p] EXCEPT !.pc = "read"]
      <4>1. call' = [call EXCEPT ![p] = c] /\ UNCHANGED <<index, kept, exposed>>
        BY <3>3 DEF FillFile
      <4>2. c.pc = "read" /\ c.op = "save"
        BY <3>1 DEF Call
      <4> HIDE DEF c
      <4> QED BY <4>1, <4>2
    <3> QED BY <1>9, <3>2, <3>3
  <2>2. LookupHolds(c) /\ c.pc # "fill index" /\ ~ HeldBy(c)
    BY <2>1 DEF LookupHolds
  <2>3. ~ Writing(p)
    BY <1>7, <1>9 DEF EmptyFile, FillFile
  <2> QED BY <1>6, <2>1, <2>2, <2>3
<1>10. ASSUME NEW p \in Processes, ReadIndexToSave(p) PROVE Goal
  <2> DEFINE c == [call[p] EXCEPT !.pc = "empty index", !.read = readPlanningArtifactIndex]
  <2>1. /\ call' = [call EXCEPT ![p] = c] /\ UNCHANGED <<index, kept>>
        /\ exposed' = (exposed \/ Torn(p))
    BY <1>10 DEF ReadIndexToSave
  <2>2. call[p].op = "save" /\ call[p] \in Call /\ ~ Writing(p)
    BY <1>5, <1>7, <1>10 DEF ReadIndexToSave
  <2>3. c.op = "save" /\ c.pc = "empty index" /\ c.read = index
    BY <1>3, <2>2 DEF Call
  <2> HIDE DEF c
  <2>4. ASSUME ~ exposed'
        PROVE  ~ exposed /\ index = kept /\ \A q \in Others(p) : ~ Writing(q)
    <3>1. ~ exposed /\ \A q \in Others(p) : ~ Writing(q)
      BY <2>1, <2>4 DEF Torn, Writing
    <3> QED BY <1>2, <2>2, <3>1 DEF Undisturbed, Others
  <2>5. LookupHolds(c)
    BY <2>3 DEF LookupHolds
  <2> QED BY <1>6, <2>1, <2>2, <2>3, <2>4, <2>5
<1>11. ASSUME NEW p \in Processes, ReadIndexToLookUp(p) PROVE Goal
  <2> DEFINE key == call[p].entry.key
             found == Matches(readPlanningArtifactIndex, key)
             c == IF found = <<>> THEN NoCall
                  ELSE [call[p] EXCEPT !.pc = "load", !.left = found,
                                       !.read = readPlanningArtifactIndex]
  <2>1. call' = [call EXCEPT ![p] = c] /\ UNCHANGED <<index, kept, exposed>>
    BY <1>11 DEF ReadIndexToLookUp
  <2>2. /\ call[p].op = "lookup" /\ call[p].pc = "read" /\ call[p] \in Call
        /\ LookupHolds(call[p]) /\ ~ Writing(p)
    BY <1>5, <1>7, <1>11 DEF ReadIndexToLookUp
  <2>3. call[p].stale = {}
    BY <2>2 DEF LookupHolds
  <2>4. found = Matches(index, key)
    BY <1>3
  <2> HIDE DEF found
  <2>5. ASSUME c # NoCall
        PROVE  /\ found # <<>> /\ c.pc = "load" /\ c.op = "lookup" /\ c.stale = {}
               /\ c.left = found /\ c.read = index /\ c.entry.key = key
    BY <1>3, <2>2, <2>3, <2>5 DEF Call
  <2> HIDE DEF c, key
  <2>6. c # NoCall => LookupHolds(c)
    <3> SUFFICES ASSUME c # NoCall PROVE LookupHolds(c)
      OBVIOUS
    <3>1. /\ Len(found) = 1
          /\ \A i \in DOMAIN index : index[i].key = key => index[i] = found[1]
      BY <1>2, <2>4, <2>5, OneMatch
    <3> QED BY <2>5, <3>1 DEF LookupHolds
  <2>7. ASSUME ~ exposed', c # NoCall
        PROVE  index = kept /\ \A q \in Others(p) : ~ Writing(q)
    <3>1. Undisturbed
      BY <1>2, <2>1, <2>7
    <3>2. index # <<>>
      BY <2>4, <2>5, <2>7, NoMatchInNothing
    <3> QED BY <2>2, <3>1, <3>2 DEF Undisturbed, Others
  <2> QED BY <1>6, <2>1, <2>2, <2>5, <2>6, <2>7
<1>12. ASSUME NEW p \in Processes, LoadUsable(p) PROVE Goal
  <2>1. call[p].op = "lookup" /\ call[p].pc = "load" /\ LookupHolds(call[p]) /\ ~ Writing(p)
    BY <1>5, <1>7, <1>12 DEF LoadUsable, WellFormed
  <2>2. call[p].stale = {}
    BY <2>1 DEF LookupHolds
  <2>3. call' = [call EXCEPT ![p] = NoCall] /\ UNCHANGED <<index, kept, exposed>>
    BY <1>12, <2>2 DEF LoadUsable
  <2> QED BY <1>6, <2>1, <2>3
<1>13. ASSUME NEW p \in Processes, LoadStale(p) PROVE Goal
  <2> DEFINE c == [call[p] EXCEPT
                     !.stale = call[p].stale \cup {Head(call[p].left).session},
                     !.left = Tail(call[p].left),
                     !.pc = IF Len(call[p].left) = 1 THEN "empty index" ELSE "load"]
  <2>1. call' = [call EXCEPT ![p] = c] /\ UNCHANGED <<index, kept, exposed>>
    BY <1>13 DEF LoadStale
  <2>2. /\ call[p].op = "lookup" /\ call[p].pc = "load" /\ call[p] \in Call
        /\ LookupHolds(call[p]) /\ ~ Writing(p) /\ At(p, "load")
    BY <1>5, <1>7, <1>13 DEF LoadStale, WellFormed
  <2>3. /\ Len(call[p].left) = 1
        /\ \A i \in DOMAIN call[p].read :
             call[p].read[i].key = call[p].entry.key => call[p].read[i] = call[p].left[1]
    BY <2>2 DEF LookupHolds
  <2>4. Head(call[p].left) = call[p].left[1]
    BY <2>3
  <2>5. /\ c.op = "lookup" /\ c.pc = "empty index" /\ c.read = call[p].read
        /\ c.entry = call[p].entry /\ c.overtaken = call[p].overtaken
        /\ call[p].left[1].session \in c.stale
    BY <2>2, <2>3, <2>4 DEF Call
  <2> HIDE DEF c
  <2>6. LookupHolds(c)
    BY <2>3, <2>5 DEF LookupHolds
  <2>7. ASSUME ~ exposed'
        PROVE  /\ ~ c.overtaken => c.read = kept
               /\ \A q \in Others(p) : Writing(q) => c.overtaken
    <3>1. Undisturbed /\ Holding(p)
      BY <1>2, <2>1, <2>2, <2>7 DEF Holding
    <3>2. \A q \in Others(p) : q \in Processes /\ p \in Others(q)
      BY DEF Others
    <3> QED BY <2>5, <3>1, <3>2 DEF Undisturbed
  <2> QED BY <1>6, <2>1, <2>2, <2>5, <2>6, <2>7
<1>14. ASSUME NEW p \in Processes, EmptyIndex(p) PROVE Goal
  <2> DEFINE c == [call[p] EXCEPT !.pc = "fill index"]
             over(q) == call[q].overtaken \/ call[q].pc \in {"load", "empty index"}
  <2>1. /\ call[p].pc = "empty index" /\ call[p] \in Call /\ LookupHolds(call[p])
        /\ At(p, "empty index") /\ call[p] # NoCall /\ ~ Writing(p)
    BY <1>5, <1>7, <1>14 DEF EmptyIndex
  <2>2. /\ index' = <<>> /\ kept' = kept /\ exposed' = (exposed \/ call[p].overtaken)
        /\ \A q \in Processes :
             call'[q] = IF q = p THEN c ELSE IF call[q] = NoCall THEN NoCall
                        ELSE [call[q] EXCEPT !.overtaken = over(q)]
    BY <1>14 DEF EmptyIndex
  <2>3. /\ c # NoCall /\ c.op = call[p].op /\ c.pc = "fill index" /\ c.read = call[p].read
        /\ c.entry = call[p].entry /\ c.stale = call[p].stale
    <3>1. c \in Call
      BY <2>1 DEF Call
    <3> QED BY <2>1, <3>1, AbsenceAssumption DEF Call
  <2>4. LookupHolds(c)
    BY <2>1, <2>3 DEF LookupHolds
  <2>5. ASSUME NEW q \in Processes, q # p, call[q] # NoCall
        PROVE  /\ call'[q].op = call[q].op /\ call'[q].pc = call[q].pc
               /\ call'[q].read = call[q].read /\ call'[q].entry = call[q].entry
               /\ call'[q].stale = call[q].stale /\ call'[q].left = call[q].left
               /\ call[q].pc \in {"load", "empty index"} => call'[q].overtaken
    <3>1. call'[q] = [call[q] EXCEPT !.overtaken = over(q)] /\ call[q] \in Call
      BY <1>2, <2>2, <2>5
    <3>2. call[q].pc \in {"load", "empty index"} => over(q) = TRUE
      OBVIOUS
    <3> HIDE DEF over
    <3> QED BY <3>1, <3>2 DEF Call
  <2> HIDE DEF c, over
  <2>6. \A q \in Processes : call'[q] # NoCall => LookupHolds(call'[q])
    <3> TAKE q \in Processes
    <3> HAVE call'[q] # NoCall
    <3>1. CASE q = p
      BY <2>2, <2>4, <3>1
    <3>2. CASE q # p
      <4>1. call[q] # NoCall /\ LookupHolds(call[q])
        BY <1>2, <2>2, <3>2
      <4> QED BY <2>5, <3>2, <4>1 DEF LookupHolds
    <3> QED BY <3>1, <3>2
  <2>7. ASSUME ~ exposed' PROVE Undisturbed'
    <3>1. Undisturbed /\ Holding(p) /\ ~ call[p].overtaken
      BY <1>2, <2>1, <2>2, <2>7 DEF Holding
    <3>2. \A q \in Processes : ~ Writing(q)
      BY <2>1, <3>1 DEF Undisturbed, Others
    <3>3. call[p].read = kept
      BY <3>1 DEF Undisturbed
    <3>4. Writing(p)' /\ ~ Holding(p)' /\ call'[p].read = kept'
      BY <2>2, <2>3, <3>3 DEF Writing, Holding, At
    <3>5. \A q \in Processes : q # p =>
            ~ Writing(q)' /\ (Holding(q)' => call'[q].overtaken)
      <4> TAKE q \in Processes
      <4> HAVE q # p
      <4>1. CASE call[q] = NoCall
        BY <2>2, <4>1 DEF Writing, Holding, At
      <4>2. CASE call[q] # NoCall
        BY <2>5, <3>2, <4>2 DEF Writing, Holding, At
      <4> QED BY <4>1, <4>2
    <3> QED BY <2>2, <3>4, <3>5 DEF Undisturbed, Others
  <2> QED BY <2>6, <2>7 DEF Goal
<1>15. ASSUME NEW p \in Processes, FillIndex(p) PROVE Goal
  <2>1. /\ call[p].pc = "fill index" /\ WellFormed(call[p])
        /\ SoundCall(call[p], written) /\ LookupHolds(call[p]) /\ Writing(p)
    BY <1>5, <1>15 DEF FillIndex, Writing
  <2>2. /\ call' = [call EXCEPT ![p] = NoCall] /\ exposed' = exposed
        /\ kept' = KeptAfter(call[p])
    BY <1>15 DEF FillIndex
  <2>3. \A q \in Processes : call'[q] = IF q = p THEN NoCall ELSE call[q]
    BY <1>2, <2>2
  <2>4. ASSUME ~ exposed' PROVE Undisturbed'
    <3>1. /\ Undisturbed /\ call[p].read = kept
          /\ \A q \in Others(p) : ~ Writing(q) /\ (Holding(q) => call[q].overtaken)
      BY <1>2, <2>1, <2>2, <2>4 DEF Undisturbed
    <3>2. SoundList(kept, written)
      BY <2>1, <3>1 DEF SoundCall
    <3>3. index' = kept'
      <4>1. CASE call[p].op = "save"
        <5>1. index' = IndexWith(call[p].entry, kept)
          BY <1>15, <3>1, <4>1 DEF FillIndex
        <5>2. kept' = slice(Inserted(call[p].entry, OfOtherPlans(kept, call[p].entry.key)),
                              RetentionLimit)
          BY <2>2, <4>1 DEF KeptAfter
        <5>3. call[p].entry \in Entry
          BY <2>1, <4>1 DEF WellFormed
        <5> QED BY <3>2, <5>1, <5>2, <5>3, SaveIsInOrder
      <4>2. CASE call[p].op = "lookup"
        <5>1. index' = IndexWithout(call[p].entry.key, call[p].stale, kept)
          BY <1>15, <3>1, <4>2 DEF FillIndex
        <5>2. kept' = OfOtherPlans(kept, call[p].entry.key)
          BY <2>2, <4>2 DEF KeptAfter
        <5>3. \A i \in DOMAIN kept :
                kept[i].key = call[p].entry.key => kept[i].session \in call[p].stale
          BY <2>1, <3>1, <4>2 DEF LookupHolds
        <5> QED BY <3>2, <5>1, <5>2, <5>3, RemovalIsInOrder
      <4> QED BY <2>1, <4>1, <4>2 DEF WellFormed, Call
    <3>4. ASSUME NEW q \in Processes
          PROVE  ~ Writing(q)' /\ (Holding(q)' => call'[q].overtaken)
      BY <2>3, <3>1 DEF Writing, Holding, At, Others
    <3> QED BY <3>3, <3>4 DEF Undisturbed
  <2>5. \A q \in Processes : call'[q] # NoCall => LookupHolds(call'[q])
    BY <1>2, <2>3
  <2> QED BY <2>4, <2>5 DEF Goal
<1>16. ASSUME NEW p \in Processes, Interrupt(p) PROVE Goal
  <2>1. /\ call' = [call EXCEPT ![p] = NoCall] /\ UNCHANGED <<index, kept>>
        /\ exposed' = (exposed \/ call[p].pc = "fill index")
    BY <1>16 DEF Interrupt
  <2>2. ~ exposed' => ~ exposed /\ ~ Writing(p)
    BY <2>1 DEF Writing, At
  <2> QED BY <1>6, <2>1, <2>2
<1>17. ASSUME UNCHANGED <<index, call, kept, exposed>> PROVE Goal
  BY <1>2, <1>17 DEF Goal, Undisturbed, Writing, Holding, At
<1>18. CASE Tick
  BY <1>17, <1>18 DEF Tick
<1>19. CASE UNCHANGED vars
  BY <1>17, <1>19 DEF vars
<1> QED
  BY <1>8, <1>9, <1>10, <1>11, <1>12, <1>13, <1>14, <1>15, <1>16, <1>18, <1>19 DEF Next

\* Unless a write of the index was interrupted, read halfway, or made from a
\* read that another has overtaken, the index holds exactly what saves and
\* lookups that follow one another would have kept: any number of processes,
\* plans and sessions may be at work.
THEOREM NothingLostWithoutARace == Spec => []LossNeedsARace
<1>1. NoLoss => LossNeedsARace
  BY DEF NoLoss, Undisturbed, Writing, LossNeedsARace
<1>2. Spec => []NoLoss
  BY NoLossInit, NoLossStep, PTL DEF Spec
<1> QED BY <1>1, <1>2, PTL


=============================================================================
