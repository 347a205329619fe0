--------------------------- MODULE Ordering_proofs ---------------------------
(***************************************************************************)
(* What sorting a finite set gives, for every order of it: all of its      *)
(* members, each once, in the place that counts those ahead of it. These   *)
(* lemmas serve the proofs about PlanningIndex and about AgentCommands.    *)
(***************************************************************************)
EXTENDS Ordering, FiniteSetTheorems, SequenceTheorems, TLAPS

\* ahead[x] is what precedes x in a strict total order of a finite set.
Orders(ahead) ==
  /\ IsFiniteSet(DOMAIN ahead)
  /\ \A x \in DOMAIN ahead : ahead[x] \subseteq DOMAIN ahead \ {x}
  /\ \A x, y \in DOMAIN ahead : /\ x \in ahead[y] => ahead[x] \subseteq ahead[y]
                                /\ x = y \/ x \in ahead[y] \/ y \in ahead[x]

LEMMA CountInterval ==
  \A a, b \in Int : /\ IsFiniteSet(a .. b)
                    /\ Cardinality(a .. b) = IF a > b THEN 0 ELSE b - a + 1
BY FS_Interval

LEMMA CountTo == \A n \in Nat : IsFiniteSet(1 .. n) /\ Cardinality(1 .. n) = n
<1> TAKE n \in Nat
<1>1. 1 \in Int /\ n \in Int
  OBVIOUS
<1>2. IsFiniteSet(1 .. n) /\ Cardinality(1 .. n) = IF 1 > n THEN 0 ELSE n - 1 + 1
  BY <1>1, CountInterval
<1> QED BY <1>2

LEMMA InOrderPlaces ==
  ASSUME NEW ahead, Orders(ahead)
  PROVE  LET S     == DOMAIN ahead
             size  == Cardinality(S)
             place == InOrder(ahead)
         IN  /\ size \in Nat
             /\ place \in [1 .. size -> S]
             /\ \A n \in 1 .. size : Cardinality(ahead[place[n]]) = n - 1
             /\ \A x \in S : /\ Cardinality(ahead[x]) + 1 \in 1 .. size
                             /\ place[Cardinality(ahead[x]) + 1] = x
             /\ \A m, n \in 1 .. size : m < n <=> place[m] \in ahead[place[n]]
<1> DEFINE S == DOMAIN ahead
           size == Cardinality(S)
           last == size - 1
           rank == [x \in S |-> Cardinality(ahead[x])]
           place == InOrder(ahead)
<1>1. IsFiniteSet(S) /\ size \in Nat
  BY FS_CardinalityType DEF Orders
<1>2. ASSUME NEW x \in S
      PROVE  IsFiniteSet(ahead[x]) /\ Cardinality(ahead[x]) \in 0 .. last
  <2>1. ahead[x] \subseteq S /\ x \in S /\ x \notin ahead[x]
    BY DEF Orders
  <2>2. IsFiniteSet(ahead[x])
    BY <1>1, <2>1, FS_Subset
  <2>3. IsFiniteSet(S \ {x}) /\ Cardinality(S \ {x}) = size - 1
    BY <1>1, FS_RemoveElement
  <2>4. ahead[x] \subseteq S \ {x}
    BY <2>1
  <2>5. Cardinality(ahead[x]) <= Cardinality(S \ {x})
    BY <2>3, <2>4, FS_Subset
  <2>6. Cardinality(ahead[x]) \in Nat
    BY <2>2, FS_CardinalityType
  <2> QED BY <1>1, <2>2, <2>3, <2>5, <2>6
<1>3. ASSUME NEW x \in S, NEW y \in S, x \in ahead[y]
      PROVE  Cardinality(ahead[x]) < Cardinality(ahead[y])
  <2>1. ahead[x] \subseteq ahead[y] /\ ahead[x] # ahead[y]
    BY <1>3 DEF Orders
  <2>2. IsFiniteSet(ahead[y]) /\ Cardinality(ahead[x]) \in Int /\ Cardinality(ahead[y]) \in Int
    BY <1>2
  <2>3. /\ Cardinality(ahead[x]) <= Cardinality(ahead[y])
        /\ Cardinality(ahead[x]) # Cardinality(ahead[y])
    BY <2>1, <2>2, FS_Subset
  <2> QED BY <2>2, <2>3
<1>4. rank \in Injection(S, 0 .. last)
  <2>1. rank \in [S -> 0 .. last]
    BY <1>2
  <2>2. \A x, y \in S : rank[x] = rank[y] => x = y
    BY <1>2, <1>3 DEF Orders
  <2> QED BY <2>1, <2>2 DEF Injection, IsInjective
<1>5. IsFiniteSet(0 .. last) /\ Cardinality(0 .. last) = size
  <2>1. 0 \in Int /\ last \in Int
    BY <1>1
  <2> HIDE DEF last
  <2>2. IsFiniteSet(0 .. last) /\ Cardinality(0 .. last) = IF 0 > last THEN 0 ELSE last - 0 + 1
    BY <2>1, CountInterval
  <2> QED BY <1>1, <2>2 DEF last
<1>6. rank \in Surjection(S, 0 .. last)
  BY <1>4, <1>5, FS_Injection
<1>7. ASSUME NEW n \in 1 .. size
      PROVE  place[n] \in S /\ Cardinality(ahead[place[n]]) = n - 1
  <2>1. n - 1 \in 0 .. last
    BY <1>1
  <2>2. \E x \in S : rank[x] = n - 1
    BY <1>6, <2>1 DEF Surjection
  <2>3. place[n] = CHOOSE x \in S : Cardinality(ahead[x]) = n - 1
    BY DEF InOrder
  <2> HIDE DEF place
  <2> QED BY <2>2, <2>3
<1>8. place \in [1 .. size -> S]
  <2>1. place = [n \in 1 .. size |-> place[n]]
    BY DEF InOrder
  <2> HIDE DEF place
  <2> QED BY <1>7, <2>1
<1> HIDE DEF place
<1>9. ASSUME NEW x \in S
      PROVE  Cardinality(ahead[x]) + 1 \in 1 .. size /\ place[Cardinality(ahead[x]) + 1] = x
  <2> DEFINE n == Cardinality(ahead[x]) + 1
  <2>1. n \in 1 .. size
    BY <1>1, <1>2
  <2>2. rank[place[n]] = rank[x] /\ place[n] \in S
    BY <1>2, <1>7, <2>1
  <2>3. place[n] = x
    BY <1>4, <2>2 DEF Injection, IsInjective
  <2> QED BY <2>1, <2>3
<1>10. ASSUME NEW m \in 1 .. size, NEW n \in 1 .. size
       PROVE  m < n <=> place[m] \in ahead[place[n]]
  <2>1. /\ place[m] \in S /\ place[n] \in S
        /\ Cardinality(ahead[place[m]]) = m - 1 /\ Cardinality(ahead[place[n]]) = n - 1
    BY <1>7
  <2>2. place[m] \in ahead[place[n]] => m < n
    BY <1>3, <2>1
  <2>3. place[n] \in ahead[place[m]] => n < m
    BY <1>3, <2>1
  <2>4. m < n => place[m] \in ahead[place[n]]
    BY <2>1, <2>3 DEF Orders
  <2> QED BY <2>2, <2>4
<1> QED BY <1>1, <1>7, <1>8, <1>9, <1>10 DEF place

LEMMA SliceIsBeginning ==
  ASSUME NEW S, NEW seq \in Seq(S), NEW n \in Nat
  PROVE  LET size == least(n, Len(seq))
         IN  /\ size \in Nat /\ size <= n /\ size <= Len(seq)
             /\ slice(seq, n) \in Seq(S)
             /\ Len(slice(seq, n)) = size
             /\ DOMAIN slice(seq, n) = 1 .. size
             /\ \A i \in 1 .. size : i \in DOMAIN seq /\ slice(seq, n)[i] = seq[i]
             /\ Len(seq) <= n => slice(seq, n) = seq
<1> DEFINE size == least(n, Len(seq))
           list == slice(seq, n)
<1>0. Len(seq) \in Nat /\ DOMAIN seq = 1 .. Len(seq)
  OBVIOUS
<1>1. size \in Nat /\ size <= n /\ size <= Len(seq)
  BY <1>0 DEF least
<1>7. Len(seq) <= n => size = Len(seq)
  <2>1. \A len \in Nat : len <= n => least(n, len) = len
    BY DEF least
  <2> QED BY <1>0, <2>1
<1>2. list = SubSeq(seq, 1, size)
  BY DEF slice
<1>3. \A i \in 1 .. size : seq[i] \in S
  BY <1>0, <1>1, LenProperties
<1>4. Len(seq) <= n => list = seq
  BY <1>0, <1>2, <1>7, SubSeqFull
<1> HIDE DEF size, list
<1>5. /\ list \in Seq(S) /\ Len(list) = size
      /\ \A i \in 1 .. size : list[i] = seq[i]
  <2>1. 1 \in Int /\ size \in Int
    BY <1>1
  <2>2. /\ SubSeq(seq, 1, size) \in Seq(S)
        /\ Len(SubSeq(seq, 1, size)) = IF 1 <= size THEN size - 1 + 1 ELSE 0
        /\ \A i \in 1 .. size - 1 + 1 : SubSeq(seq, 1, size)[i] = seq[1 + i - 1]
    BY <1>3, <2>1, SubSeqProperties
  <2> QED BY <1>1, <1>2, <2>2
<1>6. DOMAIN list = 1 .. size /\ \A i \in 1 .. size : i \in DOMAIN seq
  BY <1>0, <1>1, <1>5
<1> QED BY <1>1, <1>4, <1>5, <1>6 DEF size, list


\* A sequence without repetitions has as many elements as it is long.
LEMMA DistinctElements ==
  ASSUME NEW S, NEW seq \in Seq(S),
         \A i, j \in 1 .. Len(seq) : seq[i] = seq[j] => i = j
  PROVE  /\ Range(seq) \subseteq S
         /\ IsFiniteSet(Range(seq))
         /\ Cardinality(Range(seq)) = Len(seq)
<1> DEFINE all == {seq[i] : i \in DOMAIN seq}
<1>1. Len(seq) \in Nat /\ DOMAIN seq = 1 .. Len(seq) /\ seq \in [1 .. Len(seq) -> S]
  OBVIOUS
<1>2. IsFiniteSet(1 .. Len(seq)) /\ Cardinality(1 .. Len(seq)) = Len(seq)
  BY <1>1, CountTo
<1>3. seq \in Injection(1 .. Len(seq), all)
  <2>1. seq \in [1 .. Len(seq) -> all]
    BY <1>1
  <2> QED BY <2>1 DEF Injection, IsInjective
<1>4. seq \in Surjection(1 .. Len(seq), all)
  <2>1. seq \in [1 .. Len(seq) -> all]
    BY <1>1
  <2>2. \A x \in all : \E i \in 1 .. Len(seq) : seq[i] = x
    BY <1>1
  <2> QED BY <2>1, <2>2 DEF Surjection
<1>5. IsFiniteSet(all) /\ (Cardinality(all) = Cardinality(1 .. Len(seq)) <=> seq \in Injection(1 .. Len(seq), all))
  BY <1>2, <1>4, FS_Surjection
<1>6. all = Range(seq) /\ all \subseteq S
  BY <1>1 DEF Range
<1> QED BY <1>2, <1>3, <1>5, <1>6

\* Those with fewer than n ahead of them.
Leading(ahead, n) == {x \in DOMAIN ahead : Cardinality(ahead[x]) < n}

\* The first n in order are those with fewer than n ahead of them.
LEMMA FirstInOrder ==
  ASSUME NEW ahead, Orders(ahead), NEW n \in Nat
  PROVE  LET S    == DOMAIN ahead
             list == slice(InOrder(ahead), n)
         IN  /\ InOrder(ahead) \in Seq(S) /\ Len(InOrder(ahead)) = Cardinality(S)
             /\ list \in Seq(S) /\ Len(list) = least(n, Cardinality(S))
             /\ \A i, j \in 1 .. Len(list) : list[i] = list[j] => i = j
             /\ \A x \in S : Cardinality(ahead[x]) < n =>
                  /\ Cardinality(ahead[x]) + 1 \in 1 .. Len(list)
                  /\ list[Cardinality(ahead[x]) + 1] = x
             /\ Range(list) = Leading(ahead, n)
<1> DEFINE S == DOMAIN ahead
           size == Cardinality(S)
           seq == InOrder(ahead)
           list == slice(seq, n)
<1>1. /\ size \in Nat
      /\ seq \in [1 .. size -> S]
      /\ \A i \in 1 .. size : Cardinality(ahead[seq[i]]) = i - 1
      /\ \A x \in S : /\ Cardinality(ahead[x]) + 1 \in 1 .. size
                      /\ seq[Cardinality(ahead[x]) + 1] = x
  BY InOrderPlaces
<1>0. \A x \in S : Cardinality(ahead[x]) \in Nat
  <2> TAKE x \in S
  <2>1. IsFiniteSet(ahead[x])
    BY FS_Subset DEF Orders
  <2> QED BY <2>1, FS_CardinalityType
<1> HIDE DEF seq, size
<1>2. seq \in Seq(S) /\ Len(seq) = size
  BY <1>1
<1>3. /\ list \in Seq(S) /\ Len(list) = least(n, size) /\ DOMAIN list = 1 .. Len(list)
      /\ \A i \in 1 .. Len(list) : i \in DOMAIN seq /\ list[i] = seq[i]
      /\ Len(list) \in Nat /\ Len(list) <= n /\ Len(list) <= size
  <2> DEFINE len == least(n, Len(seq))
  <2>1. /\ len \in Nat /\ len <= n /\ len <= Len(seq)
        /\ list \in Seq(S)
        /\ Len(list) = len
        /\ DOMAIN list = 1 .. len
        /\ \A i \in 1 .. len : i \in DOMAIN seq /\ list[i] = seq[i]
    <3>1. ASSUME NEW T, seq \in Seq(T)
          PROVE  /\ least(n, Len(seq)) \in Nat
                 /\ least(n, Len(seq)) <= n /\ least(n, Len(seq)) <= Len(seq)
                 /\ slice(seq, n) \in Seq(T)
                 /\ Len(slice(seq, n)) = least(n, Len(seq))
                 /\ DOMAIN slice(seq, n) = 1 .. least(n, Len(seq))
                 /\ \A i \in 1 .. least(n, Len(seq)) : i \in DOMAIN seq /\ slice(seq, n)[i] = seq[i]
      BY ONLY <3>1, n \in Nat, SliceIsBeginning
    <3> QED BY <1>2, <3>1
  <2>2. len = least(n, size)
    BY <1>2
  <2> HIDE DEF list, len
  <2> QED BY <1>2, <2>1, <2>2
<1>4. n < size => Len(list) = n
  BY <1>1, <1>3 DEF least
<1>5. ~(n < size) => Len(list) = size
  BY <1>1, <1>3 DEF least
<1> HIDE DEF list
<1>6. ASSUME NEW i \in 1 .. Len(list)
      PROVE  list[i] \in S /\ Cardinality(ahead[list[i]]) = i - 1
  <2>1. i \in 1 .. size
    BY <1>1, <1>3
  <2> QED BY <2>1, <1>1, <1>3
<1>7. ASSUME NEW x \in S, Cardinality(ahead[x]) < n
      PROVE  /\ Cardinality(ahead[x]) + 1 \in 1 .. Len(list)
             /\ list[Cardinality(ahead[x]) + 1] = x
  <2> DEFINE k == Cardinality(ahead[x])
  <2>1. k \in Nat /\ k < n /\ k + 1 \in 1 .. size /\ seq[k + 1] = x
    BY <1>0, <1>1, <1>7
  <2> HIDE DEF k
  <2>2. k + 1 \in 1 .. Len(list)
    BY <1>1, <1>3, <1>4, <1>5, <2>1
  <2>3. list[k + 1] = x
    BY <1>3, <2>1, <2>2
  <2> QED BY <2>2, <2>3 DEF k
<1>8. \A i, j \in 1 .. Len(list) : list[i] = list[j] => i = j
  <2> SUFFICES ASSUME NEW i \in 1 .. Len(list), NEW j \in 1 .. Len(list), list[i] = list[j]
               PROVE  i = j
    OBVIOUS
  <2>1. i - 1 = j - 1
    BY <1>6
  <2> QED BY <2>1
<1>9. Range(list) = Leading(ahead, n)
  <2>1. \A i \in 1 .. Len(list) : list[i] \in S /\ Cardinality(ahead[list[i]]) < n
    <3> TAKE i \in 1 .. Len(list)
    <3>1. list[i] \in S /\ Cardinality(ahead[list[i]]) = i - 1
      BY <1>6
    <3> QED BY <1>3, <3>1
  <2>2. \A x \in S : Cardinality(ahead[x]) < n => \E i \in 1 .. Len(list) : list[i] = x
    BY <1>7
  <2> QED BY <1>3, <2>1, <2>2 DEF Range, Leading
<1> QED BY <1>2, <1>3, <1>7, <1>8, <1>9 DEF list, seq, size

\* All of them are in order, each once.
LEMMA AllInOrder ==
  ASSUME NEW ahead, Orders(ahead)
  PROVE  LET S    == DOMAIN ahead
             list == InOrder(ahead)
         IN  /\ list \in Seq(S) /\ Len(list) = Cardinality(S)
             /\ Range(list) = S
<1> DEFINE S == DOMAIN ahead
           list == InOrder(ahead)
<1>1. /\ list \in [1 .. Cardinality(S) -> S] /\ Cardinality(S) \in Nat
      /\ \A x \in S : \E i \in 1 .. Cardinality(S) : list[i] = x
  BY InOrderPlaces
<1> HIDE DEF list
<1>2. list \in Seq(S) /\ Len(list) = Cardinality(S) /\ DOMAIN list = 1 .. Cardinality(S)
  BY <1>1
<1>3. Range(list) = S
  BY <1>1, <1>2 DEF Range
<1> QED BY <1>2, <1>3 DEF list

\* Keys that are compared one part after the other, larger parts first, order
\* whatever has keys of its own.
LEMMA KeysOrder ==
  ASSUME NEW S, IsFiniteSet(S), NEW key \in [S -> [1 .. 5 -> Int]],
         \A x, y \in S : key[x] = key[y] => x = y
  PROVE  Orders([x \in S |-> {y \in S : \E i \in 1 .. 5 :
                                          /\ key[y][i] > key[x][i]
                                          /\ \A j \in 1 .. i - 1 : key[y][j] = key[x][j]}])
<1> DEFINE Before(y, x) == \E i \in 1 .. 5 : /\ key[y][i] > key[x][i]
                                             /\ \A j \in 1 .. i - 1 : key[y][j] = key[x][j]
           ahead == [x \in S |-> {y \in S : Before(y, x)}]
<1>0. \A x \in S : \A i \in 1 .. 5 : key[x][i] \in Int
  OBVIOUS
<1>1. \A x \in S : ~Before(x, x)
  BY <1>0
<1>2. ASSUME NEW x \in S, NEW y \in S, NEW z \in S, Before(x, y), Before(y, z)
      PROVE  Before(x, z)
  <2>1. PICK i \in 1 .. 5 : key[x][i] > key[y][i] /\ \A j \in 1 .. i - 1 : key[x][j] = key[y][j]
    BY <1>2
  <2>2. PICK k \in 1 .. 5 : key[y][k] > key[z][k] /\ \A j \in 1 .. k - 1 : key[y][j] = key[z][j]
    BY <1>2
  <2>3. CASE i < k
    <3>1. key[x][i] > key[z][i] /\ \A j \in 1 .. i - 1 : key[x][j] = key[z][j]
      BY <1>0, <2>1, <2>2, <2>3
    <3> QED BY <3>1
  <2>4. CASE i = k
    <3>1. key[x][i] > key[z][i] /\ \A j \in 1 .. i - 1 : key[x][j] = key[z][j]
      BY <1>0, <2>1, <2>2, <2>4
    <3> QED BY <3>1
  <2>5. CASE i > k
    <3>1. key[x][k] > key[z][k] /\ \A j \in 1 .. k - 1 : key[x][j] = key[z][j]
      BY <1>0, <2>1, <2>2, <2>5
    <3> QED BY <3>1
  <2> QED BY <2>3, <2>4, <2>5
<1>3. ASSUME NEW x \in S, NEW y \in S
      PROVE  x = y \/ Before(x, y) \/ Before(y, x)
  <2>1. x = y \/ \E i \in 1 .. 5 : key[x][i] # key[y][i] /\ \A j \in 1 .. i - 1 : key[x][j] = key[y][j]
    <3> SUFFICES ASSUME \A i \in 1 .. 5 : key[x][i] = key[y][i] \/ \E j \in 1 .. i - 1 : key[x][j] # key[y][j]
                 PROVE  x = y
      OBVIOUS
    <3>1. key[x][1] = key[y][1]
      OBVIOUS
    <3>2. key[x][2] = key[y][2]
      BY <3>1
    <3>3. key[x][3] = key[y][3]
      BY <3>1, <3>2
    <3>4. key[x][4] = key[y][4]
      BY <3>1, <3>2, <3>3
    <3>5. key[x][5] = key[y][5]
      BY <3>1, <3>2, <3>3, <3>4
    <3>6. \A i \in 1 .. 5 : key[x][i] = key[y][i]
      BY <3>1, <3>2, <3>3, <3>4, <3>5
    <3>7. key[x] = key[y]
      BY <3>6
    <3> QED BY <3>7
  <2>2. CASE x # y
    <3>1. PICK i \in 1 .. 5 : key[x][i] # key[y][i] /\ \A j \in 1 .. i - 1 : key[x][j] = key[y][j]
      BY <2>1, <2>2
    <3>2. key[x][i] > key[y][i] \/ key[y][i] > key[x][i]
      BY <1>0, <3>1
    <3> QED BY <3>1, <3>2
  <2> QED BY <2>2
<1> HIDE DEF Before
<1>4. DOMAIN ahead = S /\ \A x, y \in S : y \in ahead[x] <=> Before(y, x)
  OBVIOUS
<1>5. \A x \in S : ahead[x] \subseteq S
  OBVIOUS
<1> HIDE DEF ahead
<1>6. Orders(ahead)
  <2>1. \A x \in S : ahead[x] \subseteq S \ {x}
    BY <1>1, <1>4, <1>5
  <2>2. \A x, y \in S : x \in ahead[y] => ahead[x] \subseteq ahead[y]
    BY <1>2, <1>4, <1>5
  <2>3. \A x, y \in S : x = y \/ x \in ahead[y] \/ y \in ahead[x]
    BY <1>3, <1>4
  <2> QED BY <1>4, <2>1, <2>2, <2>3 DEF Orders
<1> QED BY <1>6 DEF ahead, Before

=============================================================================
