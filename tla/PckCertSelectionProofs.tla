----------------------- MODULE PckCertSelectionProofs -----------------------
(***************************************************************************)
(* What selectBestPckCert selects, for TCBs of any components (the code    *)
(* has sixteen of CPUSVN, and PCESVN), and any certificates and levels.    *)
(* A certificate is in the first bucket it reaches (InFirstReached), so    *)
(* where levels can be compared the first bucket with a certificate that   *)
(* fits is of the highest level; where certificates can be compared each   *)
(* bucket is sorted (CertsSorted), so the first one that fits is the best. *)
(***************************************************************************)
EXTENDS PckCertSelection, FiniteSetTheorems, WellFoundedInduction, TLAPS

Outcomes == {"none", "refused", "not found", "selected"}

Shape ==
    /\ raw \in Tcbs
    /\ certs \in Seq(Tcbs)
    /\ levels \in Seq(LevelTcbs)
    /\ buckets \in Seq([tcb : LevelTcbs, certs : Seq(Range(certs))])
    /\ rest \in Seq(Range(certs))
    /\ placed \in 0..Len(certs)
    /\ outcome \in Outcomes
    /\ buckets = <<>> => placed = 0 /\ rest = <<>>

\* Certificate c is in a bucket, or reaches no level.
InABucket(c) == \E b \in 1..Len(buckets) : \E j \in 1..Len(buckets[b].certs) :
                    buckets[b].certs[j] = c
InRest(c)    == \E j \in 1..Len(rest) : rest[j] = c

AllPlaced == \A i \in 1..placed : InABucket(certs[i]) \/ InRest(certs[i])

BucketsOfLevels ==
    buckets # <<>> =>
        /\ \A l \in Range(levels) : \E b \in 1..Len(buckets) : buckets[b].tcb = l
        /\ \A b \in 1..Len(buckets) : buckets[b].tcb \in Range(levels)
        /\ (\A l, m \in Range(levels) : Comparable(l, m)) =>
               \A a, b \in 1..Len(buckets) : a < b => Reaches(buckets[a].tcb, buckets[b].tcb)

InFirstReached ==
    /\ \A b \in 1..Len(buckets) : \A j \in 1..Len(buckets[b].certs) :
           /\ Reaches(buckets[b].certs[j], buckets[b].tcb)
           /\ \A a \in 1..(b - 1) : ~Reaches(buckets[b].certs[j], buckets[a].tcb)
    /\ \A j \in 1..Len(rest), a \in 1..Len(buckets) : ~Reaches(rest[j], buckets[a].tcb)

CertsSorted ==
    (\A c, d \in Range(certs) : Comparable(c, d)) =>
        \A b \in 1..Len(buckets) : \A i, j \in 1..Len(buckets[b].certs) :
            i < j => Reaches(buckets[b].certs[i], buckets[b].certs[j])

SelectedFirst ==
    outcome \in {"not found", "selected"} =>
        /\ buckets # <<>> /\ placed = Len(certs)
        /\ result = FirstFit(Lists)
        /\ outcome = "selected" <=> result # <<>>

SelectionInvariant ==
    /\ Shape /\ AllPlaced /\ BucketsOfLevels
    /\ InFirstReached /\ CertsSorted /\ SelectedFirst

-----------------------------------------------------------------------------
(* Numbers and TCBs.                                                        *)

\* Min of a set of natural numbers that is not empty.
LEMMA Least ==
  ASSUME NEW S \in SUBSET Nat, S # {}
  PROVE  Min(S) \in S /\ \A n \in S : Min(S) <= n
<1>1. PICK n \in S : \A m \in S : ~(<<m, n>> \in OpToRel(<, Nat))
  BY WFMin, NatLessThanWellFounded
<1>2. ASSUME NEW m \in S PROVE n <= m
  <2>1. ~(m < n)
    BY <1>1 DEF OpToRel
  <2> QED BY <2>1
<1> QED BY <1>2 DEF Min

\* Reaching is transitive, and a TCB reaches itself.
LEMMA ReachesTransitive ==
  ASSUME NEW a \in Tcbs \cup LevelTcbs, NEW b \in Tcbs \cup LevelTcbs,
         NEW c \in Tcbs \cup LevelTcbs, Reaches(a, b), Reaches(b, c)
  PROVE  Reaches(a, c)
<1> SUFFICES ASSUME NEW k \in Components PROVE a[k] >= c[k]
  BY DEF Reaches
<1>1. a[k] \in Nat /\ b[k] \in Nat /\ c[k] \in Nat
  BY ConstantsAssumption DEF ConstantsAssumption
<1> QED BY <1>1 DEF Reaches

LEMMA ReachesItself ==
  ASSUME NEW a \in Tcbs \cup LevelTcbs
  PROVE  Reaches(a, a)
<1> SUFFICES ASSUME NEW k \in Components PROVE a[k] >= a[k]
  BY DEF Reaches
<1>1. a[k] \in Nat
  BY ConstantsAssumption DEF ConstantsAssumption
<1> QED BY <1>1

\* The elements of a list after an insertion.
LEMMA Inserted ==
  ASSUME NEW S, NEW s \in Seq(S), NEW c \in S, NEW i \in 1..(Len(s) + 1)
  PROVE  /\ InsertAt(s, i, c) \in Seq(S)
         /\ Len(InsertAt(s, i, c)) = Len(s) + 1
         /\ \A j \in 1..(Len(s) + 1) :
                InsertAt(s, i, c)[j] = IF j < i THEN s[j] ELSE IF j = i THEN c ELSE s[j - 1]
<1> DEFINE before == SubSeq(s, 1, i - 1)
           after  == SubSeq(s, i, Len(s))
<1>1. before \in Seq(S) /\ Len(before) = i - 1 /\ \A j \in 1..(i - 1) : before[j] = s[j]
  OBVIOUS
<1>2. after \in Seq(S) /\ Len(after) = Len(s) + 1 - i
      /\ \A j \in 1..(Len(s) + 1 - i) : after[j] = s[i + j - 1]
  OBVIOUS
<1>3. InsertAt(s, i, c) = (before \o <<c>>) \o after
  BY DEF InsertAt
<1> HIDE DEF before, after
<1>4. (before \o <<c>>) \in Seq(S) /\ Len(before \o <<c>>) = i
      /\ \A j \in 1..i : (before \o <<c>>)[j] = IF j < i THEN s[j] ELSE c
  BY <1>1
<1> DEFINE first == before \o <<c>>
<1> HIDE DEF first
<1>5. (first \o after) \in Seq(S) /\ Len(first \o after) = Len(s) + 1
  BY <1>2, <1>4 DEF first
<1>6. ASSUME NEW j \in 1..(Len(s) + 1)
      PROVE  (first \o after)[j] = IF j < i THEN s[j] ELSE IF j = i THEN c ELSE s[j - 1]
  <2>1. CASE j <= i
    BY <1>2, <1>4, <2>1 DEF first
  <2>2. CASE j > i
    <3>1. (first \o after)[j] = after[j - i] /\ j - i \in 1..(Len(s) + 1 - i)
      BY <1>2, <1>4, <2>2 DEF first
    <3>2. after[j - i] = s[i + (j - i) - 1]
      BY <1>2, <3>1
    <3>3. i + (j - i) - 1 = j - 1 /\ ~(j < i) /\ j # i
      BY <2>2
    <3> QED BY <3>1, <3>2, <3>3
  <2>3. j <= i \/ j > i
    OBVIOUS
  <2> QED BY <2>1, <2>2, <2>3
<1> QED
  BY <1>3, <1>5, <1>6 DEF first

\* Where a certificate is inserted is a place in the list, or its end; where it
\* can be compared with all of the list, it is before the first one it reaches.
LEMMA IndexInList ==
  ASSUME NEW S, NEW s \in Seq(S), NEW c
  PROVE  /\ IndexToInsert(s, c) \in 1..(Len(s) + 1)
         /\ (\A i \in 1..Len(s) : Comparable(c, s[i])) =>
                /\ \A i \in 1..(IndexToInsert(s, c) - 1) : ~Reaches(c, s[i])
                /\ IndexToInsert(s, c) <= Len(s) => Reaches(c, s[IndexToInsert(s, c)])
<1>1. CASE ~\E i \in 1..Len(s) : Reaches(c, s[i])
  BY <1>1 DEF IndexToInsert
<1>2. CASE \E i \in 1..Len(s) : Reaches(c, s[i])
  <2> DEFINE n == FirstNotAbove(s, c)
             skipped == {i \in 1..(n - 1) : ~Comparable(c, s[i])}
  <2>1. n \in 1..Len(s) /\ Reaches(c, s[n]) /\ \A i \in 1..Len(s) : Reaches(c, s[i]) => n <= i
    <3> DEFINE R == {i \in 1..Len(s) : Reaches(c, s[i])}
    <3>1. R \in SUBSET Nat /\ R # {}
      BY <1>2
    <3>2. Min(R) \in R /\ \A i \in R : Min(R) <= i
      BY <3>1, Least
    <3> QED BY <3>2 DEF FirstNotAbove
  <2>2. IndexToInsert(s, c) = n - Cardinality(skipped)
    BY <1>2 DEF IndexToInsert, SkippedBefore
  <2> HIDE DEF n
  <2>3. IsFiniteSet(1..(n - 1)) /\ Cardinality(1..(n - 1)) = n - 1
    <3> DEFINE m == n - 1
    <3>1. m \in Nat
      BY <2>1
    <3> HIDE DEF m
    <3>2. IsFiniteSet(1..m) /\ Cardinality(1..m) = IF 1 > m THEN 0 ELSE m - 1 + 1
      BY <3>1, FS_Interval
    <3>3. Cardinality(1..m) = m
      BY <3>1, <3>2
    <3> QED BY <3>2, <3>3 DEF m
  <2>4. Cardinality(skipped) \in Nat /\ Cardinality(skipped) <= n - 1
    BY <2>3, FS_Subset, FS_CardinalityType
  <2>5. ASSUME \A i \in 1..Len(s) : Comparable(c, s[i]) PROVE IndexToInsert(s, c) = n
    <3>1. skipped = {}
      BY <2>1, <2>5
    <3>2. Cardinality(skipped) = 0
      BY <3>1, FS_EmptySet
    <3> HIDE DEF skipped
    <3> QED BY <2>1, <2>2, <3>2
  <2> HIDE DEF skipped
  <2> DEFINE k == IndexToInsert(s, c)
  <2> HIDE DEF k
  <2>6. k \in 1..(Len(s) + 1)
    BY <2>1, <2>2, <2>4 DEF k
  <2>7. ASSUME k = n
        PROVE  (\A i \in 1..(k - 1) : ~Reaches(c, s[i])) /\ Reaches(c, s[k])
    <3>1. ASSUME NEW i \in 1..(k - 1) PROVE ~Reaches(c, s[i])
      <4>1. i \in 1..Len(s) /\ ~(n <= i)
        BY <2>1, <2>7, <3>1
      <4> QED BY <2>1, <4>1
    <3> QED BY <2>1, <2>7, <3>1
  <2> QED BY <2>5, <2>6, <2>7 DEF k
<1> QED BY <1>1, <1>2

-----------------------------------------------------------------------------
(* What the search finds.                                                   *)

\* The first certificate that fits, of the first list that has one.
LEMMA FirstFitIs ==
  ASSUME NEW S, NEW lists \in Seq(Seq(S))
  PROVE  \/ /\ FirstFit(lists) = <<>>
            /\ \A b \in 1..Len(lists) : \A i \in 1..Len(lists[b]) : ~Fits(lists[b][i])
         \/ \E b \in 1..Len(lists) : \E i \in 1..Len(lists[b]) :
                /\ FirstFit(lists) = <<lists[b][i]>>
                /\ Fits(lists[b][i])
                /\ \A j \in 1..Len(lists[b]) : j < i => ~Fits(lists[b][j])
                /\ \A a \in 1..Len(lists) : a < b =>
                       \A j \in 1..Len(lists[a]) : ~Fits(lists[a][j])
<1> DEFINE found == {b \in 1..Len(lists) : Fitting(lists[b]) # {}}
<1>1. CASE found = {}
  <2>1. FirstFit(lists) = <<>>
    BY <1>1 DEF FirstFit
  <2>2. ASSUME NEW b \in 1..Len(lists), NEW i \in 1..Len(lists[b]) PROVE ~Fits(lists[b][i])
    BY <1>1 DEF Fitting
  <2> QED BY <2>1, <2>2
<1>2. CASE found # {}
  <2> DEFINE b == Min(found)
  <2>1. b \in found /\ \A a \in found : b <= a
    <3>1. found \in SUBSET Nat
      OBVIOUS
    <3> QED BY <1>2, <3>1, Least
  <2> DEFINE i == Min(Fitting(lists[b]))
  <2>2. FirstFit(lists) = <<lists[b][i]>>
    BY <1>2 DEF FirstFit
  <2> HIDE DEF b
  <2>3. i \in Fitting(lists[b]) /\ \A j \in Fitting(lists[b]) : i <= j
    <3>1. Fitting(lists[b]) \in SUBSET Nat /\ Fitting(lists[b]) # {}
      BY <2>1 DEF Fitting
    <3> QED BY <3>1, Least
  <2> HIDE DEF i
  <2>4. b \in 1..Len(lists) /\ i \in 1..Len(lists[b]) /\ Fits(lists[b][i])
    BY <2>1, <2>3 DEF Fitting
  <2>5. ASSUME NEW j \in 1..Len(lists[b]), j < i PROVE ~Fits(lists[b][j])
    <3>1. ~(i <= j)
      BY <2>4, <2>5
    <3> QED BY <2>3, <3>1 DEF Fitting
  <2>6. ASSUME NEW a \in 1..Len(lists), a < b, NEW j \in 1..Len(lists[a])
        PROVE  ~Fits(lists[a][j])
    <3>1. ~(b <= a)
      BY <2>4, <2>6
    <3>2. Fitting(lists[a]) = {}
      BY <2>1, <3>1
    <3> QED BY <3>2 DEF Fitting
  <2> QED BY <2>2, <2>4, <2>5, <2>6
<1> QED BY <1>1, <1>2

\* The lists are those of the buckets, and then the rest.
LEMMA ListsAre ==
  ASSUME Shape
  PROVE  /\ Lists \in Seq(Seq(Range(certs)))
         /\ Len(Lists) = Len(buckets) + 1
         /\ \A b \in 1..Len(buckets) : Lists[b] = buckets[b].certs
         /\ Lists[Len(buckets) + 1] = rest
<1>1. LevelLists \in Seq(Seq(Range(certs))) /\ Len(LevelLists) = Len(buckets)
      /\ \A b \in 1..Len(buckets) : LevelLists[b] = buckets[b].certs
  <2> DEFINE Bucket == [tcb : LevelTcbs, certs : Seq(Range(certs))]
  <2>1. Len(buckets) \in Nat /\ \A b \in 1..Len(buckets) : buckets[b].certs \in Seq(Range(certs))
    <3>1. buckets \in Seq(Bucket)
      BY DEF Shape
    <3>2. Len(buckets) \in Nat /\ \A b \in 1..Len(buckets) : buckets[b] \in Bucket
      <4> HIDE DEF Bucket
      <4> QED BY <3>1
    <3> QED BY <3>2
  <2> QED BY <2>1 DEF LevelLists
<1>2. rest \in Seq(Range(certs))
  BY DEF Shape
<1> QED BY <1>1, <1>2 DEF Lists

\* Range is the set of the elements.
LEMMA InRange ==
  ASSUME NEW S, NEW s \in Seq(S)
  PROVE  Range(s) = {s[i] : i \in 1..Len(s)} /\ Range(s) \subseteq S
BY DEF Range

-----------------------------------------------------------------------------
(* The steps.                                                               *)

LEMMA CreateStep ==
  ASSUME SelectionInvariant, CreateBuckets
  PROVE  SelectionInvariant'
<1>0. Shape /\ AllPlaced /\ InFirstReached /\ SelectedFirst
  BY DEF SelectionInvariant
<1>1. PICK s \in Orders(Range(levels), Len(levels)) :
          /\ Range(s) = Range(levels)
          /\ (\A i, j \in 1..Len(s) : Comparable(s[i], s[j])) => DescendingBuckets(s)
          /\ buckets' = [i \in 1..Len(s) |-> [tcb |-> s[i], certs |-> <<>>]]
  BY DEF CreateBuckets
<1>2. s \in Seq(Range(levels)) /\ Range(levels) \subseteq LevelTcbs /\ levels \in Seq(LevelTcbs)
  <2>1. levels \in Seq(LevelTcbs)
    BY <1>0 DEF Shape
  <2>2. PICK m \in 0..Len(levels) : s \in [1..m -> Range(levels)]
    BY DEF Orders
  <2> QED BY <2>1, <2>2, InRange
<1>3. /\ Len(buckets') = Len(s)
      /\ \A b \in 1..Len(s) : buckets'[b].tcb = s[b] /\ buckets'[b].certs = <<>>
      /\ buckets' \in Seq([tcb : LevelTcbs, certs : Seq(Range(certs))])
  BY <1>1, <1>2
<1>4. UNCHANGED <<raw, certs, levels, rest, placed, outcome, result>> /\ buckets = <<>>
  BY DEF CreateBuckets
<1>5. Shape'
  BY <1>0, <1>3, <1>4 DEF Shape
<1>6. placed = 0 /\ rest = <<>>
  BY <1>0, <1>4 DEF Shape
<1>7. AllPlaced'
  BY <1>4, <1>6 DEF AllPlaced
<1>8. BucketsOfLevels'
  <2>1. Range(levels) = {s[i] : i \in 1..Len(s)}
    BY <1>1, <1>2, InRange
  <2>2. ASSUME \A l, m \in Range(levels) : Comparable(l, m),
               NEW a \in 1..Len(s), NEW b \in 1..Len(s), a < b
        PROVE  Reaches(s[a], s[b])
    <3>1. \A i, j \in 1..Len(s) : Comparable(s[i], s[j])
      BY <2>1, <2>2
    <3> QED BY <1>1, <2>2, <3>1 DEF DescendingBuckets
  <2> QED BY <1>3, <1>4, <2>1, <2>2 DEF BucketsOfLevels
<1>9. InFirstReached' /\ CertsSorted'
  <2>1. \A b \in 1..Len(buckets') : Len(buckets'[b].certs) = 0
    BY <1>3
  <2>2. Len(rest') = 0
    BY <1>4, <1>6
  <2> QED BY <2>1, <2>2 DEF InFirstReached, CertsSorted
<1>10. SelectedFirst'
  BY <1>0, <1>4 DEF SelectedFirst
<1> QED BY <1>5, <1>7, <1>8, <1>9, <1>10 DEF SelectionInvariant

\* A certificate that reaches no level goes to the rest.
LEMMA RestStep ==
  ASSUME SelectionInvariant, Place, ReachedBuckets(certs[placed + 1]) = {}
  PROVE  SelectionInvariant'
<1> DEFINE c == certs[placed + 1]
<1>0. Shape /\ AllPlaced /\ BucketsOfLevels /\ InFirstReached /\ CertsSorted /\ SelectedFirst
  BY DEF SelectionInvariant
<1>1. placed \in Nat /\ placed + 1 \in 1..Len(certs) /\ placed' = placed + 1 /\ buckets # <<>>
  BY <1>0 DEF Place, Shape
<1>2. UNCHANGED <<raw, certs, levels, buckets, outcome, result>> /\ rest' = Append(rest, c)
  BY DEF Place
<1>3. c \in Range(certs) /\ rest \in Seq(Range(certs))
  BY <1>0, <1>1, InRange DEF Shape
<1> HIDE DEF c
<1>4. /\ rest' \in Seq(Range(certs)) /\ Len(rest') = Len(rest) + 1
      /\ \A j \in 1..Len(rest) : rest'[j] = rest[j]
      /\ rest'[Len(rest) + 1] = c
  BY <1>2, <1>3
<1>5. Shape'
  BY <1>0, <1>1, <1>2, <1>4 DEF Shape
<1>6. AllPlaced'
  <2> SUFFICES ASSUME NEW i \in 1..placed' PROVE InABucket(certs[i])' \/ InRest(certs[i])'
    BY DEF AllPlaced
  <2>1. CASE i = placed + 1
    BY <1>2, <1>4, <2>1 DEF InRest, c
  <2>2. CASE i \in 1..placed
    BY <1>0, <1>2, <1>4, <2>2 DEF AllPlaced, InABucket, InRest
  <2> QED BY <1>1, <2>1, <2>2
<1>7. BucketsOfLevels' /\ CertsSorted'
  BY <1>0, <1>2 DEF BucketsOfLevels, CertsSorted
<1>8. InFirstReached'
  <2>1. \A a \in 1..Len(buckets) : ~Reaches(c, buckets[a].tcb)
    BY DEF ReachedBuckets, c
  <2> QED BY <1>0, <1>2, <1>4, <2>1 DEF InFirstReached
<1>9. SelectedFirst'
  <2>1. placed # Len(certs)
    BY <1>1
  <2>2. outcome' \notin {"not found", "selected"}
    BY <1>0, <1>2, <2>1 DEF SelectedFirst
  <2> QED BY <2>2 DEF SelectedFirst
<1> QED BY <1>5, <1>6, <1>7, <1>8, <1>9 DEF SelectionInvariant

\* A certificate that reaches a level goes into the first bucket it reaches,
\* which stays sorted.
LEMMA BucketStep ==
  ASSUME SelectionInvariant, Place, ReachedBuckets(certs[placed + 1]) # {}
  PROVE  SelectionInvariant'
<1> DEFINE c == certs[placed + 1]
           m == Min(ReachedBuckets(c))
           Bucket == [tcb : LevelTcbs, certs : Seq(Range(certs))]
<1>0. Shape /\ AllPlaced /\ BucketsOfLevels /\ InFirstReached /\ CertsSorted /\ SelectedFirst
  BY DEF SelectionInvariant
<1>1. placed \in Nat /\ placed + 1 \in 1..Len(certs) /\ placed' = placed + 1 /\ buckets # <<>>
  BY <1>0 DEF Place, Shape
<1>2. /\ UNCHANGED <<raw, certs, levels, rest, outcome, result>>
      /\ buckets' = [buckets EXCEPT ![m].certs =
                        InsertAt(buckets[m].certs, IndexToInsert(buckets[m].certs, c), c)]
  BY DEF Place
<1>3. c \in Range(certs) /\ certs \in Seq(Tcbs)
  BY <1>0, <1>1, InRange DEF Shape
<1>4. m \in ReachedBuckets(c) /\ \A a \in ReachedBuckets(c) : m <= a
  <2>1. ReachedBuckets(c) \in SUBSET Nat
    BY DEF ReachedBuckets
  <2> QED BY <2>1, Least
<1>5. m \in 1..Len(buckets) /\ Reaches(c, buckets[m].tcb)
      /\ \A a \in 1..(m - 1) : ~Reaches(c, buckets[a].tcb)
  <2>1. m \in 1..Len(buckets) /\ Reaches(c, buckets[m].tcb)
    BY <1>4 DEF ReachedBuckets
  <2>2. ASSUME NEW a \in 1..(m - 1), Reaches(c, buckets[a].tcb) PROVE FALSE
    <3>1. Len(buckets) \in Nat /\ a \in 1..Len(buckets) /\ ~(m <= a)
      BY <1>0, <2>1 DEF Shape
    <3>2. a \in ReachedBuckets(c)
      BY <2>2, <3>1 DEF ReachedBuckets
    <3> QED BY <1>4, <3>1, <3>2
  <2> QED BY <2>1, <2>2
<1>6. buckets \in Seq(Bucket)
  BY <1>0 DEF Shape
<1> DEFINE list == buckets[m].certs
           k    == IndexToInsert(list, c)
           new  == InsertAt(list, k, c)
<1>7. buckets[m] \in Bucket /\ list \in Seq(Range(certs))
  <2>1. buckets[m] \in Bucket
    <3> HIDE DEF Bucket, m
    <3> QED BY <1>5, <1>6
  <2> QED BY <2>1
<1>8. /\ k \in 1..(Len(list) + 1)
      /\ (\A i \in 1..Len(list) : Comparable(c, list[i])) =>
             /\ \A i \in 1..(k - 1) : ~Reaches(c, list[i])
             /\ k <= Len(list) => Reaches(c, list[k])
  <2> HIDE DEF list
  <2> QED BY <1>7, IndexInList
<1>9. buckets' = [buckets EXCEPT ![m].certs = new]
  BY <1>2
<1>10. /\ new \in Seq(Range(certs)) /\ Len(new) = Len(list) + 1
       /\ \A j \in 1..(Len(list) + 1) :
              new[j] = IF j < k THEN list[j] ELSE IF j = k THEN c ELSE list[j - 1]
  <2> HIDE DEF k, list, c
  <2> QED BY <1>3, <1>7, <1>8, Inserted
<1> HIDE DEF new, k, c, m
<1>11. /\ buckets' \in Seq(Bucket) /\ Len(buckets') = Len(buckets)
       /\ \A b \in 1..Len(buckets) :
              /\ buckets'[b].tcb = buckets[b].tcb
              /\ buckets'[b].certs = IF b = m THEN new ELSE buckets[b].certs
  <2>1. /\ Len(buckets') = Len(buckets)
        /\ \A b \in 1..Len(buckets) :
               buckets'[b] = IF b = m THEN [buckets[m] EXCEPT !.certs = new] ELSE buckets[b]
    <3> HIDE DEF Bucket
    <3> QED BY <1>6, <1>9
  <2>2. ASSUME NEW b \in 1..Len(buckets)
        PROVE  buckets[b] \in Bucket
    <3> HIDE DEF Bucket
    <3> QED BY <1>6
  <2>3. ASSUME NEW b \in 1..Len(buckets)
        PROVE  /\ buckets'[b] \in Bucket
               /\ buckets'[b].tcb = buckets[b].tcb
               /\ buckets'[b].certs = IF b = m THEN new ELSE buckets[b].certs
    BY <1>7, <1>10, <2>1, <2>2
  <2>4. buckets' \in Seq(Bucket)
    <3>1. Len(buckets) \in Nat /\ DOMAIN buckets = 1..Len(buckets)
      <4> HIDE DEF Bucket
      <4> QED BY <1>6
    <3>2. buckets' = [b \in 1..Len(buckets) |-> buckets'[b]]
      BY <1>9, <3>1
    <3> HIDE DEF Bucket
    <3> QED BY <2>3, <3>1, <3>2
  <2> QED BY <2>1, <2>3, <2>4
<1>12. Shape'
  BY <1>0, <1>1, <1>2, <1>11 DEF Shape
<1>13. AllPlaced'
  <2>1. ASSUME NEW d, InABucket(d) PROVE InABucket(d)'
    <3>0. PICK b \in 1..Len(buckets) :
              \E j \in 1..Len(buckets[b].certs) : buckets[b].certs[j] = d
      BY <2>1 DEF InABucket
    <3>1. PICK j \in 1..Len(buckets[b].certs) : buckets[b].certs[j] = d
      BY <3>0
    <3>2. CASE b # m
      BY <1>11, <3>1, <3>2 DEF InABucket
    <3>3. CASE b = m
      <4>1. j \in 1..Len(list) /\ list[j] = d /\ Len(list) \in Nat
        BY <1>7, <3>1, <3>3
      <4> HIDE DEF list
      <4>2. CASE j < k
        <5>1. j \in 1..Len(new) /\ new[j] = list[j]
          BY <1>8, <1>10, <4>1, <4>2
        <5> QED BY <1>5, <1>11, <4>1, <5>1 DEF InABucket
      <4>3. CASE ~(j < k)
        <5>1. j + 1 \in 1..Len(new) /\ new[j + 1] = list[j]
          BY <1>8, <1>10, <4>1, <4>3
        <5> QED BY <1>5, <1>11, <4>1, <5>1 DEF InABucket
      <4> QED BY <4>2, <4>3
    <3> QED BY <3>2, <3>3
  <2>2. ASSUME NEW d, d = c PROVE InABucket(d)'
    <3>1. k \in 1..Len(new) /\ new[k] = c
      <4> HIDE DEF list
      <4> QED BY <1>7, <1>8, <1>10
    <3> QED BY <1>5, <1>11, <2>2, <3>1 DEF InABucket
  <2> SUFFICES ASSUME NEW i \in 1..placed' PROVE InABucket(certs[i])' \/ InRest(certs[i])'
    BY DEF AllPlaced
  <2>3. CASE i = placed + 1
    BY <1>2, <2>2, <2>3 DEF c, InABucket
  <2>4. CASE i \in 1..placed
    <3>1. InABucket(certs[i]) \/ InRest(certs[i])
      BY <1>0, <2>4 DEF AllPlaced
    <3>2. CASE InABucket(certs[i])
      <4>1. InABucket(certs[i])'
        BY <1>2, <2>1, <3>2 DEF InABucket
      <4> QED BY <4>1
    <3>3. CASE InRest(certs[i])
      BY <1>2, <3>3 DEF InRest
    <3> QED BY <3>1, <3>2, <3>3
  <2> QED BY <1>1, <2>3, <2>4
<1>14. BucketsOfLevels'
  BY <1>0, <1>1, <1>2, <1>11 DEF BucketsOfLevels
<1>15. InFirstReached'
  <2>1. ASSUME NEW j \in 1..Len(new)
        PROVE  Reaches(new[j], buckets[m].tcb)
               /\ \A a \in 1..(m - 1) : ~Reaches(new[j], buckets[a].tcb)
    <3>1. new[j] = c \/ \E i \in 1..Len(list) : new[j] = list[i]
      <4>1. Len(list) \in Nat /\ k \in 1..(Len(list) + 1)
        BY <1>7, <1>8
      <4> HIDE DEF list
      <4>2. CASE j < k
        BY <1>10, <4>1, <4>2
      <4>3. CASE j = k
        BY <1>10, <4>1, <4>3
      <4>4. CASE j > k
        <5>1. j - 1 \in 1..Len(list) /\ new[j] = list[j - 1]
          BY <1>10, <4>1, <4>4
        <5> QED BY <5>1
      <4> QED BY <1>10, <4>1, <4>2, <4>3, <4>4
    <3> QED BY <1>0, <1>5, <3>1 DEF InFirstReached
  <2>2. ASSUME NEW b \in 1..Len(buckets) PROVE \A a \in 1..(b - 1) : a \in 1..Len(buckets)
    BY <1>0 DEF Shape
  <2> QED BY <1>0, <1>2, <1>5, <1>11, <2>1, <2>2 DEF InFirstReached
<1>16. CertsSorted'
  <2> SUFFICES ASSUME \A d, e \in Range(certs) : Comparable(d, e),
                      NEW b \in 1..Len(buckets),
                      NEW i \in 1..Len(buckets'[b].certs), NEW j \in 1..Len(buckets'[b].certs),
                      i < j
               PROVE  Reaches(buckets'[b].certs[i], buckets'[b].certs[j])
    BY <1>2, <1>11 DEF CertsSorted
  <2>1. CASE b # m
    BY <1>0, <1>11, <2>1 DEF CertsSorted
  <2>2. CASE b = m
    <3>1. i \in 1..Len(new) /\ j \in 1..Len(new)
      BY <1>11, <2>2
    <3>2. \A x, y \in 1..Len(list) : x < y => Reaches(list[x], list[y])
      BY <1>0, <1>5 DEF CertsSorted
    <3>3. Range(certs) \subseteq Tcbs
      BY <1>3, InRange
    <3>4. \A x \in 1..Len(list) : list[x] \in Range(certs)
      BY <1>7
    <3> HIDE DEF list
    <3>5. Len(list) \in Nat /\ k \in 1..(Len(list) + 1) /\ Len(new) = Len(list) + 1
      BY <1>7, <1>8, <1>10 DEF list
    <3>6. /\ \A x \in 1..(k - 1) : ~Reaches(c, list[x])
          /\ k <= Len(list) => Reaches(c, list[k])
      BY <1>3, <1>8, <3>4
    <3>7. \A x \in 1..Len(list) : x < k => Reaches(list[x], c)
      <4> SUFFICES ASSUME NEW x \in 1..Len(list), x < k PROVE Reaches(list[x], c)
        OBVIOUS
      <4>1. ~Reaches(c, list[x]) /\ Comparable(c, list[x])
        BY <1>3, <3>4, <3>5, <3>6
      <4> QED BY <4>1 DEF Comparable
    <3>8. \A x \in 1..Len(list) : ~(x < k) => Reaches(c, list[x])
      <4> SUFFICES ASSUME NEW x \in 1..Len(list), ~(x < k) PROVE Reaches(c, list[x])
        OBVIOUS
      <4>1. k \in 1..Len(list) /\ Reaches(c, list[k])
        BY <3>5, <3>6
      <4>2. CASE x = k
        BY <4>1, <4>2
      <4>3. CASE x # k
        <5>1. Reaches(list[k], list[x])
          BY <3>2, <4>1, <4>3
        <5>2. c \in Tcbs /\ list[k] \in Tcbs /\ list[x] \in Tcbs
          BY <1>3, <3>3, <3>4, <4>1
        <5> QED BY <4>1, <5>1, <5>2, ReachesTransitive
      <4> QED BY <4>2, <4>3
    <3>9. Reaches(new[i], new[j])
      <4>1. /\ i < k => new[i] = list[i] /\ i \in 1..Len(list)
            /\ i = k => new[i] = c
            /\ i > k => new[i] = list[i - 1] /\ i - 1 \in 1..Len(list)
        BY <1>10, <3>1, <3>5
      <4>2. /\ j < k => new[j] = list[j] /\ j \in 1..Len(list)
            /\ j = k => new[j] = c
            /\ j > k => new[j] = list[j - 1] /\ j - 1 \in 1..Len(list)
        BY <1>10, <3>1, <3>5
      <4>3. CASE i < k /\ j < k
        BY <3>2, <4>1, <4>2, <4>3
      <4>4. CASE i < k /\ j = k
        BY <3>7, <4>1, <4>2, <4>4
      <4>5. CASE i < k /\ j > k
        <5>1. i < j - 1
          BY <3>1, <3>5, <4>5
        <5> QED BY <3>2, <4>1, <4>2, <4>5, <5>1
      <4>6. CASE i = k /\ j > k
        <5>1. ~(j - 1 < k)
          BY <3>1, <3>5, <4>6
        <5> QED BY <3>8, <4>1, <4>2, <4>6, <5>1
      <4>7. CASE i > k
        <5>1. j > k /\ i - 1 < j - 1
          BY <3>1, <3>5, <4>7
        <5> QED BY <3>2, <4>1, <4>2, <4>7, <5>1
      <4> QED BY <3>1, <3>5, <4>3, <4>4, <4>5, <4>6, <4>7
    <3> QED BY <1>11, <2>2, <3>9
  <2> QED BY <2>1, <2>2
<1>17. SelectedFirst'
  <2>1. placed # Len(certs)
    BY <1>1
  <2>2. outcome' \notin {"not found", "selected"}
    BY <1>0, <1>2, <2>1 DEF SelectedFirst
  <2> QED BY <2>2 DEF SelectedFirst
<1> QED BY <1>12, <1>13, <1>14, <1>15, <1>16, <1>17 DEF SelectionInvariant

\* Refusing and selecting leave the buckets as they are.
LEMMA EndStep ==
  ASSUME SelectionInvariant, Validate \/ Select
  PROVE  SelectionInvariant'
<1>1. UNCHANGED <<raw, certs, levels, buckets, rest, placed>>
  BY DEF Validate, Select
<1>2. outcome' \in Outcomes
  BY DEF Validate, Select, Outcomes
<1>3. Shape' /\ AllPlaced' /\ BucketsOfLevels' /\ InFirstReached' /\ CertsSorted'
  BY <1>1, <1>2 DEF SelectionInvariant, Shape, AllPlaced, InABucket, InRest, BucketsOfLevels,
                    InFirstReached, CertsSorted
<1>4. ASSUME Validate PROVE SelectedFirst'
  BY <1>4 DEF Validate, SelectedFirst
<1>5. ASSUME Select PROVE SelectedFirst'
  <2>1. Lists' = Lists /\ FirstFit(Lists)' = FirstFit(Lists)
    BY <1>1 DEF Lists, LevelLists, FirstFit, Fitting, Fits
  <2> QED BY <1>1, <1>5, <2>1 DEF Select, SelectedFirst
<1> QED BY <1>3, <1>4, <1>5 DEF SelectionInvariant

LEMMA SelectionInvariantHolds == Spec => []SelectionInvariant
<1>1. Init => SelectionInvariant
  <2> SUFFICES ASSUME Init PROVE SelectionInvariant
    OBVIOUS
  <2>1. raw \in Tcbs /\ buckets = <<>> /\ rest = <<>> /\ placed = 0 /\ outcome = "none"
    BY DEF Init
  <2>2. certs \in Seq(Tcbs) /\ levels \in Seq(LevelTcbs)
    <3>1. PICK m \in 0..MaxCerts : certs \in [1..m -> Tcbs]
      BY DEF Init, Orders
    <3>2. PICK n \in 0..MaxLevels : levels \in [1..n -> LevelTcbs]
      BY DEF Init, Orders
    <3> QED BY <3>1, <3>2
  <2>3. Shape
    BY <2>1, <2>2 DEF Shape, Outcomes
  <2>4. AllPlaced /\ BucketsOfLevels /\ InFirstReached /\ CertsSorted /\ SelectedFirst
    BY <2>1 DEF AllPlaced, BucketsOfLevels, InFirstReached, CertsSorted, SelectedFirst
  <2> QED BY <2>3, <2>4 DEF SelectionInvariant
<1>2. SelectionInvariant /\ [Next]_vars => SelectionInvariant'
  <2> SUFFICES ASSUME SelectionInvariant, [Next]_vars PROVE SelectionInvariant'
    OBVIOUS
  <2>1. CASE UNCHANGED vars
    <3>1. UNCHANGED <<raw, certs, levels, buckets, rest, placed, outcome, result>>
      BY <2>1 DEF vars
    <3>2. Shape' /\ AllPlaced' /\ BucketsOfLevels' /\ InFirstReached' /\ CertsSorted'
      BY <3>1 DEF SelectionInvariant, Shape, AllPlaced, InABucket, InRest, BucketsOfLevels,
                  InFirstReached, CertsSorted
    <3>3. FirstFit(Lists)' = FirstFit(Lists)
      BY <3>1 DEF Lists, LevelLists, FirstFit, Fitting, Fits
    <3> QED BY <3>1, <3>2, <3>3 DEF SelectionInvariant, SelectedFirst
  <2> QED BY <2>1, CreateStep, RestStep, BucketStep, EndStep DEF Next, Ended
<1> QED BY <1>1, <1>2, PTL DEF Spec

-----------------------------------------------------------------------------
(* The theorems.                                                            *)

\* What was selected is the first certificate that fits, of its list, and no
\* list before has one that fits.
LEMMA ChosenIs ==
  ASSUME SelectionInvariant, Selected
  PROVE  \E b \in 1..(Len(buckets) + 1) : \E i \in 1..Len(Lists[b]) :
            /\ result = <<Lists[b][i]>>
            /\ Fits(Lists[b][i])
            /\ \A j \in 1..Len(Lists[b]) : j < i => ~Fits(Lists[b][j])
            /\ \A a \in 1..(Len(buckets) + 1) : a < b =>
                   \A j \in 1..Len(Lists[a]) : ~Fits(Lists[a][j])
<1>1. Lists \in Seq(Seq(Range(certs))) /\ Len(Lists) = Len(buckets) + 1
  BY ListsAre DEF SelectionInvariant
<1>2. result = FirstFit(Lists) /\ result # <<>>
  BY DEF SelectionInvariant, SelectedFirst, Selected
<1> QED BY <1>1, <1>2, FirstFitIs

\* The lists hold certificates of the platform, and the selection ends with one.
THEOREM TypeCorrect == Spec => []TypeOK
<1>1. SelectionInvariant => TypeOK
  <2> SUFFICES ASSUME SelectionInvariant PROVE TypeOK
    OBVIOUS
  <2>1. Shape
    BY DEF SelectionInvariant
  <2>2. /\ \A b \in 1..Len(buckets) : Range(buckets[b].certs) \subseteq Range(certs)
        /\ Range(rest) \subseteq Range(certs)
    <3>1. Lists \in Seq(Seq(Range(certs))) /\ Len(Lists) = Len(buckets) + 1
          /\ \A b \in 1..Len(buckets) : Lists[b] = buckets[b].certs
      BY <2>1, ListsAre
    <3>2. Len(buckets) \in Nat /\ rest \in Seq(Range(certs))
      BY <2>1 DEF Shape
    <3>3. \A b \in 1..Len(buckets) : buckets[b].certs \in Seq(Range(certs))
      BY <3>1, <3>2
    <3> QED BY <3>2, <3>3, InRange
  <2>3. ASSUME Selected PROVE result \in [1..1 -> Range(certs)]
    <3>1. Lists \in Seq(Seq(Range(certs))) /\ Len(Lists) = Len(buckets) + 1
      BY <2>1, ListsAre
    <3>2. PICK b \in 1..(Len(buckets) + 1) :
              \E i \in 1..Len(Lists[b]) : result = <<Lists[b][i]>>
      BY <2>3, ChosenIs
    <3>3. PICK i \in 1..Len(Lists[b]) : result = <<Lists[b][i]>>
      BY <3>2
    <3>4. Lists[b][i] \in Range(certs)
      BY <3>1, <3>3
    <3> QED BY <3>3, <3>4
  <2> QED BY <2>1, <2>2, <2>3 DEF TypeOK, Shape, Outcomes
<1> QED BY <1>1, SelectionInvariantHolds, PTL

\* Every certificate of the platform is in a list once all are placed.
LEMMA AllInLists ==
  ASSUME SelectionInvariant, placed = Len(certs), NEW c \in Range(certs)
  PROVE  \E b \in 1..(Len(buckets) + 1) : \E j \in 1..Len(Lists[b]) : Lists[b][j] = c
<1>1. Shape /\ AllPlaced
  BY DEF SelectionInvariant
<1>2. Len(buckets) \in Nat /\ certs \in Seq(Tcbs)
  BY <1>1 DEF Shape
<1>3. PICK i \in 1..Len(certs) : c = certs[i]
  BY <1>2, InRange
<1>4. /\ \A b \in 1..Len(buckets) : Lists[b] = buckets[b].certs
      /\ Lists[Len(buckets) + 1] = rest
  BY <1>1, ListsAre
<1>5. CASE InABucket(c)
  <2>1. PICK b \in 1..Len(buckets) : \E j \in 1..Len(buckets[b].certs) : buckets[b].certs[j] = c
    BY <1>5 DEF InABucket
  <2>2. b \in 1..(Len(buckets) + 1) /\ Lists[b] = buckets[b].certs
    BY <1>2, <1>4
  <2> QED BY <2>1, <2>2
<1>6. CASE InRest(c)
  <2>1. Len(buckets) + 1 \in 1..(Len(buckets) + 1)
    BY <1>2
  <2> QED BY <1>4, <1>6, <2>1 DEF InRest
<1> QED BY <1>1, <1>3, <1>5, <1>6 DEF AllPlaced

\* A certificate is selected exactly if one fits, and it is one that fits, for
\* TCBs of any number of components and in any order of certificates and levels.
THEOREM FoundExactlyIfOneFits == Spec => []FoundIfOneFits
<1>1. SelectionInvariant => FoundIfOneFits
  <2> SUFFICES ASSUME SelectionInvariant PROVE FoundIfOneFits
    OBVIOUS
  <2>1. ASSUME Selected PROVE Fits(result[1])
    <3>1. PICK b \in 1..(Len(buckets) + 1) : \E i \in 1..Len(Lists[b]) :
              result = <<Lists[b][i]>> /\ Fits(Lists[b][i])
      BY <2>1, ChosenIs
    <3> QED BY <3>1
  <2>2. ASSUME outcome = "not found", NEW c \in Range(certs) PROVE ~Fits(c)
    <3>1. result = FirstFit(Lists) /\ result = <<>> /\ placed = Len(certs)
      BY <2>2 DEF SelectionInvariant, SelectedFirst
    <3>2. Lists \in Seq(Seq(Range(certs))) /\ Len(Lists) = Len(buckets) + 1
      BY ListsAre DEF SelectionInvariant
    <3>3. \A b \in 1..Len(Lists) : \A i \in 1..Len(Lists[b]) : ~Fits(Lists[b][i])
      <4>1. ASSUME NEW b \in 1..Len(Lists), NEW i \in 1..Len(Lists[b])
            PROVE  FirstFit(Lists) # <<Lists[b][i]>>
        <5>1. Len(<<Lists[b][i]>>) = 1 /\ Len(<<>>) = 0
          OBVIOUS
        <5> QED BY <3>1, <5>1
      <4> QED BY <3>2, <4>1, FirstFitIs
    <3> QED BY <2>2, <3>1, <3>2, <3>3, AllInLists
  <2> QED BY <2>1, <2>2 DEF FoundIfOneFits
<1> QED BY <1>1, SelectionInvariantHolds, PTL

\* The list of what was selected is the first with a certificate that fits; a
\* certificate c that fits is in a bucket that is not before it, or in the rest.
LEMMA ListOfSelected ==
  ASSUME SelectionInvariant, Selected, NEW l \in Range(levels), NEW c \in Range(certs),
         Fits(c), Reaches(c, l)
  PROVE  \E b \in 1..Len(buckets) : \E i \in 1..Len(buckets[b].certs) :
            /\ result = <<buckets[b].certs[i]>>
            /\ \A j \in 1..Len(buckets[b].certs) : j < i => ~Fits(buckets[b].certs[j])
            /\ \E d \in 1..Len(buckets), a \in 1..Len(buckets) :
                   /\ b <= d /\ d <= a /\ buckets[a].tcb = l
                   /\ \E j \in 1..Len(buckets[d].certs) : buckets[d].certs[j] = c
<1>1. Shape /\ BucketsOfLevels /\ InFirstReached /\ buckets # <<>> /\ placed = Len(certs)
  BY DEF SelectionInvariant, SelectedFirst, Selected
<1>2. Len(buckets) \in Nat /\ rest \in Seq(Range(certs))
  BY <1>1 DEF Shape
<1>3. /\ \A b \in 1..Len(buckets) : Lists[b] = buckets[b].certs
      /\ Lists[Len(buckets) + 1] = rest
  BY <1>1, ListsAre
<1>4. PICK a \in 1..Len(buckets) : buckets[a].tcb = l
  BY <1>1 DEF BucketsOfLevels
<1>5. PICK d \in 1..(Len(buckets) + 1) : \E j \in 1..Len(Lists[d]) : Lists[d][j] = c
  BY <1>1, AllInLists
<1>6. PICK j \in 1..Len(Lists[d]) : Lists[d][j] = c
  BY <1>5
<1>7. d \in 1..Len(buckets)
  <2> SUFFICES ASSUME d = Len(buckets) + 1 PROVE FALSE
    BY <1>2
  <2>1. j \in 1..Len(rest) /\ rest[j] = c
    BY <1>3, <1>6
  <2> QED BY <1>1, <1>4, <2>1 DEF InFirstReached
<1>8. d <= a
  <2> SUFFICES ASSUME a < d PROVE FALSE
    BY <1>7
  <2>1. a \in 1..(d - 1)
    BY <1>7
  <2>2. j \in 1..Len(buckets[d].certs) /\ buckets[d].certs[j] = c
    BY <1>3, <1>6, <1>7
  <2> QED BY <1>1, <1>4, <1>7, <2>1, <2>2 DEF InFirstReached
<1>9. PICK b \in 1..(Len(buckets) + 1) : \E i \in 1..Len(Lists[b]) :
            /\ result = <<Lists[b][i]>>
            /\ \A k \in 1..Len(Lists[b]) : k < i => ~Fits(Lists[b][k])
            /\ \A e \in 1..(Len(buckets) + 1) : e < b =>
                   \A k \in 1..Len(Lists[e]) : ~Fits(Lists[e][k])
  BY ChosenIs
<1>10. b <= d
  <2> SUFFICES ASSUME d < b PROVE FALSE
    BY <1>7, <1>9
  <2> QED BY <1>6, <1>9
<1>11. b \in 1..Len(buckets)
  BY <1>7, <1>9, <1>10
<1> QED BY <1>3, <1>4, <1>6, <1>7, <1>8, <1>9, <1>10, <1>11

\* Where the TCB levels can be compared, the selected certificate reaches every
\* level that a certificate which fits reaches.
THEOREM SelectsHighestLevel == Spec => []HighestLevel
<1>1. SelectionInvariant => HighestLevel
  <2> SUFFICES ASSUME SelectionInvariant, Selected,
                      \A l, m \in Range(levels) : Comparable(l, m),
                      NEW c \in Range(certs), NEW l \in Range(levels), Fits(c), Reaches(c, l)
               PROVE  Reaches(result[1], l)
    BY DEF HighestLevel
  <2>1. Shape /\ BucketsOfLevels /\ InFirstReached /\ buckets # <<>>
    BY DEF SelectionInvariant, SelectedFirst, Selected
  <2>2. PICK b \in 1..Len(buckets) : \E i \in 1..Len(buckets[b].certs) :
            /\ result = <<buckets[b].certs[i]>>
            /\ \E d \in 1..Len(buckets), a \in 1..Len(buckets) :
                   b <= d /\ d <= a /\ buckets[a].tcb = l
    BY ListOfSelected
  <2>3. PICK i \in 1..Len(buckets[b].certs) : result = <<buckets[b].certs[i]>>
    BY <2>2
  <2>4. PICK a \in 1..Len(buckets) : b <= a /\ buckets[a].tcb = l
    BY <2>2
  <2> DEFINE t == buckets[b].tcb
             r == buckets[b].certs[i]
  <2>5. Reaches(r, t) /\ result[1] = r
    BY <2>1, <2>3 DEF InFirstReached
  <2>6. b < a => Reaches(t, l)
    BY <2>1, <2>4 DEF BucketsOfLevels
  <2>7. r \in Tcbs /\ t \in LevelTcbs /\ l \in LevelTcbs
    <3>1. t \in Range(levels)
      BY <2>1 DEF BucketsOfLevels
    <3>2. Range(levels) \subseteq LevelTcbs /\ Range(certs) \subseteq Tcbs
      BY <2>1, InRange DEF Shape
    <3>3. Lists \in Seq(Seq(Range(certs))) /\ Lists[b] = buckets[b].certs
          /\ Len(Lists) = Len(buckets) + 1
      BY <2>1, ListsAre
    <3>4. buckets[b].certs \in Seq(Range(certs))
      BY <3>3
    <3> QED BY <2>3, <3>1, <3>2, <3>4
  <2>8. CASE b = a
    BY <2>4, <2>5, <2>8
  <2>9. CASE b < a
    <3> HIDE DEF r, t
    <3> QED BY <2>5, <2>6, <2>7, <2>9, ReachesTransitive
  <2> QED BY <2>4, <2>8, <2>9
<1> QED BY <1>1, SelectionInvariantHolds, PTL

\* Where the certificates can be compared, none that fits is above the selected
\* one, into however many buckets the levels split them.
THEOREM SelectsHighestComparable == Spec => []HighestOfComparable
<1>1. SelectionInvariant => HighestOfComparable
  <2> SUFFICES ASSUME SelectionInvariant, Selected, Matched,
                      \A c, d \in Range(certs) : Comparable(c, d),
                      NEW c \in Range(certs), Fits(c)
               PROVE  Reaches(result[1], c)
    BY DEF HighestOfComparable
  <2>1. Shape /\ BucketsOfLevels /\ InFirstReached /\ CertsSorted
        /\ buckets # <<>> /\ placed = Len(certs)
    BY DEF SelectionInvariant, SelectedFirst, Selected
  <2>2. /\ Lists \in Seq(Seq(Range(certs))) /\ Len(Lists) = Len(buckets) + 1
        /\ \A b \in 1..Len(buckets) : Lists[b] = buckets[b].certs
        /\ Lists[Len(buckets) + 1] = rest /\ Len(buckets) \in Nat
    BY <2>1, ListsAre DEF Shape
  <2>3. PICK b \in 1..(Len(buckets) + 1) : \E i \in 1..Len(Lists[b]) :
            /\ result = <<Lists[b][i]>>
            /\ Fits(Lists[b][i])
            /\ \A j \in 1..Len(Lists[b]) : j < i => ~Fits(Lists[b][j])
            /\ \A a \in 1..(Len(buckets) + 1) : a < b =>
                   \A j \in 1..Len(Lists[a]) : ~Fits(Lists[a][j])
    BY ChosenIs
  <2>4. PICK i \in 1..Len(Lists[b]) :
            /\ result = <<Lists[b][i]>>
            /\ \A j \in 1..Len(Lists[b]) : j < i => ~Fits(Lists[b][j])
    BY <2>3
  <2> DEFINE r == Lists[b][i]
  <2>5. r \in Range(certs) /\ result[1] = r /\ Range(certs) \subseteq Tcbs
    BY <2>1, <2>2, <2>4, InRange DEF Shape
  <2>6. b \in 1..Len(buckets)
    <3> SUFFICES ASSUME b = Len(buckets) + 1 PROVE FALSE
      BY <2>2
    <3>1. PICK l \in Range(levels) : Reaches(r, l)
      BY <2>5 DEF Matched
    <3>2. PICK a \in 1..Len(buckets) : buckets[a].tcb = l
      BY <2>1 DEF BucketsOfLevels
    <3>3. i \in 1..Len(rest) /\ r = rest[i]
      BY <2>2, <2>4
    <3> QED BY <2>1, <3>1, <3>2, <3>3 DEF InFirstReached
  <2>7. Lists[b] = buckets[b].certs /\ Reaches(r, buckets[b].tcb)
    BY <2>1, <2>2, <2>4, <2>6 DEF InFirstReached
  <2>8. PICK d \in 1..(Len(buckets) + 1) : \E j \in 1..Len(Lists[d]) : Lists[d][j] = c
    BY <2>1, AllInLists
  <2>9. PICK j \in 1..Len(Lists[d]) : Lists[d][j] = c
    BY <2>8
  <2>10. b <= d
    <3> SUFFICES ASSUME d < b PROVE FALSE
      BY <2>2
    <3> QED BY <2>3, <2>9
  <2>11. CASE d = b
    <3>1. ~(j < i)
      BY <2>4, <2>9, <2>11
    <3>2. CASE j = i
      BY <2>5, <2>9, <2>11, <3>2, ReachesItself
    <3>3. CASE i < j
      <4>1. Reaches(Lists[b][i], Lists[b][j])
        BY <2>1, <2>4, <2>6, <2>7, <2>9, <2>11, <3>3 DEF CertsSorted
      <4> QED BY <2>5, <2>9, <2>11, <4>1
    <3>4. i \in Nat /\ j \in Nat
      BY <2>2
    <3> QED BY <3>1, <3>2, <3>3, <3>4
  <2>12. CASE b < d
    <3>1. ~Reaches(c, buckets[b].tcb)
      <4>1. CASE d = Len(buckets) + 1
        BY <2>1, <2>2, <2>6, <2>9, <4>1 DEF InFirstReached
      <4>2. CASE d \in 1..Len(buckets)
        <5>1. b \in 1..(d - 1) /\ Lists[d] = buckets[d].certs
          BY <2>2, <2>6, <2>12, <4>2
        <5> QED BY <2>1, <2>9, <4>2, <5>1 DEF InFirstReached
      <4> QED BY <2>2, <4>1, <4>2
    <3>2. buckets[b].tcb \in LevelTcbs
      <4>1. buckets[b].tcb \in Range(levels)
        BY <2>1, <2>6 DEF BucketsOfLevels
      <4> QED BY <2>1, <4>1, InRange DEF Shape
    <3>3. ~Reaches(c, r)
      <4> HIDE DEF r
      <4> QED BY <2>5, <2>7, <3>1, <3>2, ReachesTransitive
    <3> QED BY <2>5, <3>3 DEF Comparable
  <2> QED BY <2>2, <2>10, <2>11, <2>12
<1> QED BY <1>1, SelectionInvariantHolds, PTL
=============================================================================
