-------------------------- MODULE PckCertSelection --------------------------
(***************************************************************************)
(* pckCertSelection/pckCertSelection.js and Tcb.js: selectBestPckCert      *)
(* chooses, from the PCK certificates of a platform, the one to serve for  *)
(* a raw TCB.                                                              *)
(*                                                                         *)
(* A TCB is a function from components (the CPUSVN bytes and PCESVN) to    *)
(* SVNs; a certificate is its TCB.  Every TCB level of the TCB info gets a *)
(* bucket; the buckets are sorted, each certificate goes into the first    *)
(* bucket it reaches, before the first certificate there that it is not    *)
(* below, and the buckets are searched in order for one that the raw TCB   *)
(* is not below.                                                           *)
(***************************************************************************)
EXTENDS Naturals, Sequences, FiniteSets, SequencesExt, FiniteSetsExt

CONSTANTS
    Components,
    Tcbs,        \* TCBs of certificates and platforms
    LevelTcbs,   \* TCBs of the TCB levels
    MaxCerts,    \* bound on the certificates of the platform
    MaxLevels    \* bound on the levels of the TCB info

ASSUME ConstantsAssumption ==
    /\ \A t \in Tcbs \cup LevelTcbs : t \in [Components -> Nat]
    /\ MaxCerts \in Nat /\ MaxLevels \in Nat \ {0}

VARIABLES
    raw,      \* the raw TCB of the platform
    certs,    \* the certificates, as they come from the PCS or the database
    levels,   \* the TCB levels, as the TCB info has them
    valid,    \* whether they pass parsePckCerts and validateInput
    buckets,  \* a sequence of [tcb, certs]
    rest,     \* certificates that reach no level
    placed,   \* how many certificates have been placed
    outcome,  \* how the selection ended
    result    \* the certificate selected, in a sequence

vars == <<raw, certs, levels, valid, buckets, rest, placed, outcome, result>>

-----------------------------------------------------------------------------
(* Tcb.compare, which throws TcbNonComparableError when neither holds.      *)

Reaches(a, b)   == \A c \in Components : a[c] >= b[c]
Comparable(a, b) == Reaches(a, b) \/ Reaches(b, a)
Above(a, b)     == Reaches(a, b) /\ a # b

Orders(S, n) == UNION {{s \in [1..m -> S] : \A i, j \in 1..m : s[i] = s[j] => i = j} : m \in 0..n}

Init ==
    /\ raw \in Tcbs
    /\ certs \in Orders(Tcbs, MaxCerts)
    /\ levels \in Orders(LevelTcbs, MaxLevels) \ {<<>>}
    /\ valid \in BOOLEAN
    /\ buckets = <<>>
    /\ rest = <<>>
    /\ placed = 0
    /\ outcome = "none"
    /\ result = <<>>

-----------------------------------------------------------------------------
\* parsePckCerts and validateInput throw: a certificate that does not parse,
\* or is of another version, PCEID, FMSPC or PPID, spoils all.
Validate ==
    /\ ~valid
    /\ outcome = "none"
    /\ outcome' = "refused"
    /\ UNCHANGED <<raw, certs, levels, valid, buckets, rest, placed, result>>

AscendingBuckets(s) ==
    \A i, j \in 1..Len(s) : i < j /\ Comparable(s[i], s[j]) => Reaches(s[j], s[i])
DescendingBuckets(s) ==
    \A i, j \in 1..Len(s) : i < j /\ Comparable(s[i], s[j]) => Reaches(s[i], s[j])

\* createBucketsForCertificatesByTcb.  Where some levels are not comparable
\* the comparator is not a consistent one and the order it leaves is open.
CreateBuckets ==
    /\ valid
    /\ buckets = <<>>
    /\ \E s \in Orders(Range(levels), Len(levels)) :
           /\ Range(s) = Range(levels)
           /\ (\A i, j \in 1..Len(s) : Comparable(s[i], s[j])) => DescendingBuckets(s)
           /\ buckets' = [i \in 1..Len(s) |-> [tcb |-> s[i], certs |-> <<>>]]
    /\ UNCHANGED <<raw, certs, levels, valid, rest, placed, outcome, result>>

\* findIndexToInsertCertIntoBucket: a certificate that is not comparable is
\* skipped without being counted, so the index falls short by the number of
\* those before the first certificate c is not below.
FirstNotAbove(s, c) == Min({i \in 1..Len(s) : Reaches(c, s[i])})
SkippedBefore(s, c, n) == Cardinality({i \in 1..(n - 1) : ~Comparable(c, s[i])})
AtTheEnd(s, c) == Len(s) + 1
IndexToInsert(s, c) ==
    IF \E i \in 1..Len(s) : Reaches(c, s[i])
    THEN FirstNotAbove(s, c) - SkippedBefore(s, c, FirstNotAbove(s, c))
    ELSE Len(s) + 1

\* The buckets of the levels that certificate c reaches.
ReachedBuckets(c) == {b \in 1..Len(buckets) : Reaches(c, buckets[b].tcb)}

Place ==
    /\ buckets # <<>>
    /\ placed < Len(certs)
    /\ placed' = placed + 1
    /\ LET c == certs[placed + 1] IN
       IF ReachedBuckets(c) = {}
       THEN rest' = Append(rest, c) /\ UNCHANGED buckets
       ELSE /\ buckets' = [buckets EXCEPT ![Min(ReachedBuckets(c))].certs =
                              InsertAt(@, IndexToInsert(@, c), c)]
            /\ UNCHANGED rest
    /\ UNCHANGED <<raw, certs, levels, valid, outcome, result>>

\* The lists of certificates selectBestPckCertFromTcbBuckets goes through.
LevelLists == [b \in 1..Len(buckets) |-> buckets[b].certs]
Lists      == LevelLists \o <<rest>>

Fits(c) == Reaches(raw, c)
Fitting(list) == {i \in 1..Len(list) : Fits(list[i])}

AllFits(lists) == SelectSeq(FlattenSeq(lists), Fits)
FirstFit(lists) ==
    LET found == {b \in 1..Len(lists) : Fitting(lists[b]) # {}}
        list  == lists[Min(found)]
    IN  IF found = {} THEN <<>> ELSE <<list[Min(Fitting(list))]>>

Select ==
    /\ buckets # <<>>
    /\ placed = Len(certs)
    /\ outcome = "none"
    /\ result' = FirstFit(Lists)
    /\ outcome' = IF result' = <<>> THEN "not found" ELSE "selected"
    /\ UNCHANGED <<raw, certs, levels, valid, buckets, rest, placed>>

Ended == outcome # "none" /\ UNCHANGED vars

Next == Validate \/ CreateBuckets \/ Place \/ Select \/ Ended

Spec == Init /\ [][Next]_vars

-----------------------------------------------------------------------------
(* Properties.                                                              *)

Selected == outcome = "selected"

TypeOK ==
    /\ \A b \in 1..Len(buckets) : Range(buckets[b].certs) \subseteq Range(certs)
    /\ Range(rest) \subseteq Range(certs)
    /\ placed \in 0..Len(certs)
    /\ outcome \in {"none", "refused", "not found", "selected"}
    /\ Selected => result \in [1..1 -> Range(certs)]

\* A certificate is found exactly when there is one that the platform's TCB is
\* not below in any component, and it is such a one, whatever is comparable
\* with what and in whatever order certificates and levels come.
FoundIfOneFits ==
    /\ Selected => Fits(result[1])
    /\ outcome = "not found" => \A c \in Range(certs) : ~Fits(c)

\* What the TCB info is for: when its levels are comparable, no certificate
\* that fits reaches a higher level than the one selected.
HighestLevel ==
    Selected /\ (\A l, m \in Range(levels) : Comparable(l, m)) =>
        \A c \in Range(certs), l \in Range(levels) :
            Fits(c) /\ Reaches(c, l) => Reaches(result[1], l)

\* A certificate that reaches no level is not a valid one (selectBestPckCert).
Matched == \E l \in Range(levels) : Reaches(result[1], l)

\* When the certificates are comparable, the one selected is the highest that
\* fits, wherever the buckets split them.
HighestOfComparable ==
    Selected /\ Matched /\ (\A c, d \in Range(certs) : Comparable(c, d)) =>
        \A c \in Range(certs) : Fits(c) => Reaches(result[1], c)

\* commonCacheLogic.js: the tool is called "to select the "best" cert for this
\* raw TCB": none that fits is above it in some component and below in none.
NoneBetterFits ==
    Selected /\ Matched => \A c \in Range(certs) : Fits(c) => ~Above(c, result[1])
=============================================================================
