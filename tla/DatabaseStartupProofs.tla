----------------------- MODULE DatabaseStartupProofs -----------------------
(***************************************************************************)
(* What the start of the server and the migrations promise, in every state *)
(* a crash, an interrupt or a refused statement can leave.  The invariant  *)
(* says of a database what is true of it while script n is not recorded,   *)
(* however often that script has run in part (Stable), what is true        *)
(* between two of its statements (Halfway) and after the last (Done).      *)
(* Stable is what a statement of script n can count on when the script is  *)
(* run again from its start; Done(n) is what makes it Stable for n + 1.    *)
(***************************************************************************)
EXTENDS DatabaseStartup, SequenceTheorems, TLAPS

Temps == {"fmspc_tcbs_temp", "enclave_identities_temp"}

\* Some table of T holds rows.
Holds(d, T) == \E t \in T : d.table[t].filled

\* The collateral there was (h) is in the database, whole or not.
Kept(h, d) ==
    h => /\ Holds(d, {"fmspc_tcbs", "fmspc_tcbs_temp"})
         /\ Holds(d, {"qe_identities", "enclave_identities", "enclave_identities_temp"})

\* Script 01 converts in the transaction that adds the column, or after MySQL
\* has kept the column: a script 01 that is run again then fails before that.
ConvertedWithColumn(d) == d.converted <= 1 /\ (d.converted > 0 => d.column)

\* The row pcs_version has is made by script 01, and updated by the others.
VersionRow(n, d) == (n = 0 => d.version = 0) /\ (n >= 2 => d.version > 0)

\* The tables there may be while script n has not been recorded, and those
\* whose layout is known although it may have run in part.
MayExist(n) ==
    CASE n <= 1 -> {"fmspc_tcbs", "qe_identities"}
      [] n = 2  -> Tables \ {"enclave_identities_temp"}
      [] n \in {3, 5} -> Tables \ {"qe_identities"}
      [] OTHER  -> {"fmspc_tcbs", "enclave_identities"}
Known(n) ==
    CASE n = 2 -> {"fmspc_tcbs_temp", "enclave_identities"}
      [] n \in {3, 5} -> Temps
      [] OTHER -> Tables

\* The layout of the tables Known(n).
LayoutAt(n) == IF n = 6 THEN 5 ELSE LayoutOf(n)

TableAt(n, t, d) ==
    Exists(d, t) => t \in MayExist(n) /\ (t \in Known(n) => d.table[t].layout = LayoutAt(n))

TablesAt(n, d) == \A t \in Tables : TableAt(n, t, d)

\* Table t is not there, or has layout n.
HasLayout(n, t, d) == Exists(d, t) => d.table[t].layout = n

\* While script n is not recorded, whatever part of it has run and however often.
Stable(h, n, d) ==
    /\ Kept(h, d) /\ ConvertedWithColumn(d) /\ VersionRow(n, d) /\ TablesAt(n, d)
    /\ n = 6 => d.version = 5 /\ Exists(d, "fmspc_tcbs") /\ Exists(d, "enclave_identities")

\* After script n.
Done(n, d) ==
    /\ d.version = n
    /\ \A t \in Tables : Exists(d, t) => t \in MayExist(n + 1) \ Temps /\ d.table[t].layout = LayoutOf(n)
    /\ n = 5 => Exists(d, "fmspc_tcbs") /\ Exists(d, "enclave_identities")

\* k statements of Rebuild(t, temp, n) are done.
Rebuilt(t, temp, n, k, d) ==
    /\ k = 1 => Exists(d, temp)
    /\ k = 2 => Exists(d, temp) /\ (d.table[t].filled => d.table[temp].filled)
    /\ k = 3 => Exists(d, temp) /\ ~Exists(d, t)
    /\ k >= 4 => Exists(d, t) /\ d.table[t].layout = n /\ ~Exists(d, temp)

\* Before statement i of script n.
Halfway(n, i, d) ==
    /\ n \in 2..5 /\ i > 1 => d.version = n
    /\ n = 1 => /\ i \in 2..3 => d.column /\ d.converted = 0
                /\ i > 2 => d.version = 1
    /\ n \in {2, 3, 5} => Rebuilt("fmspc_tcbs", "fmspc_tcbs_temp", n, i - 2, d)
    /\ n = 2 => /\ i > 6 => Exists(d, "enclave_identities")
                /\ i = 8 => (d.table["qe_identities"].filled => d.table["enclave_identities"].filled)
                /\ i > 8 => ~Exists(d, "qe_identities")
    /\ n \in {3, 5} => Rebuilt("enclave_identities", "enclave_identities_temp", n, i - 6, d)

\* With SQLite a database has the layout of its version.
Uniform(d) == d.version > 0 => \A t \in Tables : Exists(d, t) => d.table[t].layout = LayoutOf(d.version)

\* What is durable and what the open transaction sees are both stable; a script
\* that runs is halfway, one that is not recorded yet is done.
DatabaseInvariant ==
    /\ Stable(had, log, db) /\ Stable(had, log, work)
    /\ proc = "migrating" /\ log < 6 => pc \in 1..Len(Script[log + 1]) + 1 /\ Halfway(log, pc, work)
    /\ proc = "migrated" => log < 6 /\ work = db /\ Done(log, db)
    /\ sqlite => Uniform(db)

\* Who listens has come to the end of main, with or without an exit to come.
ProcessInvariant ==
    /\ proc \in {"checked", "up"} /\ setting # "no check" => log = 6
    /\ listening => proc \in {"up", "up, refused"}
    /\ proc \in {"up", "up, refused"} =>
           /\ started = (setting # "no schedule")
           /\ proc = "up, refused" \/ setting \in {"unknown mode", "no key"} => exiting

\* TypeOK, with the bounds computed.
Typed ==
    /\ db \in Databases /\ work \in Databases /\ log \in 0..6 /\ pc \in 0..12
    /\ proc \in {"down", "rejected", "migrating", "migrated", "checked",
                "refused", "up", "up, refused", "deaf"}
    /\ setting \in Settings
    /\ sqlite \in BOOLEAN /\ exiting \in BOOLEAN /\ listening \in BOOLEAN
    /\ started \in BOOLEAN /\ old \in BOOLEAN /\ had \in BOOLEAN

StartupInvariant == Typed /\ DatabaseInvariant /\ ProcessInvariant
-----------------------------------------------------------------------------
(* Statements.                                                              *)

Rows == {Absent} \cup [layout : 0..5, filled : BOOLEAN]

\* d and e differ in tables of U at most.
OnlyTables(U, d, e) ==
    /\ e.created = d.created /\ e.column = d.column /\ e.version = d.version
    /\ e.converted = d.converted
    /\ \A t \in Tables \ U : e.table[t] = d.table[t]

LEMMA TableTypes ==
    ASSUME NEW d \in Databases
    PROVE  /\ d.table \in [Tables -> Rows]
           /\ \A t \in Tables : Exists(d, t) => d.table[t] \in [layout : 0..5, filled : BOOLEAN]
           /\ \A t \in Tables : Exists(d, t) => d.table[t].layout \in 0..5
           /\ \A t \in Tables : d.table[t].filled \in BOOLEAN
           /\ \A t \in Tables : ~Exists(d, t) => d.table[t].filled = FALSE
<1>1. d.table \in [Tables -> Rows]
    BY DEF Databases, Rows
<1>2. ASSUME NEW t \in Tables
      PROVE  d.table[t] = Absent \/ d.table[t] \in [layout : 0..5, filled : BOOLEAN]
    BY <1>1 DEF Rows
<1>3. Absent.filled = FALSE
    BY DEF Absent
<1>4. \A t \in Tables : Exists(d, t) => d.table[t] \in [layout : 0..5, filled : BOOLEAN]
    BY <1>2 DEF Exists
<1>5. \A t \in Tables : Exists(d, t) => d.table[t].layout \in 0..5 /\ d.table[t].filled \in BOOLEAN
    BY <1>4
<1>6. \A t \in Tables : ~Exists(d, t) => d.table[t].filled = FALSE
    BY <1>3 DEF Exists
<1>7. \A t \in Tables : d.table[t].filled \in BOOLEAN
    BY <1>5, <1>6
<1> QED
    BY <1>1, <1>4, <1>5, <1>6, <1>7

LEMMA NewTable ==
    ASSUME NEW d \in Databases, NEW f \in [Tables -> Rows]
    PROVE  [d EXCEPT !.table = f] \in Databases
BY DEF Databases, Rows

\* d with r as the row of table t.
With(d, t, r) == [d EXCEPT !.table[t] = r]

LEMMA WithIs ==
    ASSUME NEW d \in Databases, NEW t \in Tables, NEW r \in Rows
    PROVE  /\ With(d, t, r) \in Databases /\ OnlyTables({t}, d, With(d, t, r))
           /\ With(d, t, r).table[t] = r
<1> DEFINE g == [d.table EXCEPT ![t] = r]
           e == With(d, t, r)
<1>1. d.table \in [Tables -> Rows]
    BY TableTypes
<1>2. g \in [Tables -> Rows] /\ g[t] = r /\ \A u \in Tables \ {t} : g[u] = d.table[u]
    BY <1>1
<1>3. e = [d EXCEPT !.table = g]
    BY DEF With
<1> HIDE DEF g
<1>4. e \in Databases
    BY <1>2, <1>3, NewTable
<1>5. /\ e.table = g /\ e.created = d.created /\ e.column = d.column
      /\ e.version = d.version /\ e.converted = d.converted
    BY <1>3 DEF Databases
<1> QED
    BY <1>2, <1>4, <1>5 DEF OnlyTables

LEMMA CreateIs ==
    ASSUME NEW d \in Databases, NEW t \in Tables, NEW n \in 0..5,
           NEW e, e = Effect(Create(t, n), d)
    PROVE  /\ e \in Databases /\ OnlyTables({t}, d, e) /\ Exists(e, t)
           /\ e.table[t] = IF Exists(d, t) THEN d.table[t] ELSE Table(n, FALSE)
<1>1. e = IF Exists(d, t) THEN d ELSE With(d, t, Table(n, FALSE))
    BY DEF Effect, Create, With
<1>2. Table(n, FALSE) \in Rows /\ Table(n, FALSE) # Absent
    BY DEF Table, Rows, Absent
<1>3. CASE Exists(d, t)
    BY <1>1, <1>3 DEF OnlyTables
<1>4. CASE ~Exists(d, t)
    <2> DEFINE r == Table(n, FALSE)
    <2>1. r \in Rows /\ e = With(d, t, r)
        BY <1>1, <1>2, <1>4
    <2> HIDE DEF r
    <2>2. e \in Databases /\ OnlyTables({t}, d, e) /\ e.table[t] = r
        BY <2>1, WithIs
    <2> QED
        BY <1>2, <1>4, <2>2 DEF r, Exists, Table
<1> QED
    BY <1>3, <1>4

LEMMA CopyIs ==
    ASSUME NEW d \in Databases, NEW s \in Tables, NEW t \in Tables, Works(Copy(s, t), d),
           NEW e, e = Effect(Copy(s, t), d)
    PROVE  /\ e \in Databases /\ OnlyTables({t}, d, e)
           /\ Exists(d, s) /\ Exists(d, t) /\ Exists(e, t)
           /\ e.table[t].layout = d.table[t].layout
           /\ (e.table[t].filled <=> d.table[t].filled \/ d.table[s].filled)
<1> DEFINE f == d.table[t].filled \/ d.table[s].filled
           r == [d.table[t] EXCEPT !.filled = f]
<1>1. e = [d EXCEPT !.table[t].filled = f]
    BY DEF Effect, Copy
<1>2. Exists(d, s) /\ Exists(d, t)
    BY DEF Works, Copy
<1>3. d.table[t] \in [layout : 0..5, filled : BOOLEAN] /\ f \in BOOLEAN
    BY <1>2, TableTypes
<1> HIDE DEF f
<1>4. /\ r \in [layout : 0..5, filled : BOOLEAN] /\ r.filled = f
      /\ r.layout = d.table[t].layout
    BY <1>3
<1>5. e = With(d, t, r)
    BY <1>1 DEF With
<1> HIDE DEF r
<1>6. r \in Rows /\ r # Absent
    BY <1>4 DEF Rows, Absent
<1>7. e \in Databases /\ OnlyTables({t}, d, e) /\ e.table[t] = r
    BY <1>5, <1>6, WithIs
<1> QED
    BY <1>2, <1>4, <1>6, <1>7 DEF f, Exists

LEMMA DropIs ==
    ASSUME NEW d \in Databases, NEW t \in Tables, NEW e, e = Effect(Drop(t), d)
    PROVE  e \in Databases /\ OnlyTables({t}, d, e) /\ ~Exists(e, t)
<1>1. e = With(d, t, Absent)
    BY DEF Effect, Drop, With
<1>2. Absent \in Rows
    BY DEF Rows
<1> QED
    BY <1>1, <1>2, WithIs DEF Exists

LEMMA RenameIs ==
    ASSUME NEW d \in Databases, NEW s \in Tables, NEW t \in Tables, s # t, Works(Rename(s, t), d),
           NEW e, e = Effect(Rename(s, t), d)
    PROVE  /\ e \in Databases /\ OnlyTables({s, t}, d, e)
           /\ Exists(d, s) /\ ~Exists(d, t) /\ Exists(e, t) /\ ~Exists(e, s)
           /\ e.table[t] = d.table[s]
<1> DEFINE r == d.table[s]
           g == With(d, t, r)
<1>1. e = With(g, s, Absent)
    BY DEF Effect, Rename, With
<1>2. r \in Rows /\ Absent \in Rows
    BY TableTypes DEF Rows
<1>3. g \in Databases /\ OnlyTables({t}, d, g) /\ g.table[t] = r
    BY <1>2, WithIs
<1> HIDE DEF g
<1>4. e \in Databases /\ OnlyTables({s}, g, e) /\ e.table[s] = Absent
    BY <1>1, <1>2, <1>3, WithIs
<1>5. Exists(d, s) /\ ~Exists(d, t)
    BY DEF Works, Rename
<1>6. OnlyTables({s, t}, d, e) /\ e.table[t] = r
    BY <1>3, <1>4 DEF OnlyTables
<1> QED
    BY <1>4, <1>5, <1>6 DEF Exists

LEMMA VersionIs ==
    ASSUME NEW d \in Databases, NEW n \in 1..5, NEW e, e = Effect(Version(n), d)
    PROVE  /\ e \in Databases /\ e.table = d.table /\ e.created = d.created
           /\ e.column = d.column /\ e.converted = d.converted
           /\ e.version = IF d.version > 0 \/ n = 1 THEN n ELSE d.version
BY DEF Effect, Version, Databases

LEMMA ColumnIs ==
    ASSUME NEW d \in Databases, Works(AddColumn, d), NEW e, e = Effect(AddColumn, d)
    PROVE  /\ e \in Databases /\ e.table = d.table /\ e.created = d.created
           /\ ~d.column /\ e.column /\ e.converted = d.converted /\ e.version = d.version
BY DEF Effect, AddColumn, Databases, Works

LEMMA ConvertIs ==
    ASSUME NEW d \in Databases, d.converted = 0, NEW e, e = Effect(Convert, d)
    PROVE  /\ e \in Databases /\ e.table = d.table /\ e.created = d.created
           /\ e.column = d.column /\ e.converted = 1 /\ e.version = d.version
BY DEF Effect, Convert, Databases

LEMMA OtherIs ==
    ASSUME NEW d
    PROVE  Effect(Other, d) = d
BY DEF Effect, Other

LEMMA BaseIs ==
    ASSUME NEW d \in Databases, NEW i \in 1..BaseTables, NEW e, e = Effect(Base(i), d)
    PROVE  /\ e \in Databases
           /\ e.column = d.column /\ e.converted = d.converted /\ e.version = d.version
           /\ \A t \in Tables : \/ e.table[t] = d.table[t]
                                \/ /\ ~Exists(d, t) /\ e.table[t] = Table(0, FALSE)
                                   /\ t \in {"fmspc_tcbs", "qe_identities"}
<1> DEFINE f == [t \in Tables |-> IF t \in BaseTable(i) /\ ~Exists(d, t) THEN Table(0, FALSE)
                                  ELSE d.table[t]]
<1>1. e = [d EXCEPT !.created = IF i > d.created THEN i ELSE d.created, !.table = f]
    BY DEF Effect, Base, Databases
<1>2. f \in [Tables -> Rows]
    <2>1. Table(0, FALSE) \in Rows
        BY DEF Rows, Table
    <2>2. d.table \in [Tables -> Rows]
        BY TableTypes
    <2> QED
        BY <2>1, <2>2
<1>3. \A t \in BaseTable(i) : t \in {"fmspc_tcbs", "qe_identities"}
    BY DEF BaseTable
<1> DEFINE c == IF i > d.created THEN i ELSE d.created
<1> HIDE DEF f
<1>4. c \in 0..BaseTables
    BY DEF Databases, BaseTables
<1> HIDE DEF c
<1>5. e = [d EXCEPT !.created = c, !.table = f]
    BY <1>1 DEF c
<1>6. /\ e.table = f /\ e.column = d.column /\ e.converted = d.converted
      /\ e.version = d.version
    BY <1>5 DEF Databases
<1>7. e \in Databases
    BY <1>2, <1>4, <1>5 DEF Databases, Rows
<1> QED
    BY <1>3, <1>6, <1>7 DEF f
-----------------------------------------------------------------------------
(* Scripts.                                                                 *)

LEMMA NineTyped ==
    ASSUME NEW S, NEW x \in S, NEW b1 \in S, NEW b2 \in S, NEW b3 \in S, NEW b4 \in S,
           NEW c1 \in S, NEW c2 \in S, NEW c3 \in S, NEW c4 \in S
    PROVE  LET s == <<x>> \o <<b1, b2, b3, b4>> \o <<c1, c2, c3, c4>>
           IN  /\ Len(s) = 9 /\ s[1] = x
               /\ s[2] = b1 /\ s[3] = b2 /\ s[4] = b3 /\ s[5] = b4
               /\ s[6] = c1 /\ s[7] = c2 /\ s[8] = c3 /\ s[9] = c4
OBVIOUS

LEMMA Nine ==
    ASSUME NEW x, NEW b1, NEW b2, NEW b3, NEW b4, NEW c1, NEW c2, NEW c3, NEW c4,
           NEW s, s = <<x>> \o <<b1, b2, b3, b4>> \o <<c1, c2, c3, c4>>
    PROVE  /\ Len(s) = 9 /\ s[1] = x
           /\ s[2] = b1 /\ s[3] = b2 /\ s[4] = b3 /\ s[5] = b4
           /\ s[6] = c1 /\ s[7] = c2 /\ s[8] = c3 /\ s[9] = c4
<1> DEFINE S == {x, b1, b2, b3, b4, c1, c2, c3, c4}
<1>1. /\ x \in S /\ b1 \in S /\ b2 \in S /\ b3 \in S /\ b4 \in S
      /\ c1 \in S /\ c2 \in S /\ c3 \in S /\ c4 \in S
    OBVIOUS
<1> HIDE DEF S
<1> QED
    BY <1>1, NineTyped

LEMMA RebuildIs ==
    ASSUME NEW t, NEW temp, NEW n
    PROVE  LET s == Rebuild(t, temp, n)
           IN  /\ Len(s) = 4 /\ s[1] = Create(temp, n) /\ s[2] = Copy(t, temp)
               /\ s[3] = Drop(t) /\ s[4] = Rename(temp, t)
BY DEF Rebuild

LEMMA Script0Is == Len(Script0) = 11 /\ \A i \in 1..11 : Script0[i] = Base(i)
<1>1. DOMAIN Script0 = 1..11 /\ \A i \in 1..11 : Script0[i] = Base(i)
    BY DEF Script0, BaseTables
<1> DEFINE S == {Base(i) : i \in 1..11}
<1>2. Script0 \in [1..11 -> S]
    BY DEF Script0, BaseTables
<1>3. Script0 \in Seq(S)
    BY <1>2, SeqDef
<1>4. Len(Script0) \in Nat /\ DOMAIN Script0 = 1..Len(Script0)
    BY <1>3, LenProperties
<1>5. Len(Script0) = 11
    BY <1>1, <1>4
<1> QED
    BY <1>1, <1>5

LEMMA Script2Is ==
    /\ Len(Script2) = 9 /\ Script2[1] = Version(2)
    /\ \A k \in 0..3 : Script2[k + 2] = Rebuild("fmspc_tcbs", "fmspc_tcbs_temp", 2)[k + 1]
    /\ Script2[6] = Create("enclave_identities", 2)
    /\ Script2[7] = Copy("qe_identities", "enclave_identities")
    /\ Script2[8] = Drop("qe_identities") /\ Script2[9] = Other
<1> DEFINE t == "fmspc_tcbs"  temp == "fmspc_tcbs_temp"
<1>1. /\ Len(Script2) = 9 /\ Script2[1] = Version(2)
      /\ Script2[2] = Create(temp, 2) /\ Script2[3] = Copy(t, temp)
      /\ Script2[4] = Drop(t) /\ Script2[5] = Rename(temp, t)
      /\ Script2[6] = Create("enclave_identities", 2)
      /\ Script2[7] = Copy("qe_identities", "enclave_identities")
      /\ Script2[8] = Drop("qe_identities") /\ Script2[9] = Other
    BY Nine DEF Script2, Rebuild
<1>2. \A k \in 0..3 : k = 0 \/ k = 1 \/ k = 2 \/ k = 3
    OBVIOUS
<1>3. \A k \in 0..3 : Script2[k + 2] = Rebuild(t, temp, 2)[k + 1]
    BY <1>1, <1>2, RebuildIs
<1> QED
    BY <1>1, <1>3

LEMMA RebuildsIs ==
    ASSUME NEW n
    PROVE  /\ Len(Rebuilds(n)) = 9 /\ Rebuilds(n)[1] = Version(n)
           /\ \A k \in 0..3 :
                  /\ Rebuilds(n)[k + 2] = Rebuild("fmspc_tcbs", "fmspc_tcbs_temp", n)[k + 1]
                  /\ Rebuilds(n)[k + 6] =
                         Rebuild("enclave_identities", "enclave_identities_temp", n)[k + 1]
<1> DEFINE t == "fmspc_tcbs"          temp == "fmspc_tcbs_temp"
           u == "enclave_identities"  uemp == "enclave_identities_temp"
           s == Rebuilds(n)
<1>1. /\ Len(s) = 9 /\ s[1] = Version(n)
      /\ s[2] = Create(temp, n) /\ s[3] = Copy(t, temp)
      /\ s[4] = Drop(t) /\ s[5] = Rename(temp, t)
      /\ s[6] = Create(uemp, n) /\ s[7] = Copy(u, uemp)
      /\ s[8] = Drop(u) /\ s[9] = Rename(uemp, u)
    BY Nine DEF Rebuilds, Rebuild
<1>2. \A k \in 0..3 : k = 0 \/ k = 1 \/ k = 2 \/ k = 3
    OBVIOUS
<1>3. \A k \in 0..3 : s[k + 2] = Rebuild(t, temp, n)[k + 1]
    BY <1>1, <1>2, RebuildIs
<1>4. \A k \in 0..3 : s[k + 6] = Rebuild(u, uemp, n)[k + 1]
    BY <1>1, <1>2, RebuildIs
<1> QED
    BY <1>1, <1>3, <1>4

\* The scripts, and how many statements each has.
LEMMA ScriptIs ==
    /\ Len(Script) = 6
    /\ Script[1] = Script0 /\ Script[2] = Script1 /\ Script[3] = Script2
    /\ Script[4] = Rebuilds(3) /\ Script[5] = Script4 /\ Script[6] = Rebuilds(5)
    /\ \A n \in 0..5 : Len(Script[n + 1]) = IF n = 0 THEN 11 ELSE IF n = 1 THEN 3
                                            ELSE IF n = 4 THEN 2 ELSE 9
<1>1. /\ Len(Script) = 6
      /\ Script[1] = Script0 /\ Script[2] = Script1 /\ Script[3] = Script2
      /\ Script[4] = Rebuilds(3) /\ Script[5] = Script4 /\ Script[6] = Rebuilds(5)
    BY DEF Script
<1>2. Len(Script1) = 3 /\ Len(Script4) = 2
    BY DEF Script1, Script4
<1>3. \A n \in 0..5 : n = 0 \/ n = 1 \/ n = 2 \/ n = 3 \/ n = 4 \/ n = 5
    OBVIOUS
<1> QED
    BY <1>1, <1>2, <1>3, Script0Is, Script2Is, RebuildsIs
-----------------------------------------------------------------------------
(* What a statement of a script does to the invariant.                      *)

LEMMA RebuildStep ==
    ASSUME NEW n \in 0..5, NEW t \in Tables, NEW temp \in Tables, t # temp, NEW k \in 0..3,
           NEW d \in Databases, Rebuilt(t, temp, n, k, d),
           HasLayout(n, temp, d),
           NEW s, s = Rebuild(t, temp, n)[k + 1], Works(s, d), NEW e, e = Effect(s, d)
    PROVE  /\ e \in Databases /\ OnlyTables({t, temp}, d, e)
           /\ Rebuilt(t, temp, n, k + 1, e)
           /\ HasLayout(n, temp, e)
           /\ Holds(d, {t, temp}) => Holds(e, {t, temp})
<1>1. CASE k = 0
    <2>1. e = Effect(Create(temp, n), d)
        BY <1>1, RebuildIs
    <2>2. /\ e \in Databases /\ OnlyTables({temp}, d, e) /\ Exists(e, temp)
          /\ e.table[temp] = IF Exists(d, temp) THEN d.table[temp] ELSE Table(n, FALSE)
        BY <2>1, CreateIs
    <2>3. OnlyTables({t, temp}, d, e) /\ e.table[t] = d.table[t]
        BY <2>2 DEF OnlyTables
    <2>4. Rebuilt(t, temp, n, 1, e)
        BY <2>2 DEF Rebuilt, HasLayout
    <2>5. ~Exists(d, temp) => ~d.table[temp].filled
        BY TableTypes
    <2> QED
        BY <1>1, <2>2, <2>3, <2>4, <2>5 DEF Table, Holds, HasLayout
<1>2. CASE k = 1
    <2>1. s = Copy(t, temp)
        BY <1>2, RebuildIs
    <2>2. /\ e \in Databases /\ OnlyTables({temp}, d, e) /\ Exists(d, temp) /\ Exists(e, temp)
          /\ e.table[temp].layout = d.table[temp].layout
          /\ (e.table[temp].filled <=> d.table[temp].filled \/ d.table[t].filled)
        BY <2>1, CopyIs
    <2>3. OnlyTables({t, temp}, d, e) /\ e.table[t] = d.table[t]
        BY <2>2 DEF OnlyTables
    <2>4. Rebuilt(t, temp, n, 2, e)
        BY <2>2, <2>3 DEF Rebuilt, HasLayout
    <2> QED
        BY <1>2, <2>2, <2>3, <2>4 DEF Holds, HasLayout
<1>3. CASE k = 2
    <2>1. s = Drop(t)
        BY <1>3, RebuildIs
    <2>2. e \in Databases /\ OnlyTables({t}, d, e) /\ ~Exists(e, t)
        BY <2>1, DropIs
    <2>3. OnlyTables({t, temp}, d, e) /\ e.table[temp] = d.table[temp]
        BY <2>2 DEF OnlyTables
    <2>4. Exists(d, temp) /\ (d.table[t].filled => d.table[temp].filled)
        BY <1>3 DEF Rebuilt, HasLayout
    <2>5. Rebuilt(t, temp, n, 3, e)
        BY <2>2, <2>3, <2>4 DEF Rebuilt, Exists
    <2> QED
        BY <1>3, <2>2, <2>3, <2>4, <2>5 DEF Holds, HasLayout
<1>4. CASE k = 3
    <2>1. s = Rename(temp, t)
        BY <1>4, RebuildIs
    <2>2. /\ e \in Databases /\ OnlyTables({temp, t}, d, e)
          /\ Exists(d, temp) /\ ~Exists(d, t) /\ Exists(e, t) /\ ~Exists(e, temp)
          /\ e.table[t] = d.table[temp]
        BY <2>1, RenameIs
    <2>3. OnlyTables({t, temp}, d, e) /\ ~d.table[t].filled
        BY <2>2, TableTypes DEF OnlyTables
    <2>4. Rebuilt(t, temp, n, 4, e)
        BY <2>2 DEF Rebuilt, HasLayout
    <2> QED
        BY <1>4, <2>2, <2>3, <2>4 DEF Holds, HasLayout
<1> QED
    BY <1>1, <1>2, <1>3, <1>4

\* Once rebuilt, a table stays so while others change.
LEMMA StaysRebuilt ==
    ASSUME NEW n, NEW t \in Tables, NEW temp \in Tables, NEW U, t \notin U, temp \notin U,
           NEW d, NEW e, OnlyTables(U, d, e), NEW k \in Nat, k >= 4,
           Rebuilt(t, temp, n, k, d)
    PROVE  Rebuilt(t, temp, n, k + 1, e)
BY DEF Rebuilt, OnlyTables, Exists

LEMMA StableAfter ==
    ASSUME NEW h, NEW n \in 0..5, NEW d, NEW e, Stable(h, n, d), NEW U,
           \A t \in Tables \ U : e.table[t] = d.table[t],
           Kept(h, e), ConvertedWithColumn(e), VersionRow(n, e),
           \A t \in Tables \cap U : TableAt(n, t, e)
    PROVE  Stable(h, n, e)
<1>1. TablesAt(n, e)
    <2>1. TablesAt(n, d)
        BY DEF Stable
    <2> QED
        BY <2>1 DEF TablesAt, TableAt, Exists
<1> QED
    BY <1>1 DEF Stable

LEMMA StableOne ==
    ASSUME NEW h, NEW n \in 0..5, NEW d, NEW e, Stable(h, n, d), NEW t,
           \A x \in Tables \ {t} : e.table[x] = d.table[x],
           Kept(h, e), ConvertedWithColumn(e), VersionRow(n, e), TableAt(n, t, e)
    PROVE  Stable(h, n, e)
<1> DEFINE U == {t}
<1>1. \A x \in Tables \cap U : TableAt(n, x, e)
    OBVIOUS
<1>2. \A x \in Tables \ U : e.table[x] = d.table[x]
    OBVIOUS
<1> HIDE DEF U
<1> QED
    BY <1>1, <1>2, StableAfter

\* A statement that leaves the tables alone.
LEMMA StableSame ==
    ASSUME NEW h, NEW n \in 0..5, NEW d, NEW e, Stable(h, n, d), e.table = d.table,
           ConvertedWithColumn(e), VersionRow(n, e)
    PROVE  Stable(h, n, e)
<1> DEFINE U == {}
<1>1. Kept(h, e)
    BY DEF Stable, Kept, Holds
<1>2. \A t \in Tables \ U : e.table[t] = d.table[t]
    OBVIOUS
<1>3. \A t \in Tables \cap U : TableAt(n, t, e)
    OBVIOUS
<1> HIDE DEF U
<1> QED
    BY <1>1, <1>2, <1>3, StableAfter

LEMMA SameVersion ==
    ASSUME NEW h, NEW n, NEW d, NEW e, NEW U, Stable(h, n, d), OnlyTables(U, d, e)
    PROVE  /\ ConvertedWithColumn(e) /\ VersionRow(n, e) /\ e.version = d.version
           /\ \A t \in Tables \ U : e.table[t] = d.table[t]
BY DEF Stable, OnlyTables, ConvertedWithColumn, VersionRow

LEMMA HalfwayStart ==
    ASSUME NEW n \in 0..5, NEW d
    PROVE  Halfway(n, 1, d)
BY DEF Halfway, Rebuilt
-----------------------------------------------------------------------------
(* A statement of each script.                                              *)

LEMMA RunsScript0 ==
    ASSUME NEW h, NEW d \in Databases, NEW i \in 1..11, Stable(h, 0, d),
           NEW s, s = Script0[i], NEW e, e = Effect(s, d)
    PROVE  e \in Databases /\ Stable(h, 0, e) /\ Halfway(0, i + 1, e)
<1>1. e = Effect(Base(i), d) /\ i \in 1..BaseTables
    BY Script0Is DEF BaseTables
<1>2. /\ e \in Databases
      /\ e.column = d.column /\ e.converted = d.converted /\ e.version = d.version
      /\ \A t \in Tables : \/ e.table[t] = d.table[t]
                           \/ /\ ~Exists(d, t) /\ e.table[t] = Table(0, FALSE)
                              /\ t \in {"fmspc_tcbs", "qe_identities"}
    BY <1>1, BaseIs
<1>3. ConvertedWithColumn(e) /\ VersionRow(0, e)
    BY <1>2 DEF Stable, ConvertedWithColumn, VersionRow
<1>4. Kept(h, e)
    <2>1. \A t \in Tables : d.table[t].filled => e.table[t].filled
        BY <1>2, TableTypes
    <2> QED
        BY <2>1 DEF Stable, Kept, Holds, Tables
<1>5. TablesAt(0, e)
    <2>1. TablesAt(0, d) /\ MayExist(0) = {"fmspc_tcbs", "qe_identities"} /\ LayoutAt(0) = 0
        BY DEF Stable, MayExist, LayoutAt, LayoutOf
    <2> QED
        BY <1>2, <2>1 DEF TablesAt, TableAt, Exists, Table
<1>6. Stable(h, 0, e)
    BY <1>3, <1>4, <1>5 DEF Stable
<1>7. Halfway(0, i + 1, e)
    BY DEF Halfway
<1> QED
    BY <1>2, <1>6, <1>7

LEMMA RunsScript1 ==
    ASSUME NEW h, NEW d \in Databases, NEW i \in 1..3, Stable(h, 1, d), Halfway(1, i, d),
           NEW s, s = Script1[i], Works(s, d), NEW e, e = Effect(s, d)
    PROVE  e \in Databases /\ Stable(h, 1, e) /\ Halfway(1, i + 1, e)
<1>1. Script1[1] = AddColumn /\ Script1[2] = Version(1) /\ Script1[3] = Convert
    BY DEF Script1
<1>2. ConvertedWithColumn(d)
    BY DEF Stable
<1>3. /\ i \in 2..3 => d.column /\ d.converted = 0
      /\ i > 2 => d.version = 1
    BY DEF Halfway
<1>4. VersionRow(1, e)
    BY DEF VersionRow
<1>5. CASE i = 1
    <2>1. /\ e \in Databases /\ e.table = d.table
          /\ ~d.column /\ e.column /\ e.converted = d.converted
        BY <1>1, <1>5, ColumnIs
    <2>2. e.column /\ e.converted = 0
        BY <1>2, <2>1 DEF ConvertedWithColumn, Databases
    <2>3. ConvertedWithColumn(e)
        BY <2>2 DEF ConvertedWithColumn
    <2>4. Stable(h, 1, e)
        BY <1>4, <2>1, <2>3, StableSame
    <2>5. Halfway(1, 2, e)
        BY <2>2 DEF Halfway
    <2> QED
        BY <1>5, <2>1, <2>4, <2>5
<1>6. CASE i = 2
    <2>1. /\ e \in Databases /\ e.table = d.table
          /\ e.column = d.column /\ e.converted = d.converted /\ e.version = 1
        BY <1>1, <1>6, VersionIs
    <2>2. ConvertedWithColumn(e)
        BY <1>2, <2>1 DEF ConvertedWithColumn
    <2>3. Stable(h, 1, e)
        BY <1>4, <2>1, <2>2, StableSame
    <2>4. Halfway(1, 3, e)
        BY <1>3, <1>6, <2>1 DEF Halfway
    <2> QED
        BY <1>6, <2>1, <2>3, <2>4
<1>7. CASE i = 3
    <2>1. /\ e \in Databases /\ e.table = d.table
          /\ e.column = d.column /\ e.converted = 1 /\ e.version = d.version
        BY <1>1, <1>3, <1>7, ConvertIs
    <2>2. ConvertedWithColumn(e)
        BY <1>3, <1>7, <2>1 DEF ConvertedWithColumn
    <2>3. Stable(h, 1, e)
        BY <1>4, <2>1, <2>2, StableSame
    <2>4. Halfway(1, 4, e)
        BY <1>3, <1>7, <2>1 DEF Halfway
    <2> QED
        BY <1>7, <2>1, <2>3, <2>4
<1> QED
    BY <1>5, <1>6, <1>7

\* The first statement of each later script.
LEMMA RunsVersion ==
    ASSUME NEW h, NEW d \in Databases, NEW n \in 2..5, Stable(h, n, d),
           NEW e, e = Effect(Version(n), d)
    PROVE  e \in Databases /\ Stable(h, n, e) /\ Halfway(n, 2, e)
<1>1. ConvertedWithColumn(d) /\ d.version > 0
    BY DEF Stable, VersionRow
<1>2. /\ e \in Databases /\ e.table = d.table
      /\ e.column = d.column /\ e.converted = d.converted /\ e.version = n
    BY <1>1, VersionIs
<1>3. ConvertedWithColumn(e) /\ VersionRow(n, e)
    BY <1>1, <1>2 DEF ConvertedWithColumn, VersionRow
<1>4. Stable(h, n, e)
    BY <1>2, <1>3, StableSame
<1>5. Halfway(n, 2, e)
    BY <1>2 DEF Halfway, Rebuilt
<1> QED
    BY <1>2, <1>4, <1>5

\* A statement that rebuilds a table.
LEMMA RunsRebuild ==
    ASSUME NEW h, NEW d \in Databases, NEW n \in {2, 3, 5}, Stable(h, n, d), NEW k \in 0..3,
           NEW t, NEW temp,
           \/ t = "fmspc_tcbs" /\ temp = "fmspc_tcbs_temp"
           \/ t = "enclave_identities" /\ temp = "enclave_identities_temp" /\ n # 2,
           Rebuilt(t, temp, n, k, d),
           NEW s, s = Rebuild(t, temp, n)[k + 1], Works(s, d), NEW e, e = Effect(s, d)
    PROVE  /\ e \in Databases /\ OnlyTables({t, temp}, d, e) /\ Stable(h, n, e)
           /\ Rebuilt(t, temp, n, k + 1, e)
<1>1. t \in Tables /\ temp \in Tables /\ t # temp /\ n \in 0..5
    BY DEF Tables
<1>2. /\ t \in MayExist(n) /\ temp \in MayExist(n)
      /\ t \notin Known(n) /\ temp \in Known(n) /\ LayoutAt(n) = n
    BY DEF MayExist, Known, Temps, LayoutAt, LayoutOf, Tables
<1>3. HasLayout(n, temp, d)
    BY <1>1, <1>2 DEF Stable, TablesAt, TableAt, HasLayout
<1>4. /\ e \in Databases /\ OnlyTables({t, temp}, d, e)
      /\ Rebuilt(t, temp, n, k + 1, e)
      /\ HasLayout(n, temp, e)
      /\ Holds(d, {t, temp}) => Holds(e, {t, temp})
    <2>1. e \in Databases /\ OnlyTables({t, temp}, d, e)
        BY <1>1, <1>3, RebuildStep
    <2>2. Rebuilt(t, temp, n, k + 1, e)
        BY <1>1, <1>3, RebuildStep
    <2>3. HasLayout(n, temp, e)
        BY <1>1, <1>3, RebuildStep
    <2>4. Holds(d, {t, temp}) => Holds(e, {t, temp})
        BY <1>1, <1>3, RebuildStep
    <2> QED
        BY <2>1, <2>2, <2>3, <2>4
<1>5. /\ ConvertedWithColumn(e) /\ VersionRow(n, e)
      /\ \A u \in Tables \ {t, temp} : e.table[u] = d.table[u]
    BY <1>4, SameVersion
<1>6. Kept(h, e)
    <2>1. Kept(h, d)
        BY DEF Stable
    <2> QED
        BY <1>4, <1>5, <2>1 DEF Kept, Holds, Tables
<1> DEFINE U == {t, temp}
<1>7. \A u \in Tables \cap U : TableAt(n, u, e)
    BY <1>2, <1>4 DEF TableAt, HasLayout
<1>8. \A u \in Tables \ U : e.table[u] = d.table[u]
    BY <1>5
<1> HIDE DEF U
<1>9. Stable(h, n, e)
    BY <1>1, <1>5, <1>6, <1>7, <1>8, StableAfter
<1> QED
    BY <1>4, <1>9

LEMMA RunsScript2 ==
    ASSUME NEW h, NEW d \in Databases, NEW i \in 1..9, Stable(h, 2, d), Halfway(2, i, d),
           NEW s, s = Script2[i], Works(s, d), NEW e, e = Effect(s, d)
    PROVE  e \in Databases /\ Stable(h, 2, e) /\ Halfway(2, i + 1, e)
<1> DEFINE t == "fmspc_tcbs"     temp == "fmspc_tcbs_temp"
           q == "qe_identities"  u == "enclave_identities"
<1>1. t \in Tables /\ temp \in Tables /\ q \in Tables /\ u \in Tables /\ 2 \in 0..5
    BY DEF Tables
<1>2. /\ i > 1 => d.version = 2
      /\ Rebuilt(t, temp, 2, i - 2, d)
      /\ i > 6 => Exists(d, u)
      /\ i = 8 => (d.table[q].filled => d.table[u].filled)
      /\ i > 8 => ~Exists(d, q)
    BY DEF Halfway
<1>3. CASE i = 1
    <2>1. e = Effect(Version(2), d)
        BY <1>3, Script2Is
    <2> QED
        BY <1>3, <2>1, RunsVersion
<1>4. CASE i \in 2..5
    <2> DEFINE k == i - 2
    <2>1. k \in 0..3 /\ i = k + 2 /\ s = Rebuild(t, temp, 2)[k + 1] /\ Rebuilt(t, temp, 2, k, d)
        BY <1>2, <1>4, Script2Is
    <2>2. /\ e \in Databases /\ OnlyTables({t, temp}, d, e) /\ Stable(h, 2, e)
          /\ Rebuilt(t, temp, 2, k + 1, e)
        BY <2>1, RunsRebuild
    <2>3. e.version = 2
        BY <1>2, <1>4, <2>2 DEF OnlyTables
    <2>4. Halfway(2, i + 1, e)
        BY <1>4, <2>2, <2>3 DEF Halfway
    <2> QED
        BY <2>2, <2>4
<1>5. CASE i = 6
    <2>1. e = Effect(Create(u, 2), d)
        BY <1>5, Script2Is
    <2>2. /\ e \in Databases /\ OnlyTables({u}, d, e) /\ Exists(e, u)
          /\ e.table[u] = IF Exists(d, u) THEN d.table[u] ELSE Table(2, FALSE)
        BY <1>1, <2>1, CreateIs
    <2>3. /\ ConvertedWithColumn(e) /\ VersionRow(2, e) /\ e.version = d.version
          /\ \A x \in Tables \ {u} : e.table[x] = d.table[x]
        BY <2>2, SameVersion
    <2>4. \A x \in Tables : d.table[x].filled => e.table[x].filled
        BY <1>1, <2>2, <2>3, TableTypes
    <2>5. Kept(h, e)
        BY <2>4 DEF Stable, Kept, Holds, Tables
    <2>6. TableAt(2, u, e)
        <3>1. TableAt(2, u, d)
            BY <1>1 DEF Stable, TablesAt
        <3> QED
            BY <2>2, <3>1 DEF TableAt, MayExist, LayoutAt, LayoutOf, Table, Tables
    <2>7. Stable(h, 2, e)
        BY <1>1, <2>3, <2>5, <2>6, StableOne
    <2>8. Rebuilt(t, temp, 2, 5, e)
        BY <1>1, <1>2, <1>5, <2>2, StaysRebuilt
    <2>9. Halfway(2, 7, e)
        BY <1>2, <1>5, <2>2, <2>3, <2>8 DEF Halfway
    <2> QED
        BY <1>5, <2>2, <2>7, <2>9
<1>6. CASE i = 7
    <2>1. s = Copy(q, u)
        BY <1>6, Script2Is
    <2>2. /\ e \in Databases /\ OnlyTables({u}, d, e) /\ Exists(d, u) /\ Exists(e, u)
          /\ e.table[u].layout = d.table[u].layout
          /\ (e.table[u].filled <=> d.table[u].filled \/ d.table[q].filled)
        BY <1>1, <2>1, CopyIs
    <2>3. /\ ConvertedWithColumn(e) /\ VersionRow(2, e) /\ e.version = d.version
          /\ \A x \in Tables \ {u} : e.table[x] = d.table[x]
        BY <2>2, SameVersion
    <2>4. \A x \in Tables : d.table[x].filled => e.table[x].filled
        BY <1>1, <2>2, <2>3
    <2>5. Kept(h, e)
        BY <2>4 DEF Stable, Kept, Holds, Tables
    <2>6. TableAt(2, u, e)
        <3>1. TableAt(2, u, d)
            BY <1>1 DEF Stable, TablesAt
        <3> QED
            BY <2>2, <3>1 DEF TableAt
    <2>7. Stable(h, 2, e)
        BY <1>1, <2>3, <2>5, <2>6, StableOne
    <2>8. Rebuilt(t, temp, 2, 6, e)
        BY <1>1, <1>2, <1>6, <2>2, StaysRebuilt
    <2>9. e.table[q].filled => e.table[u].filled
        BY <1>1, <2>2, <2>3
    <2>10. Halfway(2, 8, e)
        BY <1>2, <1>6, <2>2, <2>3, <2>8, <2>9 DEF Halfway
    <2> QED
        BY <1>6, <2>2, <2>7, <2>10
<1>7. CASE i = 8
    <2>1. s = Drop(q)
        BY <1>7, Script2Is
    <2>2. e \in Databases /\ OnlyTables({q}, d, e) /\ ~Exists(e, q)
        BY <1>1, <2>1, DropIs
    <2>3. /\ ConvertedWithColumn(e) /\ VersionRow(2, e) /\ e.version = d.version
          /\ \A x \in Tables \ {q} : e.table[x] = d.table[x]
        BY <2>2, SameVersion
    <2>4. Kept(h, e)
        BY <1>2, <1>7, <2>3 DEF Stable, Kept, Holds, Tables
    <2>5. TableAt(2, q, e)
        BY <2>2 DEF TableAt
    <2>6. Stable(h, 2, e)
        BY <1>1, <2>3, <2>4, <2>5, StableOne
    <2>7. Rebuilt(t, temp, 2, 7, e)
        BY <1>1, <1>2, <1>7, <2>2, StaysRebuilt
    <2>8. Exists(e, u)
        BY <1>1, <1>2, <1>7, <2>3 DEF Exists
    <2>9. Halfway(2, 9, e)
        BY <1>2, <1>7, <2>2, <2>3, <2>7, <2>8 DEF Halfway
    <2> QED
        BY <1>7, <2>2, <2>6, <2>9
<1>8. CASE i = 9
    <2>1. e = d
        BY <1>8, Script2Is, OtherIs
    <2>2. Rebuilt(t, temp, 2, 8, d)
        BY <1>2, <1>8 DEF Rebuilt
    <2>3. Halfway(2, 10, d)
        BY <1>2, <1>8, <2>2 DEF Halfway
    <2> QED
        BY <1>8, <2>1, <2>3
<1> QED
    BY <1>3, <1>4, <1>5, <1>6, <1>7, <1>8

LEMMA RunsRebuilds ==
    ASSUME NEW h, NEW n \in {3, 5}, NEW d \in Databases, NEW i \in 1..9,
           Stable(h, n, d), Halfway(n, i, d),
           NEW s, s = Rebuilds(n)[i], Works(s, d), NEW e, e = Effect(s, d)
    PROVE  e \in Databases /\ Stable(h, n, e) /\ Halfway(n, i + 1, e)
<1> DEFINE t == "fmspc_tcbs"          temp == "fmspc_tcbs_temp"
           u == "enclave_identities"  uemp == "enclave_identities_temp"
<1>1. t \in Tables /\ temp \in Tables /\ n \in 2..5 /\ n \in {2, 3, 5} /\ n # 2
    BY DEF Tables
<1>2. /\ i > 1 => d.version = n
      /\ Rebuilt(t, temp, n, i - 2, d) /\ Rebuilt(u, uemp, n, i - 6, d)
    BY DEF Halfway
<1>3. CASE i = 1
    <2>1. e = Effect(Version(n), d)
        BY <1>3, RebuildsIs
    <2> QED
        BY <1>1, <1>3, <2>1, RunsVersion
<1>4. CASE i \in 2..5
    <2> DEFINE k == i - 2
    <2>1. k \in 0..3 /\ i = k + 2 /\ s = Rebuild(t, temp, n)[k + 1] /\ Rebuilt(t, temp, n, k, d)
        BY <1>2, <1>4, RebuildsIs
    <2>2. /\ e \in Databases /\ OnlyTables({t, temp}, d, e) /\ Stable(h, n, e)
          /\ Rebuilt(t, temp, n, k + 1, e)
        BY <1>1, <2>1, RunsRebuild
    <2>3. e.version = n
        BY <1>2, <1>4, <2>2 DEF OnlyTables
    <2>4. Rebuilt(u, uemp, n, i - 5, e)
        BY <1>4 DEF Rebuilt
    <2>5. Halfway(n, i + 1, e)
        BY <1>4, <2>2, <2>3, <2>4 DEF Halfway
    <2> QED
        BY <2>2, <2>5
<1>5. CASE i \in 6..9
    <2> DEFINE k == i - 6
    <2>1. k \in 0..3 /\ i = k + 6 /\ s = Rebuild(u, uemp, n)[k + 1] /\ Rebuilt(u, uemp, n, k, d)
        BY <1>2, <1>5, RebuildsIs
    <2>2. /\ e \in Databases /\ OnlyTables({u, uemp}, d, e) /\ Stable(h, n, e)
          /\ Rebuilt(u, uemp, n, k + 1, e)
        BY <1>1, <2>1, RunsRebuild
    <2>3. e.version = n
        BY <1>2, <1>5, <2>2 DEF OnlyTables
    <2>4. Rebuilt(t, temp, n, i - 1, e)
        <3> DEFINE j == i - 2
        <3>1. j \in Nat /\ j >= 4 /\ Rebuilt(t, temp, n, j, d)
            BY <1>2, <1>5
        <3>2. Rebuilt(t, temp, n, j + 1, e)
            BY <1>1, <2>2, <3>1, StaysRebuilt
        <3> QED
            BY <1>5, <3>2
    <2>5. Halfway(n, i + 1, e)
        BY <1>5, <2>2, <2>3, <2>4 DEF Halfway
    <2> QED
        BY <2>2, <2>5
<1> QED
    BY <1>3, <1>4, <1>5

LEMMA RunsScript4 ==
    ASSUME NEW h, NEW d \in Databases, NEW i \in 1..2, Stable(h, 4, d), Halfway(4, i, d),
           NEW s, s = Script4[i], NEW e, e = Effect(s, d)
    PROVE  e \in Databases /\ Stable(h, 4, e) /\ Halfway(4, i + 1, e)
<1>1. Script4[1] = Version(4) /\ Script4[2] = Other
    BY DEF Script4
<1>2. CASE i = 1
    BY <1>1, <1>2, RunsVersion
<1>3. CASE i = 2
    <2>1. e = d
        BY <1>1, <1>3, OtherIs
    <2>2. Halfway(4, 3, d)
        BY <1>3 DEF Halfway
    <2> QED
        BY <1>3, <2>1, <2>2
<1> QED
    BY <1>2, <1>3

\* A statement that works keeps the database stable, and leads to the next.
LEMMA RunsStatement ==
    ASSUME NEW h, NEW n \in 0..5, NEW d \in Databases, NEW i \in 1..Len(Script[n + 1]),
           Stable(h, n, d), Halfway(n, i, d),
           NEW s, s = Script[n + 1][i], Works(s, d), NEW e, e = Effect(s, d)
    PROVE  e \in Databases /\ Stable(h, n, e) /\ Halfway(n, i + 1, e)
<1>1. CASE n = 0
    <2>1. i \in 1..11 /\ s = Script0[i]
        BY <1>1, ScriptIs
    <2> QED
        BY <1>1, <2>1, RunsScript0
<1>2. CASE n = 1
    <2>1. i \in 1..3 /\ s = Script1[i]
        BY <1>2, ScriptIs
    <2> QED
        BY <1>2, <2>1, RunsScript1
<1>3. CASE n = 2
    <2>1. i \in 1..9 /\ s = Script2[i]
        BY <1>3, ScriptIs
    <2> QED
        BY <1>3, <2>1, RunsScript2
<1>4. CASE n \in {3, 5}
    <2>1. i \in 1..9 /\ s = Rebuilds(n)[i]
        BY <1>4, ScriptIs
    <2> QED
        BY <1>4, <2>1, RunsRebuilds
<1>5. CASE n = 4
    <2>1. i \in 1..2 /\ s = Script4[i]
        BY <1>5, ScriptIs
    <2> QED
        BY <1>5, <2>1, RunsScript4
<1> QED
    BY <1>1, <1>2, <1>3, <1>4, <1>5

\* After the last statement of a script its layout is there whole.
LEMMA ScriptEnds ==
    ASSUME NEW h, NEW n \in 0..5, NEW d \in Databases, Stable(h, n, d),
           Halfway(n, Len(Script[n + 1]) + 1, d)
    PROVE  Done(n, d)
<1>1. \A t \in Tables : TableAt(n, t, d)
    BY DEF Stable, TablesAt
<1>2. VersionRow(n, d)
    BY DEF Stable
<1>3. CASE n = 0
    <2>1. d.version = 0
        BY <1>2, <1>3 DEF VersionRow
    <2>2. \A t \in Tables : Exists(d, t) =>
              t \in MayExist(1) \ Temps /\ d.table[t].layout = LayoutOf(0)
        BY <1>1, <1>3 DEF TableAt, MayExist, Known, Temps, LayoutAt, LayoutOf
    <2> QED
        BY <1>3, <2>1, <2>2 DEF Done
<1>4. CASE n = 1
    <2>1. Halfway(1, 4, d)
        <3>1. Len(Script[n + 1]) = 3
            BY <1>4, ScriptIs
        <3> QED
            BY <1>4, <3>1
    <2>2. d.version = 1
        BY <2>1 DEF Halfway
    <2>3. \A t \in Tables : Exists(d, t) =>
              t \in MayExist(2) \ Temps /\ d.table[t].layout = LayoutOf(1)
        BY <1>1, <1>4 DEF TableAt, MayExist, Known, Temps, LayoutAt, LayoutOf, Tables
    <2> QED
        BY <1>4, <2>2, <2>3 DEF Done
<1>5. CASE n = 2
    <2>1. Halfway(2, 10, d)
        <3>1. Len(Script[n + 1]) = 9
            BY <1>5, ScriptIs
        <3> QED
            BY <1>5, <3>1
    <2>2. /\ d.version = 2 /\ ~Exists(d, "qe_identities")
          /\ d.table["fmspc_tcbs"].layout = 2 /\ ~Exists(d, "fmspc_tcbs_temp")
        BY <2>1 DEF Halfway, Rebuilt
    <2>3. \A t \in Tables : Exists(d, t) =>
              t \in MayExist(3) \ Temps /\ d.table[t].layout = LayoutOf(2)
        BY <1>1, <1>5, <2>2 DEF TableAt, MayExist, Known, Temps, LayoutAt, LayoutOf, Tables
    <2> QED
        BY <1>5, <2>2, <2>3 DEF Done
<1>6. CASE n \in {3, 5}
    <2>1. Halfway(n, 10, d)
        <3>1. Len(Script[n + 1]) = 9
            BY <1>6, ScriptIs
        <3> QED
            BY <1>6, <3>1
    <2>2. /\ d.version = n
          /\ Rebuilt("fmspc_tcbs", "fmspc_tcbs_temp", n, 8, d)
          /\ Rebuilt("enclave_identities", "enclave_identities_temp", n, 4, d)
        BY <1>6, <2>1 DEF Halfway
    <2>3. /\ Exists(d, "fmspc_tcbs") /\ d.table["fmspc_tcbs"].layout = n
          /\ Exists(d, "enclave_identities") /\ d.table["enclave_identities"].layout = n
          /\ ~Exists(d, "fmspc_tcbs_temp") /\ ~Exists(d, "enclave_identities_temp")
        BY <2>2 DEF Rebuilt
    <2>4. \A t \in Tables : Exists(d, t) =>
              t \in MayExist(n + 1) \ Temps /\ d.table[t].layout = LayoutOf(n)
        BY <1>1, <1>6, <2>3 DEF TableAt, MayExist, Known, Temps, LayoutAt, LayoutOf, Tables
    <2> QED
        BY <2>2, <2>3, <2>4 DEF Done
<1>7. CASE n = 4
    <2>1. Halfway(4, 3, d)
        <3>1. Len(Script[n + 1]) = 2
            BY <1>7, ScriptIs
        <3> QED
            BY <1>7, <3>1
    <2>2. d.version = 4
        BY <2>1 DEF Halfway
    <2>3. \A t \in Tables : Exists(d, t) =>
              t \in MayExist(5) \ Temps /\ d.table[t].layout = LayoutOf(4)
        BY <1>1, <1>7 DEF TableAt, MayExist, Known, Temps, LayoutAt, LayoutOf, Tables
    <2> QED
        BY <1>7, <2>2, <2>3 DEF Done
<1> QED
    BY <1>3, <1>4, <1>5, <1>6, <1>7

\* What the next script needs is there when one is recorded.
LEMMA NextScript ==
    ASSUME NEW h, NEW n \in 0..5, NEW d \in Databases, Stable(h, n, d), Done(n, d)
    PROVE  Stable(h, n + 1, d)
<1>1. VersionRow(n + 1, d)
    BY DEF Done, VersionRow
<1>2. \A t \in Tables : TableAt(n, t, d)
    BY DEF Stable, TablesAt
<1>3. \A t \in Tables : Exists(d, t) =>
          t \in MayExist(n + 1) \ Temps /\ d.table[t].layout = LayoutOf(n)
    BY DEF Done
<1>4. \A t \in Tables : TableAt(n + 1, t, d)
    <2>1. CASE n = 1
        BY <1>2, <1>3, <2>1 DEF TableAt, MayExist, Known, Temps, Tables
    <2>2. CASE n \in {2, 4}
        BY <1>3, <2>2 DEF TableAt, Known, Temps
    <2>3. CASE n \in {0, 3, 5}
        BY <1>3, <2>3 DEF TableAt, LayoutAt, LayoutOf
    <2> QED
        BY <2>1, <2>2, <2>3
<1>5. n + 1 = 6 => d.version = 5 /\ Exists(d, "fmspc_tcbs") /\ Exists(d, "enclave_identities")
    BY DEF Done
<1> QED
    BY <1>1, <1>4, <1>5 DEF Stable, TablesAt

LEMMA DoneIsUniform ==
    ASSUME NEW n \in 0..5, NEW d, Done(n, d)
    PROVE  Uniform(d)
BY DEF Done, Uniform

-----------------------------------------------------------------------------
(* The invariant.                                                           *)

LEMMA InstalledIs ==
    ASSUME NEW n \in 0..5, NEW f \in BOOLEAN
    PROVE  LET d == Installed(n, f)
           IN  /\ d \in Databases /\ d.version = n
               /\ (n > 0 => d.column) /\ d.converted = IF n > 0 THEN 1 ELSE 0
               /\ d.table["fmspc_tcbs"] = Table(LayoutOf(n), f)
               /\ d.table["enclave_identities"] = IF n >= 2 THEN Table(LayoutOf(n), f) ELSE Absent
               /\ d.table["qe_identities"] = IF n < 2 THEN Table(LayoutOf(n), f) ELSE Absent
               /\ d.table["fmspc_tcbs_temp"] = Absent
               /\ d.table["enclave_identities_temp"] = Absent
<1> DEFINE T == TablesOf(n, f)
           c == n > 0
           d == Installed(n, f)
<1>1. LayoutOf(n) \in 0..5
    BY DEF LayoutOf
<1>2. Table(LayoutOf(n), f) \in Rows /\ Absent \in Rows
    BY <1>1 DEF Table, Rows
<1>3. T \in [Tables -> Rows]
    BY <1>2 DEF TablesOf
<1>4. /\ T["fmspc_tcbs"] = Table(LayoutOf(n), f)
      /\ T["enclave_identities"] = IF n >= 2 THEN Table(LayoutOf(n), f) ELSE Absent
      /\ T["qe_identities"] = IF n < 2 THEN Table(LayoutOf(n), f) ELSE Absent
      /\ T["fmspc_tcbs_temp"] = Absent /\ T["enclave_identities_temp"] = Absent
    BY DEF TablesOf, Tables
<1>5. d = [created |-> BaseTables, column |-> c, version |-> n,
           converted |-> IF n > 0 THEN 1 ELSE 0, table |-> T]
    BY DEF Installed
<1>6. c \in BOOLEAN /\ (n > 0 => c)
    OBVIOUS
<1> HIDE DEF T, c
<1>7. d \in Databases
    BY <1>3, <1>5, <1>6 DEF Databases, Rows, BaseTables
<1>8. /\ d.version = n /\ d.column = c /\ d.converted = (IF n > 0 THEN 1 ELSE 0)
      /\ d.table = T
    BY <1>5
<1> QED
    BY <1>4, <1>6, <1>7, <1>8

LEMMA InstalledIsStable ==
    ASSUME NEW n \in 0..5, NEW f \in BOOLEAN, NEW m, m = IF n = 0 THEN 0 ELSE n + 1
    PROVE  Stable(f, m, Installed(n, f)) /\ Uniform(Installed(n, f))
<1> DEFINE d == Installed(n, f)
<1> USE DEF d
<1>1. /\ d.version = n
      /\ (n > 0 => d.column) /\ d.converted = IF n > 0 THEN 1 ELSE 0
      /\ d.table["fmspc_tcbs"] = Table(LayoutOf(n), f)
      /\ d.table["enclave_identities"] = IF n >= 2 THEN Table(LayoutOf(n), f) ELSE Absent
      /\ d.table["qe_identities"] = IF n < 2 THEN Table(LayoutOf(n), f) ELSE Absent
      /\ d.table["fmspc_tcbs_temp"] = Absent
      /\ d.table["enclave_identities_temp"] = Absent
    BY InstalledIs
<1> HIDE DEF d
<1>2. /\ (f => Table(LayoutOf(n), f).filled) /\ Table(LayoutOf(n), f).layout = LayoutOf(n)
      /\ Table(LayoutOf(n), f) # Absent
    BY DEF Table, Absent, LayoutOf
<1>3. Kept(f, d)
    <2>1. f => /\ d.table["fmspc_tcbs"].filled
               /\ d.table["enclave_identities"].filled \/ d.table["qe_identities"].filled
        <3> DEFINE r == Table(LayoutOf(n), f)
        <3>1. /\ d.table["fmspc_tcbs"] = r
              /\ d.table["enclave_identities"] = r \/ d.table["qe_identities"] = r
            BY <1>1
        <3>2. f => r.filled
            BY <1>2
        <3> HIDE DEF r
        <3> QED
            BY <3>1, <3>2
    <2> QED
        BY <2>1 DEF Kept, Holds
<1>4. ConvertedWithColumn(d) /\ VersionRow(m, d)
    BY <1>1 DEF ConvertedWithColumn, VersionRow
<1>5. Exists(d, "fmspc_tcbs") /\ (n >= 2 => Exists(d, "enclave_identities"))
    BY <1>1, <1>2 DEF Exists
<1>6. \A t \in Tables : Exists(d, t) =>
          /\ t = "fmspc_tcbs" \/ (t = "enclave_identities" /\ n >= 2) \/ (t = "qe_identities" /\ n < 2)
          /\ d.table[t].layout = LayoutOf(n)
    BY <1>1, <1>2 DEF Exists, Tables
<1>7. \A t \in Tables : TableAt(m, t, d)
    <2>1. n = 0 \/ n = 1 \/ n = 2 \/ n = 3 \/ n = 4 \/ n = 5
        OBVIOUS
    <2> QED
        BY <1>6, <2>1 DEF TableAt, MayExist, Known, Temps, LayoutAt, LayoutOf, Tables
<1>8. Uniform(d)
    BY <1>1, <1>6 DEF Uniform
<1>9. Stable(f, m, d)
    BY <1>1, <1>3, <1>4, <1>5, <1>7 DEF Stable, TablesAt
<1> QED
    BY <1>8, <1>9 DEF d

LEMMA FreshIsStable ==
    ASSUME NEW h, ~h
    PROVE  Fresh \in Databases /\ Uniform(Fresh) /\ Stable(h, 0, Fresh)
<1> DEFINE T == [t \in Tables |-> Absent]
<1>1. T \in [Tables -> Rows] /\ \A t \in Tables : T[t] = Absent
    BY DEF Rows
<1>2. Fresh = [created |-> 0, column |-> FALSE, version |-> 0, converted |-> 0, table |-> T]
    BY DEF Fresh
<1> HIDE DEF T
<1>3. Fresh \in Databases
    BY <1>1, <1>2 DEF Databases, Rows, BaseTables
<1>4. \A t \in Tables : ~Exists(Fresh, t)
    BY <1>1, <1>2 DEF Exists
<1>5. Kept(h, Fresh) /\ ConvertedWithColumn(Fresh) /\ VersionRow(0, Fresh) /\ Uniform(Fresh)
    BY <1>2 DEF Kept, ConvertedWithColumn, VersionRow, Uniform
<1>6. TablesAt(0, Fresh)
    BY <1>4 DEF TablesAt, TableAt
<1> QED
    BY <1>3, <1>5, <1>6 DEF Stable

LEMMA InitInvariant == Init => StartupInvariant
<1> SUFFICES ASSUME Init PROVE StartupInvariant
    OBVIOUS
<1>1. ProcessInvariant
    BY DEF Init, ProcessInvariant
<1>2. db \in Databases /\ log \in 0..6 /\ Stable(had, log, db) /\ Uniform(db)
    <2>1. CASE db = Fresh /\ log = 0 /\ ~had
        BY <2>1, FreshIsStable
    <2>2. CASE db = Installed(0, had) /\ log = 0
        <3>1. had \in BOOLEAN /\ 0 \in 0..5
            BY DEF Init
        <3>2. db \in Databases
            BY <2>2, <3>1, InstalledIs
        <3>3. Stable(had, 0, Installed(0, had)) /\ Uniform(Installed(0, had))
            BY <3>1, InstalledIsStable
        <3> QED
            BY <2>2, <3>2, <3>3
    <2>3. ASSUME NEW n \in 1..5, db = Installed(n, had), log = n + 1
          PROVE  db \in Databases /\ log \in 0..6 /\ Stable(had, log, db) /\ Uniform(db)
        <3>1. had \in BOOLEAN /\ n \in 0..5 /\ log = IF n = 0 THEN 0 ELSE n + 1
            BY <2>3 DEF Init
        <3>2. db \in Databases
            BY <2>3, <3>1, InstalledIs
        <3>3. Stable(had, log, Installed(n, had)) /\ Uniform(Installed(n, had))
            BY <3>1, InstalledIsStable
        <3> QED
            BY <2>3, <3>2, <3>3
    <2> QED
        BY <2>1, <2>2, <2>3 DEF Init
<1>3. Typed
    <2>1. db \in Databases /\ work \in Databases /\ log \in 0..6 /\ pc \in 0..12
        BY <1>2 DEF Init
    <2> QED
        BY <2>1 DEF Init, Typed, Settings
<1>4. DatabaseInvariant
    BY <1>2 DEF Init, DatabaseInvariant
<1> QED
    BY <1>1, <1>3, <1>4 DEF StartupInvariant

LEMMA TypedIs == Typed <=> TypeOK
<1>1. 0..Len(Script) = 0..6 /\ 0..BaseTables + 1 = 0..12
    BY ScriptIs DEF BaseTables
<1>2. /\ {db, work} \subseteq Databases <=> db \in Databases /\ work \in Databases
      /\ {sqlite, exiting, listening, started, old, had} \subseteq BOOLEAN <=>
             /\ sqlite \in BOOLEAN /\ exiting \in BOOLEAN /\ listening \in BOOLEAN
             /\ started \in BOOLEAN /\ old \in BOOLEAN /\ had \in BOOLEAN
    OBVIOUS
<1> QED
    BY <1>1, <1>2, Zenon DEF Typed, TypeOK

LEMMA ProcessStep ==
    ASSUME ProcessInvariant, [Next]_vars
    PROVE  ProcessInvariant'
<1>1. Len(Script) = 6
    BY ScriptIs
<1>2. ASSUME NEW s \in Settings, Start(s)
      PROVE  ProcessInvariant'
    BY <1>2 DEF Start, ProcessInvariant
<1>3. CASE Execute
    BY <1>3 DEF Execute, ProcessInvariant, server
<1>4. CASE CommitsFirst
    BY <1>4 DEF CommitsFirst, ProcessInvariant, server
<1>5. CASE Commit
    BY <1>5 DEF Commit, ProcessInvariant, server
<1>6. CASE Record
    BY <1>6 DEF Record, ProcessInvariant, server
<1>7. CASE MigrationEnds
    BY <1>1, <1>7 DEF MigrationEnds, ProcessInvariant, server
<1>8. CASE Complete
    BY <1>8 DEF Complete, Unusable, ProcessInvariant
<1>9. CASE Listen
    BY <1>9 DEF Listen, ProcessInvariant
<1>10. CASE ListenFails
    BY <1>10 DEF ListenFails, ProcessInvariant, server
<1>11. CASE Interrupt
    BY <1>11 DEF Interrupt, ProcessInvariant
<1>12. CASE Dies
    BY <1>12 DEF Dies, ProcessInvariant
<1>13. CASE UNCHANGED vars
    BY <1>13 DEF vars, server, ProcessInvariant
<1> QED
    BY <1>2, <1>3, <1>4, <1>5, <1>6, <1>7, <1>8, <1>9, <1>10, <1>11, <1>12, <1>13
    DEF Next, Progress, Exit, Crash

\* What a step does to the databases and to the place in the script.
LEMMA DatabaseStep ==
    ASSUME Typed, DatabaseInvariant, [Next]_vars
    PROVE  db' \in Databases /\ work' \in Databases /\ DatabaseInvariant'
<1> DEFINE N == Len(Script[log + 1])
<1>1. /\ db \in Databases /\ work \in Databases /\ log \in 0..6 /\ pc \in 0..12
      /\ Len(Script) = 6
    BY ScriptIs DEF Typed
<1>2. log < 6 => log \in 0..5 /\ N \in 1..11
    BY <1>1, ScriptIs
<1>3. /\ Stable(had, log, db) /\ Stable(had, log, work)
      /\ sqlite => Uniform(db)
    BY DEF DatabaseInvariant
<1>4. proc = "migrating" /\ log < 6 => pc \in 1..N + 1 /\ Halfway(log, pc, work)
    BY DEF DatabaseInvariant
<1>5. proc = "migrated" => log < 6 /\ work = db /\ Done(log, db)
    BY DEF DatabaseInvariant
<1> HIDE DEF N
<1>6. ASSUME NEW s \in Settings, Start(s)
      PROVE  db' \in Databases /\ work' \in Databases /\ DatabaseInvariant'
    <2>1. /\ db' = db /\ work' = db /\ log' = log /\ had' = had /\ sqlite' = sqlite
          /\ pc' = 1 /\ proc' # "migrated"
        BY <1>6 DEF Start
    <2>2. log < 6 => 1 \in 1..N + 1 /\ Halfway(log, 1, work')
        BY <1>2, HalfwayStart
    <2> QED
        BY <1>1, <1>3, <2>1, <2>2 DEF DatabaseInvariant, N
<1>7. CASE Execute
    <2>1. /\ log \in 0..5 /\ pc \in 1..N /\ Halfway(log, pc, work)
          /\ log' = log /\ had' = had /\ sqlite' = sqlite
        BY <1>1, <1>2, <1>4, <1>7 DEF Execute, N
    <2>2. CASE Works(Statement, work)
        <3>1. /\ work' = Effect(Statement, work) /\ pc' = pc + 1 /\ proc' = "migrating"
              /\ db' = IF Autocommits THEN work' ELSE db
            BY <1>7, <2>2 DEF Execute
        <3>2. /\ work' \in Databases /\ Stable(had, log, work')
              /\ Halfway(log, pc + 1, work')
            BY <1>1, <1>3, <2>1, <2>2, <3>1, RunsStatement DEF Statement, N
        <3>3. db' \in Databases /\ Stable(had, log, db')
            BY <1>1, <1>3, <3>1, <3>2
        <3>4. sqlite => Uniform(db')
            <4>1. CASE log = 0
                BY <2>1, <3>3, <4>1 DEF Stable, VersionRow, Uniform
            <4>2. CASE log # 0
                BY <1>3, <3>1, <4>2 DEF Autocommits
            <4> QED
                BY <4>1, <4>2
        <3>5. pc + 1 \in 1..N + 1
            BY <1>2, <2>1
        <3> QED
            BY <2>1, <3>1, <3>2, <3>3, <3>4, <3>5 DEF DatabaseInvariant, N
    <2>3. CASE ~Works(Statement, work)
        <3>1. /\ work' = (IF ~sqlite /\ ChangesSchema(Statement) THEN work ELSE db)
              /\ db' = work' /\ proc' = "refused"
            BY <1>7, <2>3 DEF Execute
        <3>2. /\ work' \in Databases /\ Stable(had, log, work') /\ db' = work'
              /\ sqlite => Uniform(db')
            BY <1>1, <1>3, <3>1
        <3> QED
            BY <2>1, <3>1, <3>2 DEF DatabaseInvariant
    <2> QED
        BY <2>2, <2>3
<1>8. CASE CommitsFirst
    <2>1. /\ ~sqlite /\ db' = work /\ work' = work /\ log' = log /\ pc' = pc
          /\ proc = "migrating" /\ proc' = proc /\ had' = had /\ sqlite' = sqlite
        BY <1>8 DEF CommitsFirst
    <2> QED
        BY <1>1, <1>3, <1>4, <2>1 DEF DatabaseInvariant, N
<1>9. CASE Commit
    <2>1. /\ log \in 0..5 /\ db' = work /\ work' = work /\ log' = log /\ proc' = "migrated"
          /\ had' = had /\ sqlite' = sqlite /\ Halfway(log, N + 1, work)
        BY <1>1, <1>4, <1>9 DEF Commit, N
    <2>2. Done(log, work)
        BY <1>1, <1>3, <2>1, ScriptEnds DEF N
    <2>3. Uniform(work)
        BY <2>1, <2>2, DoneIsUniform
    <2> QED
        BY <1>1, <1>3, <2>1, <2>2, <2>3 DEF DatabaseInvariant
<1>10. CASE Record
    <2>1. /\ log \in 0..5 /\ work = db /\ Done(log, db)
          /\ db' = db /\ work' = db /\ log' = log + 1 /\ pc' = 1 /\ proc' = "migrating"
          /\ had' = had /\ sqlite' = sqlite
        BY <1>1, <1>2, <1>5, <1>10 DEF Record
    <2>2. Stable(had, log + 1, db)
        BY <1>1, <1>3, <2>1, NextScript
    <2>3. log + 1 < 6 => 1 \in 1..Len(Script[log + 2]) + 1 /\ Halfway(log + 1, 1, db)
        <3> SUFFICES ASSUME log + 1 < 6
                     PROVE  1 \in 1..Len(Script[log + 2]) + 1 /\ Halfway(log + 1, 1, db)
            OBVIOUS
        <3> DEFINE n == log + 1
        <3>1. n \in 0..5 /\ log + 2 = n + 1
            BY <2>1
        <3>2. Len(Script[n + 1]) \in Nat /\ Halfway(n, 1, db)
            BY <3>1, ScriptIs, HalfwayStart
        <3> QED
            BY <3>1, <3>2
    <2>4. log' + 1 = log + 2
        BY <2>1
    <2> QED
        BY <1>1, <1>3, <2>1, <2>2, <2>3, <2>4 DEF DatabaseInvariant
<1>11. CASE MigrationEnds
    <2>1. /\ log = 6 /\ db' = db /\ work' = work /\ log' = log /\ proc' = "checked"
          /\ had' = had /\ sqlite' = sqlite
        BY <1>1, <1>11 DEF MigrationEnds
    <2> QED
        BY <1>1, <1>3, <2>1 DEF DatabaseInvariant
<1>12. ASSUME UNCHANGED <<sqlite, db, work, log, pc, had>>,
              proc' \notin {"migrating", "migrated"} \/ proc' = proc
       PROVE  db' \in Databases /\ work' \in Databases /\ DatabaseInvariant'
    BY <1>1, <1>3, <1>4, <1>5, <1>12 DEF DatabaseInvariant, N
<1>13. CASE Complete
    BY <1>12, <1>13 DEF Complete
<1>14. CASE Listen
    BY <1>12, <1>14 DEF Listen
<1>15. CASE ListenFails
    BY <1>12, <1>15 DEF ListenFails
<1>16. CASE Interrupt
    BY <1>12, <1>16 DEF Interrupt
<1>17. CASE UNCHANGED vars
    BY <1>12, <1>17 DEF vars
<1>18. CASE Dies
    <2>1. /\ db' = db /\ work' = db /\ log' = log /\ proc' = "down"
          /\ had' = had /\ sqlite' = sqlite
        BY <1>18 DEF Dies
    <2> QED
        BY <1>1, <1>3, <2>1 DEF DatabaseInvariant
<1> QED
    BY <1>6, <1>7, <1>8, <1>9, <1>10, <1>11, <1>13, <1>14, <1>15, <1>16, <1>17, <1>18
    DEF Next, Progress, Exit, Crash

LEMMA TypeStep ==
    ASSUME Typed, DatabaseInvariant, [Next]_vars
    PROVE  Typed'
<1>1. db' \in Databases /\ work' \in Databases
    BY DatabaseStep
<1>2. Len(Script) = 6 /\ (log < 6 => Len(Script[log + 1]) \in 1..11)
    <2>1. Len(Script) = 6
        BY ScriptIs
    <2>2. log \in 0..6
        BY DEF Typed
    <2>3. log < 6 => log \in 0..5
        BY <2>2
    <2> QED
        BY <2>1, <2>3, ScriptIs
<1> DEFINE Rest == /\ log' \in 0..6 /\ pc' \in 0..12
                   /\ setting' \in Settings
                   /\ proc' \in {"down", "rejected", "migrating", "migrated", "checked",
                                 "refused", "up", "up, refused", "deaf"}
                   /\ sqlite' \in BOOLEAN /\ exiting' \in BOOLEAN /\ listening' \in BOOLEAN
                   /\ started' \in BOOLEAN /\ old' \in BOOLEAN /\ had' \in BOOLEAN
<1> SUFFICES Rest
    BY <1>1 DEF Typed
<1>3. ASSUME NEW s \in Settings, Start(s) PROVE Rest
    <2>1. proc' \in {"rejected", "checked", "migrating", "refused"}
        <3> DEFINE r == db.created < PcsVersion \/ db.version = 0 \/ s = "other server"
        <3>1. proc' = IF s = "no uri" THEN "rejected"
                      ELSE IF s = "no check" THEN "checked"
                      ELSE IF ~Initialized THEN "migrating"
                      ELSE IF r THEN "refused"
                      ELSE "migrating"
            BY <1>3, Zenon DEF Start
        <3> HIDE DEF r
        <3> QED
            BY <3>1
    <2>2. exiting' \in BOOLEAN
        <3> DEFINE S == {"no uri", "no https"}
        <3>1. exiting' = (s \in S)
            BY <1>3, Zenon DEF Start
        <3> HIDE DEF S
        <3> QED
            BY <3>1
    <2>3. pc' \in 0..12
        <3>1. pc' = 1
            BY <1>3, Zenon DEF Start
        <3> QED
            BY <3>1
    <2>4. /\ log' = log /\ setting' = s /\ sqlite' = sqlite
          /\ listening' = listening /\ started' = started /\ old' = old /\ had' = had
        BY <1>3, Zenon DEF Start
    <2> QED
        BY <2>1, <2>2, <2>3, <2>4 DEF Typed
<1>4. CASE Execute
    <2>1. /\ log' = log /\ proc' \in {"migrating", "refused"}
          /\ sqlite' = sqlite /\ old' = old /\ had' = had /\ UNCHANGED server
        BY <1>4 DEF Execute
    <2>2. pc \in 0..12 /\ log < 6 /\ pc <= Len(Script[log + 1])
        BY <1>2, <1>4 DEF Execute, Typed
    <2>3. pc' = pc \/ pc' = pc + 1
        BY <1>4 DEF Execute
    <2>4. pc' \in 0..12
        <3> DEFINE N == Len(Script[log + 1])
        <3>1. N \in 1..11 /\ pc <= N
            BY <1>2, <2>2
        <3> HIDE DEF N
        <3> QED
            BY <2>2, <2>3, <3>1
    <2> QED
        BY <2>1, <2>4 DEF Typed, server
<1>5. CASE CommitsFirst
    BY <1>5 DEF CommitsFirst, Typed, server
<1>6. CASE Commit
    BY <1>6 DEF Commit, Typed, server
<1>7. CASE Record
    <2>1. log < 6
        BY <1>7 DEF Record, DatabaseInvariant
    <2> QED
        BY <1>2, <1>7, <2>1 DEF Record, Typed, server
<1>8. CASE MigrationEnds
    BY <1>8 DEF MigrationEnds, Typed, server
<1>9. CASE Complete
    BY <1>9 DEF Complete, Typed
<1>10. CASE Listen
    BY <1>10 DEF Listen, Typed
<1>11. CASE ListenFails
    BY <1>11 DEF ListenFails, Typed, server
<1>12. CASE Interrupt
    BY <1>12 DEF Interrupt, Typed
<1>13. CASE Dies
    <2>1. pc' \in 0..12
        BY <1>13 DEF Dies
    <2> QED
        BY <1>13, <2>1 DEF Dies, Typed
<1>14. CASE UNCHANGED vars
    BY <1>14 DEF vars, server, Typed
<1> HIDE DEF Rest
<1>15. Rest
    BY <1>3, <1>4, <1>5, <1>6, <1>7, <1>8, <1>9, <1>10, <1>11, <1>12, <1>13, <1>14
    DEF Next, Progress, Exit, Crash
<1> QED
    BY <1>1, <1>15 DEF Rest, Typed

LEMMA InvariantHolds == Spec => []StartupInvariant
<1>1. StartupInvariant /\ [Next]_vars => StartupInvariant'
    <2> SUFFICES ASSUME StartupInvariant, [Next]_vars
                 PROVE  StartupInvariant'
        OBVIOUS
    <2>1. Typed /\ DatabaseInvariant /\ ProcessInvariant
        BY DEF StartupInvariant
    <2>2. Typed'
        BY <2>1, TypedIs, TypeStep
    <2>3. DatabaseInvariant'
        BY <2>1, TypedIs, DatabaseStep
    <2>4. ProcessInvariant'
        BY <2>1, ProcessStep
    <2> QED
        BY <2>2, <2>3, <2>4 DEF StartupInvariant
<1> QED
    BY <1>1, InitInvariant, PTL DEF Spec

-----------------------------------------------------------------------------
(* Theorems.                                                                *)

\* Every variable keeps its type.
THEOREM TypeCorrect == Spec => []TypeOK
<1>1. StartupInvariant => TypeOK
    BY TypedIs DEF StartupInvariant
<1> QED
    BY <1>1, InvariantHolds, PTL

\* The collateral a database held when it was first used is in it after every
\* statement, crash and start, with either database.
THEOREM CollateralIsKept == Spec => []CollateralKept
<1>1. StartupInvariant => CollateralKept
    BY DEF StartupInvariant, DatabaseInvariant, Stable, Kept, Holds, CollateralKept
<1> QED
    BY <1>1, InvariantHolds, PTL

\* A server that is up, and was not told to skip the check, works on the newest
\* layout, with its version row.
THEOREM ServesNewestLayout == Spec => []ServesCurrentLayout
<1>1. ASSUME StartupInvariant, proc = "up", setting # "no check"
      PROVE  /\ db.version = 5
             /\ \A t \in Tables : db.table[t] # Absent => db.table[t].layout = 5
             /\ Exists(db, "fmspc_tcbs") /\ Exists(db, "enclave_identities")
    <2>1. log = 6 /\ Stable(had, log, db)
        BY <1>1 DEF StartupInvariant, DatabaseInvariant, ProcessInvariant
    <2>2. \A t \in Tables : Exists(db, t) => db.table[t].layout = 5
        BY <2>1 DEF Stable, TablesAt, TableAt, Known, LayoutAt
    <2> QED
        BY <2>1, <2>2 DEF Stable, Exists
<1>2. StartupInvariant => ServesCurrentLayout
    BY <1>1 DEF ServesCurrentLayout
<1> QED
    BY <1>2, InvariantHolds, PTL

\* With SQLite no crash leaves a database with the tables of two scripts.
THEOREM NoCrashHalvesAMigration == Spec => []NoHalfMigration
<1>1. StartupInvariant => NoHalfMigration
    BY DEF StartupInvariant, DatabaseInvariant, Uniform, NoHalfMigration
<1> QED
    BY <1>1, InvariantHolds, PTL

\* However often script 01 is started, it converts what is stored once.
THEOREM NothingConvertedTwice == Spec => []ConvertedOnce
<1>1. StartupInvariant => ConvertedOnce
    BY DEF StartupInvariant, DatabaseInvariant, Stable, ConvertedWithColumn, ConvertedOnce
<1> QED
    BY <1>1, InvariantHolds, PTL

\* A server that listens and is not about to exit has checked its database, has
\* a caching mode and a key, and reports that its start is complete.
THEOREM ListensOnlyIfUsable == Spec => []StaysWhenUsable
<1>1. StartupInvariant => StaysWhenUsable
    BY DEF StartupInvariant, ProcessInvariant, StaysWhenUsable
<1> QED
    BY <1>1, InvariantHolds, PTL
=============================================================================
