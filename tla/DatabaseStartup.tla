--------------------------- MODULE DatabaseStartup ---------------------------
(***************************************************************************)
(* How the server starts and ends (main of pccs_server.js), and how it     *)
(* brings its database up to date then: databaseCheck and dbMigration      *)
(* (utils/apputil.js), called by initializeApp, and the scripts of         *)
(* migrations/.  The process may crash between any two statements and be   *)
(* started again, with other settings.                                     *)
(*                                                                         *)
(* Script 00 runs its statements one by one; each later script runs in a   *)
(* transaction, which SQLite keeps whole and which MySQL commits before    *)
(* and after each statement that changes the schema.  umzug records a      *)
(* script after it has run.  A table is its layout, the number of the      *)
(* script that made it, and whether it holds rows; qe_identities stands    *)
(* for qve_identities too, which is copied and dropped beside it.          *)
(***************************************************************************)
EXTENDS Naturals, Sequences

VARIABLES
    sqlite,   \* DB_CONFIG = 'sqlite' (otherwise 'mysql')
    db,       \* what is durable
    work,     \* what the open transaction sees
    log,      \* number of scripts umzug has recorded
    pc,       \* the statement of the script it is at
    proc,     \* how far the server process is
    setting,  \* what is wrong with the settings it was started with
    exiting,  \* the logger was ended: process.exit follows two seconds later
    listening,\* the HTTPS server accepts requests
    started,  \* startupComplete, what /healthz/startup reports
    old,      \* the database was made by PCCS v1.8 or earlier (history)
    had       \* it held collateral when it was first used (history)

server == <<setting, exiting, listening, started>>
vars   == <<sqlite, db, work, log, pc, proc, server, old, had>>

-----------------------------------------------------------------------------
(* Scripts.                                                                 *)

Tables == {"fmspc_tcbs", "fmspc_tcbs_temp", "qe_identities",
           "enclave_identities", "enclave_identities_temp"}

Absent       == [layout |-> 9, filled |-> FALSE]
Table(n, f)  == [layout |-> n, filled |-> f]
BaseTables   == 11   \* statements of 00_db_initialize.up.sql
PckCrl       == 4    \* the one that creates pck_crl
PcsVersion   == 6    \* the one that creates pcs_version

Base(i)      == [do |-> "base", n |-> i]
AddColumn    == [do |-> "column"]
Version(n)   == [do |-> "version", n |-> n]
Convert      == [do |-> "convert"]
Create(t, n) == [do |-> "create", t |-> t, n |-> n]
Copy(s, t)   == [do |-> "copy", s |-> s, t |-> t]
Drop(t)      == [do |-> "drop", t |-> t]
Rename(s, t) == [do |-> "rename", s |-> s, t |-> t]
Other        == [do |-> "other"]   \* creates a table no other script touches

\* "1.Create new table 2.Copy data 3.Drop old table 4.Rename new into old".
DropThenCopy(t, temp, n) == <<Create(temp, n), Drop(t), Copy(t, temp), Rename(temp, t)>>
Rebuild(t, temp, n)      == <<Create(temp, n), Copy(t, temp), Drop(t), Rename(temp, t)>>

Script0 == [i \in 1..BaseTables |-> Base(i)]
\* The conversion first: the DDL statement that follows would commit it.
ConvertFirst == <<Version(1), Convert, AddColumn>>
Script1 == <<AddColumn, Version(1), Convert>>
Script2 == <<Version(2)>> \o Rebuild("fmspc_tcbs", "fmspc_tcbs_temp", 2)
           \o <<Create("enclave_identities", 2), Copy("qe_identities", "enclave_identities"),
                Drop("qe_identities"), Other>>
Script4 == <<Version(4), Other>>
FmspcOnly(n) == <<Version(n)>> \o Rebuild("fmspc_tcbs", "fmspc_tcbs_temp", n)
Rebuilds(n) == <<Version(n)>> \o Rebuild("fmspc_tcbs", "fmspc_tcbs_temp", n)
               \o Rebuild("enclave_identities", "enclave_identities_temp", n)

Script == <<Script0, Script1, Script2, Rebuilds(3), Script4, Rebuilds(5)>>

-----------------------------------------------------------------------------
(* Databases and statements.                                                *)

Exists(d, t) == d.table[t] # Absent

LayoutOf(n) == IF n < 2 THEN 0 ELSE IF n = 4 THEN 3 ELSE n

\* The tables after script n, holding collateral or not.
TablesOf(n, f) ==
    [t \in Tables |->
        IF t = "fmspc_tcbs" \/ (t = "enclave_identities" /\ n >= 2)
                            \/ (t = "qe_identities" /\ n < 2)
        THEN Table(LayoutOf(n), f) ELSE Absent]

Fresh == [created |-> 0, column |-> FALSE, version |-> 0, converted |-> 0,
          table |-> [t \in Tables |-> Absent]]

Installed(n, f) ==
    [created |-> BaseTables, column |-> n > 0, version |-> n,
     converted |-> IF n > 0 THEN 1 ELSE 0, table |-> TablesOf(n, f)]

\* Statements that fail: a column that is there, a table that is not, a
\* primary key that is.
Works(s, d) ==
    CASE s.do = "column" -> ~d.column
      [] s.do = "copy"   -> /\ Exists(d, s.s) /\ Exists(d, s.t)
                            /\ ~(d.table[s.s].filled /\ d.table[s.t].filled)
      [] s.do = "drop"   -> Exists(d, s.t)
      [] s.do = "rename" -> Exists(d, s.s) /\ ~Exists(d, s.t)
      [] OTHER           -> TRUE

\* The base tables of the script that the model follows.
BaseTable(i) == CASE i = 1 -> {"fmspc_tcbs"} [] i = 10 -> {"qe_identities"} [] OTHER -> {}

Effect(s, d) ==
    CASE s.do = "base" ->
            [d EXCEPT !.created = IF s.n > @ THEN s.n ELSE @,
                      !.table = [t \in Tables |->
                          IF t \in BaseTable(s.n) /\ ~Exists(d, t) THEN Table(0, FALSE)
                          ELSE @[t]]]
      [] s.do = "column"  -> [d EXCEPT !.column = TRUE]
      [] s.do = "version" -> [d EXCEPT !.version = IF @ > 0 \/ s.n = 1 THEN s.n ELSE @]
      [] s.do = "convert" -> [d EXCEPT !.converted = @ + 1]
      [] s.do = "create"  -> IF Exists(d, s.t) THEN d
                             ELSE [d EXCEPT !.table[s.t] = Table(s.n, FALSE)]
      [] s.do = "copy"    -> [d EXCEPT !.table[s.t].filled = @ \/ d.table[s.s].filled]
      [] s.do = "drop"    -> [d EXCEPT !.table[s.t] = Absent]
      [] s.do = "rename"  -> [d EXCEPT !.table[s.t] = d.table[s.s],
                                       !.table[s.s] = Absent]
      [] OTHER            -> d

ChangesSchema(s) == s.do \in {"base", "column", "create", "drop", "rename", "other"}

-----------------------------------------------------------------------------
Init ==
    /\ sqlite \in BOOLEAN
    /\ had \in BOOLEAN
    /\ \/ /\ db = Fresh /\ log = 0 /\ ~had /\ old = FALSE
       \/ /\ db = Installed(0, had) /\ log = 0 /\ old = TRUE
       \/ \E n \in 1..5 : db = Installed(n, had) /\ log = n + 1 /\ old = FALSE
    /\ work = db
    /\ pc = 0
    /\ proc = "down"
    /\ setting = "fine"
    /\ exiting = FALSE
    /\ listening = FALSE
    /\ started = FALSE

\* "other server": the host of the configured uri is not the one the database
\* was made with; "no check": init_db is set to false.
Settings == {"fine", "no uri", "no https", "no check", "other server",
             "unknown mode", "no key", "no schedule"}

\* testDbStatus looks for pck_crl.
Initialized == db.created >= PckCrl

\* initializeApp up to dbMigration.  Without a uri it throws, having ended the
\* logger; startupCheck has the logger ended too, and goes on.
Start(s) ==
    /\ proc = "down"
    /\ setting' = s
    /\ exiting' = (s \in {"no uri", "no https"})
    /\ proc' = IF s = "no uri" THEN "rejected"
               ELSE IF s = "no check" THEN "checked"
               ELSE IF ~Initialized THEN "migrating"
               ELSE IF db.created < PcsVersion \/ db.version = 0 \/ s = "other server"
                    THEN "refused"
               ELSE "migrating"
    /\ pc' = 1
    /\ work' = db
    /\ UNCHANGED <<sqlite, db, log, listening, started, old, had>>

Statement == Script[log + 1][pc]

\* A statement of the script.  A statement of script 00 is durable at once; in
\* MySQL one that changes the schema is, with what was written before it, and
\* the transaction ends there: what comes after it is durable one by one.
EachAtOnce  == TRUE
Autocommits ==
    log = 0 \/ (~sqlite /\ \E i \in 1..pc : ChangesSchema(Script[log + 1][i]))

Execute ==
    /\ proc = "migrating"
    /\ log < Len(Script) /\ pc <= Len(Script[log + 1])
    /\ \/ /\ Works(Statement, work)
          /\ work' = Effect(Statement, work)
          /\ db' = IF Autocommits THEN work' ELSE db
          /\ pc' = pc + 1
          /\ UNCHANGED proc
       \/ /\ ~Works(Statement, work)
          /\ work' = IF ~sqlite /\ ChangesSchema(Statement) THEN work ELSE db
          /\ db' = work'
          /\ proc' = "refused"
          /\ UNCHANGED pc
    /\ UNCHANGED <<sqlite, log, server, old, had>>

\* MySQL commits what was written before a statement that changes the schema.
CommitsFirst ==
    /\ proc = "migrating"
    /\ ~sqlite
    /\ log < Len(Script) /\ pc <= Len(Script[log + 1])
    /\ ChangesSchema(Statement)
    /\ db' = work
    /\ UNCHANGED <<sqlite, work, log, pc, proc, server, old, had>>

Commit ==
    /\ proc = "migrating"
    /\ log < Len(Script) /\ pc = Len(Script[log + 1]) + 1
    /\ db' = work
    /\ proc' = "migrated"
    /\ UNCHANGED <<sqlite, work, log, pc, server, old, had>>

RecordsNothing ==
    /\ proc = "migrated"
    /\ pc' = 1
    /\ proc' = "migrating"
    /\ UNCHANGED <<sqlite, db, work, log, server, old, had>>

\* umzug records the script.
Record ==
    /\ proc = "migrated"
    /\ log' = log + 1
    /\ pc' = 1
    /\ proc' = "migrating"
    /\ UNCHANGED <<sqlite, db, work, server, old, had>>

MigrationEnds ==
    /\ proc = "migrating"
    /\ log = Len(Script)
    /\ proc' = "checked"
    /\ UNCHANGED <<sqlite, db, work, log, pc, server, old, had>>

-----------------------------------------------------------------------------
(* The server process.                                                      *)

\* What has main end the logger: a database that was refused, a caching mode
\* it does not know, a missing TLS key.
BadSettings == setting \in {"unknown mode", "no key"}
Unusable    == proc = "refused" \/ setting \in {"unknown mode", "no key"}

\* The rest of main is synchronous and goes on after each of these: the HTTPS
\* server is told to listen, the cron job is scheduled, the start is complete.
\* Without a RefreshSchedule main rejects in between, which is logged only.
Complete ==
    /\ proc \in {"checked", "refused"}
    /\ proc' = IF proc = "checked" THEN "up" ELSE "up, refused"
    /\ exiting' = (exiting \/ Unusable)
    /\ started' = (setting # "no schedule")
    /\ UNCHANGED <<sqlite, db, work, log, pc, setting, listening, old, had>>

Listen ==
    /\ proc \in {"up", "up, refused"}
    /\ ~listening
    /\ listening' = TRUE
    /\ UNCHANGED <<sqlite, db, work, log, pc, proc, setting, exiting, started, old, had>>

\* The port is taken: the error of the HTTPS server is an uncaught exception,
\* which is logged.  The cron job keeps the process alive.
ListenFails ==
    /\ proc \in {"up", "up, refused"}
    /\ ~listening
    /\ proc' = "deaf"
    /\ UNCHANGED <<sqlite, db, work, log, pc, server, old, had>>

Dies ==
    /\ proc' = "down"
    /\ listening' = FALSE
    /\ exiting' = FALSE
    /\ started' = FALSE
    /\ work' = db
    /\ pc' = 0
    /\ UNCHANGED <<sqlite, db, log, setting, old, had>>

\* SIGINT ends the logger, whatever the server is about.
Interrupt ==
    /\ proc # "down"
    /\ ~exiting
    /\ exiting' = TRUE
    /\ UNCHANGED <<sqlite, db, work, log, pc, proc, setting, listening, started, old, had>>

Exit  == exiting /\ Dies
Crash == proc # "down" /\ Dies

Progress ==
    \/ Execute \/ Commit \/ Record \/ MigrationEnds
    \/ Complete \/ Listen \/ ListenFails \/ Exit

Next ==
    \/ \E s \in Settings : Start(s)
    \/ Progress \/ CommitsFirst \/ Interrupt \/ Crash

Spec == Init /\ [][Next]_vars

\* The process runs, its database answers, and its timer fires.
FairSpec == Spec /\ WF_vars(Progress)

-----------------------------------------------------------------------------
(* Properties.                                                              *)

Databases == [created : 0..BaseTables, column : BOOLEAN, version : 0..5,
              converted : 0..2, table : [Tables -> {Absent} \cup [layout : 0..5, filled : BOOLEAN]]]

TypeOK ==
    /\ {db, work} \subseteq Databases
    /\ log \in 0..Len(Script)
    /\ proc \in {"down", "rejected", "migrating", "migrated", "checked", "refused",
                 "up", "up, refused", "deaf"}
    /\ pc \in 0..BaseTables + 1
    /\ setting \in Settings
    /\ {sqlite, exiting, listening, started, old, had} \subseteq BOOLEAN

\* The migration keeps the collateral of an existing database: wherever the
\* process crashes, and however often, some table still holds it.
CollateralKept ==
    had => /\ \E t \in {"fmspc_tcbs", "fmspc_tcbs_temp"} : db.table[t].filled
           /\ \E t \in {"qe_identities", "enclave_identities", "enclave_identities_temp"} :
                  db.table[t].filled

\* A server that has come up works on the newest layout, with its version
\* row, whatever crashes and starts came before, unless it was told not to check.
ServesCurrentLayout ==
    proc = "up" /\ setting # "no check" =>
        /\ db.version = 5
        /\ \A t \in Tables : db.table[t] # Absent => db.table[t].layout = 5
        /\ Exists(db, "fmspc_tcbs") /\ Exists(db, "enclave_identities")

\* Script 01 turns stored hex strings into bytes; done twice it would destroy
\* them.  No crash makes it run twice.
ConvertedOnce == db.converted <= 1

\* With SQLite a crash leaves the layout of a script that has run whole.
NoHalfMigration ==
    sqlite /\ db.version > 0 =>
        \A t \in Tables : Exists(db, t) => db.table[t].layout = LayoutOf(db.version)

\* A server that is there to stay, with no exit to come, works on a database it
\* has checked, with a caching mode and a key; and unless its refresh was never
\* scheduled it reports that its start is complete.
StaysWhenUsable ==
    listening /\ ~exiting => /\ proc = "up"
                             /\ setting \notin {"unknown mode", "no key"}
                             /\ started \/ setting = "no schedule"

\* Every start leads to a server that is there to stay, to the end of the process,
\* or to one that could not listen: no script, and no order in which scripts,
\* crashes and interrupts meet, keeps the server starting for ever.
Settles ==
    proc # "down" ~> proc \in {"down", "deaf"} \/ (listening /\ ~exiting)

\* healthService.js: "The process exits rather than serving traffic when
\* initialization fails": requests are accepted only on a database that passed
\* its check.
ListensWhenChecked == listening => proc = "up"
=============================================================================
