--------------------------- MODULE RefreshFlights ---------------------------
(***************************************************************************)
(* What the refresh promises its callers and the readers of the cache,     *)
(* without queue, phases, locks or transactions.  At most one flight per   *)
(* key is open; calls ride on it.  A flight looks once at the cache.  If   *)
(* it succeeds it replaces, in one step, every row it has found and may    *)
(* not leave out by what the PCS published since it opened; if it fails it *)
(* changes nothing.  Riders are told after the key is free again.          *)
(***************************************************************************)
EXTENDS Naturals

CONSTANTS
    Calls, Keys, Rows,
    Reach    \* the rows a flight of each key may replace

VARIABLES
    pcs, db,
    sure,  \* the rows a flight may not leave out that looks now
    open,  \* of each key, NoFlight, or when its flight opened and the rows due
    stage, \* of each key, "none", "opened", "looked", or how its flight ended
    call   \* of each call, where it is

vars == <<pcs, db, sure, open, stage, call>>

Idle         == <<"idle">>
Refused      == <<"refused">>
Riding(k)    == <<"riding", k>>
Told(result) == <<"told", result>>

NoFlight == [since |-> 0, due |-> {}]

Init ==
    /\ open = [k \in Keys |-> NoFlight]
    /\ stage = [k \in Keys |-> "none"]
    /\ call = [c \in Calls |-> Idle]

Publish ==
    /\ pcs' = pcs + 1
    /\ UNCHANGED <<db, sure, open, stage, call>>

Refuse(c) ==
    /\ call[c] = Idle
    /\ call' = [call EXCEPT ![c] = Refused]
    /\ UNCHANGED <<pcs, db, sure, open, stage>>

Ride(c, k) ==
    /\ call[c] = Idle
    /\ stage[k] # "none"
    /\ call' = [call EXCEPT ![c] = Riding(k)]
    /\ UNCHANGED <<pcs, db, sure, open, stage>>

Open(c, k) ==
    /\ call[c] = Idle
    /\ stage[k] = "none"
    /\ call' = [call EXCEPT ![c] = Riding(k)]
    /\ open' = [open EXCEPT ![k] = [since |-> pcs, due |-> {}]]
    /\ stage' = [stage EXCEPT ![k] = "opened"]
    /\ UNCHANGED <<pcs, db, sure>>

\* The flight has nothing to do and has ended well already: certificates are
\* not refreshed for PCS_VERSION <= 3.
OpenForNothing(c, k) ==
    /\ call[c] = Idle
    /\ stage[k] = "none"
    /\ call' = [call EXCEPT ![c] = Riding(k)]
    /\ open' = [open EXCEPT ![k] = [since |-> pcs, due |-> {}]]
    /\ stage' = [stage EXCEPT ![k] = "ok"]
    /\ UNCHANGED <<pcs, db, sure>>

\* What is cached of the key when the flight looks is due.
Look(k) ==
    /\ stage[k] = "opened"
    /\ stage' = [stage EXCEPT ![k] = "looked"]
    /\ open' = [open EXCEPT ![k].due = {x \in Reach[k] \cap sure : db[x] # 0}]
    /\ UNCHANGED <<pcs, db, sure, call>>

Store(k) ==
    /\ stage[k] = "looked"
    /\ stage' = [stage EXCEPT ![k] = "ok"]
    /\ \A x \in Rows :
           /\ db'[x] # db[x] => x \in Reach[k] /\ open[k].since <= db'[x] /\ db'[x] <= pcs
           /\ x \in open[k].due => open[k].since <= db'[x]
    /\ sure \subseteq sure' /\ sure' \subseteq sure \cup Reach[k]
    /\ UNCHANGED <<pcs, open, call>>

Fail(k) ==
    /\ stage[k] \in {"opened", "looked"}
    /\ stage' = [stage EXCEPT ![k] = "failed"]
    /\ UNCHANGED <<pcs, db, sure, open, call>>

Land(k) ==
    /\ stage[k] \in {"ok", "failed"}
    /\ open' = [open EXCEPT ![k] = NoFlight]
    /\ stage' = [stage EXCEPT ![k] = "none"]
    /\ call' = [c \in Calls |-> IF call[c] = Riding(k) THEN Told(stage[k]) ELSE call[c]]
    /\ UNCHANGED <<pcs, db, sure>>

\* A handler that missed the cache stores one row, or changes whether a flight
\* may leave it out.
Fill(x) ==
    /\ \A y \in Rows \ {x} : db'[y] = db[y]
    /\ db'[x] # db[x] => db'[x] <= pcs
    /\ sure' \ {x} = sure \ {x}
    /\ UNCHANGED <<pcs, open, stage, call>>

Next ==
    \/ Publish
    \/ \E c \in Calls : Refuse(c)
    \/ \E c \in Calls, k \in Keys : Ride(c, k) \/ Open(c, k) \/ OpenForNothing(c, k)
    \/ \E k \in Keys : Look(k) \/ Store(k) \/ Fail(k) \/ Land(k)
    \/ \E x \in Rows : Fill(x)

Spec == Init /\ [][Next]_vars
=============================================================================
