---------------------------- MODULE MCIssuerChains ----------------------------
(* Instances of IssuerChains for TLC.                                       *)
EXTENDS IssuerChains, TLC

CONSTANTS qe, qe3, tcb

\* The second publication is signed with a new key under a new root.
NewKey  == <<1, 2>>
NewRootKey == <<1, 2>>

File(n, items, crl, chains) == [n |-> n, items |-> items, crl |-> crl, chains |-> chains]

Both(m, n) == [c \in {"intermediate", "signing"} |-> IF c = "signing" THEN n ELSE m]

\* Complete files, old and new, and one of version 3; one without chains; one
\* with chains of two roots.
FileSet ==
    {File(n, {"pckcrl", qe, tcb}, TRUE, Both(n, n)) : n \in {1, 2}}
    \cup {File(1, {"pckcrl", qe3}, TRUE, Both(1, 1)),
          File(1, {"pckcrl", tcb}, TRUE, <<>>), File(2, {qe}, FALSE, Both(1, 2))}

RequestSymmetry == Permutations(Requests)
=============================================================================
