-------------------------- MODULE PublishedCatalog --------------------------
(***************************************************************************)
(* What publication promises the readers of the catalogue, with no         *)
(* handlers, no locks and no failures: a version of a document appears     *)
(* whole, with every chunk, and becomes current in the same instant; the   *)
(* rows of a spreadsheet are put all at once, and only for a version that  *)
(* is there.  Publication implements it.                                   *)
(***************************************************************************)
EXTENDS Naturals, Sequences

CONSTANTS Storage, Policies, Contents, Nothing, Keys, Units

VARIABLES
    versions,    \* published contents of each document
    chunks,      \* <<document, content, index>> of every chunk
    current,     \* the current content of each document
    record,      \* the version that last wrote each auction record
    origin,      \* the version that put it first, of which it keeps some columns
    mortgagors   \* the versions whose mortgagors each record lists

vars == <<versions, chunks, current, record, origin, mortgagors>>

Documents == Storage \cup Policies

KeysOf(c) == {Units[c][i] : i \in DOMAIN Units[c]}

Init ==
    /\ versions = [d \in Documents |-> {}]
    /\ chunks = {}
    /\ current = [d \in Documents |-> Nothing]
    /\ record = [k \in Keys |-> Nothing]
    /\ origin = [k \in Keys |-> Nothing]
    /\ mortgagors = [k \in Keys |-> {}]

\* A version that was there already keeps its chunks.
PublishVersion(d, c) ==
    /\ Units[c] # <<>>
    /\ versions' = [versions EXCEPT ![d] = @ \cup {c}]
    /\ current' = [current EXCEPT ![d] = c]
    /\ chunks' = IF d \in Policies
                 THEN chunks \cup {<<d, c, i>> : i \in DOMAIN Units[c]}
                 ELSE chunks
    /\ UNCHANGED <<record, origin, mortgagors>>

PutRows(d, c) ==
    /\ c \in versions[d]
    /\ record' = [k \in Keys |-> IF k \in KeysOf(c) THEN <<d, c>> ELSE record[k]]
    /\ origin' = [k \in Keys |->
                    IF k \in KeysOf(c) /\ origin[k] = Nothing THEN <<d, c>> ELSE origin[k]]
    /\ mortgagors' = [k \in Keys |-> IF k \in KeysOf(c) THEN {<<d, c>>} ELSE mortgagors[k]]
    /\ UNCHANGED <<versions, chunks, current>>

Next ==
    \/ \E d \in Documents, c \in Contents : PublishVersion(d, c)
    \/ \E d \in Storage, c \in Contents : PutRows(d, c)

Spec == Init /\ [][Next]_vars
=============================================================================
