---------------------------- MODULE Publication ----------------------------
(***************************************************************************)
(* Ingestion handlers (ingestion/handler.py) and the tables they publish   *)
(* to (ingestion/publisher.py): documents, versions, chunks, auction       *)
(* records and their mortgagors.                                           *)
(*                                                                         *)
(* The queue runs a job again after a failure or a lost lease, so several  *)
(* handlers may work on one document at once, each cut off at any point.   *)
(* The steps are the statements; what a transaction wrote is seen by       *)
(* others when it commits, and until then the rows it wrote are locked.    *)
(* Spreadsheets of one county and month share stable keys, so documents    *)
(* write each other's auction records.                                     *)
(*                                                                         *)
(* What a handler publishes is computed from the source by Documents.      *)
(***************************************************************************)
EXTENDS Documents

CONSTANTS
    Storage,    \* spreadsheets in Storage, of one county and month
    Policies,   \* approved policy pages
    Workbooks,  \* the workbook of each content (sha256) of a spreadsheet
    Pages,      \* the page of each content of a policy
    Nothing,    \* no version
    Handlers,   \* handler runs that may be under way at once
    MaxEdits,   \* bound: how often a source changes
    MaxFaults   \* bound: handlers that raise, are cancelled or are killed

Documents == Storage \cup Policies

ContentsOf(d) == IF d \in Storage THEN DOMAIN Workbooks ELSE DOMAIN Pages

Contents == DOMAIN Workbooks \cup DOMAIN Pages

\* What a content is published as, in order: stable keys, or chunks.
Units == [c \in Contents |-> IF c \in DOMAIN Workbooks THEN StableKeys(Workbooks[c])
                            ELSE Chunks(Pages[c])]

\* The vectors that its chunks may get.
Vectors == [c \in DOMAIN Pages |-> Embeddings(Units[c])]

KeysOf(c) == ToSet(Units[c])

Keys == UNION {KeysOf(c) : c \in DOMAIN Workbooks}

ASSUME PublicationAssumption ==
    /\ Workbooks \in [DOMAIN Workbooks -> Workbook]
    /\ Pages \in [DOMAIN Pages -> Page]
    /\ Storage \cap Policies = {}
    /\ DOMAIN Workbooks \cap DOMAIN Pages = {}
    /\ Nothing \notin Contents
    /\ Nothing \notin Documents \X Contents
    /\ MaxEdits \in Nat
    /\ MaxFaults \in Nat

VARIABLES
    source,      \* what each source serves now
    documents,   \* public.documents
    versions,    \* public.document_versions: the contents of each document
    chunks,      \* public.document_chunks, with their vectors
    current,     \* documents.current_version_id
    record,      \* public.auction_records: the version that last wrote each one, in
                 \* document_version_id and the other columns that the upsert updates
    origin,      \* the version that inserted each record: the columns that it leaves
                 \* alone (state, rid, source_url, source_name, raw_metadata)
    mortgagors,  \* public.auction_record_mortgagors: the versions they come from
    run,         \* the handler runs
    edits, faults

tables == <<documents, versions, chunks, current, record, origin, mortgagors>>
vars == <<source, tables, run, edits, faults>>

Version == Documents \X Contents

\* idle: no job.  fetched: downloaded and validated, ensure_document next.
\* ensured: find_version next.  found: about to publish, or to publish rows.
\* inserted: publish's transaction has inserted the version.  rows: inside the
\* transaction of publish_auction_rows.  returned: the handler returned.
Steps == {"idle", "fetched", "ensured", "found", "inserted", "rows", "returned"}

Run == [step : Steps, doc : Documents, content : Contents, force : BOOLEAN,
        existing : BOOLEAN, created : BOOLEAN, written : Nat,
        vectors : Seq(UNION {KeysOf(c) : c \in DOMAIN Pages})]
Idle == [step |-> "idle"]

At(h, step) == run[h].step = step

Goto(h, step) == run' = [run EXCEPT ![h].step = step]

(***************************************************************************)
(* Row locks.                                                              *)
(***************************************************************************)

\* publish holds its (document_id, sha256); publish_auction_rows the records it
\* has upserted.
Held(h) ==
    IF At(h, "inserted") THEN {<<run[h].doc, run[h].content>>}
    ELSE IF At(h, "rows") THEN {Units[run[h].content][i] : i \in 1..run[h].written}
    ELSE {}

\* The version or record the next statement of h writes.
Needed(h) ==
    IF At(h, "found") THEN {<<run[h].doc, run[h].content>>}
    ELSE IF At(h, "rows") /\ run[h].written < Len(Units[run[h].content])
         THEN {Units[run[h].content][run[h].written + 1]}
    ELSE {}

WaitsFor(h, g) == g # h /\ Needed(h) \cap Held(g) # {}

Blocked(h) == \E g \in Handlers : WaitsFor(h, g)

(***************************************************************************)
(* handle_ingestion_job.                                                   *)
(***************************************************************************)

\* The download: the handler goes on with what the source serves at this moment.
\* The chunks of a policy page are embedded first; without chunks, or without their
\* vectors, the handler raises before anything is written.
Begin(h) ==
    /\ At(h, "idle")
    /\ \E d \in Documents, force \in BOOLEAN :
        /\ d \in Policies => Units[source[d]] # <<>>
        /\ \E vectors \in IF d \in Policies THEN Vectors[source[d]] ELSE {<<>>} :
             run' = [run EXCEPT ![h] =
               [step |-> "fetched", doc |-> d, content |-> source[d], force |-> force,
                existing |-> FALSE, created |-> FALSE, written |-> 0,
                vectors |-> vectors]]
    /\ UNCHANGED <<source, tables, edits, faults>>

EnsureDocument(h) ==
    /\ At(h, "fetched")
    /\ documents' = documents \cup {run[h].doc}
    /\ Goto(h, "ensured")
    /\ UNCHANGED <<source, versions, chunks, current, record, origin, mortgagors, edits, faults>>

\* Outside any transaction: what it finds may be out of date when it is used.
FindVersion(h) ==
    /\ At(h, "ensured")
    /\ run' = [run EXCEPT ![h].step = "found",
                          ![h].existing = run[h].content \in versions[run[h].doc]]
    /\ UNCHANGED <<source, tables, edits, faults>>

\* The content is known and force_new_version is not set.
Unchanged(h) == At(h, "found") /\ run[h].existing /\ ~run[h].force

\* A known policy page: nothing to do.
ReturnUnchanged(h) ==
    /\ Unchanged(h) /\ run[h].doc \in Policies
    /\ Goto(h, "returned")
    /\ UNCHANGED <<source, tables, edits, faults>>

\* Mutation: nothing is published for a known spreadsheet either.
ReturnUnchangedSpreadsheet(h) ==
    /\ Unchanged(h) /\ run[h].doc \in Storage
    /\ Goto(h, "returned")
    /\ UNCHANGED <<source, tables, edits, faults>>

\* A known spreadsheet: its rows are published again, for the version found.
RepublishRows(h) ==
    /\ Unchanged(h) /\ run[h].doc \in Storage
    /\ Goto(h, "rows")
    /\ UNCHANGED <<source, tables, edits, faults>>

\* publish, first statement.  An insert of the same key by an open transaction
\* is waited for; "inserted" is (xmax = 0).  A spreadsheet with no rows raised.
InsertVersion(h) ==
    /\ At(h, "found") /\ ~Unchanged(h)
    /\ Units[run[h].content] # <<>>
    /\ ~Blocked(h)
    /\ run' = [run EXCEPT ![h].step = "inserted",
                          ![h].created = run[h].content \notin versions[run[h].doc]]
    /\ UNCHANGED <<source, tables, edits, faults>>

\* publish, the rest: the chunks of a version it created, set_current, commit.
\* Spreadsheets have no chunks; their rows follow in a transaction of their own.
VersionCommitted(h) ==
    LET d == run[h].doc
        c == run[h].content
    IN  /\ At(h, "inserted")
        /\ versions' = [versions EXCEPT ![d] = @ \cup {c}]
        /\ chunks' = IF run[h].created /\ d \in Policies
                     THEN chunks \cup
                          {[version |-> <<d, c>>, index |-> i,
                            text |-> Units[c][i], vector |-> run[h].vectors[i]] :
                           i \in DOMAIN Units[c]}
                     ELSE chunks
        /\ Goto(h, IF d \in Storage THEN "rows" ELSE "returned")
        /\ UNCHANGED <<source, documents, record, origin, mortgagors, edits, faults>>

\* Mutation: spreadsheets are not repointed.
CommitVersionOfPolicies(h) ==
    /\ VersionCommitted(h)
    /\ current' = IF run[h].doc \in Policies
                  THEN [current EXCEPT ![run[h].doc] = run[h].content]
                  ELSE current

CommitVersion(h) ==
    /\ VersionCommitted(h)
    /\ current' = [current EXCEPT ![run[h].doc] = run[h].content]

\* Mutation: one row too many.
UpsertRowOneMore(h) ==
    /\ At(h, "rows")
    /\ run[h].written <= Len(Units[run[h].content])
    /\ ~Blocked(h)
    /\ run' = [run EXCEPT ![h].written = @ + 1]
    /\ UNCHANGED <<source, tables, edits, faults>>

\* publish_auction_rows, one row: the upsert waits for the record's lock; the
\* record's mortgagors are deleted and inserted under it.
UpsertRow(h) ==
    /\ At(h, "rows")
    /\ run[h].written < Len(Units[run[h].content])
    /\ ~Blocked(h)
    /\ run' = [run EXCEPT ![h].written = @ + 1]
    /\ UNCHANGED <<source, tables, edits, faults>>

\* The rows of h are there: on conflict a record keeps the columns of its origin.
RowsUpserted(h) ==
    LET v == <<run[h].doc, run[h].content>>
        written == KeysOf(run[h].content)
    IN  /\ record' = [k \in Keys |-> IF k \in written THEN v ELSE record[k]]
        /\ origin' = [k \in Keys |-> IF k \in written /\ record[k] = Nothing THEN v
                                    ELSE origin[k]]

\* Mutation: the mortgagors listed so far are not deleted.
CommitRowsKeepingMortgagors(h) ==
    LET v == <<run[h].doc, run[h].content>>
        written == KeysOf(run[h].content)
    IN  /\ At(h, "rows")
        /\ run[h].written = Len(Units[run[h].content])
        /\ RowsUpserted(h)
        /\ mortgagors' = [k \in Keys |-> IF k \in written THEN mortgagors[k] \cup {v}
                                        ELSE mortgagors[k]]
        /\ Goto(h, "returned")
        /\ UNCHANGED <<source, documents, versions, chunks, current, edits, faults>>

CommitRows(h) ==
    LET v == <<run[h].doc, run[h].content>>
        written == KeysOf(run[h].content)
    IN  /\ At(h, "rows")
        /\ run[h].written = Len(Units[run[h].content])
        /\ RowsUpserted(h)
        /\ mortgagors' = [k \in Keys |-> IF k \in written THEN {v} ELSE mortgagors[k]]
        /\ Goto(h, "returned")
        /\ UNCHANGED <<source, documents, versions, chunks, current, edits, faults>>

\* The worker takes the result.
Finish(h) ==
    /\ At(h, "returned")
    /\ run' = [run EXCEPT ![h] = Idle]
    /\ UNCHANGED <<source, tables, edits, faults>>

\* A spreadsheet that is refused or has no publishable rows.
NoRows(h) ==
    /\ At(h, "found") /\ ~Unchanged(h)
    /\ Units[run[h].content] = <<>>
    /\ run' = [run EXCEPT ![h] = Idle]
    /\ UNCHANGED <<source, tables, edits, faults>>

\* Mutation: no transaction, so the rows written so far stay.
AbortKeepingRows(h) ==
    /\ faults < MaxFaults
    /\ ~At(h, "idle")
    /\ LET written == IF ~At(h, "rows") THEN {}
                      ELSE {Units[run[h].content][i] : i \in 1..run[h].written}
       IN  record' = [k \in Keys |-> IF k \in written THEN <<run[h].doc, run[h].content>>
                                    ELSE record[k]]
    /\ run' = [run EXCEPT ![h] = Idle]
    /\ faults' = faults + 1
    /\ UNCHANGED <<source, documents, versions, chunks, current, origin, mortgagors, edits>>

\* An exception, a cancellation after a lost lease, the death of the process, or
\* the loss of a commit's reply (then at "rows" or "returned"): an open
\* transaction is rolled back.
Abort(h) ==
    /\ faults < MaxFaults
    /\ ~At(h, "idle")
    /\ run' = [run EXCEPT ![h] = Idle]
    /\ faults' = faults + 1
    /\ UNCHANGED <<source, tables, edits>>

\* Mutation: transactions that wait for each other wait forever.
NoVictim(h) == FALSE /\ UNCHANGED vars

\* A deadlock: the server makes one of the transactions in the cycle fail.
DeadlockVictim(h) ==
    /\ \E cycle \in SUBSET Handlers :
        /\ h \in cycle
        /\ \A g \in cycle : /\ \E x \in cycle : WaitsFor(g, x)
                            /\ \E x \in cycle : WaitsFor(x, g)
    /\ run' = [run EXCEPT ![h] = Idle]
    /\ UNCHANGED <<source, tables, edits, faults>>

\* The source is edited, under the same name.
Edit(d) ==
    /\ edits < MaxEdits
    /\ \E c \in ContentsOf(d) \ {source[d]} : source' = [source EXCEPT ![d] = c]
    /\ edits' = edits + 1
    /\ UNCHANGED <<tables, run, faults>>

Init ==
    /\ source \in {s \in [Documents -> Contents] : \A d \in Documents : s[d] \in ContentsOf(d)}
    /\ documents = {}
    /\ versions = [d \in Documents |-> {}]
    /\ chunks = {}
    /\ current = [d \in Documents |-> Nothing]
    /\ record = [k \in Keys |-> Nothing]
    /\ origin = [k \in Keys |-> Nothing]
    /\ mortgagors = [k \in Keys |-> {}]
    /\ run = [h \in Handlers |-> Idle]
    /\ edits = 0
    /\ faults = 0

HandlerStep(h) ==
    \/ EnsureDocument(h) \/ FindVersion(h) \/ ReturnUnchanged(h) \/ RepublishRows(h)
    \/ InsertVersion(h) \/ CommitVersion(h) \/ UpsertRow(h) \/ CommitRows(h)
    \/ Finish(h) \/ NoRows(h)

Next ==
    \/ \E h \in Handlers : Begin(h) \/ HandlerStep(h) \/ Abort(h) \/ DeadlockVictim(h)
    \/ \E d \in Documents : Edit(d)

Spec == Init /\ [][Next]_vars

\* A handler's next statement is run, a lock queue is first come first served,
\* and a deadlock is found (deadlock_timeout).
Fairness ==
    \A h \in Handlers : SF_vars(HandlerStep(h)) /\ WF_vars(DeadlockVictim(h))

FairSpec == Spec /\ Fairness
-----------------------------------------------------------------------------
(***************************************************************************)
(* Properties.                                                             *)
(***************************************************************************)

\* The type of every variable.
PublicationTypeOK ==
    /\ source \in [Documents -> Contents]
    /\ documents \subseteq Documents
    /\ versions \in [Documents -> SUBSET Contents]
    /\ \A x \in chunks : x.version \in Policies \X DOMAIN Pages /\ x.index \in Nat
    /\ current \in [Documents -> Contents \cup {Nothing}]
    /\ record \in [Keys -> Version \cup {Nothing}]
    /\ origin \in [Keys -> Version \cup {Nothing}]
    /\ mortgagors \in [Keys -> SUBSET Version]
    /\ run \in [Handlers -> Run \cup {Idle}]
    /\ \A h \in Handlers : ~At(h, "idle") => run[h].written <= Len(Units[run[h].content])
    /\ edits \in Nat
    /\ faults \in Nat

\* The headings above each node.
Sections == [c \in DOMAIN Pages |-> [n \in DOMAIN Pages[c] |-> Headings(Pages[c], n)]]

\* The chunks that a reader finds of a version: numbered in the order of the page,
\* each word of its text in one of them, under the headings it stands under, and
\* each with the vector of its own text.
IsPage(c, stored) ==
    /\ \A n \in DOMAIN Pages[c] : IsText(Pages[c][n]) =>
         \A w \in 1..Pages[c][n].words : \E x \in stored :
           /\ x.text.node = n /\ w \in x.text.first..x.text.last
           /\ x.text.path = Sections[c][n]
    /\ {x.index : x \in stored} = 1..Cardinality(stored)
    /\ \A x, y \in stored : x.index < y.index =>
         \/ x.text.node < y.text.node
         \/ x.text.node = y.text.node /\ x.text.first < y.text.first
    /\ \A x \in stored : x.vector = x.text

\* A published version of a policy page is the page, whichever of the handlers that
\* raced to insert it committed, whichever was cut off, and in whatever order the
\* embeddings came; and no chunk belongs to an unpublished version (_publish_tx:
\* "created" decides).
VersionsWhole ==
    \A d \in Policies, c \in DOMAIN Pages :
        LET stored == {x \in chunks : x.version = <<d, c>>}
        IN  IF c \in versions[d] THEN IsPage(c, stored) ELSE stored = {}

\* The published versions of spreadsheets that have a record.
Sources(k) == {v \in Version : v[1] \in Storage /\ v[2] \in versions[v[1]] /\ k \in KeysOf(v[2])}

\* A record's mortgagors are those of the version that last wrote it, never of two
\* files that write it at once; and no column, the ones that on conflict leaves alone
\* included, is from a file that has no such record or whose publication failed.  (The
\* columns of one record may still be of two files, its origin's and its last writer's.)
RecordsWhole ==
    \A k \in Keys :
        \/ record[k] = Nothing /\ origin[k] = Nothing /\ mortgagors[k] = {}
        \/ mortgagors[k] = {record[k]} /\ {record[k], origin[k]} \subseteq Sources(k)

\* A spreadsheet's rows are never in the catalogue in part: when one record comes
\* from a file, every record of that file is there.
NoTornFile ==
    \A k, l \in Keys : \A d \in Storage, c \in DOMAIN Workbooks :
        record[k] = <<d, c>> /\ l \in KeysOf(c) => record[l] # Nothing

\* When a handler returns, what it downloaded is published, rows included: a run
\* after one that was cut off between its two transactions repairs what is missing.
ReturnedIsPublished ==
    \A h \in Handlers : At(h, "returned") =>
        /\ run[h].content \in versions[run[h].doc]
        /\ run[h].doc \in Storage =>
             \A k \in KeysOf(run[h].content) : record[k] # Nothing

\* Publication implements PublishedCatalog: to a reader each of the two
\* transactions of a handler happens at once or not at all.
Catalog == INSTANCE PublishedCatalog WITH
    chunks <- {<<x.version[1], x.version[2], x.index>> : x \in chunks}

ImplementsCatalog == Catalog!Spec

\* Every handler ends, though they lock records in the order of their files.
HandlersEnd == \A h \in Handlers : ~At(h, "idle") ~> At(h, "idle")
=============================================================================
