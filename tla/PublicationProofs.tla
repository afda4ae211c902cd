------------------------- MODULE PublicationProofs -------------------------
(***************************************************************************)
(* Publication: its safety properties, and that it implements              *)
(* PublishedCatalog, for every set of handlers and documents, every        *)
(* content of the sources and every number of faults and edits.            *)
(*                                                                         *)
(* PublicationInv is inductive.  What it adds to the properties is what a  *)
(* handler may rely on (RunOK): what it read before it waited for a lock   *)
(* is still so when it goes on, since a version, once published, stays,    *)
(* and so does a record; and that the chunks are exactly those of the      *)
(* published versions (ChunksOK), however many handlers raced to insert    *)
(* one.                                                                    *)
(***************************************************************************)
EXTENDS Publication, DocumentsProofs

\* The rows of a file are in the catalogue.
RowsThere(c) == \A k \in KeysOf(c) : record[k] # Nothing

\* A handler run works on a content that its source may have, and has the vectors
\* of its chunks; what it has found, inserted or returned is there.
RunOK(r) ==
    \/ r = Idle
    \/ /\ r \in Run /\ r.step # "idle"
       /\ r.content \in ContentsOf(r.doc)
       /\ r.written <= Len(Units[r.content])
       /\ r.doc \in Policies => Units[r.content] # <<>> /\ r.vectors = Units[r.content]
       /\ r.step = "found" /\ r.existing => r.content \in versions[r.doc]
       /\ r.step = "inserted" =>
            /\ Units[r.content] # <<>>
            /\ r.created \/ r.content \in versions[r.doc]
       /\ r.step = "rows" => r.doc \in Storage /\ r.content \in versions[r.doc]
       /\ r.step = "returned" =>
            /\ r.content \in versions[r.doc]
            /\ r.doc \in Storage => RowsThere(r.content)

\* The chunk with number i of a version.
Chunk(d, c, i) ==
    [version |-> <<d, c>>, index |-> i, text |-> Units[c][i], vector |-> Units[c][i]]

\* The chunks are those of the published versions.
ChunksOK ==
    /\ \A x \in chunks : \E d \in Policies : \E c \in versions[d] : \E i \in DOMAIN Units[c] :
         x = Chunk(d, c, i)
    /\ \A d \in Policies : \A c \in versions[d] : \A i \in DOMAIN Units[c] :
         Chunk(d, c, i) \in chunks

\* The types of the tables, and whose contents are published.
TablesOK ==
    /\ source \in [Documents -> Contents]
    /\ \A d \in Documents : source[d] \in ContentsOf(d)
    /\ documents \subseteq Documents
    /\ versions \in [Documents -> SUBSET Contents]
    /\ \A d \in Documents : versions[d] \subseteq ContentsOf(d)
    /\ current \in [Documents -> Contents \cup {Nothing}]
    /\ record \in [Keys -> Version \cup {Nothing}]
    /\ origin \in [Keys -> Version \cup {Nothing}]
    /\ mortgagors \in [Keys -> SUBSET Version]
    /\ edits \in Nat
    /\ faults \in Nat

RunsOK ==
    /\ run \in [Handlers -> Run \cup {Idle}]
    /\ \A h \in Handlers : RunOK(run[h])

PublicationInv ==
    /\ TablesOK
    /\ RunsOK
    /\ ChunksOK
    /\ RecordsWhole
    /\ NoTornFile
-----------------------------------------------------------------------------
(***************************************************************************)
(* What a content is published as.                                         *)
(***************************************************************************)

\* Contents of spreadsheets and of policies are different ones.
LEMMA WhoseContent ==
    /\ \A c \in DOMAIN Workbooks : c \in Contents /\ c \notin DOMAIN Pages
    /\ \A c \in DOMAIN Pages : c \in Contents /\ c \notin DOMAIN Workbooks
    /\ \A d \in Storage : d \in Documents /\ d \notin Policies /\ ContentsOf(d) = DOMAIN Workbooks
    /\ \A d \in Policies : d \in Documents /\ d \notin Storage /\ ContentsOf(d) = DOMAIN Pages
    /\ \A d \in Documents : ContentsOf(d) \subseteq Contents
BY PublicationAssumption DEF Contents, Documents, ContentsOf

\* A content is published as a list.
LEMMA UnitsListed ==
    ASSUME NEW c \in Contents
    PROVE  /\ Units[c] \in Seq(KeysOf(c))
           /\ Len(Units[c]) \in Nat /\ DOMAIN Units[c] = 1..Len(Units[c])
           /\ \A i \in 1..Len(Units[c]) : Units[c][i] \in KeysOf(c)
           /\ KeysOf(c) = {Units[c][i] : i \in DOMAIN Units[c]}
<1>1. CASE c \in DOMAIN Workbooks
  <2>1. Units[c] = StableKeys(Workbooks[c])
    BY <1>1 DEF Units
  <2>2. Workbooks[c] \in Workbook
    BY <1>1, PublicationAssumption
  <2>3. Units[c] \in Seq(KeysOf(c))
    BY <2>1, <2>2, StableKeysListed DEF KeysOf
  <2> QED BY <2>3, LenProperties, ElementOfSeq DEF KeysOf, ToSet
<1>2. CASE c \notin DOMAIN Workbooks
  <2>1. Units[c] = Chunks(Pages[c])
    BY <1>2 DEF Units
  <2>2. Pages[c] \in Page
    BY <1>2, PublicationAssumption DEF Contents
  <2>3. Units[c] \in Seq(KeysOf(c))
    BY <2>1, <2>2, PageChunks DEF KeysOf
  <2> QED BY <2>3, LenProperties, ElementOfSeq DEF KeysOf, ToSet
<1> QED BY <1>1, <1>2

\* Every chunk gets the vector of its own text, or the page gets none.
LEMMA VectorsAreUnits ==
    ASSUME NEW c \in DOMAIN Pages, NEW vectors \in Vectors[c]
    PROVE  vectors = Units[c]
<1>1. c \in Contents
  BY WhoseContent
<1>2. Units[c] \in Seq(KeysOf(c))
  BY <1>1, UnitsListed
<1>3. Embeddings(Units[c]) \subseteq {Units[c]}
  BY <1>2, EmbeddingsInOrder
<1> QED BY <1>3 DEF Vectors

\* The keys of a file are keys of the catalogue.
LEMMA KeysThere ==
    ASSUME NEW c \in DOMAIN Workbooks
    PROVE  KeysOf(c) \subseteq Keys
BY DEF Keys

LEMMA NothingIsNoVersion ==
    /\ Nothing \notin Version
    /\ Nothing \notin Contents
BY PublicationAssumption DEF Version
-----------------------------------------------------------------------------
(***************************************************************************)
(* The invariant.                                                          *)
(***************************************************************************)

\* A version, once published, stays, and so does a record.
Grows ==
    /\ \A d \in Documents : versions[d] \subseteq versions'[d]
    /\ \A k \in Keys : record[k] # Nothing => record'[k] # Nothing

\* What another handler may rely on is still so after a step.
LEMMA OthersKeep ==
    ASSUME NEW r, RunOK(r), Grows
    PROVE  RunOK(r)'
<1>1. CASE r = Idle
  BY <1>1 DEF RunOK
<1>2. CASE r # Idle
  <2>1. r \in Run /\ r.step # "idle" /\ r.content \in ContentsOf(r.doc)
    BY <1>2 DEF RunOK
  <2>2. r.doc \in Documents
    BY <2>1 DEF Run
  <2>3. r.content \in versions[r.doc] => r.content \in versions'[r.doc]
    BY <2>2 DEF Grows
  <2>4. ASSUME r.doc \in Storage, RowsThere(r.content)
        PROVE  RowsThere(r.content)'
    <3>1. KeysOf(r.content) \subseteq Keys
      BY <2>1, <2>4, WhoseContent, KeysThere
    <3> QED BY <2>4, <3>1 DEF RowsThere, Grows
  <2> HIDE DEF RowsThere
  <2> QED BY <1>2, <2>3, <2>4 DEF RunOK
<1> QED BY <1>1, <1>2

\* A step of one handler: the others keep what they rely on.
LEMMA OneRun ==
    ASSUME RunsOK, NEW h \in Handlers, NEW r, r \in Run \cup {Idle}, RunOK(r)',
           run' = [run EXCEPT ![h] = r], Grows
    PROVE  RunsOK'
<1>1. run' \in [Handlers -> Run \cup {Idle}]
  BY DEF RunsOK
<1>2. ASSUME NEW g \in Handlers
      PROVE  RunOK(run[g])'
  <2>1. CASE g = h
    <3>1. run'[g] = r
      BY <2>1 DEF RunsOK
    <3> QED BY <3>1
  <2>2. CASE g # h
    <3>1. run'[g] = run[g]
      BY <2>2 DEF RunsOK
    <3>2. RunOK(run[g])
      BY DEF RunsOK
    <3> DEFINE s == run[g]
    <3> QED BY <3>1, <3>2, OthersKeep
  <2> QED BY <2>1, <2>2
<1> QED BY <1>1, <1>2 DEF RunsOK

\* What a record may come from stays, and is no empty entry.
LEMMA SourcesKept ==
    ASSUME Grows, NEW k \in Keys
    PROVE  Sources(k) \subseteq Sources(k)' /\ Nothing \notin Sources(k)
<1>1. \A d \in Storage : versions[d] \subseteq versions'[d]
  BY WhoseContent DEF Grows
<1>2. ASSUME NEW v \in Sources(k)
      PROVE  v \in Version /\ v[1] \in Storage /\ v[2] \in versions'[v[1]] /\ k \in KeysOf(v[2])
  BY <1>1 DEF Sources
<1>3. Sources(k) \subseteq Sources(k)'
  BY <1>2 DEF Sources, Version
<1> QED BY <1>3, NothingIsNoVersion DEF Sources

\* The records are left alone.
LEMMA RecordsKept ==
    ASSUME RecordsWhole, Grows, UNCHANGED <<record, origin, mortgagors>>
    PROVE  RecordsWhole'
<1> SUFFICES ASSUME NEW k \in Keys
             PROVE  \/ record'[k] = Nothing /\ origin'[k] = Nothing /\ mortgagors'[k] = {}
                    \/ /\ mortgagors'[k] = {record'[k]}
                       /\ {record'[k], origin'[k]} \subseteq Sources(k)'
  BY DEF RecordsWhole
<1>1. Sources(k) \subseteq Sources(k)'
  BY SourcesKept
<1>2. \/ record[k] = Nothing /\ origin[k] = Nothing /\ mortgagors[k] = {}
      \/ mortgagors[k] = {record[k]} /\ {record[k], origin[k]} \subseteq Sources(k)
  BY DEF RecordsWhole
<1> QED BY <1>1, <1>2

\* The tables are left alone.
LEMMA TablesKept ==
    ASSUME PublicationInv, UNCHANGED tables
    PROVE  Grows /\ ChunksOK' /\ RecordsWhole' /\ NoTornFile'
<1>1. Grows
  BY DEF tables, Grows
<1>2. ChunksOK'
  BY DEF PublicationInv, ChunksOK, tables
<1>3. RecordsWhole'
  BY <1>1, RecordsKept DEF PublicationInv, tables
<1>4. NoTornFile'
  BY DEF PublicationInv, NoTornFile, tables
<1> QED BY <1>1, <1>2, <1>3, <1>4

\* A handler that is not idle has a job.
LEMMA HasJob ==
    ASSUME RunsOK, NEW h \in Handlers, ~At(h, "idle")
    PROVE  /\ run[h] \in Run /\ run[h].doc \in Documents /\ run[h].content \in Contents
           /\ RunOK(run[h]) /\ run[h] # Idle
<1>1. run[h] \in Run \cup {Idle} /\ RunOK(run[h])
  BY DEF RunsOK
<1>2. run[h] # Idle
  BY DEF At, Idle
<1>3. run[h] \in Run
  BY <1>1, <1>2
<1>4. run[h].doc \in Documents /\ run[h].content \in Contents
  BY <1>3 DEF Run
<1> QED BY <1>1, <1>2, <1>3, <1>4

\* A handler goes idle.
LEMMA Stopped ==
    ASSUME PublicationInv, NEW h \in Handlers, run' = [run EXCEPT ![h] = Idle],
           UNCHANGED <<source, tables, edits>>, faults' \in Nat
    PROVE  PublicationInv'
<1>1. Grows /\ ChunksOK' /\ RecordsWhole' /\ NoTornFile'
  BY TablesKept
<1>2. RunOK(Idle)'
  BY DEF RunOK
<1>3. RunsOK'
  BY <1>1, <1>2, OneRun DEF PublicationInv
<1>4. TablesOK'
  BY DEF PublicationInv, TablesOK, tables
<1> QED BY <1>1, <1>3, <1>4 DEF PublicationInv

\* A handler goes on with what it may already rely on.
LEMMA Carried ==
    ASSUME RunsOK, NEW h \in Handlers, NEW r \in Run, RunOK(r),
           run' = [run EXCEPT ![h] = r], Grows
    PROVE  RunsOK'
<1>1. RunOK(r)'
  BY OthersKeep
<1> QED BY <1>1, OneRun

\* The tables are left alone, too.
LEMMA Moved ==
    ASSUME PublicationInv, NEW h \in Handlers, NEW r \in Run, RunOK(r),
           run' = [run EXCEPT ![h] = r], UNCHANGED <<source, tables, edits, faults>>
    PROVE  PublicationInv'
<1>1. Grows /\ ChunksOK' /\ RecordsWhole' /\ NoTornFile'
  BY TablesKept
<1>3. RunsOK'
  BY <1>1, Carried DEF PublicationInv
<1>4. TablesOK'
  BY DEF PublicationInv, TablesOK, tables
<1> QED BY <1>1, <1>3, <1>4 DEF PublicationInv

LEMMA InitOK ==
    ASSUME Init
    PROVE  PublicationInv
<1>1. TablesOK
  BY WhoseContent DEF Init, TablesOK
<1>2. RunsOK
  BY DEF Init, RunsOK, RunOK
<1>3. ChunksOK
  BY WhoseContent DEF Init, ChunksOK
<1>4. RecordsWhole
  BY DEF Init, RecordsWhole
<1>5. NoTornFile
  BY NothingIsNoVersion, WhoseContent DEF Init, NoTornFile, Version
<1> QED BY <1>1, <1>2, <1>3, <1>4, <1>5 DEF PublicationInv

LEMMA BeginOK ==
    ASSUME PublicationInv, NEW h \in Handlers, Begin(h)
    PROVE  PublicationInv'
<1>1. PICK d \in Documents, force \in BOOLEAN :
        /\ d \in Policies => Units[source[d]] # <<>>
        /\ \E vectors \in IF d \in Policies THEN Vectors[source[d]] ELSE {<<>>} :
             run' = [run EXCEPT ![h] =
               [step |-> "fetched", doc |-> d, content |-> source[d], force |-> force,
                existing |-> FALSE, created |-> FALSE, written |-> 0,
                vectors |-> vectors]]
  BY DEF Begin
<1>2. PICK vectors \in IF d \in Policies THEN Vectors[source[d]] ELSE {<<>>} :
             run' = [run EXCEPT ![h] =
               [step |-> "fetched", doc |-> d, content |-> source[d], force |-> force,
                existing |-> FALSE, created |-> FALSE, written |-> 0,
                vectors |-> vectors]]
  BY <1>1
<1> DEFINE c == source[d]
           r == [step |-> "fetched", doc |-> d, content |-> c, force |-> force,
                 existing |-> FALSE, created |-> FALSE, written |-> 0,
                 vectors |-> vectors]
           V == UNION {KeysOf(x) : x \in DOMAIN Pages}
<1>3. c \in ContentsOf(d) /\ c \in Contents
  BY WhoseContent DEF PublicationInv, TablesOK
<1>4. d \in Policies => vectors = Units[c]
  BY <1>2, <1>3, WhoseContent, VectorsAreUnits
<1>5. vectors \in Seq(V)
  <2>1. CASE d \in Policies
    <3>1. c \in DOMAIN Pages
      BY <1>3, <2>1, WhoseContent
    <3>2. KeysOf(c) \subseteq V
      BY <3>1
    <3>3. vectors \in Seq(KeysOf(c))
      BY <1>3, <1>4, <2>1, UnitsListed
    <3> HIDE DEF V
    <3> QED BY <3>2, <3>3, SeqMonotonic
  <2>2. CASE d \notin Policies
    BY <1>2, <2>2
  <2> QED BY <2>1, <2>2
<1>6. Len(Units[c]) \in Nat
  BY <1>3, UnitsListed
<1>7. r \in Run
  BY <1>3, <1>5 DEF Run, Steps
<1>8. RunOK(r)
  BY <1>1, <1>3, <1>4, <1>6, <1>7 DEF RunOK
<1>9. run' = [run EXCEPT ![h] = r]
  BY <1>2
<1> HIDE DEF r
<1> QED BY <1>7, <1>8, <1>9, Moved DEF Begin

\* The same handler run, further on.
LEMMA EnsureDocumentOK ==
    ASSUME PublicationInv, NEW h \in Handlers, EnsureDocument(h)
    PROVE  PublicationInv'
<1>1. /\ run[h] \in Run /\ run[h].doc \in Documents /\ RunOK(run[h]) /\ run[h] # Idle
      /\ run[h].step = "fetched"
  BY HasJob DEF EnsureDocument, At, PublicationInv
<1> DEFINE r == [run[h] EXCEPT !.step = "ensured"]
<1>2. r \in Run /\ RunOK(r)
  BY <1>1 DEF Run, Steps, RunOK
<1>3. run' = [run EXCEPT ![h] = r]
  BY DEF EnsureDocument, Goto
<1>4. Grows
  BY DEF EnsureDocument, Grows
<1> HIDE DEF r
<1>6. RunsOK'
  BY <1>2, <1>3, <1>4, Carried DEF PublicationInv
<1>7. TablesOK'
  BY <1>1 DEF EnsureDocument, PublicationInv, TablesOK
<1>8. ChunksOK' /\ RecordsWhole' /\ NoTornFile'
  BY <1>4, RecordsKept DEF EnsureDocument, PublicationInv, ChunksOK, NoTornFile
<1> QED BY <1>6, <1>7, <1>8 DEF PublicationInv

LEMMA FindVersionOK ==
    ASSUME PublicationInv, NEW h \in Handlers, FindVersion(h)
    PROVE  PublicationInv'
<1>1. /\ run[h] \in Run /\ run[h].doc \in Documents /\ RunOK(run[h]) /\ run[h] # Idle
      /\ run[h].step = "ensured"
  BY HasJob DEF FindVersion, At, PublicationInv
<1>0. PICK e \in BOOLEAN : e = (run[h].content \in versions[run[h].doc])
  <2> DEFINE b == run[h].content \in versions[run[h].doc]
  <2>1. b \in BOOLEAN
    OBVIOUS
  <2> HIDE DEF b
  <2>2. \E e \in BOOLEAN : e = b
    BY <2>1
  <2> QED BY <2>2 DEF b
<1> DEFINE r == [run[h] EXCEPT !.step = "found", !.existing = e]
<1>2. r \in Run
  BY <1>1 DEF Run, Steps
<1>3. RunOK(r)
  BY <1>0, <1>1, <1>2 DEF Run, RunOK
<1>4. run' = [run EXCEPT ![h] = r]
  BY <1>0 DEF FindVersion
<1> HIDE DEF r
<1> QED BY <1>2, <1>3, <1>4, Moved DEF FindVersion

LEMMA ReturnUnchangedOK ==
    ASSUME PublicationInv, NEW h \in Handlers, ReturnUnchanged(h)
    PROVE  PublicationInv'
<1>1. /\ run[h] \in Run /\ run[h].doc \in Documents /\ RunOK(run[h]) /\ run[h] # Idle
      /\ run[h].step = "found" /\ run[h].existing /\ run[h].doc \in Policies
  BY HasJob DEF ReturnUnchanged, Unchanged, At, PublicationInv
<1> DEFINE r == [run[h] EXCEPT !.step = "returned"]
<1>2. r \in Run
  BY <1>1 DEF Run, Steps
<1>3. RunOK(r)
  BY <1>1, <1>2, WhoseContent DEF Run, RunOK
<1>4. run' = [run EXCEPT ![h] = r]
  BY DEF ReturnUnchanged, Goto
<1> HIDE DEF r
<1> QED BY <1>2, <1>3, <1>4, Moved DEF ReturnUnchanged

LEMMA RepublishRowsOK ==
    ASSUME PublicationInv, NEW h \in Handlers, RepublishRows(h)
    PROVE  PublicationInv'
<1>1. /\ run[h] \in Run /\ run[h].doc \in Documents /\ RunOK(run[h]) /\ run[h] # Idle
      /\ run[h].step = "found" /\ run[h].existing /\ run[h].doc \in Storage
  BY HasJob DEF RepublishRows, Unchanged, At, PublicationInv
<1> DEFINE r == [run[h] EXCEPT !.step = "rows"]
<1>2. r \in Run
  BY <1>1 DEF Run, Steps
<1>3. RunOK(r)
  BY <1>1, <1>2 DEF Run, RunOK
<1>4. run' = [run EXCEPT ![h] = r]
  BY DEF RepublishRows, Goto
<1> HIDE DEF r
<1> QED BY <1>2, <1>3, <1>4, Moved DEF RepublishRows

LEMMA InsertVersionOK ==
    ASSUME PublicationInv, NEW h \in Handlers, InsertVersion(h)
    PROVE  PublicationInv'
<1>1. /\ run[h] \in Run /\ run[h].doc \in Documents /\ RunOK(run[h]) /\ run[h] # Idle
      /\ run[h].step = "found" /\ Units[run[h].content] # <<>>
  BY HasJob DEF InsertVersion, At, PublicationInv
<1>0. PICK e \in BOOLEAN : e = (run[h].content \notin versions[run[h].doc])
  OBVIOUS
<1> DEFINE r == [run[h] EXCEPT !.step = "inserted", !.created = e]
<1>2. r \in Run
  BY <1>1 DEF Run, Steps
<1>3. RunOK(r)
  BY <1>0, <1>1, <1>2 DEF Run, RunOK
<1>4. run' = [run EXCEPT ![h] = r]
  BY <1>0 DEF InsertVersion
<1> HIDE DEF r
<1> QED BY <1>2, <1>3, <1>4, Moved DEF InsertVersion

LEMMA UpsertRowOK ==
    ASSUME PublicationInv, NEW h \in Handlers, UpsertRow(h)
    PROVE  PublicationInv'
<1>1. /\ run[h] \in Run /\ run[h].content \in Contents /\ RunOK(run[h]) /\ run[h] # Idle
      /\ run[h].step = "rows" /\ run[h].written < Len(Units[run[h].content])
  BY HasJob DEF UpsertRow, At, PublicationInv
<1> DEFINE r == [run[h] EXCEPT !.written = @ + 1]
<1>2. Len(Units[run[h].content]) \in Nat /\ run[h].written \in Nat
  BY <1>1, UnitsListed DEF Run
<1>3. r \in Run
  BY <1>1, <1>2 DEF Run
<1>4. RunOK(r)
  BY <1>1, <1>2, <1>3 DEF Run, RunOK
<1>5. run' = [run EXCEPT ![h] = r]
  BY DEF UpsertRow
<1> HIDE DEF r
<1> QED BY <1>3, <1>4, <1>5, Moved DEF UpsertRow

LEMMA StoppedOK ==
    ASSUME PublicationInv, NEW h \in Handlers,
           Finish(h) \/ NoRows(h) \/ Abort(h) \/ DeadlockVictim(h)
    PROVE  PublicationInv'
<1>1. run' = [run EXCEPT ![h] = Idle] /\ UNCHANGED <<source, tables, edits>>
  BY DEF Finish, NoRows, Abort, DeadlockVictim
<1>2. faults' \in Nat
  BY DEF Finish, NoRows, Abort, DeadlockVictim, PublicationInv, TablesOK
<1> QED BY <1>1, <1>2, Stopped

LEMMA EditOK ==
    ASSUME PublicationInv, NEW d \in Documents, Edit(d)
    PROVE  PublicationInv'
<1>1. Grows /\ ChunksOK' /\ RecordsWhole' /\ NoTornFile'
  BY TablesKept DEF Edit
<1>2. RunsOK'
  <2>1. ASSUME NEW g \in Handlers
        PROVE  RunOK(run[g])'
    BY <1>1, OthersKeep DEF PublicationInv, RunsOK, Edit
  <2> QED BY <2>1 DEF PublicationInv, RunsOK, Edit
<1>3. TablesOK'
  <2>1. PICK c \in ContentsOf(d) \ {source[d]} : source' = [source EXCEPT ![d] = c]
    BY DEF Edit
  <2>2. c \in Contents
    BY WhoseContent
  <2> QED BY <2>1, <2>2 DEF PublicationInv, TablesOK, Edit, tables
<1> QED BY <1>1, <1>2, <1>3 DEF PublicationInv

\* The handlers that raced to insert a version, or one of them: whoever did not
\* create it finds it there, with the same chunks.
LEMMA CommitVersionOK ==
    ASSUME PublicationInv, NEW h \in Handlers, CommitVersion(h)
    PROVE  PublicationInv'
<1>1. PICK d \in Documents, c \in Contents : d = run[h].doc /\ c = run[h].content
  <2>1. run[h].doc \in Documents /\ run[h].content \in Contents
    BY HasJob DEF CommitVersion, VersionCommitted, At, PublicationInv
  <2> QED BY <2>1
<1>2. /\ run[h] \in Run /\ RunOK(run[h]) /\ run[h] # Idle
      /\ run[h].step = "inserted"
  BY HasJob DEF CommitVersion, VersionCommitted, At, PublicationInv
<1>3. /\ versions' = [versions EXCEPT ![d] = @ \cup {c}]
      /\ chunks' = IF run[h].created /\ d \in Policies
                   THEN chunks \cup
                        {[version |-> <<d, c>>, index |-> i,
                          text |-> Units[c][i], vector |-> run[h].vectors[i]] :
                         i \in DOMAIN Units[c]}
                   ELSE chunks
      /\ run' = [run EXCEPT ![h].step = IF d \in Storage THEN "rows" ELSE "returned"]
      /\ current' = [current EXCEPT ![d] = c]
      /\ UNCHANGED <<source, documents, record, origin, mortgagors, edits, faults>>
  BY <1>1 DEF CommitVersion, VersionCommitted, Goto
<1>4. /\ c \in ContentsOf(d)
      /\ d \in Policies => run[h].vectors = Units[c]
      /\ run[h].created \/ c \in versions[d]
      /\ Units[c] # <<>>
  BY <1>1, <1>2 DEF RunOK
<1>5. \A e \in Documents : versions'[e] = IF e = d THEN versions[d] \cup {c} ELSE versions[e]
  BY <1>3 DEF PublicationInv, TablesOK
<1>6. Grows
  BY <1>3, <1>5 DEF Grows
<1>7. RunsOK'
  <2>1. PICK r : r = [run[h] EXCEPT !.step = IF d \in Storage THEN "rows" ELSE "returned"]
    OBVIOUS
  <2>2. r \in Run
    BY <1>2, <2>1 DEF Run, Steps
  <2>3. c \in versions'[d]
    BY <1>5
  <2>4. RunOK(r)'
    BY <1>1, <1>2, <1>4, <2>1, <2>2, <2>3 DEF Run, RunOK
  <2>5. run' = [run EXCEPT ![h] = r]
    BY <1>3, <2>1
  <2> QED BY <1>6, <2>2, <2>4, <2>5, OneRun DEF PublicationInv
<1>8. TablesOK'
  <2>1. versions' \in [Documents -> SUBSET Contents]
    BY <1>3 DEF PublicationInv, TablesOK
  <2>2. \A e \in Documents : versions'[e] \subseteq ContentsOf(e)
    BY <1>4, <1>5 DEF PublicationInv, TablesOK
  <2>3. current' \in [Documents -> Contents \cup {Nothing}]
    BY <1>3 DEF PublicationInv, TablesOK
  <2> QED BY <1>3, <2>1, <2>2, <2>3 DEF PublicationInv, TablesOK
\* The chunks before the step, for the versions after it.
<1>9. \A x \in chunks : \E e \in Policies : \E b \in versions'[e] : \E i \in DOMAIN Units[b] :
        x = Chunk(e, b, i)
  <2> SUFFICES ASSUME NEW x \in chunks
               PROVE  \E e \in Policies : \E b \in versions'[e] : \E i \in DOMAIN Units[b] :
                        x = Chunk(e, b, i)
    OBVIOUS
  <2>1. PICK e \in Policies : \E b \in versions[e] : \E i \in DOMAIN Units[b] :
          x = Chunk(e, b, i)
    BY DEF PublicationInv, ChunksOK
  <2>2. versions[e] \subseteq versions'[e]
    BY <1>6, <2>1, WhoseContent DEF Grows
  <2> QED BY <2>1, <2>2
<1>10. \A e \in Policies : \A b \in versions'[e] : b \in versions[e] \/ (e = d /\ b = c)
  BY <1>5, WhoseContent
<1>11. ChunksOK'
  <2>1. CASE run[h].created /\ d \in Policies
    <3>1. chunks' = chunks \cup {Chunk(d, c, i) : i \in DOMAIN Units[c]}
      BY <1>3, <1>4, <2>1 DEF Chunk
    <3>2. c \in versions'[d]
      BY <1>5
    <3>3. \A x \in chunks' : \E e \in Policies : \E b \in versions'[e] : \E i \in DOMAIN Units[b] :
            x = Chunk(e, b, i)
      BY <1>9, <2>1, <3>1, <3>2
    <3>4. \A e \in Policies : \A b \in versions'[e] : \A i \in DOMAIN Units[b] :
            Chunk(e, b, i) \in chunks'
      BY <1>10, <3>1 DEF PublicationInv, ChunksOK
    <3>5. \A e, b, i : Chunk(e, b, i)' = Chunk(e, b, i)
      BY DEF Chunk
    <3> HIDE DEF Chunk
    <3> QED BY <3>3, <3>4, <3>5 DEF ChunksOK
  <2>2. CASE ~(run[h].created /\ d \in Policies)
    <3>1. chunks' = chunks
      BY <1>3, <2>2
    <3>2. d \in Policies => c \in versions[d]
      BY <1>4, <2>2
    <3>3. \A e \in Policies : \A b \in versions'[e] : \A i \in DOMAIN Units[b] :
            Chunk(e, b, i) \in chunks'
      BY <1>10, <3>1, <3>2 DEF PublicationInv, ChunksOK
    <3>4. \A e, b, i : Chunk(e, b, i)' = Chunk(e, b, i)
      BY DEF Chunk
    <3> HIDE DEF Chunk
    <3> QED BY <1>9, <3>1, <3>3, <3>4 DEF ChunksOK
  <2> QED BY <2>1, <2>2
<1>12. RecordsWhole'
  BY <1>3, <1>6, RecordsKept DEF PublicationInv
<1>13. NoTornFile'
  BY <1>3 DEF PublicationInv, NoTornFile
<1> QED BY <1>7, <1>8, <1>11, <1>12, <1>13 DEF PublicationInv

\* The rows of a file, in one transaction.
LEMMA CommitRowsOK ==
    ASSUME PublicationInv, NEW h \in Handlers, CommitRows(h)
    PROVE  PublicationInv'
<1>1. PICK d \in Documents, c \in Contents : d = run[h].doc /\ c = run[h].content
  <2>1. run[h].doc \in Documents /\ run[h].content \in Contents
    BY HasJob DEF CommitRows, At, PublicationInv
  <2> QED BY <2>1
<1>2. /\ run[h] \in Run /\ RunOK(run[h]) /\ run[h] # Idle
      /\ run[h].step = "rows"
  BY HasJob DEF CommitRows, At, PublicationInv
<1> DEFINE v == <<d, c>>
<1>3. /\ record' = [k \in Keys |-> IF k \in KeysOf(c) THEN v ELSE record[k]]
      /\ origin' = [k \in Keys |-> IF k \in KeysOf(c) /\ record[k] = Nothing THEN v
                                  ELSE origin[k]]
      /\ mortgagors' = [k \in Keys |-> IF k \in KeysOf(c) THEN {v} ELSE mortgagors[k]]
      /\ run' = [run EXCEPT ![h].step = "returned"]
      /\ UNCHANGED <<source, documents, versions, chunks, current, edits, faults>>
  BY <1>1 DEF CommitRows, RowsUpserted, Goto
<1>4. d \in Storage /\ c \in versions[d] /\ c \in DOMAIN Workbooks
  BY <1>1, <1>2, WhoseContent DEF RunOK
<1>5. v \in Version /\ v # Nothing
  BY NothingIsNoVersion DEF Version
<1>6. KeysOf(c) \subseteq Keys
  BY <1>4, KeysThere
<1>7. Grows
  BY <1>3, <1>5 DEF Grows
<1>8. RunsOK'
  <2>1. PICK r : r = [run[h] EXCEPT !.step = "returned"]
    OBVIOUS
  <2>2. r \in Run
    BY <1>2, <2>1 DEF Run, Steps
  <2>3. RowsThere(c)'
    BY <1>3, <1>5, <1>6 DEF RowsThere
  <2>4. c \in versions'[d]
    BY <1>3, <1>4
  <2>5. RunOK(r)'
    <3>1. r.content = c /\ r.doc = d /\ r.step = "returned"
      BY <1>1, <1>2, <2>1 DEF Run
    <3> HIDE DEF RowsThere
    <3> QED BY <1>1, <1>2, <2>1, <2>2, <2>3, <2>4, <3>1 DEF Run, RunOK
  <2>6. run' = [run EXCEPT ![h] = r]
    BY <1>3, <2>1
  <2> QED BY <1>7, <2>2, <2>5, <2>6, OneRun DEF PublicationInv
<1>9. TablesOK'
  <2>1. /\ record' \in [Keys -> Version \cup {Nothing}]
        /\ origin' \in [Keys -> Version \cup {Nothing}]
        /\ mortgagors' \in [Keys -> SUBSET Version]
    BY <1>3, <1>5 DEF PublicationInv, TablesOK
  <2> QED BY <1>3, <2>1 DEF PublicationInv, TablesOK
<1>10. ChunksOK'
  BY <1>3 DEF PublicationInv, ChunksOK, Chunk
<1>11. RecordsWhole'
  <2> SUFFICES ASSUME NEW k \in Keys
               PROVE  \/ record'[k] = Nothing /\ origin'[k] = Nothing /\ mortgagors'[k] = {}
                      \/ /\ mortgagors'[k] = {record'[k]}
                         /\ {record'[k], origin'[k]} \subseteq Sources(k)'
    BY DEF RecordsWhole
  <2>1. Sources(k) \subseteq Sources(k)'
    BY <1>7, SourcesKept
  <2>2. \/ record[k] = Nothing /\ origin[k] = Nothing /\ mortgagors[k] = {}
        \/ mortgagors[k] = {record[k]} /\ {record[k], origin[k]} \subseteq Sources(k)
    BY DEF PublicationInv, RecordsWhole
  <2>3. CASE k \in KeysOf(c)
    <3>1. v \in Sources(k)
      BY <1>4, <1>5, <2>3 DEF Sources
    <3>2. /\ record'[k] = v /\ mortgagors'[k] = {v}
          /\ origin'[k] = IF record[k] = Nothing THEN v ELSE origin[k]
      BY <1>3, <2>3
    <3> HIDE DEF v
    <3> QED BY <2>1, <2>2, <3>1, <3>2
  <2>4. CASE k \notin KeysOf(c)
    BY <1>3, <2>1, <2>2, <2>4
  <2> QED BY <2>3, <2>4
<1>12. NoTornFile'
  <2> SUFFICES ASSUME NEW k \in Keys, NEW l \in Keys, NEW e \in Storage,
                      NEW b \in DOMAIN Workbooks,
                      record'[k] = <<e, b>>, l \in KeysOf(b)
               PROVE  record'[l] # Nothing
    BY DEF NoTornFile
  <2>1. CASE l \in KeysOf(c)
    BY <1>3, <1>5, <2>1
  <2>2. CASE l \notin KeysOf(c)
    <3>1. k \notin KeysOf(c)
      BY <1>3, <2>2
    <3>2. record[k] = <<e, b>> /\ record'[l] = record[l]
      BY <1>3, <2>2, <3>1
    <3> QED BY <3>2 DEF PublicationInv, NoTornFile
  <2> QED BY <2>1, <2>2
<1> QED BY <1>8, <1>9, <1>10, <1>11, <1>12 DEF PublicationInv

\* PublicationInv is inductive.
THEOREM PublicationInductive == Spec => []PublicationInv
<1>1. Init => PublicationInv
  BY InitOK
<1>2. PublicationInv /\ [Next]_vars => PublicationInv'
  <2> SUFFICES ASSUME PublicationInv, [Next]_vars
               PROVE  PublicationInv'
    OBVIOUS
  <2>1. CASE UNCHANGED vars
    <3>1. Grows /\ ChunksOK' /\ RecordsWhole' /\ NoTornFile'
      BY <2>1, TablesKept DEF vars
    <3>2. TablesOK'
      BY <2>1 DEF PublicationInv, TablesOK, vars, tables
    <3>3. RunsOK'
      <4>1. run' = run
        BY <2>1 DEF vars
      <4>2. ASSUME NEW g \in Handlers
            PROVE  RunOK(run[g])'
        BY <3>1, <4>1, OthersKeep DEF PublicationInv, RunsOK
      <4> QED BY <4>1, <4>2 DEF PublicationInv, RunsOK
    <3> QED BY <3>1, <3>2, <3>3 DEF PublicationInv
  <2>2. CASE \E h \in Handlers : Begin(h) \/ HandlerStep(h) \/ Abort(h) \/ DeadlockVictim(h)
    <3>1. PICK h \in Handlers : Begin(h) \/ HandlerStep(h) \/ Abort(h) \/ DeadlockVictim(h)
      BY <2>2
    <3>2. CASE Begin(h)
      BY <3>2, BeginOK
    <3>3. CASE EnsureDocument(h)
      BY <3>3, EnsureDocumentOK
    <3>4. CASE FindVersion(h)
      BY <3>4, FindVersionOK
    <3>5. CASE ReturnUnchanged(h)
      BY <3>5, ReturnUnchangedOK
    <3>6. CASE RepublishRows(h)
      BY <3>6, RepublishRowsOK
    <3>7. CASE InsertVersion(h)
      BY <3>7, InsertVersionOK
    <3>8. CASE CommitVersion(h)
      BY <3>8, CommitVersionOK
    <3>9. CASE UpsertRow(h)
      BY <3>9, UpsertRowOK
    <3>10. CASE CommitRows(h)
      BY <3>10, CommitRowsOK
    <3>11. CASE Finish(h) \/ NoRows(h) \/ Abort(h) \/ DeadlockVictim(h)
      BY <3>11, StoppedOK
    <3> QED BY <3>1, <3>2, <3>3, <3>4, <3>5, <3>6, <3>7, <3>8, <3>9, <3>10, <3>11
            DEF HandlerStep
  <2>3. CASE \E d \in Documents : Edit(d)
    BY <2>3, EditOK
  <2> QED BY <2>1, <2>2, <2>3 DEF Next
<1> QED BY <1>1, <1>2, PTL DEF Spec

-----------------------------------------------------------------------------
(***************************************************************************)
(* What follows from it.                                                   *)
(***************************************************************************)

\* Every variable keeps its type.
THEOREM TypesKept == Spec => []PublicationTypeOK
<1>1. ASSUME PublicationInv
      PROVE  PublicationTypeOK
  <2>1. \A x \in chunks : x.version \in Policies \X DOMAIN Pages /\ x.index \in Nat
    <3> SUFFICES ASSUME NEW x \in chunks
                 PROVE  x.version \in Policies \X DOMAIN Pages /\ x.index \in Nat
      OBVIOUS
    <3>1. PICK d \in Policies : \E c \in versions[d] : \E i \in DOMAIN Units[c] :
            x = Chunk(d, c, i)
      BY <1>1 DEF PublicationInv, ChunksOK
    <3>2. PICK c \in versions[d] : \E i \in DOMAIN Units[c] : x = Chunk(d, c, i)
      BY <3>1
    <3>3. c \in DOMAIN Pages /\ c \in Contents
      BY <1>1, <3>1, <3>2, WhoseContent DEF PublicationInv, TablesOK
    <3>4. PICK i \in DOMAIN Units[c] : x = Chunk(d, c, i)
      BY <3>2
    <3>5. i \in Nat
      BY <3>3, <3>4, UnitsListed
    <3>6. x.version = <<d, c>> /\ x.index = i
      BY <3>4 DEF Chunk
    <3> QED BY <3>3, <3>5, <3>6
  <2>2. \A h \in Handlers : ~At(h, "idle") => run[h].written <= Len(Units[run[h].content])
    BY <1>1, HasJob DEF PublicationInv, RunOK
  <2> QED BY <1>1, <2>1, <2>2 DEF PublicationInv, TablesOK, RunsOK, PublicationTypeOK
<1> QED BY <1>1, PublicationInductive, PTL

\* A record's mortgagors are those of the version that last wrote it, and every column,
\* the ones that the first writer leaves included, is from a published version that has
\* the record.
THEOREM RecordsStayWhole == Spec => []RecordsWhole
<1>1. PublicationInv => RecordsWhole
  BY DEF PublicationInv
<1> QED BY <1>1, PublicationInductive, PTL

\* No file is in the catalogue in part.
THEOREM NoFileIsTorn == Spec => []NoTornFile
<1>1. PublicationInv => NoTornFile
  BY DEF PublicationInv
<1> QED BY <1>1, PublicationInductive, PTL

\* When a handler returns, what it downloaded is published.
THEOREM WhatReturnsIsPublished == Spec => []ReturnedIsPublished
<1>1. ASSUME PublicationInv
      PROVE  ReturnedIsPublished
  <2> SUFFICES ASSUME NEW h \in Handlers, At(h, "returned")
               PROVE  /\ run[h].content \in versions[run[h].doc]
                      /\ run[h].doc \in Storage =>
                           \A k \in KeysOf(run[h].content) : record[k] # Nothing
    BY DEF ReturnedIsPublished
  <2>1. RunOK(run[h]) /\ run[h] # Idle
    BY <1>1, HasJob DEF PublicationInv, At
  <2> QED BY <2>1 DEF RunOK, RowsThere, At
<1> QED BY <1>1, PublicationInductive, PTL

\* The page of chunks 1, 2, ... is the page, where its headings are nested.
LEMMA StoredPage ==
    ASSUME NEW d \in Policies, NEW c \in DOMAIN Pages, Nested(Pages[c]), NEW stored,
           stored = {Chunk(d, c, i) : i \in DOMAIN Units[c]}
    PROVE  IsPage(c, stored)
<1> DEFINE page == Pages[c]
           m == Len(Units[c])
<1>1. c \in Contents /\ page \in Page
  BY WhoseContent, PublicationAssumption
<1>2. /\ m \in Nat /\ DOMAIN Units[c] = 1..m
  BY <1>1, UnitsListed
<1>3. Units[c] = Chunks(page)
  BY WhoseContent DEF Units
<1>4. /\ stored = {Chunk(d, c, i) : i \in 1..m}
      /\ \A i \in 1..m : /\ Chunk(d, c, i).index = i
                         /\ Chunk(d, c, i).text = Units[c][i]
                         /\ Chunk(d, c, i).vector = Units[c][i]
  BY <1>2 DEF Chunk
<1>5. DOMAIN page = 1..Len(page)
  BY <1>1, NodeTyped
<1> HIDE DEF m
\* Every word is in a chunk, under its headings.
<1>6. ASSUME NEW n \in DOMAIN page, IsText(page[n]), NEW w \in 1..page[n].words
      PROVE  \E x \in stored : /\ x.text.node = n /\ w \in x.text.first..x.text.last
                               /\ x.text.path = Sections[c][n]
  <2>1. PICK i \in 1..m : /\ Units[c][i].node = n
                          /\ Units[c][i].first <= w /\ w <= Units[c][i].last
                          /\ Units[c][i].path = Path(page, n)
    BY <1>1, <1>3, <1>5, <1>6, PageChunks DEF m
  <2>2. Path(page, n) = Headings(page, n)
    BY <1>1, <1>5, <1>6, PathIsHeadings
  <2>3. Sections[c][n] = Headings(page, n)
    BY DEF Sections
  <2>4. w \in Units[c][i].first..Units[c][i].last
    BY <2>1
  <2> DEFINE x == Chunk(d, c, i)
  <2>5. x \in stored /\ x.text = Units[c][i]
    BY <1>4
  <2> HIDE DEF x
  <2> QED BY <2>1, <2>2, <2>3, <2>4, <2>5
\* The numbers.
<1>7. {x.index : x \in stored} = 1..Cardinality(stored)
  <2> DEFINE f == [i \in 1..m |-> Chunk(d, c, i)]
  <2>1. f \in [1..m -> stored]
    BY <1>4
  <2>2. \A i \in 1..m : f[i].index = i
    BY <1>4
  <2>3. \A x \in stored : \E i \in 1..m : f[i] = x
    BY <1>4
  <2> HIDE DEF f
  <2>4. Cardinality(stored) = m
    <3>1. \A i, j \in 1..m : f[i] = f[j] => i = j
      BY <2>2
    <3> QED BY <1>2, <2>1, <2>3, <3>1, Counted
  <2>5. {x.index : x \in stored} = 1..m
    BY <2>1, <2>2, <2>3
  <2> QED BY <2>4, <2>5
<1>8. ASSUME NEW x \in stored, NEW y \in stored, x.index < y.index
      PROVE  \/ x.text.node < y.text.node
             \/ x.text.node = y.text.node /\ x.text.first < y.text.first
  <2>1. PICK i \in 1..m : x = Chunk(d, c, i)
    BY <1>4
  <2>2. PICK j \in 1..m : y = Chunk(d, c, j)
    BY <1>4
  <2>3. x.index = i /\ x.text = Units[c][i] /\ y.index = j /\ y.text = Units[c][j]
    BY <1>4, <2>1, <2>2
  <2>4. i < j
    BY <1>8, <2>3
  <2> QED BY <1>1, <1>3, <2>3, <2>4, PageChunks DEF m
<1>9. \A x \in stored : x.vector = x.text
  BY <1>4
<1> QED BY <1>6, <1>7, <1>8, <1>9 DEF IsPage

\* A published version of a policy page is the page, and no chunk belongs to a version
\* that is not published.  The headings of a page have to be nested: where they go from
\* level 1 to level 4 and back to level 3, path[: level - 1] keeps the one of level 4.
THEOREM VersionsStayWhole ==
    ASSUME \A c \in DOMAIN Pages : Nested(Pages[c])
    PROVE  Spec => []VersionsWhole
<1>1. ASSUME PublicationInv
      PROVE  VersionsWhole
  <2> SUFFICES ASSUME NEW d \in Policies, NEW c \in DOMAIN Pages, NEW stored,
                      stored = {x \in chunks : x.version = <<d, c>>}
               PROVE  IF c \in versions[d] THEN IsPage(c, stored) ELSE stored = {}
    BY DEF VersionsWhole
  <2>1. ASSUME NEW x \in stored
        PROVE  c \in versions[d] /\ \E i \in DOMAIN Units[c] : x = Chunk(d, c, i)
    <3>1. PICK e \in Policies : \E b \in versions[e] : \E i \in DOMAIN Units[b] :
            x = Chunk(e, b, i)
      BY <1>1 DEF PublicationInv, ChunksOK
    <3>2. PICK b \in versions[e] : \E i \in DOMAIN Units[b] : x = Chunk(e, b, i)
      BY <3>1
    <3>3. <<e, b>> = <<d, c>>
      BY <3>2 DEF Chunk
    <3>4. e = d /\ b = c
      BY <3>3
    <3> QED BY <3>2, <3>4
  <2>2. CASE c \in versions[d]
    <3>1. \A i \in DOMAIN Units[c] : Chunk(d, c, i) \in stored
      <4>1. \A i \in DOMAIN Units[c] : Chunk(d, c, i) \in chunks
        BY <1>1, <2>2 DEF PublicationInv, ChunksOK
      <4>2. \A i : Chunk(d, c, i).version = <<d, c>>
        BY DEF Chunk
      <4> QED BY <4>1, <4>2
    <3>2. stored = {Chunk(d, c, i) : i \in DOMAIN Units[c]}
      BY <2>1, <3>1
    <3> QED BY <2>2, <3>2, StoredPage
  <2>3. CASE c \notin versions[d]
    BY <2>1, <2>3
  <2> QED BY <2>2, <2>3
<1> QED BY <1>1, PublicationInductive, PTL

-----------------------------------------------------------------------------
(***************************************************************************)
(* Refinement.                                                             *)
(***************************************************************************)

\* Each chunk as PublishedCatalog has it.
Mapped(set) == {<<x.version[1], x.version[2], x.index>> : x \in set}

\* The catalogue's names for what a content is published as.
LEMMA SameKeys ==
    /\ \A c : Catalog!KeysOf(c) = KeysOf(c)
    /\ Catalog!Documents = Documents
BY DEF Catalog!KeysOf, KeysOf, ToSet, Catalog!Documents, Documents

\* A version appears at once: whoever did not insert it adds none of the chunks that
\* are there.
LEMMA CommitVersionPublishes ==
    ASSUME PublicationInv, NEW h \in Handlers, CommitVersion(h)
    PROVE  Catalog!Next
<1>1. PICK d \in Documents, c \in Contents : d = run[h].doc /\ c = run[h].content
  <2>1. run[h].doc \in Documents /\ run[h].content \in Contents
    BY HasJob DEF CommitVersion, VersionCommitted, At, PublicationInv
  <2> QED BY <2>1
<1>2. /\ RunOK(run[h]) /\ run[h] # Idle /\ run[h].step = "inserted"
  BY HasJob DEF CommitVersion, VersionCommitted, At, PublicationInv
<1>3. /\ versions' = [versions EXCEPT ![d] = @ \cup {c}]
      /\ chunks' = IF run[h].created /\ d \in Policies
                   THEN chunks \cup
                        {[version |-> <<d, c>>, index |-> i,
                          text |-> Units[c][i], vector |-> run[h].vectors[i]] :
                         i \in DOMAIN Units[c]}
                   ELSE chunks
      /\ current' = [current EXCEPT ![d] = c]
      /\ UNCHANGED <<record, origin, mortgagors>>
  BY <1>1 DEF CommitVersion, VersionCommitted
<1>4. /\ d \in Policies => run[h].vectors = Units[c]
      /\ run[h].created \/ c \in versions[d]
      /\ Units[c] # <<>>
  BY <1>1, <1>2 DEF RunOK
<1> DEFINE added == {Chunk(d, c, i) : i \in DOMAIN Units[c]}
<1>5. Mapped(added) = {<<d, c, i>> : i \in DOMAIN Units[c]}
  <2>1. \A i \in DOMAIN Units[c] : /\ Chunk(d, c, i).version[1] = d
                                   /\ Chunk(d, c, i).version[2] = c
                                   /\ Chunk(d, c, i).index = i
    BY DEF Chunk
  <2> HIDE DEF Chunk
  <2> QED BY <2>1 DEF Mapped
<1>6. d \in Policies => chunks' = chunks \cup added
  <2>1. CASE run[h].created
    BY <1>3, <1>4, <2>1 DEF Chunk
  <2>2. CASE ~run[h].created
    BY <1>3, <1>4, <2>2 DEF PublicationInv, ChunksOK
  <2> QED BY <2>1, <2>2
<1>7. d \notin Policies => chunks' = chunks
  BY <1>3
<1> HIDE DEF added
<1>8. \A s, t : Mapped(s \cup t) = Mapped(s) \cup Mapped(t)
  BY DEF Mapped
<1>9. Mapped(chunks)' = IF d \in Policies
                        THEN Mapped(chunks) \cup {<<d, c, i>> : i \in DOMAIN Units[c]}
                        ELSE Mapped(chunks)
  <2>1. Mapped(chunks)' = Mapped(chunks')
    BY DEF Mapped
  <2> HIDE DEF Mapped
  <2> QED BY <1>5, <1>6, <1>7, <1>8, <2>1
<1>10. Catalog!PublishVersion(d, c)
  BY <1>3, <1>4, <1>9 DEF Catalog!PublishVersion, Mapped
<1> QED BY <1>10, SameKeys DEF Catalog!Next

\* So do the rows of a file.
LEMMA CommitRowsPuts ==
    ASSUME PublicationInv, NEW h \in Handlers, CommitRows(h)
    PROVE  Catalog!Next
<1>1. PICK d \in Documents, c \in Contents : d = run[h].doc /\ c = run[h].content
  <2>1. run[h].doc \in Documents /\ run[h].content \in Contents
    BY HasJob DEF CommitRows, At, PublicationInv
  <2> QED BY <2>1
<1>2. d \in Storage /\ c \in versions[d]
  BY <1>1, HasJob DEF CommitRows, At, PublicationInv, RunOK
<1>3. /\ record' = [k \in Keys |-> IF k \in KeysOf(c) THEN <<d, c>> ELSE record[k]]
      /\ origin' = [k \in Keys |-> IF k \in KeysOf(c) /\ record[k] = Nothing THEN <<d, c>>
                                  ELSE origin[k]]
      /\ mortgagors' = [k \in Keys |-> IF k \in KeysOf(c) THEN {<<d, c>>} ELSE mortgagors[k]]
      /\ UNCHANGED <<versions, chunks, current>>
  BY <1>1 DEF CommitRows, RowsUpserted
\* A record that nobody has put has no origin.
<1>5. \A k \in Keys : record[k] = Nothing <=> origin[k] = Nothing
  BY NothingIsNoVersion DEF PublicationInv, RecordsWhole, Sources
<1>4. Catalog!PutRows(d, c)
  BY <1>2, <1>3, <1>5, SameKeys DEF Catalog!PutRows
<1> QED BY <1>2, <1>4 DEF Catalog!Next

\* Nothing else that a handler does is seen in the catalogue.
LEMMA OthersStutter ==
    ASSUME UNCHANGED <<versions, chunks, current, record, origin, mortgagors>>
    PROVE  UNCHANGED Catalog!vars
BY DEF Catalog!vars

\* Publication implements PublishedCatalog: each of the two transactions of a handler
\* happens at once or not at all, for whoever reads the catalogue.
THEOREM CatalogImplemented == Spec => ImplementsCatalog
<1>1. Init => Catalog!Init
  <2>1. ASSUME Init
        PROVE  Mapped(chunks) = {}
    BY <2>1 DEF Init, Mapped
  <2> QED BY <2>1, SameKeys DEF Init, Catalog!Init, Mapped
<1>2. PublicationInv /\ [Next]_vars => [Catalog!Next]_(Catalog!vars)
  <2> SUFFICES ASSUME PublicationInv, [Next]_vars
               PROVE  Catalog!Next \/ UNCHANGED Catalog!vars
    OBVIOUS
  <2>1. CASE UNCHANGED vars
    BY <2>1, OthersStutter DEF vars, tables
  <2>2. CASE \E h \in Handlers : Begin(h) \/ HandlerStep(h) \/ Abort(h) \/ DeadlockVictim(h)
    <3>1. PICK h \in Handlers : Begin(h) \/ HandlerStep(h) \/ Abort(h) \/ DeadlockVictim(h)
      BY <2>2
    <3>2. CASE CommitVersion(h)
      BY <3>2, CommitVersionPublishes
    <3>3. CASE CommitRows(h)
      BY <3>3, CommitRowsPuts
    <3>4. CASE ~CommitVersion(h) /\ ~CommitRows(h)
      <4>1. UNCHANGED <<versions, chunks, current, record, origin, mortgagors>>
        BY <3>1, <3>4 DEF HandlerStep, Begin, EnsureDocument, FindVersion, ReturnUnchanged,
           RepublishRows, InsertVersion, UpsertRow, Finish, NoRows, Abort, DeadlockVictim, tables
      <4> QED BY <4>1, OthersStutter
    <3> QED BY <3>2, <3>3, <3>4
  <2>3. CASE \E d \in Documents : Edit(d)
    BY <2>3, OthersStutter DEF Edit, tables
  <2> QED BY <2>1, <2>2, <2>3 DEF Next
<1> QED BY <1>1, <1>2, PublicationInductive, PTL DEF Spec, ImplementsCatalog, Catalog!Spec

=============================================================================
