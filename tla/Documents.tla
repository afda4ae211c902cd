----------------------------- MODULE Documents -----------------------------
(***************************************************************************)
(* What the bytes of a source become before they are published: the rows   *)
(* of a workbook and their stable keys (parsers/xlsx.py,                   *)
(* ingestion/auction_rows.py), the chunks of a page (parsers/html.py,      *)
(* ingestion/chunking.py), and a vector for each chunk (llm/embeddings.py, *)
(* llm/openai.py).                                                         *)
(***************************************************************************)
EXTENDS Chunking, Sequences, FiniteSets, SequencesExt

CONSTANTS
    MaxBatch   \* max_batch_size of the embedding provider

ASSUME BatchAssumption == MaxBatch \in Nat \ {0}

\* 1, 2, ..., n
UpTo(n) == [i \in 1..n |-> i]

\* Those of them that are in S.
Those(S, n) == FoldLeft(LAMBDA list, i : IF i \in S THEN Append(list, i) ELSE list,
                        <<>>, UpTo(n))

(***************************************************************************)
(* XlsxParser.parse and build_publishable_rows.  A sheet has a title (as   *)
(* normalize_search_text leaves it), a header that is valid or not, and    *)
(* rows: blank ones, anonymous ones (no address, trustee, mortgagor or     *)
(* id), unreadable ones (a name, an address or an amount that the          *)
(* normalization refuses), and otherwise the identity of the row.          *)
(***************************************************************************)
Workbook == Seq([title : STRING, header : BOOLEAN, rows : Seq(STRING)])

\* The rows that are normalized.
Rows(sheet) ==
    IF sheet.header
    THEN Those({i \in DOMAIN sheet.rows : sheet.rows[i] \notin {"blank", "anonymous"}},
               Len(sheet.rows))
    ELSE <<>>

\* build_stable_key, of files of one county and month.  Row 1 is the header.
StableKey(sheet, i) == <<sheet.title, i + 1, sheet.rows[i]>>

\* One unreadable row on any sheet, and the whole file is refused.
StableKeys(workbook) ==
    IF \E s \in ToSet(workbook) : \E i \in ToSet(Rows(s)) : s.rows[i] = "unreadable"
    THEN <<>>
    ELSE FlattenSeq([n \in DOMAIN workbook |->
           [j \in DOMAIN Rows(workbook[n]) |->
              StableKey(workbook[n], Rows(workbook[n])[j])]])

(***************************************************************************)
(* HtmlParser.parse and chunk_units.  A page is the sequence of its nodes, *)
(* each of so many words; headings have level 1 to 6, text has level 0.  A *)
(* node's number stands for its text.                                      *)
(***************************************************************************)
Page == Seq([level : 0..6, words : Nat])

IsHeading(node) == node.level > 0 /\ node.words > 0

IsText(node) == node.level = 0 /\ node.words > 0

\* path[: level - 1]
Cut(path, level) == SubSeq(path, 1, IF level - 1 < Len(path) THEN level - 1 ELSE Len(path))

\* section_path at the n-th node.
Path(page, n) ==
    FoldLeft(LAMBDA path, m : IF IsHeading(page[m]) THEN Append(Cut(path, page[m].level), m)
                              ELSE path,
             <<>>, UpTo(n))

\* The chunks of one unit: its section, and which of its words.
ChunksOfUnit(page, n) ==
    LET words == page[n].words
        windows == {k \in 0..words : HasWindow(k, words)}
    IN  [i \in 1..Cardinality(windows) |->
           [path |-> Path(page, n), node |-> n,
            first |-> FirstWord(i - 1), last |-> LastWord(i - 1, words)]]

\* chunk_units of the page's units.
Chunks(page) ==
    LET units == Those({n \in DOMAIN page : IsText(page[n])}, Len(page))
    IN  FlattenSeq([u \in DOMAIN units |-> ChunksOfUnit(page, units[u])])

(***************************************************************************)
(* OpenAIEmbeddingProvider.embed.  A text's vector is the text itself.     *)
(***************************************************************************)
\* range(0, len(texts), max_batch_size): how many batches there are, and the b-th.
Batches(texts) == (Len(texts) + MaxBatch - 1) \div MaxBatch

Batch(texts, b) ==
    SubSeq(texts, (b - 1) * MaxBatch + 1,
           IF b * MaxBatch < Len(texts) THEN b * MaxBatch ELSE Len(texts))

\* What the service may answer: items in any order, each with the index of its text,
\* and maybe not all of them.
Replies(batch) ==
    UNION {{reply \in [1..n -> [index : DOMAIN batch, embedding : ToSet(batch)]] :
              /\ \A i \in 1..n : reply[i].embedding = batch[reply[i].index]
              /\ \A i, j \in 1..n : reply[i].index = reply[j].index => i = j} :
           n \in 0..Len(batch)}

\* Mutation: in the order of the reply.
TransportUnsorted(reply) == [i \in DOMAIN reply |-> reply[i].embedding]

\* create_embedding_transport: sorted by index.
Transport(reply) ==
    [p \in DOMAIN reply |->
       LET item == CHOOSE x \in ToSet(reply) :
                     Cardinality({y \in ToSet(reply) : y.index < x.index}) = p - 1
       IN  item.embedding]

\* The vectors of all batches.  Where they are not as many as the texts, embed
\* raises.
Embeddings(texts) ==
    LET all == FoldLeft(LAMBDA done, b :
                          {vectors \o Transport(reply) :
                             vectors \in done, reply \in Replies(Batch(texts, b))},
                        {<<>>}, UpTo(Batches(texts)))
    IN  {vectors \in all : Len(vectors) = Len(texts)}
-----------------------------------------------------------------------------
(***************************************************************************)
(* What a page says, without the parser: the sections that its nodes are   *)
(* in.                                                                     *)
(***************************************************************************)

\* The headings among the first n nodes that no later one of them, of their level or
\* above it, has closed.
Open(page, n) ==
    {m \in 1..n : /\ IsHeading(page[m])
                  /\ \A l \in (m + 1)..n :
                       IsHeading(page[l]) => page[l].level > page[m].level}

\* Those above the n-th node, in order.
Headings(page, n) == Those(Open(page, n - 1), n)

\* No heading is more than one level below the one before it; the first has level 1.
Nested(page) ==
    \A n \in DOMAIN page : IsHeading(page[n]) /\ page[n].level > 1 =>
      \E m \in 1..(n - 1) :
        /\ IsHeading(page[m]) /\ page[n].level <= page[m].level + 1
        /\ \A l \in (m + 1)..(n - 1) : ~IsHeading(page[l])
=============================================================================
