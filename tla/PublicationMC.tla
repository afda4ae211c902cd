--------------------------- MODULE PublicationMC ---------------------------
(***************************************************************************)
(* Publication for TLC.                                                    *)
(***************************************************************************)
EXTENDS Publication, TLC

CONSTANTS a, b, refused, long, short

Sheet(title, rows) == [title |-> title, header |-> TRUE, rows |-> rows]

\* Two files with their common records on sheets in opposite order, and one with a
\* row that cannot be read.
SomeWorkbooks ==
    a :> <<Sheet("first", <<"x">>), [Sheet("bad", <<"x">>) EXCEPT !.header = FALSE],
           Sheet("second", <<"blank", "y", "anonymous">>)>> @@
    b :> <<Sheet("second", <<"blank", "y">>), Sheet("first", <<"x", "z">>)>> @@
    refused :> <<Sheet("first", <<"x", "unreadable">>)>>

TwoWorkbooks == [c \in {a, b} |-> SomeWorkbooks[c]]

Heading(level) == [level |-> level, words |-> 1]

Text(words) == [level |-> 0, words |-> words]

\* A page of three chunks in two sections, and its next version.
SomePages ==
    long :> <<Heading(1), Text(4), Heading(2), Text(0), Heading(2), Text(1)>> @@
    short :> <<Heading(1), Text(1)>>

\* They satisfy the hypothesis of the theorem about VersionsWhole.
ASSUME PagesNested == \A c \in DOMAIN SomePages : Nested(SomePages[c])

NoPages == <<>>

Symmetry == Permutations(Handlers) \cup Permutations(Storage)
=============================================================================
