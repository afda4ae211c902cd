--------------------------- MODULE PublicRecordsMC ---------------------------
(***************************************************************************)
(* Public records for TLC: a county calendar, an appraisal district whose  *)
(* search may move, and its page of details.                               *)
(***************************************************************************)
EXTENDS PublicRecords, TLC

CONSTANTS chat, tools, calendar, search, moved, details, elsewhere, short, long, endless

SomeUrls == {calendar, search, moved, details, elsewhere}

SomeSize == short :> 1 @@ long :> 2 @@ endless :> 3

Ok(p) == [status |-> "ok", page |-> p]

To(u) == [status |-> "redirect", location |-> u]

Status(s) == [status |-> s]

SomeServes ==
    calendar :> {Ok(long), Status("server error")}
    @@ search :> {Ok(short), To(moved)}
    @@ moved :> {Ok(short), To(search), To(elsewhere), To(NoUrl)}
    @@ details :> {Ok(short), Ok(endless), Status("client error")}
    @@ elsewhere :> {}

SomeHome == [op \in Operations |->
    CASE op = "search_property" -> search
      [] op = "get_property_details" -> details
      [] OTHER -> calendar]

SomeReads == [op \in Operations |->
    CASE op = "discover_trustee_sale_sources" -> {"none", "some", "bad link"}
      [] op = "search_property" -> Readings
      [] OTHER -> {"some", "layout changed", "bad link"}]

\* The chat's questions, and a tool that reads the calendar's address, too.
SomeUses == chat :> ChatUses @@ tools :> {"get_foreclosure_notice"}
=============================================================================
