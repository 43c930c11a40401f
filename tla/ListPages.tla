----------------------------- MODULE ListPages -----------------------------
(***************************************************************************)
(* The paged lists of cmd/server: blocks by height and templates by        *)
(* first_seen_at (internal/db/reads.go, internal/server).  A visitor asks  *)
(* for the first page and then, again and again, for the rows before the   *)
(* last row of the page it got, until a page is empty; the pollers insert  *)
(* rows meanwhile.  HTML pages have PageSize rows, and a caller of the     *)
(* JSON routes may ask for another limit.                                  *)
(*                                                                         *)
(* The two lists differ in the column they are ordered by, the key here,   *)
(* and in how a cursor is written: a height as a number, a time with the   *)
(* offset of the server's time zone, which a link must carry through the   *)
(* query of a URL.  A row may appear below rows that are there already: a  *)
(* checkpoint with a lower height, or an INSERT that took its now() before *)
(* another one's and ended after it.  Nothing deletes a row or changes its *)
(* key.  Templates' first page starts at the server's time.Now(); that     *)
(* this is later than every first_seen_at is assumed.                      *)
(***************************************************************************)
EXTENDS Integers, FiniteSets

CONSTANTS
  Rows,          \* the rows that may be inserted
  KeyOf,         \* height or first_seen_at of each
  PageSize,      \* rows of an HTML page, and of a JSON one by default
  MaxAPILimit,   \* the largest limit of a JSON request
  Limits,        \* the limits a visitor may give
  Newest,        \* the first page's cursor: math.MaxInt64, or time.Now()
  ByTime,        \* whether the list is that of the templates
  ZoneOffset,    \* the server's local time minus UTC, that of the times it is given
  MaxFaults      \* bound: requests that fail

ASSUME PagesAssumption ==
  /\ IsFiniteSet(Rows)
  /\ KeyOf \in [Rows -> Nat]
  /\ {PageSize, MaxAPILimit} \subseteq Nat \ {0}
  /\ Limits \subseteq Int
  /\ Newest \in Nat /\ \A r \in Rows : KeyOf[r] < Newest
  /\ ByTime \in BOOLEAN
  /\ ZoneOffset \in Int
  /\ MaxFaults \in Nat

VARIABLES
  table,     \* the rows inserted so far
  before,    \* the visitor's cursor
  shown,     \* the rows it has been shown
  repeated,  \* history: the rows it has been shown more than once
  owed,      \* history: the rows that were there when it asked for the first page
  walking,   \* whether it is between two pages
  faults     \* requests that have failed

vars == <<table, before, shown, repeated, owed, walking, faults>>

Init ==
  /\ table = {}
  /\ before = Newest
  /\ shown = {} /\ repeated = {} /\ owed = {}
  /\ walking = FALSE
  /\ faults = 0

Insert ==
  /\ \E r \in Rows \ table : table' = table \cup {r}
  /\ UNCHANGED <<before, shown, repeated, owed, walking, faults>>

\* Mutant: key <= $1.
Matching_Inclusive(cursor) == {r \in table : KeyOf[r] <= cursor}

\* WHERE key < $1.
Matching(cursor) == {r \in table : KeyOf[r] < cursor}

\* Mutant: ORDER BY key.
Above_Ascending(r, s) == KeyOf[r] <= KeyOf[s]

\* ORDER BY key DESC; rows of one key come in any order.
Above(r, s) == KeyOf[r] >= KeyOf[s]

\* The pages LIMIT may cut off.
Pages(cursor, limit) ==
  LET rows == Matching(cursor) IN
    {page \in SUBSET rows :
       /\ Cardinality(page) = IF Cardinality(rows) < limit THEN Cardinality(rows) ELSE limit
       /\ \A r \in page, s \in rows \ page : Above(r, s)}

\* The limit a request stands for; a limit that is not positive is refused.
Accepted(limit) == limit > 0

Clamped(limit) == IF limit > MaxAPILimit THEN MaxAPILimit ELSE limit

(***************************************************************************)
(* A cursor on its way from one page to the request for the next.  A time  *)
(* is RFC 3339: the digits of the local time, then "Z", or a sign and the  *)
(* hours of the offset.                                                    *)
(***************************************************************************)
ZoneSign ==
  CASE ZoneOffset = 0 -> "Z"
    [] ZoneOffset > 0 -> "+"
    [] ZoneOffset < 0 -> "-"

Hours == IF ZoneOffset < 0 THEN -ZoneOffset ELSE ZoneOffset

\* Mutant: the local time is written as if it were UTC.
Rendered_WithoutZone(key) == [digits |-> key + ZoneOffset, sign |-> "Z", hours |-> 0]

\* rfc3339nano, or the height as it is.
Rendered(key) ==
  IF ByTime THEN [digits |-> key + ZoneOffset, sign |-> ZoneSign, hours |-> Hours]
            ELSE [digits |-> key, sign |-> "none", hours |-> 0]

\* The page's link puts the text into its query as it is: hx-get is not an
\* attribute html/template escapes for a URL, and "+" is a space in a query.
Query(text) == IF text.sign = "+" THEN [text EXCEPT !.sign = " "] ELSE text

\* time.Parse(time.RFC3339Nano, ...), or strconv.ParseInt: no key at all of a text
\* they refuse, which is answered 400.
Parsed(text) ==
  CASE text.sign = " " -> {}
    [] text.sign = "+" -> {text.digits - text.hours}
    [] text.sign = "-" -> {text.digits + text.hours}
    [] OTHER           -> {text.digits}

\* The page's last row gives the next cursor.
NextCursor(page, cursor) ==
  IF page = {} THEN cursor = Newest
               ELSE \E r \in page : (\A s \in page : Above(s, r)) /\ cursor = KeyOf[r]

\* Mutant: "load more" is there below an empty page as well.
GoesOn_Always(page) == TRUE

\* An empty page ends the walk.
GoesOn(page) == page # {}

Shown(page, old) ==
  /\ shown' = old \cup page
  /\ NextCursor(page, before')
  /\ walking' = GoesOn(page)

FirstPage(limit) ==
  /\ ~walking
  /\ \E page \in Pages(Newest, limit) : Shown(page, {})
  /\ owed' = table
  /\ repeated' = {}
  /\ UNCHANGED <<table, faults>>

NextPage(cursor, limit) ==
  /\ walking
  /\ \E page \in Pages(cursor, limit) :
       /\ Shown(page, shown)
       /\ repeated' = repeated \cup (shown \cap page)
  /\ UNCHANGED <<table, owed, faults>>

\* "Load more" asks with the text of the link.  Where that is refused nothing
\* changes: htmx leaves the button of a failed request where it is.
HtmlPage ==
  \/ FirstPage(PageSize)
  \/ \E cursor \in Parsed(Query(Rendered(before))) : NextPage(cursor, PageSize)

\* A caller of the JSON routes is taken to escape what it puts into a query.
ApiPage ==
  \E limit \in Limits :
    /\ Accepted(limit)
    /\ \/ FirstPage(Clamped(limit))
       \/ \E cursor \in Parsed(Rendered(before)) : NextPage(cursor, Clamped(limit))

\* A request is answered 500, or not at all: its visitor has the cursor it had.
PageFails ==
  /\ faults < MaxFaults
  /\ faults' = faults + 1
  /\ UNCHANGED <<table, before, shown, repeated, owed, walking>>

Next == Insert \/ HtmlPage \/ ApiPage \/ PageFails

Spec == Init /\ [][Next]_vars

\* The visitor clicks on.
FairSpec == Spec /\ WF_vars(HtmlPage)

-----------------------------------------------------------------------------
\* Every variable has its type.
TypeOK ==
  /\ table \subseteq Rows
  /\ before \in 0..Newest
  /\ shown \subseteq table
  /\ repeated \subseteq shown
  /\ owed \subseteq table
  /\ walking \in BOOLEAN
  /\ faults \in Nat

\* No row is shown twice in one walk, whatever is inserted during it and
\* whatever limits it uses (ListOotleBlocks, ListTemplateRegistry).
NothingRepeated == repeated = {}

\* A walk that has come to its end has shown every row that was there when it
\* began (server.go, rfc3339nano: "non-duplicating/non-skipping cursor").
NothingSkipped == ~walking => owed \subseteq shown

\* Every walk comes to an end, whatever is inserted meanwhile and although requests
\* fail: "load more" is refused on no page (templates_list.html).
WalkEnds == walking ~> ~walking

\* The link of a page asks for the rows before its last one: the text rfc3339nano
\* writes is one "handleTemplatesPartial can parse back" (server.go).  It does not
\* where the server's zone is east of UTC: README, section 6.
LinkReadsBack == walking => Parsed(Query(Rendered(before))) = {before}

=============================================================================
