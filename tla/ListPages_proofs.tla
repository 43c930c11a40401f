-------------------------- MODULE ListPages_proofs --------------------------
(***************************************************************************)
(* For any rows, page size and limits, and whatever is inserted during a   *)
(* walk: no row is shown twice, each page brings the walk's end nearer, a  *)
(* row that was there when the walk began and is not shown has the key of  *)
(* one that is, and so, if no two rows have the same key, none is skipped. *)
(* A link is refused exactly where the server's zone is east of UTC.       *)
(***************************************************************************)
EXTENDS ListPages, FiniteSetTheorems, TLAPS

\* No two rows have the same key: what NothingSkipped needs and the database does
\* not give for first_seen_at.
DistinctKeys == \A r, s \in Rows : KeyOf[r] = KeyOf[s] => r = s

(***************************************************************************)
(* The cursor parts the table: what has been shown lies at or above it,    *)
(* and what lies there and is owed has been shown, or has the key of a row *)
(* that has.                                                               *)
(***************************************************************************)
ShownLiesAbove == walking => \A r \in shown : KeyOf[r] >= before

KeyIn(r, page) == \E s \in page : KeyOf[s] = KeyOf[r]

OwedAboveIsShown == walking => \A r \in owed : KeyOf[r] >= before => KeyIn(r, shown)

\* A row that a walk has skipped has the key of one it has shown.
SkippedAreTied == ~walking => \A r \in owed : KeyIn(r, shown)

\* Each page of a walk lowers the cursor, or is its last.
CursorGoesDown == [][walking /\ UNCHANGED <<table, faults>> => ~walking' \/ before' < before]_vars

-----------------------------------------------------------------------------
LEMMA TableIsFinite == TypeOK => IsFiniteSet(table)
  BY PagesAssumption, FS_Subset DEF TypeOK

LEMMA LimitsArePositive == \A limit \in Limits : Accepted(limit) => Clamped(limit) \in Nat \ {0}
  BY PagesAssumption DEF Accepted, Clamped

LEMMA KeysAreNaturals == Newest \in Nat /\ \A r \in Rows : KeyOf[r] \in Nat /\ KeyOf[r] < Newest
  BY PagesAssumption

\* A cursor that is rendered and parsed is the cursor it was; through the query of a
\* link it is refused if it is a time with a "+".
LEMMA ReadsBack ==
  ASSUME NEW key \in Nat
  PROVE  /\ Parsed(Rendered(key)) = {key}
         /\ Parsed(Query(Rendered(key))) = IF ByTime /\ ZoneOffset > 0 THEN {} ELSE {key}
<1> DEFINE text == Rendered(key)
<1>0. ZoneOffset \in Int /\ ByTime \in BOOLEAN
  BY PagesAssumption
<1>1. CASE ~ByTime
  <2>1. text.sign = "none" /\ text.digits = key
    BY <1>1 DEF Rendered
  <2>2. Query(text) = text
    BY <2>1 DEF Query
  <2> QED
    BY <1>1, <2>1, <2>2 DEF Parsed
<1>2. CASE ByTime /\ ZoneOffset = 0
  <2>1. text.sign = "Z" /\ text.digits = key
    BY <1>2 DEF Rendered, ZoneSign
  <2>2. Query(text) = text
    BY <2>1 DEF Query
  <2>3. ~(ZoneOffset > 0)
    BY <1>2
  <2> QED
    BY <1>2, <2>1, <2>2, <2>3 DEF Parsed
<1>3. CASE ByTime /\ ZoneOffset < 0
  <2>1. text.sign = "-" /\ text.digits = key + ZoneOffset /\ text.hours = -ZoneOffset
    BY <1>0, <1>3 DEF Rendered, ZoneSign, Hours
  <2>2. Query(text) = text
    BY <2>1 DEF Query
  <2>3. text.digits + text.hours = key
    BY <1>0, <2>1
  <2> QED
    BY <1>0, <1>3, <2>1, <2>2, <2>3 DEF Parsed
<1>4. CASE ByTime /\ ZoneOffset > 0
  <2>1. text.sign = "+" /\ text.digits = key + ZoneOffset /\ text.hours = ZoneOffset
    BY <1>0, <1>4 DEF Rendered, ZoneSign, Hours
  <2>2. Query(text).sign = " "
    BY <2>1 DEF Query, Rendered
  <2>3. text.digits - text.hours = key
    BY <1>0, <2>1
  <2> QED
    BY <1>4, <2>1, <2>2, <2>3 DEF Parsed
<1> QED
  BY <1>0, <1>1, <1>2, <1>3, <1>4

\* A page is the first one, or the rows before the visitor's cursor.
LEMMA PageAsked ==
  ASSUME TypeOK, HtmlPage \/ ApiPage
  PROVE  \E limit \in Nat \ {0} : FirstPage(limit) \/ NextPage(before, limit)
<1>1. before \in Nat
  BY KeysAreNaturals DEF TypeOK
<1>2. \A cursor \in Parsed(Query(Rendered(before))) \cup Parsed(Rendered(before)) : cursor = before
  BY <1>1, ReadsBack
<1>3. CASE HtmlPage
  BY <1>2, <1>3, PagesAssumption DEF HtmlPage
<1>4. CASE ApiPage
  BY <1>2, <1>4, LimitsArePositive DEF ApiPage
<1> QED
  BY <1>3, <1>4

\* A page has rows of the table only, all of them below the cursor.
LEMMA PageIsBelow ==
  ASSUME NEW cursor, NEW limit, NEW page \in Pages(cursor, limit)
  PROVE  page \subseteq table /\ \A r \in page : KeyOf[r] < cursor
  BY DEF Pages, Matching

\* Only an empty table below the cursor gives an empty page.
LEMMA EmptyPage ==
  ASSUME TypeOK, NEW cursor, NEW limit \in Nat \ {0}, {} \in Pages(cursor, limit)
  PROVE  \A r \in table : ~(KeyOf[r] < cursor)
<1> DEFINE rows == Matching(cursor)
<1>1. IsFiniteSet(rows)
  BY TableIsFinite, FS_Subset DEF Matching
<1>2. Cardinality(rows) \in Nat
  BY <1>1, FS_CardinalityType
<1>3. Cardinality({}) = 0 /\ (Cardinality(rows) = 0 <=> rows = {})
  BY <1>1, FS_EmptySet
<1>4. Cardinality({}) = IF Cardinality(rows) < limit THEN Cardinality(rows) ELSE limit
  BY DEF Pages
<1>5. rows = {}
  BY <1>2, <1>3, <1>4
<1> QED
  BY <1>5 DEF Matching

\* The next cursor is the smallest key of the page.
LEMMA CursorIsLowest ==
  ASSUME TypeOK, NEW cursor, NEW limit, NEW page \in Pages(cursor, limit), page # {},
         NEW next, NextCursor(page, next)
  PROVE  /\ next \in 0..Newest
         /\ \A s \in page : KeyOf[s] >= next
         /\ \E r \in page : KeyOf[r] = next
<1>1. PICK r \in page : (\A s \in page : Above(s, r)) /\ next = KeyOf[r]
  BY DEF NextCursor
<1>2. page \subseteq Rows
  BY PageIsBelow DEF TypeOK
<1>3. next \in 0..Newest
  BY <1>1, <1>2, KeysAreNaturals
<1>4. \A s \in page : KeyOf[s] >= next
  BY <1>1 DEF Above
<1> QED
  BY <1>1, <1>3, <1>4

-----------------------------------------------------------------------------
(* Types *)

LEMMA InitTypeOK == Init => TypeOK
<1>1. Newest \in 0..Newest /\ 0 \in Nat
  BY KeysAreNaturals
<1> QED
  BY <1>1 DEF Init, TypeOK

LEMMA ShownTypeOK ==
  ASSUME TypeOK, NEW cursor, NEW limit, NEW page \in Pages(cursor, limit),
         NEW old \in SUBSET table, Shown(page, old)
  PROVE  shown' \subseteq table /\ before' \in 0..Newest /\ walking' \in BOOLEAN
<1>1. page \subseteq table
  BY PageIsBelow
<1>2. before' \in 0..Newest
  <2>1. CASE page = {}
    BY <2>1, PagesAssumption DEF Shown, NextCursor
  <2>2. CASE page # {}
    BY <2>2, CursorIsLowest DEF Shown
  <2> QED
    BY <2>1, <2>2
<1> QED
  BY <1>1, <1>2 DEF Shown, GoesOn

LEMMA FirstPageTypeOK ==
  ASSUME TypeOK, NEW limit, FirstPage(limit)
  PROVE  TypeOK'
<1>1. PICK page \in Pages(Newest, limit) : Shown(page, {})
  BY DEF FirstPage
<1>2. shown' \subseteq table /\ before' \in 0..Newest /\ walking' \in BOOLEAN
  BY <1>1, ShownTypeOK
<1> QED
  BY <1>2 DEF TypeOK, FirstPage

LEMMA NextPageTypeOK ==
  ASSUME TypeOK, NEW limit, NextPage(before, limit)
  PROVE  TypeOK'
<1>1. PICK page \in Pages(before, limit) :
        Shown(page, shown) /\ repeated' = repeated \cup (shown \cap page)
  BY DEF NextPage
<1>2. shown' \subseteq table /\ before' \in 0..Newest /\ walking' \in BOOLEAN
  BY <1>1, ShownTypeOK DEF TypeOK
<1> QED
  BY <1>1, <1>2 DEF TypeOK, NextPage, Shown

LEMMA StepTypeOK == TypeOK /\ [Next]_vars => TypeOK'
<1> SUFFICES ASSUME TypeOK, [Next]_vars PROVE TypeOK'
  OBVIOUS
<1>1. CASE Insert
  BY <1>1 DEF Insert, TypeOK
<1>2. CASE HtmlPage \/ ApiPage
  BY <1>2, PageAsked, FirstPageTypeOK, NextPageTypeOK
<1>3. CASE PageFails
  BY <1>3 DEF PageFails, TypeOK
<1>4. CASE UNCHANGED vars
  BY <1>4 DEF vars, TypeOK
<1> QED
  BY <1>1, <1>2, <1>3, <1>4 DEF Next

\* Every variable has its type, and the cursor never leaves the range of the keys.
THEOREM TypeCorrect == Spec => []TypeOK
  BY InitTypeOK, StepTypeOK, PTL DEF Spec

-----------------------------------------------------------------------------
(* Nothing is shown twice *)

RepeatInv == TypeOK /\ ShownLiesAbove /\ NothingRepeated

LEMMA ShownStaysAbove ==
  ASSUME TypeOK, NEW cursor, NEW limit, NEW page \in Pages(cursor, limit),
         NEW old \in SUBSET table, \A r \in old : KeyOf[r] >= cursor,
         cursor \in Nat, Shown(page, old)
  PROVE  ShownLiesAbove'
<1>1. CASE page = {}
  BY <1>1 DEF Shown, GoesOn, ShownLiesAbove
<1>2. CASE page # {}
  <2>1. PICK last \in page : KeyOf[last] = before'
    BY <1>2, CursorIsLowest DEF Shown
  <2>2. \A s \in page : KeyOf[s] >= before'
    BY <1>2, CursorIsLowest DEF Shown
  <2>3. before' < cursor /\ before' \in Nat
    BY <2>1, PageIsBelow, KeysAreNaturals DEF TypeOK
  <2>4. \A r \in old : KeyOf[r] \in Nat
    BY KeysAreNaturals DEF TypeOK
  <2>5. \A r \in old : KeyOf[r] >= before'
    BY <2>3, <2>4
  <2> QED
    BY <2>2, <2>5 DEF Shown, ShownLiesAbove
<1> QED
  BY <1>1, <1>2

LEMMA InitRepeat == Init => RepeatInv
  BY InitTypeOK DEF Init, RepeatInv, ShownLiesAbove, NothingRepeated

LEMMA StepRepeat == RepeatInv /\ [Next]_vars => RepeatInv'
<1> SUFFICES ASSUME RepeatInv, [Next]_vars PROVE RepeatInv'
  OBVIOUS
<1> USE DEF RepeatInv
<1>0. TypeOK'
  BY StepTypeOK
<1>1. CASE UNCHANGED <<shown, before, walking, repeated>>
  BY <1>0, <1>1 DEF ShownLiesAbove, NothingRepeated
<1>2. ASSUME NEW limit, FirstPage(limit) PROVE RepeatInv'
  <2>1. PICK page \in Pages(Newest, limit) : Shown(page, {})
    BY <1>2 DEF FirstPage
  <2>2. ShownLiesAbove'
    BY <2>1, ShownStaysAbove, KeysAreNaturals
  <2> QED
    BY <1>0, <1>2, <2>2 DEF FirstPage, NothingRepeated
<1>3. ASSUME NEW limit, NextPage(before, limit) PROVE RepeatInv'
  <2>1. PICK page \in Pages(before, limit) :
          Shown(page, shown) /\ repeated' = repeated \cup (shown \cap page)
    BY <1>3 DEF NextPage
  <2>2. before \in Nat /\ shown \subseteq table
    BY KeysAreNaturals DEF TypeOK
  <2>3. \A r \in shown : KeyOf[r] >= before
    BY <1>3 DEF NextPage, ShownLiesAbove
  <2>4. ShownLiesAbove'
    BY <2>1, <2>2, <2>3, ShownStaysAbove
  <2>5. shown \cap page = {}
    <3>1. \A r \in page : KeyOf[r] < before /\ KeyOf[r] \in Nat
      BY PageIsBelow, KeysAreNaturals DEF TypeOK
    <3> QED
      BY <2>2, <2>3, <3>1
  <2> QED
    BY <1>0, <2>1, <2>4, <2>5 DEF NothingRepeated
<1>4. CASE HtmlPage \/ ApiPage
  BY <1>2, <1>3, <1>4, PageAsked
<1>5. CASE PageFails
  BY <1>1, <1>5 DEF PageFails
<1>6. CASE Insert
  BY <1>1, <1>6 DEF Insert
<1>7. CASE UNCHANGED vars
  BY <1>1, <1>7 DEF vars
<1> QED
  BY <1>4, <1>5, <1>6, <1>7 DEF Next

\* No walk shows a row twice, whatever is inserted meanwhile and also when rows
\* have equal keys (ListOotleBlocks, ListTemplateRegistry).
THEOREM NoRowTwice == Spec => []NothingRepeated
<1>1. RepeatInv => NothingRepeated
  BY DEF RepeatInv
<1> QED
  BY <1>1, InitRepeat, StepRepeat, PTL DEF Spec

-----------------------------------------------------------------------------
(* Nothing is skipped *)

SkipInv == TypeOK /\ OwedAboveIsShown /\ SkippedAreTied

LEMMA OwedStaysShown ==
  ASSUME TypeOK, NEW cursor \in Nat, NEW limit \in Nat \ {0},
         NEW page \in Pages(cursor, limit), NEW old \in SUBSET table, Shown(page, old),
         owed' \subseteq table, \A r \in owed' : KeyOf[r] >= cursor => KeyIn(r, old)
  PROVE  OwedAboveIsShown' /\ SkippedAreTied'
<1>0. \A r \in table : r \in Rows /\ KeyOf[r] \in Nat
  BY KeysAreNaturals DEF TypeOK
<1>1. CASE page = {}
  <2>1. \A r \in table : KeyOf[r] >= cursor
    BY <1>0, <1>1, EmptyPage
  <2> QED
    BY <1>1, <2>1 DEF Shown, GoesOn, OwedAboveIsShown, SkippedAreTied, KeyIn
<1>2. CASE page # {}
  <2>1. PICK last \in page : KeyOf[last] = before'
    BY <1>2, CursorIsLowest DEF Shown
  <2>2. page \subseteq table
    BY PageIsBelow
  <2>3. ASSUME NEW r \in owed', KeyOf[r] >= before' PROVE KeyIn(r, shown')
    <3>1. CASE KeyOf[r] >= cursor
      BY <2>3, <3>1 DEF Shown, KeyIn
    <3>2. CASE ~(KeyOf[r] >= cursor)
      <4>1. r \in Matching(cursor)
        BY <1>0, <3>2 DEF Matching
      <4>2. CASE r \in page
        BY <4>2 DEF Shown, KeyIn
      <4>3. CASE r \notin page
        <5>1. Above(last, r)
          BY <4>1, <4>3 DEF Pages
        <5>2. KeyOf[last] = KeyOf[r]
          BY <1>0, <2>1, <2>2, <2>3, <5>1 DEF Above
        <5> QED
          BY <5>2 DEF Shown, KeyIn
      <4> QED
        BY <4>2, <4>3
    <3> QED
      BY <3>1, <3>2
  <2> QED
    BY <1>2, <2>3 DEF Shown, GoesOn, OwedAboveIsShown, SkippedAreTied, KeyIn
<1> QED
  BY <1>1, <1>2

LEMMA InitSkip == Init => SkipInv
  BY InitTypeOK DEF Init, SkipInv, OwedAboveIsShown, SkippedAreTied

LEMMA StepSkip == SkipInv /\ [Next]_vars => SkipInv'
<1> SUFFICES ASSUME SkipInv, [Next]_vars PROVE SkipInv'
  OBVIOUS
<1> USE DEF SkipInv
<1>0. TypeOK'
  BY StepTypeOK
<1>1. CASE UNCHANGED <<shown, before, walking, owed>>
  BY <1>0, <1>1 DEF OwedAboveIsShown, SkippedAreTied, KeyIn
<1>2. ASSUME NEW limit \in Nat \ {0}, FirstPage(limit) PROVE SkipInv'
  <2>1. PICK page \in Pages(Newest, limit) : Shown(page, {})
    BY <1>2 DEF FirstPage
  <2>2. owed' = table
    BY <1>2 DEF FirstPage
  <2>3. \A r \in owed' : KeyOf[r] >= Newest => KeyIn(r, {})
    BY <2>2, KeysAreNaturals DEF TypeOK
  <2> QED
    BY <1>0, <2>1, <2>2, <2>3, OwedStaysShown, KeysAreNaturals
<1>3. ASSUME NEW limit \in Nat \ {0}, NextPage(before, limit) PROVE SkipInv'
  <2>1. PICK page \in Pages(before, limit) : Shown(page, shown)
    BY <1>3 DEF NextPage
  <2>2. before \in Nat /\ shown \subseteq table /\ owed' \subseteq table
    BY <1>3, KeysAreNaturals DEF TypeOK, NextPage
  <2>3. \A r \in owed' : KeyOf[r] >= before => KeyIn(r, shown)
    BY <1>3 DEF NextPage, OwedAboveIsShown
  <2> QED
    BY <1>0, <2>1, <2>2, <2>3, OwedStaysShown
<1>4. CASE HtmlPage \/ ApiPage
  BY <1>2, <1>3, <1>4, PageAsked
<1>5. CASE PageFails
  BY <1>1, <1>5 DEF PageFails
<1>6. CASE Insert
  BY <1>1, <1>6 DEF Insert
<1>7. CASE UNCHANGED vars
  BY <1>1, <1>7 DEF vars
<1> QED
  BY <1>4, <1>5, <1>6, <1>7 DEF Next

\* A walk that has ended may have skipped a row that was there when it began only
\* if it has shown another one with the same key, whatever was inserted meanwhile
\* and whatever limits it used: what a page's LIMIT cuts apart (ListOotleBlocks,
\* ListTemplateRegistry).
THEOREM OnlyTiesAreSkipped == Spec => []SkippedAreTied
<1>1. SkipInv => SkippedAreTied
  BY DEF SkipInv
<1> QED
  BY <1>1, InitSkip, StepSkip, PTL DEF Spec

\* If no two rows have the same key, a walk that has ended has shown every row
\* that was there when it began (server.go, rfc3339nano: "non-duplicating/
\* non-skipping cursor").
THEOREM NoRowSkipped ==
  ASSUME DistinctKeys
  PROVE  Spec => []NothingSkipped
<1>1. TypeOK /\ SkippedAreTied => NothingSkipped
  BY DEF TypeOK, SkippedAreTied, KeyIn, DistinctKeys, NothingSkipped
<1> QED
  BY <1>1, OnlyTiesAreSkipped, TypeCorrect, PTL

-----------------------------------------------------------------------------
(* The walk goes on *)

LEMMA PageMovesDown ==
  ASSUME TypeOK, NEW limit, NextPage(before, limit)
  PROVE  ~walking' \/ before' < before
<1>1. PICK page \in Pages(before, limit) : Shown(page, shown)
  BY DEF NextPage
<1>2. CASE page = {}
  BY <1>1, <1>2 DEF Shown, GoesOn
<1>3. CASE page # {}
  <2>1. PICK r \in page : KeyOf[r] = before'
    BY <1>1, <1>3, CursorIsLowest DEF Shown
  <2> QED
    BY <2>1, PageIsBelow
<1> QED
  BY <1>2, <1>3

\* The cursor is a natural number that each page of a walk lowers, so a walk has
\* at most Newest + 1 pages, however fast rows are inserted (ListOotleBlocks,
\* ListTemplateRegistry).
THEOREM WalksGoDown == Spec => CursorGoesDown
<1>1. ASSUME TypeOK, Next, walking, UNCHANGED <<table, faults>>
      PROVE  ~walking' \/ before' < before
  <2>0. faults' # faults + 1
    BY <1>1 DEF TypeOK
  <2>1. ~Insert /\ ~PageFails
    BY <1>1, <2>0 DEF Insert, PageFails
  <2>2. \A limit : ~FirstPage(limit)
    BY <1>1 DEF FirstPage
  <2> QED
    BY <1>1, <2>1, <2>2, PageAsked, PageMovesDown DEF Next
<1>2. TypeOK /\ [Next]_vars => [walking /\ UNCHANGED <<table, faults>> => ~walking' \/ before' < before]_vars
  BY <1>1
<1> QED
  BY <1>2, TypeCorrect, PTL DEF Spec, CursorGoesDown

-----------------------------------------------------------------------------
(* The link between two pages *)

\* Exactly one thing breaks the link: a time with a positive offset.
OnlyPlusBreaksLinks == LinkReadsBack <=> ~(walking /\ ByTime /\ ZoneOffset > 0)

\* The blocks' links, and the templates' on a server at or west of UTC, ask for the
\* rows before the last one shown, whatever the rows and the offset; east of UTC
\* every link of the template list is refused (rfc3339nano, templates_list.html,
\* handleTemplatesPartial).
THEOREM LinksBreakEast == Spec => []OnlyPlusBreaksLinks
<1>1. TypeOK => OnlyPlusBreaksLinks
  <2> SUFFICES ASSUME TypeOK PROVE OnlyPlusBreaksLinks
    OBVIOUS
  <2>1. before \in Nat
    BY KeysAreNaturals DEF TypeOK
  <2>2. Parsed(Query(Rendered(before))) = IF ByTime /\ ZoneOffset > 0 THEN {} ELSE {before}
    BY <2>1, ReadsBack
  <2> QED
    BY <2>2 DEF OnlyPlusBreaksLinks, LinkReadsBack
<1> QED
  BY <1>1, TypeCorrect, PTL

=============================================================================
