------------------------- MODULE StatusPages_proofs -------------------------
(***************************************************************************)
(* For any number of visitors and connections, any burns and any outages:  *)
(* no connection is lost, one failing statement costs one panel, what a    *)
(* page shows was so while its request ran, and what a visitor is shown    *)
(* never goes back.                                                        *)
(***************************************************************************)
EXTENDS StatusPages, FiniteSetTheorems, WellFoundedInduction, TLAPS

-----------------------------------------------------------------------------
(* What the proofs need of a route *)

Overview == {"home", "tip_info"}

LEMMA HomeStatements ==
  LET s == StatementsOf("home") IN
    /\ Len(s) = 5 /\ DOMAIN s = 1..5
    /\ s[1] = "blocks" /\ s[2] = "max_epoch" /\ s[3] = "count"
    /\ s[4] = "templates" /\ s[5] = "stuck"
BY DEF StatementsOf

LEMMA TipInfoStatements ==
  LET s == StatementsOf("tip_info") IN
    /\ Len(s) = 4 /\ DOMAIN s = 1..4
    /\ s[1] = "blocks" /\ s[2] = "max_epoch" /\ s[3] = "count"
    /\ s[4] = "stuck"
BY DEF StatementsOf

LEMMA HealthStatements ==
  LET s == StatementsOf("health") IN
    /\ Len(s) = 2 /\ DOMAIN s = 1..2
    /\ s[1] = "max_epoch" /\ s[2] = "count"
BY DEF StatementsOf

LEMMA BurnClaimsStatements ==
  LET s == StatementsOf("burn_claims") IN
    /\ Len(s) = 1 /\ DOMAIN s = 1..1
    /\ s[1] = "claims_list"
BY DEF StatementsOf

LEMMA ValidatorsStatements ==
  LET s == StatementsOf("validators") IN
    /\ Len(s) = 1 /\ DOMAIN s = 1..1
    /\ s[1] = "validators"
BY DEF StatementsOf

\* The blocks are read first and the stuck burns last; a list is a page of its own;
\* and the summary's first statement is followed by its second.
Shape(route) ==
  LET s == StatementsOf(route) IN
    /\ Len(s) \in Nat \ {0} /\ DOMAIN s = 1..Len(s)
    /\ \A i \in 1..Len(s) :
         /\ s[i] = "blocks" <=> i = 1 /\ route \in Overview
         /\ s[i] = "stuck" <=> i = Len(s) /\ route \in Overview
         /\ s[i] = "claims_list" <=> route = "burn_claims"
         /\ s[i] = "max_epoch" => i < Len(s) /\ (route \in Overview => i + 1 < Len(s))
    /\ route \in Overview => Len(s) > 1
    /\ route \notin Overview \cup {"health"} => Len(s) = 1

LEMMA RouteShape == \A route \in AllRoutes : Shape(route)
<1>1. Shape("home")
  <2> DEFINE s == StatementsOf("home")
  <2>1. \A i \in 1..5 : i \in {1, 2, 3, 4, 5}
    OBVIOUS
  <2>2. \A i \in 1..5 :
          /\ s[i] = "blocks" <=> i = 1
          /\ s[i] = "stuck" <=> i = 5
          /\ s[i] # "claims_list"
          /\ s[i] = "max_epoch" => i = 2
    BY <2>1, HomeStatements
  <2>3. Len(s) = 5 /\ DOMAIN s = 1..5
    BY HomeStatements
  <2> HIDE DEF s
  <2>4. /\ Len(s) \in Nat \ {0} /\ DOMAIN s = 1..Len(s)
        /\ \A i \in 1..Len(s) :
             /\ s[i] = "blocks" <=> i = 1
             /\ s[i] = "stuck" <=> i = Len(s)
             /\ s[i] # "claims_list"
             /\ s[i] = "max_epoch" => i + 1 < Len(s)
        /\ Len(s) > 1
    BY <2>2, <2>3
  <2> QED
    BY <2>4 DEF Shape, Overview, s
<1>2. Shape("tip_info")
  <2> DEFINE s == StatementsOf("tip_info")
  <2>1. \A i \in 1..4 : i \in {1, 2, 3, 4}
    OBVIOUS
  <2>2. \A i \in 1..4 :
          /\ s[i] = "blocks" <=> i = 1
          /\ s[i] = "stuck" <=> i = 4
          /\ s[i] # "claims_list"
          /\ s[i] = "max_epoch" => i = 2
    BY <2>1, TipInfoStatements
  <2>3. Len(s) = 4 /\ DOMAIN s = 1..4
    BY TipInfoStatements
  <2> HIDE DEF s
  <2>4. /\ Len(s) \in Nat \ {0} /\ DOMAIN s = 1..Len(s)
        /\ \A i \in 1..Len(s) :
             /\ s[i] = "blocks" <=> i = 1
             /\ s[i] = "stuck" <=> i = Len(s)
             /\ s[i] # "claims_list"
             /\ s[i] = "max_epoch" => i + 1 < Len(s)
        /\ Len(s) > 1
    BY <2>2, <2>3
  <2> QED
    BY <2>4 DEF Shape, Overview, s
<1>3. Shape("health")
  BY HealthStatements DEF Shape, Overview
<1>4. Shape("burn_claims")
  BY BurnClaimsStatements DEF Shape, Overview
<1>5. Shape("validators")
  BY ValidatorsStatements DEF Shape, Overview
<1> QED
  BY <1>1, <1>2, <1>3, <1>4, <1>5 DEF AllRoutes

LEMMA PanelsOfRoutes ==
  /\ PanelsOf("home") = {"blocks", "summary", "templates", "stuck"}
  /\ PanelsOf("tip_info") = {"blocks", "summary", "stuck"}
  /\ PanelsOf("health") = {"summary"}
  /\ PanelsOf("burn_claims") = {"claims_list"}
  /\ PanelsOf("validators") = {"validators"}
<1>1. PanelsOf("home") = {"blocks", "summary", "templates", "stuck"}
  <2>1. 1..5 = {1, 2, 3, 4, 5}
    OBVIOUS
  <2>2. PanelsOf("home") = {PanelOf(StatementsOf("home")[i]) : i \in {1, 2, 3, 4, 5}}
    BY <2>1, HomeStatements DEF PanelsOf
  <2> QED
    BY <2>2, HomeStatements DEF PanelOf
<1>2. PanelsOf("tip_info") = {"blocks", "summary", "stuck"}
  <2>1. 1..4 = {1, 2, 3, 4}
    OBVIOUS
  <2>2. PanelsOf("tip_info") = {PanelOf(StatementsOf("tip_info")[i]) : i \in {1, 2, 3, 4}}
    BY <2>1, TipInfoStatements DEF PanelsOf
  <2> QED
    BY <2>2, TipInfoStatements DEF PanelOf
<1>3. PanelsOf("health") = {"summary"}
  <2>1. 1..2 = {1, 2}
    OBVIOUS
  <2>2. PanelsOf("health") = {PanelOf(StatementsOf("health")[i]) : i \in {1, 2}}
    BY <2>1, HealthStatements DEF PanelsOf
  <2> QED
    BY <2>2, HealthStatements DEF PanelOf
<1>4. PanelsOf("burn_claims") = {"claims_list"}
  BY BurnClaimsStatements DEF PanelsOf, PanelOf
<1>5. PanelsOf("validators") = {"validators"}
  BY ValidatorsStatements DEF PanelsOf, PanelOf
<1> QED
  BY <1>1, <1>2, <1>3, <1>4, <1>5

-----------------------------------------------------------------------------
(* The tables *)

LEMMA LeastExists ==
  ASSUME NEW S, S \subseteq Nat, S # {}
  PROVE  \E x \in S : \A y \in S : x <= y
<1>1. PICK x \in S : \A y \in S : <<y, x>> \notin OpToRel(<, Nat)
  BY NatLessThanWellFounded, WFMin
<1>2. \A y \in S : ~(y < x)
  BY <1>1 DEF OpToRel
<1> QED
  BY <1>2

LEMMA Bounds == MaxHeight \in Nat /\ MaxOutages \in Nat /\ MaxConns \in Nat /\ MaxConns > 0
BY StatusPagesAssumption

LEMMA RoutesAreKnown == \A route \in Routes : route \in AllRoutes /\ Shape(route)
BY StatusPagesAssumption, RouteShape

\* The latest block is the highest one.
LEMMA LatestIsHighest ==
  ASSUME NEW heights, heights \subseteq 1..MaxHeight
  PROVE  /\ Latest(heights) \in 0..MaxHeight
         /\ \A h \in heights : h <= Latest(heights)
         /\ heights # {} => Latest(heights) \in heights
<1>1. CASE heights = {}
  BY <1>1, Bounds DEF Latest
<1>2. CASE heights # {}
  <2> DEFINE below == {MaxHeight - h : h \in heights}
  <2>1. below \subseteq Nat /\ below # {}
    <3>1. \A h \in heights : MaxHeight - h \in Nat
      BY Bounds
    <3>2. PICK h \in heights : TRUE
      BY <1>2
    <3>3. MaxHeight - h \in below
      OBVIOUS
    <3> QED
      BY <3>1, <3>3
  <2>2. PICK d \in below : \A e \in below : d <= e
    BY <2>1, LeastExists
  <2>3. PICK h \in heights : d = MaxHeight - h
    BY <2>2
  <2>4. ASSUME NEW o \in heights
        PROVE  o <= h
    <3>1. MaxHeight - o \in below
      OBVIOUS
    <3>2. MaxHeight - h <= MaxHeight - o
      BY <2>2, <2>3, <3>1
    <3> QED
      BY <3>2, Bounds
  <2>5. Latest(heights) \in heights /\ \A o \in heights : o <= Latest(heights)
    BY <1>2, <2>4 DEF Latest
  <2>6. Latest(heights) \in 1..MaxHeight
    BY <2>5
  <2> QED
    BY <2>5, <2>6, Bounds
<1> QED
  BY <1>1, <1>2

LEMMA LatestGrows ==
  ASSUME NEW lower, NEW higher, lower \subseteq higher, higher \subseteq 1..MaxHeight
  PROVE  Latest(lower) <= Latest(higher)
<1>1. CASE lower = {}
  <2>1. Latest(lower) = 0
    BY <1>1 DEF Latest
  <2>2. Latest(higher) \in 0..MaxHeight
    BY LatestIsHighest
  <2> QED
    BY <2>1, <2>2, Bounds
<1>2. CASE lower # {}
  BY <1>2, LatestIsHighest
<1> QED
  BY <1>1, <1>2

LEMMA RanksType ==
  /\ \A s \in Statuses : Ranks[s] \in 0..3
  /\ \A s, t \in Statuses : Ranks[s] = Ranks[t] => s = t
  /\ Ranks["absent"] = 0
<1>1. /\ Ranks["absent"] = 0 /\ Ranks["pending"] = 1
      /\ Ranks["stuck"] = 2 /\ Ranks["claimed"] = 3
  BY DEF Ranks
<1> QED
  BY <1>1 DEF Statuses

LEMMA StatusOfType ==
  ASSUME NEW table \in [Burns -> Row]
  PROVE  StatusOf(table) \in [Burns -> Statuses]
BY DEF StatusOf, Row

LEMMA EmptyTableType == EmptyTable \in [Burns -> Row]
BY DEF EmptyTable, NoRow, Row, Statuses

LEMMA ListType ==
  ASSUME claims \in [Burns -> Row], NEW filter
  PROVE  ListBurnClaims(filter) \subseteq Burns \X (Statuses \ {"absent"})
<1>1. ASSUME NEW row \in ListBurnClaims(filter)
      PROVE  row \in Burns \X (Statuses \ {"absent"})
  <2>1. PICK b \in Burns : row = <<b, claims[b].status>> /\ claims[b].status # "absent"
    BY DEF ListBurnClaims, Recorded
  <2>2. claims[b].status \in Statuses
    BY DEF Row
  <2> QED
    BY <2>1, <2>2
<1> QED
  BY <1>1

\* A tracker's statement keeps the table's type, and moves no burn back.
LEMMA TrackGoesOn ==
  ASSUME claims \in [Burns -> Row], Track
  PROVE  /\ claims' \in [Burns -> Row]
         /\ \A b \in Burns : Ranks[claims[b].status] <= Ranks[claims'[b].status]
<1>1. PICK k \in Burns :
        \/ claims' = InsertPendingBurnClaim(claims, k, 0)
        \/ claims' = MarkBurnStuck(claims, k)
        \/ claims' = MarkBurnClaimed(claims, CommitmentOf[k], {})
  BY DEF Track
<1>2. \A b \in Burns : claims[b] \in Row /\ claims[b].status \in Statuses
  BY DEF Row
<1>3. CASE claims' = InsertPendingBurnClaim(claims, k, 0)
  <2>1. CASE Recorded(claims, k)
    BY <1>3, <1>2, <2>1, RanksType DEF InsertPendingBurnClaim
  <2>2. CASE ~Recorded(claims, k)
    <3>1. [status |-> "pending", burn_height |-> 0, claimed_at |-> {}] \in Row
      BY DEF Row, Statuses
    <3>2. claims' \in [Burns -> Row]
      BY <1>3, <2>2, <3>1 DEF InsertPendingBurnClaim
    <3>3. \A b \in Burns \ {k} : claims'[b] = claims[b]
      BY <1>3, <2>2 DEF InsertPendingBurnClaim
    <3>4. claims[k].status = "absent" /\ claims'[k].status \in Statuses
      BY <2>2, <3>2 DEF Recorded, Row
    <3> QED
      BY <1>2, <3>2, <3>3, <3>4, RanksType
  <2> QED
    BY <2>1, <2>2
<1>4. CASE claims' = MarkBurnStuck(claims, k)
  <2>1. claims' \in [Burns -> Row]
    BY <1>4 DEF MarkBurnStuck, Row, Statuses
  <2>2. \A b \in Burns :
          \/ claims'[b].status = claims[b].status
          \/ claims[b].status = "pending" /\ claims'[b].status = "stuck"
    BY <1>4 DEF MarkBurnStuck, Row
  <2> QED
    BY <1>2, <2>1, <2>2, RanksType DEF Ranks
<1>5. CASE claims' = MarkBurnClaimed(claims, CommitmentOf[k], {})
  <2>1. claims' \in [Burns -> Row]
    BY <1>5 DEF MarkBurnClaimed, Row, Statuses
  <2>2. \A b \in Burns :
          claims'[b].status = claims[b].status \/ claims'[b].status = "claimed"
    BY <1>5 DEF MarkBurnClaimed
  <2> QED
    BY <1>2, <2>1, <2>2, RanksType DEF Ranks
<1> QED
  BY <1>1, <1>3, <1>4, <1>5

-----------------------------------------------------------------------------
(* One request *)

Becomes(v, t) == request' = [request EXCEPT ![v] = t]

\* What stays as it is while a request runs.
SameRun(r, t) ==
  /\ t.route = r.route /\ t.filter = r.filter /\ t.since = r.since

SamePanels(r, t) == t.failed = r.failed /\ t.listed = r.listed /\ t.latest = r.latest

LEMMA NoRequestType == NoRequest \in RequestState /\ RequestOK(NoRequest)
<1>1. [tip |-> 0, status |-> StatusOf(EmptyTable)] \in Snapshot
  BY EmptyTableType, StatusOfType, Bounds DEF Snapshot
<1> QED
  BY <1>1, Bounds DEF NoRequest, RequestState, RequestOK, Stages, Codes

LEMMA PlaceInRoute ==
  ASSUME NEW r \in RequestState, RequestOK(r), r.stage # "idle"
  PROVE  /\ r.route \in AllRoutes /\ Shape(r.route)
         /\ r.at \in 1..Len(StatementsOf(r.route))
         /\ Len(StatementsOf(r.route)) \in Nat
         /\ PanelOf(StatementsOf(r.route)[r.at]) \in PanelsOf(r.route)
         /\ r.failed \subseteq PanelsOf(r.route)
<1>1. r.route \in AllRoutes /\ Shape(r.route)
  BY RoutesAreKnown DEF RequestOK
<1>2. /\ DOMAIN StatementsOf(r.route) = 1..Len(StatementsOf(r.route))
      /\ Len(StatementsOf(r.route)) \in Nat
  BY <1>1 DEF Shape
<1> QED
  BY <1>1, <1>2 DEF RequestOK, PanelsOf

LEMMA PanelsAreKnown == \A route \in AllRoutes : PanelsOf(route) \subseteq Panels
BY PanelsOfRoutes DEF AllRoutes, Panels

LEMMA StatusCodes == \A r : StatusCode(r) \in Codes
BY DEF StatusCode, Codes

LEMMA AllStages ==
  /\ "idle" \in Stages /\ "acquire" \in Stages /\ "execute" \in Stages
  /\ "scan" \in Stages /\ "answered" \in Stages
BY DEF Stages

LEMMA FinishFields ==
  ASSUME NEW r \in RequestState, RequestOK(r), r.stage # "idle",
         NEW skip \in BOOLEAN, skip => StatementsOf(r.route)[r.at] = "max_epoch"
  PROVE  LET t == Finish(r, skip) IN
           /\ t \in RequestState /\ RequestOK(t)
           /\ SameRun(r, t) /\ SamePanels(r, t)
           /\ \/ t.stage = "acquire" /\ t.at > r.at
              \/ /\ t.stage = "answered" /\ t.status = StatusCode(r)
                 /\ r.route # "health" => r.at = Len(StatementsOf(r.route))
<1> DEFINE len == Len(StatementsOf(r.route))
           next == r.at + IF skip THEN 2 ELSE 1
           t == Finish(r, skip)
<1>1. r.at \in 1..len /\ len \in Nat /\ next \in Nat /\ next > r.at
  BY PlaceInRoute
<1>2. CASE next > len
  <2>1. t = [r EXCEPT !.stage = "answered", !.status = StatusCode(r)]
    BY <1>2 DEF Finish
  <2>2. r.route # "health" => r.at = len
    <3>1. SUFFICES ASSUME r.route # "health" PROVE r.at = len
      OBVIOUS
    <3>2. skip => r.route \in Overview /\ r.at + 1 < len
      BY <1>1, <3>1, PlaceInRoute DEF Shape, Overview
    <3> QED
      BY <1>1, <1>2, <3>2
  <2>3. t \in RequestState
    <3>1. ASSUME NEW stage \in Stages, NEW code \in Codes
          PROVE  [r EXCEPT !.stage = stage, !.status = code] \in RequestState
      BY DEF RequestState
    <3>2. StatusCode(r) \in Codes /\ "answered" \in Stages
      BY StatusCodes, AllStages
    <3>3. [r EXCEPT !.stage = "answered", !.status = StatusCode(r)] \in RequestState
      BY <3>1, <3>2
    <3> QED
      BY <2>1, <3>3
  <2>4. /\ SameRun(r, t) /\ SamePanels(r, t) /\ t.at = r.at
        /\ t.stage = "answered" /\ t.status = StatusCode(r)
    BY <2>1 DEF SameRun, SamePanels, RequestState
  <2>5. RequestOK(t)
    BY <2>4 DEF RequestOK, SameRun, SamePanels
  <2> QED
    BY <2>2, <2>3, <2>4, <2>5
<1>3. CASE ~(next > len)
  <2>1. t = [r EXCEPT !.stage = "acquire", !.at = next]
    BY <1>3 DEF Finish
  <2>2. t \in RequestState
    BY <2>1, <1>1, AllStages DEF RequestState
  <2>3. SameRun(r, t) /\ SamePanels(r, t) /\ t.stage = "acquire" /\ t.at = next
    BY <2>1 DEF SameRun, SamePanels, RequestState
  <2>4. next \in DOMAIN StatementsOf(r.route)
    BY <1>1, <1>3, PlaceInRoute DEF Shape
  <2>5. RequestOK(t)
    BY <2>3, <2>4 DEF RequestOK, SameRun, SamePanels
  <2> QED
    BY <1>1, <2>2, <2>3, <2>5
<1> QED
  BY <1>2, <1>3

LEMMA WithoutPanelFields ==
  ASSUME NEW r \in RequestState, RequestOK(r), r.stage # "idle"
  PROVE  LET statement == StatementsOf(r.route)[r.at]
             t == WithoutPanel(r, statement)
         IN  /\ t \in RequestState /\ RequestOK(t)
             /\ SameRun(r, t) /\ t.stage = r.stage /\ t.at = r.at
             /\ t.failed = r.failed \cup {PanelOf(statement)}
             /\ t.latest = IF statement = "blocks" THEN 0 ELSE r.latest
             /\ t.listed = IF statement \in {"stuck", "claims_list"} THEN {} ELSE r.listed
<1> DEFINE statement == StatementsOf(r.route)[r.at]
           t == WithoutPanel(r, statement)
<1>1. PanelOf(statement) \in Panels \cap PanelsOf(r.route)
  BY PlaceInRoute, PanelsAreKnown
<1> DEFINE failed == r.failed \cup {PanelOf(statement)}
           latest == IF statement = "blocks" THEN 0 ELSE r.latest
           listed == IF statement \in {"stuck", "claims_list"} THEN {} ELSE r.listed
<1>2. t = [r EXCEPT !.failed = failed, !.latest = latest, !.listed = listed]
  BY DEF WithoutPanel
<1>3. /\ failed \in SUBSET Panels /\ failed \subseteq PanelsOf(r.route)
      /\ latest \in 0..MaxHeight
      /\ listed \in SUBSET (Burns \X (Statuses \ {"absent"}))
  <2>1. /\ r.failed \subseteq Panels /\ r.latest \in 0..MaxHeight
        /\ r.listed \in SUBSET (Burns \X (Statuses \ {"absent"}))
    BY DEF RequestState
  <2>2. failed \subseteq Panels /\ failed \subseteq PanelsOf(r.route)
    BY <1>1, <2>1, PlaceInRoute
  <2>3. latest \in 0..MaxHeight
    BY <2>1, Bounds
  <2>4. listed \in SUBSET (Burns \X (Statuses \ {"absent"}))
    BY <2>1
  <2> QED
    BY <2>2, <2>3, <2>4
<1> HIDE DEF failed, latest, listed, t
<1>4. /\ t \in RequestState
      /\ t.stage = r.stage /\ t.at = r.at /\ SameRun(r, t)
      /\ t.failed = failed /\ t.latest = latest /\ t.listed = listed
  BY <1>2, <1>3 DEF RequestState, SameRun
<1>5. RequestOK(t)
  BY <1>3, <1>4 DEF RequestOK, SameRun
<1> QED
  BY <1>4, <1>5 DEF t, failed, latest, listed

\* The steps of a request, by what it becomes.
Begun(t) ==
  /\ t.stage = "acquire" /\ t.at = 1
  /\ t.failed = {} /\ t.listed = {} /\ t.latest = 0
  /\ t.since = [tip |-> Latest(blocks), status |-> StatusOf(claims)]

Waiting(r, t) == SameRun(r, t) /\ SamePanels(r, t) /\ t.at = r.at

Executed(r, t) ==
  LET statement == StatementsOf(r.route)[r.at] IN
    /\ t.stage = "scan" /\ SameRun(r, t) /\ t.at = r.at /\ t.failed = r.failed
    /\ t.latest = IF statement = "blocks" THEN Latest(blocks) ELSE r.latest
    /\ t.listed = CASE statement = "stuck"       -> ListBurnClaims("stuck")
                    [] statement = "claims_list" -> ListBurnClaims(r.filter)
                    [] OTHER                     -> r.listed

Advanced(r, t) ==
  \/ t.stage = "acquire" /\ t.at > r.at
  \/ /\ t.stage = "answered" /\ t.status = StatusCode(t)
     /\ r.route # "health" => r.at = Len(StatementsOf(r.route))

Failed(r, t) ==
  LET statement == StatementsOf(r.route)[r.at] IN
    /\ SameRun(r, t) /\ Advanced(r, t)
    /\ t.failed = r.failed \cup {PanelOf(statement)}
    /\ t.latest = IF statement = "blocks" THEN 0 ELSE r.latest
    /\ t.listed = IF statement \in {"stuck", "claims_list"} THEN {} ELSE r.listed

RequestsTyped ==
  request \in [Visitors -> RequestState] /\ \A v \in Visitors : RequestOK(request[v])

LEMMA BecomesTyped ==
  ASSUME TypeOK, NEW v \in Visitors, NEW t \in RequestState, RequestOK(t), Becomes(v, t)
  PROVE  /\ RequestsTyped' /\ request'[v] = t
         /\ \A w \in Visitors \ {v} : request'[w] = request[w]
<1>1. request \in [Visitors -> RequestState] /\ \A w \in Visitors : RequestOK(request[w])
  BY DEF TypeOK
<1>2. /\ request' \in [Visitors -> RequestState] /\ request'[v] = t
      /\ \A w \in Visitors \ {v} : request'[w] = request[w]
  BY <1>1 DEF Becomes
<1>3. \A w \in Visitors : RequestOK(request'[w])
  BY <1>1, <1>2
<1> QED
  BY <1>2, <1>3 DEF RequestsTyped, RequestOK

LEMMA NoRequestFields ==
  /\ NoRequest.stage = "idle" /\ NoRequest.at = 1 /\ NoRequest.failed = {}
  /\ NoRequest.listed = {} /\ NoRequest.latest = 0
BY DEF NoRequest

LEMMA AskBecomes ==
  ASSUME TypeOK, NEW v \in Visitors, Ask(v)
  PROVE  \E t \in RequestState : RequestOK(t) /\ Becomes(v, t) /\ Begun(t)
<1> DEFINE since == [tip |-> Latest(blocks), status |-> StatusOf(claims)]
<1>1. since \in Snapshot
  BY LatestIsHighest, StatusOfType DEF TypeOK, Snapshot
<1> HIDE DEF since
<1>2. PICK route \in Routes, filter \in Filters :
        request' = [request EXCEPT ![v] =
           [NoRequest EXCEPT !.stage = "acquire", !.route = route, !.filter = filter,
                             !.since = since]]
  BY DEF Ask, since
<1> DEFINE t == [NoRequest EXCEPT !.stage = "acquire", !.route = route, !.filter = filter,
                                  !.since = since]
<1>3. ASSUME NEW r \in RequestState, NEW stage \in Stages
      PROVE  LET u == [r EXCEPT !.stage = stage, !.route = route, !.filter = filter,
                                !.since = since]
             IN  /\ u \in RequestState /\ u.stage = stage /\ u.route = route
                 /\ u.since = since /\ SamePanels(r, u) /\ u.at = r.at
  BY <1>1, RoutesAreKnown DEF RequestState, SamePanels
<1>4. /\ t \in RequestState /\ t.stage = "acquire" /\ t.route = route
      /\ t.since = since /\ SamePanels(NoRequest, t) /\ t.at = NoRequest.at
  BY <1>3, AllStages, NoRequestType
<1>5. 1 \in DOMAIN StatementsOf(route)
  BY RoutesAreKnown DEF Shape
<1> HIDE DEF t
<1>6. RequestOK(t) /\ Begun(t)
  BY <1>4, <1>5, NoRequestFields DEF RequestOK, Begun, SamePanels, since
<1> QED
  BY <1>2, <1>4, <1>6 DEF Becomes, t

LEMMA LeaveBecomes ==
  ASSUME TypeOK, NEW v \in Visitors, Leave(v)
  PROVE  \E t \in RequestState :
           /\ RequestOK(t) /\ Becomes(v, t)
           /\ t.stage = request[v].stage /\ Waiting(request[v], t)
<1> DEFINE r == request[v]
           t == [r EXCEPT !.left = TRUE]
<1>1. r \in RequestState /\ RequestOK(r) /\ Becomes(v, t)
  BY DEF TypeOK, Leave, Becomes
<1>2. t \in RequestState /\ t.stage = r.stage /\ Waiting(r, t)
  BY <1>1 DEF RequestState, Waiting, SameRun, SamePanels
<1>3. RequestOK(t)
  BY <1>1, <1>2 DEF RequestOK, Waiting, SameRun, SamePanels
<1> QED
  BY <1>1, <1>2, <1>3

LEMMA AcquireBecomes ==
  ASSUME TypeOK, NEW v \in Visitors, Acquire(v)
  PROVE  \E t \in RequestState :
           RequestOK(t) /\ Becomes(v, t) /\ t.stage = "execute" /\ Waiting(request[v], t)
<1> DEFINE r == request[v]
           t == [r EXCEPT !.stage = "execute"]
<1>1. r \in RequestState /\ RequestOK(r) /\ Becomes(v, t) /\ r.stage = "acquire"
  BY DEF TypeOK, Acquire, Becomes
<1>2. t \in RequestState /\ t.stage = "execute" /\ Waiting(r, t)
  BY <1>1, AllStages DEF RequestState, Waiting, SameRun, SamePanels
<1>3. RequestOK(t)
  BY <1>1, <1>2 DEF RequestOK, Waiting, SameRun, SamePanels
<1> QED
  BY <1>1, <1>2, <1>3

LEMMA ExecuteBecomes ==
  ASSUME TypeOK, NEW v \in Visitors, Execute(v)
  PROVE  \E t \in RequestState :
           RequestOK(t) /\ Becomes(v, t) /\ Executed(request[v], t)
<1> DEFINE r == request[v]
           statement == StatementsOf(r.route)[r.at]
           latest == IF statement = "blocks" THEN Latest(blocks) ELSE r.latest
           listed == CASE statement = "stuck"       -> ListBurnClaims("stuck")
                       [] statement = "claims_list" -> ListBurnClaims(r.filter)
                       [] OTHER                     -> r.listed
           t == [r EXCEPT !.stage = "scan", !.latest = latest, !.listed = listed]
<1>1. r \in RequestState /\ RequestOK(r) /\ r.stage = "execute"
  BY DEF TypeOK, Execute
<1>2. Becomes(v, t)
  BY DEF Execute, Becomes, Statement
<1>3. latest \in 0..MaxHeight
  BY <1>1, LatestIsHighest DEF TypeOK, RequestState
<1>4. listed \subseteq Burns \X (Statuses \ {"absent"})
  <2>1. r.listed \subseteq Burns \X (Statuses \ {"absent"})
    BY <1>1 DEF RequestState
  <2>2. \A filter : ListBurnClaims(filter) \subseteq Burns \X (Statuses \ {"absent"})
    BY ListType DEF TypeOK
  <2> QED
    BY <2>1, <2>2
<1> HIDE DEF latest, listed, statement
<1>5. /\ t \in RequestState /\ t.stage = "scan" /\ SameRun(r, t) /\ t.at = r.at
      /\ t.failed = r.failed /\ t.latest = latest /\ t.listed = listed
  BY <1>1, <1>3, <1>4, AllStages DEF RequestState, SameRun
<1> HIDE DEF t
<1>6. RequestOK(t)
  BY <1>1, <1>5 DEF RequestOK, SameRun
<1>7. Executed(r, t)
  BY <1>5 DEF Executed, latest, listed, statement
<1> QED
  BY <1>2, <1>5, <1>6, <1>7

LEMMA FinishAdvances ==
  ASSUME NEW r \in RequestState, RequestOK(r), r.stage # "idle",
         NEW skip \in BOOLEAN, skip => StatementsOf(r.route)[r.at] = "max_epoch"
  PROVE  LET t == Finish(r, skip) IN
           /\ t \in RequestState /\ RequestOK(t)
           /\ SameRun(r, t) /\ SamePanels(r, t) /\ Advanced(r, t)
<1> DEFINE t == Finish(r, skip)
<1>1. /\ t \in RequestState /\ RequestOK(t) /\ SameRun(r, t) /\ SamePanels(r, t)
      /\ \/ t.stage = "acquire" /\ t.at > r.at
         \/ /\ t.stage = "answered" /\ t.status = StatusCode(r)
            /\ r.route # "health" => r.at = Len(StatementsOf(r.route))
  BY FinishFields
<1> HIDE DEF t
<1>2. StatusCode(t) = StatusCode(r)
  BY <1>1 DEF StatusCode, SameRun, SamePanels
<1>3. Advanced(r, t)
  BY <1>1, <1>2 DEF Advanced
<1> QED
  BY <1>1, <1>3 DEF t

LEMMA ScanBecomes ==
  ASSUME TypeOK, NEW v \in Visitors, Scan(v)
  PROVE  \E t \in RequestState :
           /\ RequestOK(t) /\ Becomes(v, t)
           /\ SameRun(request[v], t) /\ SamePanels(request[v], t) /\ Advanced(request[v], t)
<1> DEFINE r == request[v]
<1>1. r \in RequestState /\ RequestOK(r) /\ r.stage = "scan"
  BY DEF TypeOK, Scan
<1>2. PICK skip \in IF Statement(v) = "max_epoch" THEN BOOLEAN ELSE {FALSE} :
        request' = [request EXCEPT ![v] = Finish(r, skip)]
  BY DEF Scan
<1>3. skip \in BOOLEAN /\ (skip => StatementsOf(r.route)[r.at] = "max_epoch")
  BY <1>2 DEF Statement
<1>4. LET t == Finish(r, skip) IN
        /\ t \in RequestState /\ RequestOK(t)
        /\ SameRun(r, t) /\ SamePanels(r, t) /\ Advanced(r, t)
  BY <1>1, <1>3, FinishAdvances
<1> QED
  BY <1>2, <1>4 DEF Becomes

LEMMA FailBecomes ==
  ASSUME TypeOK, NEW v \in Visitors, Fail(v)
  PROVE  \E t \in RequestState :
           RequestOK(t) /\ Becomes(v, t) /\ Failed(request[v], t)
<1> DEFINE r == request[v]
           u == WithoutPanel(r, Statement(v))
           skip == Statement(v) = "max_epoch"
           t == Finish(u, skip)
<1>1. r \in RequestState /\ RequestOK(r) /\ r.stage # "idle" /\ Becomes(v, t)
  BY DEF TypeOK, Fail, Failing, Becomes
<1>2. /\ u \in RequestState /\ RequestOK(u) /\ SameRun(r, u)
      /\ u.stage = r.stage /\ u.at = r.at
      /\ u.failed = r.failed \cup {PanelOf(Statement(v))}
      /\ u.latest = IF Statement(v) = "blocks" THEN 0 ELSE r.latest
      /\ u.listed = IF Statement(v) \in {"stuck", "claims_list"} THEN {} ELSE r.listed
  BY <1>1, WithoutPanelFields DEF Statement
<1> HIDE DEF u
<1>3. skip \in BOOLEAN /\ (skip => StatementsOf(u.route)[u.at] = "max_epoch")
  BY <1>2 DEF SameRun, Statement
<1> HIDE DEF skip
<1>4. /\ t \in RequestState /\ RequestOK(t)
      /\ SameRun(u, t) /\ SamePanels(u, t) /\ Advanced(u, t)
  BY <1>1, <1>2, <1>3, FinishAdvances
<1> HIDE DEF t
<1>5. SameRun(r, t) /\ Advanced(r, t)
  BY <1>2, <1>4 DEF SameRun, Advanced
<1>6. Failed(r, t)
  BY <1>2, <1>4, <1>5 DEF Failed, SamePanels, Statement
<1> QED
  BY <1>1, <1>4, <1>6

\* What an answer tells the visitor comes from its panels or was known before.
LEMMA AnswerShows ==
  ASSUME TypeOK, NEW v \in Visitors, Answer(v)
  PROVE  LET r == request[v] IN
           /\ seen' \in [Visitors -> Snapshot]
           /\ \A w \in Visitors \ {v} : seen'[w] = seen[w]
           /\ \/ seen'[v].tip = seen[v].tip
              \/ "blocks" \in PanelsOf(r.route) \ r.failed /\ seen'[v].tip = r.latest
           /\ \A b \in Burns :
                \/ seen'[v].status[b] = seen[v].status[b]
                \/ \E row \in r.listed : row[1] = b /\ seen'[v].status[b] = row[2]
<1> DEFINE r == request[v]
           shows == ~r.left /\ r.status = 200
           tip == IF shows /\ "blocks" \in PanelsOf(r.route) \ r.failed THEN r.latest
                                                                       ELSE seen[v].tip
           status == [b \in Burns |-> IF shows /\ \E row \in r.listed : row[1] = b
                                        THEN (CHOOSE row \in r.listed : row[1] = b)[2]
                                        ELSE seen[v].status[b]]
<1>1. seen' = [seen EXCEPT ![v].tip = tip, ![v].status = status]
  BY DEF Answer
<1>2. r \in RequestState /\ seen[v] \in Snapshot
  BY DEF TypeOK
<1>3. r.latest \in 0..MaxHeight /\ r.listed \subseteq Burns \X (Statuses \ {"absent"})
  BY <1>2 DEF RequestState
<1>4. ASSUME NEW b \in Burns
      PROVE  /\ status[b] \in Statuses
             /\ \/ status[b] = seen[v].status[b]
                \/ \E row \in r.listed : row[1] = b /\ status[b] = row[2]
  <2>1. CASE shows /\ \E row \in r.listed : row[1] = b
    <3> DEFINE row == CHOOSE row \in r.listed : row[1] = b
    <3>1. row \in r.listed /\ row[1] = b
      BY <2>1
    <3>2. status[b] = row[2]
      BY <2>1
    <3> HIDE DEF row, status
    <3> QED
      BY <1>3, <3>1, <3>2
  <2>2. CASE ~(shows /\ \E row \in r.listed : row[1] = b)
    BY <1>2, <2>2 DEF Snapshot
  <2> QED
    BY <2>1, <2>2
<1>5. status \in [Burns -> Statuses]
  BY <1>4
<1>6. /\ tip \in 0..MaxHeight
      /\ \/ tip = seen[v].tip
         \/ "blocks" \in PanelsOf(r.route) \ r.failed /\ tip = r.latest
  BY <1>2, <1>3 DEF Snapshot
<1> HIDE DEF tip, status
<1>7. [seen[v] EXCEPT !.tip = tip, !.status = status] \in Snapshot
  BY <1>2, <1>5, <1>6 DEF Snapshot
<1>8. /\ seen' \in [Visitors -> Snapshot]
      /\ \A w \in Visitors \ {v} : seen'[w] = seen[w]
      /\ seen'[v].tip = tip /\ seen'[v].status = status
  <2>1. seen \in [Visitors -> Snapshot]
    BY DEF TypeOK
  <2>2. seen' = [seen EXCEPT ![v] = [seen[v] EXCEPT !.tip = tip, !.status = status]]
    BY <1>1, <2>1 DEF Snapshot
  <2>3. seen'[v] = [seen[v] EXCEPT !.tip = tip, !.status = status]
    BY <2>1, <2>2
  <2> QED
    BY <1>2, <1>7, <2>1, <2>2, <2>3 DEF Snapshot
<1> QED
  BY <1>4, <1>6, <1>8

-----------------------------------------------------------------------------
(* Types and connections *)

Holds(stage) == stage \in {"execute", "scan"}

Holding == {v \in Visitors : Holds(request[v].stage)}

LEMMA HoldingIsFinite ==
  /\ IsFiniteSet(Holding) /\ Cardinality(Holding) \in Nat
  /\ Holding # {} => Cardinality(Holding) > 0
<1>1. IsFiniteSet(Holding)
  BY StatusPagesAssumption, FS_Subset DEF Holding
<1> QED
  BY <1>1, FS_CardinalityType, FS_EmptySet

\* One request takes a connection, keeps it or gives it back.
LEMMA HoldingMoves ==
  ASSUME NEW v \in Visitors, \A w \in Visitors \ {v} : request'[w] = request[w]
  PROVE  Cardinality(Holding') =
           IF Holds(request[v].stage)
             THEN IF Holds(request'[v].stage) THEN Cardinality(Holding) ELSE Cardinality(Holding) - 1
             ELSE IF Holds(request'[v].stage) THEN Cardinality(Holding) + 1 ELSE Cardinality(Holding)
<1>1. CASE Holds(request'[v].stage)
  <2>1. Holding' = Holding \cup {v}
    BY <1>1 DEF Holding
  <2>2. v \in Holding <=> Holds(request[v].stage)
    BY DEF Holding
  <2>3. Cardinality(Holding \cup {v}) =
        IF v \in Holding THEN Cardinality(Holding) ELSE Cardinality(Holding) + 1
    BY HoldingIsFinite, FS_AddElement
  <2> QED
    BY <1>1, <2>1, <2>2, <2>3
<1>2. CASE ~Holds(request'[v].stage)
  <2>1. Holding' = Holding \ {v}
    BY <1>2 DEF Holding
  <2>2. v \in Holding <=> Holds(request[v].stage)
    BY DEF Holding
  <2>3. Cardinality(Holding \ {v}) =
        IF v \in Holding THEN Cardinality(Holding) - 1 ELSE Cardinality(Holding)
    BY HoldingIsFinite, FS_RemoveElement
  <2> QED
    BY <1>2, <2>1, <2>2, <2>3
<1> QED
  BY <1>1, <1>2

\* The pool: no connection is lost and none is made up.
PoolOK == busy \in 0..MaxConns /\ busy = Cardinality(Holding)

LEMMA PoolIsConnectionsReturned == ConnectionsReturned <=> busy = Cardinality(Holding)
BY DEF ConnectionsReturned, Holding, Holds

LEMMA PoolStep ==
  ASSUME PoolOK, NEW v \in Visitors, \A w \in Visitors \ {v} : request'[w] = request[w],
         \/ /\ ~Holds(request[v].stage) /\ ~Holds(request'[v].stage) /\ busy' = busy
         \/ /\ Holds(request[v].stage) /\ Holds(request'[v].stage) /\ busy' = busy
         \/ /\ ~Holds(request[v].stage) /\ Holds(request'[v].stage)
            /\ busy < MaxConns /\ busy' = busy + 1
         \/ /\ Holds(request[v].stage) /\ ~Holds(request'[v].stage) /\ busy' = busy - 1
  PROVE  PoolOK'
<1>1. Holds(request[v].stage) => Cardinality(Holding) > 0
  BY HoldingIsFinite DEF Holding
<1> QED
  BY <1>1, HoldingMoves, HoldingIsFinite, Bounds DEF PoolOK

LEMMA TypeAndPoolInit == Init => TypeOK /\ PoolOK
<1> SUFFICES ASSUME Init PROVE TypeOK /\ PoolOK
  OBVIOUS
<1>1. [tip |-> 0, status |-> StatusOf(EmptyTable)] \in Snapshot
  BY EmptyTableType, StatusOfType, Bounds DEF Snapshot
<1>2. /\ request \in [Visitors -> RequestState]
      /\ \A v \in Visitors : request[v] = NoRequest /\ RequestOK(request[v])
  BY NoRequestType DEF Init
<1>3. Holding = {}
  BY <1>2, NoRequestFields DEF Holding, Holds
<1>4. Cardinality(Holding) = 0
  BY <1>3, FS_EmptySet
<1> QED
  BY <1>1, <1>2, <1>4, EmptyTableType, Bounds DEF Init, TypeOK, PoolOK

\* A step of one request keeps the types, whatever the request becomes.
LEMMA RequestStepTypes ==
  ASSUME TypeOK, NEW v \in Visitors, NEW t \in RequestState, RequestOK(t), Becomes(v, t),
         busy' \in 0..MaxConns,
         UNCHANGED <<claims, blocks, db, seen, server, outages>>
  PROVE  TypeOK'
BY BecomesTyped DEF TypeOK, RequestsTyped

LEMMA TypeAndPoolStep == TypeOK /\ PoolOK /\ [Next]_vars => TypeOK' /\ PoolOK'
<1> SUFFICES ASSUME TypeOK, PoolOK, [Next]_vars PROVE TypeOK' /\ PoolOK'
  OBVIOUS
<1>1. ASSUME UNCHANGED <<busy, request>>
      PROVE  PoolOK'
  BY <1>1 DEF PoolOK, Holding
<1>a. CASE Track
  BY <1>a, <1>1, TrackGoesOn DEF Track, TypeOK
<1>b. CASE UpsertOotleBlock
  BY <1>b, <1>1 DEF UpsertOotleBlock, TypeOK
<1>c. CASE StopAnswering
  BY <1>c, <1>1, Bounds DEF StopAnswering, TypeOK
<1>d. CASE Recover \/ Signal \/ Start \/ ClosePool
  BY <1>d, <1>1 DEF Recover, Signal, Start, ClosePool, TypeOK
<1>e. CASE Exit
  <2>1. /\ request' \in [Visitors -> RequestState]
        /\ \A v \in Visitors : request'[v] = NoRequest /\ RequestOK(request'[v])
    BY <1>e, NoRequestType DEF Exit
  <2>2. Holding' = {}
    BY <2>1, NoRequestFields DEF Holding, Holds
  <2>3. PoolOK'
    BY <1>e, <2>2, FS_EmptySet, Bounds DEF Exit, PoolOK
  <2>4. TypeOK'
    BY <1>e, <2>1 DEF Exit, TypeOK
  <2> QED
    BY <2>3, <2>4
<1>f. ASSUME NEW v \in Visitors, Ask(v)
      PROVE  TypeOK' /\ PoolOK'
  <2>1. PICK t \in RequestState : RequestOK(t) /\ Becomes(v, t) /\ Begun(t)
    BY <1>f, AskBecomes
  <2>2. PoolOK'
    BY <1>f, <2>1, BecomesTyped, PoolStep DEF Begun, Ask, Holds
  <2> QED
    BY <1>f, <2>1, <2>2, RequestStepTypes DEF Ask, PoolOK
<1>g. ASSUME NEW v \in Visitors, Leave(v)
      PROVE  TypeOK' /\ PoolOK'
  <2>1. PICK t \in RequestState :
          RequestOK(t) /\ Becomes(v, t) /\ t.stage = request[v].stage
    BY <1>g, LeaveBecomes
  <2>2. PoolOK'
    BY <1>g, <2>1, BecomesTyped, PoolStep DEF Leave
  <2> QED
    BY <1>g, <2>1, <2>2, RequestStepTypes DEF Leave, PoolOK
<1>h. ASSUME NEW v \in Visitors, Acquire(v)
      PROVE  TypeOK' /\ PoolOK'
  <2>1. PICK t \in RequestState : RequestOK(t) /\ Becomes(v, t) /\ t.stage = "execute"
    BY <1>h, AcquireBecomes
  <2>2. PoolOK'
    BY <1>h, <2>1, BecomesTyped, PoolStep DEF Acquire, Holds
  <2> QED
    BY <1>h, <2>1, <2>2, RequestStepTypes DEF Acquire, PoolOK
<1>i. ASSUME NEW v \in Visitors, Execute(v)
      PROVE  TypeOK' /\ PoolOK'
  <2>1. PICK t \in RequestState : RequestOK(t) /\ Becomes(v, t) /\ Executed(request[v], t)
    BY <1>i, ExecuteBecomes
  <2>2. PoolOK'
    BY <1>i, <2>1, BecomesTyped, PoolStep DEF Execute, Executed, Holds
  <2> QED
    BY <1>i, <2>1, <2>2, RequestStepTypes DEF Execute, PoolOK
<1>j. ASSUME NEW v \in Visitors, Scan(v)
      PROVE  TypeOK' /\ PoolOK'
  <2>1. PICK t \in RequestState : RequestOK(t) /\ Becomes(v, t) /\ Advanced(request[v], t)
    BY <1>j, ScanBecomes
  <2>2. PoolOK'
    BY <1>j, <2>1, BecomesTyped, PoolStep DEF Scan, Advanced, Holds
  <2> QED
    BY <1>j, <2>1, <2>2, RequestStepTypes DEF Scan, PoolOK
<1>k. ASSUME NEW v \in Visitors, Fail(v)
      PROVE  TypeOK' /\ PoolOK'
  <2>1. PICK t \in RequestState : RequestOK(t) /\ Becomes(v, t) /\ Failed(request[v], t)
    BY <1>k, FailBecomes
  <2>2. ~Holds(t.stage)
    BY <2>1 DEF Failed, Advanced, Holds
  <2>3. PoolOK'
    BY <1>k, <2>1, <2>2, BecomesTyped, PoolStep DEF Fail, Failing, Given, Holds
  <2> QED
    BY <1>k, <2>1, <2>3, RequestStepTypes DEF Fail, PoolOK
<1>l. ASSUME NEW v \in Visitors, Answer(v)
      PROVE  TypeOK' /\ PoolOK'
  <2>1. Becomes(v, NoRequest)
    BY <1>l DEF Answer, Becomes
  <2>2. /\ RequestsTyped' /\ request'[v] = NoRequest
        /\ \A w \in Visitors \ {v} : request'[w] = request[w]
    BY <2>1, BecomesTyped, NoRequestType
  <2>3. seen' \in [Visitors -> Snapshot]
    BY <1>l, AnswerShows
  <2>4. PoolOK'
    BY <1>l, <2>2, NoRequestFields, PoolStep DEF Answer, Holds
  <2> QED
    BY <1>l, <2>2, <2>3, <2>4 DEF Answer, TypeOK, RequestsTyped
<1>m. CASE UNCHANGED vars
  BY <1>m DEF vars, TypeOK, PoolOK, Holding
<1> QED
  BY <1>a, <1>b, <1>c, <1>d, <1>e, <1>f, <1>g, <1>h, <1>i, <1>j, <1>k, <1>l, <1>m
     DEF Next, Environment, Handle

\* Every variable has its type in every reachable state.
THEOREM TypeCorrect == Spec => []TypeOK
<1>1. Spec => [](TypeOK /\ PoolOK)
  BY TypeAndPoolInit, TypeAndPoolStep, PTL DEF Spec
<1> QED
  BY <1>1, PTL

\* Whichever way a statement ends, its connection is back in the pool: every
\* connection in use belongs to a statement that is running (rows.Close).
THEOREM NoConnectionLost == Spec => []ConnectionsReturned
<1>1. Spec => [](TypeOK /\ PoolOK)
  BY TypeAndPoolInit, TypeAndPoolStep, PTL DEF Spec
<1>2. PoolOK => ConnectionsReturned
  BY PoolIsConnectionsReturned DEF PoolOK
<1> QED
  BY <1>1, <1>2, PTL

-----------------------------------------------------------------------------
(* What a step does to one request *)

Moves(r, t) ==
  \/ t = r
  \/ t = NoRequest
  \/ r.stage = "idle" /\ Begun(t)
  \/ Waiting(r, t) /\ r.stage \in {"acquire", "execute", "scan"} /\ t.stage = r.stage
  \/ Waiting(r, t) /\ r.stage = "acquire" /\ t.stage = "execute"
  \/ r.stage = "execute" /\ Executed(r, t)
  \/ r.stage = "scan" /\ SameRun(r, t) /\ SamePanels(r, t) /\ Advanced(r, t)
  \/ r.stage \in {"acquire", "execute", "scan"} /\ Failed(r, t)

LEMMA OneMoves ==
  ASSUME TypeOK, NEW v \in Visitors, NEW w \in Visitors,
         Ask(v) \/ Leave(v) \/ Acquire(v) \/ Execute(v) \/ Scan(v) \/ Fail(v)
  PROVE  Moves(request[w], request'[w]) /\ UNCHANGED <<claims, blocks, seen>>
<1>1. UNCHANGED <<claims, blocks, seen>>
  BY DEF Ask, Leave, Acquire, Execute, Scan, Fail
<1>2. \E t \in RequestState : RequestOK(t) /\ Becomes(v, t) /\ Moves(request[v], t)
  <2>1. CASE Ask(v)
    BY <2>1, AskBecomes DEF Ask, Moves
  <2>2. CASE Leave(v)
    BY <2>2, LeaveBecomes DEF Leave, Moves
  <2>3. CASE Acquire(v)
    BY <2>3, AcquireBecomes DEF Acquire, Moves
  <2>4. CASE Execute(v)
    BY <2>4, ExecuteBecomes DEF Execute, Moves
  <2>5. CASE Scan(v)
    BY <2>5, ScanBecomes DEF Scan, Moves
  <2>6. CASE Fail(v)
    BY <2>6, FailBecomes DEF Fail, Failing, Moves
  <2> QED
    BY <2>1, <2>2, <2>3, <2>4, <2>5, <2>6
<1>3. PICK t \in RequestState : RequestOK(t) /\ Becomes(v, t) /\ Moves(request[v], t)
  BY <1>2
<1>4. request'[v] = t /\ \A u \in Visitors \ {v} : request'[u] = request[u]
  BY <1>3, BecomesTyped
<1>5. \A r : Moves(r, r)
  BY DEF Moves
<1> QED
  BY <1>1, <1>3, <1>4, <1>5

\* Every step of the system leaves the tables alone and moves requests, or is the
\* pollers' and leaves the requests alone.
TablesGoOn ==
  /\ request' = request /\ seen' = seen
  /\ \A b \in Burns : Ranks[claims[b].status] <= Ranks[claims'[b].status]
  /\ Latest(blocks) <= Latest(blocks')

RequestsGoOn ==
  /\ UNCHANGED <<claims, blocks>>
  /\ \A w \in Visitors : Moves(request[w], request'[w])
  /\ \/ seen' = seen
     \/ \E v \in Visitors : Answer(v)

LEMMA StepsGoOn ==
  ASSUME TypeOK, [Next]_vars
  PROVE  TablesGoOn \/ RequestsGoOn
<1>1. \A b \in Burns : Ranks[claims[b].status] \in Int
  BY RanksType DEF TypeOK, Row
<1>2. Latest(blocks) \in Int
  <2>1. Latest(blocks) \in 0..MaxHeight
    BY LatestIsHighest DEF TypeOK
  <2> QED
    BY <2>1, Bounds
<1>3. \A r : Moves(r, r) /\ Moves(r, NoRequest)
  BY DEF Moves
<1>a. CASE Track
  BY <1>a, <1>2, TrackGoesOn DEF Track, TypeOK, TablesGoOn
<1>b. CASE UpsertOotleBlock
  <2>1. blocks \subseteq blocks' /\ blocks' \subseteq 1..MaxHeight
    BY <1>b DEF UpsertOotleBlock, TypeOK
  <2> QED
    BY <1>b, <1>1, <2>1, LatestGrows DEF UpsertOotleBlock, TablesGoOn
<1>c. CASE UNCHANGED <<claims, blocks, request, seen>>
  BY <1>c, <1>3 DEF RequestsGoOn
<1>d. CASE Exit
  BY <1>d, <1>3 DEF Exit, RequestsGoOn
<1>e. ASSUME NEW v \in Visitors,
             Ask(v) \/ Leave(v) \/ Acquire(v) \/ Execute(v) \/ Scan(v) \/ Fail(v)
      PROVE  RequestsGoOn
  BY <1>e, OneMoves DEF RequestsGoOn
<1>f. ASSUME NEW v \in Visitors, Answer(v)
      PROVE  RequestsGoOn
  <2>1. Becomes(v, NoRequest) /\ UNCHANGED <<claims, blocks>>
    BY <1>f DEF Answer, Becomes
  <2>2. request'[v] = NoRequest /\ \A w \in Visitors \ {v} : request'[w] = request[w]
    BY <2>1, BecomesTyped, NoRequestType
  <2> QED
    BY <1>f, <1>3, <2>1, <2>2 DEF RequestsGoOn
<1>g. CASE StopAnswering \/ Recover \/ Signal \/ Start \/ ClosePool \/ UNCHANGED vars
  BY <1>c, <1>g DEF StopAnswering, Recover, Signal, Start, ClosePool, vars
<1> QED
  BY <1>a, <1>b, <1>d, <1>e, <1>f, <1>g DEF Next, Environment, Handle

-----------------------------------------------------------------------------
(* One failing statement costs one panel. *)

LEMMA FailedAsAWhole ==
  ASSUME NEW r \in RequestState, RequestOK(r), r.stage # "idle", StatusCode(r) = 500
  PROVE  r.failed = PanelsOf(r.route)
<1>1. r.failed \subseteq PanelsOf(r.route)
  BY PlaceInRoute
<1>2. CASE r.route = "tip_info" /\ Cardinality(r.failed) = 3
  <2> DEFINE panels == {"blocks", "summary", "stuck"}
  <2>1. IsFiniteSet({"blocks"}) /\ Cardinality({"blocks"}) = 1
    BY FS_Singleton
  <2>2. IsFiniteSet({"blocks"} \cup {"summary"}) /\ Cardinality({"blocks"} \cup {"summary"}) = 2
    BY <2>1, FS_AddElement
  <2>3. /\ IsFiniteSet({"blocks"} \cup {"summary"} \cup {"stuck"})
        /\ Cardinality({"blocks"} \cup {"summary"} \cup {"stuck"}) = 3
    BY <2>2, FS_AddElement
  <2>4. panels = {"blocks"} \cup {"summary"} \cup {"stuck"}
    OBVIOUS
  <2>5. PanelsOf(r.route) = panels /\ r.failed \in SUBSET panels
    BY <1>1, <1>2, PanelsOfRoutes
  <2>6. IsFiniteSet(panels) /\ Cardinality(panels) = 3
    BY <2>3, <2>4
  <2> HIDE DEF panels
  <2>7. panels = r.failed
    BY <1>2, <2>5, <2>6, FS_Subset
  <2> QED
    BY <2>5, <2>7
<1>3. CASE r.route \in {"burn_claims", "validators"} /\ r.failed # {}
  BY <1>1, <1>3, PanelsOfRoutes
<1> QED
  BY <1>2, <1>3 DEF StatusCode

FailureIsWhole(r) == r.stage = "answered" /\ r.status = 500 => r.failed = PanelsOf(r.route)

LEMMA AdvancedFailure ==
  ASSUME NEW r, NEW t \in RequestState, RequestOK(t), Advanced(r, t)
  PROVE  FailureIsWhole(t)
<1>1. CASE t.stage = "acquire"
  BY <1>1 DEF FailureIsWhole
<1>2. CASE t.stage = "answered" /\ t.status = StatusCode(t)
  <2>1. t.stage # "idle"
    BY <1>2
  <2>2. StatusCode(t) = 500 => t.failed = PanelsOf(t.route)
    BY <2>1, FailedAsAWhole
  <2> QED
    BY <1>2, <2>2 DEF FailureIsWhole
<1> QED
  BY <1>1, <1>2 DEF Advanced

LEMMA MovesFailure ==
  ASSUME NEW r \in RequestState, NEW t \in RequestState, RequestOK(t), Moves(r, t),
         FailureIsWhole(r)
  PROVE  FailureIsWhole(t)
<1>1. CASE t = r
  BY <1>1
<1>2. CASE t.stage # "answered"
  BY <1>2 DEF FailureIsWhole
<1>3. CASE Advanced(r, t)
  BY <1>3, AdvancedFailure
<1>4. t = NoRequest => t.stage # "answered"
  BY NoRequestFields
<1>5. Begun(t) \/ Executed(r, t) => t.stage # "answered"
  BY DEF Begun, Executed
<1>6. Failed(r, t) => Advanced(r, t)
  BY DEF Failed
<1> QED
  BY <1>1, <1>2, <1>3, <1>4, <1>5, <1>6 DEF Moves

LEMMA FailuresContainedStep ==
  TypeOK /\ TypeOK' /\ FailuresAreContained /\ [Next]_vars => FailuresAreContained'
<1> SUFFICES ASSUME TypeOK, TypeOK', FailuresAreContained, [Next]_vars,
                    NEW v \in Visitors
             PROVE  FailureIsWhole(request'[v])
  BY DEF FailuresAreContained, FailureIsWhole
<1>1. /\ request[v] \in RequestState /\ request'[v] \in RequestState
      /\ RequestOK(request'[v])
  BY DEF TypeOK, RequestOK
<1>2. FailureIsWhole(request[v])
  BY DEF FailuresAreContained, FailureIsWhole
<1>3. Moves(request[v], request'[v])
  BY StepsGoOn DEF TablesGoOn, RequestsGoOn, Moves
<1> QED
  BY <1>1, <1>2, <1>3, MovesFailure

\* A page fails as a whole only when nothing of it could be loaded.
THEOREM OnePanelEach == Spec => []FailuresAreContained
<1>1. Init => FailuresAreContained
  BY NoRequestFields DEF Init, FailuresAreContained
<1>2. Spec => [](TypeOK /\ PoolOK)
  BY TypeAndPoolInit, TypeAndPoolStep, PTL DEF Spec
<1> QED
  BY <1>1, <1>2, FailuresContainedStep, PTL DEF Spec

-----------------------------------------------------------------------------
(* What a page shows was so while the request ran. *)

\* What a visitor knows has not been passed by the tables, and a request began
\* with no less than the visitor knew.
SeenSoFar(v) ==
  /\ seen[v].tip <= Latest(blocks)
  /\ \A b \in Burns : Ranks[seen[v].status[b]] <= Ranks[claims[b].status]

SinceAsked(v) ==
  LET since == request[v].since IN
    /\ seen[v].tip <= since.tip /\ since.tip <= Latest(blocks)
    /\ \A b \in Burns : /\ Ranks[seen[v].status[b]] <= Ranks[since.status[b]]
                        /\ Ranks[since.status[b]] <= Ranks[claims[b].status]

\* The statement of a panel has been executed.
TipRead(r) == r.route \in Overview /\ (r.stage \in {"scan", "answered"} \/ r.at > 1)

ListRead(r) ==
  /\ r.stage = "answered" \/ (r.stage = "scan" /\ r.at = Len(StatementsOf(r.route)))
  /\ \/ r.route \in Overview /\ "stuck" \notin r.failed
     \/ r.route = "burn_claims" /\ "claims_list" \notin r.failed

RowsAreTrue(r) ==
  \A row \in r.listed :
    Ranks[row[2]] \in Ranks[r.since.status[row[1]]]..Ranks[claims[row[1]].status]

NoneLeftOut(r) == \A b \in Burns : MatchedThroughout(r, b) => \E row \in r.listed : row[1] = b

ReadIsTrue(r) ==
  /\ TipRead(r) /\ "blocks" \notin r.failed => TipIsTrue(r)
  /\ RowsAreTrue(r)
  /\ ListRead(r) => NoneLeftOut(r)

TruthInv ==
  \A v \in Visitors :
    SeenSoFar(v) /\ (request[v].stage # "idle" => SinceAsked(v) /\ ReadIsTrue(request[v]))

\* Ranks as numbers, for everything that has one.
LEMMA RankTypes ==
  ASSUME TypeOK, NEW v \in Visitors
  PROVE  /\ \A b \in Burns : /\ claims[b].status \in Statuses
                             /\ seen[v].status[b] \in Statuses
                             /\ request[v].since.status[b] \in Statuses
         /\ \A row \in request[v].listed : row[1] \in Burns /\ row[2] \in Statuses
         /\ {seen[v].tip, request[v].since.tip, request[v].latest, Latest(blocks)} \subseteq Int
<1>1. claims \in [Burns -> Row] /\ seen[v] \in Snapshot /\ request[v] \in RequestState
  BY DEF TypeOK
<1>2. request[v].since \in Snapshot
  BY <1>1 DEF RequestState
<1>3. \A row \in request[v].listed : row[1] \in Burns /\ row[2] \in Statuses
  BY <1>1 DEF RequestState
<1>4. Latest(blocks) \in 0..MaxHeight
  BY LatestIsHighest DEF TypeOK
<1>5. request[v].latest \in 0..MaxHeight
  BY <1>1 DEF RequestState
<1>6. \A b \in Burns : claims[b].status \in Statuses
  BY <1>1 DEF Row
<1>7. /\ \A b \in Burns : seen[v].status[b] \in Statuses /\ request[v].since.status[b] \in Statuses
      /\ seen[v].tip \in 0..MaxHeight /\ request[v].since.tip \in 0..MaxHeight
  BY <1>1, <1>2 DEF Snapshot
<1>8. \A n \in 0..MaxHeight : n \in Int
  BY Bounds
<1> QED
  BY <1>3, <1>4, <1>5, <1>6, <1>7, <1>8

LEMMA RanksAreNumbers ==
  /\ \A s \in Statuses : Ranks[s] \in Int
  /\ \A s, t \in Statuses : Ranks[s] = Ranks[t] => s = t
  /\ \A s \in Statuses : s # "absent" => Ranks[s] > 0
  /\ Ranks["absent"] = 0
<1>1. \A s \in Statuses : Ranks[s] \in 0..3
  BY RanksType
<1>2. "absent" \in Statuses
  BY DEF Statuses
<1> QED
  BY <1>1, <1>2, RanksType

\* The tables moving on takes nothing away from what was read.
LEMMA TruthSurvivesTables ==
  ASSUME TypeOK, TypeOK', TruthInv, TablesGoOn
  PROVE  TruthInv'
<1> SUFFICES ASSUME NEW v \in Visitors
             PROVE  /\ SeenSoFar(v)'
                    /\ request[v].stage # "idle" => SinceAsked(v)' /\ ReadIsTrue(request[v])'
  BY DEF TruthInv, TablesGoOn
<1> DEFINE r == request[v]
<1>1. request' = request /\ seen' = seen
  BY DEF TablesGoOn
<1>2. /\ Latest(blocks) <= Latest(blocks') /\ Latest(blocks) \in Int /\ Latest(blocks') \in Int
      /\ seen[v].tip \in Int /\ r.since.tip \in Int /\ r.latest \in Int
  <2>1. Latest(blocks') \in 0..MaxHeight
    BY LatestIsHighest DEF TypeOK
  <2>2. Latest(blocks') \in Int
    BY <2>1, Bounds
  <2>3. Latest(blocks) <= Latest(blocks')
    BY DEF TablesGoOn
  <2> QED
    BY <2>2, <2>3, RankTypes
<1>3. ASSUME NEW b \in Burns
      PROVE  /\ Ranks[claims[b].status] <= Ranks[claims'[b].status]
             /\ Ranks[claims[b].status] \in Int /\ Ranks[claims'[b].status] \in Int
             /\ Ranks[seen[v].status[b]] \in Int /\ Ranks[r.since.status[b]] \in Int
  <2>1. claims'[b].status \in Statuses
    BY DEF TypeOK, Row
  <2> QED
    BY <2>1, RankTypes, RanksAreNumbers DEF TablesGoOn
<1>4. SeenSoFar(v)'
  BY <1>1, <1>2, <1>3 DEF SeenSoFar, TruthInv
<1> SUFFICES ASSUME r.stage # "idle"
             PROVE  SinceAsked(v)' /\ ReadIsTrue(request[v])'
  BY <1>4
<1>5. SinceAsked(v) /\ ReadIsTrue(r)
  BY DEF TruthInv
<1>6. SinceAsked(v)'
  BY <1>1, <1>2, <1>3, <1>5 DEF SinceAsked
<1>7. TipIsTrue(r) => TipIsTrue(r)'
  BY <1>1, <1>2 DEF TipIsTrue
<1>8. RowsAreTrue(r)'
  <2>1. ASSUME NEW row \in r.listed
        PROVE  Ranks[row[2]] \in Ranks[r.since.status[row[1]]]..Ranks[claims'[row[1]].status]
    <3>1. Ranks[row[2]] \in Ranks[r.since.status[row[1]]]..Ranks[claims[row[1]].status]
      BY <1>5 DEF ReadIsTrue, RowsAreTrue
    <3>2. row[1] \in Burns /\ Ranks[row[2]] \in Int
      BY RankTypes, RanksAreNumbers
    <3> QED
      BY <1>3, <3>1, <3>2
  <2> QED
    BY <1>1, <2>1 DEF RowsAreTrue
<1>9. ASSUME NEW b \in Burns, MatchedThroughout(r, b)'
      PROVE  MatchedThroughout(r, b)
  <2>1. CASE FilterOf(r) = ""
    BY <1>1, <1>9, <2>1 DEF MatchedThroughout, FilterOf
  <2>2. CASE FilterOf(r) # ""
    <3>1. /\ r.since.status[b] # "absent"
          /\ r.since.status[b] = FilterOf(r) /\ claims'[b].status = FilterOf(r)
      BY <1>1, <1>9, <2>2 DEF MatchedThroughout, FilterOf
    <3>2. Ranks[r.since.status[b]] <= Ranks[claims[b].status]
      BY <1>5 DEF SinceAsked
    <3>3. claims[b].status = r.since.status[b]
      <4>1. claims'[b].status = r.since.status[b]
        BY <3>1
      <4>2. Ranks[claims[b].status] = Ranks[r.since.status[b]]
        BY <1>3, <3>2, <4>1
      <4> QED
        BY <4>2, RankTypes, RanksAreNumbers
    <3> QED
      BY <3>1, <3>3 DEF MatchedThroughout
  <2> QED
    BY <2>1, <2>2
<1>10. NoneLeftOut(r) => NoneLeftOut(r)'
  BY <1>1, <1>9 DEF NoneLeftOut
<1> QED
  BY <1>1, <1>5, <1>6, <1>7, <1>8, <1>10 DEF ReadIsTrue, TipRead, ListRead

LEMMA Places ==
  ASSUME NEW r \in RequestState, RequestOK(r), r.stage # "idle"
  PROVE  LET statement == StatementsOf(r.route)[r.at]
             len == Len(StatementsOf(r.route))
         IN  /\ statement = "blocks" <=> (r.at = 1 /\ r.route \in Overview)
             /\ statement = "stuck" <=> (r.at = len /\ r.route \in Overview)
             /\ statement = "claims_list" <=> r.route = "burn_claims"
             /\ r.route = "burn_claims" => r.at = len
             /\ r.at \in Nat /\ r.at >= 1 /\ len \in Nat
             /\ r.route \in Overview => r.route # "health"
<1>1. Shape(r.route) /\ r.at \in 1..Len(StatementsOf(r.route))
  BY PlaceInRoute
<1>2. r.route = "burn_claims" => Len(StatementsOf(r.route)) = 1
  BY <1>1 DEF Shape, Overview
<1> QED
  BY <1>1, <1>2 DEF Shape, Overview

\* Nothing of a request that has been waiting, or has had its panels settled, is
\* less true than it was.
LEMMA SameRead ==
  ASSUME NEW r, NEW t, SameRun(r, t), SamePanels(r, t), ReadIsTrue(r),
         TipRead(t) => TipRead(r), ListRead(t) => ListRead(r)
  PROVE  ReadIsTrue(t)
<1>1. TipIsTrue(r) => TipIsTrue(t)
  BY DEF TipIsTrue, SameRun, SamePanels
<1>2. RowsAreTrue(t)
  BY DEF ReadIsTrue, RowsAreTrue, SameRun, SamePanels
<1>3. NoneLeftOut(r) => NoneLeftOut(t)
  BY DEF NoneLeftOut, MatchedThroughout, FilterOf, SameRun, SamePanels
<1> QED
  BY <1>1, <1>2, <1>3 DEF ReadIsTrue, SamePanels

\* What a statement has just read is true of this moment.
LEMMA ExecutedIsTrue ==
  ASSUME TypeOK, NEW v \in Visitors, NEW t, RequestOK(request[v]),
         SinceAsked(v), ReadIsTrue(request[v]),
         request[v].stage = "execute", Executed(request[v], t)
  PROVE  ReadIsTrue(t)
<1> DEFINE r == request[v]
           statement == StatementsOf(r.route)[r.at]
<1>1. r \in RequestState /\ RequestOK(r) /\ r.stage # "idle"
  BY DEF TypeOK
<1>2. /\ statement = "blocks" <=> (r.at = 1 /\ r.route \in Overview)
      /\ statement = "stuck" <=> (r.at = Len(StatementsOf(r.route)) /\ r.route \in Overview)
      /\ statement = "claims_list" <=> r.route = "burn_claims"
      /\ r.at \in Nat /\ r.at >= 1
  BY <1>1, Places
<1>3. /\ t.stage = "scan" /\ SameRun(r, t) /\ t.at = r.at /\ t.failed = r.failed
      /\ t.latest = IF statement = "blocks" THEN Latest(blocks) ELSE r.latest
      /\ t.listed = CASE statement = "stuck"       -> ListBurnClaims("stuck")
                      [] statement = "claims_list" -> ListBurnClaims(r.filter)
                      [] OTHER                     -> r.listed
  BY DEF Executed
<1> HIDE DEF statement
<1>4. ASSUME TipRead(t), "blocks" \notin t.failed
      PROVE  TipIsTrue(t)
  <2>1. CASE statement = "blocks"
    <3>1. r.since.tip <= Latest(blocks) /\ r.since.tip \in Int /\ Latest(blocks) \in Int
      BY RankTypes DEF SinceAsked
    <3> QED
      BY <1>3, <2>1, <3>1 DEF TipIsTrue, SameRun
  <2>2. CASE statement # "blocks"
    <3>1. TipRead(r)
      BY <1>2, <1>3, <1>4, <2>2 DEF TipRead, SameRun
    <3> QED
      BY <1>3, <1>4, <2>2, <3>1 DEF ReadIsTrue, TipIsTrue, SameRun
  <2> QED
    BY <2>1, <2>2
<1>5. ASSUME NEW filter, t.listed = ListBurnClaims(filter)
      PROVE  RowsAreTrue(t)
  <2>1. ASSUME NEW row \in ListBurnClaims(filter)
        PROVE  Ranks[row[2]] \in Ranks[r.since.status[row[1]]]..Ranks[claims[row[1]].status]
    <3>1. PICK b \in Burns : row = <<b, claims[b].status>>
      BY DEF ListBurnClaims
    <3>2. /\ Ranks[r.since.status[b]] <= Ranks[claims[b].status]
          /\ Ranks[r.since.status[b]] \in Int /\ Ranks[claims[b].status] \in Int
      BY RankTypes, RanksAreNumbers DEF SinceAsked
    <3> QED
      BY <3>1, <3>2
  <2> QED
    BY <1>3, <1>5, <2>1 DEF RowsAreTrue, SameRun
<1>6. RowsAreTrue(t)
  <2>1. CASE t.listed = r.listed
    BY <1>3, <2>1 DEF ReadIsTrue, RowsAreTrue, SameRun
  <2> QED
    BY <1>3, <1>5, <2>1
<1>7. ASSUME t.listed = ListBurnClaims(FilterOf(r))
      PROVE  NoneLeftOut(t)
  <2>1. SUFFICES ASSUME NEW b \in Burns, MatchedThroughout(t, b)
                 PROVE  \E row \in t.listed : row[1] = b
    BY DEF NoneLeftOut
  <2>2. /\ r.since.status[b] # "absent"
        /\ FilterOf(r) \in {"", claims[b].status}
    BY <1>3, <2>1 DEF MatchedThroughout, FilterOf, SameRun
  <2>3. claims[b].status # "absent"
    <3>1. Ranks[r.since.status[b]] <= Ranks[claims[b].status]
      BY DEF SinceAsked
    <3>2. r.since.status[b] \in Statuses /\ claims[b].status \in Statuses
      BY RankTypes
    <3>3. Ranks[r.since.status[b]] > 0
      BY <2>2, <3>2, RanksAreNumbers
    <3>4. Ranks[r.since.status[b]] \in Int /\ Ranks[claims[b].status] \in Int
      BY <3>2, RanksAreNumbers
    <3>5. Ranks[claims[b].status] # 0
      BY <3>1, <3>3, <3>4
    <3> QED
      BY <3>5, RanksAreNumbers
  <2>4. <<b, claims[b].status>> \in ListBurnClaims(FilterOf(r))
    BY <2>2, <2>3 DEF ListBurnClaims, Recorded
  <2> QED
    BY <1>7, <2>4
<1>8. ListRead(t) => t.listed = ListBurnClaims(FilterOf(r))
  <2>1. CASE r.route \in Overview
    BY <1>2, <1>3, <2>1 DEF ListRead, SameRun, FilterOf, Overview
  <2>2. CASE r.route = "burn_claims"
    BY <1>2, <1>3, <2>2 DEF FilterOf
  <2> QED
    BY <1>3, <2>1, <2>2 DEF ListRead, SameRun
<1> QED
  BY <1>4, <1>6, <1>7, <1>8 DEF ReadIsTrue

\* A statement that fails settles its panel, and leaves the others as they were.
LEMMA FailedIsTrue ==
  ASSUME NEW r \in RequestState, RequestOK(r), NEW t, ReadIsTrue(r),
         r.stage \in {"acquire", "execute", "scan"}, Failed(r, t)
  PROVE  ReadIsTrue(t)
<1> DEFINE statement == StatementsOf(r.route)[r.at]
<1>1. r.stage # "idle"
  OBVIOUS
<1>2. /\ statement = "blocks" <=> (r.at = 1 /\ r.route \in Overview)
      /\ statement = "stuck" <=> (r.at = Len(StatementsOf(r.route)) /\ r.route \in Overview)
      /\ statement = "claims_list" <=> r.route = "burn_claims"
      /\ r.at \in Nat /\ r.at >= 1
      /\ r.route \in Overview => r.route # "health"
  BY <1>1, Places
<1>3. /\ SameRun(r, t) /\ Advanced(r, t)
      /\ t.failed = r.failed \cup {PanelOf(statement)}
      /\ t.latest = IF statement = "blocks" THEN 0 ELSE r.latest
      /\ t.listed = IF statement \in {"stuck", "claims_list"} THEN {} ELSE r.listed
  BY DEF Failed
<1> HIDE DEF statement
<1>4. /\ statement = "blocks" => "blocks" \in t.failed
      /\ statement = "stuck" => "stuck" \in t.failed
      /\ statement = "claims_list" => "claims_list" \in t.failed
  BY <1>3 DEF PanelOf
<1>5. ASSUME TipRead(t), "blocks" \notin t.failed
      PROVE  TipIsTrue(t)
  <2>1. statement # "blocks" /\ r.route \in Overview /\ r.at > 1
    BY <1>2, <1>3, <1>4, <1>5 DEF TipRead, SameRun
  <2> QED
    BY <1>3, <1>5, <2>1 DEF ReadIsTrue, TipRead, TipIsTrue, SameRun
<1>6. RowsAreTrue(t)
  BY <1>3 DEF ReadIsTrue, RowsAreTrue, SameRun
<1>7. ~ListRead(t)
  <2>1. SUFFICES ASSUME ListRead(t) PROVE FALSE
    OBVIOUS
  <2>2. t.stage = "answered"
    BY <1>3, <2>1 DEF ListRead, Advanced
  <2>3. r.route # "health" => r.at = Len(StatementsOf(r.route))
    BY <1>3, <2>2 DEF Advanced
  <2> QED
    BY <1>2, <1>3, <1>4, <2>1, <2>3 DEF ListRead, SameRun
<1> QED
  BY <1>5, <1>6, <1>7 DEF ReadIsTrue

\* A request that has just begun has read nothing.
LEMMA BegunIsTrue ==
  ASSUME NEW t, Begun(t)
  PROVE  ReadIsTrue(t)
BY DEF Begun, ReadIsTrue, TipRead, ListRead, RowsAreTrue

LEMMA MovesKeepTruth ==
  ASSUME TypeOK, NEW v \in Visitors, NEW t,
         request[v].stage # "idle" => SinceAsked(v) /\ ReadIsTrue(request[v]),
         Moves(request[v], t), t.stage # "idle"
  PROVE  ReadIsTrue(t)
<1> DEFINE r == request[v]
<1>1. r \in RequestState /\ RequestOK(r)
  BY DEF TypeOK
<1>2. CASE t = r
  BY <1>2
<1>3. CASE r.stage = "idle" /\ Begun(t)
  BY <1>3, BegunIsTrue
<1>4. CASE Waiting(r, t) /\ r.stage \in {"acquire", "execute", "scan"} /\ t.stage = r.stage
  <2>1. (TipRead(t) => TipRead(r)) /\ (ListRead(t) => ListRead(r))
    BY <1>4 DEF Waiting, SameRun, SamePanels, TipRead, ListRead
  <2> QED
    BY <1>4, <2>1, SameRead DEF Waiting
<1>5. CASE Waiting(r, t) /\ r.stage = "acquire" /\ t.stage = "execute"
  <2>1. (TipRead(t) => TipRead(r)) /\ (ListRead(t) => ListRead(r))
    BY <1>5 DEF Waiting, SameRun, SamePanels, TipRead, ListRead
  <2> QED
    BY <1>5, <2>1, SameRead DEF Waiting
<1>6. CASE r.stage = "execute" /\ Executed(r, t)
  BY <1>1, <1>6, ExecutedIsTrue
<1>7. CASE r.stage = "scan" /\ SameRun(r, t) /\ SamePanels(r, t) /\ Advanced(r, t)
  <2>1. r.at \in Nat
    BY <1>1 DEF RequestState
  <2>2. TipRead(t) => TipRead(r)
    BY <1>7 DEF SameRun, TipRead
  <2>3. ListRead(t) => r.at = Len(StatementsOf(r.route))
    <3>1. SUFFICES ASSUME ListRead(t) PROVE r.at = Len(StatementsOf(r.route))
      OBVIOUS
    <3>2. r.route # "health"
      BY <1>7, <3>1 DEF ListRead, SameRun, Overview
    <3>3. t.stage = "answered"
      BY <1>7, <3>1 DEF ListRead, Advanced
    <3> QED
      BY <1>7, <3>2, <3>3 DEF Advanced
  <2>4. ListRead(t) => ListRead(r)
    BY <1>7, <2>3 DEF ListRead, SameRun, SamePanels
  <2> QED
    BY <1>7, <2>2, <2>4, SameRead
<1>8. CASE r.stage \in {"acquire", "execute", "scan"} /\ Failed(r, t)
  BY <1>1, <1>8, FailedIsTrue
<1> QED
  BY <1>2, <1>3, <1>4, <1>5, <1>6, <1>7, <1>8, NoRequestFields DEF Moves

\* What an answer tells is not before what the visitor knew, and is so by now.
LEMMA AnswerGoesOn ==
  ASSUME TypeOK, TypeOK', TruthInv, NEW v \in Visitors, Answer(v)
  PROVE  /\ seen[v].tip <= seen'[v].tip /\ seen'[v].tip <= Latest(blocks)
         /\ \A b \in Burns : /\ Ranks[seen[v].status[b]] <= Ranks[seen'[v].status[b]]
                             /\ Ranks[seen'[v].status[b]] <= Ranks[claims[b].status]
<1> DEFINE r == request[v]
<1>1. r.stage = "answered" /\ r \in RequestState /\ RequestOK(r)
  BY DEF Answer, TypeOK
<1>2. SeenSoFar(v) /\ SinceAsked(v) /\ ReadIsTrue(r)
  BY <1>1 DEF TruthInv
<1>3. /\ \/ seen'[v].tip = seen[v].tip
         \/ "blocks" \in PanelsOf(r.route) \ r.failed /\ seen'[v].tip = r.latest
      /\ \A b \in Burns :
           \/ seen'[v].status[b] = seen[v].status[b]
           \/ \E row \in r.listed : row[1] = b /\ seen'[v].status[b] = row[2]
  BY AnswerShows
<1>4. /\ seen[v].tip \in Int /\ r.since.tip \in Int /\ r.latest \in Int
      /\ Latest(blocks) \in Int
  BY RankTypes
<1>5. seen[v].tip <= seen'[v].tip /\ seen'[v].tip <= Latest(blocks)
  <2>1. CASE seen'[v].tip = seen[v].tip
    BY <1>2, <1>4, <2>1 DEF SeenSoFar
  <2>2. CASE "blocks" \in PanelsOf(r.route) \ r.failed /\ seen'[v].tip = r.latest
    <3>1. r.route \in AllRoutes
      BY <1>1, PlaceInRoute
    <3>2. r.route \in Overview
      BY <2>2, <3>1, PanelsOfRoutes DEF AllRoutes, Overview
    <3>3. TipIsTrue(r)
      BY <1>1, <1>2, <2>2, <3>2 DEF ReadIsTrue, TipRead
    <3> QED
      BY <1>2, <1>4, <2>2, <3>3 DEF SinceAsked, TipIsTrue
  <2> QED
    BY <1>3, <2>1, <2>2
<1>6. ASSUME NEW b \in Burns
      PROVE  /\ Ranks[seen[v].status[b]] <= Ranks[seen'[v].status[b]]
             /\ Ranks[seen'[v].status[b]] <= Ranks[claims[b].status]
  <2>1. /\ Ranks[seen[v].status[b]] \in Int /\ Ranks[claims[b].status] \in Int
        /\ Ranks[r.since.status[b]] \in Int
    BY RankTypes, RanksAreNumbers
  <2>2. CASE seen'[v].status[b] = seen[v].status[b]
    BY <1>2, <2>1, <2>2 DEF SeenSoFar
  <2>3. CASE \E row \in r.listed : row[1] = b /\ seen'[v].status[b] = row[2]
    <3>1. PICK row \in r.listed : row[1] = b /\ seen'[v].status[b] = row[2]
      BY <2>3
    <3>2. Ranks[row[2]] \in Ranks[r.since.status[b]]..Ranks[claims[b].status]
      BY <1>2, <3>1 DEF ReadIsTrue, RowsAreTrue
    <3>3. Ranks[row[2]] \in Int
      BY RankTypes, RanksAreNumbers
    <3>4. Ranks[seen[v].status[b]] <= Ranks[r.since.status[b]]
      BY <1>2 DEF SinceAsked
    <3> QED
      BY <2>1, <3>1, <3>2, <3>3, <3>4
  <2> QED
    BY <1>3, <2>2, <2>3
<1> QED
  BY <1>5, <1>6

LEMMA TruthSurvivesRequests ==
  ASSUME TypeOK, TypeOK', TruthInv, RequestsGoOn
  PROVE  TruthInv'
<1> SUFFICES ASSUME NEW v \in Visitors
             PROVE  /\ SeenSoFar(v)'
                    /\ request'[v].stage # "idle" => SinceAsked(v)' /\ ReadIsTrue(request[v])'
  BY DEF TruthInv
<1> DEFINE r == request[v]
           t == request'[v]
<1>1. claims' = claims /\ blocks' = blocks /\ Moves(r, t)
  BY DEF RequestsGoOn
<1>2. SeenSoFar(v) /\ (r.stage # "idle" => SinceAsked(v) /\ ReadIsTrue(r))
  BY DEF TruthInv
<1>3. CASE seen'[v] = seen[v]
  <2>1. SeenSoFar(v)'
    BY <1>1, <1>2, <1>3 DEF SeenSoFar
  <2> SUFFICES ASSUME t.stage # "idle"
               PROVE  SinceAsked(v)' /\ ReadIsTrue(request[v])'
    BY <2>1
  <2>2. ReadIsTrue(t)
    BY <1>1, <1>2, MovesKeepTruth
  <2>3. ReadIsTrue(request[v])'
    BY <1>1, <2>2
       DEF ReadIsTrue, TipRead, ListRead, TipIsTrue, RowsAreTrue, NoneLeftOut, MatchedThroughout
  <2>4. SinceAsked(v)'
    <3>1. CASE Begun(t)
      <4>1. t.since.tip = Latest(blocks) /\ \A b \in Burns : t.since.status[b] = claims[b].status
        BY <3>1 DEF Begun, StatusOf
      <4>2. Latest(blocks) \in Int /\ \A b \in Burns : Ranks[claims[b].status] \in Int
        BY RankTypes, RanksAreNumbers
      <4> QED
        BY <1>1, <1>2, <1>3, <4>1, <4>2 DEF SeenSoFar, SinceAsked
    <3>2. CASE r.stage # "idle" /\ t.since = r.since
      BY <1>1, <1>2, <1>3, <3>2 DEF SinceAsked
    <3>3. Begun(t) \/ (r.stage # "idle" /\ t.since = r.since)
      BY <1>1, NoRequestFields DEF Moves, Waiting, Executed, Failed, SameRun
    <3> QED
      BY <3>1, <3>2, <3>3
  <2> QED
    BY <2>3, <2>4
<1>4. CASE Answer(v)
  <2>1. Becomes(v, NoRequest)
    BY <1>4 DEF Answer, Becomes
  <2>2. t.stage = "idle"
    BY <2>1, BecomesTyped, NoRequestType, NoRequestFields
  <2>3. SeenSoFar(v)'
    BY <1>1, <1>4, AnswerGoesOn DEF SeenSoFar
  <2> QED
    BY <2>2, <2>3
<1>5. seen'[v] = seen[v] \/ Answer(v)
  BY AnswerShows DEF RequestsGoOn
<1> QED
  BY <1>3, <1>4, <1>5

LEMMA TruthStep == TypeOK /\ TypeOK' /\ TruthInv /\ [Next]_vars => TruthInv'
BY StepsGoOn, TruthSurvivesTables, TruthSurvivesRequests

LEMMA TruthInit == Init => TruthInv
<1> SUFFICES ASSUME Init, NEW v \in Visitors PROVE SeenSoFar(v) /\ request[v].stage = "idle"
  BY DEF TruthInv
<1>1. request[v].stage = "idle"
  BY NoRequestFields DEF Init
<1>2. seen[v].tip = 0 /\ Latest(blocks) = 0
  BY DEF Init, Latest
<1>3. \A b \in Burns : seen[v].status[b] = claims[b].status /\ claims[b].status \in Statuses
  BY EmptyTableType DEF Init, StatusOf, Row
<1>4. \A b \in Burns : Ranks[claims[b].status] \in Int
  BY <1>3, RanksAreNumbers
<1> QED
  BY <1>1, <1>2, <1>3, <1>4 DEF SeenSoFar

LEMMA TruthMeans == TypeOK /\ TruthInv => PanelsAreTrue
<1> SUFFICES ASSUME TypeOK, TruthInv, NEW v \in Visitors, request[v].stage = "answered"
             PROVE  LET r == request[v]
                        shown == PanelsOf(r.route) \ r.failed
                    IN  /\ "blocks" \in shown => TipIsTrue(r)
                        /\ "stuck" \in shown \/ "claims_list" \in shown => ListIsTrue(r)
  BY DEF PanelsAreTrue
<1> DEFINE r == request[v]
<1>1. r \in RequestState /\ RequestOK(r) /\ ReadIsTrue(r)
  BY DEF TypeOK, TruthInv
<1>2. r.route \in AllRoutes
  BY <1>1, PlaceInRoute
<1>3. /\ "blocks" \in PanelsOf(r.route) => r.route \in Overview
      /\ "stuck" \in PanelsOf(r.route) => r.route \in Overview
      /\ "claims_list" \in PanelsOf(r.route) => r.route = "burn_claims"
  BY <1>2, PanelsOfRoutes DEF AllRoutes, Overview
<1>4. "blocks" \in PanelsOf(r.route) \ r.failed => TipIsTrue(r)
  BY <1>1, <1>3 DEF ReadIsTrue, TipRead
<1>5. ASSUME \/ "stuck" \in PanelsOf(r.route) \ r.failed
             \/ "claims_list" \in PanelsOf(r.route) \ r.failed
      PROVE  ListIsTrue(r)
  BY <1>1, <1>3, <1>5 DEF ReadIsTrue, ListRead, RowsAreTrue, NoneLeftOut, ListIsTrue
<1> QED
  BY <1>4, <1>5

\* What a page shows without an error was so while its request ran, although its
\* statements run one after the other and the tables move on between them.
THEOREM PagesTellTheTruth == Spec => []PanelsAreTrue
<1>1. Spec => [](TypeOK /\ PoolOK)
  BY TypeAndPoolInit, TypeAndPoolStep, PTL DEF Spec
<1>2. Spec => []TruthInv
  BY <1>1, TruthInit, TruthStep, PTL DEF Spec
<1> QED
  BY <1>1, <1>2, TruthMeans, PTL

\* What one visitor is shown never goes back, whichever pages it asks for.
THEOREM ShownGoesOn == Spec => NothingGoesBack
<1>1. Spec => [](TypeOK /\ PoolOK)
  BY TypeAndPoolInit, TypeAndPoolStep, PTL DEF Spec
<1>2. Spec => []TruthInv
  BY <1>1, TruthInit, TruthStep, PTL DEF Spec
<1>3. TypeOK /\ TypeOK' /\ TruthInv /\ [Next]_vars =>
        [\A v \in Visitors :
           /\ seen[v].tip <= seen'[v].tip
           /\ \A b \in Burns : Ranks[seen[v].status[b]] <= Ranks[seen'[v].status[b]]]_vars
  <2> SUFFICES ASSUME TypeOK, TypeOK', TruthInv, [Next]_vars, NEW v \in Visitors
               PROVE  /\ seen[v].tip <= seen'[v].tip
                      /\ \A b \in Burns : Ranks[seen[v].status[b]] <= Ranks[seen'[v].status[b]]
    OBVIOUS
  <2>1. CASE seen'[v] = seen[v]
    <3>1. seen[v].tip \in Int /\ \A b \in Burns : Ranks[seen[v].status[b]] \in Int
      BY RankTypes, RanksAreNumbers
    <3> QED
      BY <2>1, <3>1
  <2>2. CASE Answer(v)
    BY <2>2, AnswerGoesOn
  <2> QED
    BY <2>1, <2>2, StepsGoOn, AnswerShows DEF TablesGoOn, RequestsGoOn
<1> QED
  BY <1>1, <1>2, <1>3, PTL DEF Spec, NothingGoesBack

-----------------------------------------------------------------------------
(* A request only goes forward. *)

\* t is further on in the handler of the same route than r: at a later statement,
\* at a later stage of the same one, or answered.
FurtherOn(r, t) ==
  /\ t.route = r.route
  /\ \/ t.stage = "answered" /\ r.stage # "answered"
     \/ t.stage = "acquire" /\ t.at > r.at
     \/ /\ t.at = r.at
        /\ \/ r.stage = "acquire" /\ t.stage = "execute"
           \/ r.stage = "execute" /\ t.stage = "scan"

SamePlace(r, t) == t.route = r.route /\ t.at = r.at /\ t.stage = r.stage

\* Each step of a handler takes its request further on in a route of at most five
\* statements, or away from an answered request; and nothing else, neither the
\* database's refusals nor other requests, sets a request back.  So no handler
\* tries again, and EveryRequestEnds can only fail by a step that never comes.
RequestsGoForward ==
  [][\A v \in Visitors :
       LET r == request[v]
           t == request'[v]
       IN  /\ Handle(v) => \/ FurtherOn(r, t)
                           \/ r.stage = "answered" /\ t.stage = "idle"
           /\ \/ SamePlace(r, t) \/ FurtherOn(r, t)
              \/ r.stage = "idle" \/ t.stage = "idle"]_vars

LEMMA AdvancedIsFurther ==
  ASSUME NEW r, NEW t, r.stage \in {"acquire", "execute", "scan"}, SameRun(r, t),
         Advanced(r, t)
  PROVE  FurtherOn(r, t)
BY DEF SameRun, Advanced, FurtherOn

\* Each step of a handler, by what the request becomes.
LEMMA HandlersAdvance ==
  ASSUME TypeOK, NEW v \in Visitors, Handle(v)
  PROVE  \/ FurtherOn(request[v], request'[v])
         \/ request[v].stage = "answered" /\ request'[v].stage = "idle"
<1> DEFINE r == request[v]
<1>1. CASE Acquire(v)
  <2>1. PICK t \in RequestState :
          RequestOK(t) /\ Becomes(v, t) /\ t.stage = "execute" /\ Waiting(r, t)
    BY <1>1, AcquireBecomes
  <2>2. request'[v] = t /\ r.stage = "acquire"
    BY <1>1, <2>1, BecomesTyped DEF Acquire
  <2> QED
    BY <2>1, <2>2 DEF Waiting, SameRun, FurtherOn
<1>2. CASE Execute(v)
  <2>1. PICK t \in RequestState : RequestOK(t) /\ Becomes(v, t) /\ Executed(r, t)
    BY <1>2, ExecuteBecomes
  <2>2. request'[v] = t /\ r.stage = "execute"
    BY <1>2, <2>1, BecomesTyped DEF Execute
  <2>3. t.stage = "scan" /\ SameRun(r, t) /\ t.at = r.at
    BY <2>1 DEF Executed
  <2> QED
    BY <2>2, <2>3 DEF SameRun, FurtherOn
<1>3. CASE Scan(v)
  <2>1. PICK t \in RequestState :
          /\ RequestOK(t) /\ Becomes(v, t)
          /\ SameRun(r, t) /\ SamePanels(r, t) /\ Advanced(r, t)
    BY <1>3, ScanBecomes
  <2>2. request'[v] = t /\ r.stage = "scan"
    BY <1>3, <2>1, BecomesTyped DEF Scan
  <2> QED
    BY <2>1, <2>2, AdvancedIsFurther
<1>4. CASE Fail(v)
  <2>1. PICK t \in RequestState : RequestOK(t) /\ Becomes(v, t) /\ Failed(r, t)
    BY <1>4, FailBecomes
  <2>2. request'[v] = t /\ r.stage \in {"acquire", "execute", "scan"}
    BY <1>4, <2>1, BecomesTyped DEF Fail, Failing
  <2>3. SameRun(r, t) /\ Advanced(r, t)
    BY <2>1 DEF Failed
  <2> QED
    BY <2>2, <2>3, AdvancedIsFurther
<1>5. CASE Answer(v)
  <2>1. Becomes(v, NoRequest) /\ r.stage = "answered"
    BY <1>5 DEF Answer, Becomes
  <2>2. request'[v] = NoRequest
    BY <2>1, BecomesTyped, NoRequestType
  <2> QED
    BY <2>1, <2>2, NoRequestFields
<1> QED
  BY <1>1, <1>2, <1>3, <1>4, <1>5 DEF Handle

\* What any step makes of a request, among those that Moves lists.
LEMMA MovesForward ==
  ASSUME NEW r, NEW t, Moves(r, t)
  PROVE  \/ SamePlace(r, t) \/ FurtherOn(r, t)
         \/ r.stage = "idle" \/ t.stage = "idle"
<1>1. CASE t = r
  BY <1>1 DEF SamePlace
<1>2. CASE t = NoRequest
  BY <1>2, NoRequestFields
<1>3. CASE Waiting(r, t) /\ t.stage = r.stage
  BY <1>3 DEF Waiting, SameRun, SamePlace
<1>4. CASE Waiting(r, t) /\ r.stage = "acquire" /\ t.stage = "execute"
  BY <1>4 DEF Waiting, SameRun, FurtherOn
<1>5. CASE r.stage = "execute" /\ Executed(r, t)
  <2>1. t.stage = "scan" /\ SameRun(r, t) /\ t.at = r.at
    BY <1>5 DEF Executed
  <2> QED
    BY <1>5, <2>1 DEF SameRun, FurtherOn
<1>6. CASE r.stage = "scan" /\ SameRun(r, t) /\ Advanced(r, t)
  BY <1>6, AdvancedIsFurther
<1>7. CASE r.stage \in {"acquire", "execute", "scan"} /\ Failed(r, t)
  <2>1. SameRun(r, t) /\ Advanced(r, t)
    BY <1>7 DEF Failed
  <2> QED
    BY <1>7, <2>1, AdvancedIsFurther
<1> QED
  BY <1>1, <1>2, <1>3, <1>4, <1>5, <1>6, <1>7 DEF Moves

\* A handler takes each of its statements at most once, whatever the database and
\* the other requests do; only its own answer or the end of the process ends it.
THEOREM HandlersGoForward == Spec => RequestsGoForward
<1>1. TypeOK /\ [Next]_vars =>
        [\A v \in Visitors :
           LET r == request[v]
               t == request'[v]
           IN  /\ Handle(v) => \/ FurtherOn(r, t)
                               \/ r.stage = "answered" /\ t.stage = "idle"
               /\ \/ SamePlace(r, t) \/ FurtherOn(r, t)
                  \/ r.stage = "idle" \/ t.stage = "idle"]_vars
  <2> SUFFICES ASSUME TypeOK, [Next]_vars, NEW v \in Visitors
               PROVE  /\ Handle(v) => \/ FurtherOn(request[v], request'[v])
                                      \/ /\ request[v].stage = "answered"
                                         /\ request'[v].stage = "idle"
                      /\ \/ SamePlace(request[v], request'[v])
                         \/ FurtherOn(request[v], request'[v])
                         \/ request[v].stage = "idle" \/ request'[v].stage = "idle"
    OBVIOUS
  <2>1. request'[v] = request[v] \/ Moves(request[v], request'[v])
    BY StepsGoOn DEF TablesGoOn, RequestsGoOn
  <2>2. \A r : SamePlace(r, r)
    BY DEF SamePlace
  <2> QED
    BY <2>1, <2>2, HandlersAdvance, MovesForward
<1> QED
  BY <1>1, TypeCorrect, PTL DEF Spec, RequestsGoForward

=============================================================================
