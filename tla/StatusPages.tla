----------------------------- MODULE StatusPages -----------------------------
(***************************************************************************)
(* cmd/server answering requests (internal/server, internal/db/reads.go)   *)
(* while the pollers write: the home page and /api/tip-info, which run     *)
(* several statements and show a panel for each, the health routes, and    *)
(* the routes of a single statement.  Each statement takes a connection of *)
(* the pgx pool, executes, and gives the connection back once its rows are *)
(* read; the database may refuse, break a result off or stay silent, the   *)
(* visitor may leave, and a signal may end the process at any moment.      *)
(*                                                                         *)
(* Of what the pages show, the latest block's height and the burn claims   *)
(* are followed; validators and templates are panels without contents      *)
(* (ValidatorRoster and ListPages have those).  The pollers' statements on *)
(* burn_claims are those of BurnClaimsTable.                               *)
(***************************************************************************)
EXTENDS BurnClaimsTable, FiniteSets, Sequences

CONSTANTS
  Visitors,      \* clients, each with one request at a time
  Routes,        \* the routes they ask for
  Filters,       \* the values of ?status= they give
  MaxConns,      \* connections of the pool
  MaxHeight,     \* bound: the highest block
  MaxOutages,    \* bound: how often the database stops answering
  MayStop        \* whether the server is ever told to stop

\* The statements a route's handler runs, in order.
StatementsOf(route) ==
  CASE route = "home"        -> <<"blocks", "max_epoch", "count", "templates", "stuck">>
    [] route = "tip_info"    -> <<"blocks", "max_epoch", "count", "stuck">>
    [] route = "health"      -> <<"max_epoch", "count">>
    [] route = "burn_claims" -> <<"claims_list">>
    [] route = "validators"  -> <<"validators">>

AllRoutes == {"home", "tip_info", "health", "burn_claims", "validators"}

ASSUME StatusPagesAssumption ==
  /\ Routes \subseteq AllRoutes
  /\ IsFiniteSet(Visitors)
  /\ MaxConns \in Nat \ {0}
  /\ {MaxHeight, MaxOutages} \subseteq Nat
  /\ MayStop \in BOOLEAN

\* Both statements of GetLiveValidatorEpochSummary fill one panel.
PanelOf(statement) == IF statement \in {"max_epoch", "count"} THEN "summary" ELSE statement

PanelsOf(route) == {PanelOf(StatementsOf(route)[i]) : i \in DOMAIN StatementsOf(route)}

VARIABLES
  claims,    \* the burn_claims table
  blocks,    \* the ootle_blocks table, as the heights of its rows
  db,        \* "up", "refusing" or "silent", as behind a lock
  busy,      \* connections taken from the pool
  request,   \* each visitor's request
  seen,      \* history: what the pages answered so far have told each visitor
  server,    \* "serving", "draining", "closing" or "gone"
  outages    \* how often the database has stopped answering

vars == <<claims, blocks, db, busy, request, seen, server, outages>>

\* Mutant: ORDER BY height.
Latest_Ascending(heights) ==
  IF heights = {} THEN 0 ELSE CHOOSE h \in heights : \A o \in heights : h <= o

\* ORDER BY height DESC: the row every list of blocks begins with, 0 for none.
Latest(heights) ==
  IF heights = {} THEN 0 ELSE CHOOSE h \in heights : \A o \in heights : o <= h

StatusOf(table) == [b \in Burns |-> table[b].status]

\* ListBurnClaims: "" lists every row, an unknown status none.
ListBurnClaims(filter) ==
  {<<b, claims[b].status>> : b \in {k \in Burns : /\ Recorded(claims, k)
                                                  /\ filter \in {"", claims[k].status}}}

NoRequest == [stage |-> "idle", route |-> "", filter |-> "", at |-> 1, failed |-> {},
              listed |-> {}, latest |-> 0, status |-> 0, left |-> FALSE,
              since |-> [tip |-> 0, status |-> StatusOf(EmptyTable)]]

Init ==
  /\ claims = EmptyTable
  /\ blocks = {}
  /\ db = "up" /\ busy = 0 /\ outages = 0
  /\ request = [v \in Visitors |-> NoRequest]
  /\ seen = [v \in Visitors |-> [tip |-> 0, status |-> StatusOf(EmptyTable)]]
  /\ server = "serving"

-----------------------------------------------------------------------------
(* The pollers and the database *)

\* One statement of a burn tracker: InsertPendingBurnClaim, MarkBurnStuck or
\* MarkBurnClaimed.
Track ==
  /\ \E b \in Burns :
       \/ ~InsertConflicts(claims, b) /\ claims' = InsertPendingBurnClaim(claims, b, 0)
       \/ claims' = MarkBurnStuck(claims, b)
       \/ claims' = MarkBurnClaimed(claims, CommitmentOf[b], {})
  /\ UNCHANGED <<blocks, db, busy, request, seen, server, outages>>

UpsertOotleBlock ==
  /\ \E h \in 1..MaxHeight : blocks' = blocks \cup {h}
  /\ UNCHANGED <<claims, db, busy, request, seen, server, outages>>

StopAnswering ==
  /\ db = "up" /\ outages < MaxOutages
  /\ db' \in {"refusing", "silent"}
  /\ outages' = outages + 1
  /\ UNCHANGED <<claims, blocks, busy, request, seen, server>>

Recover ==
  /\ db # "up"
  /\ db' = "up"
  /\ UNCHANGED <<claims, blocks, busy, request, seen, server, outages>>

-----------------------------------------------------------------------------
(* One request *)

Statement(v) == StatementsOf(request[v].route)[request[v].at]

Ask(v) ==
  /\ request[v].stage = "idle"
  /\ server = "serving"
  /\ \E route \in Routes, filter \in Filters :
       /\ filter # "" => route = "burn_claims"
       /\ request' = [request EXCEPT ![v] =
            [NoRequest EXCEPT !.stage = "acquire", !.route = route, !.filter = filter,
                              !.since = [tip |-> Latest(blocks), status |-> StatusOf(claims)]]]
  /\ UNCHANGED <<claims, blocks, db, busy, seen, server, outages>>

\* The visitor disconnects: r.Context() is cancelled.
Leave(v) ==
  /\ request[v].stage \in {"acquire", "execute", "scan"}
  /\ ~request[v].left
  /\ request' = [request EXCEPT ![v].left = TRUE]
  /\ UNCHANGED <<claims, blocks, db, busy, seen, server, outages>>

\* pgxpool's Acquire: it waits for a connection.
Acquire(v) ==
  /\ request[v].stage = "acquire" /\ ~request[v].left
  /\ server \in {"serving", "draining"}
  /\ busy < MaxConns
  /\ busy' = busy + 1
  /\ request' = [request EXCEPT ![v].stage = "execute"]
  /\ UNCHANGED <<claims, blocks, db, seen, server, outages>>

\* The database runs the statement, on the tables of this moment.
Execute(v) ==
  /\ request[v].stage = "execute"
  /\ db = "up"
  /\ request' = [request EXCEPT
       ![v].stage = "scan",
       ![v].latest = IF Statement(v) = "blocks" THEN Latest(blocks) ELSE @,
       ![v].listed = CASE Statement(v) = "stuck"       -> ListBurnClaims("stuck")
                       [] Statement(v) = "claims_list" -> ListBurnClaims(request[v].filter)
                       [] OTHER                        -> @]
  /\ UNCHANGED <<claims, blocks, db, busy, seen, server, outages>>

\* Mutant: any failure makes /api/tip-info fail.
StatusCode_AnyFailure(r) ==
  IF r.route \in {"tip_info", "burn_claims", "validators"} /\ r.failed # {} THEN 500 ELSE 200

StatusCode(r) ==
  IF \/ r.route = "tip_info" /\ Cardinality(r.failed) = 3
     \/ r.route \in {"burn_claims", "validators"} /\ r.failed # {}
    THEN 500
    ELSE 200

\* The handler after a statement: the next one, or the answer.
Finish(r, skip) ==
  LET next == r.at + IF skip THEN 2 ELSE 1
  IN  IF next > Len(StatementsOf(r.route))
        THEN [r EXCEPT !.stage = "answered", !.status = StatusCode(r)]
        ELSE [r EXCEPT !.stage = "acquire", !.at = next]

\* All rows are read.  There is nothing to count when no validator is known.
Scan(v) ==
  /\ request[v].stage = "scan"
  /\ \E skip \in IF Statement(v) = "max_epoch" THEN BOOLEAN ELSE {FALSE} :
       request' = [request EXCEPT ![v] = Finish(request[v], skip)]
  /\ busy' = busy - 1
  /\ UNCHANGED <<claims, blocks, db, seen, server, outages>>

\* A statement returns an error: the database refuses or breaks the rows off, the
\* context is cancelled, or the pool is closed.
Failing(v) ==
  /\ request[v].stage \in {"acquire", "execute", "scan"}
  /\ \/ db = "refusing"
     \/ request[v].left
     \/ request[v].stage = "acquire" /\ server = "closing"

Given(v) == IF request[v].stage = "acquire" THEN busy ELSE busy - 1

WithoutPanel(r, statement) ==
  [r EXCEPT !.failed = @ \cup {PanelOf(statement)},
            !.latest = IF statement = "blocks" THEN 0 ELSE @,
            !.listed = IF statement \in {"stuck", "claims_list"} THEN {} ELSE @]

\* Mutants: the rows are not closed on an error; rows.Err() is not looked at; the
\* handler tries again.
Fail_KeepsConnection(v) ==
  /\ Failing(v)
  /\ request' = [request EXCEPT ![v] =
       Finish(WithoutPanel(request[v], Statement(v)), Statement(v) = "max_epoch")]
  /\ UNCHANGED <<claims, blocks, db, busy, seen, server, outages>>

Fail_Unchecked(v) ==
  /\ Failing(v)
  /\ IF request[v].stage = "scan"
       THEN \E some \in SUBSET request[v].listed :
              request' = [request EXCEPT ![v] = Finish([request[v] EXCEPT !.listed = some], FALSE)]
       ELSE request' = [request EXCEPT ![v] =
              Finish(WithoutPanel(request[v], Statement(v)), Statement(v) = "max_epoch")]
  /\ busy' = Given(v)
  /\ UNCHANGED <<claims, blocks, db, seen, server, outages>>

Fail_TriesAgain(v) ==
  /\ Failing(v)
  /\ request' = [request EXCEPT ![v].stage = "acquire"]
  /\ busy' = Given(v)
  /\ UNCHANGED <<claims, blocks, db, seen, server, outages>>

\* The panel shows an error, and the handler goes on; the summary's second
\* statement is not tried after the first has failed.
Fail(v) ==
  /\ Failing(v)
  /\ request' = [request EXCEPT ![v] =
       Finish(WithoutPanel(request[v], Statement(v)), Statement(v) = "max_epoch")]
  /\ busy' = Given(v)
  /\ UNCHANGED <<claims, blocks, db, seen, server, outages>>

\* The visitor gets the answer and learns what it shows.
Answer(v) ==
  /\ request[v].stage = "answered"
  /\ LET r == request[v]
         shows == ~r.left /\ r.status = 200
     IN  seen' = [seen EXCEPT
           ![v].tip = IF shows /\ "blocks" \in PanelsOf(r.route) \ r.failed THEN r.latest ELSE @,
           ![v].status = [b \in Burns |->
              IF shows /\ \E row \in r.listed : row[1] = b
                THEN (CHOOSE row \in r.listed : row[1] = b)[2]
                ELSE @[b]]]
  /\ request' = [request EXCEPT ![v] = NoRequest]
  /\ UNCHANGED <<claims, blocks, db, busy, server, outages>>

Handle(v) == Acquire(v) \/ Execute(v) \/ Scan(v) \/ Fail(v) \/ Answer(v)

-----------------------------------------------------------------------------
(* The end of the process *)

\* Shutdown closes the listener, and ListenAndServe returns.
Signal ==
  /\ MayStop /\ server = "serving"
  /\ server' = "draining"
  /\ UNCHANGED <<claims, blocks, db, busy, request, seen, outages>>

\* main returns without waiting for Shutdown: the pool is closed, which waits for
\* the connections in use, and the requests that have no answer yet are dropped.
ClosePool ==
  /\ server = "draining"
  /\ server' = "closing"
  /\ UNCHANGED <<claims, blocks, db, busy, request, seen, outages>>

Exit ==
  /\ server = "closing" /\ busy = 0
  /\ server' = "gone"
  /\ request' = [v \in Visitors |-> NoRequest]
  /\ UNCHANGED <<claims, blocks, db, busy, seen, outages>>

\* Somebody starts it again.
Start ==
  /\ server = "gone"
  /\ server' = "serving"
  /\ UNCHANGED <<claims, blocks, db, busy, request, seen, outages>>

Environment ==
  \/ Track \/ UpsertOotleBlock \/ StopAnswering \/ Recover
  \/ Signal \/ Start
  \/ \E v \in Visitors : Ask(v) \/ Leave(v)

Next == Environment \/ ClosePool \/ Exit \/ \E v \in Visitors : Handle(v)

Spec == Init /\ [][Next]_vars

\* Handlers and main run on, and the pool's waiters are served in turn.
HandlersRun ==
  /\ WF_vars(ClosePool \/ Exit)
  /\ \A v \in Visitors : WF_vars(Handle(v)) /\ SF_vars(Acquire(v))

SilentSpec == Spec /\ HandlersRun

\* And the database does not stay away for ever.
FairSpec == SilentSpec /\ WF_vars(Recover)

-----------------------------------------------------------------------------
Ranks == [absent |-> 0, pending |-> 1, stuck |-> 2, claimed |-> 3]

Panels == {"blocks", "summary", "templates", "stuck", "claims_list", "validators"}

Snapshot == [tip : 0..MaxHeight, status : [Burns -> Statuses]]

Stages == {"idle", "acquire", "execute", "scan", "answered"}

Codes == {0, 200, 500}

RequestState == [stage  : Stages,
                 route  : AllRoutes \cup {""},
                 filter : Filters \cup {""},
                 at     : Nat,
                 failed : SUBSET Panels,
                 listed : SUBSET (Burns \X (Statuses \ {"absent"})),
                 latest : 0..MaxHeight,
                 status : Codes,
                 left   : BOOLEAN,
                 since  : Snapshot]

RequestOK(r) ==
  r.stage # "idle" => /\ r.route \in Routes
                      /\ r.at \in DOMAIN StatementsOf(r.route)
                      /\ r.failed \subseteq PanelsOf(r.route)

\* Every variable has its type.
TypeOK ==
  /\ claims \in [Burns -> Row]
  /\ blocks \subseteq 1..MaxHeight
  /\ db \in {"up", "refusing", "silent"}
  /\ busy \in 0..MaxConns
  /\ request \in [Visitors -> RequestState]
  /\ \A v \in Visitors : RequestOK(request[v])
  /\ seen \in [Visitors -> Snapshot]
  /\ server \in {"serving", "draining", "closing", "gone"}
  /\ outages \in 0..MaxOutages

\* Connections are held by statements only: whichever way a statement ends, and
\* also when its visitor has left, its connection is back in the pool (rows.Close).
ConnectionsReturned ==
  busy = Cardinality({v \in Visitors : request[v].stage \in {"execute", "scan"}})

\* What a page shows without an error was so while the request ran, although its
\* statements run one after the other and the tables move on between them: no
\* row is left out that matched all the time, and none is shown that never did.
FilterOf(r) == IF r.route = "burn_claims" THEN r.filter ELSE "stuck"

TipIsTrue(r) == r.latest \in r.since.tip..Latest(blocks)

MatchedThroughout(r, b) ==
  /\ r.since.status[b] # "absent"
  /\ FilterOf(r) = "" \/ {r.since.status[b], claims[b].status} \subseteq {FilterOf(r)}

ListIsTrue(r) ==
  /\ \A b \in Burns : MatchedThroughout(r, b) => \E row \in r.listed : row[1] = b
  /\ \A row \in r.listed :
       Ranks[row[2]] \in Ranks[r.since.status[row[1]]]..Ranks[claims[row[1]].status]

PanelsAreTrue ==
  \A v \in Visitors :
    LET r == request[v]
        shown == PanelsOf(r.route) \ r.failed
    IN  r.stage = "answered" =>
          /\ "blocks" \in shown => TipIsTrue(r)
          /\ "stuck" \in shown \/ "claims_list" \in shown => ListIsTrue(r)

\* A failing statement costs its own panel only: a page fails as a whole when
\* nothing of it could be loaded (handleHome, handleAPITipInfo).
FailuresAreContained ==
  \A v \in Visitors :
    request[v].stage = "answered" /\ request[v].status = 500 =>
      request[v].failed = PanelsOf(request[v].route)

\* What one visitor is shown never goes back, whichever pages it asks for: the
\* latest block never gets lower, and no burn returns to an earlier state.
NothingGoesBack ==
  [][\A v \in Visitors :
       /\ seen[v].tip <= seen'[v].tip
       /\ \A b \in Burns : Ranks[seen[v].status[b]] <= Ranks[seen'[v].status[b]]]_vars

\* Every request comes to an end, however few connections there are and whatever
\* outage or other request it meets.
EveryRequestEnds == \A v \in Visitors : request[v].stage # "idle" ~> request[v].stage = "idle"

\* A signal ends the process, also in the middle of requests and outages.
ServerStops == server # "serving" ~> server = "gone"

\* The health route "always returns 200 - a degraded Postgres connection is
\* reported in the body": it answers whatever the database does.  Not so: README,
\* section 6.
HealthAlwaysAnswers ==
  \A v \in Visitors :
    request[v].stage # "idle" /\ request[v].route = "health" ~> request[v].stage \in {"answered", "idle"}

=============================================================================
