# A verification project for the Tari Ootle explorer

TLA+ models of `go-tari-ootle-explorer`, TLC runs on small instances of them,
and theorems about them that TLAPS checks for every instance. The modules are
translated from the Go and SQL sources; `PROJECT.json` says which lines each
definition stands for.

## 1. Inventory

The program is five commands that share nothing but one PostgreSQL database.
Four of them poll something and write tables; the fifth serves the tables over
HTTP. Inside a command everything runs in one goroutine (the server: one per
request, and these only read). So the concurrency that matters is between
*processes*, and between the server's requests: every database statement and
every remote call is one step, and any other process or request, the L1 chain,
the L2 and the database may move in between.

| Component | State | Operations | Interacts with |
|---|---|---|---|
| burn tracker (`internal/burnclaim`, `cmd/burnclaim`) | `lastScannedHeight`, in memory | `Scan`, `Follow`/`followTick`, `scanRange`, `CheckClaims`, `DetectStuck` | L1 base nodes, indexer, `burn_claims` |
| `burn_claims` table (`internal/db/rows.go`, migration 0003) | one row per burn kernel: commitment (UNIQUE), height, status, claimed_at | insert, list by status, mark claimed, mark stuck | written by any number of trackers |
| explorer (`internal/explorer`, `cmd/explorer`) | `catalogueCursor`, in memory | `Backfill`, `Follow`/`pollOnce`, `syncValidators`, `syncLatestCheckpoint`, `walkTemplateCatalogue` | indexer, `validators`, `ootle_blocks`, `template_registry` |
| vnhealth (`internal/vnhealth`, `cmd/vnhealth`) | none between polls | `Poll`, `Follow`, `pollOne` | validator nodes, `validators` |
| `validators` table | one row per validator | two upserts of two writers, epoch summary | explorer, vnhealth, server |
| registry (`internal/registry`, `cmd/registry`) | none between polls | `Sync`, `Follow` | metadata server, `template_registry` |
| `template_registry` table | one row per template | two upserts of two writers, paged list | explorer, registry, server |
| `ootle_blocks` table | one row per observed checkpoint | upsert, paged list | explorer, server |
| migrations runner (`internal/db/db.go`, `migrations/`) | `schema_migrations` | `Migrate` | run by every command at its start |
| server (`internal/server`, `internal/db/reads.go`, `cmd/server`) | the pool's connections, the requests under way | HTML and JSON pages, each of one or more statements; shutdown | all tables |
| L1 gRPC client (`l1client.go`) | cursor over hosts, connections, behind a mutex | `GetTipInfo`, `GetBlockByHeight`, `withFailover`, `Close` | base nodes |
| `indexerclient`, `vnclient`, `registrymetaclient` | a request counter | one HTTP request per call | remote services |
| `internal/config` | none | `Load`: flags, environment, file, local-dev defaults | every command |
| mains (`cmd/*/main.go`) | none | check the settings, connect, migrate, run a mode, end by a signal | all of the above |
| API documentation (`apidocs.go`) | none | an embedded file | nothing |

What is hard, and what makes each part correct:

* **Burn tracker.** Long passes made of many calls: a tip read at the start of
  a tick is used at its end; a list of pending rows is worked through while
  other processes change them; a claim is written one call after it was seen. A
  pass may fail at any call and is retried; a restart loses the cursor. Blocks
  below the tip may be replaced, and successive calls may reach base nodes with
  different tips. Correct means: a row never says what is not so (claimed
  without a tombstone, stuck while still young), its status never goes back, no
  two rows hold a commitment, the cursor never passes a burn, and what is
  pending does not stay so.
* **Two writers per table** (`validators`, `template_registry`). Each source
  lacks columns that the other has, lags behind it, or fails halfway. Correct
  means: what is known is not replaced by unknown, one validator's data is not
  written to another's row, and the table settles on the truth.
* **Catalogue walk.** A cursor over a growing list, pages, partial failures,
  restarts. Correct means that nothing is skipped.
* **Migrate.** Several commands start at once and see the same missing version;
  two migrations drop tables. Correct means: the schema is what the record
  says, nobody works on an unfinished schema, no row is lost, everybody gets
  through.
* **Paged lists.** Pages are cut out of a list that grows meanwhile, and where
  the next one begins goes out as text in a link and comes back through a query.
  Correct means: nothing twice, nothing skipped, and an end.
* **L1 gRPC client.** One cursor and one set of connections for all calls, with
  the lock taken for each access and not for the call. A stream may break after
  some blocks, or end after fewer than were asked for, and a host may be silent.
  Correct means: a call fails only when no host would have answered, what it
  returns is all that one host had to send and nothing of another's, and the
  cursor settles on a host that answers.
* **Server.** A page is several statements, each on the tables of its own
  moment; the database may refuse or break off one of them, the visitor may
  leave, and requests wait for each other's connections. Correct means: what a
  page shows was so, one failing statement costs its own panel, a visitor is
  never shown something older than before, every connection comes back, every
  request ends, and so does the process when told to.
* **Start.** Four sources of settings, a network that decides which of them
  count, checks in every main, and a signal that may come at any moment. Correct
  means: no command talks to another network's services, one that cannot work
  stops before it has touched the database, and the confirmation lag is never a
  guess.

`PROJECT.json` lists these hazards one by one, at the line where each bites.

## 2. The modules

```
BurnClaimsTable <- BaseLayer <- BurnTracker <- MCBurnTracker, BurnTracker_proofs
   ^        ^                       |
   |        |                       +-- implements --> BurnLifecycle
   |   BurnLifecycle
   |
StatusPages <- MCStatusPages, StatusPages_proofs

FailoverClient <- MCFailoverClient, FailoverClient_proofs
       |
       +-- implements --> HostCall

ValidatorsTable <- ValidatorRoster <- MCValidatorRoster, ValidatorRoster_proofs
TemplateTable   <- TemplateMirror  <- MCTemplateMirror, TemplateMirror_proofs
Migrations      <- Migrations_proofs
       |
       +-- implements --> SchemaHistory

ListPages       <- MCListPages, ListPages_proofs
Startup         <- MCStartup, Startup_proofs
```

An arrow points from a module to one that it EXTENDS; "implements" is an
`INSTANCE ... WITH` and the abstract specification as a property.

**Table modules** (`BurnClaimsTable`, `ValidatorsTable`, `TemplateTable`) hold a
table's rows and its SQL statements as operators from a table to a table. A
statement is atomic. `NULL` and nil pointers are empty sets (or FALSE where only
"is there a value" matters). Times are abstracted to what is asked of them:
`claimed_at` is the set of commitments that were claimed at that moment.

**`BaseLayer`** is external: the L1 chain, with reorganisations and base nodes
that lag, and the L2's tombstones. `GetTipInfo` and `GetBlockByHeight` answer
from the view of whichever node is reached.

**`BurnTracker`** has one action per call of `internal/burnclaim` and one per
failing call. A process is in mode follow or scan; its control point `pc` names
the next call, its other fields are the Go variables that live across calls
(`lastScannedHeight`, the tip, the batch's first height, the rows still to
handle). `ReadTip`, `FetchBatch`, `Insert`, `EndScan` are `followTick` and
`scanRange`; `ListForClaims`, `SeeTombstone`, `SeeNoTombstone`, `MarkClaimed`
are `CheckClaims`; `ReadTipForStuck`, `ListForStuck`, `MarkStuck` are
`DetectStuck`. `covered` is a history variable, the heights whose scan a
follower has finished.

**`BurnLifecycle`** is the abstract specification: what a reader of
`burn_claims` may rely on, with no processes, calls or passes in it.
`BurnTracker` is shown to implement it (`KeepsLifecycle`), by TLC and by proof.

**`FailoverClient`** is the L1 client with any number of calls at once, which
the type allows (its mutex is there for them); the program itself makes one call
at a time, the special case of one caller. Each action is one stretch of
`withFailover` between two uses of the mutex, or one receive of a stream:
`Begin` is `startIndex`, `Dial` is `connAt`, `Receive` and `ReceiveFails` drain
the answer, `Advance` is `nextIndex`, `Keep` writes the cursor after an answer.
Hosts are up, down or hung (a call has no deadline, so a hung host just says
nothing); `BadTargets` are those that cannot be dialled at all. A host sends as
many messages as it has, one of the `Sizes`, and the client takes the end of the
stream for success after any number (`l1client.go:182-187`): it does not compare
what came with what it asked for. `offer`, that number, and `steady`, the hosts
that were up all through a call, are history.

**`HostCall`** is what that client promises a caller, without cursor, order or
connections: a call asks hosts, none of them twice, and returns all that one of
them had to send, or an error once all have refused. It does not promise that
this is all that was asked for: an answer may be short, or empty.

**`ValidatorRoster`** composes the explorer's `syncValidators`, vnhealth's
`pollOne` and the server's two-query summary over `ValidatorsTable`. The indexer
and every node move through the epochs at their own pace.

**`TemplateMirror`** composes the explorer's polls (checkpoint and catalogue) and
the registry's `Sync` over `TemplateTable`. A template's place in the catalogue
stands for its address where the address is a cursor. An entry of the featured
list may come with its optional fields (`UpsertFeatured`) or without
(`UpsertFeaturedPartly`), which `toRow` passes on as NULL.

**`Migrations`** is `Migrate` in any number of processes, with PostgreSQL's
transactions and table locks; a table is the migration that last shaped it, and
whether it has rows.

**`SchemaHistory`** is what `Migrate` promises whoever shares the database, with
no process in it: it is upgraded by one version at a time, in order, each once
and together with its record; an upgrade costs no row; and rows are written only
into tables that have their last form.

**`ListPages`** is a visitor's walk through a paged list, with HTML and JSON
requests, failing ones too, and inserts in between. The cursor of the next page
is what formatting it (`Rendered`), the link's query (`Query`) and parsing it
(`Parsed`) make of the last row's key: for the templates that is a time with the
offset of the server's zone, and a text that does not parse is answered 400 and
leaves the walk where it is.

**`StatusPages`** is the server. A request runs its route's statements
(`StatementsOf`) in order; a statement takes a connection of the pool
(`Acquire`), executes on the tables of that moment, and gives the connection
back when its rows are read (`Scan`) or when it fails (`Fail`): because the
database refuses or breaks off, the visitor has left, or the pool is closed. A
failed statement leaves its panel out, and the handler goes on. The burn
trackers' statements are those of `BurnClaimsTable`; `Signal`, `ClosePool`,
`Exit` and `Start` are the process's end and its next start: `main` does not wait
for `Shutdown`, but closing the pool waits for the connections in use. `since`
(the tables when the request came) and `seen` (what a visitor has been shown)
are history.

**`Startup`** is one command from its flags to its end. Its state begins as any
combination of command, flags, environment, file and network; `Load` resolves
them, `Check` is what each `main` refuses to go on without, and `Connect`,
`MigrateSchema`, `ChooseMode`, `EndPass` and `EndLoop` are `main`'s next calls,
with a `Signal` at any moment. A setting's value is where it came from, so that
"whose endpoint is this" can be asked. Lag and margin are added in their width,
which the constant `Uint64` gives.

**MC modules** only give values to constants that a `.cfg` cannot express. Each
definition named `X_Something` after a mapped definition `X` and marked "Mutant"
is `X` with a plausible bug; it is used by nothing, and replacing `X` by it makes
TLC report the property that `PROJECT.json` names beside it.

## 3. The runs

| Run | Question | Bounds |
|---|---|---|
| `tracker_race` | Are the rows true, and within the lifecycle, whatever interleaves? | one follower and one scanner; two burn kernels that share one commitment, on competing forks; chain from 1 to 3; one reorganisation of up to 2 blocks; base nodes up to 1 behind; one restart; one failing call |
| `tracker_live` | Does the cursor leave nothing behind, and does every pass, retry and pending row come to its end? | one follower from height 1, two burns, chain from 2 to 4, batches of 2, one restart, one failing call, base nodes all at the tip, no reorganisation |
| `failover` | Do calls that share a cursor still try every host, and does the cursor settle? | two calls at once, three hosts of which one cannot be dialled, answers of no or two blocks, two changes of health |
| `roster` | Do two writers keep each other's data and settle on the last epoch? | three validators, two epochs with a different roster and different shard groups, an unreachable node first in the list, one fault |
| `mirror` | Is the whole catalogue mirrored and merged with the featured list? | one follower, one backfill, three templates in pages of two, two changes of the featured list, one fault (a failed call, a restart, or an entry without its optional fields) |
| `migrations` | Can any number of commands start at once, from any release? | three processes, four migrations, two faults, every earlier schema |
| `pages` | Does a walk show every row once and end? | the templates on a server an hour west of UTC: four rows with distinct keys, HTML pages of 2, JSON limits 0, 1 and 4 (clamped to 3), one failing request |
| `pages_data` | Is what the pages show true, and does it only go forward? | one visitor on the home page, `/api/tip-info` and the burn claims with and without a filter; two burns with a commitment each, blocks up to 2, one connection, one outage |
| `pages_pool` | Does every request return its connection and end, and the process too? | two visitors and one connection, a route of two statements and one of a single statement, one outage, stop and start |
| `startup` | Which endpoints and which lag does a command work with, and when does it refuse to? | every command with every combination of flag, environment, file and network; two networks, one with a known lag of 2; lags 0 (ask the table) and 5, margin 4, width 16 |
| `doc_*` | see section 6 | the same kinds of instance |

Why these bounds are enough to be interesting. A race in the tracker needs two
processes at different points of a pass and one change of the chain between: a
burn that is re-mined, or claimed, while a list of rows is held. With a batch of
2 and a chain of 3 or 4 there are full, short and several batches, and the
window of a follower that has no cursor is shorter than the chain. Two rows
suffice for every property that relates rows, since all statements touch rows of
one commitment or one kernel. Three validators give a member that leaves, one
that joins and one that changes its shard group. Three templates give a full
page and a short one, and the walk of a catalogue that has two entries so far
ends in an empty page. Three processes give a winner, a loser and one that
starts late. Three hosts give a call that skips, comes round, or finds the
cursor moved by the other; an answer of two blocks can break in the middle, and
one of none ends at once. A server west of UTC writes times with an offset that has
to be undone; blocks, and UTC, need nothing undone, and east of UTC the walk stops
(section 6). One
connection and two visitors make every statement of one wait for the other; one
visitor is enough for what pages show, since requests share nothing but the
pool, which `pages_pool` has. Faults, restarts, reorganisations, outages, changes
of health and epochs are counted; each bound is a constant.

What the properties say is in a comment above each of them. In short:

* `tracker_race`: `ClaimedHasTombstone`, `StuckWasOverdue`; `RowsMatchChain`,
  that until the chain is reorganised rows and chain agree on heights and no
  insert under way can conflict; `HeldFactsStable`, that what a process has read
  and not yet used is still true; and the refinement `KeepsLifecycle`.
* `tracker_live`: `CoveredBurnsRecorded`, `CoverageContiguous`,
  `EveryBurnRecorded`, `FollowCatchesUp`, `PendingResolves`.
* `failover`: `FailureIsTotal`; the refinement `KeepsPromise`; `CallsEnd`,
  `CursorSettles`.
* `roster`: `RowsAreOwn`, `KnownIsKept`; `RosterConverges`, `SummaryConverges`.
* `mirror`: `BehindCursorMirrored`, `ServerFieldsKept`; `CatalogueMirrored`,
  `FeaturedRowsComplete`.
* `migrations`: `ReadyHasSchema`, `RowsKept`; the refinement `KeepsHistory`;
  `AllReady`.
* `pages`: `NothingRepeated`, `NothingSkipped`; `WalkEnds`.
* `pages_data`: `PanelsAreTrue`, `FailuresAreContained`, `NothingGoesBack`.
* `pages_pool`: `ConnectionsReturned`; `EveryRequestEnds`, `ServerStops`.
* `startup`: `NoForeignEndpoint`, `RefusedTouchesNothing`, `LagIsNotGuessed`;
  `SignalStops`.

`tracker_race` also checks the type invariant of `BurnTracker`; those of all
detailed modules are proved for every instance (section 5), and so are some
properties that no run repeats: `OneRowPerCommitment`, `SchemaMatchesRecord` and
the limits and bounds at the end of section 5.

`tracker_live` has one commitment per burn and no reorganisations: with them
`FollowCatchesUp` does not hold of this code (section 6), and neither do
`CoveredBurnsRecorded` and `EveryBurnRecorded`, because blocks below the cursor
are never read again. Nor do these two hold when a base node is behind the one
that reported the tip, and `CoverageContiguous` needs a start height (section 6).

Only `startup` turns deadlock checking off, because commands end; everywhere else
some loop can always go on. `tracker_race` and `pages_data` use the symmetry of
the burns; neither has a liveness property.

## 4. Fairness

Weak fairness on each process's own next step is the rule: `Follow` of every
poller is a loop that waits for nothing but its poll interval, and a call returns
or fails. For calls over HTTP the code sees to that, since every HTTP client has
a timeout. gRPC calls and database statements have no deadline, only the
process's context. So these are assumptions about the environment, stated where
they are used:

* `BurnTracker`, `ValidatorRoster`, `TemplateMirror`: the base nodes and the
  database answer or refuse.
* `FailoverClient`: `FairSpec` has the callers' fairness alone; `LiveSpec` adds
  that no host is silent for ever (`Recover`). `CallsEnd` needs it (section 6).
* `ListPages`: the visitor of the HTML pages clicks on; nobody has to call the
  JSON routes.
* `StatusPages`: handlers run on, and the pool serves its waiters in turn, which
  is strong fairness of `Acquire`: a connection that is free again and again is
  some day free for this request. `SilentSpec` is that alone; `FairSpec` adds
  that an outage ends. The end of the process is weakly fair, the signal is not.
* `Startup`: every call of `main` returns.

A failing call is never fair and its number is bounded (`MaxFaults`): that
failures do not go on for ever is an assumption about the environment, not a
promise of the code. The same holds for restarts, crashes and outages. Where a
property needs the environment to move, the module says so beside its
`Fairness`: the indexer and the reachable nodes get to the last epoch, the
summary is asked for again and again, the metadata server sends whole entries
again, a process that exited is started again, a visitor asks for the next page.
The chain and the L2 are not fair in
`BurnTracker`: its liveness properties hold whether or not they move on.

## 5. What is proved

`tlapm` checks these for every value of the constants, from nothing but the
named assumptions on constants in the modules.

**`BurnTracker_proofs`** (any burns, any number of followers and scanners, any
heights, reorganisations, restarts, failures):

* `TypeCorrect`: `Spec => []TypeOK`.
* `ClaimedIsReal`, `StuckIsOverdue`, `CommitmentsAreUnique`, `HeldFactsHold`.

`ClaimedHasTombstone` and `StuckWasOverdue` are not inductive alone: the step
that writes a row relies on what an earlier call returned, and other processes,
the chain and the L2 moved in between. `HeldFactsStable` carries these facts
from the read to the write: the tombstone of the row about to be marked exists,
the tip a tick works with is not ahead of the chain, and each row in a list of
overdue rows is still recorded, with the same height, and overdue. It is
preserved because tombstones and the best height only grow (`LayerGrows`) and
because no statement removes a row or changes its height (`RowsStayStep`). The
inductive invariant `SafetyInv` is the conjunction, on top of `TypeOK`; the
proof has one lemma for what a process newly holds (`NewlyHeld`), one for what
it still holds (`HeldStays`, `OthersKept`), and one for the rows (`RowsSafe`).
`OneRowPerCommitment` rests on the UNIQUE constraint alone.

* `KeepsThePromise`: every step of the tracker, of the chain and of the L2 is a
  step of `BurnLifecycle` or leaves its state alone, so `Spec => KeepsLifecycle`.
  `SafetyInv` is what the writing steps need: `BurnLifecycle` lets a row become
  claimed only if its tombstone exists, and stuck only if it is overdue, and the
  process that writes knows that only from what it read earlier.
* `NoGap` (`CoverageContiguous`), if a start height is given and no base node is
  ever so far behind that its tip is below it; reorganisations and failures do
  not matter. What is covered is one range from the start height, with the
  cursor in it (`GapInv`), so that a tick's range touches it.
* `NoBurnPassed` (`CoveredBurnsRecorded`), if base nodes are at the tip and there
  are no reorganisations. In the middle of a scan each burn behind its position
  is recorded or fetched and still to insert (`ScannedSoFar`). Both conditions
  are needed (section 6), and each theorem names its own.
* `MissedOnlyBehind` is the same with the two things it needs of the environment
  and no more, as conditions on steps: no burn is mined at a height that a
  follower has read (`NothingMinedBehind`), and the node asked for a batch has
  all of it (`AnswersComplete`). So reorganisations above the cursors and lagging
  nodes elsewhere do no harm, and a burn is missed only in one of these two ways.
  `NoBurnPassed` follows from it.
* `RowsAgreeUntilReorg` (`RowsMatchChain`): until the first reorganisation every
  row has the height its burn is mined at, and no insert under way can hit the
  UNIQUE commitment, which is what makes ticks fail for ever in section 6. The
  invariant `MatchInv` adds that every burn still to insert is mined where the
  process read it. `RowsAreCurrent` gives the same through any reorganisations
  that leave the burns that have been read where they are (`ReadBurnsStay`).

**`TemplateMirror_proofs`** (any catalogue, page size, number of explorers and
faults): `TypeCorrect`, `NothingIsPassed` (`BehindCursorMirrored`),
`ServerFieldsStay` (`ServerFieldsKept`). The invariant `MirrorInv` adds to
`BehindCursorMirrored` that what lies before the current page's start is
recorded too, since a new page takes `lastAddr` from there, and that a walk in a
page has an entry left that the indexer knows (`WalkInBounds`), without which
the next entry would not exist. `ServerFieldsKept` is a matter of the two
statements: the catalogue's names none of the server's columns, and the server's
keeps by COALESCE what it has nothing for.

**`Migrations_proofs`** (any number of processes and faults): `TypeCorrect`,
`ReadyFindsSchema` (`ReadyHasSchema`), `NoRowIsLost` (`RowsKept`),
`SchemaIsRecorded` (`SchemaMatchesRecord`), and `UpgradesAsOne`: any number of
processes that migrate at once implement `SchemaHistory` (`KeepsHistory`). The
check in `Migrate` is made
outside the transaction, so what makes it safe is elsewhere: table locks keep
two transactions of one version apart (`Exclusive`), so one that has passed the
insert is the only one that can commit it (`CommitIsNew`, the primary key); a
process has recorded what it has passed (`Progress`); and a table that a version
still to come will drop has no rows (`DroppedEmpty`), because only a process
that found every version recorded writes. `FormStep` says what one version does
to the form of a table, and with it each commit extends the record by one. In
the refinement only commits and writes are steps of `SchemaHistory`; `CommitIsNew`
is what makes a commit an `Upgrade`, and `Progress` what makes a write find the
last schema.

**`FailoverClient_proofs`** (any number of calls and hosts, answers of any lengths):
`TypeCorrect`, `FailuresAreTotal` (`FailureIsTotal`) and `KeepsThePromise`
(`KeepsPromise`). The invariant says that a call's attempt is below the number
of hosts, that none of the hosts it has tried was up all through it, that what it
has received so far comes from the host it is asking and is no more than that
host has, and that it is all of it once the stream has ended. A call keeps its
own start and counts its attempts, so the shared cursor occurs in none of this:
that is why calls at once cannot harm each other. That the attempts go through
different hosts, and after `NumHosts` of them through all, is arithmetic modulo
`NumHosts`, in lemmas of its own.

**`ListPages_proofs`** (any list, page size and limits): `TypeCorrect`,
`NoRowTwice` (`NothingRepeated`) and `NoRowSkipped` (`NothingSkipped`), the
latter under `DistinctKeys`, named where it is assumed. A walk has shown only
rows on its side of the cursor, and every row on that side that was there from
the start. All three rest on `ReadsBack`: a cursor that is parsed at all is the
one that was written.

**`StatusPages_proofs`** (any visitors, burns, routes, pool and outages):
`TypeCorrect`; `NoConnectionLost` (`ConnectionsReturned`), by one lemma on the
cardinality of the set of requests that hold a connection; `OnePanelEach`
(`FailuresAreContained`); `PagesTellTheTruth` (`PanelsAreTrue`) and `ShownGoesOn`
(`NothingGoesBack`). The last two share one invariant, `TruthInv`: what a visitor
has been shown is not ahead of the tables (`SeenSoFar`), a request's `since` lies
between the two (`SinceAsked`), and what a request holds from a statement that
has run was so at some moment since (`ReadIsTrue`). Steps are of two kinds: those
that let the tables grow and leave requests alone, and those of a request, on
tables that stay (`StepsGoOn`). That a non-empty set of heights has a highest one
(`Latest`) is shown from the natural numbers' well-foundedness.

**`ValidatorRoster_proofs`** (any validators, epochs, nodes and faults):
`TypeCorrect`, `NobodyElsesData` (`RowsAreOwn`) and `KnowledgeStays`
(`KnownIsKept`). What a poll holds was read calls ago, and the indexer, the nodes
and the other poller have moved on since; so the invariant `RosterInv` says that
a roster in hand is that of an epoch the indexer has reached (`RosterHeld`), and
that an endpoint's status and stats in hand are that endpoint's own
(`HealthHeld`). Steps are of three kinds, those of the world, of
the table and of vnhealth's hand, each with one lemma.

**`Startup_proofs`** (any fields, networks, lags and margins): `TypeCorrect`,
`OwnEndpointsOnly` (`NoForeignEndpoint`), `UnusableTouchesNothing`
(`RefusedTouchesNothing`) and `NoGuessedLag` (`LagIsNotGuessed`). Past `Check` the
command has what it needs (`OnlySufficient`), and what `Load` resolved does not
change (`BehindLoad`).

**The safety halves of liveness.** Liveness is out of the prover's reach, but each
argument for it has a part that is not, and that part is proved where it is more
than a glance. Two kinds:

* *Nothing goes on without end.* `PassesEnd` (`BurnTracker`): each call of a
  pass, failed or not, goes to a later phase, to a later batch, or leaves fewer
  rows to handle, or ends the pass; for any batch size, range and number of rows.
  `WalksGoDown` (`ListPages`): each page lowers the cursor, however fast rows are
  inserted. `HandlersGoForward` (`StatusPages`): a handler runs each of its
  statements at most once. `CursorNeverBack` (`TemplateMirror`): a running
  explorer's cursor only goes forward, whichever polls fail. What is left for TLC
  is that each call returns, which is the fairness of section 4.
* *What is reached stays.* `SettledCursorStays` (`FailoverClient`): while the
  hosts' health does not change, what any number of calls at once write to the
  cursor does not move it off a host that is up. `SettledStays` and
  `SummaryStays` (`ValidatorRoster`): once all have caught up with the last epoch
  and the table shows its roster, no step of anyone changes that, and every
  summary asked for from then on is of the last epoch and counts all of its
  roster, although it is two statements. It may count more: a node that has left
  the roster and still answers has its row kept up to date by vnhealth and is
  counted too. `CountsTheRoster` bounds it by those nodes. `CompleteStays` (`TemplateMirror`, under the condition of
  `HashesStay` below). What is left for TLC is that the state is reached.

**Exact limits.** Where a property does not hold of this code (section 6), a
theorem says when it does:

* `OnlyTiesAreSkipped` (`ListPages`): with any keys, a row that a finished walk
  has skipped has the same key as a row it has shown.
* `HashesStay` (`TemplateMirror`): if the catalogue has every metadata hash that
  the metadata server has, none is blanked out. It rests on `HashesAreKnown`: what
  the table has of a hash came from one of the two.
* `DefaultsFillUnlessTable` (`Startup`): the local-dev defaults fill every gap
  unless the file has a table of networks.
* `OnlyOverflowUncoversLag` (`Startup`): the threshold covers the lag if and only
  if the sum of lag and margin fits its width.
* `LinksBreakEast` (`ListPages`): a page's link asks for the rows before its last
  one, except in the list of templates on a server east of UTC, where it is always
  refused (`LinkReadsBack`, exactly).
* `MissedOnlyBehind` (`BurnTracker`), above.

Only model-checked: liveness under fairness (`EveryBurnRecorded`,
`FollowCatchesUp`, `PendingResolves`, `CallsEnd`, `CursorSettles`,
`RosterConverges`, `SummaryConverges`, `CatalogueMirrored`,
`FeaturedRowsComplete`, `AllReady`, `WalkEnds`, `EveryRequestEnds`, `ServerStops`,
`SignalStops`), since the prover does not handle ENABLED. All safety properties
and all refinements of the runs are proved too. No module uses RECURSIVE
operators.

## 6. Where the code and its comments disagree

Two of these are runs that TLC ends with a counterexample.

* `doc_commitment_conflict`: `rows.go` says a conflict on the commitment is
  ignored; the statement ignores a conflict on the kernel hash only. A
  reorganisation that re-mines a burn under another kernel makes every later
  tick fail at the same insert, and the follower never catches up.
* `doc_metadata_hash`: the comment says neither source can blank out the other's
  value; the catalogue's upsert writes NULL over a `metadata_hash`.

The others are stated in the modules, and a small change of a `.cfg` makes TLC
show each of them.

* A restarted `Follow` can miss a gap, though `burnclaim.go:122` says it does not
  ("or missing a gap"). With no start height it begins `ScanBatchSize` blocks
  below the tip, and what lies between its old cursor and that window is never
  scanned. `CoverageContiguous` in `tracker_live.cfg` with `StartHeight = 0` and
  `MaxHeight = 6`.
* A stuck burn that is claimed late stays stuck, though the page calls these
  burns "with no matching L2 claim" (`home.html:7`): only pending rows are looked
  up. `ClaimsShownInTheEnd` in `tracker_live.cfg`.
* The tip and the blocks may come from different base nodes, and `scanRange` does
  not compare the blocks it got with the heights it asked for (`scanner.go:34`):
  if the second node is behind the first, the cursor passes blocks that were
  never read. The client does not notice either: a stream that ends early is an
  answer (`l1client.go:185`). `CoveredBurnsRecorded` in `tracker_live.cfg` with
  `HostLag = 1`.
* `last_seen_epoch` is "the highest epoch this validator was seen in the roster"
  (`0001_init.up.sql:44`); a source that lags lowers it. `LastSeenNeverFalls` in
  `roster.cfg`. Nor is it always an epoch of the roster: a node that has left it
  and still answers reports the current epoch for its own row, and the summary
  counts it (`CountsTheRoster`).
* The lists promise a cursor that does not skip; rows with equal keys at a page's
  end are skipped. `NothingSkipped` in `pages.cfg` with `KeyOf <- MCTiedKeys`.
* The list of templates writes a cursor that its handler "can parse back"
  (`server.go:64`). PostgreSQL's driver gives times in the server's zone; where
  that is east of UTC the text has a `+`, the link (`templates_list.html:29`) puts
  it into the query as it is, and it arrives as a space. Every "Load more" of that
  list is answered 400, and no walk gets past its first page. `LinkReadsBack`, and
  `WalkEnds`, in `pages.cfg` with `ZoneOffset <- East`.
* A call goes on "until one succeeds or every host has been tried"
  (`l1client.go:123`); a host that accepts it and says nothing holds it for ever.
  `CallsEnd` in `failover.cfg` under `FairSpec`.
* The health route is "Always 200 - a degraded DB is reported in the body"
  (`api_test.go:593`); with a database that is silent rather than down it does
  not answer. `HealthAlwaysAnswers` in `pages_pool.cfg` under `SilentSpec`.
* Settings are resolved "in that precedence order for every field"
  (`config.go:136`); a file that defines any network takes the local-dev defaults
  away from the fields its localnet entry leaves out. `DefaultsFillGaps` in
  `startup.cfg`.
* The threshold is the "real confirmation lag PLUS a configurable extra margin"
  (`consensus_constants.go:48`); the sum is a `uint64` and a margin near 2^64
  wraps it below the lag. `ThresholdCoversLag` in `startup.cfg` with
  `Extras = {4, 15}`.

## 7. What is not modelled

* Decoding, rendering, logging and DTOs: they decide nothing that a later step
  depends on.
* The HTTP clients beyond "one call, one answer or one error": `vnclient`'s
  request numbering is never compared with an answer, and which error a failure
  is matters only for the indexer's 404, which is modelled. The two `vnclient`
  calls that are only logged are left out.
* `-dry-run` of the pollers, which writes nothing; in `Startup` it is the way past
  the database.
* The static routes (`/api/spec`, `/api/docs`): an embedded file, no state.
* In `ListPages`, changes of the server's offset while it runs (daylight saving),
  JSON callers who do not escape what they put into a query, and precisions of a
  time: RFC3339Nano keeps all that PostgreSQL has.
* Columns no property tells apart: `last_checked_at`, block timestamps, names,
  hashes, sizes. In `StatusPages`, what is in the validators' and templates'
  panels.
* 64-bit wrap-around of heights, which no chain reaches; the sum of lag and
  margin has its width in `Startup`.
* The down migrations, which no code runs.

## 8. Plan

Done so far: every module above, their runs, the proofs of section 5.

Next, in this order:

1. Proofs: what remains of the liveness arguments is that a call's result brings
   the goal nearer, for `TemplateMirror` (each page of a poll that does not fail
   mirrors its entries) and `FailoverClient` (an attempt at a host that is up
   returns from it).
2. Compose `Migrations` with one poller: no statement of a running process meets
   a table without its columns.
3. The `-dry-run` of the pollers: that it reads as the real mode does and writes
   nothing.
4. Two trackers in `tracker_live`, with a start height each.
