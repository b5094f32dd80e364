# shelter-drill-gate in TLA+

shelter-drill-gate is a small Go service that keeps the record of a shelter
drill: its baseline layout, the checks walked through in the field, the
deviations and their remediation, the review and the decision that activates
the shelter. One process serves an HTTP API and a page to several people who
work on the same drills, over one SQLite file. This directory holds its
specifications, the configurations that check them with TLC, and proofs that
the TLA+ proof system checks.

- [The system](#the-system)
- [Modules](#modules)
- [Runs](#runs)
- [Fairness](#fairness)
- [What is proved](#what-is-proved)
- [Findings](#findings)
- [Not modelled](#not-modelled)

## The system

| component | code | state | operations | what makes it correct |
|---|---|---|---|---|
| Drill lifecycle | `internal/domain`, the handlers in `internal/application/*.go` | one aggregate: drill row, baseline, checkpoints, results, deviations, materials, retests, review rounds and items, decision | create, revise, preview and freeze baseline, record check, remediate, retest, submit, reject, approve, respond | the status always agrees with the rows; nothing reaches review unless the latest attempt of each checkpoint passes; answers, decisions and activated drills never change |
| Command service | `internal/application/service.go` | none of its own; it runs each command in a transaction under a lock | `execute` | a request is applied at most once, a page never overwrites what it did not see, an answer reports what is durable, every call returns |
| Coordinator | `internal/application/coordinator.go` | a table of reference-counted mutexes | `lock`, `unlock` | mutual exclusion per key, independence of keys, no entry left behind |
| Storage: connections | `internal/storage/store.go`, `load.go` | a `database/sql` pool of 8 connections | queries, transactions | no request waits for ever for what others hold |
| Storage: tables | `internal/storage/migrations.go`, `drills.go`, `save.go`, `load.go`, `idempotency.go`, `audit.go` | thirteen tables | `SaveAggregate`, `LoadAggregate`, `UpdateDrill`, `SaveResponse`, `FindResponse` | what is loaded is what was saved; a stale version does not overwrite |
| Audit chain | `internal/audit` | one event per accepted command, chained by hash | append, verify | every accepted change has its event; a changed event is noticed |
| Read model and decision queries | `internal/application/queries.go` | none | workbench, drill list, timeline, verify decision | what is shown belongs together |
| Progress summary | `internal/domain/summary.go` | none | a pure function of the aggregate | its own rules agree with those of the handlers |
| HTTP layer | `internal/web` | none | routing, decoding, mapping of errors to statuses | each error has its own code |
| Browser page | `internal/web/static` | the id of a drill, the last view, the last preview, the controls that are shown | choose, load, preview, command | freezes what the user saw; a drill that is shown can be continued |
| Runtime and configuration | `cmd/sheltergate/app.go`, `config.go`, `main.go` | listener, server, store | start, serve, shut down | ends when told to, and well only after the requests in flight |
| Self check | `cmd/sheltergate/selfcheck*.go` | none | a scripted client | – |

### How they interact

A page sends a command with a request id, the version it last saw and a form.
`web` decodes it and calls the service. `Service.execute` looks the request id
up, takes the coordinator's lock for the drill (for a create: for the request
id), opens a transaction, looks the id up once more, and calls the handler. The
handler loads the aggregate, compares versions, applies the rules of `domain`,
and saves the aggregate, one audit event and, back in `execute`, the response.
Commit and unlock follow, then the answer. Reads go to the store without lock
or transaction, and share its eight connections with the commands.

### What is hard

- *Long sequences.* Nine commands in any order, with retries of checks, several
  rounds of review and a status that two handlers compute and five set by hand.
  Some handlers check less than others: `Retest` never looks at the drill's
  status, and only the reachable states make that safe.
- *Concurrency.* Commands of one drill are serialised by the coordinator, which
  unlocks a key before it deregisters; those of different drills meet in
  SQLite, where deferred transactions that read before they write fail at once
  with `SQLITE_BUSY`; reads share the pool with both.
- *Failure.* Clients leave and retry, the rollback of a cancelled transaction
  runs behind the handler's back, the process dies between any two steps.
- *What is shown.* A view is put together from eleven queries outside any
  transaction; the progress is computed by rules of its own; the page combines
  an id, a view and a preview that change at different moments, and its calls
  overlap.
- *Limits.* A pool of eight connections and a query inside another one; a
  measured time cut to seconds; a calendar day that ends.

`PROJECT.json` lists each of these hazards at its line with the properties
that would notice it.

## Modules

A definition whose comment starts with *Mutant* is not part of any
specification. It is the definition after it with a plausible bug, and there is
one for every property of the passing runs: put in place of the original, it
makes TLC report the property. This shows that the property depends on what the
code does.

| module | content |
|---|---|
| `DrillLifecycle` | one drill and its commands |
| `DrillLifecycleProofs` | its inductive invariants and theorems |
| `AuditChain` | building and verifying the chain of audit events, and damage to it |
| `AggregateStore` | the tables under `DrillLifecycle`, with `AuditChain` in one of them |
| `AggregateStoreProofs` | theorems on the timeline and on what the tables hold |
| `ProgressSummary` | the summary as operators on the state of `DrillLifecycle` |
| `MCDrillLifecycle` | forms and bounds for TLC, for the drill with its tables and its summary |
| `WorkbenchRead` | detail read and verification query by query, next to the commands of `DrillLifecycle` |
| `WorkbenchReadProofs` | its inductive invariants and theorems, and those of `ProgressSummary`, which `GetWorkbench` answers with |
| `MCWorkbenchRead` | a small drill for TLC |
| `KeyedMutex` | what the coordinator promises: a mutex for each key |
| `Coordinator` | the coordinator, refines `KeyedMutex` |
| `CoordinatorProofs` | its inductive invariant, its theorems and the step simulation |
| `AtomicCommands` | what `execute` promises: commands are applied one after the other, each at most once |
| `CommandService` | `execute` step by step, uses `KeyedMutex`, refines `AtomicCommands` |
| `CommandServiceProofs` | its inductive invariants, its theorems and the step simulation |
| `MCCommandService` | requests for TLC |
| `ConnectionPool` | who holds which connection while waiting for another |
| `ConnectionPoolProofs` | its inductive invariant and theorems |
| `MCConnectionPool` | its instance for TLC |
| `WorkbenchPage` | the browser page with its overlapping calls, and the handlers it meets |
| `WorkbenchPageProofs` | type correctness and what it may freeze |
| `MCWorkbenchPage` | symmetry for TLC |
| `Runtime` | the server process from start to end |
| `RuntimeProofs` | its inductive invariant and theorem |

The layers meet at their abstractions: `Coordinator` is shown to implement
`KeyedMutex`, `CommandService` takes its lock from `KeyedMutex` and is shown to
implement `AtomicCommands`, whose commands are the atomic steps that
`DrillLifecycle` describes rule by rule. `AggregateStore` conjoins each of these
steps with the writes to the tables, `WorkbenchRead` interleaves them with
queries, and `WorkbenchPage` reduces them to a version and a few statuses.

### DrillLifecycle

Each variable is a table or row of the aggregate; each command is one action,
because a command is one transaction and a failed one is rolled back.

| variable | code |
|---|---|
| `drill` | `domain.Drill`: status, version, baseline version, and of the profile the lead, capacity and date |
| `baseline`, `checkpoints` | `LayoutBaseline`, `Checkpoint` by order |
| `results`, `deviations`, `materials`, `retests` | sets of rows, as the tables hold them |
| `rounds` | `ReviewRound` with its items, an item being its answer or `Blank` |
| `decision` | `ActivationDecision`, digests being what they digest |
| `events` | types of the audit events in order |
| `preview` | the preview the page holds: what it was computed from |

`RecordCheck` and `Retest` contain the evaluation and
`RecalculateProgress`; all commands end in `Save`, which is
`UpdateDrill` with the next version and the audit event. The digest a freeze
compares is the pair of version and layout that `baselineDigest` hashes. Times
are ticks, so that a truncated half second can decide. Names stand for all the
strings that trim to them. Texts without a rule are left out: a blank one only
refuses a command, which changes nothing.

The caller's `expected_version` is not a parameter: `checkVersion` refuses any
but the current one, and what a stale one may do is `CommandService`'s
subject.

### KeyedMutex, Coordinator

`locks`, `refs` and `holder` are `coordinator.locks`, `lockRef.refs` and the
owner of `lockRef.mu`. `Join` and `Create` are the two ways through the first
critical section of `lock`; `Acquire` is `ref.mu.Lock()`; `Release` and
`Deregister` are the two halves of the returned `unlock`. Addresses come from a
finite set and one nobody refers to may be allocated again, as the garbage
collector allows.

### CommandService, AtomicCommands

One action for each stretch of `execute` between two points where another
call can show: the first lookup, the lock, the reads of the transaction with
their verdict, the first write, the commit, the unlock. `snapshot` is what a
deferred transaction saw; `MayWrite` is SQLite's rule for upgrading it. The two
lookups of the request id are separate actions on different states of the
database. `Disconnect` may happen at any time, `Cancel` is the statement or commit
that notices, `Rollback` frees the write lock later, as `database/sql` does in
a goroutine of its own. `Crash` loses all but the database.

The handler is reduced to what this level can tell apart: it creates a drill or
moves one to its next version, and it may be refused by a rule at any time.
Only results that are committed are stored under a request id.

`AtomicCommands` has a single action per outcome and no locks, transactions
or processes. The refinement mapping takes the database as it is; what the
other variables do is stuttering.

### ConnectionPool

`conns` is the set of pairs of a request and the query it holds a connection
for. A detail read runs its queries one after the other except for
`loadReviewRounds`, which runs `loadReviewItems` inside its own rows
(`load.go:122`). Commands hold a connection for the lookup and one for the
transaction, never two. `GiveUp` is the end of a context, by the client or by
the server's `ReadTimeout`; it is only taken by a request that is stuck, since
fifteen seconds are long against any query.

### AuditChain, AggregateStore

`tables` has one component for each table of a drill, as the set of its rows;
`audit` is the sequence of its events. Whether two rows share a unique key is
one operator for each table of `migrations.go`. `SaveAggregate` writes the whole
aggregate again, and what becomes of a row that exists is what its statement
says: `InsertOrIgnore` keeps it, `Upsert` merges the named columns. Each
command of `DrillLifecycle` is conjoined with `InsertDrill` or `UpdateDrill`, so
that the handlers' aggregate and the tables run side by side: `StoredAsProduced`
says that loading the one gives the other, which is why `DrillLifecycle` may
treat its variables as what a handler loads.

An event is hashed as the tuple of its columns, with the hash before it inside.
`BuildEvent`, `AppendEvent` and `Verify` are those of `internal/audit`;
`Altered`, `Rehashed` and `Without` are what may happen to the file. Verification
does not notice that the last rows are gone, because nothing else records how
many there were; `DamageIsNoticed` states that as well as what it does notice.

### ProgressSummary

`SummarizeProgress` as operators. It decides by `initialPassed` whether a check
passed, by a count whether there is work to close, and by the first missing
result what to do next, while the handlers use `EvaluateResult`, the status and
`ValidateResultForDrill` for the same questions. The properties compare the two.

### WorkbenchRead

One action for each query of `loadAggregate` in its order, `LoadEvents` after
it; the items of each round are a query of their own. `view` collects what was
read. Commands of `DrillLifecycle` happen in between. A mixed view is possible,
and the properties say why it does no harm: it carries an old version
(`CurrentViewIsExact`), it never reaches verification or export
(`VerificationHolds`), its timeline never lacks what it shows
(`TimelineAccountsForView`). One exception is stated in `ShownReviewIsWhole`: a
view begun on a draft and ended after the approval shows an approved decision
as not verified, until it is loaded again.

### WorkbenchPage

`id`, `view` and `preview` are `state` in `app.js`; `controls` are the edit
button and the panels an earlier render left visible, which nothing hides when a
later one throws. A call occupies a slot: first its request as it was sent,
then its answer. `Select`, `Refresh`, `Send...` and `AskPreview` are the page's
event handlers up to their `await`, `Hear...` the rest of them, the handlers of
`internal/web` are in between, and other clients change the drills at any time.
`Lose` is a `fetch` that fails before or after its command was applied, `Reopen`
a page that is loaded anew while its old commands still run.

A drill is its status and version; the statuses after the freeze are two, with
and without a deviation, because that is what `render` depends on. What the
user may do is taken generously: an edit dialog counts as open once a draft was
shown, any control is used at any time, and a form may be refused. `frozen` is a
history variable for the property.

### Runtime

`proc` is the place of `runServer`; `stop` and `done` are its two channels.
Handlers are cut into the four moments at which the store or the process can
be gone under them. `ServeEnded` is the branch of the `select` that closes the
store with handlers running; `ShutdownTimesOut` is the other way to get there.

## Runs

| run | module | states | checks |
|---|---|---|---|
| `drill_field` | `MCDrillLifecycle` | 71 k | the field phase: status and rows agree, deviations follow attempts, the gate is earned, the history is complete, a freeze is what was previewed; the summary is honest and its next action accepted; damage to the timeline is noticed |
| `drill_review` | `MCDrillLifecycle` | 145 k | the review phase: one open round, closed records stay, the decision verifies, the timeline accounts for the record and verifies, the tables give back what was saved |
| `workbench_read` | `MCWorkbenchRead` | 1.1 M | reads next to commands: a current view is exact, the timeline covers the view, verification holds, the review that is shown is whole |
| `coordinator` | `Coordinator` | 1.5 k | the table, exclusion per key, every waiter enters, implements `KeyedMutex` |
| `commands` | `MCCommandService` | 475 k | at most once, no lost update, durable answers, a retry is not refused, busy only because of others |
| `commands_live` | `MCCommandService` | 26 k | every call returns and no write lock stays, implements `AtomicCommands` |
| `pool_roomy` | `MCConnectionPool` | 800 | more connections than detail reads: no circular wait, every request is served |
| `pool_full` | `MCConnectionPool` | 2 k | as many reads as connections: only reads block, nothing leaks, every request ends |
| `pool_stall` | `MCConnectionPool` | – | the same, and a detail read that is not answered: see the findings |
| `page` | `MCWorkbenchPage` | 2.2 M | the page freezes only what it previewed |
| `page_flow` | `MCWorkbenchPage` | – | a page that shows a drill it cannot continue: see the findings |
| `runtime` | `Runtime` | 7.6 k | a process that ends well has answered all it read; one that is told to stop ends |

### Bounds

- *Drill.* Two checkpoints instead of four: order, "the preceding one" and "all
  of them" need two, and a third adds no rule. `MaxVersion` 10 is a drill that is
  created, frozen, checked twice, remediated and retested twice at one
  checkpoint, submitted and approved. 14 is one that is returned twice,
  answered in two commands each time, and approved. A second is two ticks and a day forty, with
  forms on both sides of a limit, of the midnight and of the capacity, in
  another zone, and forms that are refused for each reason. The field run has
  nine kinds of forms, the review run three, enough to reach the review with
  and without a deviation. Rounds have one or two items, for one answered
  and one not.
- *Coordinator.* Three commands, two keys, three addresses: one holds, one
  waits, and one arrives while the address of a dropped entry is used again for
  the other key.
- *Commands.* Three calls, two request ids, five requests: a retry, an id used
  for another operation, two pages with the same version, a stale version, a
  create next to an update. Three drills, one of them for a create. One crash, at any
  point; a second one finds nothing a first one does not, since only the
  database survives. The three calls are interchangeable and the safety run
  uses that symmetry; the run with temporal properties does not, and has two calls.
- *Tables, timeline, summary.* They follow the drill, so its bounds are theirs.
  Damage puts the value of the next row (of the first one, for the last) into
  each column of each row, and removes every stretch of rows. The field run takes
  the complete layouts of the route as interchangeable.
- *Reads.* One checkpoint, one item and `MaxVersion` 8: a drill created, frozen,
  checked with a deviation, remediated, retested, returned or approved while one
  read after the other runs. Reads change nothing and cannot disturb each
  other, so one at a time is enough.
- *Page.* Two drills, so that an answer can belong to the other one; two
  layouts, so that the form can differ from the preview; two calls in flight, of
  which one may fail, so that answers overtake each other; five commands in
  all (`MaxCommands`), so that one drill is created, frozen, fails a check and is worked on
  next to another one, or two drafts are revised to the same version. Slots,
  drills and layouts are interchangeable. The theorem has no bound.
- *Runtime.* Four requests: one in each of the moments at the same time.
- *Pool.* Two readers with two rounds and a command, with two and three
  connections. The code has eight; the theorems hold for any number.

`CHECK_DEADLOCK FALSE` is set for the drill, where an activated drill, or one
at the bound, accepts no command, for the command service, where each call is
sent once, and for the runtime, since a process that has ended does nothing.

## Fairness

- `DrillLifecycle` has none: nothing obliges people to go on.
- `Coordinator`: a command that holds its lock finishes (weak), and
  `Acquire` is strongly fair, because `sync.Mutex` hands itself to a waiter that
  was passed over for a millisecond.
- `CommandService`: a handler that can go on does (weak); `EnterLock` as above
  (strong). Clients need not stay or leave, and nothing is assumed of crashes.
- `ConnectionPool`: a query on a local file ends (weak); `database/sql` serves
  the requests that wait for a connection in turn (strong); a request that
  is stuck is timed out (weak). The last holds because `app.go:38` sets a
  `ReadTimeout` and the end of the connection's read side cancels the context.
- `WorkbenchRead` and `WorkbenchPage` have none: their properties are about
  what must not happen, and nobody has to answer or to go on.
- `Runtime`: the main goroutine runs when it can, and the context of the
  shutdown ends after its five seconds (weak, on `Ends`). Nothing is assumed of
  the handlers: one may hang, as `pool_full` shows that it may for a while.

## What is proved

TLC checks the instances above; the theorems below hold for all values of the
constants that satisfy the named `ASSUME`s of the modules: any number of
checkpoints, forms, names and items, any bound on versions; any finite set of
commands, any set of keys and addresses; any set of calls, request ids and drills and any
number of crashes; any finite number of requests on a pool of any size; any set of
requests in a process. Each safety invariant and each action property that a passing
run checks is proved. The inductive invariants were checked by TLC first.

`DrillLifecycleProofs` proves type correctness and the safety properties
of the drill, the action property included. Most rest on the inductive invariant
`IInv`. The properties alone are not inductive:

- that a deviation follows the *latest* attempt needs attempts to count from one
  without gaps (`Numbered`), and rows to be identified by their keys
  (`KeysUnique`), or a retest could hide behind a row with its number;
- that all checks of a gated drill passed needs the deviations of unrecorded
  checkpoints excluded (`RecordedInOrder`);
- that a freeze binds the profile shown with the preview needs the profile to be
  unchanged while the version is (`PreviewCurrent`);
- that the review handlers find the right round needs `OpenRoundIffReturned`
  itself, with the status.

There is one lemma for each action, in it one step for each conjunct the action
can disturb, and `NextIInv` puts them together. `ClosedRecordsStay` follows from
the invariant for each step. `RetestOnlyInRemediation`, which makes `Retest` safe
without a look at the status, is a conjunct of the invariant and a theorem.

A second invariant, `HistoryInv`, is inductive under the first and counts.
`TimelineAccountsForState` says how many events of each type there are, and is
inductive once every table is known to be finite (`TablesFinite`): a command adds one
row and one event, and the cardinality of a set with one more element needs no
induction. The numbers of attempts and materials in
`RetestHistoryConsistent` need that a deviation that is ready for a retest has the
material it is retested with (`MaterialReady`), that there is one retest row for each
attempt after the first (`RetestRows`), and that a closed deviation names the attempt that
passed (`ClosedByPass`).

`AggregateStoreProofs` proves that the written timeline verifies
(`TimelineVerifies`), with the invariant that it does and that its rows have
all columns, and that `Verify` notices what `DamageIsNoticed` says
(`DamageNoticed`). That one is a fact about chains: a row's hash contains its
columns and the hash before it, so that changing a row breaks its own hash or the
link of its successor, and removing rows before the last breaks a number.

The same module proves `LoadedAsProduced`: what `LoadAggregate` reads is what the last
command produced. The invariant `Stored` writes the tables as a function of the
aggregate, one row for each of its parts and no other. It is inductive because no row is
both kept and new: `TablesGrow` and the keys of `IInv` and `HistoryInv`
(`KeysUnique`, `RetestRows`) show that `INSERT OR IGNORE` ignores only rows that are
equal, `RoundsKept` that the columns an upsert leaves alone have not changed.
Nothing in it follows from the statements alone: a handler that changed a stored result
would break it. `OrderedByNumber` is the lemma on `ORDER BY`: sorting the rows
of a sequence by their number gives the sequence. `NoConflictAlone` says that
`UpdateDrill` finds its row, so that putting the tables under the commands stops none.

`WorkbenchReadProofs` proves `CurrentViewExact` and `VerificationCorrect`. The
invariant says that what was read so far is exact as long as the version that
was read is the current one; a command makes the version old for good, and an
activated drill has no command left, so that a verification that goes on past
the status is exact to the end.

A view whose version is old is described by `BehindInv`: what was read is a past of the
tables. Rows that were read are still there (`RowsBehind`), a frozen round that was read
is as it was (`RoundsBehind`), a decision that was read is the decision
(`DecisionBehind`), and a drill that was shown past its draft keeps its profile and its
baseline (`RowBehind`, `BaselineBehind`). Commands keep this because they only add
rows and never change closed ones, queries because each reads a part that is at least as
new as the parts before it. `TimelineReachesView` follows since the events are read last
and account for the rows of that moment (`TimelineAccountsForState`), `ReviewShownWhole`
since a signed decision digests rows that do not change any more.

The summary that comes with the view needs two more parts of the drill's invariant: a checkpoint that has
a second attempt has a deviation (`RetestedDeviates`), without which the first
attempt that `initialPassed` looks at need not be the latest; and while checks
are missing, exactly those up to some number are recorded (`RecordedUpTo`),
without which the next checkpoint that is shown need not be the one that
`RecordCheck` takes. `SummaryHonest` and `ShownActionAccepted` follow; the
percentage needs that a proper part of the checkpoints never rounds to 100.

`WorkbenchPageProofs` proves type correctness and `FreezesPreviewed` for any
number of drills, layouts and calls in flight. The argument needs nothing of
the page: a digest is compared by the handler with the preview it makes itself.
Type correctness is not idle here: it says that a preview is held whenever one is sent and that
an answer is heard as what it is.

`CoordinatorProofs` proves `ExclusionPerKey` and `TableMatchesUsers`: mutual
exclusion, the independence of keys and the agreement of the table with its
users. Its invariant adds that users of a key share
the lockRef that is in the table, that lockRefs of different keys differ, and
that a held lockRef is held by a command in `"holding"`; with the counts equal to the
number of users, an entry is dropped by the last one only. `CoordinatorIsKeyedMutex`
is the safety half of `ImplementsKeyedMutex`: creating, joining and dropping
entries is stuttering, and entering a lockRef is entering the mutex of its key, because
every user of the key has that lockRef.

`CommandServiceProofs` proves that a request is applied at most once, that no
command overwrites what its page had not seen, that an answer is durable, and that each
step is a step of `AtomicCommands` or invisible to callers (`ServiceIsAtomic`,
the safety half of `ImplementsAtomicCommands`). The core of its invariant is
`UpToDate`: a transaction that may still write has seen every commit, so what it
read of its request id and of its drill is still so. A commit of another call makes the
snapshot old, and an old snapshot never writes. The
coordinator is not used anywhere in this argument: the database alone keeps
commands apart. What the lock adds is that commands of one drill wait
instead of failing, which is what `RetriesReplayed` and `BusyFromOthers` say. They
need a second invariant, `LockInv`: a call past the lock owns its key (`LockHeld`), the
write lock is with a transaction or waits for a rollback (`WriterKnown`), and the commits
that a transaction does not see are unrelated to it (`UnseenUnrelated`). The
rollback is the exception that stays: it may end after the key was given on.

`ConnectionPoolProofs` ties each connection to the place of the request that holds it. Hence
whoever holds a connection and waits is between two rounds of a detail read and
holds one connection; in a circular wait these map one to one to the
connections, so there are as many of them. With fewer detail reads than
connections there is none (`RoomyPool`), for eight as for two.

`RuntimeProofs` proves `CleanEnd`. The invariant follows the process: the store is open
from the moment it listens until the shutdown is over, nothing is read once the
listener is closed, and a shutdown that was not timed out leaves no request on its way.
The store matters because `Begin` on a closed one fails the request instead of
serving it.

Only model-checked is what the provers cannot do: liveness under fairness
(`EveryWaiterEnters`, `EveryRequestIsServed`, `EveryRequestEnds`, `EveryCallReturns`,
`StopEnds`), and with it the fairness in `ImplementsKeyedMutex` and
`ImplementsAtomicCommands`, of which the steps are proved. They need ENABLED and
well-founded arguments over fair actions.

## Findings

`pool_stall` checks what the repository's README says of the detail read model,
that it returns the whole history (`README.md:45`), as `EveryDetailIsReturned`.
TLC finds it violated: as many detail reads as there are connections each open
the rows of `review_rounds` and then wait for a second connection for the items
of the first round (`load.go:122`). None is free until one of the requests is
given up and fails. The same happens with eight reads on the eight connections
of `store.go:26`. `pool_full` shows how far it goes: commands do not take part
in the circle though they wait behind it, nothing is leaked by it, and every
request ends. `pool_roomy` shows that with fewer reads than connections it
cannot happen.

`page_flow` checks that a drill which the page shows can be continued there, as
`README.md:27` says that the whole flow from creation to the decision can be
completed in the browser. TLC finds a page that shows a draft and has no id to
send commands with. Lists without rows are nil slices, which Go encodes as
`null`, and only the list of drills replaces them (`handlers.go:17`). `render`
takes the length of the checkpoints (`app.js:45`) and of the rule counts
(`app.js:72`), so it throws for every draft and for every frozen drill without a
deviation, and `load` treats that like a drill that could not be fetched: it
drops the id (`app.js:29`) while the view stays.

## Not modelled

- The contents of forms that no rule looks at, the wording of errors, layout
  and style of the page, parsing of flags: no state depends on them.
- SHA-256: a digest is modelled as what it digests, so collisions are excluded.
- SQLite itself: its transactions are modelled from how the code opens and uses
  them. Disk failures and a damaged file are left out.
- The self check (`selfcheck.go`, `selfcheck_client.go`): a sequential client that
  calls the API once, each request after the answer to the one before.
- Flags and addresses (`config.go`), routing tables, headers, body limits and
  static assets: functions of one input without state.
- The wording in `ProgressSummary` and its counts by rule, a tally of the
  deviations.
- Disagreements of the page that no document excludes: while the view of a
  chosen drill is awaited, the controls act on the new drill with the version of
  the one that is shown, and a revision is accepted when the numbers agree.
  `WorkbenchPage` contains this, and no property claims otherwise.
- Dead ends that the code accepts: a check that ends at the end of the day leaves
  no time for the next one (`checkpoints.go:57`). Nothing promises a way on.
