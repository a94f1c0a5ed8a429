# ObjectFlow, specified

TLA+ specifications of ObjectFlow's engine and service, checked by TLC on small instances and proved, in part, by TLAPS. Every definition is translated from the Rust sources: `core/crates/objectflow-core/src` (the engine and its store) and `core/crates/objectflow-service/src/main.rs` (the service). Paths below are relative to `core/crates/`, with `main.rs` the service's and `store.rs`, `request.rs`, `publish.rs`, `eval.rs`, `model.rs`, `db.rs`, `subscription.rs`, `world.rs` the engine's. `PROJECT.json` names the lines each definition stands for, every run, and the hazards they are for.

## The system

ObjectFlow runs declared *flows*: types with states, transitions, guards and outcomes. A caller asks for a transition with `POST /v1/request`; the engine decides it in one transaction of its store and answers a verdict. The store is one SQLite file, or one PostgreSQL database.

| Component | State | Operations | What is hard | What makes it correct |
|---|---|---|---|---|
| Request admission to the writer (`queued`, `run_group`, `alone`, `locked`) | queue of tickets, the writer's mutex, each ticket's answer, the latch | push, lock, drain, run a group, commit, answer | any caller may lead any other's request; a group that fails is run again one by one; the writer may refuse some and not others; a kill at any point | each call runs at most once, in order, is answered, and what it is told is what the store durably holds |
| The store's request transactions (`transact*`, `*_group`, `record_attempt`, `request_told`) | the log, sequences, idempotency keys, the attempt log | apply, refuse, replay, roll back to a savepoint | a refusal keeps its numbers and its row past its own rollback; a key is recorded with what it applied | a key applies once; a number told is never drawn again; a refusal has its row |
| Connections (`db.rs`) | transaction open or not, given up or not | begin, commit, roll back, discard | a rollback that fails; PostgreSQL's commit in doubt | no later write joins what an earlier one left open |
| Read admission and the log's cut (`Admission`, `dry_running`, `cut_back`) | slots, bars and stops of five pools, the log's size, an erasure's truncation due | take, drop, bar, hold, stop, truncate, release | five pools barred and waited on one at a time while reads start and end; condition variables; stops remembered at opening | slots neither leak nor oversell; the cut finds nothing running; every bar is lifted; every read is answered |
| Numbers and restores (`Allocator`, `restore_copy`) | counters, sequences, the gaps of past restores | draw, restore a marked copy | what a lost period handed out is recorded nowhere and must be estimated | nothing is handed out twice |
| The event feed (`pull_page`, `acknowledge`) | the log, the acknowledged cursor | pull, acknowledge back and forward | late and repeated acknowledgements; pages cut by size; cursors from a time line a restore replaced | no selected event is skipped or withheld; a lost cursor is refused |
| Batches (`batch`, `begin_batch` .. `abort_batch`) | the group's transaction, draws and attempt held | run all or none | what a refused batch keeps is written in two transactions after its rollback | all or nothing, and the numbers kept |
| Publishing versions (`publish.rs`, `install`, the library reload) | the version declared, each object's version | submit, approve, publish, migrate | a change decided on a dry run prepared beside the writes; another process publishing | a version is installed on what its checks saw |
| Evaluators (`consulting*`) | calls asked and answered, a cap | ask outside, try again | the world moves between two tries of one request | at most the cap; the decision uses answers to the questions it asks |
| Erasure completion (`after_erasure`, `vacuum_erased`, `truncate_log`) | whether it is due | truncate or vacuum, retry | readers hold the old log or old rows | it is eventually done, and due until it is |
| Decision of a request (`request.rs`: `take_unwound`, `effects`, `cascade`, `invariants`, `erase`, proposals) | the transaction's working copy of the objects, its call stack, its events | take a transition, assign, clear, create, call, cascade, supersede, erase, propose, decide | what one transition writes is read by the invariants of other objects; an erasure walks what caused it, what it caused, and its merge group; a proposal runs long after it was filed | invariants hold or are admitted; log, interval index and rows agree; a proposal runs once, as filed; nothing erased is left behind |
| Connections of the listener (`listen`, `drain`, `OnConnection`) | connections open, each one's busy counter, newcomers being told | accept, make room, refuse, stop, drain | a connection taken to make room, or closed by a stop, as a request arrives on it | the cap holds, no request begun is cut short, a stop ends |
| Health and housekeeping | clocks, flags | observe, prune | flags raced by the writes they describe | a stall is told |
| Expressions, metrics, reads, exports, import, static checks, tools | none of their own | functions of a snapshot or of a source text | arithmetic, laws of the language | their own test suites and plants |

Interactions: requests share the writer's mutex with the log's cut, with acknowledgements, publishes and housekeeping. Reads share only the store's file with them, through snapshots, and the five pools with the cut. What a subscriber keeps outlives the store it came from.

## The modules

| Module | What it is |
|---|---|
| `Requests` | What one request's transaction decides: `Decided`, from replay (`HeldAt`, `Replays`), guard (`Admits`), and what applies (`Applied`) or is kept by a refusal (`Drawn`, `Logged`). No state of its own. |
| `RecordStore` | The abstract promise to callers: calls served one after another, each once, each answered what its run decided. `Serve` runs several open calls in some order, in one step. |
| `GroupCommit` | The service's writer: threads, queue, group, transaction, connection, and the faults between any two steps. Refines `RecordStore`. |
| `GroupCommitMC` | Three calls, two under one key. |
| `GroupCommitProofs` | The types of `GroupCommit`, the requests' decisions, and its keys. |
| `GroupCommitRuns` | The order requests run in, once each, and that none is forgotten. |
| `GroupCommitPromise` | What callers are told against what the store holds, and the refinement of `RecordStore`. |
| `Admission`, `AdmissionMC`, `AdmissionProofs` | The pools of heavy reads, dry runs, and the cut of the log. |
| `Restore`, `RestoreMC`, `RestoreProofs` | Counters, backups, restores, the feed and a subscriber. |
| `Decision`, `DecisionMC`, `DecisionProofs` | What one request does to the objects: transitions, effects, cascades, invariants, supersession, erasure, proposals; after its specification, what a publish's checks let a declaration be. The instance declares people, orders and their items. |
| `Versions`, `VersionsMC`, `VersionsProofs` | Two processes on one store, each with the declaration it loaded: writes, evaluators, batches, and a declaration change from its draft to its install. |
| `Listener`, `ListenerMC`, `ListenerProofs` | The accept loop, each connection's task, and the stop. |

**GroupCommit.** `pc[t]` is where the thread of call `t` stands in `queued`: `locking` (main.rs:2046), `refused` and `leaving` (the two steps of its fault path, 2052 and 2055), `holding` (2059), then as leader `begin`, `run`, `commit`, `give`, `alone`, and `release`, `check` (2068-2069). `waiting` is `Groups.waiting`, `answer[t]` the ticket's answer, `db` what the store durably holds, `tx` what a commit of the transaction now open would make of it (`NoTx` for none), `conn` whether the connection is usable, given up or gone, `latched` the service's latch. One action is one thread's step between two operations on shared state, so every interleaving of the queue's mutex, the writer's mutex and the ticket's is explored. `FaultHappens` marks what may fail: a begin, a request, a commit (failed, or on PostgreSQL committed and not heard of), a panic, a lost store, an unreachable database. `Crash` kills the process between any two steps: open calls are lost, the durable store stays. `outcome` and `arrived` are histories, read by no action.

**Admission.** One read is `Ask`, a turn at `take` (`TakeSlot`, `TakeTimesOut`, or `TakeDecides` and `TakeSleeps`, the mutex held between the two), `Register` of its stop, `OpenRead`, its end, then `DropStop`, `DropSlot` and `DropNotifies`, the stop's list and the count of slots having a lock each. A read in the pool `DryRuns` may go on to `checking` and a `second` read. The cut is one thread: `CutLooks`, `CutBars` and `CutHolds` pool by pool, `CutStops` where urgent, `CutLocks`, `CutTruncates`, `CutLowers` and `CutNotifies` pool by pool. A notification wakes only what is asleep, as a condition variable does.

**Restore.** `db` is the store served, with its log, counters, gaps and acknowledged cursor. `Copy` keeps the store as it is (the online backup marks the copy), `Restore` puts a copy in its place and runs `restore_copy` on it before anything else. `handed` and `recorded` are histories over every time line. The subscriber is outside the service: it pulls with its own cursor or none, handles a page, acknowledges (the call may arrive late, twice, or never), and may lose its cursor.

**Decision.** A declaration is data (`Decl`), with the parts of `model.rs` the decision reads: attributes, states, transitions, guards, effects, invariants, cascades. `objects`, `log` and `now` are the store; `ctx` is the request being decided: `ctx.work` its working copy, `ctx.events` what it has to write, `ctx.frames` the call stack of `take`, one frame for each nested take. `Ask` is a request's checks up to the transaction's first take; then one action is one step of the code: `Begin` a transition's own checks and move, `Assign`, `Clear`, `Supersede`, `Call`, `Create`, `Each` an effect's step, `Cascade` and `Settle` what follows the effect, `Chain`, `Member` and `Ungroup` an erasure's walk of the merge group, `Leave` the return to the caller's frame. `Conclude` runs the invariants on everything the request wrote or could affect, `Write` is the store's write of the whole (`Stored` what it leaves of the rows, an erased object's intervals emptied). `File` and `DecideProposal` are the proposal's own requests (`MayDecide` who may reject or withdraw one), `Tick` the clock. The steps of one request do not interleave with another's, as in the code the writer is held; they are apart because each reads what the one before wrote. The declared invariants and the generated ones (a state's required attributes, uniqueness, identity) are one family of tagged names. Values are small numbers, so a copy of a personal value can be recognised wherever it went.

**Versions.** `lib[p]` is the version process `p` has loaded, `holder[p]` its writer mutex, `declared`, `rows`, `changes`, `log`, `keys`, `next`, `attempts` what the shared store holds. A call is `Ask`, `DryRead` and `DryImpact` (or `DryLate`) for a change prepared beside the writes, `Enter` for the mutex, then one step for each transaction: `Reload` is the transaction that finds another version published, rolls back and loads it; `Write` decides, or stops at an evaluator's question, released and answered at `Asking`; `BatchKey`, `RunBatch`, `KeepDraws` and `Attempt` are a batch's, which a kill may separate; `ChangeFlow` is a change's draft, revision, submission and refresh, refused where the version its caller read is `Stale` or another drafted it and the caller may not approve (`MayMove`); `Decide` and `Install` are a publish, read in one transaction and installed in another. `Crash` kills one of the two processes.

**Listener.** `opened`, `busy`, `told`, `draining` are the accept loop's and each task's fields, `req` how far hyper is with the connection's request. What hyper and the client do (`Begin`, `Buffered`, `Written`, `TimedOut`, `Gone`, `Connect`) is external, taken from how `OnConnection` wraps the service and the body. `MakeRoom` and `Refuse` are the loop at the cap, `Stop` the loop's end, `Drain` and `Drained` each task's, `End` and `Grace` the two ways out.

## What each run checks

| Run | Instance | What it shows |
|---|---|---|
| `group_sqlite` | 3 calls, 2 under one key, groups of 2, 2 faults, 1 kill, SQLite | `TypeOK`, `CallsApplyOnce`, `KeysApplyOnce`, `QueueOrder`, `NoneForgotten`, `FaultedNeverRuns`, `EveryCallAnswered` (liveness) |
| `group_postgres` | the same calls, the retry's body another, one request's worth of capacity, groups of 3, PostgreSQL | `AnsweredIsDurable`, `RefusedLeavesItsRow`, `NumbersNotReused`, and `KeepsItsPromise` (refinement; `PromiseKept` proves it on either database), where a call may run after its caller was answered a fault |
| `group_late` | groups of 2, PostgreSQL | a counterexample to `FaultedNeverRuns` |
| `admission_cut` | 2 reads, 2 pools of 1 slot, 1 write, 1 cut after another | `TypeOK`, `SlotsBounded`, `NoneRunsAtTheCut`, `StopsOnlyEarlier`, `BarsLifted`, `EveryReadAnswered` |
| `admission_wakeup` | the same | a counterexample to `ReleaseLetsHeldIn` |
| `restore_feed` | 2 scopes, 3 requests, 2 restores, 1 copy kept, a clock of 2 | `TypeOK`, `HandedOutOnce`, `NoneSkipped`, `HonoursItsOwn`, `EveryEventHandled` (liveness) |
| `restore_again` | 4 requests; a copy restored twice | a counterexample to `HandedOutOnce` |
| `decision_flow` | 4 objects at first, 6 ids, 28 requests to choose from, 7 events, a clock of 2 | `TypeOK`, `AdmissionsStand`, `VersionsLogged`, `LogFolds`, `SpansTile`, `ChainsEnd`, `ExecutedAsFiled`, `ErasureReaches`, `ErasesTheGroup` |
| `decision_approve` | the same objects, an order's erasure proposable | a counterexample to `LogAccepts` |
| `decision_relabel` | the same objects, 4 requests that label an item from its orders, move it and forget the first, 10 events | a counterexample to `LogFolds` |
| `versions_flow` | 2 processes of 1 client each, 2 objects, 2 changes, a log of 4, 1 refused attempt, 1 kill, 1 question to an evaluator | `TypeOK`, `NoLostWrite`, `RunsUnderItsTime`, `BatchOnce`, `NumbersDistinct`, `ReportIsOfItsChange`, `JudgedOnWhatItHolds` |
| `listener_stop` | 3 connections, a cap of 2, 1 newcomer told at a time | `NoneCutShort`, `StopEnds` (liveness) |

What the larger ones say. `AdmissionsStand`: the invariants an object breaks are exactly those admitted on it, though a part moved away, a whole closed or another object took its key. `VersionsLogged`: an object's events are numbered from one to its version, and the newest left it in its state. `LogFolds`: each row, and each interval of the index, holds what the object's events up to there fold to, an erased one included. `SpansTile`: a tracked attribute's intervals follow one another without hole, overlap or repeat; two that meet may hold the same nothing where an erasure of the object emptied the earlier. The instance tracks a plain attribute (`due`) and personal ones (`note`, `tag`), so an erasure meets both. `ErasureReaches`: once an erasure commits, no value that was personal to the object is found in its row, intervals or events, in what its events caused or were caused by, in objects it flowed into, or in proposals on it. `ErasesTheGroup`: nor is a merged object missed. `NoLostWrite`: an install decided on a snapshot never overwrites what another process wrote meanwhile. `ReportIsOfItsChange`: an approver is shown the dry run of the source the change holds, and a change published replaced the version it was drafted on. It does not say that the dry run was read at that version or later: a submission whose process reloaded once, overtaken by a second publish, attaches a dry run read before the change's own base, and the approval reads its own (store.rs:5047-5217). `JudgedOnWhatItHolds`: an evaluator's answer is used only for the value it was asked about.

Each property of a passing run has a mutant in `PROJECT.json`, a plausible slip in one mapped definition under which TLC finds it violated. The slips are the operators commented as such beside the definition they stand in for.

**Bounds and why they are enough.** Three calls and groups of two give a full group with one call left over, a retry in the same group as its first send, in the next, and alone; two faults let a second failure meet the recovery from the first (a commit that fails and a rollback that then fails; a rerun alone that fails), one kill lands in any of those. Two reads over two pools give a slot contested, a read in the pool the cut waits on and one in another, and two dry runs. Reads are asked once each, but the cut runs as often as the log or an erasure asks for it. In `Restore` the margin is scaled: it advances by 2 at least, to a multiple of 2, where the code has 1,000 and 1,000, so that one restore's jump stays small; three requests over two restores reach a scope the copy never held, a gap above a gap, and a cursor of each replaced time line. In `Decision` seven events, four of them the stock's, let three requests follow one another, each on what the ones before left (the bound is on sending: the last may write as many events as it needs): a proposal filed, then its object erased; a merge, then an erasure of either side; an admission made, then discharged by the other object's move. With more events `LogFolds`, `ErasureReaches` and `SpansTile` each fail by the one root `decision_relabel` shows, a label of the value already held. In `Versions` one of the requests draws alone and the sources differ in who may approve under them; a log of four and two changes let a version be installed, a write meet it in the other process, and a second change meet the first; the one kill lands between any two transactions of a batch or a publish. In `Listener` three connections at a cap of two give a newcomer at the cap, one closing to make room, and one refused. `CHECK_DEADLOCK FALSE` in the admission configurations is for their last states: every read asked for has been answered, the writes are spent, the log is short, and nothing is left to do. `GroupCommit`, `Decision`, `Versions` and `Listener` name their last states (`Finished`, `Quiet`, `Quiet`, `Exited`), in `Restore` a subscriber can always pull, and deadlock is checked in all of them.

**Fairness.** `GroupCommit` asks weak fairness of each call's own step: a thread that can go on does, and a mutex that is free is in the end given to each waiter that keeps waiting (each call takes it a bounded number of times, so no one can be passed for ever). Nothing is asked of `Queue`, `Crash` or the faults beyond that: a fault is one alternative of a step that is always also able to go another way, and the faults are bounded. `Admission` asks it of each read's own steps, of its deadline coming, of a read being opened once its slot is taken, and of the cut and a write's end; it asks nothing of how long a read or its checks run, only that its deadline, or its stop, ends it at its next step (`World::due`). `Restore` asks only that the subscriber goes on pulling and handling, as one that polls does; requests, copies, restores and acknowledgements may stop at any time. `Listener` asks weak fairness of what a deadline or tokio's scheduler gives: a handler ends, an answer is taken or its idle timeout passes, a task that is ready is polled, the loop at the cap goes on; and strong fairness of `Stop`, because the loop's `select!` picks at random among its ready branches and newcomers may come for ever. Nothing is asked of clients, of the signal, or of `Grace`, so `StopEnds` holds without the grace. `Decision` and `Versions` check safety only and state none.

## Where the code and its documentation part

Each is a run that must find its property violated.

1. `group_late`: on PostgreSQL a call answered a fault may still run, drained by another leader between its look at its ticket and its leaving the queue.
2. `admission_wakeup`: `release` notifies without the mutex, so a read that has looked at the bar and not yet slept misses the wake-up and sleeps to its deadline, in the worst case to `read_timeout`.
3. `restore_again`: one marked copy restored twice starts twice at the same numbers. The passing run `restore_feed` states what does hold: a copy of the store's own time line, one number drawn for each row, and a lost period no busier than the estimate covers (`Covers`, which ADR-0207 and operate.md give as the margin's limit).
4. `decision_approve`: a proposal of an erasure, approved, always faults: the erasure invalidates the object's pending proposals, the approved one among them, and the store refuses a second event for one version of it.
5. `decision_relabel`: an order gives its item the same tag twice and is forgotten. The second event changes nothing: it records no write (world.rs:545-559) and opens no interval, yet it is the tag's last in the write index (request.rs:2601-2640). The erasure empties the first event's record of the tag, and of the row and the intervals only what the write index puts at that event (request.rs:2892-2897, 3024-3035). The row is emptied from the second event; the interval the first one opened keeps the personal text, which DESIGN.md:192 has an erasure redact. Where the second label is another order's, the row keeps it too, and the item's events fold to none, against ADR-0209 decision 1. `LogFolds` holds in `decision_flow`, whose seven events are too few for this.

Met while reading, and not given a run of their own:

- A stop moved while a dry run's checks run is forgotten by its second read, opened after it (main.rs:4202, 1421-1425), where the comment at main.rs:4160 says an urgent cut stops it as every read; `OpenRead` in `Admission` opens both reads so.
- A cut waits for a dry run's checks, which keep their slot (main.rs:4175; the comment at main.rs:4157 says a cut never waits for them).
- A refusal that drew several numbers, a refused batch above all, is one row to a restore's margin (store.rs:3040, and store.rs:3005 on what the margin counts).
- A lone refused request's draws are written back by `write_sequences` (store.rs:4697-4707, 6021-6031), which may set a sequence back where a second process on the same SQLite file drew meanwhile; on PostgreSQL an advisory lock (store.rs:3604) excludes a second process.
- After one reload a transaction runs whatever version it finds (`|| reloaded`, store.rs:4672), so a request may run under a version replaced between its reload and its write; `RunsUnderItsTime` is stated to allow it, within the call.
- An install checks the objects it migrates, not those a request wrote meanwhile that it would have had to (store.rs:5047-5224, publish-and-import.md section 1 step 5).
- An erasure leaves, in a proposal already decided on its object, an input that sets a personal attribute by its name: `personal_by_own` (request.rs:3230, used at 3503) looks at inputs marked personal and at those the effect assigns, where request.rs:2374 asks for the attribute as well (DESIGN.md:559 has every personal input go). `decision_flow` proposes only a transition whose personal input is assigned, so `ErasureReaches` is checked clear of this case. An erasure's walk of input steps ignores a cascade's inputs (storage-schema.md:809); groups of a member's cascaded parts are not walked (request.rs:4691-4697); `only_via` bars a group member's own erasure (DESIGN.md:561).
- The store empties every interval of an erased attribute (store.rs:7954-7958), one that the erasure's own effect opened included, whose value the row keeps. `Emptied` does the same; no erasure of the instance assigns what it erases.
- An object entered again below its own call, by another of its transitions, has intervals that begin and end out of the order of positions; see "What stays with TLC".
- A newcomer is refused at the cap while a connection taken to make room has yet to leave; an answer buffered and not sent may be cut by the stop (main.rs:6546).

## What is proved

Every theorem holds for all values of the constants that the named assumptions allow: any set of calls, keys, reads, clients, scopes, objects or declarations, any size of group, pool or page, and any number of faults, kills, copies and restores. The assumptions (`RequestAssumption`, `GroupCommitAssumption`, `AdmissionAssumption`, `CapAssumption`, `RestoreAssumption`, `VersionsAssumption`, and of `Decision` `DeclAssumption`, `RequestsAssumption`, `StockAssumption`, `ClockAssumption`) give the constants their types, keep markers apart from what they are told from and, for a declaration, say what the checks of a publish let through; TLC evaluates each on its instance. Where a theorem needs more, its statement says so, and the reason is below. Every safety property of the passing runs is proved but four of `decision_flow`, which "What stays with TLC" names.

| Theorem | Property | Further hypothesis |
|---|---|---|
| `TypeCorrect`, `KeysOnce` (`GroupCommitProofs`) | `TypeOK`, `KeysApplyOnce` | |
| `AppliesInOrder`, `CallsOnce`, `NoneIsForgotten` (`GroupCommitRuns`) | `QueueOrder`, `CallsApplyOnce`, `NoneForgotten` | |
| `AnswersAreDurable`, `RefusalsAreLogged`, `NumbersAreApart`, `PromiseKept` (`GroupCommitPromise`) | `AnsweredIsDurable`, `RefusedLeavesItsRow`, `NumbersNotReused`, `KeepsItsPromise` | |
| `FaultedRunsNoMore` (`GroupCommitPromise`) | `FaultedNeverRuns` | `Backend = "sqlite"` |
| `AdmissionTyped`, `SlotsAreCounted`, `CutRunsAlone`, `StopsNoLaterRead` (`AdmissionProofs`) | `TypeOK`, `SlotsBounded`, `NoneRunsAtTheCut`, `StopsOnlyEarlier` | |
| `RoomCutsNoneShort` (`ListenerProofs`) | `NoneCutShort` | |
| `RestoreTyped`, `CursorsAreItsOwn` (`RestoreProofs`) | `TypeOK`, `HonoursItsOwn` | |
| `FeedSkipsNone` (`RestoreProofs`) | `NoneSkipped` | `~Again` |
| `NumbersOnce` (`RestoreProofs`) | `HandedOutOnce` | `~Again`, `DrawMost = 1` |
| `VersionsTyped`, `VersionsNoLostWrite`, `VersionsInTime`, `BatchesOnce`, `ReportsAreOfTheirChanges`, `JudgedOnWhatHeld` (`VersionsProofs`) | `TypeOK`, `NoLostWrite`, `RunsUnderItsTime`, `BatchOnce`, `ReportIsOfItsChange`, `JudgedOnWhatItHolds` | |
| `VersionsNumbers` (`VersionsProofs`) | `NumbersDistinct` | `SoleWriter \/ LoneDrawsAllowed` |
| `TypesHold`, `AdmissionsHold`, `ChainsEndSomewhere`, `ProposalsHold`, `VersionsHold` (`DecisionProofs`) | `TypeOK`, `AdmissionsStand`, `ChainsEnd`, `ExecutedAsFiled`, `VersionsLogged` | |
| `RowsAreTyped`, `ChainsDescend` (`DecisionProofs`) | the invariants `RowsInv` and `ChainsInv` below | |

### GroupCommit

Four invariants, each proved with the ones before it.

- `WriterInv`: `TypeOK`, and `KeysRecorded` of the durable store and of an open transaction. `TypeOK` says beyond types that exactly the mutex's holder is at a step that needs it (`LeaderAlone` follows), that a group's answers number the requests run, and that a group runs and commits on an open transaction. `KeysRecorded`, each keyed entry of a log is the one its key's record names, is what `KeysApplyOnce` lacks to be inductive. A decision keeps it (`DecidedGood`), so does every remainder an error may leave (`LeftGood`), and each step replaces store and transaction by the other, by such a decision or such a remainder.
- `OrderInv`: the queue, the group, and the logs of store and transaction are each in the order of arrival, and each log is before what may still run on it. Two sets carry it: `ToRun`, what has yet to run on the current transaction, and the larger `MayRunAgain`, what a rollback would have run again. `QueueOrder` and `CallsApplyOnce` are both read off it.
- `PendingInv`: what may still run has no answer, and what a caller was told is what its run left, or a fault. On PostgreSQL a call may still run whose caller left with a fault; on SQLite a caller is refused by a latched store only, and a latched store is held by nobody, whence `FaultedRunsNoMore`. `HeldInv`, beside it, is `NoneForgotten` with the group's answers as they are handed out.
- `TruthInv`: the durable store backs every outcome, an open transaction every outcome with the answers of the group so far (`Consistent`), and the transaction is where the group's decisions lead, one after another, from the durable store (`Trail`).

`PromiseKept` maps `db`, the outcomes and the replies onto `RecordStore`. A group's commit is the step `Serve`, and `Trail` supplies its intermediate stores and the order the calls ran in; every other step is a reply, a loss or a stutter. What `KeepsItsPromise` maps a step to is the same step the run checks on the instance.

### Admission

`AdmissionInv`: `TypeOK`; a pool counts the reads holding its slots (`SlotsOK`); a stop kept with a pool is of a read that has a slot and has not begun to give it back (`KeptOK`); the pools before `turn` are barred, and once all are none gains a read that was not there `before` (`BarsOK`); those before `turn` found drained stay so (`DrainedOK`). The last two are why barring pool by pool, then waiting pool by pool, is enough.

### Listener

`ListenerInv` relates each connection's counter to its request (`BusyOK`): 1 exactly while it is answering, `CLOSING` exactly when it was told to make room. The connections open and not `CLOSING` are within the cap (`ServedOK`), and none has been ended by room or stop with a request begun (`EndedOK`).

### Restore

`StoreInv` holds through any restores: in the store served and in each copy, positions are tiled by events and gaps (`Tiled`), which is what a cursor is honoured on. `Behind`, of a copy made since the last restore, says that the copy is a beginning of the store served and that the store has handed out no more since than it has recorded since, which is what the margin of a restore covers; `ReaderOK` and `HandedOK` follow a restore through it.

- `~Again`: with a copy restored twice both properties are at the mercy of what the second margin does not know; `restore_again` shows `HandedOutOnce` violated.
- `DrawMost = 1`: the margin counts events and attempts and not the numbers drawn (store.rs:3006-3050), so where one refused request or batch draws several, a restore may hand a number out again. TLC finds `HandedOutOnce` violated on the instance of `restore_feed` with `DrawMost = 4`. `NoneSkipped` needs no such bound, since a position is drawn only with an event.
- That a lost period was no busier than the estimate covers is `Covers`, a guard of `Restore`, and so part of what every one of these theorems is about.

### Versions

`VersionsInv` is `StoreOK` and `CallsOK`, the types of the store and of each call with what the call carries; `HolderOK`, a call past its process's mutex holds it; `LogOK`, each object's events are numbered without a gap or a repeat (`Numbered`), its row is as the last left it, and each event ran under a version of its time, on an answer for what its object held, and under a key of its own; `KeysOK`; and `ReportIsOfItsChange`. The heart is in `CallsOK`: what a call read may since have been moved by the other processes only, and a row or a change whose version number is still the one read is still the one read (`Later`). That is what an install's comparison (`SnapOK`) and a submission's use of its prepared dry run (`PrepOK`) rest on. Each action is then one of a few shapes: an event added for one object (`OneOn`), one for each of several (`AllOn`, an install's), a batch's loop, whose state keeps `RanOK` request by request, or nothing of the store.

`VersionsNumbers` takes one process, whatever it draws (`SoleWriter`, which PostgreSQL's advisory lock, store.rs:3604, makes sure of), or several of which no lone request is refused for what it drew for (`LoneDrawsAllowed`). Batches, and lone draws that apply, need neither: a write draws from the sequence in the transaction that writes it, and a batch's draws are kept past its rollback in a transaction that only raises the sequence. A lone refused request's draws are written back as it drew them (store.rs:4697-4707, 6021-6031): behind the mutex of a sole writer none has drawn since (`LoneKept`), and beside a second process it sets the sequence back, which is the code's own limit and the reason for the hypothesis. Only an accepted declaration is installed (`SoundOK`), so a lone request that every such declaration allows is refused by none. `versions_flow`, with two processes, a lone request that draws and batches that are refused, satisfies `LoneDrawsAllowed`, so that run and theorem agree on what is claimed.

### Decision

Five invariants over a declaration of any types, transitions, cascades and invariants, any stock and any requests.

- `RowsInv`: every row, in the store and in the working copy, is a proposal's or one of a declared type and state, and what it refers to is a row of the type its attribute names (`RowFits`); every frame is of a transition its object's type has, and every outcome left to take fits it (`FrameFits`, `TodoFits`); and `AdmissionsStand`. The admissions are in it because a decision trusts them: objects it does not look at keep theirs. Its heart is the lemma `Unaffected`: an object that `affected_by_writes` does not find, before the writes or after, fails the same invariants in the store and in the working copy. Each kind of atom an invariant reads is one case of it: its own object did not change; parts that came or left are found from either of their versions; a reference leads to an object found by the hop the invariant declares; a uniqueness is shared only among objects with the key that was written, the old one or the new. With a hop dropped, or only the new versions looked at, a case of it fails.
- `ChainsInv`: supersession has a rank, a number for each object, that falls along it, from an object to the one that supersedes it, over the successors written and over those that begun transitions have yet to write (`Pending`, `Downward`). Edges lead from objects in a superseding state only, and such a state is final, so none leads out of a successor a merge found in no superseding state: it can be ranked below all others. A merge moves its object in the step that checks the successor and writes the successor later, when other outcomes may have run; its edge counts from the move on, so whatever runs in between meets an object already superseding and cannot close a chain on it. `Stacked` keeps the state the request was checked on until the outermost transition begins. It makes exact the argument ADR-0144 gives in words under "Why decision 2 is enough". `ChainsEnd` follows by the rank along the walk.
- `LogInv`: a transition takes its position where it begins and is recorded where it ends, so that in between the events are numbered with holes. `FramesCount` has each frame's position apart from the others' and from the events', nested frames' larger; `Counted` has frames and events together account for every number handed out; when no frame is left, the events are exactly the positions after the log's, which is what `Write` needs. An event's cause is of a smaller number, since it is that of a frame still open.
- `FilingInv`: a proposal in no decision is pending, one decided has one decision among the events, known or to be written, and one executed has one event that came of its approval (`DecidedOnce`, `RanOnce`). While the approved request is being decided the approval waits in `ctx.first`, and `Runs` says which frame or event is the one that comes of it. That an erasure during the request may invalidate the proposal being approved is the case `decision_approve` shows; the store faults it, so nothing of it is in the log.
- `VersionsInv`: the events known and those to be written number each object from one to its version (`Counts`), and the newest is of its state (`Newest`), save for an object that a transition stands begun on, which may be in a state no event says yet and whose version is raised, with its event, where the transition ends (`Begun`). Every step writes an object once with one event, or leaves its version (`Follows`). Two places need more. An erasure redacts others and ends proposals in two passes, each of at most one event per object (`Rewrites`, `ErasedWrites`), and its own object is in neither. And the row and event an approval prepared from the store are put over the working copy at the end, which agrees with the numbering only where the request has left the proposal alone: `FilingInv` has it that otherwise one of its events bears the approval's number, and the store's uniqueness of that number refuses the whole.

What is assumed of a declaration is what a publish refuses otherwise. `StepFits`: an effect writes attributes the type declares, with a value of their type (check 17, names.rs:4900 and 5364), calls and creates what the type reached declares (names.rs:2782), and supersedes once, in a transition that enters a superseding state, by a required input that refers to an object (check 26, names.rs:7042 and model.rs:1037). `TransFits`: states are declared (check 19), nothing leaves a final one (check 15), an assertion asserts no superseding state (names.rs:7198), and an input is an attribute or the transition's own and not both (names.rs:451). `TypeFits`: a superseding state is final (flow.schema.json:554-583, which check/schema.rs holds a declaration to), a cascade's clause names a transition of its part. `AtomFits`: an invariant reads other objects only along hops that `invariant_reach` (request.rs:5651) has; in the model these are data beside the rule, one hop long, and a uniqueness's filter reads the object itself. `StockAssumption`: the objects a store starts with were created by declared transitions and break no invariant. `RequestsAssumption` and `ClockAssumption` only type what is asked and the clock. What a request may name, of what type and in what state, is assumed nowhere: the model's checks, as the code's, decide.

### What stays with TLC

- Liveness (`EveryCallAnswered`, `BarsLifted`, `EveryReadAnswered`, `EveryEventHandled`, `StopEnds`), which needs `ENABLED`, beyond the prover used.
- `LogFolds`, `SpansTile`, `ErasureReaches` and `ErasesTheGroup` of `Decision`. An erasure's reach is a walk up and down the causes of events and through the values that flowed, and the walk of a group is stated of a survivor reached in as many steps as there are objects: what these walks compute is an induction over data. `LogFolds` follows the same walk, which empties the events' and the intervals' copies of a value beside the row's, and is not true of every declaration, stock and log: `decision_relabel` shows it violated. `SpansTile` does not hold of every declaration: transitions may not cause each other in a cycle, but one object may be entered again by another of its transitions, below a call it made, and the inner transition, numbered later, then ends first (request.rs:2560-2630, 3337-3390), so that positions and order part. The instance has no such call.
- What a recursive definition computes for every input, which needs an induction the prover cannot instantiate. The loops of `Versions` and `RecordStore` are recursive functions over an index, and the proofs reason on the least index at which a claim fails (`WFMin` over the naturals).
- The violated properties, which are not theorems: a run each.

## What is left out of the modelled parts

- `GroupCommit`: a mutex poisoned by a panic outside the two `catch_unwind`s; a failover to another database, which latches as a lost store does; calls that need an evaluator or a prepared publish, which take the writer alone; a SQLite commit reported failed that a power loss then kept; the `Capacity` guard stands for every guard that reads the store, and each request draws one number.
- `Admission`: three of the five pools, which are taken alike; a client that goes away, which stops its own read; short reads, which take no slot, other than as a truncation that misses; the latch's check; PostgreSQL, which has no log to cut.
- `Restore`: object and transaction numbers, which advance as positions do; copies not marked; attempts pruned before the copy (which lowers the margin); a sequence's end at `SEQUENCE_MOST`; requests of several events; revoked and unknown subscriptions; a refusal that drew nothing.
- `Decision`: observations, labels, imports and evaluators; actors renamed; external ids; uniqueness across subtypes and one-to-one ends; the attribute and invariant a `taken_by` generates, by which a taker is refused (whom it lets reject or withdraw a proposal is modelled); defaults of attributes and inputs, inputs a null clears, media types and blank names; a successor an effect's own `create` binds; chains of more than one hop in an invariant's path; objects at an older version, and what was personal under it; the check of a subscription's inputs. Expressions are the few atoms the rules above need. A kill is not modelled: a request is one transaction, whose atomicity is `GroupCommit`'s subject.
- `Versions`: local ids that name one batch member from another; migrations beyond one mapping of values and one narrowed set (renamed types, backfills); the redaction of a newly personal attribute; PostgreSQL, where one process holds the store.
- `Listener`: the metrics listener, errors of `accept`, pipelined requests.

## Not modelled

- The declaration parser and the static checks (`check/`), the rational and value arithmetic, the wire forms: functions of one text or value, without state, with their own suites of examples and plants.
- Reads, metrics, diagnostics, exports: functions of one snapshot. Their admission is `Admission`'s, the feed's pages `Restore`'s.
- Import: one transaction that creates objects as `Decision`'s creations do, after checks on its own file format.
- Health, stalls and housekeeping: clocks and counters that report; the pruning of idempotency keys by age is a hazard listed and not covered, since it needs a clock of retries beside the writer.
- The studio, the harness, scripts and guides: tools around the engine.
- Roughly half of the engine's sources are the unit tests kept in the same files; they were read as reference and are not modelled.

## Plan

1. **Done.** `Requests`, `RecordStore`, `GroupCommit`, the first theorems; `Admission`; `Restore`; `Decision`; `Versions`, with batches, publishes and evaluators; `Listener`.
2. **Done.** Proofs for `GroupCommit`, the refinement of `RecordStore` included, `Admission`, `Listener`, `Restore` and `Versions`: every safety property their passing runs check.
3. **Done.** Proofs for `Decision`: types, admissions, chains, the log's numbers, proposals, versions. Left: `SpansTile` for declarations without re-entrance, and `LogFolds` for those where no event gives an attribute the value it holds.
4. Then, where a run allows: erasure on PostgreSQL (`vacuum_erased`), key retention (`maintain`), import.
