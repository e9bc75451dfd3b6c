# A verification of claude-accounts-pool

This directory holds TLA+ modules that model the pool, the TLC configurations that
check them on small instances, and theorems about them checked by TLAPS. The
reference is always the code: `src/...` below is relative to the repository's root.
`PROJECT.json` maps every definition to the lines it models and lists components,
runs, mutants, findings, hazards and theorems.

## The system

A *master* owns a pool of subscription accounts: it alone refreshes their
one-time-use OAuth chains, watches their usage, and leases access tokens to
*workers*: OpenCode plugins, senpi hosts, and the relay through which every Claude
Code session of a machine goes. A worker that runs into a limit reports it and asks
for another account. A machine can instead run in *local mode*, switching among the
accounts it holds itself. All processes of a machine share JSON files, some of them
guarded by a lock file, some of them also written by programs that take no lock.

### Inventory

| component | source | state | operations | hard parts | correct when |
|---|---|---|---|---|---|
| cooldown book | `src/master/scheduler.ts`, `src/kvRecord.ts`, `src/providers.ts` | `cooldown`, `cooldownPending`, `recoveryTimers`, record in `api.kv` | report, sweep's judgement, recovery timer, restart | timers; a store that merges; two encodings of "cooling" | a spent account stays out until its quota returns, and no longer |
| usage poller | `src/master/usagePoller.ts` | `polling`, back-off, the sweep under way | tick, one read per account, hand-over | readings minutes old; partial failure | a late sweep never undoes a newer report; every unknown cooldown is resolved |
| lease book, selection, lease server | `src/master/scheduler.ts`, `leaseServer.ts` | `leases`, `affinity` and its record, requests awaiting a token | lease, report, usage view, onboarding and removal routes | await between pick and booking; restart forgets one book and keeps the other | sticky but never on a spent account; misattributed reports are not believed for long |
| refresher, keeper | `src/master/refresher.ts`, `install.ts`, `keeper.ts` | in-flight map, pool-wide pause, account library | get a token: load, POST, retry, persist, judge `invalid_grant`; warm loop; capture of a login | one-time tokens, lost answers, foreign rotations, crashes | no chain lost or falsely condemned; nothing handed out before it is durable |
| onboarding, removal, bind retry | `src/master/accountOnboard.ts`, `accountRemove.ts`, `bindRetry.ts` | pending logins, attempts, throttle, socket | start, redeem, remove, bind | two requests in flight; backup against rotation | what the vendor is asked is capped; deletion is undoable |
| dashboard, registry, usage view | `src/master/dashboardHtml.ts`, `workerRegistry.ts`, `usageView.ts` | the page's snapshot, dialogs, a sweep's throttle | poll, forced sweep, dialogs | answers that overtake each other or outlive their dialog | the page ends up showing what the master has |
| lock | `src/lockfile.ts` | the lock file | acquire, steal, release | every file operation interleaves; holders die | exclusive, and never lost for good |
| worker keeper, pin, switch | `src/worker/*` | held account, failures, pin, the credential slot | renew, back off, switch, manual switch | three writers of one slot around awaits; disposal | the slot is not left lapsed; the pin is given up only for cause |
| Claude Code relay | `src/claudecode/sharedLease.ts`, `relay.ts`, `relayClient.ts`, `claude-pool-relay.ts` | the machine's lease, dead tokens, pin; sessions by pid, idle clock | ensure, name, quota exhausted, unauthorized; attach, beat, reap, leave | many requests, one lease; a process that leaves when nobody needs it | one switch and one report per exhaustion; no session is left alone |
| machine take-over | `scripts/cc-takeover.ts`, `scripts/lib/ccTakeover.ts` | five files of the owner's, a manifest | setup, revert, each a row of file writes | a stop anywhere, repetition, the owner's own edits | revert takes off exactly what setup added |
| local mode: chains | `src/usage.ts`, `src/keeper.ts`, `src/accounts.ts` | `auth.json`, library, active account | renew, capture, collect, switch, retry, remove | OpenCode's provider refreshes `auth.json` without the lock | no tip is lost or filed under another account |
| local mode: switching | `src/autoswitch.ts`, `turn.ts`, `continuation.ts` | sessions, cooldowns, stalled turns, timers | a limit's events, switch, re-prompt, recovery | events of several sessions, late and repeated | a failed turn is done again once, and it comes to rest |
| OpenAI slot | `src/openai-*.ts` | `auth.json`'s `openai` entry, records, quarantine | capture, keep alive, switch | codex refreshes it without the lock | no refresh token is ever spent twice |
| senpi | `src/senpi/*`, `senpi-extension.ts` | environment slot, cache, pin, lock, auth blocks | renew, join, clear a block, switch, resume | several hosts per slot; senpi's own blocks name the slot, not the account | blame falls on the right account; the slot recovers; resumes are bounded |

Interactions: the lease server calls the scheduler (pick, record, report) and
awaits the refresher; the refresher loads the library and calls back into
`install.ts` to persist or to judge; the poller and the warm loop call the
refresher too; the poller hands usage to the scheduler; reports from workers reach
the scheduler through the lease server. A worker of any kind sees only what a lease
request may be answered. Launchers find or start the relay, the relay asks the
master. Every library write takes the lock, which other processes of the machine
take as well.

What can go wrong here and would hardly be met by a test is listed, at the line
where it bites and with the properties that would catch it, under "hazards" in
`PROJECT.json`.

## The modules

| module | models | checked by |
|---|---|---|
| `KvRecord` | `writeKvRecord` over a host store that merges | through the books |
| `CooldownBook` | the scheduler's cooldown book | as `BookSpec`, which the poller implements; `UsagePollerProofs` |
| `UsagePoller` (extends `CooldownBook`) | the poller driving the book, against quota windows | `MCUsagePoller`, `UsagePollerProofs` |
| `LeaseService` | the lease endpoint with the lease book, affinity and selection | `MCLeaseService`, `LeaseProofs` |
| `TokenChain` | the abstract life of an account's refresh chain | `SpecIsSound`, in the module |
| `Refresher` | refresh flights, the vendor's rotation, the library, leases cut from tokens | `MCRefresher`, `RefresherProofs` |
| `FileLock` | the lock file, one step per file operation | `FileLock.cfg`, `DeskProofs` |
| `AccountDesk`, `DashboardPage` (extends it) | onboarding, removal, capture and socket of the master; the page in front of them | `MCDashboard`, `DeskProofs` |
| `Disturbance` | the accounts and the budget of disturbances that most of the models below share | through them |
| `PoolMaster` | the master as its clients see it | through its clients |
| `WorkerSlot` (extends `PoolMaster`) | an OpenCode worker's one credential slot | `WorkerSlot.cfg`, `ClientProofs` |
| `SharedLease` (extends `PoolMaster`) | the relay's one lease under many requests | `SharedLease.cfg`, `ClientProofs` |
| `SenpiSlot` (extends `PoolMaster`) | one senpi host's slot among others | `SenpiSlot.cfg`, `ClientProofs` |
| `RelaySessions`, `Takeover` (extends it) | the relay's life with its sessions; the scripts that put a machine under it | `Takeover.cfg`, `ClientProofs` |
| `LocalChain` | local mode's tokens | `LocalChain.cfg`, `LocalChainProofs` |
| `SessionSwitch` | local mode's switching | `SessionSwitch.cfg`, `SlotProofs` |
| `OpenaiSlot` | the slot codex and the plugin share | `OpenaiSlot.cfg`, `SlotProofs` |

Throughout, a handler runs up to its `await` in one step and goes on in the next, as
JavaScript does; what it read before the `await` is carried in the state it comes
back with. Files are steps of their own where another program may come in between.

**CooldownBook.** `book[a]` is an account's entry in the three in-memory maps;
`stored` is the record in `api.kv`. `Marked`/`MarkedUnknown`/`Cleared` are
`markCooldown` with and without a deadline and `clearCooldown`; `Judged` is what
`setUsageCache` does for one account, including `latestMaxedReset` and
`clearImplausibleCooldown`. `PersistCooldown` is part of every step that calls it. A
timer fires at its instant or later (`Recover`), a delay a timer cannot carry fires
at once (`TimerDue`), a crash keeps only the store. Usage figures are reduced to what
the judgement tells apart: below the limit, within the tie margin, full.

**UsagePoller.** `sweep` is the loop of `tickOnce`: the accounts still to read and
what was read. Each read is a step (`ReadUsage`, `ReadFails`, `ReadLimited`), so
reports, recoveries, spending and crashes come between any two, and the single
`HandOver` applies `SetUsageCache` to readings that may be stale. `quota` is the
vendor's side. `owed` is history: the latest deadline a truthful report named. The
poller's steps are steps of the book: `BookSpec` is a property of its run and a
theorem.

**LeaseService.** A request is one step up to its `await` (named, handed back, kept,
remembered or elected) and another after it (`Book` or `MintFails`); `serving` is
what lies between. `HandleLease` and its parts (`NamedRequest`, `PlainRequest`,
`SetAside`, `Nameable`, `QuotaVerdict`) follow `leaseServer.ts` branch by branch. Two
things are coarser than the code: reading the roster and picking from it are one
step, and an election may take any of the accounts that tie on holders and pins,
where the code goes on to utilization, burn history and a cursor. The cooldown book
is seen by its interface only: accounts move in and out of `cooling` at any time.

**Refresher.** A token is the number of its generation. `Rotate` is the vendor: it
accepts a refresh half once, kills the old token, mints the next. A flight goes
through the awaits of `resolve`: loading, posting, pausing between attempts,
persisting, or judging a revoked tip. `Persist` and `JudgeRevoked` are `persistToken`
and `onRefreshRevoked` under the lock, which another process may hold from before its
POST to its write (`Sibling...`: `acquireInactiveAccess`). Logins, deletions, chains
revoked by the vendor and crashes complete the world. `held` is a worker's lease.
`excused` is history: accounts whose newest token was lost by something the code
cannot prevent, cleared by a login.

**TokenChain** says what all that is for: of each account, whether its good token is
on record, in somebody's hands, lost or deleted; `Refresher` implements it under the
mapping `TipOf` (the property `ImplementsChain`, and a theorem).

**FileLock.** Create, stat, rename, read and unlink are separate steps; the rename
moves whatever file is there. Ages and waits are counters that stop at the bound they
are compared with.

**AccountDesk.** Requests (`req`) authorize, redeem and delete; each `await` of their
handlers is a program point. Beside them rotations that still await `persistToken`
(`flight`), the keeper's capture of `auth.json`, logins on the box, and a master that
dies and comes back, binding its socket as `bindRetry.ts` does. **DashboardPage**
puts the page before it: a poll, a refresh button, one dialog for three flows, and
answers that land on whatever is open by then.

**PoolMaster** is the interface `LeaseService` and `Refresher` have towards clients:
the answers a lease request may get, what a report does, tokens that rotate and are
revoked, quota that fills and returns. Its answers are as loose as those of the real
master - any account that is not cooling, the same account back, a refusal of a named
one, an empty pool, no answer at all.

**WorkerSlot.** `proc[p]` is the lease that a session, the panel or the renewal loop is
getting; all write `auth.json`'s one entry (`slot`), the recorded account, the loop's
idea of it (`heldId`) and the pin, each at the step where the code does.

**SharedLease.** `queue` is `serialize`: one job at a time, each up to an await of its
own; requests and commands wait for theirs. `deadAccess`, `switchHold`, `reported` and
`backoff` are the relay's defences against doing a thing twice.

**SenpiSlot** is one host in detail and the others as an environment that writes the
shared files (cache, pin, lock, `auth.json`'s block) whenever the code lets it. A newcomer's
grace (`fresh`) ends by wall clock, whatever request is still unanswered
(`GraceLapses`), and senpi may score a dead token's refusal as a completed turn that leaves
no block (`Result`; the stuck-worker defect that `src/senpi-extension.ts:18-34` describes).

**RelaySessions** counts time only as far as heartbeat, attach timeout and idle exit
compare it. **Takeover** adds the scripts: `job` steps through `setup` and `revert`
write by write, may stop after any, and may be run again; `manifest`/`reverting` are
the two names of the record of what was done; the owner edits his files in between.

**LocalChain** has the operations of `usage.ts` under the lock (`op`), and OpenCode's
provider and logins without it. `mishap` is history: it is set where the code leaves
a tip exposed knowingly or not, for instance two refreshers of `auth.json` at once
(the reason why the plugin refreshes the active account only while nothing runs), an
out-of-band login before the capture, a lost answer, and a switch to the account that
is already active; the properties are about everything else, and the section on
differences names the exposures the comments deny.

**SessionSwitch.** One or more sessions followed event by event, another as
`OthersSwitch` and `OthersTold`. `evt` holds the events of a failed turn, delivered late
and more than once; `job` and `redo` are the handlers between their awaits, `rec` a
recovery between its own. A switch is on disk one step before its caller notes it in
`last`. `armed` are the recovery timers: they outlive a cooldown that loses its deadline,
and may go off while the account is still spent, since a deadline is an estimate. Left
out: a switch that fails between its two writes, and a second timer of an account whose
recovery is under way.

**OpenaiSlot.** codex posts the slot's chain and writes it back without the lock; the
plugin's capture, switch and keep-alive run under it. `Allow` widens the world by
behaviours the code's comments exclude; the passing run has none of them: no account comes
and leaves unseen, no read fails in a switch or while nobody is believed active, and a
pass of the keeper has captured first.

## Runs

| run | what it shows | bounds and why they are enough |
|---|---|---|
| `poller` | `BookSound` (matching timers, one encoding, a truthful store), `PollerInv` (types; a spent account stays out), `BookSpec`, `PendingResolves` | 1 account with two windows, of 2 and 3 ticks, clock to 5: the longer one spent under the shorter one's reset and after it, sweeps that span the end of a window, back-off shorter and longer than a window. Accounts are independent here |
| `lease` | `NoDisbeliefLoop`, `LeaseInv` (types; affinity survives exactly its time to live), `BooksAgree`, `NeverPicksSpent` | 2 accounts, 2 workers, 2 interleaved requests, grace 1, bindings that lapse after 1 tick, clock to 2: reports, hand-backs and bookings on both sides of the grace period, one worker's write sweeping the other's binding, crashes |
| `refresher` | `FlaggedMeansDead`, `NeverStranded`, `HandedOutIsDurable`, `RotationHitsOnlyDueLeases`, `ImplementsChain`, `RequestsSettle` | 1 account, 3 generations (a rotation, a foreign one), 2 flights, 2 attempts, lifetime 4, threshold 2, buffer 1: each ordering of the intervals the code uses. Accounts share only the 429 pause, which no property here depends on |
| `lock` | `LockInv` (types; exclusive while nobody dies), `AbandonedIsTaken` | 3 processes, 1 of which may die; hold 2 < wait 4 < stale 6, the order of the real 15, 30 and 45 s |
| `relay` | `RelayInv` (types; a waiting request has its one job), `NoStampede`, `NeverSendsDead`, `RequestsAnswered` | 2 accounts of 2 tokens, 2 requests, 1 command, 3 disturbances: two requests failing with one account or one token, and one failing after the other's switch |
| `worker` | `PinGivenUpRightly`, `PinTakesHold`, `NotBricked` | 2 accounts, the loop, a session and a panel; 2 disturbances |
| `senpi` | `ResumesBounded`, `CondemnsTheGuilty`, `Recovers` | 2 accounts of 2 tokens, 1 resume allowed, 3 disturbances |
| `takeover` | `TakeoverSound` (types; revert restores; Claude Code starts), `NeverLeavesSessions`, `LostRelayReturns` | a claude-pool session and a wrapped one, 2 masters, 4 commands and 2 mishaps: setup twice with different masters, stopped, edited, reverted; idle exit 5 > 2 (heartbeat + attach) = 4, as in the code |
| `sessions` | `SwitchInv` (types; however many events report a failed turn, it is done again once), `ComesToRest` | 2 accounts, both or neither of them spent at the start, 1 session beside another, recoveries of both accounts at once, 2 disturbances (an early timer is one): the burst of one turn, a switch, another limit |
| `local` | `TipKept`, `NoForeignToken`, `BrandedTruly` | 2 accounts of 3 tokens, 1 disturbance |
| `openai` | `TipNeverLost`, `NeverTwoRefreshers` | 3 accounts of 2 tokens, 3 disturbances: one in the slot, one that left it, one that comes, and a read that fails |
| `dashboard` | `ExchangesCapped`, `TipsAlive`, `Recoverable`, `PageCatchesUp` | 2 accounts with one prefix, 2 requests, 1 session at a time of 2, 2 attempts, 3 events |

A *disturbance* is a step of the world that nothing in the code causes: quota spent,
a token revoked, a crash, a key pressed. Models that would wander through arbitrarily
long histories of them carry a budget (`MaxTrouble`, `MaxEvents`, `MaxMishaps`,
`MaxCommands`); the code's own steps are never budgeted. Each budget lets the
hazard the run is about happen in full, which the mutants and the configurations
below confirm: their counterexamples fit into it.

Deadlock is checked except in `sessions` and `dashboard`, where everything may rest
once the budget is spent: nobody sends a turn, no browser asks anything.

Type invariants are parts of the invariants named `...Inv` and `TakeoverSound`.

Each property comes with a mutant in its module ("Mutant:" comments): a small bug
of the kind that part of the code could have, for which the same run finds the
property violated. A mutant is used nowhere else.

### Fairness

- `PollerFairness`: the interval keeps firing, time passes, and a read ends because
  requests carry `NETWORK_TIMEOUT_MS`. Strong fairness on `ReadUsage` is an assumption
  about the vendor, not the code: an endpoint that fails one account for ever leaves
  its unknown cooldown in place.
- `FairSpec` of `Refresher`: each flight takes its next step, since the POST has a
  timeout, the retry pause a length and the lock a deadline. Nothing is assumed about
  which outcome a step has, about other processes or about the clock.
- `FairLockSpec`: time passes and every live process keeps trying, as the warm loop
  and the keepers do. A dead one is owed nothing.
- `RelayFairness`: the queue is worked off and a forwarded request gets an answer from
  upstream. Disturbances are owed nothing.
- `WorkerFairness`, `FairSlotSpec`: intervals fire and calls end in some answer. Strong
  fairness that a master asked again and again is at some time reached is needed for
  recovery; what it then answers is left open.
  A newcomer's grace ends. `Recovers` moreover assumes, in its own formula, that senpi does
  not for ever score a dead token's refusals as completed turns: while it does, nothing in
  this code learns that the lease is dead.
- `SessionsFairness`: launchers go on, a relay that was started tries the port, launchd
  starts its job, time passes.
- `SessionSwitch`: none. `ComesToRest` says that something stops, which needs no fairness;
  that timers do not for ever go off too early is part of the budget.
- `DashboardPage`: the page's interval fires, its requests are answered, and the
  socket's retry fires.
- `LocalChain` and `OpenaiSlot` state safety only.

## Proofs

For all values of the constants, from the modules' named assumptions only:

- `UsagePollerProofs`, first about the book alone: `TypeCorrect`; `EncodingsStayApart`; from it
  `DeadlinesAreNotDowngraded`, through what each helper of the book does to one entry;
  `StoreAlwaysAgrees`, inductive with the types - each step that skips the write is
  shown to have changed no deadline still ahead; `TimersAlwaysMatch`, given
  `MaxDelay >= Horizon` (that no deadline lies further ahead than a timer can carry:
  without it the statement is false, see below).
- `UsagePollerProofs`, then about the poller: `PollerImplementsBook`, that every step of the poller, with its
  awaits, failures and windows, is a step of the book or leaves it alone. It needs
  `PollTypes`, the invariant that what a sweep has read are readings of accounts. So
  `BookSoundUnderPolling` and `NoDowngradeUnderPolling` follow from the book's theorems.
  `SpentAccountsStayOut` (`PollerInv`), for any windows, is given `MaxDelay >= Horizon`
  only. What is owed to an account is the reset that was truthfully reported last; it is no
  longer owed once a sweep hands over a reading that `Lags` behind the report, the case the
  code cannot tell from a misreport (both ways it goes wrong are recorded as findings).
  `SpentStaysOut` alone is not inductive; `Follows` adds that what a sweep holds was true
  when it was read (`ReadingTrue`: what it shows full and still ahead is full) and that the
  account is paid (`Paid`): the book's deadline - of a stopped master, the store's - reaches
  what is owed and, where it lies beyond, is the reset of a window that is spent (`Known`).
  `LatestIsLast` gives what the reduction over a reading's windows amounts to, by
  induction on well-founded sets from the library, without recursion.
- `LeaseProofs`: `MasterRemembers` (`LeaseInv`, the types with `Remembers`),
  `RecordsAgree` (`BooksAgree`) and `DisbeliefEnds` (`NoDisbeliefLoop`) from one
  invariant, `LeaseIInv`. It adds that a live hold ends at most `MaxLease` after its
  binding was written (`BindingsOutlive`): with `MaxLease <= Ttl`, the assumption on the
  constants, `persistAffinity` can never drop the binding of a live hold, which
  `BooksAgree` by itself does not rule out. `DoubtsInGrace` puts every disbelieved
  report after the adoption. `SpentIsNeverPicked` (`NeverPicksSpent`) reduces the
  endpoint's five ways to an account to one description of a request taken in
  (`HandleIsTaken`).
- `RefresherProofs`: `Inductive`, the invariant `IInv`, the types with five parts that
  follow a generation through the system: only generations that were minted are good
  (`VendorInv`); a record names a minted generation, and a dead one if flagged
  (`LibraryInv`); a lock holder's record is present and its new token minted
  (`SiblingInv`); a flight that is posting holds a token that was due, one told
  `invalid_grant` a dead tip (`FlightInv`); a lease ends at its token's expiry less the
  threshold (`LeaseInv`). `FlaggedMeansDead` alone is not inductive: the verdict is
  about the tip in the flight, so the flight's tip must already be known dead, for
  good, when the record is compared with it. From `IInv`: `AccusationsAreTrue`
  (`FlaggedMeansDead`), `RotationsAreTimely` (`RotationHitsOnlyDueLeases`),
  `NoRefreshRevives` (`RefreshesRespectDeletion`), `TokensAreDurable` (`HandedOutIsDurable`).
- `RefresherProofs` further: `AccountsAreNotStranded` (`NeverStranded`) by `CInv`, which adds that
  an account has one flight, the registered one (`SingleFlight`), and that whatever a
  flight or another process carries towards the library is good, not on record yet,
  and no other's to spend or overwrite (`FlightCarries`, `SiblingCarries`).
  `NeverStranded` by itself allows a second flight to spend the tip the first is about
  to write; the in-flight map and the lock rule that out. The proof sorts the steps:
  most move no token (one lemma, `RestKeeps`); five do and have a lemma each.
- and `ChainIsImplemented` (`ImplementsChain`): each step of the refresher
  maps to a step of `TokenChain` or to none, under `CInv` - a spend, a write, a verdict,
  a login, a deletion or a loss, each with its lemma; with `TokenChain`'s own `SpecIsSound` it gives
  `ChainStaysSound`, without a second look at the refresher.

- `DeskProofs`: `DeskCapsExchanges` (`ExchangesCapped`), `DeskTipsAlive` (`TipsAlive`) and
  `DeskRecoverable` (`Recoverable`), of the master behind the dashboard, whatever the page
  asks of it. `DeskIInv` is `CountedFirst` - an attempt is counted in the step that posts it
  - with `Hands`: whose hands a tip is in while a handler awaits. `TipsAlive` says nothing
  of a chain a browser has just been given or a rotation not yet written, and both end
  up on record: so `FiledAlone` gives a new chain to one request only, `FlightAlive` keeps
  a rotated one alive until it is written, and `CaptureSound` follows what a capture
  looked at before it asked. `Recoverable` needs `DeletionSound`, that the copy a deletion
  has made is of the very tip it is about to drop.
- `DeskProofs` about the lock file: `LockExcludes` (`LockInv`), given `MaxHold <= Stale`, which holds of
  the code's 15 s critical sections against `LOCK_STALE_MS`. `LockIInv`: while all
  live the file is its holder's and exactly as old as the hold, so nobody steals.
- `LocalChainProofs`: `LocalTipKept` (`TipKept`), `LocalNoForeignToken` (`NoForeignToken`),
  `LocalBrandedTruly` (`BrandedTruly`), with the types. The invariant `LocalIInv` has a
  part that holds whatever happens (`Always`: no token is newer than the newest, a brand
  is true in the file about to be written as well, what is posted stays on record until
  the answer) and one that holds until a `mishap` (`Unexposed`). An operation reads the
  library at its start and replaces it at its end, while OpenCode and logins take no
  lock: `FileAhead` says how the two may differ by then, `EntryAhead` and
  `EntryMeanwhile` in which ways `auth.json` can be ahead, `ExSucceeds` that a provider's
  answer replaces the entry it came from.
- `ClientProofs` about the relay's queue: `RelayQueueSound` (`RelayInv`), `RelayNoStampede`
  (`NoStampede`), `RelayNeverSendsDead` (`NeverSendsDead`), for any number of requests and
  commands, which only have to differ in name (`RelayAssumption`). In `RelayIInv` the jobs
  are matched with their callers both ways: a job is of the kind its caller waits for and
  about what it failed with (`AllFit`), no caller has two (`NoneTwice`), none that waits
  has none (`AllQueued`); and a switch is asked for while the account that ran out is still
  held, or nothing is, with a second call, which excludes a token, only after the first
  one's answer was seen dead (`CallSound`). The action properties come from what each step reports, moves and
  sends, proved with the invariant (`Promised`).
- `ClientProofs` about the takeover: `TakeoverTakesBack` (`TakeoverSound`), for any machine
  and any series of setups, reverts, stops and edits by the owner. `RevertRestores`
  speaks of the end of a revert only; `HostIInv` of every moment before. A script writes
  what it computed from an earlier read (`JobSound`); a change is in the manifest or is
  the one the script is about to record (`EnvRecorded`, `RcRecorded`, `ScriptsRecorded`,
  `WorkerRecorded`); how far a revert has got says what is gone (`TakenBack`); and the
  owner's versions of the worker's file come back with the record (`Unmerged`), because
  what a record restores is never ahead of what the owner has written (`Versions`).
- `ClientProofs` about the sessions: `RelayStaysForSessions` (`NeverLeavesSessions`), for
  all intervals with `2 * (Heartbeat + AttachTimeout) < IdleExit`, as the constants in the
  code have it (`SessionsAssumption`). `SessionsIInv` relates the relay's idle clock to
  each launcher's: the relay has heard of a session since its last beat, or, while the
  next beat is under way, since the one before - hence the factor of two.
- `ClientProofs` about a senpi host: `SenpiBoundsResumes` (`ResumesBounded`) and
  `SenpiCondemnsTheGuilty` (`CondemnsTheGuilty`). `injected` starts again only with a turn
  of the operator, `consecutive` on every path that gives up, so `TurnSound` says that
  while a turn is under way they are equal, and that it waits for another account
  (`relet`) only below the ladder's end. Only an audit condemns, and then the occupant:
  `BlockSound` says that a limit stamped by this host is the occupant's, is that of the
  turn that has just failed, or can throttle nobody any more. The environment holds the
  occupant's token (`Occupied`), so a turn that was sent with another is one the occupant
  moved in under: while the grace lasts its block is not believed, and after that it is
  `Outlived`, the one case `CondemnsTheGuilty` excepts. Nothing is assumed of how long a
  turn or the grace takes.
- `ClientProofs` about a worker: `WorkerPinGivenUpRightly` (`PinGivenUpRightly`), for any
  number of sessions and panels. The types are inductive and are all it needs: a refusal
  is answered to a call about the account it names, which is cooling in that step
  (`RefusedAreCooling`), and every other way to lose the pin is the limit's, the
  operator's or a failed pin's own.

- `SlotProofs` about the slot: `SlotKeepsTips` (`TipNeverLost`) and `SlotHasOneRefresher`
  (`NeverTwoRefreshers`), given `Tame`: nothing happens that `Allow` names. `SlotIInv`
  follows the chains (`ChainsSafe`: codex posts tips only, and a token older than the tip is
  in the slot only while codex holds the newer one), what an operation under the lock may
  rely on after its read (`KeepsAlone`, `SeenKept`), and why the keep-alive may post at all
  (`Quarantined`): whoever codex may still be busy with is quarantined or in the slot, or
  the next capture is bound to see that the slot is not as it was left. Looking for
  `Quarantined` showed that `NeverTwoRefreshers` had held with `MaxTrouble = 2` only: an
  empty slot protects nobody from a read that fails (`src/openai-slot.ts:150`). The run
  now has the budget in which that would show, and `Allow` names it.
- `SlotProofs` about the automatic switch: `SwitchInvariant` (`SwitchInv`). A prompt on its
  way belongs to a turn that is marked as handled (`SentIsHandled`), which `RedoneOnce` does
  not say, and which is what keeps the next handler from sending another.

Besides these hypotheses the constants' assumptions are the only ones: sets of names that do not overlap, bounds
that are numbers, and the orders of intervals named above.

Only model-checked: the liveness properties (`PendingResolves`, `RequestsSettle`,
`AbandonedIsTaken`, `RequestsAnswered`, `PinTakesHold`, `NotBricked`, `Recovers`,
`LostRelayReturns`, `ComesToRest`, `PageCatchesUp`), which are out of the prover's
reach. Every other property a run checks is a theorem.

## Where the code and its comments differ

Each of these is listed under "findings" in `PROJECT.json` with the line that bites and
the comment quoted. Most can be seen with a configuration of their own, which TLC
ends with a counterexample (`tlc -config X.cfg M`):

| configuration, module | violated | what happens |
|---|---|---|
| `MCLeaseCapacity`, `MCLeaseService` | `HardCeiling` | holders are counted in a book written only after the token was awaited, and not at all on four of five ways to an account |
| `MCLeaseHorizon`, `MCRefresher` | `LeaseNeverOutlives` | a lease asks for the buffer on top of the threshold, so the next rotation kills one with up to the buffer left (never more: `RotationHitsOnlyDueLeases`) |
| `FileLockSteal`, `FileLock` | `MutualExclusion` | after a death the second stealer renames the first one's new file |
| `MCStaleSweep`, `MCUsagePoller` | `ClearedIsImplausible` | a reading taken before a window opened clears the deadline that window gave |
| `WorkerAnchor`, `WorkerSlot` | `RenewalNamesHeld` | an automatic switch does not tell the keeper, whose next renewal names the account that was left |
| `SwitchRecontinue`, `SessionSwitch` | `OnlyFailedRedone` | recovery goes through a copy of the stalled sessions and redoes one the user has resumed |
| `OpenaiUnseen`, `OpenaiSlot` | `NeverTwoRefreshers` | an account that comes to the slot and leaves it between a capture and a keep-alive is refreshed beside codex |
| `OpenaiUnseen` with `Allow = {"nobody"}`, `OpenaiSlot` | `NeverTwoRefreshers` | a read that fails while no account is believed active quarantines nobody, though codex may be busy with one that came since |
| `OpenaiWriteBack`, `OpenaiSlot` | `WritesTheNewest` | codex rotates between a switch's capture and its write of the same account |
| `DashboardBackwards`, `MCDashboard` | `NeverBackwards` | the forced sweep's answer is stored without comparing instants |
| `DashboardStaleAnswer`, `MCDashboard` | `DoneIsOurs` | an answer is shown in a dialog that was opened after it was asked for |
| `DeskOverfull`, `MCDashboard` | `NeverOverfull` | room is made before an await and taken after it |
| `DeskResurrection`, `MCDashboard` | `DeletionIsFinal` | the account in `auth.json` is deleted and captured again |
| `TakeoverStopped`, `Takeover` | `StoppedSetupReverts` | a setup stopped between writing a file and recording it leaves that file |
| `TakeoverEdited`, `Takeover` | `EditsAlwaysSurvive` | an edit between two setups is not in the record revert restores |
| `TakeoverLate`, `Takeover` | `NoneEntersAfterRevert` | a launch that had passed the gate enters the pool after revert |
| `RelayOrphan`, `Takeover` | `LeavesNobody` | a relay started again knows nothing of a wrapped session and leaves under it |

Without a configuration: a deadline beyond 2^31 - 1 ms recovers at once
(`src/master/scheduler.ts:320`); the pause after a 429 is not looked at between attempts
(`src/master/refresher.ts:214`); a waiter for the lock gives up before an abandoned file
counts as stale, which costs a refresh its token (`src/lockfile.ts:53`); a burst that
outlasts its guard cools the account just moved to (`src/autoswitch.ts:556`), and so does a
second session between a switch's write and the note of it (`src/autoswitch.ts:558`); a
turn that outlives the grace of an account that moved into its slot has it throttled for
the limit of the one before (`src/senpi/authBlockClear.ts:180`); a reading older than a
report replaces the weekly deadline it gave by the five-hour one
(`src/master/scheduler.ts:651`); the refusal of one account's pin clears whichever pin is
stored by then (`src/worker/pin.ts:58`); a capture that files nothing is stamped as done
(`src/master/keeper.ts:72`); a switch to
the active account writes its record's older token back (`src/usage.ts:594`); and a crash
between the two writes of a switch leaves a token under the wrong account
(`src/usage.ts:637`).

Behaviours neither promised nor denied by a comment: `persistToken` does not compare
tips, so it writes a refreshed old chain over a login that completed during the POST
(`NeverStranded` leaves such an account `excused`); `onLimit` may put a pin back over
one set meanwhile (`PinTakesHold` then speaks of that one).

## Not modelled

- How a senpi host keeps several slots apart (`slotRoster.ts`): one slot is modelled.
- Markup, styles and icons of the dashboard, the panels and dialogs of the terminal,
  statistics and log bundles: layout and aggregation for display. They keep no state
  that another part reads.
- Ranking inside a tie (utilization, burn history, the round-robin cursor): an election
  takes any account of the tie. What is ranked first only shifts load.
- Parsing of request bodies, headers, reset times and files, beyond the outcomes the
  handlers tell apart. In `Takeover` a `settings.json` that does not parse and the hook
  containers inside it are left out; a gateway the owner has configured himself is
  modelled as refused, which is on purpose in the code.
- Child processes' environment filtering, argument passing and signals; a launch that
  the wrapper passes through untouched is outside `RelaySessions`.
- Choosing the mode at start-up, prompts and configuration, build scripts and the
  replay of logs: sequential code without later state. senpi's rate-limit probe only logs.
- Crashes between the two renames of an atomic file write: the file system's promise.
