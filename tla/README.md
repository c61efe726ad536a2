# Verification of aapanel-manager

TLA+ models of [aapanel-manager](../src/README.md), a web application that watches and
operates a fleet of aaPanel servers, with the TLC runs that check them on small
instances and the TLAPS proofs of what holds for every instance. Paths below are
relative to the repository (`src/lib/...` is the application's own `src` directory).

## 1. The system

One Node process serves the web interface; more replicas, and a dedicated worker, may run
beside it. All of them share a PostgreSQL database and nothing else. Panels are remote
HTTP services that the application does not control.

| Component | State it keeps | Operations | Talks to |
|---|---|---|---|
| Job queue (`lib/jobs/queue.ts`, `lib/utils/concurrency.ts`) | rows `Job`, `JobItem`; the locals of a run | create, cancel, claim, run (canary, fan-out, sweep, verdict), reap | database, panel client, audit journal |
| Job runner (`lib/jobs/runner.ts`) | `running`, `stopped`, one timer handle, `inFlight` | start, stop, drain | queue; driven by the poller |
| Leader election and poll loop (`lib/servers/poller.ts`, `worker/`, `instrumentation.ts`) | flags, lock connection, two timers; the advisory lock in the database | ask for the lock, become and lose leader, tick, shut down | database, job runner, status cache |
| Panel request limit (`lib/aapanel/rate-limit.ts`) | per panel: counter, queue of waiters | acquire, abort, release | every call of the panel client |
| Panel client (`lib/aapanel/client.ts`, `paging.ts`) | none of its own | some sixty panel operations over one `post()`; lists with pages and failed sources | panels |
| TLS pinning (`lib/aapanel/tls.ts`, `index.ts`) | `Server.tlsPinSha256`, the pin of the own panel | trust on first use, check, reset | database, audit journal |
| Status cache and overview (`lib/servers/`) | rows `ServerStatus` | poll, refresh, read, delete with the server | panel client, realtime |
| Realtime (`lib/realtime/`, the SSE route, `servers-live.tsx`) | one LISTEN connection per process, subscribers; a stream and two timers per page | notify, subscribe, reconnect, refresh | database, browsers |
| Audit journal (`lib/audit.ts`) | rows `AuditLog` | record, begin/finish, record in a transaction | database |
| Server actions (`server/actions/`) | none; requests of operators | guard, validate, journal, call the panel, report | all of the above |
| Users and sign-in (`server/actions/users.ts`, `lib/users/policy.ts`, `auth.ts`) | rows `User`, session tokens | create, change, delete, sign in | database, audit journal |
| Self-update (`lib/deploy/`, `scripts/git-self-update.ts`, `lib/version/`) | lock file, status file, working tree, staged release, symlink, version history | update, roll back, stage, activate | file system, git, own panel |
| Live lists and views in the browser (`components/servers/detail/`) | rows on screen, terms, request numbers, dialogs, busy flags | search, reload, poll, settle, open, act | server actions |

What is hard here, and hardly reached by the unit tests of the repository:

- **Interleaving.** Leaders overlap at a handover; the workers of one job share a cursor and
  a halt flag; releases, deadlines and new calls meet in one request gate; two admins act at once.
- **Stale reads.** The halt and cancel flags are read before awaits; the database frees a lock
  before its holder knows; a count of admins is read before the write it allows.
- **Crashes.** A run is a dozen separate writes; a process may die between any two, and the
  next leader cleans up after it.
- **Failures of a single query.** `mapLimit` swallows what an item throws, `drain()` what a job
  throws; the journal is best effort.
- **Events and answers out of order.** `end` and `error` events of an old connection run against the
  state of a new one; an older poll is written after a newer one; the answers of several searches
  and loads arrive in any order.
- **Retries over what a failure left.** A lock file is stale, fresh or corrupt; a release is half
  unpacked; the working tree is ahead of the build that serves.

What makes each component correct: a server is worked on at most once per job, the canary first,
and the report never claims what the panel did not do; some process leads, one at a time
unless a connection broke unnoticed, and the lock is never orphaned; a panel is never given more
requests than its limit and no slot is lost; an irreversible action is never without its journal line and
an admin remains; a reading that is fresh is true and a trusted certificate has its line, whatever polls
overlap; nobody subscribed is left deaf and an open page catches up; one update runs at a time, what
the page says of it is so and a restart boots files that belong together; a list shows everything its
term finds or says what is missing, and a view is never replaced by something older.

`PROJECT.json` lists every component with its status and every hazard with its line.

## 2. Modules

| Module | Models | Used by |
|---|---|---|
| `JobQueue` | the queue, one action per query or panel call | `MCJobQueue`, `LeaderJobs`, `JobQueue_proofs` |
| `Leadership` | the election, the tick chains, shutdown | `MCLeadership`, `LeaderJobs`, `Leadership_proofs` |
| `LeaderJobs` | both composed through the runner's flags and timer | `MCLeaderJobs`, `Leadership_proofs` |
| `PanelGate` | the gate and the path of a call through it | run as it is, `PanelGate_proofs` |
| `PanelBudget` | the abstract promise of the gate (ADR-0004) | instantiated by `PanelGate` |
| `Accounts` | accounts, sessions, the journal, the shapes of the server actions | `MCAccounts`, `Accounts_proofs` |
| `Semver` | the order of versions, the choice of a release | `SelfUpdate` |
| `SelfUpdate` | both ways of updating, with the page that starts them | `MCSelfUpdate`, `SelfUpdate_proofs` |
| `Fleet` | registrations, trust on first use, the status cache | `MCFleet`, `Fleet_proofs` |
| `Live` | from a poll to the page that shows it | run as it is, `Live_proofs` |
| `PanelWork` | the operations of the client behind a server's page, and their actions | `Lists`, `Views_proofs` |
| `Lists` | the lists with searches, polls, dialogs and changes | `Views`, `Views_proofs` |
| `Views` | every part of the page that loads on its own | `MCLists`, `Views_proofs` |
| `MC*` | the inputs and symmetry of the small instances | TLC |
| `*_proofs` | theorems and lemmas | TLAPS |

**JobQueue.** `job`, `itemServer` and `itemStatus` are the database rows; `thread` is the chains of
`drain()` calls; `run[j]` and `worker[j]` are the locals of `runClaimedJob` and of the
`runItem` calls. A job is claimed once, so they are indexed by the job. Everything between two
awaits is one action, named for the code it is: `FindJob` and `ClaimJob` are the two queries of
`runNextJob`; `CheckCancel`, `MarkRunning`, `LoadClient`, `PanelAnswers` and `RecordResult` the
awaits of `runItem`; `ReapFind` to `ReapJobs` the four of the reaper. `WorkerDbFails`,
`RunDbFails` and `ThreadDbFails` send a throw where the code's `try` blocks send it: to the
failure write, to `mapLimit`'s empty catch, out of the run, or to `drain()`'s log. `did` and `late`
are history: what reached each server, and how many calls started after a halt or a
cancellation. `Spec` lets chains overlap without restriction, as after a handover; `SoleSpec`
starts a chain only when no other is left.

**Leadership.** `lock` is what the database knows, `poller[p]` what the process believes.
`ConnectionBreaks` changes only the first; `BreakNoticed` and `ConnectionEnds` are the later
events, which run `loseLeadership()` whichever connection they belong to. A tick chain is a poll
cycle in progress or a timer. `Signal`, `ReleaseLock`, `CloseAwaited` and `Exit` are `shutdown()`;
`Dedicated` is the set of processes started with `exitOnShutdown`; the others end with their HTTP
server.

**LeaderJobs.** A step of the poller that sets the runner's `running` starts a chain, one that
clears it drops the remembered timer (`StopsChains`) and nothing else, since `stopJobRunner()`
is not awaited there. The death of a process takes its chains along. A query of the reaper that throws is caught before
`drain()`, one of a round inside it; either way the chain goes on (`DrainChain`).

**PanelGate.** `gates[o]` is the counter and the queue the code keeps, `at[r]` where a request
really is. `Release` hands the slot over or frees it; `DeadlineWhileWaiting` is the abort of a
waiter. `ImplementsBudget` maps the holders of slots to the abstract `inside`, which has no counter.

**Accounts.** `users`, `server` and `line` are the rows of `User`, `Server` and `AuditLog` that matter; `token[u]`
is the role in a session, copied at sign-in and never refreshed, as `auth.ts` does. `req[q]` is a server action in
progress with what it has read: each query, each write and the panel call is one action, so two requests meet between
the count of admins and the write it allows. `LineAccepted` is the pair of foreign keys a journal line has to satisfy.
An action on a panel is `irreversible` (`LoadServer`, `BeginAudit`, `PanelCall`, `FinishAudit`) or `reversible`
(`LoadServer`, `PanelCall`, `RecordAudit`). `crossed` (another write has landed since this request counted) and
`ghost` (its account was gone when it came in) are history.

**SelfUpdate** (over `Semver`). Files (`lock`, `status`, `tree`, `built`, `tarball`, `partial`, `release`, `config`,
`link`), rows (`settings`, `installed`, `migrated`) and what the web process runs (`running`) are separate
variables, because each survives another fault: a server action dies with the web process, a runner of a git
update does not, a reboot keeps only files and rows. `tab[a]` and `page[a]` are a tab: its phase, and the version and
row it showed when it was read, which may be old by now. `at[q]` and `flow[q]` are a request in the web process, and
`runner[r]` is a detached `git-self-update.ts`. A request is not its tab's: when the answer is lost (`AnswerLost`) or the
page is loaded again (`ViewStatus`) the tab is idle, and may send another, while the request goes on; nothing in
`aapanel.ts` keeps two of them apart. `SaveRow` changes the deployment mode as well. `Acquirable` is the decision of `acquireUpdateLock` over a lock that is
free, fresh, stale or corrupt; `LockAges` is its clock. The steps of `stage()` are `Download` to `MarkStaged`, those of
`swapAndRestart` `Locate` to `Restart`; each may fail or be cut off (`RequestFails`, `RunnerFails`, `RunnerKilled`,
`Reboot`), and `Thwarted` is what one request's files make of another's steps. Two histories say what was shared: `beside`,
in a flow, has the versions of the requests that were open with it, and `disturbed` the versions staged again while
something could still go to them (`InUse`).

**Fleet.** `server`, `status` and `journal` are rows; `panel` is what answers at an address, and `era` counts its changes.
A place of a batch (`at`, `poll`) holds what one `refreshServer` has read: `Take` the row, `Probe` and `StorePin` a
first certificate, `JournalPin` its line, `Collect` the answer, `WriteOnline` or `WriteOffline` the row of the cache. The
poll of the leader and the refresh buttons are batches of the same steps. `form` and `edit` are the dialog of a server and
its action: `Inspect` shows a fingerprint, `Create` and `UpdateServer` store the row, `JournalSave` writes its lines one
by one. `RecordAudit` swallows a write that is rejected, as `audit.ts` does, and `ProcessDies` ends the batches of the
worker and the saves of the web process where they are; the lines these had still to write are kept in the history
`lost`. `status[id].by` is the registration a reading was made with; it is history, no column. The edit form sends the stored fingerprint along with a
changed address, so the rule of `servers.ts:106-109`, that a changed address drops the stored pin, applies only to what
did not come from the form.

**Live.** `client`, `connecting` and `timer` are the hub's module variables, `conn` and `pending` what its connections are and
which of their events have yet to be raised. An `error` or `end` runs `ScheduleReconnect` whichever connection it belongs
to, as in the code. `message`, `debounce` and `asked` are a page: a message on the stream, the timer that gathers
several, and the refresh with what it read. `Refused` is an answer other than a stream, 401 of the route or whatever a
proxy says, after which an `EventSource` does not connect again.

**PanelWork, Lists, Views.** One server's page, in three modules. `PanelWork` has `have`, the items on a panel and whether
they are on; the list operations as functions of what their sources answered (`ListSites` ... with the partial answers and
`DescribePage`, which decides whether a full page is all there is); and each changing action as the sequence of its
journal, reading and request (`StepsOf`), one step each. `Lists` has `useSearchableList`: `box` is what is typed,
`request` the calls that are out with the sources they have answers from, `newest` the one that may paint, `list` what is on
screen. `Paint` follows `settleRefresh`. The dialogs of the tables are records naming the item they are about and the operation chosen; a
table or dialog is the set of operations it offers (`CronTable`, `FtpUserDialog` ...). `Views` adds the parts that load
on their own: `Asks` says of which parts an answer consists and which are vital, `Paints` which answers each view
accepts: a log numbers its loads, a summary waits for the last, a form does neither. `era` is the version
of the content, so an answer is the version each of its parts was read at, and `Forward` compares two of them.

## 3. Runs

| Run | Instance | Shows |
|---|---|---|
| `jobqueue_overlap` | one job over three servers (one named twice), two workers, two chains that may both find, claim, run and reap; one throwing query, one death | `AtMostOnce`, `CanaryFirst`, `StopRadius`, `ReportMatchesPanel` hold whatever leaders overlap and whatever fails |
| `jobqueue_sole` | two jobs, one of a retired kind, one chain; one throwing query, one exit, one server deleted | `ClaimOrder`, `FinishedIsFinal`; a throw costs the end at most one item (`EndIsComplete`); every job ends |
| `leadership` | a web process and a worker; one break, one signal, one kill | `LockFollowsLeader`, `OneAttempt`, `OnePoller`, and a leader returns |
| `leader_jobs_restart` | the composition with one process that loses and regains leadership; one break; either one chain that ends and one kill, or one throwing query (`OneKindOfFault`) | a runner that runs has a live chain (`RunningMeansDraining`), no server is repeated (`AtMostOnceHere`) |
| `panel_gate` | four requests, two panels, limits 1 and 2 | budget, accounting, no ghosts, slots return, refinement of `PanelBudget` |
| `accounts` | two requests of any kind over two admins and a third account; one throwing query, one death | `JournalIsTrue`, `GhostsDoNothingIrreversible`, `NoMutualDeletion`; the last admin goes only in a race (`LastAdminGoesOnlyCrossed`) |
| `self_update` | one tab that presses four buttons, two requests and two runners at once, two releases and a prerelease, a checkout or releases; one failure, kill or reboot at any step | one runner at a time, what the page shows is so, restarts boot what belongs together, every tab and lock comes free; `SemverIsTheOrder` over all pairs of a sample |
| `fleet` | one server, two addresses, two certificates, the poll, one page and one dialog; one change of a panel, rejecting query or death, one creation, edit or removal | a fresh reading is true, trust has its line unless that line was lost, the cache settles |
| `live` | one page, five connections, two failures, one change | the hub is never deaf, a page that is not refused catches up |
| `lists` | every section and view of the page; two items of which a search finds one, two requests at once, one change, one fault | what a list shows is whole or says so, switches are as asked, the journal is complete, views do not go back, polls settle |
| `self_update_retry` | one tab, one request, one runner, one fault | **violated**: the retry of a failed update stores the version it installs as the one to go back to |
| `lists_search` | as `lists` | **violated**: a list rests on a term the box no longer holds |

The two violations are disagreements between the code and what its own comments say; each is
a finding in `PROJECT.json` with the line it contradicts. `ListIsOfTheBox` has a second cause: `onDone` and `runOp` call
the `reload` of the render on which the action was started (`use-searchable-list.ts:157`, `projects-table.tsx:83-93`,
`cron-table.tsx:185`), so the reload after an action asks for the term applied then.

**Other disagreements met, kept here without a run of their own:**

- Nothing keeps `stage()` from running twice, or next to an activation (`aapanel.ts:55-151`), and `stageUpdateAction` looks
  neither at what is staged nor at what runs (`updates.ts:211-232`): a page that is old, or whose answer was lost, stages a
  version again. Its directory is removed first (`aapanel.ts:101`), and if that `stage()` then fails, the marker, or
  `current`, is left at a release that is not there or not whole. When the version is the running one, its `.env` is
  removed as well, and `carryEnvFile` finds none to carry. `StagedIsReady` and `RestartIsConsistent` except exactly these
  versions (`disturbed`), where `aapanel.ts:168-172` promises a consistent boot.
- Two activations at once: the second takes as the version before what the first has just linked (`aapanel.ts:200`), and
  the release that a restart boots need not be that of the request that asked for it (`RestartIsConsistent` says so of a
  request with none beside it).
- While a new runner has not written its status, and when a second tab polls, the page shows the checklist of the update
  before: it does not compare `status.target` with its own target (`update-actions.tsx:165-166`). `ShownIsTrue` is about
  the update the status names; its part about the last step says that the web process runs `status.target` until the
  next update begins.
- Two changes of role that both count two admins (`users.ts:137`) leave none, where `users/policy.ts:31` says that the
  last admin cannot be removed; `LastAdminGoesOnlyCrossed` shows that it takes such a race.
- When the lock connection of a living leader breaks in the middle of a job, the next leader's reaper closes it and
  the run rewrites what was closed (`queue.ts:275`, `poller.ts:102`); a page that has stopped refreshing
  (`job-detail.tsx:63`) does not show it.
- A worker that is told to stop exits once the lock connection is closed (`poller.ts:154`), with a server in hand, where
  `runner.ts:81` and `schema.prisma:120` say that the job in hand ends.
- The journal line of a job counts skipped servers as succeeded (`queue.ts:234`), where the job itself
  (`queue.ts:217`, `schema.prisma:95`) does not.
- The polls of a project's log may overlap and starve each other (`project-logs-dialog.tsx:78`) once live mode is
  switched during a load, although lines 48-49 and 82 keep them apart; the log of a task that was run may go back
  (`cron-task-dialog.tsx:122`); a project form opened again, and its folder picker, take the answers of the earlier opening.
- The answer to "who decided to trust this certificate, and when" (`servers.ts:115-117`) rests on a line written after the
  pin, whose failure is swallowed: a pin may be in force without one.
- In the dialog of a task, a deletion chosen before a poll failed is not disabled with the rest (`cron-task-dialog.tsx:355`).

**Bounds.** `MaxDbErrors`, `MaxExits`, `MaxDeletions`, `MaxBreaks`, `MaxSignals`, `MaxKills`, `MaxDeaths` and `MaxFaults`
bound how often something goes wrong in a behaviour; one of each already meets every control
point of the code, since each fault is possible in every state. `MaxConns` and `MaxTicks` bound
what one process has open together: two is an old connection or cycle next to a new one. The
retry takes a connection slot that is free, so a third would have to wait, which `LeaderReturns`
shows it never does for ever. Three servers are a canary and two more, so both
workers have one; a list with a repeated id exercises the removal of duplicates. Two chains are
the least that overlap. Four requests fill a gate of limit 2 and queue two, or share two panels.
Two requests are the least that race; two admins are the least of which one may go, and the third
account gives a creation its row.

Two runners and two requests of `SelfUpdate` are the least that could meet, and a prerelease between two releases the
least that the choice of a release can get wrong. `MaxPresses` bounds the buttons pressed, settings saved included: four
are enough for two updates with a change of the settings between, or for two stagings, an activation and a rollback. One
tab suffices for every overlap, since it may be idle while its request goes on; what more tabs add, more pages of
different age, and more faults are covered by the theorems, which hold for any number of either. A new request or runner takes
a fixed one of the free names, which are only names. `Fleet`'s `MaxChanges` counts changes of a panel
rejecting queries and deaths together, `MaxEdits` registrations created, saved and removed; the poll and one page are two writers of one row.
`Live` has two breaks and five connections, one more than the four that two breaks can cost (`StrayAreFew`).
`Lists` has two requests out, an old one and a new one, `Changing` items that dialogs are about and
that change, and `Searched` sections whose box is typed in and whose row count may be unreadable: every
list uses the same hook, so one that is searched and one that is polled show both ways of losing an answer.

**Deadlock** is not checked: a queue with nothing to do, a gate whose calls are over, a page nobody touches and a bounded
supply of faults do stop.

**Fairness.** Weak fairness of everything the event loop runs when it is ready: answers of queries,
timers, and panel calls, which the client ends at a deadline. `WF(SoleStart)` and `WF(Restart)`
are the supervisor (Docker's restart policy, or aaPanel's) and the poller's retry; in `SelfUpdate` the steps of a runner
and of a request, each of which ends or fails, the deadline of a tab that waits, and the clock that makes a lock stale; in `Fleet` the tick and the steps of
polls and saves; in `Live` the browser's `EventSource`, which reconnects by itself, and is then answered with a stream or refused; in `Lists` and `Views` only polls and
answers. No fairness is assumed of requests, faults, signals, edits or deletions. `EveryJobEnds` excuses a behaviour with
a throwing query: the canary's queries are outside the item's `try`, and a run that throws there leaves its job
`running` until a process becomes leader again. `ClaimOrder` is checked with one chain at a time; that overlapping
chains keep it too is the theorem `ClaimsInOrder`, for any number of chains, jobs and throws.
`Accounts` states safety only: requests may come or not, and a request that stops anywhere is a death.

More exceptions are part of the properties because the code has them: `EndIsComplete` allows one open or unmet item
for each query that threw (`mapLimit` swallows it) and speaks of jobs whose kind still exists; `OnePoller` of behaviours in which no connection broke
(the lock is gone before its holder knows); `ShownIsTrue` and `RestartIsConsistent` except a version that was staged again
while it was in use, as said above; the runs of `SelfUpdate` have
`RunsWithinTTL`, as a runner slower than `UPDATE_LOCK_TTL_MS` is overtaken by design; `ViewNeverGoesBack` leaves out the views
named above; `TrustIsJournalled` excuses a line that was lost (`audit.ts:57-64` swallows it, or the process died between the pin and
the line) and no other; `PageCatchesUp` is about a page whose stream was not refused, for one that was stays as it is
until it is loaded again.

## 4. Proofs

| Theorem | Module | States |
|---|---|---|
| `TypeCorrect` | `JobQueue_proofs` | `Spec => []TypeOK` |
| `ClaimsInOrder` | `JobQueue_proofs` | `Spec => []ClaimOrder` |
| `SoleIsSpec` | `JobQueue_proofs` | `SoleSpec => Spec` |
| `CanaryGoesFirst`, `StopsWithinRadius`, `ReportsMatch` | `JobQueue_proofs` | `CanaryFirst`, `StopRadius` and `ReportMatchesPanel` of `Spec` |
| `AtMostOnceEach` | `JobQueue_proofs` | `Spec => AtMostOnce` |
| `EndedStaysFinal`, `EndsComplete` | `JobQueue_proofs` | `FinishedIsFinal` and `EndIsComplete` of `SoleSpec` |
| `LeadershipTypes`, `LockIsTheLeaders`, `AttemptsAreSingle`, `PollsDoNotMeet` | `Leadership_proofs` | the four invariants of the run |
| `ElectionsGoOn` | `Leadership_proofs` | `CSpec => LSpec` |
| `RunnersDrain`, `TouchedOnceHere`, `QueueHoldsHere` | `Leadership_proofs` | `RunningMeansDraining`, `AtMostOnceHere`, and the invariants of the queue, of `CSpec` |
| `GateInvariant` | `PanelGate_proofs` | `Spec => []GateInv` |
| `TypeCorrect`, `BudgetIsKept`, `SlotsAreAccounted`, `QueueHasNoGhost` | `PanelGate_proofs` | the types, and the three invariants of the run |
| `Implements` | `PanelGate_proofs` | `Spec => ImplementsBudget` |
| `TypeCorrect`, `JournalTrue`, `GhostsHarmless`, `MutualDeletionExcluded` | `Accounts_proofs` | the types, and the three invariants of the run |
| `LastAdminKeptUncrossed` | `Accounts_proofs` | `Spec => LastAdminGoesOnlyCrossed` |
| `TypeCorrect`, `RunnersNeverMeet`, `ChecklistTrue`, `StagedReady`, `PageIsRight` | `SelfUpdate_proofs` | the types, `OneRunner`, and `ShownIsTrue` with its two parts |
| `RestartsAreConsistent` | `SelfUpdate_proofs` | `Spec => RestartIsConsistent` |
| `TypeCorrect`, `FreshReadings`, `TrustHasLines` | `Fleet_proofs` | the types, and the two invariants of the run |
| `TypeCorrect`, `HubIsNeverDeaf`, `StrayAreFew` | `Live_proofs` | the types, `NeverDeaf`, and the bound it rests on |
| `ListTypes`, `ListsAreWhole` | `Views_proofs` | `ListsTypeOK` and `NothingIsMissing` |
| `SwitchesAreTrue`, `NothingUnwritten` | `Views_proofs` | `SwitchedAsAsked` and `IrreversibleIsJournalled` |
| `ViewsAreOfTheirOpening`, `ViewsGoForward` | `Views_proofs` | `ViewIsOfThisOpening` and `ViewNeverGoesBack` |

The type invariants of most modules are proved and not run: a run's invariants are the ones that say more.

**Job queue.** `ClaimOrder` is not inductive. A run or a reaper may write any status to its job, and only what
they remember excludes that the job is a pending one: `OrderInv` adds that a run past its load belongs to a job
that was started (`RunsAreStarted`), that the job a chain has found is the oldest pending one or no longer
pending, and that the ones it reaps are not pending (`MemoryIsSound`), and that `created` has each job once. One
lemma per action shows the part it can disturb.

The other promises of an overlapping queue rest on `QueueInv`, which says of each job that its workers stand at
different servers and only where the phase of the run lets them (`WorkersInPlace`), that what has been touched
lies behind the cursor (`TouchedInTurn`), what an item's row says while its worker is away (`ItemsFollow`), that
the cursor waits for the canary (`CanaryAlone`), and that the servers reached too late and the workers that may
still reach one are together no more than the workers (`StopsSoon`). That last part is why `StopRadius` is an
invariant at all: the count may grow only as a worker uses up its check. `AtMostOnce` is a property of steps,
which one worker at a time takes, each beyond what was touched. Reapers write only rows, so they disturb none of
it.

`FinishedIsFinal` and `EndIsComplete` need a sole leader. `SoleInv` says that one chain is alive at most, that
an open run is in its hands and that what a reaper remembers has no open run, so that whoever writes a job finds
it `running`. `CompleteInv` says which items a run in each phase, and a reaper at each query, may still leave
open; it is what a throw would break, so `EndsComplete` is proved for behaviours without one, and what a throw may
cost is left to the run.

**Queue under the election.** `ElectionsGoOn` carries the results of `Leadership` over to the composition. The
queue's do not carry over as simply, because `LeaderJobs` starts, wakes and ends chains by its own steps: the
proof shows that each of these moves a chain the way a step of `drain()` does (`ChainMoves`), so `QueueInv`
stays. `DrivenInv` adds that a runner that runs is not stopped and has a chain, and that the timer it remembers
belongs to one of its own, so that dropping it leaves the other processes' chains alone.

**Election.** A step is one process's, so the invariant is a statement `Safe` about one process: its record, its
connections, its chains, and the slots by which it holds the lock. It says which connections may hold the lock,
that an attempt under way is the one connection that is asking, and that a shutdown keeps the client it will
close. The lock is held by one process (`OneProcess`), so a step of another can only take slots away.
`OnePoller` needs a second part, `Calm`, which holds until a connection first breaks: one connection per
process, a chain only with the client it leads by, one chain at a time, and a shutdown that waits for the cycle
in progress. A poll then holds the lock, which has one holder.

**Gate.** `BudgetKept` needs the counter: `GateInv` says that `inFlight` is the number of holders and at most
the limit, that the queue is injective and holds exactly the waiters, and that it is empty while there is room.
`Release` is the case that matters: the slot's old holder leaves and the head of the queue enters, and the
cardinality of the holders stays. The refinement maps `Post` to `Arrive`, `Release` to `Leave`,
`DeadlineWhileWaiting` to `GiveUp` and `SendEnds` to a stutter.

**Accounts.** Three strengthenings carry the four results. `LineSoFar` says what the line and the effect of a
request are at each point of its way; with it every step keeps `JournalIsTrue`. `GhostsStayOutside` says that a
request without an account never gets to the panel irreversibly, and `DeletedIsGone` that a deletion that
happened has left no account; since no account is born again (`AccountsAge`), the second of two mutual deletions
has lost its author. `ReadIsCurrent` says that what a request read still holds while nobody has crossed it; a
demotion or deletion that is not crossed therefore leaves another admin (`AnotherAdmin`). `StepOfOne` and
`StepOfItself` separate what a request's step does to the others and to itself, once for all results.

**Self-update.** `OneRunner` needs that a live runner has a fresh lock (`LockInv`), which is where
`RunsWithinTTL` enters; the rest about runners then speaks of one. `ChecklistTrue` says where the status file is
for each place of the runner. `StagedReady` rests on `BundleInv`, which speaks of any number of requests at once.
`Wanted` is what something may still go to: what is staged, was active before, is linked, runs, is shown by a page or
is being linked. `Ready` says that a wanted version which was not disturbed is whole, and that no `stage()` works on it;
`Known` that open requests have each other's version beside them and that sharing a version with a `stage()` disturbs it;
`Prepared` and `Swapped` what each place of a request has done, if nobody shares its version or nobody was beside it. A
`stage()` that begins either disturbs its version or finds it wanted by nobody; what it leaves at its end is whole, or
disturbed. `RestartsAreConsistent` joins both with the last step of either pipeline.

**Fleet.** A fresh reading is true because a poll that has an answer, began in the present era and read the
registration that still stands has the answer of the panel as it is (`Agrees`): whatever is then written is
either dated before the last change or right. `TrustIsJournalled` needs that what a poll or a save carries is
vouched for before it is stored (`Vouched`): by its line, by a save or poll that has yet to write it, or by what was lost
when that failed.

**Realtime.** `NeverDeaf` is nearly inductive, but an attempt needs a connection that is free, and an open
connection the hub has forgotten is never closed. `StrayAreFew` counts them: each failure costs at most two, one
that is gone with events to raise and one that such an event made the hub forget.

**Lists and views.** The invariant is built in the layers of the modules. `WorkInv` is about the action under
way: what is left of its steps decides what the journal has (`Sworn`) and, while nobody else touched the item,
what the panel has (`SwitchSound`); so the truth of a switch comes from reading the state before the toggle, not
from the row that was clicked. `ListInv` says that a request that is current holds only pages of the panel as it
is (`UpToDate`). What remains is about the functions that make an answer of pages: a page that `describePage`
does not call cut is all there is (`PageIs`, a counting argument over the rows and the limit), so an answer
without a failed or cut source has all that the term finds, whichever of the list operations put it together
(`WholeAnswer`). `DialogInv` keeps a dialog about a row that is on screen. `ViewInv` distinguishes views that
number their loads from views that wait for the last: in the first the numbers order the openings and the
answers, in the second there is one load at a time; either way the load that may paint has no part older than
what is on screen (`ShownInv`).

**Assumptions.** The `...Assumption` of each module types its constants; beyond that, `AccountsAssumption` says
that an admin exists at the start, `FleetAssumption` that the marks for unused and deleted ids differ,
`LiveAssumption` that there are more connections than twice the failures, `ViewsAssumption` that a view is one
of the ten, and `PanelWorkAssumption` that a panel has finitely many items. `TaskAssumption`,
`RequestAssumption` and the last part of `ViewsAssumption` say that `None`, the mark for no action, no request
and no load, is none of them, which the code has from the types of its variables. `RunnersNeverMeet`,
`ChecklistTrue`, `PageIsRight` and `RestartsAreConsistent` assume `RunsWithinTTL`, `StagedReady` nothing;
`TrustHasLines` that no server starts out pinned.
`DistinctAssumption` says that removing duplicates from an input list gives a list of servers: `Distinct` is a
fold, what it computes for every list needs induction over data, which the installed provers cannot instantiate;
TLC evaluates it for the lists of every run.

**Only model-checked:** liveness (`EveryJobEnds`, `LeaderReturns`, `SlotsReturn`, `UpdatesEnd`, `CacheSettles`,
`PageCatchesUp`, `PollsSettle`), which needs fairness and `ENABLED`, and the order of versions
(`SemverIsTheOrder`), which TLC evaluates against a rank over all pairs of a sample. Every other property that a
passing run checks is a theorem.

## 5. Not modelled

- **Data.** Schemas, signing and wording of the panel client, validation, configuration, cryptography, file paths, pages and
  texts are functions of one input without state. The ORM, the database and the network are taken
  as: a query is atomic and may throw, a session may end.
- **Time.** A timer may fire at any moment after it is set. `createdAt` is taken to grow with creation, so two jobs of the
  same millisecond are in the order of their creation. The age of a reading (`overview.ts`) is left out, as is memory, which
  is judged as the disk is.
- **Election.** Inside `tryBecomeLeader` the connect and the lock query are one round trip.
- **Accounts.** Passwords and the change of one's own.
- **Self-update.** The way a panel is installed, a checkout or releases under a link, does not change in a behaviour,
  while the deployment mode in the settings may; a `stage()` in a mode that is not that of the installation is left out.
  The repository settings and the override of a missing `pg_dump` are not read by any property.
- **Fleet.** The pin of the application's own panel, which follows the same course; the journal lines of a refresh; the four
  counts of `overview.ts:92`, which are not read in one transaction; the order and labels of the page.
- **Live.** A connection or stream that dies without either side being told.
- **Lists and views.** `normalizeSearch` (a search is one of `Terms`), a hidden browser tab, typing while a dialog
  covers the page, more than one changing call at a time; the buttons of a project's row are free a little sooner than in
  the code. Journal lines are kept for the action under way. The file browser is rendered on the server and keeps nothing.
- **Notices and the job page.** A list of messages, a poll of one build id, and a page that is refreshed while its job runs.

## 6. Plan

In this order, the most important behaviour first:

1. `JobQueue`, `Leadership`, `LeaderJobs`, `PanelGate` with `PanelBudget`: done.
2. `Accounts` (users, the last-admin rule, sessions, the journal and the shapes of the server actions): done, except
   passwords.
3. `PanelWork` (what single actions do besides their shape), `Lists` and `Views`: done.
4. `SelfUpdate` over `Semver`: done.
5. `Fleet` (polls, refreshes, edits and pins) and `Live` (from a poll to the page): done.
6. Proofs: every safety property of the runs, done. Next: that a step which a liveness property waits for is not taken away before it
   is taken, stated by its guard and without `ENABLED`; `Distinct` for every list should induction become available.
7. Two changing calls at a time in `Lists`.
