----------------------------- MODULE SelfUpdate -----------------------------
(***************************************************************************)
(* How the panel updates itself: the actions of src/src/server/actions/    *)
(* updates.ts and the buttons that call them, the update in place of       *)
(* src/src/lib/deploy/git.ts and scripts/git-self-update.ts, and the       *)
(* staged releases of src/src/lib/deploy/aapanel.ts.                       *)
(*                                                                         *)
(* A tab of the browser shows the page as it read it last, which may be    *)
(* old, and has one button pressed at a time.  The request that button     *)
(* sent lives in the web process and dies with it, but not with the tab:   *)
(* when the answer is lost or the page is loaded again the tab is idle and *)
(* the request goes on, so even one tab may have several.  A runner of a   *)
(* git update is a process of its own.  Files, rows of the database and    *)
(* what the web process runs each survive another fault.                   *)
(***************************************************************************)
EXTENDS Semver

CONSTANTS
    Admins,         \* tabs with the update page open
    Requests,       \* stage, activate and rollback requests the web process may have at once
    Runners,        \* detached runners that may be alive at once
    Releases,       \* what GitHub lists: [version, prerelease, bundle, checksum]
    First,          \* the version installed at the start
    Modes,          \* ways to install and to deploy that are considered (deploymentMode)
    RunsWithinTTL,  \* whether a runner ends before its lock is old (UPDATE_LOCK_TTL_MS)
    MaxPresses,     \* bound: buttons pressed in a behaviour
    MaxFaults       \* bound: failed steps, killed runners and reboots in a behaviour

Versions == {r.version : r \in Releases}
NoVersion == Unparsable
VersionOrNone == Versions \cup {NoVersion}

ASSUME SelfUpdateAssumption ==
    /\ First \in Versions /\ NoVersion \notin Versions
    /\ Modes \subseteq {"git", "aapanel"}
    /\ RunsWithinTTL \in BOOLEAN /\ MaxPresses \in Nat /\ MaxFaults \in Nat
    /\ LatestStable(Releases) \in Stable(Releases)

\* What stage() and swapAndRestart() have reached; a tab awaits the answer of either
\* ("staging", "applying") or the version that is to come up.
StagePc == {"download", "verify", "clear", "extract", "remove", "rename", "carry", "backup",
            "migrate", "mark"}
SwapPc == {"locate", "swap", "record", "restart"}
RequestPc == StagePc \cup SwapPc \cup {"idle"}
Phases == {"idle", "staging", "applying", "waiting"}
UpdateSteps == <<"download", "install", "migrate", "build", "restart">>
RunnerPc == {"off", "start", "reads", "finish", "building", "history"} \cup {UpdateSteps[i] : i \in 1..5}

VARIABLES
    settings,   \* UpdateSettings: mode, self (restart configured), staged, previous
    installed,  \* version of the newest VersionHistory row
    migrated,   \* versions whose migrations the database has
    install,    \* what aaPanel starts: a checkout ("git") or a release ("aapanel")
    running,    \* what the web process runs; NoVersion when what it booted does not start
    lock,       \* .update.lock: "free", "corrupt", or its age "fresh" / "stale"
    status,     \* .update.status: target, current step, state
    tree,       \* the version checked out
    built,      \* the version whose build .next holds, NoVersion when it is not complete
    runner,     \* the runners: at, kind, target, previous
    tarball,    \* releases whose downloaded bundle is "none", "part" or "full"
    partial,    \* <release>.partial: "none", "part" or "full"
    release,    \* releases/<version>: "none", "part" or "full"
    config,     \* releases that have their .env
    link,       \* target of `current`
    disturbed,  \* history: versions staged again while they were in use
    at,         \* requests: what they have reached
    flow,       \* requests: version, previousVersion of swapAndRestart, the tabs that await
                \* the answer, the versions of the requests there were beside it
    tab,        \* tabs: their phase
    page,       \* tabs: running version and settings as the page shows them
    presses,
    faults

gitVars == <<lock, status, tree, built, runner>>
fileVars == <<tarball, partial, release, config, link, disturbed>>
rowVars == <<settings, installed, migrated>>
webVars == <<install, running>>
requestVars == <<at, flow>>
tabVars == <<tab, page, presses>>
vars == <<rowVars, webVars, gitVars, fileVars, requestVars, tabVars, faults>>

Off == [at |-> "off", kind |-> "update", target |-> NoVersion, previous |-> NoVersion]
FreshSettings(mode) == [mode |-> mode, self |-> TRUE, staged |-> NoVersion, previous |-> NoVersion]
NoFlow == [version |-> NoVersion, before |-> NoVersion, tab |-> {}, beside |-> {}]
NoStatus == [target |-> NoVersion, current |-> "none", state |-> "none"]

Init ==
    /\ install \in Modes /\ settings = FreshSettings(install)
    /\ installed = First /\ migrated = {First} /\ running = First
    /\ lock = "free" /\ status = NoStatus /\ tree = First /\ built = First
    /\ runner = [r \in Runners |-> Off]
    /\ tarball = [v \in Versions |-> "none"] /\ partial = tarball
    /\ release = [v \in Versions |-> IF v = First THEN "full" ELSE "none"]
    /\ config = {First} /\ link = First /\ disturbed = {}
    /\ at = [q \in Requests |-> "idle"] /\ flow = [q \in Requests |-> NoFlow]
    /\ tab = [a \in Admins |-> "idle"]
    /\ page = [a \in Admins |-> [current |-> First, row |-> settings]]
    /\ presses = 0 /\ faults = 0

Fault == faults < MaxFaults /\ faults' = faults + 1
Press == presses < MaxPresses /\ presses' = presses + 1
Live(r) == runner[r].at # "off"
Open(q) == at[q] # "idle"

\* Of the runners and requests that are free, whichever: they are only names.
FreeRunner(r) == ~Live(r) /\ r = CHOOSE s \in Runners : ~Live(s)
FreeRequest(q) == ~Open(q) /\ q = CHOOSE p \in Requests : ~Open(p)

Latest == LatestStable(Releases)
Listing(version) == CHOOSE r \in Releases : r.version = version

Complete(version) == release[version] = "full" /\ version \in config

\* What a start of the web process gives: a tree whose build is complete, or
\* the release that `current` names, unpacked and configured.
Boot ==
    IF install = "git" THEN IF built = tree THEN tree ELSE NoVersion
    ELSE IF Complete(link) THEN link ELSE NoVersion

\* The web process stops: its requests die.  A tab that was applying an update, and
\* those in `asking`, take the lost connection for the restart and wait; one that
\* was staging reports the error.
RequestsDie(asking) ==
    /\ at' = [q \in Requests |-> "idle"] /\ flow' = [q \in Requests |-> NoFlow]
    /\ tab' = [a \in Admins |-> IF a \in asking \/ tab[a] = "applying" THEN "waiting"
                                ELSE IF tab[a] = "staging" THEN "idle" ELSE tab[a]]

(***************************************************************************)
(* The page and its actions.                                               *)
(***************************************************************************)

\* The newest entry of the history, appended to only when it differs.
RecordVersionIfNew(version) == installed' = version

\* Every visit of the page, and every refresh after a button, records the running
\* version and shows the row as it is; a tab that was busy and is loaded again leaves
\* its request to itself.
Leaves(a) == flow' = [q \in Requests |-> [flow[q] EXCEPT !.tab = @ \ {a}]]
ViewStatus(a) ==
    /\ running # NoVersion
    /\ RecordVersionIfNew(running)
    /\ tab' = [tab EXCEPT ![a] = "idle"]
    /\ page' = [page EXCEPT ![a] = [current |-> running, row |-> settings]]
    /\ Leaves(a)
    /\ UNCHANGED <<settings, migrated, webVars, gitVars, fileVars, at, presses, faults>>

\* A connection breaks: staging is over for the tab, a restart is taken to be on its way.
AnswerLost(a) ==
    /\ tab[a] \in {"staging", "applying"}
    /\ tab' = [tab EXCEPT ![a] = IF @ = "staging" THEN "idle" ELSE "waiting"]
    /\ Leaves(a)
    /\ UNCHANGED <<rowVars, webVars, gitVars, fileVars, at, page, presses, faults>>

\* The deployment mode may be changed, and the target of the self-restart cleared or
\* filled in, at any time; what is staged and what was active before stay in the row.
SaveRow(mode, self) == settings' = [settings EXCEPT !.mode = mode, !.self = self]
SaveSettings ==
    /\ running # NoVersion
    /\ \E mode \in Modes, self \in BOOLEAN : SaveRow(mode, self)
    /\ Press
    /\ UNCHANGED <<installed, migrated, webVars, gitVars, fileVars, requestVars, tab, page, faults>>

\* What an idle tab offers, by the row as it shows it, where the panel is installed so.
Offered(a, mode) ==
    /\ running # NoVersion /\ tab[a] = "idle"
    /\ page[a].row.mode = mode /\ page[a].row.self /\ install = mode

\* The server reads the row again.
Accepted(mode) == settings.mode = mode /\ settings.self

\* A request begins; it and every other one now have each other's version beside them.
Begins(a, q, where, phase, version) ==
    LET others == {p \in Requests : Open(p)}
    IN  /\ FreeRequest(q) /\ Press
        /\ at' = [at EXCEPT ![q] = where]
        /\ tab' = [tab EXCEPT ![a] = phase]
        /\ flow' = [p \in Requests |->
                       IF p = q THEN [version |-> version, before |-> NoVersion, tab |-> {a},
                                      beside |-> {flow[o].version : o \in others}]
                       ELSE IF Open(p) THEN [flow[p] EXCEPT !.beside = @ \cup {version}]
                       ELSE flow[p]]

\* A request answers: its tab, if it still waits, goes to the next phase.
Answers(q, phase) ==
    /\ at' = [at EXCEPT ![q] = "idle"] /\ flow' = [flow EXCEPT ![q] = NoFlow]
    /\ tab' = [a \in Admins |-> IF a \in flow[q].tab THEN phase ELSE tab[a]]

\* Wrong on purpose: staleness the wrong way round.
AcquirableUnlessStale == lock # "stale"

\* acquireUpdateLock is one piece of synchronous code: only a death inside it,
\* after the file was made and before it was filled, leaves a corrupt lock.
Acquirable == lock # "fresh"
Spawn(r, kind, target) ==
    runner' = [runner EXCEPT ![r] = [Off EXCEPT !.at = "start", !.kind = kind, !.target = target]]
Release == lock' = "free"   \* whoever has it

LaunchGit(a, r, kind, target) ==
    /\ Accepted("git")
    /\ Acquirable /\ FreeRunner(r) /\ Press
    /\ \/ /\ lock' = "fresh"
          /\ Spawn(r, kind, target)
          /\ tab' = [tab EXCEPT ![a] = "waiting"]
          /\ UNCHANGED <<running, requestVars, faults>>
       \/ /\ Fault   \* the spawn throws, and the lock is let go
          /\ Release
          /\ UNCHANGED <<running, runner, requestVars, tab>>
       \/ /\ Fault   \* the web process dies between open and write
          /\ lock = "free" /\ lock' = "corrupt"
          /\ RequestsDie({a}) /\ running' = Boot
          /\ UNCHANGED runner
    /\ UNCHANGED <<rowVars, install, status, tree, built, fileVars, page>>

GitUpdate(a, r) ==
    /\ Offered(a, "git")
    /\ IsNewer(Latest.version, page[a].current) /\ IsNewer(Latest.version, running)
    /\ LaunchGit(a, r, "update", Latest.version)

\* The version to go back to is the one the page shows.
GitRollback(a, r) ==
    /\ Offered(a, "git")
    /\ page[a].row.previous # NoVersion
    /\ LaunchGit(a, r, "rollback", page[a].row.previous)

\* waitForVersion: the target answers, or the deadline has passed.
WaitEnds(a) ==
    /\ tab[a] = "waiting"
    /\ tab' = [tab EXCEPT ![a] = "idle"]
    /\ UNCHANGED <<rowVars, webVars, gitVars, fileVars, requestVars, page, presses, faults>>

(***************************************************************************)
(* The runner of a git update.                                             *)
(***************************************************************************)
Reports(r, step, state) ==
    status' = [target |-> runner[r].target, current |-> step, state |-> state]
Track(r, step) == Reports(r, step, "running")
Step(r, from, to) == runner[r].at = from /\ runner' = [runner EXCEPT ![r].at = to]
OnlyRunner == UNCHANGED <<settings, install, fileVars, requestVars, tabVars>>

\* The step its own status names, and markFailed leaves there.
Tracked(r) ==
    CASE runner[r].at \in {"start", "reads"} -> "none"
      [] runner[r].at \in {"building", "history"} -> "build"
      [] runner[r].at = "finish" -> "restart"
      [] OTHER -> runner[r].at

\* Before anything else the page is told that an update runs, at no step yet.
RunnerStarts(r) ==
    /\ Step(r, "start", "reads") /\ Track(r, "none")
    /\ UNCHANGED <<installed, migrated, running, lock, tree, built, faults>> /\ OnlyRunner

\* The version it will record as the one before is that of the tree it starts
\* from: package.json as it is then.
RunnerReads(r) ==
    /\ runner[r].at = "reads" /\ settings.self
    /\ runner' = [runner EXCEPT ![r].at = "download", ![r].previous = tree]
    /\ Track(r, "download")
    /\ UNCHANGED <<installed, migrated, running, lock, tree, built, faults>> /\ OnlyRunner

Checkout(r) ==
    /\ Step(r, "download", "install") /\ Track(r, "install")
    /\ tree' = runner[r].target
    /\ UNCHANGED <<installed, migrated, running, lock, built, faults>> /\ OnlyRunner

Install(r) ==
    /\ Step(r, "install", "migrate") /\ Track(r, "migrate")
    /\ UNCHANGED <<installed, migrated, running, lock, tree, built, faults>> /\ OnlyRunner

\* A build starts by removing the last one.
Migrate(r) ==
    /\ Step(r, "migrate", "building") /\ Track(r, "build")
    /\ migrated' = migrated \cup {tree}
    /\ built' = NoVersion
    /\ UNCHANGED <<installed, running, lock, tree, faults>> /\ OnlyRunner

Build(r) ==
    /\ Step(r, "building", "history")
    /\ built' = tree
    /\ UNCHANGED <<installed, migrated, running, lock, status, tree, faults>> /\ OnlyRunner

\* Wrong on purpose: the staged version is not cleared.
ActivationKeepsStaged(version, previous) ==
    /\ settings' = [settings EXCEPT !.previous = previous]
    /\ installed' = version

\* recordActivation: one transaction on the settings and the history.
Activation(version, previous) ==
    /\ settings' = [settings EXCEPT !.previous = previous, !.staged = NoVersion]
    /\ installed' = version

RecordHistory(r) ==
    /\ Step(r, "history", "restart") /\ Track(r, "restart")
    /\ Activation(runner[r].target, runner[r].previous)
    /\ UNCHANGED <<migrated, webVars, lock, tree, built, fileVars, requestVars, tabVars, faults>>

\* The own panel restarts the project; its answer may be lost.
RunnerRestarts(r) ==
    /\ Step(r, "restart", "finish")
    /\ running' = Boot /\ RequestsDie({})
    /\ UNCHANGED <<rowVars, install, lock, status, tree, built, fileVars, page, presses, faults>>

RunnerFinishes(r) ==
    /\ Step(r, "finish", "off")
    /\ Reports(r, "none", "done")
    /\ Release
    /\ UNCHANGED <<installed, migrated, running, tree, built, faults>> /\ OnlyRunner

\* Any step may throw: markFailed, then finally lets the lock go, whoever has it.  A
\* restart target that is not configured is found when the settings are read.
RunnerFails(r) ==
    /\ Live(r) /\ runner[r].at # "start"
    /\ IF runner[r].at = "reads" /\ ~settings.self THEN UNCHANGED faults ELSE Fault
    /\ runner' = [runner EXCEPT ![r] = Off]
    /\ Reports(r, Tracked(r), "failed")
    /\ Release
    /\ UNCHANGED <<installed, migrated, running, tree, built>> /\ OnlyRunner

\* A kill, or a checkout or a status file that fails it at its start, leaves the lock.
RunnerKilled(r) ==
    /\ Live(r) /\ Fault
    /\ runner' = [runner EXCEPT ![r] = Off]
    /\ UNCHANGED <<installed, migrated, running, lock, status, tree, built>> /\ OnlyRunner

\* Wrong on purpose: a lock without a time to live.
LockNeverAges == FALSE /\ UNCHANGED vars

LockAges ==
    /\ lock = "fresh"
    /\ RunsWithinTTL => \A r \in Runners : ~Live(r)
    /\ lock' = "stale"
    /\ UNCHANGED <<rowVars, webVars, status, tree, built, runner, fileVars, requestVars, tabVars,
                   faults>>

(***************************************************************************)
(* Staging a release: every step of stage() that leaves something behind.  *)
(* Nothing keeps two of them, or one and a swap, from running at once.     *)
(***************************************************************************)
OnlyFiles == UNCHANGED <<rowVars, webVars, gitVars, flow, tabVars, faults>>
Goes(q, from, to) == at[q] = from /\ at' = [at EXCEPT ![q] = to]

\* Some other request was for the same version, so its files were not its own.
Shared(q) == flow[q].version \in flow[q].beside
Left(q) == IF Shared(q) THEN {"part", "full"} ELSE {"full"}

HasBundle(r) == r.bundle

\* Something may still go (back) to this version: a row, a page, a link, a process.
InUse(version) ==
    \/ version \in {settings.staged, settings.previous, link, running}
    \/ \E a \in Admins : version = page[a].row.previous
    \/ \E q \in Requests : Open(q) /\ version \in {flow[q].version, flow[q].before}

\* The page offers a release newer than the version it shows, if it shows none staged;
\* the server looks for the release alone, not at what is staged or running by now.
StageBegins(a, q) ==
    /\ Offered(a, "aapanel") /\ settings.mode = "aapanel"
    /\ page[a].row.staged = NoVersion
    /\ \E r \in Stable(Releases) :
          /\ IsNewer(r.version, page[a].current) /\ HasBundle(r)
          /\ Begins(a, q, "download", "staging", r.version)
          /\ tarball' = [tarball EXCEPT ![r.version] = "part"]
          /\ disturbed' = IF InUse(r.version) THEN disturbed \cup {r.version}
                          ELSE disturbed \ {r.version}
    /\ UNCHANGED <<rowVars, webVars, gitVars, partial, release, config, link, page, faults>>

Download(q) ==
    /\ Goes(q, "download", "verify")
    /\ \E file \in Left(q) : tarball' = [tarball EXCEPT ![flow[q].version] = file]
    /\ UNCHANGED <<partial, release, config, link, disturbed>> /\ OnlyFiles

VerifyChecksum(q) ==
    /\ Goes(q, "verify", "clear")
    /\ Listing(flow[q].version).checksum => tarball[flow[q].version] = "full"
    /\ UNCHANGED fileVars /\ OnlyFiles

ClearPartial(q) ==
    /\ Goes(q, "clear", "extract")
    /\ partial' = [partial EXCEPT ![flow[q].version] = "part"]
    /\ UNCHANGED <<tarball, release, config, link, disturbed>> /\ OnlyFiles

Extract(q) ==
    /\ Goes(q, "extract", "remove")
    /\ tarball[flow[q].version] = "full"
    /\ \E files \in Left(q) : partial' = [partial EXCEPT ![flow[q].version] = files]
    /\ UNCHANGED <<tarball, release, config, link, disturbed>> /\ OnlyFiles

RemoveOld(q) ==
    /\ Goes(q, "remove", "rename")
    /\ release' = [release EXCEPT ![flow[q].version] = "none"]
    /\ config' = config \ {flow[q].version}
    /\ UNCHANGED <<tarball, partial, link, disturbed>> /\ OnlyFiles

\* A directory that is there again is not replaced.
RenamePartial(q) ==
    /\ Goes(q, "rename", "carry")
    /\ partial[flow[q].version] # "none" /\ release[flow[q].version] = "none"
    /\ release' = [release EXCEPT ![flow[q].version] = partial[flow[q].version]]
    /\ partial' = [partial EXCEPT ![flow[q].version] = "none"]
    /\ UNCHANGED <<tarball, config, link, disturbed>> /\ OnlyFiles

\* The .env is that of the running release.  When there is none the configuration is
\* taken to come from the environment, also if the running release has just lost it.
CarryEnvFile(q) ==
    /\ Goes(q, "carry", "backup")
    /\ release[flow[q].version] # "none"
    /\ IF running \in config
       THEN config' = config \cup {flow[q].version} /\ UNCHANGED disturbed
       ELSE disturbed' = disturbed \cup {flow[q].version} /\ UNCHANGED config
    /\ UNCHANGED <<tarball, partial, release, link>> /\ OnlyFiles

BackupDb(q) ==
    /\ Goes(q, "backup", "migrate")
    /\ UNCHANGED fileVars /\ OnlyFiles

\* Wrong on purpose: the migrations of the release that is running.
RunOwnMigrations(q) ==
    /\ Goes(q, "migrate", "mark")
    /\ release[flow[q].version] # "none"
    /\ migrated' = migrated \cup {running}
    /\ UNCHANGED <<settings, installed, webVars, gitVars, fileVars, flow, tabVars, faults>>

\* A release that is not whole may still have enough of itself to apply some of them.
RunMigrations(q) ==
    /\ Goes(q, "migrate", "mark")
    /\ release[flow[q].version] # "none"
    /\ migrated' = IF release[flow[q].version] = "full" THEN migrated \cup {flow[q].version}
                   ELSE migrated
    /\ UNCHANGED <<settings, installed, webVars, gitVars, fileVars, flow, tabVars, faults>>

\* Alone with its version, a stage() that ends has made it whole again.
SetStagedVersion(version) == settings' = [settings EXCEPT !.staged = version]
MarkStaged(q) ==
    /\ at[q] = "mark"
    /\ SetStagedVersion(flow[q].version)
    /\ Answers(q, "idle")
    /\ tarball' = [tarball EXCEPT ![flow[q].version] = "none"]
    /\ disturbed' = IF Shared(q) \/ flow[q].version \notin config THEN disturbed
                    ELSE disturbed \ {flow[q].version}
    /\ UNCHANGED <<installed, migrated, webVars, gitVars, partial, release, config, link, page,
                   presses, faults>>

\* What another request has done to its files makes a step throw.
Thwarted(q) ==
    LET version == flow[q].version
    IN  \/ at[q] \in {"verify", "extract"} /\ tarball[version] # "full"
        \/ at[q] = "rename" /\ (partial[version] = "none" \/ release[version] # "none")
        \/ at[q] = "carry" /\ release[version] = "none"
        \/ at[q] = "migrate" /\ release[version] # "full"

\* Whatever throws ends the request; a failed download removes its file.
RequestFails(q) ==
    /\ Open(q)
    /\ IF Thwarted(q) THEN UNCHANGED faults ELSE Fault
    /\ Answers(q, "idle")
    /\ tarball' = IF at[q] = "download" THEN [tarball EXCEPT ![flow[q].version] = "none"] ELSE tarball
    /\ UNCHANGED <<rowVars, webVars, gitVars, partial, release, config, link, disturbed, page, presses>>

(***************************************************************************)
(* Activation and rollback: swapAndRestart().                              *)
(***************************************************************************)

\* The page shows that something is staged; the server takes what is staged now.
Activate(a, q) ==
    /\ Offered(a, "aapanel") /\ Accepted("aapanel")
    /\ page[a].row.staged # NoVersion /\ settings.staged # NoVersion
    /\ Begins(a, q, "locate", "applying", settings.staged)
    /\ UNCHANGED <<rowVars, webVars, gitVars, fileVars, page, faults>>

\* The version to go back to is the one the page shows.
Rollback(a, q) ==
    /\ Offered(a, "aapanel") /\ Accepted("aapanel")
    /\ page[a].row.previous # NoVersion
    /\ Begins(a, q, "locate", "applying", page[a].row.previous)
    /\ UNCHANGED <<rowVars, webVars, gitVars, fileVars, page, faults>>

\* The release must be a directory; `current` as it is names the version before.
Locate(q) ==
    /\ at[q] = "locate"
    /\ IF release[flow[q].version] # "none"
       THEN /\ Goes(q, "locate", "swap")
            /\ flow' = [flow EXCEPT ![q].before = link]
            /\ UNCHANGED tab
       ELSE Answers(q, "idle")
    /\ UNCHANGED <<rowVars, webVars, gitVars, fileVars, page, presses, faults>>

SwapSymlink(q) ==
    /\ Goes(q, "swap", "record")
    /\ link' = flow[q].version
    /\ UNCHANGED <<tarball, partial, release, config, disturbed>> /\ OnlyFiles

RecordActivation(q) ==
    /\ Goes(q, "record", "restart")
    /\ Activation(flow[q].version, flow[q].before)
    /\ UNCHANGED <<migrated, webVars, gitVars, fileVars, flow, tabVars, faults>>

Restart(q) ==
    /\ at[q] = "restart"
    /\ RequestsDie({}) /\ running' = Boot
    /\ UNCHANGED <<rowVars, install, gitVars, fileVars, page, presses, faults>>

\* The web process dies, or the server reboots, and it is started again.
Reboot ==
    /\ Fault
    /\ RequestsDie({}) /\ running' = Boot
    /\ UNCHANGED <<rowVars, install, gitVars, fileVars, page, presses>>

(***************************************************************************)
(* The specification.                                                      *)
(***************************************************************************)
RunnerStep(r) ==
    \/ RunnerStarts(r) \/ RunnerReads(r) \/ Checkout(r) \/ Install(r) \/ Migrate(r) \/ Build(r)
    \/ RecordHistory(r) \/ RunnerRestarts(r) \/ RunnerFinishes(r) \/ RunnerFails(r)

Stage(q) ==
    \/ Download(q) \/ VerifyChecksum(q) \/ ClearPartial(q) \/ Extract(q) \/ RemoveOld(q)
    \/ RenamePartial(q) \/ CarryEnvFile(q) \/ BackupDb(q) \/ RunMigrations(q) \/ MarkStaged(q)

SwapAndRestart(q) == Locate(q) \/ SwapSymlink(q) \/ RecordActivation(q) \/ Restart(q)

RequestStep(q) == Stage(q) \/ SwapAndRestart(q) \/ RequestFails(q)

Next ==
    \/ SaveSettings \/ LockAges \/ Reboot
    \/ \E r \in Runners : RunnerStep(r) \/ RunnerKilled(r)
    \/ \E q \in Requests : RequestStep(q)
    \/ \E a \in Admins :
          \/ ViewStatus(a) \/ AnswerLost(a) \/ WaitEnds(a)
          \/ \E q \in Requests : StageBegins(a, q) \/ Activate(a, q) \/ Rollback(a, q)
          \/ \E r \in Runners : GitUpdate(a, r) \/ GitRollback(a, r)

\* Processes, timers and the clock go on; nobody has to press a button.
Fairness ==
    /\ \A r \in Runners : WF_vars(RunnerStep(r))
    /\ \A q \in Requests : WF_vars(RequestStep(q))
    /\ \A a \in Admins : WF_vars(WaitEnds(a))
    /\ WF_vars(LockAges)

Spec == Init /\ [][Next]_vars
FairSpec == Spec /\ Fairness

(***************************************************************************)
(* Properties.                                                             *)
(***************************************************************************)

\* The types of the state.
Row == [mode : Modes, self : BOOLEAN, staged : VersionOrNone, previous : VersionOrNone]
SelfUpdateTypeOK ==
    /\ settings \in Row
    /\ installed \in Versions /\ migrated \subseteq Versions
    /\ install \in Modes /\ running \in VersionOrNone
    /\ lock \in {"free", "corrupt", "fresh", "stale"}
    /\ status \in [target : VersionOrNone, current : {"none"} \cup {UpdateSteps[i] : i \in 1..5},
                   state : {"none", "running", "done", "failed"}]
    /\ tree \in Versions /\ built \in VersionOrNone
    /\ runner \in [Runners -> [at : RunnerPc, kind : {"update", "rollback"},
                               target : VersionOrNone, previous : VersionOrNone]]
    /\ {tarball, partial, release} \subseteq [Versions -> {"none", "part", "full"}]
    /\ config \subseteq Versions /\ link \in Versions /\ disturbed \subseteq Versions
    /\ at \in [Requests -> RequestPc]
    /\ flow \in [Requests -> [version : VersionOrNone, before : VersionOrNone,
                              tab : SUBSET Admins, beside : SUBSET Versions]]
    /\ tab \in [Admins -> Phases]
    /\ page \in [Admins -> [current : Versions, row : Row]]
    /\ presses \in 0..MaxPresses /\ faults \in 0..MaxFaults

\* Two runners never work on the checkout at once, whichever of them were killed
\* and whoever's lock is let go or taken over (acquireUpdateLock, releaseUpdateLock).
OneRunner == \A r, s \in Runners : Live(r) /\ Live(s) => r = s

\* What is offered for activation is unpacked, configured and migrated, after any
\* failed or killed stage() before it and beside any other request: setStagedVersion
\* is its last step.  Except when the same version was staged once more meanwhile,
\* which takes its directory away first and leaves the marker where it is.
StagedIsReady ==
    settings.staged # NoVersion /\ settings.staged \notin disturbed =>
        Complete(settings.staged) /\ settings.staged \in migrated

\* The checklist of the page, from the status file (deriveStepStates).
Checklist(i) ==
    LET steps == {j \in 1..5 : UpdateSteps[j] = status.current}
    IN  IF status.state = "done" \/ \E j \in steps : i < j THEN "done"
        ELSE IF i \notin steps THEN "pending"
        ELSE IF status.state = "failed" THEN "failed" ELSE "running"

\* A step ticked off is done, from when the tick appears until another update begins:
\* the database has the migrations, the tree is checked out and built, and the web
\* process runs it.
ChecklistIsTrue ==
    /\ Checklist(3) = "done" => status.target \in migrated
    /\ Checklist(4) = "done" => tree = status.target /\ built = status.target
    /\ Checklist(5) = "done" => running = status.target

\* What the page says of an update is so, whatever failed or was killed: the version
\* offered for activation is ready, and the steps ticked off are done.
ShownIsTrue == StagedIsReady /\ ChecklistIsTrue

\* A restart that an update asks for boots what it is to boot, because the restart is
\* the last step of both pipelines.  A runner boots its target, with its migrations
\* applied and a version to go back to.  A request boots what `current` names, which is
\* migrated, and has a version to go back to, unless that was staged again meanwhile;
\* if no other request was beside it, that is the version it is for and nothing is
\* left staged.
RestartIsConsistent ==
    [][ /\ \A r \in Runners : runner[r].at = "restart" /\ runner'[r].at = "finish" =>
             /\ running' = runner[r].target /\ runner[r].target \in migrated
             /\ settings.previous # NoVersion
        /\ \A q \in Requests : at[q] = "restart" /\ at'[q] = "idle" /\ faults' = faults =>
             /\ link \notin disturbed => running' = link /\ link \in migrated
             /\ settings.previous # NoVersion
             /\ flow[q].beside = {} => link = flow[q].version /\ settings.staged = NoVersion ]_vars

\* A tab always becomes usable again, and a lock always stops to block updates,
\* whatever dies while it waits or holds (waitForVersion, UPDATE_LOCK_TTL_MS).
UpdatesEnd ==
    /\ \A a \in Admins : tab[a] # "idle" ~> tab[a] = "idle"
    /\ lock = "fresh" ~> lock # "fresh"

\* Going back means going to another version: what an activation records as active
\* before it is not the version it activates (recordActivation, the runner's
\* "previous version becomes the rollback target", swapAndRestart).
RollbackGoesBack ==
    [][ /\ \A r \in Runners : runner[r].at = "history" /\ runner'[r].at = "restart"
                                => settings'.previous # runner[r].target
        /\ \A q \in Requests : at[q] = "record" /\ at'[q] = "restart"
                                => settings'.previous # flow[q].version ]_vars

=============================================================================
