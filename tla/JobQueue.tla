------------------------------ MODULE JobQueue ------------------------------
(***************************************************************************)
(* The bulk-job queue, src/src/lib/jobs/queue.ts with the worker pool of   *)
(* src/src/lib/utils/concurrency.ts.                                       *)
(*                                                                         *)
(* A job and its items are rows of the database (job, itemStatus,          *)
(* itemServer).  A thread is one chain of drain() calls in some process:   *)
(* it reaps what an earlier process left running, then claims pending jobs *)
(* one at a time.  run[j] and worker[j] are the local variables of         *)
(* runClaimedJob(j); a job is claimed at most once, so they are indexed by *)
(* the job.  Every database call and every panel call is a step of its     *)
(* own; the code between two awaits belongs to the step before it.         *)
(*                                                                         *)
(* Spec lets any number of threads be alive together, as after a handover  *)
(* of leadership in which the old leader still lives; SoleSpec admits a    *)
(* new thread only when no other one is left.                              *)
(***************************************************************************)
EXTENDS Naturals, Sequences, FiniteSets, SequencesExt

CONSTANTS
    Jobs,              \* identities of the jobs that can be created
    Servers,           \* servers known to the app at the start
    NoServer,          \* serverId null: the server row was deleted
    Threads,           \* chains of drain() calls
    NoThread,          \* nobody has claimed the job
    InputLists,        \* serverIds a caller may pass to createJob
    MaxServersPerJob,  \* DEFAULT_MAX_SERVERS_PER_JOB
    Concurrency,       \* WORKER_CONCURRENCY
    RetiredJobs,       \* jobs whose kind the running build no longer knows
    MaxDbErrors,       \* bound: database calls that throw in a behaviour
    MaxExits,          \* bound: threads that end, stopped or killed, in a behaviour
    MaxDeletions       \* bound: servers deleted in a behaviour

ASSUME JobQueueAssumption ==
    /\ NoServer \notin Servers
    /\ NoThread \notin Threads
    /\ InputLists \subseteq Seq(Servers)
    /\ MaxServersPerJob \in Nat \ {0}
    /\ Concurrency \in Nat \ {0}
    /\ RetiredJobs \subseteq Jobs
    /\ MaxDbErrors \in Nat
    /\ MaxExits \in Nat
    /\ MaxDeletions \in Nat

Positions == 1 .. MaxServersPerJob
Workers == 1 .. Concurrency
CanaryWorker == 1

Terminal == {"succeeded", "failed", "cancelled"}
JobStatus == {"absent", "pending", "running"} \cup Terminal
ItemStatus == {"absent", "pending", "running", "succeeded", "failed", "skipped"}

\* Where a claimed job's runClaimedJob stands.
Phase == {"none", "load", "canary", "fanout", "sweep", "skip", "count",
          "finish", "journal", "retire", "retireItems", "done", "thrown", "lost"}
Over == {"done", "thrown", "lost"}

\* Where one call of runItem stands; "next" is the worker loop of mapLimit.
WorkerAt == {"off", "next", "check", "mark", "creds", "panel", "record", "regret"}

ThreadAt == {"off", "reap", "reapItems", "reapSkip", "reapJobs",
             "ready", "found", "running", "idle"}

VARIABLES
    servers,     \* rows of Server
    created,     \* jobs in the order of createdAt
    job,         \* rows of Job
    itemServer,  \* JobItem.serverId, in position order
    itemStatus,  \* JobItem.status
    run,         \* locals of runClaimedJob
    worker,      \* locals of the runItem calls
    thread,      \* the drain chains
    did,         \* history: what happened on each item's server
    late,        \* history: servers touched after a halt, after a cancel
    journal,     \* the audit line of each job
    faults       \* how much of each bound is spent

rows == <<servers, created, job, itemServer, itemStatus>>
runs == <<run, worker>>
history == <<did, late, journal>>
vars == <<rows, runs, thread, history, faults>>

NoRun == [phase |-> "none", owner |-> NoThread, items |-> <<>>, halted |-> FALSE,
          cursor |-> 2, cancelled |-> FALSE, failures |-> 0]
IdleWorker == [at |-> "off", pos |-> 1, ok |-> FALSE]
NoWork == [at |-> "off", job |-> {}]
NoLine == [succeeded |-> 0, result |-> "none"]

Init ==
    /\ servers = Servers
    /\ created = <<>>
    /\ job = [j \in Jobs |-> [status |-> "absent", cancel |-> FALSE, stop |-> TRUE]]
    /\ itemServer = [j \in Jobs |-> <<>>]
    /\ itemStatus = [j \in Jobs |-> [i \in Positions |-> "absent"]]
    /\ run = [j \in Jobs |-> NoRun]
    /\ worker = [j \in Jobs |-> [w \in Workers |-> IdleWorker]]
    /\ thread = [t \in Threads |-> NoWork]
    /\ did = [j \in Jobs |-> [i \in Positions |-> "no"]]
    /\ late = [j \in Jobs |-> [halt |-> 0, cancel |-> 0]]
    /\ journal = [j \in Jobs |-> NoLine]
    /\ faults = [db |-> 0, exits |-> 0, deletions |-> 0]

-----------------------------------------------------------------------------
(* Requests: creating a job, asking it to stop, deleting a server.         *)

\* [...new Set(serverIds)]: the first occurrence of each id, in order.
Distinct(ids) ==
    FoldLeft(LAMBDA acc, s : IF s \in ToSet(acc) THEN acc ELSE Append(acc, s),
             <<>>, ids)

\* Removing duplicates leaves a list of servers.
ASSUME DistinctAssumption == \A ids \in InputLists : Distinct(ids) \in Seq(Servers)

\* createJob: every rejection leaves the database as it was.
CreateJob(j, serverIds, stopOnError) ==
    LET ids == Distinct(serverIds) IN
    /\ job[j].status = "absent"
    /\ Len(ids) \in 1 .. MaxServersPerJob
    /\ ToSet(ids) \subseteq servers
    /\ created' = Append(created, j)
    /\ job' = [job EXCEPT ![j] = [status |-> "pending", cancel |-> FALSE,
                                  stop |-> stopOnError]]
    /\ itemServer' = [itemServer EXCEPT ![j] = ids]
    /\ itemStatus' = [itemStatus EXCEPT ![j] =
            [i \in Positions |-> IF i <= Len(ids) THEN "pending" ELSE "absent"]]
    /\ UNCHANGED <<servers, runs, thread, history, faults>>

RequestCancel(j) ==
    /\ job[j].status \in {"pending", "running"}
    /\ ~job[j].cancel
    /\ job' = [job EXCEPT ![j].cancel = TRUE]
    /\ UNCHANGED <<servers, created, itemServer, itemStatus, runs, thread, history, faults>>

\* Deleting a server sets JobItem.serverId to null (onDelete: SetNull).
DeleteServer(s) ==
    /\ s \in servers
    /\ faults.deletions < MaxDeletions
    /\ faults' = [faults EXCEPT !.deletions = @ + 1]
    /\ servers' = servers \ {s}
    /\ itemServer' = [j \in Jobs |->
            [i \in DOMAIN itemServer[j] |->
                IF itemServer[j][i] = s THEN NoServer ELSE itemServer[j][i]]]
    /\ UNCHANGED <<created, job, itemStatus, runs, thread, history>>

-----------------------------------------------------------------------------
(* Row updates shared by the runner and the reaper.                        *)

\* updateMany over a job's items: every item in status "from" becomes "to".
Turn(status, from, to) ==
    [i \in Positions |-> IF status[i] = from THEN to ELSE status[i]]

Finish(j, status) == job' = [job EXCEPT ![j].status = status]

DbFault ==
    /\ faults.db < MaxDbErrors
    /\ faults' = [faults EXCEPT !.db = @ + 1]

-----------------------------------------------------------------------------
(* runNextJob: claiming.                                                   *)

Move(t, at, jobs) == thread' = [thread EXCEPT ![t] = [at |-> at, job |-> jobs]]

\* findFirst: the oldest pending job.
AnyPending(n) == job[created[n]].status = "pending"
OldestPending(n) ==
    /\ job[created[n]].status = "pending"
    /\ \A m \in 1 .. n - 1 : job[created[m]].status # "pending"

FindJob(t) ==
    /\ thread[t].at = "ready"
    /\ \E n \in DOMAIN created :
        /\ OldestPending(n)
        /\ Move(t, "found", {created[n]})
    /\ UNCHANGED <<rows, runs, history, faults>>

\* Nothing is pending: drain() ends its loop and sets its timer.
FindNothing(t) ==
    /\ thread[t].at = "ready"
    /\ \A j \in Jobs : job[j].status # "pending"
    /\ Move(t, "idle", {})
    /\ UNCHANGED <<rows, runs, history, faults>>

\* The timer of drain() fires.
Wake(t) ==
    /\ thread[t].at = "idle"
    /\ Move(t, "ready", {})
    /\ UNCHANGED <<rows, runs, history, faults>>

\* The conditional update: it changes one row only while the job is pending.
AlwaysClaimable(j) == TRUE
Claimable(j) == job[j].status = "pending"

ClaimJob(t) ==
    /\ thread[t].at = "found"
    /\ \E j \in thread[t].job :
        \/ /\ Claimable(j)
           /\ job' = [job EXCEPT ![j].status = "running"]
           /\ run' = [run EXCEPT ![j].phase = "load", ![j].owner = t]
           /\ Move(t, "running", {j})
        \/ /\ ~Claimable(j)
           /\ Move(t, "idle", {})
           /\ UNCHANGED <<job, run>>
    /\ UNCHANGED <<servers, created, itemServer, itemStatus, worker, history, faults>>

\* runClaimedJob returned and drain() looks for more, or it threw into drain()'s
\* catch and the next look waits for the timer.
RunReturns(t) ==
    /\ thread[t].at = "running"
    /\ \E j \in thread[t].job :
        /\ run[j].phase \in Over
        /\ Move(t, IF run[j].phase = "done" THEN "ready" ELSE "idle", {})
    /\ UNCHANGED <<rows, runs, history, faults>>

-----------------------------------------------------------------------------
(* runClaimedJob.                                                          *)

SetPhase(j, p) == run' = [run EXCEPT ![j].phase = p]

\* cancelRequested
CancelRequested(j) == job[j].cancel

\* The job and its items are read once; the canary's runItem is entered.
LoadJob(j) ==
    /\ run[j].phase = "load"
    /\ \/ /\ j \in RetiredJobs
          /\ SetPhase(j, "retire")
          /\ UNCHANGED worker
       \/ /\ j \notin RetiredJobs
          /\ run' = [run EXCEPT ![j].phase = "canary", ![j].items = itemServer[j]]
          /\ worker' = [worker EXCEPT ![j][CanaryWorker] =
                            [at |-> "check", pos |-> 1, ok |-> FALSE]]
    /\ UNCHANGED <<rows, thread, history, faults>>

\* A kind this build no longer has: the job is closed before its items are.
RetireJob(j) ==
    /\ run[j].phase = "retire"
    /\ Finish(j, "failed")
    /\ SetPhase(j, "retireItems")
    /\ UNCHANGED <<servers, created, itemServer, itemStatus, worker, thread, history, faults>>

RetireItems(j) ==
    /\ run[j].phase = "retireItems"
    /\ itemStatus' = [itemStatus EXCEPT ![j] = Turn(@, "pending", "skipped")]
    /\ SetPhase(j, "done")
    /\ UNCHANGED <<servers, created, job, itemServer, worker, thread, history, faults>>

HaltUnread(j) == FALSE
Halted(j) == run[j].halted

CanaryNotAwaited(j) == TRUE
CanaryDone(j) == worker[j][CanaryWorker].at = "off"

\* if (!halted && rest.length > 0) mapLimit(rest, concurrency, runItem)
Rest(j) == Len(run[j].items) - 1
FansOut(j) == ~Halted(j) /\ Rest(j) > 0

AfterCanary(j) ==
    /\ run[j].phase = "canary"
    /\ CanaryDone(j)
    /\ \/ /\ FansOut(j)
          /\ SetPhase(j, "fanout")
          /\ worker' = [worker EXCEPT ![j] = [w \in Workers |->
                            [@[w] EXCEPT !.at = IF w <= Rest(j) THEN "next" ELSE "off"]]]
       \/ /\ ~FansOut(j)
          /\ SetPhase(j, "sweep")
          /\ UNCHANGED worker
    /\ UNCHANGED <<rows, thread, history, faults>>

\* mapLimit's loop: take the next index, or leave.  A halted run consumes the
\* remaining indices without an await.
MoreItems(j) == run[j].cursor <= Len(run[j].items) /\ ~Halted(j)

NextIndex(j) == run[j].cursor + 1

TakeItem(j, w) ==
    /\ run[j].phase = "fanout"
    /\ worker[j][w].at = "next"
    /\ \/ /\ MoreItems(j)
          /\ worker' = [worker EXCEPT ![j][w] =
                            [at |-> "check", pos |-> run[j].cursor, ok |-> FALSE]]
          /\ run' = [run EXCEPT ![j].cursor = NextIndex(j)]
       \/ /\ ~MoreItems(j)
          /\ worker' = [worker EXCEPT ![j][w].at = "off"]
          /\ UNCHANGED run
    /\ UNCHANGED <<rows, thread, history, faults>>

AfterFanout(j) ==
    /\ run[j].phase = "fanout"
    /\ \A w \in Workers : worker[j][w].at = "off"
    /\ SetPhase(j, "sweep")
    /\ UNCHANGED <<rows, worker, thread, history, faults>>

\* cancelRequested, read again after the last item.
SweepCancel(j) ==
    /\ run[j].phase = "sweep"
    /\ run' = [run EXCEPT ![j].phase = "skip", ![j].cancelled = CancelRequested(j)]
    /\ UNCHANGED <<rows, worker, thread, history, faults>>

LeftPending(status) == status
NeverStarted(status) == Turn(status, "pending", "skipped")

SkipPending(j) ==
    /\ run[j].phase = "skip"
    /\ itemStatus' = [itemStatus EXCEPT ![j] = NeverStarted(@)]
    /\ SetPhase(j, "count")
    /\ UNCHANGED <<servers, created, job, itemServer, worker, thread, history, faults>>

CountFailures(j) ==
    /\ run[j].phase = "count"
    /\ run' = [run EXCEPT ![j].phase = "finish",
                          ![j].failures = Cardinality({i \in Positions : itemStatus[j][i] = "failed"})]
    /\ UNCHANGED <<rows, worker, thread, history, faults>>

Verdict(r) ==
    IF r.cancelled THEN "cancelled" ELSE IF r.failures > 0 THEN "failed" ELSE "succeeded"

FinishJob(j) ==
    /\ run[j].phase = "finish"
    /\ Finish(j, Verdict(run[j]))
    /\ SetPhase(j, "journal")
    /\ UNCHANGED <<servers, created, itemServer, itemStatus, worker, thread, history, faults>>

\* recordAudit: best effort, so the line may be missing.
JournalJob(j) ==
    /\ run[j].phase = "journal"
    /\ SetPhase(j, "done")
    /\ \/ /\ journal' = [journal EXCEPT ![j] =
                [succeeded |-> Len(run[j].items) - run[j].failures,
                 result |-> Verdict(run[j])]]
          /\ UNCHANGED faults
       \/ DbFault /\ UNCHANGED journal
    /\ UNCHANGED <<rows, worker, thread, did, late>>

-----------------------------------------------------------------------------
(* runItem.                                                                *)

Goto(j, w, at) == worker' = [worker EXCEPT ![j][w].at = at]

\* Where control goes when runItem is left: the canary's caller, or mapLimit.
Resume(j) == IF run[j].phase = "canary" THEN "off" ELSE "next"

SetItem(j, w, status) == itemStatus' = [itemStatus EXCEPT ![j][worker[j][w].pos] = status]

CheckCancel(j, w) ==
    /\ worker[j][w].at = "check"
    /\ Goto(j, w, IF CancelRequested(j) THEN Resume(j) ELSE "mark")
    /\ UNCHANGED <<rows, run, thread, history, faults>>

MarkRunning(j, w) ==
    /\ worker[j][w].at = "mark"
    /\ SetItem(j, w, "running")
    /\ Goto(j, w, "creds")
    /\ UNCHANGED <<servers, created, job, itemServer, run, thread, history, faults>>

\* clientFor: the snapshot's server id, then the server's row as it is now.  It
\* also fails on a key that does not decrypt or a certificate that is refused.
LoadClient(j, w) ==
    LET i == worker[j][w].pos
        s == run[j].items[i] IN
    /\ worker[j][w].at = "creds"
    /\ \/ /\ s \in servers
          /\ did' = [did EXCEPT ![j][i] = "busy"]
          /\ late' = [late EXCEPT ![j] =
                [halt |-> IF run[j].halted THEN @.halt + 1 ELSE @.halt,
                 cancel |-> IF job[j].cancel THEN @.cancel + 1 ELSE @.cancel]]
          /\ Goto(j, w, "panel")
       \/ /\ worker' = [worker EXCEPT ![j][w].at = "record", ![j][w].ok = FALSE]
          /\ UNCHANGED <<did, late>>
    /\ UNCHANGED <<rows, run, thread, journal, faults>>

PanelAnswers(j, w, ok) ==
    /\ worker[j][w].at = "panel"
    /\ did' = [did EXCEPT ![j][worker[j][w].pos] = IF ok THEN "ok" ELSE "refused"]
    /\ worker' = [worker EXCEPT ![j][w].at = "record", ![j][w].ok = ok]
    /\ UNCHANGED <<rows, run, thread, late, journal, faults>>

\* The success is written inside the try: a write that throws lands in the same
\* catch as a refused step, which writes a failure ("regret").
OutcomeAlwaysOk(ok) == "succeeded"
Outcome(ok) == IF ok THEN "succeeded" ELSE "failed"

RecordResult(j, w) ==
    LET ok == worker[j][w].at = "record" /\ worker[j][w].ok IN
    /\ worker[j][w].at \in {"record", "regret"}
    /\ SetItem(j, w, Outcome(ok))
    /\ run' = [run EXCEPT ![j].halted = @ \/ (~ok /\ job[j].stop)]
    /\ Goto(j, w, Resume(j))
    /\ UNCHANGED <<servers, created, job, itemServer, thread, history, faults>>

-----------------------------------------------------------------------------
(* A database call that throws.                                            *)

\* Inside mapLimit the exception of one item is swallowed and the worker goes
\* on; the canary's exception leaves runClaimedJob.
WorkerDbFails(j, w) ==
    /\ DbFault
    /\ \/ /\ worker[j][w].at = "record" /\ worker[j][w].ok
          /\ Goto(j, w, "regret")
          /\ UNCHANGED run
       \/ /\ \/ worker[j][w].at \in {"check", "mark", "regret"}
             \/ worker[j][w].at = "record" /\ ~worker[j][w].ok
          /\ Goto(j, w, Resume(j))
          /\ run' = [run EXCEPT ![j].phase = IF @ = "canary" THEN "thrown" ELSE @]
    /\ UNCHANGED <<rows, thread, history>>

RunDbFails(j) ==
    /\ DbFault
    /\ run[j].phase \in {"load", "retire", "retireItems", "sweep", "skip", "count", "finish"}
    /\ SetPhase(j, "thrown")
    /\ UNCHANGED <<rows, worker, thread, history>>

-----------------------------------------------------------------------------
(* Threads: reaping on start, ending, dying.                               *)

\* startJobRunner: the reaper first, then drain().
StartThread(t) ==
    /\ thread[t].at = "off"
    /\ Move(t, "reap", {})
    /\ UNCHANGED <<rows, runs, history, faults>>

AllCreated == {j \in Jobs : job[j].status # "absent"}
Stuck == {j \in Jobs : job[j].status = "running"}

ReapFind(t) ==
    /\ thread[t].at = "reap"
    /\ Move(t, IF Stuck = {} THEN "ready" ELSE "reapItems", Stuck)
    /\ UNCHANGED <<rows, runs, history, faults>>

ReapTurn(t, from, to) ==
    itemStatus' = [j \in Jobs |->
        IF j \in thread[t].job THEN Turn(itemStatus[j], from, to) ELSE itemStatus[j]]

ReapItems(t) ==
    /\ thread[t].at = "reapItems"
    /\ ReapTurn(t, "running", "failed")
    /\ Move(t, "reapSkip", thread[t].job)
    /\ UNCHANGED <<servers, created, job, itemServer, runs, history, faults>>

ReapSkip(t) ==
    /\ thread[t].at = "reapSkip"
    /\ ReapTurn(t, "pending", "skipped")
    /\ Move(t, "reapJobs", thread[t].job)
    /\ UNCHANGED <<servers, created, job, itemServer, runs, history, faults>>

ReapedRowUntouched(row) == row
ReapedRow(row) == [row EXCEPT !.status = "failed"]

ReapJobs(t) ==
    /\ thread[t].at = "reapJobs"
    /\ job' = [j \in Jobs |-> IF j \in thread[t].job THEN ReapedRow(job[j]) ELSE job[j]]
    /\ Move(t, "ready", {})
    /\ UNCHANGED <<servers, created, itemServer, itemStatus, runs, history, faults>>

\* A throwing call of the reaper is caught before the first drain(); one of
\* runNextJob's two queries ends the round.
ThreadDbFails(t) ==
    /\ DbFault
    /\ \/ /\ thread[t].at \in {"reap", "reapItems", "reapSkip", "reapJobs"}
          /\ Move(t, "ready", {})
       \/ /\ thread[t].at \in {"ready", "found"}
          /\ Move(t, "idle", {})
    /\ UNCHANGED <<rows, runs, history>>

ThreadExit ==
    /\ faults.exits < MaxExits
    /\ faults' = [faults EXCEPT !.exits = @ + 1]

\* drain() finds stopped = true between two jobs, or its timer was cleared.
StopThread(t) ==
    /\ thread[t].at \in {"ready", "idle"}
    /\ ThreadExit
    /\ Move(t, "off", {})
    /\ UNCHANGED <<rows, runs, history>>

\* A process dies: its chains, their runs and workers are gone, the rows stay.
ThreadsDie(S) ==
    LET theirs == {j \in Jobs : run[j].owner \in S /\ run[j].phase \notin Over} IN
    /\ thread' = [t \in Threads |-> IF t \in S THEN NoWork ELSE thread[t]]
    /\ run' = [j \in Jobs |-> IF j \in theirs THEN [run[j] EXCEPT !.phase = "lost"] ELSE run[j]]
    /\ worker' = [j \in Jobs |->
            IF j \in theirs THEN [w \in Workers |-> IdleWorker] ELSE worker[j]]
    /\ UNCHANGED <<rows, history>>

ThreadDies(t) == thread[t].at # "off" /\ ThreadExit /\ ThreadsDie({t})

-----------------------------------------------------------------------------

Request ==
    \/ \E j \in Jobs, ids \in InputLists, stop \in BOOLEAN : CreateJob(j, ids, stop)
    \/ \E j \in Jobs : RequestCancel(j)
    \/ \E s \in Servers : DeleteServer(s)

RunStep(j) ==
    \/ LoadJob(j) \/ RetireJob(j) \/ RetireItems(j)
    \/ AfterCanary(j) \/ AfterFanout(j)
    \/ SweepCancel(j) \/ SkipPending(j) \/ CountFailures(j) \/ FinishJob(j) \/ JournalJob(j)

WorkerStep(j, w) ==
    \/ TakeItem(j, w) \/ CheckCancel(j, w) \/ MarkRunning(j, w) \/ LoadClient(j, w)
    \/ \E ok \in BOOLEAN : PanelAnswers(j, w, ok)
    \/ RecordResult(j, w)

ReapStep(t) == ReapFind(t) \/ ReapItems(t) \/ ReapSkip(t) \/ ReapJobs(t)

DrainStep(t) == FindJob(t) \/ FindNothing(t) \/ Wake(t) \/ ClaimJob(t) \/ RunReturns(t)

ThreadStep(t) == ReapStep(t) \/ DrainStep(t)

Fault ==
    \/ \E j \in Jobs : RunDbFails(j)
    \/ \E j \in Jobs, w \in Workers : WorkerDbFails(j, w)
    \/ \E t \in Threads : ThreadDbFails(t) \/ ThreadDies(t)

Work ==
    \/ \E j \in Jobs : RunStep(j)
    \/ \E j \in Jobs, w \in Workers : WorkerStep(j, w)
    \/ \E t \in Threads : ThreadStep(t)

Next ==
    \/ Request \/ Work \/ Fault
    \/ \E t \in Threads : StartThread(t) \/ StopThread(t)

\* Leadership that passes on only when nothing of the old leader is left.
SoleStart(t) == StartThread(t) /\ \A u \in Threads : thread[u].at = "off"

SoleNext ==
    \/ Request \/ Work \/ Fault
    \/ \E t \in Threads : SoleStart(t) \/ StopThread(t)

Spec == Init /\ [][Next]_vars

SoleSpec == Init /\ [][SoleNext]_vars

\* The event loop runs what is ready, every panel call ends (its deadline is in
\* the client), and a process without a leader to yield to becomes one.
Fairness ==
    /\ \A j \in Jobs : WF_vars(RunStep(j))
    /\ \A j \in Jobs, w \in Workers : WF_vars(WorkerStep(j, w))
    /\ \A t \in Threads : WF_vars(ThreadStep(t))
    /\ WF_vars(\E t \in Threads : SoleStart(t))

-----------------------------------------------------------------------------
(* Properties.                                                             *)

JobRow == [status : JobStatus, cancel : BOOLEAN, stop : BOOLEAN]
RunCtx == [phase : Phase, owner : Threads \cup {NoThread},
           items : Seq(Servers \cup {NoServer}), halted : BOOLEAN,
           cursor : Nat \ {0}, cancelled : BOOLEAN, failures : Nat]
WorkerCtx == [at : WorkerAt, pos : Positions, ok : BOOLEAN]

JobsTyped == created \in Seq(Jobs) /\ job \in [Jobs -> JobRow]
ServersTyped ==
    /\ servers \in SUBSET Servers
    /\ itemServer \in [Jobs -> Seq(Servers \cup {NoServer})]
    /\ \A j \in Jobs : Len(itemServer[j]) <= MaxServersPerJob
ItemsTyped == itemStatus \in [Jobs -> [Positions -> ItemStatus]]
RunTyped ==
    /\ run \in [Jobs -> RunCtx]
    /\ \A j \in Jobs : Len(run[j].items) <= MaxServersPerJob
WorkersTyped == worker \in [Jobs -> [Workers -> WorkerCtx]]
ThreadsTyped == thread \in [Threads -> [at : ThreadAt, job : SUBSET Jobs]]
HistoryTyped ==
    /\ did \in [Jobs -> [Positions -> {"no", "busy", "ok", "refused"}]]
    /\ late \in [Jobs -> [halt : Nat, cancel : Nat]]
    /\ journal \in [Jobs -> [succeeded : Int, result : Terminal \cup {"none"}]]
FaultsTyped == faults \in [db : Nat, exits : Nat, deletions : Nat]

\* Every variable has its type; a run never has more items than a job may, and no
\* worker is past the last of them.
TypeOK ==
    /\ JobsTyped /\ ServersTyped /\ ItemsTyped /\ RunTyped
    /\ WorkersTyped /\ ThreadsTyped /\ HistoryTyped /\ FaultsTyped

\* No server is worked on twice by one job, whatever leaders overlap, die or reap:
\* the conditional claim (queue.ts:104) and mapLimit's shared cursor together.
AtMostOnce ==
    [][\A j \in Jobs, i \in Positions :
        did[j][i] # "no" /\ did'[j][i] # did[j][i] => did[j][i] = "busy" /\ did'[j][i] # "no"]_vars

\* The canary goes first and alone (queue.ts:209): while its panel works no other
\* server of the job has been touched, and in a job that stops on errors none is
\* touched unless the canary's panel agreed.
CanaryFirst ==
    \A j \in Jobs : \A i \in Positions \ {1} :
        did[j][i] # "no" =>
            /\ did[j][1] # "busy"
            /\ job[j].stop => did[j][1] = "ok"

\* What a stop can still miss: after the first recorded failure of a job that stops on
\* errors at most the other workers' calls still reach a server, since halted is not read
\* again after the await; after a cancellation at most the calls that had already read
\* "not cancelled", one per worker (queue.ts:177, :178).
StopRadius ==
    \A j \in Jobs : late[j].halt <= Concurrency - 1 /\ late[j].cancel <= Concurrency

\* An item reported as skipped or still pending was never tried on its server, and one
\* reported as succeeded was carried out (queue.ts:217, :254).
ReportMatchesPanel ==
    \A j \in Jobs, i \in Positions :
        /\ itemStatus[j][i] \in {"absent", "pending", "skipped"} => did[j][i] = "no"
        /\ itemStatus[j][i] = "succeeded" => did[j][i] = "ok"

\* Jobs are taken up in the order they were created, even by overlapping leaders.
ClaimOrder ==
    \A m, n \in DOMAIN created :
        m < n /\ job[created[n]].status # "pending" => job[created[m]].status # "pending"

\* A job that has ended is never written again: neither its status nor its items
\* (job-detail.tsx:64 stops refreshing it).
Ended(j) == job[j].status \in Terminal
JobIsFinal(j) == Ended(j) => job'[j].status = job[j].status /\ itemStatus'[j] = itemStatus[j]
FinishedIsFinal == [][\A j \in Jobs \ RetiredJobs : JobIsFinal(j)]_vars

\* The end of a job is complete but for what a database call that threw cost, an item at
\* most for each: no other item is left open, and a job reported as succeeded has every
\* other of its items succeeded (queue.ts:219, :229, concurrency.ts:22).
LeftOpen(j) == {i \in Positions : itemStatus[j][i] \in {"pending", "running"}}
Unmet(j) == {i \in Positions : itemStatus[j][i] \notin {"absent", "succeeded"}}
EndIsComplete ==
    \A j \in Jobs :
        /\ Ended(j) /\ j \notin RetiredJobs => Cardinality(LeftOpen(j)) <= faults.db
        /\ job[j].status = "succeeded" => Cardinality(Unmet(j)) <= faults.db

\* Every job that was created ends, in whatever way, unless a database call throws: a
\* run that throws leaves its job running until the next leader starts.
EveryJobEnds ==
    \A j \in Jobs : job[j].status = "pending" ~> Ended(j) \/ faults.db > 0

FairSoleSpec == SoleSpec /\ Fairness

=============================================================================
