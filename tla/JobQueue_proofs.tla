-------------------------- MODULE JobQueue_proofs ---------------------------
(***************************************************************************)
(* Proofs about JobQueue, for any jobs, servers, threads, concurrency and  *)
(* number of faults.  Under Spec, with overlapping threads: the types, that*)
(* jobs are taken up in order, that the canary goes first, how far a stop  *)
(* reaches, that reports agree with the panels and that no server is       *)
(* touched twice.  Under SoleSpec, with one thread at a time: that a job   *)
(* that ended is never written again and that its end is complete.         *)
(*                                                                         *)
(* OrderInv is about the table of jobs, JobSound (in QueueInv) about one   *)
(* job and its workers, SoleInv and CompleteInv about the one thread and   *)
(* how far it has filled in the rows of the job in its hands.              *)
(***************************************************************************)
EXTENDS JobQueue, FiniteSetTheorems, TLAPS

-----------------------------------------------------------------------------
(* What the helpers do to the type of the variable they change.            *)

\* Replacing one job's locals by well-typed ones keeps the type of run.
LEMMA RunType ==
    ASSUME RunTyped, NEW j \in Jobs, NEW c \in RunCtx, Len(c.items) <= MaxServersPerJob,
           run' = [run EXCEPT ![j] = c]
    PROVE  RunTyped'
BY DEF RunTyped

\* Moving one job to another phase keeps the type of run.
LEMMA PhaseType ==
    ASSUME RunTyped, NEW j \in Jobs, NEW p \in Phase, SetPhase(j, p)
    PROVE  RunTyped'
BY DEF RunTyped, RunCtx, SetPhase

\* Replacing one worker's locals by well-typed ones keeps the type of worker.
LEMMA WorkerType ==
    ASSUME WorkersTyped, NEW j \in Jobs, NEW w \in Workers, NEW c \in WorkerCtx,
           worker' = [worker EXCEPT ![j][w] = c]
    PROVE  WorkersTyped'
BY DEF WorkersTyped

\* Moving one worker keeps the type of worker.
LEMMA GotoType ==
    ASSUME WorkersTyped, NEW j \in Jobs, NEW w \in Workers, NEW a \in WorkerAt, Goto(j, w, a)
    PROVE  WorkersTyped'
<1>1. worker[j] \in [Workers -> WorkerCtx] /\ worker[j][w] \in WorkerCtx
  BY DEF WorkersTyped
<1>2. [worker[j][w] EXCEPT !.at = a] \in WorkerCtx
  BY <1>1 DEF WorkerCtx
<1>3. worker' = [worker EXCEPT ![j][w] = [worker[j][w] EXCEPT !.at = a]]
  BY DEF Goto
<1> QED
  BY <1>2, <1>3, WorkerType

\* Moving one chain keeps the type of thread.
LEMMA MoveType ==
    ASSUME ThreadsTyped, NEW t \in Threads, NEW a \in ThreadAt, NEW S \in SUBSET Jobs,
           Move(t, a, S)
    PROVE  ThreadsTyped'
BY DEF ThreadsTyped, Move

\* Closing one job keeps the type of job.
LEMMA FinishType ==
    ASSUME JobsTyped, NEW j \in Jobs, NEW s \in Terminal, Finish(j, s), UNCHANGED created
    PROVE  JobsTyped'
BY DEF JobsTyped, JobRow, JobStatus, Finish

\* Writing one item's status keeps the type of itemStatus.
LEMMA SetItemType ==
    ASSUME ItemsTyped, WorkersTyped, NEW j \in Jobs, NEW w \in Workers, NEW s \in ItemStatus,
           SetItem(j, w, s)
    PROVE  ItemsTyped'
BY DEF ItemsTyped, WorkersTyped, WorkerCtx, SetItem

\* Turning the items of one status into another keeps their type.
LEMMA TurnType ==
    ASSUME NEW f \in [Positions -> ItemStatus], NEW from, NEW to \in ItemStatus
    PROVE  Turn(f, from, to) \in [Positions -> ItemStatus]
BY DEF Turn

\* Spending one fault keeps the type of faults.
LEMMA FaultType ==
    ASSUME FaultsTyped, DbFault \/ ThreadExit
    PROVE  FaultsTyped'
BY DEF FaultsTyped, DbFault, ThreadExit

\* A run ends in a terminal status.
LEMMA VerdictType == ASSUME NEW j \in Jobs PROVE Verdict(run[j]) \in Terminal
BY DEF Verdict, Terminal

\* Leaving runItem, a worker is back in a place of WorkerAt.
LEMMA ResumeType == ASSUME NEW j \in Jobs PROVE Resume(j) \in WorkerAt
BY DEF Resume, WorkerAt

-----------------------------------------------------------------------------
(* Type correctness.                                                       *)

\* The initial state is well typed.
LEMMA TypeInit == Init => TypeOK
<1> SUFFICES ASSUME Init PROVE TypeOK
  OBVIOUS
<1>1. MaxServersPerJob \in Nat \ {0} /\ Concurrency \in Nat \ {0}
  BY JobQueueAssumption
<1>2. JobsTyped /\ ItemsTyped /\ ThreadsTyped /\ FaultsTyped
  BY DEF Init, JobsTyped, JobRow, JobStatus, ItemsTyped, ItemStatus, ThreadsTyped, ThreadAt,
         NoWork, FaultsTyped
<1>3. ServersTyped
  BY <1>1 DEF Init, ServersTyped
<1>4. RunTyped
  BY <1>1 DEF Init, RunTyped, RunCtx, NoRun, Phase
<1>5. WorkersTyped
  BY <1>1 DEF Init, WorkersTyped, WorkerCtx, IdleWorker, WorkerAt, Positions
<1>6. HistoryTyped
  BY DEF Init, HistoryTyped, NoLine
<1> QED
  BY <1>2, <1>3, <1>4, <1>5, <1>6 DEF TypeOK

\* Requests: creating and cancelling jobs, deleting servers.
LEMMA RequestTypes == ASSUME TypeOK, Request PROVE TypeOK'
<1>1. ASSUME NEW j \in Jobs, NEW ids \in InputLists, NEW stop \in BOOLEAN,
             CreateJob(j, ids, stop)
      PROVE  TypeOK'
  <2>1. JobsTyped'
    BY <1>1 DEF CreateJob, TypeOK, JobsTyped, JobRow, JobStatus
  <2>2. ServersTyped'
    <3>1. /\ Distinct(ids) \in Seq(Servers)
          /\ Len(Distinct(ids)) \in 1 .. MaxServersPerJob
          /\ itemServer' = [itemServer EXCEPT ![j] = Distinct(ids)]
          /\ servers' = servers
      BY <1>1, DistinctAssumption DEF CreateJob
    <3>2. Distinct(ids) \in Seq(Servers \cup {NoServer})
      BY <3>1
    <3>3. Len(Distinct(ids)) <= MaxServersPerJob
      BY <3>1, JobQueueAssumption
    <3> QED
      BY <3>1, <3>2, <3>3 DEF TypeOK, ServersTyped
  <2>3. ItemsTyped'
    BY <1>1 DEF CreateJob, TypeOK, ItemsTyped, ItemStatus
  <2>4. RunTyped' /\ WorkersTyped' /\ ThreadsTyped' /\ HistoryTyped' /\ FaultsTyped'
    BY <1>1 DEF CreateJob, TypeOK, RunTyped, WorkersTyped, ThreadsTyped, HistoryTyped,
                FaultsTyped, runs, history
  <2> QED
    BY <2>1, <2>2, <2>3, <2>4 DEF TypeOK
<1>2. ASSUME NEW j \in Jobs, RequestCancel(j) PROVE TypeOK'
  <2>1. JobsTyped'
    BY <1>2 DEF RequestCancel, TypeOK, JobsTyped, JobRow
  <2>2. /\ ServersTyped' /\ ItemsTyped' /\ RunTyped' /\ WorkersTyped' /\ ThreadsTyped'
        /\ HistoryTyped' /\ FaultsTyped'
    BY <1>2 DEF RequestCancel, TypeOK, ServersTyped, ItemsTyped, RunTyped, WorkersTyped,
                ThreadsTyped, HistoryTyped, FaultsTyped, runs, history
  <2> QED
    BY <2>1, <2>2 DEF TypeOK
<1>3. ASSUME NEW s \in Servers, DeleteServer(s) PROVE TypeOK'
  <2>1. ServersTyped'
    <3>1. servers' \in SUBSET Servers
      BY <1>3 DEF DeleteServer, TypeOK, ServersTyped
    <3>2. ASSUME NEW j \in Jobs
          PROVE  /\ itemServer'[j] \in Seq(Servers \cup {NoServer})
                 /\ Len(itemServer'[j]) = Len(itemServer[j])
      <4>1. itemServer[j] \in Seq(Servers \cup {NoServer})
        BY DEF TypeOK, ServersTyped
      <4>2. itemServer'[j] = [i \in DOMAIN itemServer[j] |->
                IF itemServer[j][i] = s THEN NoServer ELSE itemServer[j][i]]
        BY <1>3 DEF DeleteServer
      <4> QED
        BY <4>1, <4>2
    <3>3. itemServer' = [j \in Jobs |-> itemServer'[j]]
      BY <1>3 DEF DeleteServer
    <3> QED
      BY <3>1, <3>2, <3>3 DEF TypeOK, ServersTyped
  <2>2. FaultsTyped'
    BY <1>3 DEF DeleteServer, TypeOK, FaultsTyped
  <2>3. /\ JobsTyped' /\ ItemsTyped' /\ RunTyped' /\ WorkersTyped' /\ ThreadsTyped'
        /\ HistoryTyped'
    BY <1>3 DEF DeleteServer, TypeOK, JobsTyped, ItemsTyped, RunTyped, WorkersTyped,
                ThreadsTyped, HistoryTyped, runs, history
  <2> QED
    BY <2>1, <2>2, <2>3 DEF TypeOK
<1> QED
  BY <1>1, <1>2, <1>3 DEF Request

\* The steps of runClaimedJob.
LEMMA RunTypes == ASSUME TypeOK, NEW j \in Jobs, RunStep(j) PROVE TypeOK'
<1>1. ASSUME LoadJob(j) PROVE TypeOK'
  <2>1. RunTyped'
    <3>1. /\ itemServer[j] \in Seq(Servers \cup {NoServer})
          /\ Len(itemServer[j]) <= MaxServersPerJob
      BY DEF TypeOK, ServersTyped
    <3>2. CASE SetPhase(j, "retire")
      BY <3>2, PhaseType DEF TypeOK, Phase
    <3>3. CASE run' = [run EXCEPT ![j].phase = "canary", ![j].items = itemServer[j]]
      <4>1. run[j] \in RunCtx
        BY DEF TypeOK, RunTyped
      <4>2. [run[j] EXCEPT !.phase = "canary", !.items = itemServer[j]] \in RunCtx
        BY <3>1, <4>1 DEF RunCtx, Phase
      <4>3. run' = [run EXCEPT ![j] = [run[j] EXCEPT !.phase = "canary", !.items = itemServer[j]]]
        BY <3>3 DEF TypeOK, RunTyped
      <4>4. Len([run[j] EXCEPT !.phase = "canary", !.items = itemServer[j]].items)
                <= MaxServersPerJob
        BY <3>1, <4>1 DEF RunCtx
      <4> QED
        BY <4>2, <4>3, <4>4, RunType DEF TypeOK
    <3> QED
      BY <1>1, <3>2, <3>3 DEF LoadJob
  <2>2. WorkersTyped'
    <3>1. CanaryWorker \in Workers /\ 1 \in Positions
      BY JobQueueAssumption DEF CanaryWorker, Workers, Positions
    <3>2. [at |-> "check", pos |-> 1, ok |-> FALSE] \in WorkerCtx
      BY <3>1 DEF WorkerCtx, WorkerAt
    <3>3. CASE UNCHANGED worker
      BY <3>3 DEF TypeOK, WorkersTyped
    <3>4. CASE worker' = [worker EXCEPT ![j][CanaryWorker] =
                              [at |-> "check", pos |-> 1, ok |-> FALSE]]
      BY <3>1, <3>2, <3>4, WorkerType DEF TypeOK
    <3> QED
      BY <1>1, <3>3, <3>4 DEF LoadJob
  <2>3. /\ JobsTyped' /\ ServersTyped' /\ ItemsTyped' /\ ThreadsTyped'
        /\ HistoryTyped' /\ FaultsTyped'
    BY <1>1 DEF LoadJob, TypeOK, JobsTyped, ServersTyped, ItemsTyped, ThreadsTyped,
                HistoryTyped, FaultsTyped, rows, runs, history
  <2> QED
    BY <2>1, <2>2, <2>3 DEF TypeOK
<1>2. ASSUME RetireJob(j) PROVE TypeOK'
  <2>1. JobsTyped'
    BY <1>2, FinishType DEF RetireJob, TypeOK, Terminal
  <2>2. RunTyped'
    BY <1>2, PhaseType DEF RetireJob, TypeOK, Phase
  <2>3. /\ ServersTyped' /\ ItemsTyped' /\ WorkersTyped' /\ ThreadsTyped'
        /\ HistoryTyped' /\ FaultsTyped'
    BY <1>2 DEF RetireJob, TypeOK, ServersTyped, ItemsTyped, WorkersTyped, ThreadsTyped,
                HistoryTyped, FaultsTyped, rows, runs, history
  <2> QED
    BY <2>1, <2>2, <2>3 DEF TypeOK
<1>3. ASSUME RetireItems(j) PROVE TypeOK'
  <2>1. ItemsTyped'
    <3>1. itemStatus[j] \in [Positions -> ItemStatus]
      BY DEF TypeOK, ItemsTyped
    <3>2. Turn(itemStatus[j], "pending", "skipped") \in [Positions -> ItemStatus]
      BY <3>1, TurnType DEF NeverStarted, ItemStatus
    <3> QED
      BY <1>3, <3>2 DEF RetireItems, TypeOK, ItemsTyped
  <2>2. RunTyped'
    BY <1>3, PhaseType DEF RetireItems, TypeOK, Phase
  <2>3. /\ JobsTyped' /\ ServersTyped' /\ WorkersTyped' /\ ThreadsTyped'
        /\ HistoryTyped' /\ FaultsTyped'
    BY <1>3 DEF RetireItems, TypeOK, JobsTyped, ServersTyped, WorkersTyped,
                ThreadsTyped, HistoryTyped, FaultsTyped, rows, runs, history
  <2> QED
    BY <2>1, <2>2, <2>3 DEF TypeOK
<1>4. ASSUME AfterCanary(j) PROVE TypeOK'
  <2>1. RunTyped'
    BY <1>4, PhaseType DEF AfterCanary, TypeOK, Phase
  <2>2. WorkersTyped'
    <3>1. CASE UNCHANGED worker
      BY <3>1 DEF TypeOK, WorkersTyped
    <3>2. CASE worker' = [worker EXCEPT ![j] = [v \in Workers |->
                    [worker[j][v] EXCEPT !.at = IF v <= Rest(j) THEN "next" ELSE "off"]]]
      <4>1. ASSUME NEW v \in Workers
            PROVE  [worker[j][v] EXCEPT !.at = IF v <= Rest(j) THEN "next" ELSE "off"]
                        \in WorkerCtx
        <5>1. worker[j][v] \in WorkerCtx
          BY DEF TypeOK, WorkersTyped
        <5> QED
          BY <5>1 DEF WorkerCtx, WorkerAt
      <4> QED
        BY <3>2, <4>1 DEF TypeOK, WorkersTyped
    <3> QED
      BY <1>4, <3>1, <3>2 DEF AfterCanary
  <2>3. /\ JobsTyped' /\ ServersTyped' /\ ItemsTyped' /\ ThreadsTyped'
        /\ HistoryTyped' /\ FaultsTyped'
    BY <1>4 DEF AfterCanary, TypeOK, JobsTyped, ServersTyped, ItemsTyped, ThreadsTyped,
                HistoryTyped, FaultsTyped, rows, runs, history
  <2> QED
    BY <2>1, <2>2, <2>3 DEF TypeOK
<1>5. ASSUME AfterFanout(j) PROVE TypeOK'
  <2>1. RunTyped'
    BY <1>5, PhaseType DEF AfterFanout, TypeOK, Phase
  <2>2. /\ JobsTyped' /\ ServersTyped' /\ ItemsTyped' /\ WorkersTyped'
        /\ ThreadsTyped' /\ HistoryTyped' /\ FaultsTyped'
    BY <1>5 DEF AfterFanout, TypeOK, JobsTyped, ServersTyped, ItemsTyped, WorkersTyped,
                ThreadsTyped, HistoryTyped, FaultsTyped, rows, runs, history
  <2> QED
    BY <2>1, <2>2 DEF TypeOK
<1>6. ASSUME SweepCancel(j) PROVE TypeOK'
  <2>1. RunTyped'
    <3>1. CancelRequested(j) \in BOOLEAN
      BY DEF TypeOK, JobsTyped, JobRow, CancelRequested
    <3>2. run[j] \in RunCtx /\ Len(run[j].items) <= MaxServersPerJob
      BY DEF TypeOK, RunTyped
    <3>3. [run[j] EXCEPT !.phase = "skip", !.cancelled = CancelRequested(j)] \in RunCtx
      BY <3>1, <3>2 DEF RunCtx, Phase
    <3>4. run' = [run EXCEPT ![j] =
                    [run[j] EXCEPT !.phase = "skip", !.cancelled = CancelRequested(j)]]
      BY <1>6 DEF SweepCancel, TypeOK, RunTyped
    <3>5. [run[j] EXCEPT !.phase = "skip", !.cancelled = CancelRequested(j)].items = run[j].items
      BY <3>2 DEF RunCtx
    <3> QED
      BY <3>2, <3>3, <3>4, <3>5, RunType DEF TypeOK
  <2>2. /\ JobsTyped' /\ ServersTyped' /\ ItemsTyped' /\ WorkersTyped'
        /\ ThreadsTyped' /\ HistoryTyped' /\ FaultsTyped'
    BY <1>6 DEF SweepCancel, TypeOK, JobsTyped, ServersTyped, ItemsTyped, WorkersTyped,
                ThreadsTyped, HistoryTyped, FaultsTyped, rows, runs, history
  <2> QED
    BY <2>1, <2>2 DEF TypeOK
<1>7. ASSUME SkipPending(j) PROVE TypeOK'
  <2>1. ItemsTyped'
    <3>1. itemStatus[j] \in [Positions -> ItemStatus]
      BY DEF TypeOK, ItemsTyped
    <3>2. NeverStarted(itemStatus[j]) \in [Positions -> ItemStatus]
      BY <3>1, TurnType DEF NeverStarted, ItemStatus
    <3> QED
      BY <1>7, <3>2 DEF SkipPending, TypeOK, ItemsTyped
  <2>2. RunTyped'
    BY <1>7, PhaseType DEF SkipPending, TypeOK, Phase
  <2>3. /\ JobsTyped' /\ ServersTyped' /\ WorkersTyped' /\ ThreadsTyped'
        /\ HistoryTyped' /\ FaultsTyped'
    BY <1>7 DEF SkipPending, TypeOK, JobsTyped, ServersTyped, WorkersTyped,
                ThreadsTyped, HistoryTyped, FaultsTyped, rows, runs, history
  <2> QED
    BY <2>1, <2>2, <2>3 DEF TypeOK
<1>8. ASSUME CountFailures(j) PROVE TypeOK'
  <2>1. RunTyped'
    <3> DEFINE n == Cardinality({i \in Positions : itemStatus[j][i] = "failed"})
    <3>1. n \in Nat
      <4>1. IsFiniteSet(Positions)
        BY FS_Interval, JobQueueAssumption DEF Positions
      <4> QED
        BY <4>1, FS_Subset, FS_CardinalityType
    <3>2. run' = [run EXCEPT ![j].phase = "finish", ![j].failures = n]
      BY <1>8 DEF CountFailures
    <3> HIDE DEF n
    <3>3. run[j] \in RunCtx /\ Len(run[j].items) <= MaxServersPerJob
      BY DEF TypeOK, RunTyped
    <3>4. [run[j] EXCEPT !.phase = "finish", !.failures = n] \in RunCtx
      BY <3>1, <3>3 DEF RunCtx, Phase
    <3>5. run' = [run EXCEPT ![j] = [run[j] EXCEPT !.phase = "finish", !.failures = n]]
      BY <3>2 DEF TypeOK, RunTyped
    <3>6. [run[j] EXCEPT !.phase = "finish", !.failures = n].items = run[j].items
      BY <3>3 DEF RunCtx
    <3> QED
      BY <3>3, <3>4, <3>5, <3>6, RunType DEF TypeOK
  <2>2. /\ JobsTyped' /\ ServersTyped' /\ ItemsTyped' /\ WorkersTyped'
        /\ ThreadsTyped' /\ HistoryTyped' /\ FaultsTyped'
    BY <1>8 DEF CountFailures, TypeOK, JobsTyped, ServersTyped, ItemsTyped,
                WorkersTyped, ThreadsTyped, HistoryTyped, FaultsTyped, rows, runs, history
  <2> QED
    BY <2>1, <2>2 DEF TypeOK
<1>9. ASSUME FinishJob(j) PROVE TypeOK'
  <2>1. JobsTyped'
    BY <1>9, FinishType, VerdictType DEF FinishJob, TypeOK, Terminal
  <2>2. RunTyped'
    BY <1>9, PhaseType DEF FinishJob, TypeOK, Phase
  <2>3. /\ ServersTyped' /\ ItemsTyped' /\ WorkersTyped' /\ ThreadsTyped'
        /\ HistoryTyped' /\ FaultsTyped'
    BY <1>9 DEF FinishJob, TypeOK, ServersTyped, ItemsTyped, WorkersTyped, ThreadsTyped,
                HistoryTyped, FaultsTyped, rows, runs, history
  <2> QED
    BY <2>1, <2>2, <2>3 DEF TypeOK
<1>10. ASSUME JournalJob(j) PROVE TypeOK'
  <2>1. RunTyped'
    BY <1>10, PhaseType DEF JournalJob, TypeOK, Phase
  <2>2. HistoryTyped'
    <3>1. run[j] \in RunCtx
      BY DEF TypeOK, RunTyped
    <3>2. [succeeded |-> Len(run[j].items) - run[j].failures, result |-> Verdict(run[j])]
                \in [succeeded : Int, result : Terminal \cup {"none"}]
      BY <3>1, VerdictType DEF RunCtx
    <3>3. UNCHANGED <<did, late>>
      BY <1>10 DEF JournalJob
    <3>4. CASE UNCHANGED journal
      BY <3>3, <3>4 DEF TypeOK, HistoryTyped
    <3>5. CASE journal' = [journal EXCEPT ![j] =
                [succeeded |-> Len(run[j].items) - run[j].failures, result |-> Verdict(run[j])]]
      BY <3>2, <3>3, <3>5 DEF TypeOK, HistoryTyped
    <3> QED
      BY <1>10, <3>4, <3>5 DEF JournalJob
  <2>3. FaultsTyped'
    <3>1. CASE UNCHANGED faults
      BY <3>1 DEF TypeOK, FaultsTyped
    <3>2. CASE DbFault
      BY <3>2, FaultType DEF TypeOK
    <3> QED
      BY <1>10, <3>1, <3>2 DEF JournalJob
  <2>4. /\ JobsTyped' /\ ServersTyped' /\ ItemsTyped'
        /\ WorkersTyped' /\ ThreadsTyped'
    BY <1>10 DEF JournalJob, TypeOK, JobsTyped, ServersTyped, ItemsTyped, WorkersTyped,
                 ThreadsTyped, rows, runs, history
  <2> QED
    BY <2>1, <2>2, <2>3, <2>4 DEF TypeOK
<1> QED
  BY <1>1, <1>2, <1>3, <1>4, <1>5, <1>6, <1>7, <1>8, <1>9, <1>10 DEF RunStep

\* The steps of runItem and of mapLimit's loop.
LEMMA WorkerTypes == ASSUME TypeOK, NEW j \in Jobs, NEW w \in Workers, WorkerStep(j, w) PROVE TypeOK'
<1>1. ASSUME TakeItem(j, w) PROVE TypeOK'
  <2>1. RunTyped'
    <3>1. CASE UNCHANGED run
      BY <3>1 DEF TypeOK, RunTyped
    <3>2. CASE run' = [run EXCEPT ![j].cursor = NextIndex(j)]
      <4>1. run[j] \in RunCtx /\ NextIndex(j) \in Nat \ {0}
        BY DEF TypeOK, RunTyped, RunCtx, NextIndex
      <4> QED
        BY <3>2, <4>1 DEF TypeOK, RunTyped, RunCtx
    <3> QED
      BY <1>1, <3>1, <3>2 DEF TakeItem
  <2>2. WorkersTyped'
    <3>1. CASE Goto(j, w, "off")
      BY <3>1, GotoType DEF TypeOK, WorkerAt
    <3>2. CASE /\ MoreItems(j)
              /\ worker' = [worker EXCEPT ![j][w] =
                                [at |-> "check", pos |-> run[j].cursor, ok |-> FALSE]]
      <4>1. run[j] \in RunCtx /\ Len(run[j].items) <= MaxServersPerJob
        BY DEF TypeOK, RunTyped
      <4>2. run[j].cursor \in Positions
        BY <3>2, <4>1, JobQueueAssumption DEF RunCtx, MoreItems, Positions
      <4>3. [at |-> "check", pos |-> run[j].cursor, ok |-> FALSE] \in WorkerCtx
        BY <4>2 DEF WorkerCtx, WorkerAt
      <4> QED
        BY <3>2, <4>3, WorkerType DEF TypeOK
    <3> QED
      BY <1>1, <3>1, <3>2 DEF TakeItem, Goto
  <2>3. /\ JobsTyped' /\ ServersTyped' /\ ItemsTyped' /\ ThreadsTyped'
        /\ HistoryTyped' /\ FaultsTyped'
    BY <1>1 DEF TakeItem, TypeOK, JobsTyped, ServersTyped, ItemsTyped, ThreadsTyped,
                HistoryTyped, FaultsTyped, rows, runs, history
  <2> QED
    BY <2>1, <2>2, <2>3 DEF TypeOK
<1>2. ASSUME CheckCancel(j, w) PROVE TypeOK'
  <2>1. WorkersTyped'
    BY <1>2, GotoType, ResumeType DEF CheckCancel, TypeOK, WorkerAt
  <2>2. /\ JobsTyped' /\ ServersTyped' /\ ItemsTyped' /\ RunTyped'
        /\ ThreadsTyped' /\ HistoryTyped' /\ FaultsTyped'
    BY <1>2 DEF CheckCancel, TypeOK, JobsTyped, ServersTyped, ItemsTyped, RunTyped,
                ThreadsTyped, HistoryTyped, FaultsTyped, rows, runs, history
  <2> QED
    BY <2>1, <2>2 DEF TypeOK
<1>3. ASSUME MarkRunning(j, w) PROVE TypeOK'
  <2>1. ItemsTyped'
    BY <1>3, SetItemType DEF MarkRunning, TypeOK, ItemStatus
  <2>2. WorkersTyped'
    BY <1>3, GotoType DEF MarkRunning, TypeOK, WorkerAt
  <2>3. /\ JobsTyped' /\ ServersTyped' /\ RunTyped' /\ ThreadsTyped'
        /\ HistoryTyped' /\ FaultsTyped'
    BY <1>3 DEF MarkRunning, TypeOK, JobsTyped, ServersTyped, RunTyped, ThreadsTyped,
                HistoryTyped, FaultsTyped, rows, runs, history
  <2> QED
    BY <2>1, <2>2, <2>3 DEF TypeOK
<1>4. ASSUME LoadClient(j, w) PROVE TypeOK'
  <2>1. WorkersTyped'
    <3>1. CASE Goto(j, w, "panel")
      BY <3>1, GotoType DEF TypeOK, WorkerAt
    <3>2. CASE worker' = [worker EXCEPT ![j][w].at = "record", ![j][w].ok = FALSE]
      <4>1. worker[j] \in [Workers -> WorkerCtx] /\ worker[j][w] \in WorkerCtx
        BY DEF TypeOK, WorkersTyped
      <4>2. [worker[j][w] EXCEPT !.at = "record", !.ok = FALSE] \in WorkerCtx
        BY <4>1 DEF WorkerCtx, WorkerAt
      <4>3. worker' = [worker EXCEPT ![j][w] = [worker[j][w] EXCEPT !.at = "record", !.ok = FALSE]]
        BY <3>2, <4>1 DEF TypeOK, WorkersTyped
      <4> QED
        BY <4>2, <4>3, WorkerType DEF TypeOK
    <3> QED
      BY <1>4, <3>1, <3>2 DEF LoadClient
  <2>2. HistoryTyped'
    <3>1. CASE UNCHANGED <<did, late>>
      BY <1>4, <3>1 DEF LoadClient, TypeOK, HistoryTyped
    <3>2. CASE /\ did' = [did EXCEPT ![j][worker[j][w].pos] = "busy"]
              /\ late' = [late EXCEPT ![j] =
                    [halt |-> IF run[j].halted THEN @.halt + 1 ELSE @.halt,
                     cancel |-> IF job[j].cancel THEN @.cancel + 1 ELSE @.cancel]]
      <4>1. worker[j][w].pos \in Positions
        BY DEF TypeOK, WorkersTyped, WorkerCtx
      <4>2. did' \in [Jobs -> [Positions -> {"no", "busy", "ok", "refused"}]]
        BY <3>2, <4>1 DEF TypeOK, HistoryTyped
      <4>3. late' \in [Jobs -> [halt : Nat, cancel : Nat]]
        <5>1. late[j] \in [halt : Nat, cancel : Nat]
          BY DEF TypeOK, HistoryTyped
        <5> DEFINE h == IF run[j].halted THEN late[j].halt + 1 ELSE late[j].halt
                   c == IF job[j].cancel THEN late[j].cancel + 1 ELSE late[j].cancel
        <5>2. h \in Nat /\ c \in Nat
          BY <5>1
        <5>3. late' = [late EXCEPT ![j] = [halt |-> h, cancel |-> c]]
          BY <3>2, <5>1 DEF TypeOK, HistoryTyped
        <5> HIDE DEF h, c
        <5> QED
          BY <5>2, <5>3 DEF TypeOK, HistoryTyped
      <4>4. UNCHANGED journal
        BY <1>4 DEF LoadClient
      <4> QED
        BY <4>2, <4>3, <4>4 DEF TypeOK, HistoryTyped
    <3> QED
      BY <1>4, <3>1, <3>2 DEF LoadClient
  <2>3. /\ JobsTyped' /\ ServersTyped' /\ ItemsTyped' /\ RunTyped'
        /\ ThreadsTyped' /\ FaultsTyped'
    BY <1>4 DEF LoadClient, TypeOK, JobsTyped, ServersTyped, ItemsTyped, RunTyped,
                ThreadsTyped, FaultsTyped, rows, runs, history
  <2> QED
    BY <2>1, <2>2, <2>3 DEF TypeOK
<1>5. ASSUME NEW ok \in BOOLEAN, PanelAnswers(j, w, ok) PROVE TypeOK'
  <2>1. WorkersTyped'
    <3>1. worker[j] \in [Workers -> WorkerCtx] /\ worker[j][w] \in WorkerCtx
      BY DEF TypeOK, WorkersTyped
    <3>2. [worker[j][w] EXCEPT !.at = "record", !.ok = ok] \in WorkerCtx
      BY <3>1 DEF WorkerCtx, WorkerAt
    <3>3. worker' = [worker EXCEPT ![j][w] = [worker[j][w] EXCEPT !.at = "record", !.ok = ok]]
      BY <1>5, <3>1 DEF PanelAnswers, TypeOK, WorkersTyped
    <3> QED
      BY <3>2, <3>3, WorkerType DEF TypeOK
  <2>2. HistoryTyped'
    <3>1. worker[j][w].pos \in Positions
      BY DEF TypeOK, WorkersTyped, WorkerCtx
    <3> QED
      BY <1>5, <3>1 DEF PanelAnswers, TypeOK, HistoryTyped
  <2>3. /\ JobsTyped' /\ ServersTyped' /\ ItemsTyped' /\ RunTyped'
        /\ ThreadsTyped' /\ FaultsTyped'
    BY <1>5 DEF PanelAnswers, TypeOK, JobsTyped, ServersTyped, ItemsTyped, RunTyped,
                ThreadsTyped, FaultsTyped, rows, runs, history
  <2> QED
    BY <2>1, <2>2, <2>3 DEF TypeOK
<1>6. ASSUME RecordResult(j, w) PROVE TypeOK'
  <2>1. ItemsTyped'
    BY <1>6, SetItemType DEF RecordResult, Outcome, TypeOK, ItemStatus
  <2>2. RunTyped'
    <3> DEFINE ok == worker[j][w].at = "record" /\ worker[j][w].ok
    <3>1. (run[j].halted \/ (~ok /\ job[j].stop)) \in BOOLEAN
      OBVIOUS
    <3>2. run' = [run EXCEPT ![j].halted = run[j].halted \/ (~ok /\ job[j].stop)]
      BY <1>6 DEF RecordResult
    <3> HIDE DEF ok
    <3> QED
      BY <3>1, <3>2 DEF TypeOK, RunTyped, RunCtx
  <2>3. WorkersTyped'
    BY <1>6, GotoType, ResumeType DEF RecordResult, TypeOK, WorkerAt
  <2>4. /\ JobsTyped' /\ ServersTyped' /\ ThreadsTyped'
        /\ HistoryTyped' /\ FaultsTyped'
    BY <1>6 DEF RecordResult, TypeOK, JobsTyped, ServersTyped, ThreadsTyped,
                HistoryTyped, FaultsTyped, rows, runs, history
  <2> QED
    BY <2>1, <2>2, <2>3, <2>4 DEF TypeOK
<1> QED
  BY <1>1, <1>2, <1>3, <1>4, <1>5, <1>6 DEF WorkerStep

\* The steps of a drain chain.
LEMMA ThreadTypes == ASSUME TypeOK, NEW t \in Threads,
           ThreadStep(t) \/ StartThread(t) \/ StopThread(t)
     PROVE  TypeOK'
<1>1. ASSUME ReapFind(t) PROVE TypeOK'
  <2>1. ThreadsTyped'
    <3>1. Stuck \in SUBSET Jobs
      BY DEF Stuck
    <3>2. Move(t, "ready", Stuck) \/ Move(t, "reapItems", Stuck)
      BY <1>1 DEF ReapFind
    <3> QED
      BY <3>1, <3>2, MoveType DEF TypeOK, ThreadAt
  <2>2. /\ JobsTyped' /\ ServersTyped' /\ ItemsTyped' /\ RunTyped'
        /\ WorkersTyped' /\ HistoryTyped' /\ FaultsTyped'
    BY <1>1 DEF ReapFind, TypeOK, JobsTyped, ServersTyped, ItemsTyped, RunTyped,
                WorkersTyped, HistoryTyped, FaultsTyped, rows, runs, history
  <2> QED
    BY <2>1, <2>2 DEF TypeOK
<1>2. ASSUME ReapItems(t) PROVE TypeOK'
  <2>1. ItemsTyped'
    <3>1. ASSUME NEW j \in Jobs
          PROVE  Turn(itemStatus[j], "running", "failed") \in [Positions -> ItemStatus]
      BY TurnType DEF TypeOK, ItemsTyped, ItemStatus
    <3> QED
      BY <1>2, <3>1 DEF ReapItems, ReapTurn, TypeOK, ItemsTyped
  <2>2. ThreadsTyped'
    <3>1. thread[t].job \in SUBSET Jobs
      BY DEF TypeOK, ThreadsTyped
    <3> QED
      BY <1>2, <3>1, MoveType DEF ReapItems, TypeOK, ThreadAt
  <2>3. /\ JobsTyped' /\ ServersTyped' /\ RunTyped' /\ WorkersTyped'
        /\ HistoryTyped' /\ FaultsTyped'
    BY <1>2 DEF ReapItems, TypeOK, JobsTyped, ServersTyped, RunTyped, WorkersTyped,
                HistoryTyped, FaultsTyped, rows, runs, history
  <2> QED
    BY <2>1, <2>2, <2>3 DEF TypeOK
<1>3. ASSUME ReapSkip(t) PROVE TypeOK'
  <2>1. ItemsTyped'
    <3>1. ASSUME NEW j \in Jobs
          PROVE  Turn(itemStatus[j], "pending", "skipped") \in [Positions -> ItemStatus]
      BY TurnType DEF TypeOK, ItemsTyped, ItemStatus
    <3> QED
      BY <1>3, <3>1 DEF ReapSkip, ReapTurn, TypeOK, ItemsTyped
  <2>2. ThreadsTyped'
    <3>1. thread[t].job \in SUBSET Jobs
      BY DEF TypeOK, ThreadsTyped
    <3> QED
      BY <1>3, <3>1, MoveType DEF ReapSkip, TypeOK, ThreadAt
  <2>3. /\ JobsTyped' /\ ServersTyped' /\ RunTyped' /\ WorkersTyped'
        /\ HistoryTyped' /\ FaultsTyped'
    BY <1>3 DEF ReapSkip, TypeOK, JobsTyped, ServersTyped, RunTyped, WorkersTyped,
                HistoryTyped, FaultsTyped, rows, runs, history
  <2> QED
    BY <2>1, <2>2, <2>3 DEF TypeOK
<1>4. ASSUME ReapJobs(t) PROVE TypeOK'
  <2>1. JobsTyped'
    <3>1. ASSUME NEW j \in Jobs PROVE ReapedRow(job[j]) \in JobRow
      BY DEF TypeOK, JobsTyped, JobRow, JobStatus, Terminal, ReapedRow
    <3> QED
      BY <1>4, <3>1 DEF ReapJobs, TypeOK, JobsTyped
  <2>2. ThreadsTyped'
    BY <1>4, MoveType DEF ReapJobs, TypeOK, ThreadAt
  <2>3. /\ ServersTyped' /\ ItemsTyped' /\ RunTyped' /\ WorkersTyped'
        /\ HistoryTyped' /\ FaultsTyped'
    BY <1>4 DEF ReapJobs, TypeOK, ServersTyped, ItemsTyped, RunTyped, WorkersTyped,
                HistoryTyped, FaultsTyped, rows, runs, history
  <2> QED
    BY <2>1, <2>2, <2>3 DEF TypeOK
<1>5. ASSUME FindJob(t) PROVE TypeOK'
  <2>1. ThreadsTyped'
    <3>1. ASSUME NEW n \in DOMAIN created, Move(t, "found", {created[n]}) PROVE ThreadsTyped'
      <4>1. {created[n]} \in SUBSET Jobs
        BY DEF TypeOK, JobsTyped
      <4> QED
        BY <3>1, <4>1, MoveType DEF TypeOK, ThreadAt
    <3> QED
      BY <1>5, <3>1 DEF FindJob
  <2>2. /\ JobsTyped' /\ ServersTyped' /\ ItemsTyped' /\ RunTyped'
        /\ WorkersTyped' /\ HistoryTyped' /\ FaultsTyped'
    BY <1>5 DEF FindJob, TypeOK, JobsTyped, ServersTyped, ItemsTyped, RunTyped,
                WorkersTyped, HistoryTyped, FaultsTyped, rows, runs, history
  <2> QED
    BY <2>1, <2>2 DEF TypeOK
<1>6. ASSUME FindNothing(t) PROVE TypeOK'
  <2>1. ThreadsTyped'
    BY <1>6, MoveType DEF FindNothing, TypeOK, ThreadAt
  <2>2. /\ JobsTyped' /\ ServersTyped' /\ ItemsTyped' /\ RunTyped'
        /\ WorkersTyped' /\ HistoryTyped' /\ FaultsTyped'
    BY <1>6 DEF FindNothing, TypeOK, JobsTyped, ServersTyped, ItemsTyped, RunTyped,
                WorkersTyped, HistoryTyped, FaultsTyped, rows, runs, history
  <2> QED
    BY <2>1, <2>2 DEF TypeOK
<1>7. ASSUME Wake(t) PROVE TypeOK'
  <2>1. ThreadsTyped'
    BY <1>7, MoveType DEF Wake, TypeOK, ThreadAt
  <2>2. /\ JobsTyped' /\ ServersTyped' /\ ItemsTyped' /\ RunTyped'
        /\ WorkersTyped' /\ HistoryTyped' /\ FaultsTyped'
    BY <1>7 DEF Wake, TypeOK, JobsTyped, ServersTyped, ItemsTyped, RunTyped,
                WorkersTyped, HistoryTyped, FaultsTyped, rows, runs, history
  <2> QED
    BY <2>1, <2>2 DEF TypeOK
<1>8. ASSUME ClaimJob(t) PROVE TypeOK'
  <2>1. JobsTyped'
    <3>1. thread[t].job \in SUBSET Jobs
      BY DEF TypeOK, ThreadsTyped
    <3> QED
      BY <1>8, <3>1 DEF ClaimJob, TypeOK, JobsTyped, JobRow, JobStatus
  <2>2. RunTyped'
    <3>1. thread[t].job \in SUBSET Jobs
      BY DEF TypeOK, ThreadsTyped
    <3>2. CASE UNCHANGED run
      BY <3>2 DEF TypeOK, RunTyped
    <3>3. ASSUME NEW j \in Jobs,
                 run' = [run EXCEPT ![j].phase = "load", ![j].owner = t]
          PROVE  RunTyped'
      <4>1. run' = [run EXCEPT ![j] = [@ EXCEPT !.phase = "load", !.owner = t]]
        BY <3>3 DEF TypeOK, RunTyped, RunCtx
      <4>2. [run[j] EXCEPT !.phase = "load", !.owner = t] \in RunCtx
        BY DEF TypeOK, RunTyped, RunCtx, Phase
      <4>3. Len([run[j] EXCEPT !.phase = "load", !.owner = t].items) <= MaxServersPerJob
        BY DEF TypeOK, RunTyped, RunCtx
      <4> QED
        BY <4>1, <4>2, <4>3, RunType DEF TypeOK
    <3> QED
      BY <1>8, <3>1, <3>2, <3>3 DEF ClaimJob
  <2>3. ThreadsTyped'
    <3>1. thread[t].job \in SUBSET Jobs
      BY DEF TypeOK, ThreadsTyped
    <3>2. \A j \in thread[t].job : {j} \in SUBSET Jobs
      BY <3>1
    <3> QED
      BY <1>8, <3>2, MoveType DEF ClaimJob, TypeOK, ThreadAt
  <2>4. /\ ServersTyped' /\ ItemsTyped' /\ WorkersTyped'
        /\ HistoryTyped' /\ FaultsTyped'
    BY <1>8 DEF ClaimJob, TypeOK, ServersTyped, ItemsTyped, WorkersTyped, HistoryTyped,
                FaultsTyped, rows, runs, history
  <2> QED
    BY <2>1, <2>2, <2>3, <2>4 DEF TypeOK
<1>9. ASSUME RunReturns(t) PROVE TypeOK'
  <2>1. ThreadsTyped'
    BY <1>9, MoveType DEF RunReturns, TypeOK, ThreadAt
  <2>2. /\ JobsTyped' /\ ServersTyped' /\ ItemsTyped' /\ RunTyped'
        /\ WorkersTyped' /\ HistoryTyped' /\ FaultsTyped'
    BY <1>9 DEF RunReturns, TypeOK, JobsTyped, ServersTyped, ItemsTyped, RunTyped,
                WorkersTyped, HistoryTyped, FaultsTyped, rows, runs, history
  <2> QED
    BY <2>1, <2>2 DEF TypeOK
<1>10. ASSUME StartThread(t) PROVE TypeOK'
  <2>1. ThreadsTyped'
    BY <1>10, MoveType DEF StartThread, TypeOK, ThreadAt
  <2>2. /\ JobsTyped' /\ ServersTyped' /\ ItemsTyped' /\ RunTyped'
        /\ WorkersTyped' /\ HistoryTyped' /\ FaultsTyped'
    BY <1>10 DEF StartThread, TypeOK, JobsTyped, ServersTyped, ItemsTyped, RunTyped,
                 WorkersTyped, HistoryTyped, FaultsTyped, rows, runs, history
  <2> QED
    BY <2>1, <2>2 DEF TypeOK
<1>11. ASSUME StopThread(t) PROVE TypeOK'
  <2>1. ThreadsTyped'
    BY <1>11, MoveType DEF StopThread, TypeOK, ThreadAt
  <2>2. FaultsTyped'
    BY <1>11, FaultType DEF StopThread, TypeOK
  <2>3. /\ JobsTyped' /\ ServersTyped' /\ ItemsTyped' /\ RunTyped'
        /\ WorkersTyped' /\ HistoryTyped'
    BY <1>11 DEF StopThread, TypeOK, JobsTyped, ServersTyped, ItemsTyped, RunTyped,
                 WorkersTyped, HistoryTyped, rows, runs, history
  <2> QED
    BY <2>1, <2>2, <2>3 DEF TypeOK
<1> QED
  BY <1>1, <1>2, <1>3, <1>4, <1>5, <1>6, <1>7, <1>8, <1>9, <1>10, <1>11 DEF ThreadStep,
     ReapStep, DrainStep

\* Chains that die, any number of them together.
LEMMA DeathTypes ==
    ASSUME TypeOK, NEW S \in SUBSET Threads, ThreadsDie(S), FaultsTyped' PROVE TypeOK'
<1>1. RunTyped'
  <2>1. ASSUME NEW j \in Jobs
        PROVE  /\ run[j] \in RunCtx /\ [run[j] EXCEPT !.phase = "lost"] \in RunCtx
               /\ [run[j] EXCEPT !.phase = "lost"].items = run[j].items
    BY DEF TypeOK, RunTyped, RunCtx, Phase
  <2> QED
    BY <2>1 DEF ThreadsDie, TypeOK, RunTyped
<1>2. WorkersTyped'
  <2>1. IdleWorker \in WorkerCtx
    BY JobQueueAssumption DEF IdleWorker, WorkerCtx, WorkerAt, Positions
  <2> QED
    BY <2>1 DEF ThreadsDie, TypeOK, WorkersTyped
<1>3. ThreadsTyped'
  BY DEF ThreadsDie, NoWork, TypeOK, ThreadsTyped, ThreadAt
<1>4. JobsTyped' /\ ServersTyped' /\ ItemsTyped' /\ HistoryTyped'
  BY DEF ThreadsDie, TypeOK, JobsTyped, ServersTyped, ItemsTyped, HistoryTyped, rows, runs, history
<1> QED
  BY <1>1, <1>2, <1>3, <1>4 DEF TypeOK

\* Faults.
LEMMA FaultTypes == ASSUME TypeOK, Fault PROVE TypeOK'
<1>1. ASSUME NEW j \in Jobs, RunDbFails(j) PROVE TypeOK'
  <2>1. RunTyped'
    BY <1>1, PhaseType DEF RunDbFails, TypeOK, Phase
  <2>2. FaultsTyped'
    BY <1>1, FaultType DEF RunDbFails, TypeOK
  <2>3. /\ JobsTyped' /\ ServersTyped' /\ ItemsTyped' /\ WorkersTyped'
        /\ ThreadsTyped' /\ HistoryTyped'
    BY <1>1 DEF RunDbFails, TypeOK, JobsTyped, ServersTyped, ItemsTyped, WorkersTyped,
                ThreadsTyped, HistoryTyped, rows, runs, history
  <2> QED
    BY <2>1, <2>2, <2>3 DEF TypeOK
<1>2. ASSUME NEW j \in Jobs, NEW w \in Workers, WorkerDbFails(j, w) PROVE TypeOK'
  <2>1. RunTyped'
    <3>1. CASE UNCHANGED run
      BY <3>1 DEF TypeOK, RunTyped
    <3>2. CASE run' = [run EXCEPT ![j].phase = IF @ = "canary" THEN "thrown" ELSE @]
      <4>1. run[j].phase \in Phase
        BY DEF TypeOK, RunTyped, RunCtx
      <4>2. PICK p \in Phase : SetPhase(j, p)
        BY <3>2, <4>1 DEF SetPhase, Phase
      <4> QED
        BY <4>2, PhaseType DEF TypeOK
    <3> QED
      BY <1>2, <3>1, <3>2 DEF WorkerDbFails
  <2>2. WorkersTyped'
    BY <1>2, GotoType, ResumeType DEF WorkerDbFails, TypeOK, WorkerAt
  <2>3. FaultsTyped'
    BY <1>2, FaultType DEF WorkerDbFails, TypeOK
  <2>4. /\ JobsTyped' /\ ServersTyped' /\ ItemsTyped'
        /\ ThreadsTyped' /\ HistoryTyped'
    BY <1>2 DEF WorkerDbFails, TypeOK, JobsTyped, ServersTyped, ItemsTyped,
                ThreadsTyped, HistoryTyped, rows, runs, history
  <2> QED
    BY <2>1, <2>2, <2>3, <2>4 DEF TypeOK
<1>3. ASSUME NEW t \in Threads, ThreadDbFails(t) PROVE TypeOK'
  <2>1. ThreadsTyped'
    BY <1>3, MoveType DEF ThreadDbFails, TypeOK, ThreadAt
  <2>2. FaultsTyped'
    BY <1>3, FaultType DEF ThreadDbFails, TypeOK
  <2>3. /\ JobsTyped' /\ ServersTyped' /\ ItemsTyped' /\ RunTyped'
        /\ WorkersTyped' /\ HistoryTyped'
    BY <1>3 DEF ThreadDbFails, TypeOK, JobsTyped, ServersTyped, ItemsTyped, RunTyped,
                WorkersTyped, HistoryTyped, rows, runs, history
  <2> QED
    BY <2>1, <2>2, <2>3 DEF TypeOK
<1>4. ASSUME NEW t \in Threads, ThreadDies(t) PROVE TypeOK'
  <2>1. {t} \in SUBSET Threads /\ ThreadsDie({t}) /\ FaultsTyped'
    BY <1>4, FaultType DEF ThreadDies, TypeOK
  <2> QED
    BY <2>1, DeathTypes
<1> QED
  BY <1>1, <1>2, <1>3, <1>4 DEF Fault

\* Every step keeps every type.
LEMMA TypeStep == TypeOK /\ [Next]_vars => TypeOK'
<1> SUFFICES ASSUME TypeOK, [Next]_vars PROVE TypeOK'
  OBVIOUS
<1>1. CASE UNCHANGED vars
  BY <1>1 DEF vars, rows, runs, history, TypeOK, JobsTyped, ServersTyped, ItemsTyped,
              RunTyped, WorkersTyped, ThreadsTyped, HistoryTyped, FaultsTyped
<1>2. CASE Next
  BY <1>2, RequestTypes, RunTypes, WorkerTypes, ThreadTypes, FaultTypes DEF Next, Work
<1> QED
  BY <1>1, <1>2

\* Every variable keeps its type in every reachable state (queue.ts, concurrency.ts).
THEOREM TypeCorrect == Spec => []TypeOK
  BY TypeInit, TypeStep, PTL DEF Spec

-----------------------------------------------------------------------------
(* Jobs are taken up in the order they were created.                       *)

\* A job somebody has claimed; it never goes back.
Started(j) == job[j].status \in {"running"} \cup Terminal

\* No job is overtaken by a younger one, and no created job is absent.
InOrder ==
    /\ IsInjective(created)
    /\ \A n \in DOMAIN created : job[created[n]].status # "absent"
    /\ \A m, n \in DOMAIN created : m < n /\ Started(created[n]) => Started(created[m])

\* Only a claimed job is run, and a job nobody runs has no owner.
RunsAreStarted ==
    \A j \in Jobs : IF run[j].phase = "none" THEN run[j].owner = NoThread ELSE Started(j)

\* What a drain chain remembers between two database calls: the reaper only jobs that
\* had been claimed, a chain about to claim only a job behind which nobody waits.
MemoryIsSound ==
    \A t \in Threads : \A j \in thread[t].job :
        /\ thread[t].at \in {"reapItems", "reapSkip", "reapJobs"} => Started(j)
        /\ thread[t].at = "found" =>
            \E n \in DOMAIN created :
                created[n] = j /\ \A m \in 1 .. n - 1 : Started(created[m])

OrderInv == TypeOK /\ InOrder /\ RunsAreStarted /\ MemoryIsSound

\* What most steps leave alone: which jobs exist and which have been claimed.
StatusQuiet ==
    /\ created' = created
    /\ \A j \in Jobs : /\ Started(j)' = Started(j)
                       /\ job[j].status # "absent" => job'[j].status # "absent"

\* What every step but a claim leaves alone: whose run is whose, and which ones exist.
RunQuiet ==
    \A j \in Jobs : /\ run'[j].owner = run[j].owner
                    /\ run'[j].phase = "none" <=> run[j].phase = "none"

\* A step that leaves the claims alone cannot upset the order.
LEMMA QuietKeepsOrder == ASSUME TypeOK, InOrder, StatusQuiet PROVE InOrder'
<1>1. \A n \in DOMAIN created : created[n] \in Jobs
  BY DEF TypeOK, JobsTyped
<1> QED
  BY <1>1 DEF InOrder, StatusQuiet

\* Nor give a run to a job nobody claimed.
LEMMA QuietKeepsRuns ==
    ASSUME RunsAreStarted, StatusQuiet, RunQuiet PROVE RunsAreStarted'
BY DEF RunsAreStarted, StatusQuiet, RunQuiet

\* Nor falsify what the chains remember, when it gives them nothing new to remember.
LEMMA QuietKeepsMemory ==
    ASSUME TypeOK, MemoryIsSound, StatusQuiet,
           \A t \in Threads : \/ thread'[t] = thread[t]
                              \/ thread'[t].at \notin {"reapItems", "reapSkip", "reapJobs", "found"}
    PROVE  MemoryIsSound'
<1>1. \A n \in DOMAIN created : created[n] \in Jobs /\ \A m \in 1 .. n - 1 : created[m] \in Jobs
  BY DEF TypeOK, JobsTyped
<1>2. \A t \in Threads : thread[t].job \in SUBSET Jobs
  BY DEF TypeOK, ThreadsTyped
<1> SUFFICES ASSUME NEW t \in Threads, NEW j \in thread'[t].job, thread'[t] = thread[t]
             PROVE  /\ thread[t].at \in {"reapItems", "reapSkip", "reapJobs"} => Started(j)'
                    /\ thread[t].at = "found" =>
                        \E n \in DOMAIN created :
                            created[n] = j /\ \A m \in 1 .. n - 1 : Started(created[m])'
  BY DEF MemoryIsSound, StatusQuiet
<1> QED
  BY <1>1, <1>2 DEF MemoryIsSound, StatusQuiet

\* A step that writes no job row is quiet.
LEMMA SameRowsAreQuiet == ASSUME UNCHANGED <<created, job>> PROVE StatusQuiet
BY DEF StatusQuiet, Started

\* A step that touches no run is quiet.
LEMMA SameRunsAreQuiet == ASSUME UNCHANGED run PROVE RunQuiet
BY DEF RunQuiet

\* Closing a claimed job leaves it claimed.
LEMMA FinishIsQuiet ==
    ASSUME TypeOK, NEW j \in Jobs, NEW s \in Terminal, Started(j), Finish(j, s),
           UNCHANGED created
    PROVE  StatusQuiet
BY DEF TypeOK, JobsTyped, JobRow, StatusQuiet, Started, Finish, Terminal

\* With no job there is nothing out of order.
LEMMA OrderInit == Init => OrderInv
<1> SUFFICES ASSUME Init PROVE OrderInv
  OBVIOUS
<1>1. TypeOK
  BY TypeInit
<1>2. InOrder
  BY DEF Init, InOrder, IsInjective
<1>3. RunsAreStarted /\ MemoryIsSound
  BY DEF Init, RunsAreStarted, NoRun, MemoryIsSound, NoWork
<1> QED
  BY <1>1, <1>2, <1>3 DEF OrderInv

\* A new job is the last in line.
LEMMA CreateKeepsOrder ==
    ASSUME OrderInv, NEW j \in Jobs, NEW ids \in InputLists, NEW stop \in BOOLEAN,
           CreateJob(j, ids, stop)
    PROVE  InOrder' /\ RunsAreStarted' /\ MemoryIsSound'
<1>1. /\ created \in Seq(Jobs) /\ Len(created) \in Nat
      /\ DOMAIN created = 1 .. Len(created)
      /\ \A n \in DOMAIN created : created[n] \in Jobs
  BY DEF OrderInv, TypeOK, JobsTyped
<1>2. /\ created' = Append(created, j)
      /\ job' = [job EXCEPT ![j] = [status |-> "pending", cancel |-> FALSE, stop |-> stop]]
      /\ job[j].status = "absent"
      /\ run' = run /\ thread' = thread
  BY DEF CreateJob, runs
<1>3. /\ DOMAIN created' = 1 .. Len(created) + 1
      /\ created'[Len(created) + 1] = j
      /\ \A n \in DOMAIN created : created'[n] = created[n] /\ created[n] # j
  BY <1>1, <1>2 DEF OrderInv, InOrder
<1>4. /\ \A k \in Jobs : k # j => job'[k] = job[k]
      /\ job'[j].status = "pending" /\ ~Started(j)' /\ ~Started(j)
  BY <1>2 DEF OrderInv, TypeOK, JobsTyped, Started, Terminal
<1>5. \A k \in Jobs : Started(k)' = Started(k)
  BY <1>4 DEF Started
<1>6. InOrder'
  <2>1. IsInjective(created')
    BY <1>1, <1>3 DEF OrderInv, InOrder, IsInjective
  <2>2. \A n \in DOMAIN created' : job'[created'[n]].status # "absent"
    BY <1>1, <1>3, <1>4 DEF OrderInv, InOrder
  <2>3. ASSUME NEW m \in DOMAIN created', NEW n \in DOMAIN created',
               m < n, Started(created[n])'
        PROVE  Started(created[m])'
    <3>1. n \in DOMAIN created
      BY <1>1, <1>3, <1>4, <2>3 DEF Started
    <3>2. m \in DOMAIN created
      BY <1>1, <1>3, <2>3, <3>1
    <3> QED
      BY <1>1, <1>3, <1>5, <2>3, <3>1, <3>2 DEF OrderInv, InOrder, Started
  <2> QED
    BY <2>1, <2>2, <2>3 DEF InOrder
<1>7. RunsAreStarted'
  BY <1>2, <1>5 DEF OrderInv, RunsAreStarted
<1>8. MemoryIsSound'
  <2> SUFFICES ASSUME NEW t \in Threads, NEW k \in thread[t].job
               PROVE  /\ thread[t].at \in {"reapItems", "reapSkip", "reapJobs"} => Started(k)'
                      /\ thread[t].at = "found" =>
                            \E n \in DOMAIN created' :
                                /\ created'[n] = k
                                /\ \A m \in 1 .. n - 1 : Started(created[m])'
    BY <1>2 DEF MemoryIsSound
  <2>1. k \in Jobs
    BY DEF OrderInv, TypeOK, ThreadsTyped
  <2>2. thread[t].at \in {"reapItems", "reapSkip", "reapJobs"} => Started(k)'
    BY <1>5, <2>1 DEF OrderInv, MemoryIsSound
  <2>3. ASSUME thread[t].at = "found"
        PROVE  \E n \in DOMAIN created' :
                   /\ created'[n] = k
                   /\ \A m \in 1 .. n - 1 : Started(created[m])'
    <3>1. PICK n \in DOMAIN created :
            created[n] = k /\ \A m \in 1 .. n - 1 : Started(created[m])
      BY <2>3 DEF OrderInv, MemoryIsSound
    <3>2. \A m \in 1 .. n - 1 : m \in DOMAIN created
      BY <1>1, <3>1
    <3>3. n \in DOMAIN created' /\ created'[n] = k
      BY <1>1, <1>3, <3>1
    <3>4. \A m \in 1 .. n - 1 : Started(created[m])'
      BY <1>1, <1>3, <1>5, <3>1, <3>2 DEF Started
    <3> QED
      BY <3>3, <3>4
  <2> QED
    BY <2>2, <2>3
<1> QED
  BY <1>6, <1>7, <1>8

\* A claim takes a job behind which nobody waits.
LEMMA ClaimKeepsOrder ==
    ASSUME OrderInv, NEW t \in Threads, ClaimJob(t)
    PROVE  InOrder' /\ RunsAreStarted' /\ MemoryIsSound'
<1>1. /\ thread[t].at = "found" /\ thread[t].job \in SUBSET Jobs /\ UNCHANGED created
      /\ \A n \in DOMAIN created : created[n] \in Jobs /\ \A m \in 1 .. n - 1 : created[m] \in Jobs
  BY DEF ClaimJob, OrderInv, TypeOK, ThreadsTyped, JobsTyped
<1>2. PICK j \in thread[t].job :
        \/ /\ Claimable(j)
           /\ job' = [job EXCEPT ![j].status = "running"]
           /\ run' = [run EXCEPT ![j].phase = "load", ![j].owner = t]
           /\ Move(t, "running", {j})
        \/ Move(t, "idle", {}) /\ UNCHANGED <<job, run>>
  BY DEF ClaimJob
<1>3. \A u \in Threads : \/ thread'[u] = thread[u]
                         \/ thread'[u].at \notin {"reapItems", "reapSkip", "reapJobs", "found"}
  BY <1>2 DEF Move, OrderInv, TypeOK, ThreadsTyped
<1>4. CASE UNCHANGED <<job, run>>
  BY <1>1, <1>3, <1>4, SameRowsAreQuiet, SameRunsAreQuiet, QuietKeepsOrder, QuietKeepsRuns, QuietKeepsMemory
     DEF OrderInv
<1>5. CASE /\ Claimable(j)
           /\ job' = [job EXCEPT ![j].status = "running"]
           /\ run' = [run EXCEPT ![j].phase = "load", ![j].owner = t]
  <2>1. /\ \A k \in Jobs : Started(k)' = (k = j \/ Started(k))
        /\ \A k \in Jobs : job[k].status # "absent" => job'[k].status # "absent"
    BY <1>1, <1>5 DEF OrderInv, TypeOK, JobsTyped, JobRow, Started
  <2>2. PICK n \in DOMAIN created :
            created[n] = j /\ \A m \in 1 .. n - 1 : Started(created[m])
    BY <1>1 DEF OrderInv, MemoryIsSound
  <2>3. InOrder'
    <3>1. created \in Seq(Jobs) /\ IsInjective(created)
      BY DEF OrderInv, TypeOK, JobsTyped, InOrder
    <3>2. ASSUME NEW a \in DOMAIN created, NEW b \in DOMAIN created,
                 a < b, Started(created[b])'
          PROVE  Started(created[a])'
      <4>1. CASE created[b] = j
        <5>1. a \in 1 .. n - 1
          BY <2>2, <3>1, <3>2, <4>1 DEF IsInjective
        <5> QED
          BY <1>1, <2>1, <2>2, <5>1 DEF Started
      <4>2. CASE created[b] # j
        BY <1>1, <2>1, <3>2, <4>2 DEF OrderInv, InOrder, Started
      <4> QED
        BY <4>1, <4>2
    <3> QED
      BY <1>1, <2>1, <3>1, <3>2 DEF OrderInv, InOrder
  <2>4. RunsAreStarted'
    <3>1. run'[j].phase = "load" /\ \A k \in Jobs : k # j => run'[k] = run[k]
      BY <1>1, <1>5 DEF OrderInv, TypeOK, RunTyped, RunCtx
    <3> QED
      BY <2>1, <3>1 DEF OrderInv, RunsAreStarted, Started
  <2>5. MemoryIsSound'
    <3> SUFFICES ASSUME NEW u \in Threads, NEW k \in thread'[u].job, thread'[u] = thread[u]
                 PROVE  /\ thread[u].at \in {"reapItems", "reapSkip", "reapJobs"} => Started(k)'
                        /\ thread[u].at = "found" =>
                              \E m \in DOMAIN created :
                                  /\ created[m] = k
                                  /\ \A a \in 1 .. m - 1 : Started(created[a])'
      BY <1>1, <1>3 DEF MemoryIsSound
    <3>1. k \in Jobs
      BY DEF OrderInv, TypeOK, ThreadsTyped
    <3> QED
      BY <1>1, <2>1, <3>1 DEF OrderInv, MemoryIsSound, Started
  <2> QED
    BY <2>3, <2>4, <2>5
<1> QED
  BY <1>2, <1>4, <1>5

\* The other steps of a drain chain: the search finds the oldest pending job, the
\* reaper remembers and closes only claimed ones.
LEMMA ChainKeepsOrder ==
    ASSUME OrderInv, NEW t \in Threads,
           ReapStep(t) \/ FindJob(t) \/ FindNothing(t) \/ Wake(t) \/ RunReturns(t)
                \/ StartThread(t) \/ StopThread(t)
    PROVE  InOrder' /\ RunsAreStarted' /\ MemoryIsSound'
<1>1. /\ TypeOK /\ InOrder /\ RunsAreStarted /\ MemoryIsSound
      /\ thread[t].job \in SUBSET Jobs
      /\ \A u \in Threads : thread[u].job \in SUBSET Jobs
  BY DEF OrderInv, TypeOK, ThreadsTyped
<1>2. UNCHANGED run
  BY DEF ReapStep, ReapFind, ReapItems, ReapSkip, ReapJobs, FindJob, FindNothing, Wake,
         RunReturns, StartThread, StopThread, runs
<1>3. StatusQuiet
  <2>1. CASE ReapJobs(t)
    <3>1. \A j \in thread[t].job : Started(j)
      BY <1>1, <2>1 DEF ReapJobs, MemoryIsSound
    <3>2. ASSUME NEW j \in Jobs
          PROVE  /\ Started(j)' = Started(j)
                 /\ job[j].status # "absent" => job'[j].status # "absent"
      <4>1. job'[j] = IF j \in thread[t].job THEN ReapedRow(job[j]) ELSE job[j]
        BY <2>1 DEF ReapJobs
      <4>2. job[j] \in JobRow
        BY <1>1 DEF TypeOK, JobsTyped
      <4> QED
        BY <3>1, <4>1, <4>2 DEF ReapedRow, JobRow, Started, Terminal
    <3> QED
      BY <2>1, <3>2 DEF StatusQuiet, ReapJobs
  <2>2. CASE ~ReapJobs(t)
    BY <2>2, SameRowsAreQuiet
       DEF ReapStep, ReapFind, ReapItems, ReapSkip, FindJob, FindNothing, Wake,
           RunReturns, StartThread, StopThread, rows
  <2> QED
    BY <2>1, <2>2
<1>4. MemoryIsSound'
  <2>1. CASE FindJob(t)
    <3>1. PICK n \in DOMAIN created : OldestPending(n) /\ Move(t, "found", {created[n]})
      BY <2>1 DEF FindJob
    <3>2. created' = created /\ job' = job
      BY <2>1 DEF FindJob, rows
    <3>3. \A m \in 1 .. n - 1 : m \in DOMAIN created /\ Started(created[m])
      BY <1>1, <3>1 DEF TypeOK, JobsTyped, JobRow, JobStatus, InOrder, OldestPending, Started
    <3>4. \A u \in Threads : u # t => thread'[u] = thread[u]
      BY <1>1, <3>1 DEF Move, TypeOK, ThreadsTyped
    <3>5. thread'[t] = [at |-> "found", job |-> {created[n]}]
      BY <1>1, <3>1 DEF Move, TypeOK, ThreadsTyped
    <3> QED
      BY <1>1, <3>1, <3>2, <3>3, <3>4, <3>5 DEF MemoryIsSound, Started
  <2>2. CASE ReapFind(t) \/ ReapItems(t) \/ ReapSkip(t)
    <3>1. PICK a \in ThreadAt \ {"found"}, S \in SUBSET Jobs :
            /\ Move(t, a, S)
            /\ \A j \in S : Started(j)
      <4>1. \A j \in Stuck : Started(j)
        BY DEF Stuck, Started
      <4>2. Stuck \in SUBSET Jobs
        BY DEF Stuck
      <4>3. CASE ReapFind(t)
        BY <4>1, <4>2, <4>3 DEF ReapFind, ThreadAt
      <4>4. CASE ReapItems(t) \/ ReapSkip(t)
        BY <1>1, <4>4 DEF ReapItems, ReapSkip, MemoryIsSound, ThreadAt
      <4> QED
        BY <2>2, <4>3, <4>4
    <3>2. \A u \in Threads : u # t => thread'[u] = thread[u]
      BY <1>1, <3>1 DEF Move, TypeOK, ThreadsTyped
    <3>3. thread'[t] = [at |-> a, job |-> S]
      BY <1>1, <3>1 DEF Move, TypeOK, ThreadsTyped
    <3>4. created' = created /\ job' = job
      BY <2>2 DEF ReapFind, ReapItems, ReapSkip, rows
    <3> QED
      BY <1>1, <3>1, <3>2, <3>3, <3>4 DEF MemoryIsSound, Started
  <2>3. CASE ReapJobs(t) \/ FindNothing(t) \/ Wake(t) \/ RunReturns(t)
                \/ StartThread(t) \/ StopThread(t)
    <3>1. \E a \in {"ready", "idle", "reap", "off"} : Move(t, a, {})
      BY <2>3 DEF ReapJobs, FindNothing, Wake, RunReturns, StartThread, StopThread
    <3>2. \A u \in Threads : \/ thread'[u] = thread[u]
                             \/ thread'[u].at \notin {"reapItems", "reapSkip", "reapJobs", "found"}
      BY <1>1, <3>1 DEF Move, TypeOK, ThreadsTyped
    <3> QED
      BY <1>1, <1>3, <3>2, QuietKeepsMemory
  <2> QED
    BY <2>1, <2>2, <2>3 DEF ReapStep
<1> QED
  BY <1>1, <1>2, <1>3, <1>4, SameRunsAreQuiet, QuietKeepsOrder, QuietKeepsRuns

\* A step of a run goes from one phase to another, and closes only claimed jobs.
LEMMA RunStepIsQuiet ==
    ASSUME TypeOK, RunsAreStarted, NEW j \in Jobs, RunStep(j) \/ RunDbFails(j)
    PROVE  StatusQuiet /\ RunQuiet /\ UNCHANGED thread
<1> USE DEF TypeOK, RunTyped, RunCtx, RunQuiet
<1>1. CASE LoadJob(j)
  <2>1. UNCHANGED <<created, job, thread>>
    BY <1>1 DEF LoadJob, rows
  <2>2. RunQuiet
    <3>1. \/ run' = [run EXCEPT ![j].phase = "retire"]
          \/ run' = [run EXCEPT ![j].phase = "canary", ![j].items = itemServer[j]]
      BY <1>1 DEF LoadJob, SetPhase
    <3>2. run[j].phase = "load"
      BY <1>1 DEF LoadJob
    <3>3. /\ \A k \in Jobs : k # j => run'[k] = run[k]
          /\ run'[j].owner = run[j].owner
          /\ run'[j].phase \in {"retire", "canary"}
      BY <3>1
    <3> QED
      BY <3>2, <3>3
  <2> QED
    BY <2>1, <2>2, SameRowsAreQuiet
<1>2. CASE RetireJob(j)
  <2>1. Started(j) /\ Finish(j, "failed") /\ "failed" \in Terminal /\ UNCHANGED <<created, thread>>
    BY <1>2, VerdictType DEF RetireJob, RunsAreStarted, Terminal
  <2>2. RunQuiet
    BY <1>2 DEF RetireJob, SetPhase
  <2> QED
    BY <2>1, <2>2, FinishIsQuiet
<1>3. CASE RetireItems(j)
  BY <1>3, SameRowsAreQuiet DEF RetireItems, SetPhase, rows
<1>4. CASE AfterCanary(j)
  <2>1. UNCHANGED <<created, job, thread>>
    BY <1>4 DEF AfterCanary, rows
  <2>2. RunQuiet
    <3>1. \E p \in {"fanout", "sweep"} : run' = [run EXCEPT ![j].phase = p]
      BY <1>4 DEF AfterCanary, SetPhase
    <3>2. run[j].phase = "canary"
      BY <1>4 DEF AfterCanary
    <3> QED
      BY <3>1, <3>2
  <2> QED
    BY <2>1, <2>2, SameRowsAreQuiet
<1>5. CASE AfterFanout(j)
  BY <1>5, SameRowsAreQuiet DEF AfterFanout, SetPhase, rows
<1>6. CASE SweepCancel(j)
  BY <1>6, SameRowsAreQuiet DEF SweepCancel, rows
<1>7. CASE SkipPending(j)
  BY <1>7, SameRowsAreQuiet DEF SkipPending, SetPhase, rows
<1>8. CASE CountFailures(j)
  BY <1>8, SameRowsAreQuiet DEF CountFailures, rows
<1>9. CASE FinishJob(j)
  <2>1. Started(j) /\ Finish(j, Verdict(run[j])) /\ Verdict(run[j]) \in Terminal /\ UNCHANGED <<created, thread>>
    BY <1>9, VerdictType DEF FinishJob, RunsAreStarted, Terminal
  <2>2. RunQuiet
    BY <1>9 DEF FinishJob, SetPhase
  <2> QED
    BY <2>1, <2>2, FinishIsQuiet
<1>10. CASE JournalJob(j)
  BY <1>10, SameRowsAreQuiet DEF JournalJob, SetPhase, rows
<1>11. CASE RunDbFails(j)
  BY <1>11, SameRowsAreQuiet DEF RunDbFails, SetPhase, rows
<1> QED
  BY <1>1, <1>2, <1>3, <1>4, <1>5, <1>6, <1>7, <1>8, <1>9, <1>10, <1>11 DEF RunStep

\* A step of a worker writes no job row and ends at most the canary's run.
LEMMA WorkerStepIsQuiet ==
    ASSUME TypeOK, NEW j \in Jobs, NEW w \in Workers, WorkerStep(j, w) \/ WorkerDbFails(j, w)
    PROVE  StatusQuiet /\ RunQuiet /\ UNCHANGED thread
<1> USE DEF TypeOK, RunTyped, RunCtx, RunQuiet
<1>1. CASE TakeItem(j, w)
  <2>1. UNCHANGED <<created, job, thread>>
    BY <1>1 DEF TakeItem, rows
  <2>2. RunQuiet
    BY <1>1 DEF TakeItem
  <2> QED
    BY <2>1, <2>2, SameRowsAreQuiet
<1>2. CASE CheckCancel(j, w) \/ MarkRunning(j, w) \/ LoadClient(j, w)
  BY <1>2, SameRowsAreQuiet, SameRunsAreQuiet DEF CheckCancel, MarkRunning, LoadClient, rows
<1>3. CASE \E ok \in BOOLEAN : PanelAnswers(j, w, ok)
  BY <1>3, SameRowsAreQuiet, SameRunsAreQuiet DEF PanelAnswers, rows
<1>4. CASE RecordResult(j, w)
  BY <1>4, SameRowsAreQuiet DEF RecordResult
<1>5. CASE WorkerDbFails(j, w)
  <2>1. UNCHANGED <<created, job, thread>>
    BY <1>5 DEF WorkerDbFails, rows
  <2>2. RunQuiet
    <3>1. UNCHANGED run \/ run' = [run EXCEPT ![j].phase = IF @ = "canary" THEN "thrown" ELSE @]
      BY <1>5 DEF WorkerDbFails
    <3>2. CASE UNCHANGED run
      BY <3>2
    <3>3. CASE run' = [run EXCEPT ![j].phase = IF @ = "canary" THEN "thrown" ELSE @]
      <4>1. /\ \A k \in Jobs : k # j => run'[k] = run[k]
            /\ run'[j].owner = run[j].owner
            /\ run'[j].phase = IF run[j].phase = "canary" THEN "thrown" ELSE run[j].phase
        BY <3>3
      <4> QED
        BY <4>1
    <3> QED
      BY <3>1, <3>2, <3>3
  <2> QED
    BY <2>1, <2>2, SameRowsAreQuiet
<1> QED
  BY <1>1, <1>2, <1>3, <1>4, <1>5 DEF WorkerStep

\* Chains that die forget; the runs they owned are lost, not undone.
LEMMA DeathIsQuiet ==
    ASSUME TypeOK, RunsAreStarted, NEW S \in SUBSET Threads, ThreadsDie(S)
    PROVE  /\ StatusQuiet /\ RunQuiet
           /\ \A u \in Threads :
                \/ thread'[u] = thread[u]
                \/ thread'[u].at \notin {"reapItems", "reapSkip", "reapJobs", "found"}
<1>1. UNCHANGED <<created, job>>
  BY DEF ThreadsDie, rows
<1>2. \A u \in Threads : thread'[u] = thread[u] \/ thread'[u].at = "off"
  BY DEF ThreadsDie, NoWork
<1>3. ASSUME NEW j \in Jobs
      PROVE  run'[j].owner = run[j].owner /\ (run'[j].phase = "none" <=> run[j].phase = "none")
  <2>1. CASE run[j].owner \notin S
    BY <2>1 DEF ThreadsDie
  <2>2. CASE run[j].owner \in S
    <3>1. run[j].phase # "none"
      BY <2>2, JobQueueAssumption DEF RunsAreStarted
    <3>2. run'[j] = run[j] \/ run'[j] = [run[j] EXCEPT !.phase = "lost"]
      BY DEF ThreadsDie
    <3>3. run[j] \in RunCtx
      BY DEF TypeOK, RunTyped
    <3> QED
      BY <3>1, <3>2, <3>3 DEF RunCtx
  <2> QED
    BY <2>1, <2>2
<1> QED
  BY <1>1, <1>2, <1>3, SameRowsAreQuiet DEF RunQuiet

\* A chain that fails or dies forgets.
LEMMA ThreadFaultIsQuiet ==
    ASSUME TypeOK, RunsAreStarted, NEW t \in Threads, ThreadDbFails(t) \/ ThreadDies(t)
    PROVE  /\ StatusQuiet /\ RunQuiet
           /\ \A u \in Threads :
                \/ thread'[u] = thread[u]
                \/ thread'[u].at \notin {"reapItems", "reapSkip", "reapJobs", "found"}
<1>1. CASE ThreadDbFails(t)
  <2>1. \E a \in {"ready", "idle"} : Move(t, a, {})
    BY <1>1 DEF ThreadDbFails
  <2>2. UNCHANGED <<created, job, run>>
    BY <1>1 DEF ThreadDbFails, rows, runs
  <2> QED
    BY <2>1, <2>2, SameRowsAreQuiet, SameRunsAreQuiet DEF Move, TypeOK, ThreadsTyped
<1>2. CASE ThreadDies(t)
  <2>1. {t} \in SUBSET Threads /\ ThreadsDie({t})
    BY <1>2 DEF ThreadDies
  <2> QED
    BY <2>1, DeathIsQuiet
<1> QED
  BY <1>1, <1>2

\* A request to stop a job, or to forget a server, claims nothing.
LEMMA RequestIsQuiet ==
    ASSUME TypeOK,
           \/ \E j \in Jobs : RequestCancel(j)
           \/ \E s \in Servers : DeleteServer(s)
    PROVE  StatusQuiet /\ RunQuiet /\ UNCHANGED thread
<1>1. ASSUME NEW j \in Jobs, RequestCancel(j)
      PROVE  StatusQuiet /\ RunQuiet /\ UNCHANGED thread
  <2>1. UNCHANGED <<created, run, thread>>
    BY <1>1 DEF RequestCancel, runs
  <2>2. \A k \in Jobs : job'[k].status = job[k].status
    BY <1>1 DEF RequestCancel, TypeOK, JobsTyped, JobRow
  <2> QED
    BY <2>1, <2>2, SameRunsAreQuiet DEF StatusQuiet, Started
<1>2. ASSUME NEW s \in Servers, DeleteServer(s)
      PROVE  StatusQuiet /\ RunQuiet /\ UNCHANGED thread
  BY <1>2, SameRowsAreQuiet, SameRunsAreQuiet DEF DeleteServer, runs
<1> QED
  BY <1>1, <1>2

\* Every step keeps the jobs in order.
LEMMA OrderStep == OrderInv /\ [Next]_vars => OrderInv'
<1> SUFFICES ASSUME OrderInv, [Next]_vars PROVE OrderInv'
  OBVIOUS
<1>1. TypeOK' /\ TypeOK /\ InOrder /\ RunsAreStarted /\ MemoryIsSound
  BY TypeStep DEF OrderInv
<1>2. ASSUME StatusQuiet, RunQuiet,
             \A u \in Threads :
                \/ thread'[u] = thread[u]
                \/ thread'[u].at \notin {"reapItems", "reapSkip", "reapJobs", "found"}
      PROVE  OrderInv'
  BY <1>1, <1>2, QuietKeepsOrder, QuietKeepsRuns, QuietKeepsMemory DEF OrderInv
<1>3. CASE UNCHANGED vars
  BY <1>2, <1>3, SameRowsAreQuiet, SameRunsAreQuiet DEF vars, rows, runs
<1>4. CASE Request
  <2>1. CASE \E j \in Jobs, ids \in InputLists, stop \in BOOLEAN : CreateJob(j, ids, stop)
    BY <1>1, <2>1, CreateKeepsOrder DEF OrderInv
  <2>2. CASE ~\E j \in Jobs, ids \in InputLists, stop \in BOOLEAN : CreateJob(j, ids, stop)
    BY <1>1, <1>2, <1>4, <2>2, RequestIsQuiet DEF Request
  <2> QED
    BY <2>1, <2>2
<1>5. ASSUME NEW j \in Jobs, RunStep(j) \/ RunDbFails(j) PROVE OrderInv'
  BY <1>1, <1>2, <1>5, RunStepIsQuiet
<1>6. ASSUME NEW j \in Jobs, NEW w \in Workers, WorkerStep(j, w) \/ WorkerDbFails(j, w)
      PROVE  OrderInv'
  BY <1>1, <1>2, <1>6, WorkerStepIsQuiet
<1>7. ASSUME NEW t \in Threads, ThreadDbFails(t) \/ ThreadDies(t) PROVE OrderInv'
  BY <1>1, <1>2, <1>7, ThreadFaultIsQuiet
<1>8. ASSUME NEW t \in Threads, ThreadStep(t) \/ StartThread(t) \/ StopThread(t) PROVE OrderInv'
  <2>1. InOrder' /\ RunsAreStarted' /\ MemoryIsSound'
    BY <1>8, ClaimKeepsOrder, ChainKeepsOrder DEF ThreadStep, DrainStep
  <2> QED
    BY <1>1, <2>1 DEF OrderInv
<1>9. CASE Work
  BY <1>5, <1>6, <1>8, <1>9 DEF Work
<1>10. CASE Fault
  BY <1>5, <1>6, <1>7, <1>10 DEF Fault
<1> QED
  BY <1>3, <1>4, <1>8, <1>9, <1>10 DEF Next

\* So do chains that die together with the process they live in.
LEMMA DeathKeepsOrder ==
    ASSUME OrderInv, NEW S \in SUBSET Threads, ThreadsDie(S), FaultsTyped' PROVE OrderInv'
BY DeathTypes, DeathIsQuiet, QuietKeepsOrder, QuietKeepsRuns, QuietKeepsMemory DEF OrderInv

\* In an ordered state the claimed jobs are the oldest ones.
LEMMA SoundOrder == OrderInv => ClaimOrder
<1> SUFFICES ASSUME OrderInv, NEW m \in DOMAIN created, NEW n \in DOMAIN created,
                    m < n, job[created[n]].status # "pending"
             PROVE  job[created[m]].status # "pending"
  BY DEF ClaimOrder
<1>1. created[n] \in Jobs /\ job[created[n]] \in JobRow
  BY DEF OrderInv, TypeOK, JobsTyped
<1>2. Started(created[n])
  BY <1>1 DEF OrderInv, InOrder, JobRow, JobStatus, Started
<1>3. Started(created[m])
  BY <1>2 DEF OrderInv, InOrder
<1> QED
  BY <1>3 DEF Started, Terminal

\* Jobs are claimed in the order they were created, however many leaders overlap,
\* die or reap meanwhile (queue.ts:107-123).
THEOREM ClaimsInOrder == Spec => []ClaimOrder
  BY SoundOrder, OrderInit, OrderStep, PTL DEF Spec

\* Leadership that passes on only when nothing of the old leader is left is a special
\* case of overlapping leaders, so what is proved of Spec holds of SoleSpec too.
THEOREM SoleIsSpec == SoleSpec => Spec
<1>1. [SoleNext]_vars => [Next]_vars
  <2>1. SoleNext => Next
    BY DEF SoleNext, Next, SoleStart
  <2> QED
    BY <2>1
<1> QED
  BY <1>1, PTL DEF SoleSpec, Spec

-----------------------------------------------------------------------------
(* What the runs of one job keep, whatever leaders overlap: where its      *)
(* workers stand, which servers they have touched, and what the rows say.  *)

\* A worker inside runItem.
Inside(j, w) == worker[j][w].at \notin {"off", "next"}

\* Phases in which no item has been taken up.
NotYet == {"none", "load", "retire", "retireItems"}

Untouched(j, i) == did[j][i] = "no"

\* The canary runs alone; the workers of the fan-out hold distinct items, all of them
\* past the canary and before the cursor; outside both nobody works.
WorkersInPlace(j) ==
    /\ run[j].phase \notin {"canary", "fanout"} => \A w \in Workers : worker[j][w].at = "off"
    /\ run[j].phase = "canary" =>
        /\ worker[j][CanaryWorker].at # "next"
        /\ Inside(j, CanaryWorker) => worker[j][CanaryWorker].pos = 1
        /\ \A w \in Workers \ {CanaryWorker} : worker[j][w].at = "off"
    /\ run[j].phase \in NotYet \cup {"canary"} => run[j].cursor = 2
    /\ run[j].phase \in NotYet => ~run[j].halted
    /\ run[j].cursor >= 2
    /\ \A w \in Workers : Inside(j, w) =>
        /\ worker[j][w].pos < run[j].cursor
        /\ run[j].phase = "fanout" => worker[j][w].pos >= 2
        /\ \A v \in Workers : Inside(j, v) /\ worker[j][v].pos = worker[j][w].pos => v = w

\* A server is touched only between creds and record, by the worker that holds its item.
TouchedInTurn(j) ==
    /\ run[j].phase \in NotYet => \A i \in Positions : Untouched(j, i)
    /\ \A i \in Positions : i >= run[j].cursor => Untouched(j, i)
    /\ \A w \in Workers :
        /\ worker[j][w].at \in {"check", "mark", "creds"} => Untouched(j, worker[j][w].pos)
        /\ worker[j][w].at = "panel" => did[j][worker[j][w].pos] = "busy"
        /\ worker[j][w].at = "record" => did[j][worker[j][w].pos] # "busy"
        /\ worker[j][w].at = "record" /\ worker[j][w].ok => did[j][worker[j][w].pos] = "ok"
        /\ worker[j][w].at = "regret" => did[j][worker[j][w].pos] = "ok"

\* From its mark on an item is running or, once a reaper has passed, failed.
ItemsFollow(j) ==
    /\ \A i \in Positions :
        /\ itemStatus[j][i] \in {"absent", "pending", "skipped"} => Untouched(j, i)
        /\ itemStatus[j][i] = "succeeded" => did[j][i] = "ok"
    /\ \A w \in Workers : worker[j][w].at \in {"creds", "panel", "record", "regret"} =>
        itemStatus[j][worker[j][w].pos] \in {"running", "failed"}

\* While the canary's panel works the cursor has not moved; a job that stops on errors
\* fans out past a canary that did not succeed only when it is cancelled, and then no
\* worker gets beyond its check.
CanaryAlone(j) ==
    /\ did[j][1] = "busy" => run[j].cursor = 2
    /\ run[j].phase = "canary" /\ worker[j][CanaryWorker].at = "off" =>
        /\ did[j][1] # "busy"
        /\ ~run[j].halted /\ job[j].stop => did[j][1] = "ok" \/ job[j].cancel
    /\ run[j].phase = "fanout" => did[j][1] # "busy"
    /\ job[j].stop /\ did[j][1] # "ok" =>
        /\ \A i \in Positions \ {1} : Untouched(j, i)
        /\ run[j].phase = "fanout" =>
            job[j].cancel /\ \A w \in Workers : worker[j][w].at \in {"next", "check", "off"}

\* The workers that stand at one of the places S.
At(j, S) == {w \in Workers : worker[j][w].at \in S}
PastCheck == {"mark", "creds"}
PastTake == {"check", "mark", "creds"}

\* The servers touched after a cancellation and the workers that may still touch one are
\* together at most the workers; after a halt at most the workers without the one that
\* recorded the failure.
StopsSoon(j) ==
    /\ ~job[j].cancel => late[j].cancel = 0
    /\ job[j].cancel => late[j].cancel + Cardinality(At(j, PastCheck)) <= Concurrency
    /\ ~run[j].halted => late[j].halt = 0
    /\ run[j].halted => late[j].halt + Cardinality(At(j, PastTake)) <= Concurrency - 1
    /\ run[j].phase \in NotYet => late[j].cancel = 0

JobSound(j) ==
    WorkersInPlace(j) /\ TouchedInTurn(j) /\ ItemsFollow(j) /\ CanaryAlone(j) /\ StopsSoon(j)

QueueInv == OrderInv /\ \A j \in Jobs : JobSound(j)

\* The fields of one job's state, each with its type.
JobFields(j) ==
    /\ job[j].cancel \in BOOLEAN /\ job[j].stop \in BOOLEAN
    /\ run[j].halted \in BOOLEAN /\ run[j].cursor \in Nat
    /\ \A w \in Workers : /\ worker[j][w].pos \in Positions
                          /\ worker[j][w].at \in WorkerAt
                          /\ worker[j][w].ok \in BOOLEAN
    /\ late[j].cancel \in Nat /\ late[j].halt \in Nat
    /\ 1 \in Positions /\ Positions \subseteq Nat
    /\ 1 \in Workers

\* The fields of one job have their types.
LEMMA FieldTypes == ASSUME TypeOK, NEW j \in Jobs PROVE JobFields(j)
<1>1. 1 \in Positions /\ Positions \subseteq Nat /\ 1 \in Workers
  BY JobQueueAssumption DEF Positions, Workers
<1>2. /\ job[j] \in JobRow /\ run[j] \in RunCtx
      /\ \A w \in Workers : worker[j][w] \in WorkerCtx
      /\ late[j] \in [halt : Nat, cancel : Nat]
  BY DEF TypeOK, JobsTyped, RunTyped, WorkersTyped, HistoryTyped
<1> QED
  BY <1>1, <1>2 DEF JobFields, JobRow, RunCtx, WorkerCtx

\* Any set of workers is finite, and it is smaller than all of them if one is missing.
LEMMA WorkersAt ==
    ASSUME NEW j \in Jobs, NEW S
    PROVE  /\ IsFiniteSet(At(j, S))
           /\ Cardinality(At(j, S)) \in Nat
           /\ Cardinality(At(j, S)) <= Concurrency
           /\ \A w \in Workers : w \notin At(j, S) => Cardinality(At(j, S)) <= Concurrency - 1
<1>1. IsFiniteSet(Workers) /\ Cardinality(Workers) = Concurrency
  BY FS_Interval, JobQueueAssumption DEF Workers
<1>2. At(j, S) \subseteq Workers
  BY DEF At
<1>3. IsFiniteSet(At(j, S)) /\ Cardinality(At(j, S)) <= Concurrency /\ Cardinality(At(j, S)) \in Nat
  BY <1>1, <1>2, FS_Subset, FS_CardinalityType
<1>4. ASSUME NEW w \in Workers, w \notin At(j, S)
      PROVE  Cardinality(At(j, S)) <= Concurrency - 1
  <2>1. IsFiniteSet(Workers \ {w}) /\ Cardinality(Workers \ {w}) = Concurrency - 1
    BY <1>1, FS_RemoveElement
  <2>2. At(j, S) \subseteq Workers \ {w}
    BY <1>2, <1>4
  <2> QED
    BY <2>1, <2>2, FS_Subset
<1> QED
  BY <1>3, <1>4

\* The same, after a step.
LEMMA WorkersAtNext ==
    ASSUME NEW j \in Jobs, NEW S
    PROVE  /\ IsFiniteSet(At(j, S)')
           /\ Cardinality(At(j, S)') \in Nat
           /\ Cardinality(At(j, S)') <= Concurrency
           /\ \A w \in Workers : w \notin At(j, S)' => Cardinality(At(j, S)') <= Concurrency - 1
<1> DEFINE A == {w \in Workers : worker'[j][w].at \in S}
<1>1. IsFiniteSet(Workers) /\ Cardinality(Workers) = Concurrency
  BY FS_Interval, JobQueueAssumption DEF Workers
<1>2. A \subseteq Workers /\ At(j, S)' = A
  BY DEF At
<1> HIDE DEF A
<1>3. IsFiniteSet(A) /\ Cardinality(A) <= Concurrency /\ Cardinality(A) \in Nat
  BY <1>1, <1>2, FS_Subset, FS_CardinalityType
<1>4. ASSUME NEW w \in Workers, w \notin A
      PROVE  Cardinality(A) <= Concurrency - 1
  <2>1. IsFiniteSet(Workers \ {w}) /\ Cardinality(Workers \ {w}) = Concurrency - 1
    BY <1>1, FS_RemoveElement
  <2>2. A \subseteq Workers \ {w}
    BY <1>2, <1>4
  <2> QED
    BY <2>1, <2>2, FS_Subset
<1> QED
  BY <1>2, <1>3, <1>4

-----------------------------------------------------------------------------
(* Steps that leave a job's run alone, and steps that end its work.        *)

\* What a reaper does to the items of a job, or nothing.
ItemsReaped(j) ==
    \A i \in Positions :
        \/ itemStatus'[j][i] = itemStatus[j][i]
        \/ itemStatus[j][i] = "pending" /\ itemStatus'[j][i] = "skipped"
        \/ itemStatus[j][i] = "running" /\ itemStatus'[j][i] = "failed"

SameFlags(j) == job'[j].cancel = job[j].cancel /\ job'[j].stop = job[j].stop
SameHistory(j) == did'[j] = did[j] /\ late'[j] = late[j]

\* The job's run does nothing; its row may be closed and its items reaped.
RunRests(j) ==
    /\ run'[j] = run[j] /\ worker'[j] = worker[j]
    /\ SameFlags(j) /\ SameHistory(j) /\ ItemsReaped(j)

\* The job's run moves to a phase in which nobody works.
RunSettles(j) ==
    /\ \A w \in Workers : worker'[j][w].at = "off"
    /\ run'[j].phase \notin {"canary", "fanout"}
    /\ run'[j].phase \in NotYet => run[j].phase \in NotYet
    /\ run'[j].cursor = run[j].cursor /\ run'[j].halted = run[j].halted
    /\ SameFlags(j) /\ SameHistory(j) /\ ItemsReaped(j)

\* A job whose run rests stays sound.
LEMMA RestingKeeps ==
    ASSUME TypeOK, NEW j \in Jobs, JobSound(j), RunRests(j) PROVE JobSound(j)'
<1>1. WorkersInPlace(j)'
  BY DEF JobSound, RunRests, WorkersInPlace, Inside
<1>2. TouchedInTurn(j)'
  BY DEF JobSound, RunRests, SameHistory, TouchedInTurn, Untouched
<1>3. ItemsFollow(j)'
  <2>1. ItemsFollow(j) /\ worker'[j] = worker[j] /\ did'[j] = did[j] /\ ItemsReaped(j)
    BY DEF JobSound, RunRests, SameHistory
  <2>2. \A w \in Workers : worker[j][w].pos \in Positions
    BY FieldTypes DEF JobFields
  <2>3. \A w \in Workers : worker[j][w].at \in {"creds", "panel", "record", "regret"} =>
            itemStatus'[j][worker[j][w].pos] \in {"running", "failed"}
    BY <2>1, <2>2 DEF ItemsReaped, ItemsFollow
  <2>4. \A i \in Positions :
            /\ itemStatus'[j][i] \in {"absent", "pending", "skipped"} => did[j][i] = "no"
            /\ itemStatus'[j][i] = "succeeded" => did[j][i] = "ok"
    BY <2>1 DEF ItemsReaped, ItemsFollow, Untouched
  <2> QED
    BY <2>1, <2>3, <2>4 DEF ItemsFollow, Untouched
<1>4. CanaryAlone(j)'
  BY DEF JobSound, RunRests, SameFlags, SameHistory, CanaryAlone, Untouched
<1>5. StopsSoon(j)'
  <2>1. At(j, PastCheck)' = At(j, PastCheck) /\ At(j, PastTake)' = At(j, PastTake)
    BY DEF RunRests, At
  <2> QED
    BY <2>1 DEF JobSound, RunRests, SameFlags, SameHistory, StopsSoon
<1> QED
  BY <1>1, <1>2, <1>3, <1>4, <1>5 DEF JobSound

\* A job whose run settles stays sound.
LEMMA SettlingKeeps ==
    ASSUME TypeOK, NEW j \in Jobs, JobSound(j), RunSettles(j) PROVE JobSound(j)'
<1>1. WorkersInPlace(j)'
  BY DEF JobSound, RunSettles, WorkersInPlace, Inside, NotYet
<1>2. TouchedInTurn(j)'
  BY DEF JobSound, RunSettles, SameHistory, TouchedInTurn, Untouched
<1>3. ItemsFollow(j)'
  BY DEF JobSound, RunSettles, SameHistory, ItemsReaped, ItemsFollow, Untouched
<1>4. CanaryAlone(j)'
  BY DEF JobSound, RunSettles, SameFlags, SameHistory, CanaryAlone, Untouched
<1>5. StopsSoon(j)'
  <2>1. At(j, PastCheck)' = {} /\ At(j, PastTake)' = {}
    BY DEF RunSettles, At, PastCheck, PastTake
  <2>2. Cardinality({}) = 0
    BY FS_EmptySet
  <2>3. Cardinality(At(j, PastCheck)) \in Nat /\ Cardinality(At(j, PastTake)) \in Nat
    BY WorkersAt
  <2>4. Concurrency \in Nat /\ late[j].cancel \in Nat /\ late[j].halt \in Nat
    BY FieldTypes, JobQueueAssumption DEF JobFields
  <2> QED
    BY <2>1, <2>2, <2>3, <2>4 DEF JobSound, RunSettles, SameFlags, SameHistory, StopsSoon
<1> QED
  BY <1>1, <1>2, <1>3, <1>4, <1>5 DEF JobSound

\* Moving a job to another phase moves nothing else.
LEMMA PhaseMoves ==
    ASSUME RunTyped, NEW j \in Jobs, NEW p, SetPhase(j, p)
    PROVE  /\ run'[j].phase = p
           /\ run'[j].cursor = run[j].cursor /\ run'[j].halted = run[j].halted
           /\ run'[j].items = run[j].items /\ run'[j].cancelled = run[j].cancelled
           /\ run'[j].failures = run[j].failures /\ run'[j].owner = run[j].owner
           /\ \A k \in Jobs : k # j => run'[k] = run[k]
BY DEF RunTyped, RunCtx, SetPhase

\* A step that writes no run and no history lets every job rest, if what it does to the
\* rows is at most to close a job and to reap its items.
LEMMA AllRest ==
    ASSUME UNCHANGED <<run, worker, did, late>>,
           \A k \in Jobs : SameFlags(k) /\ ItemsReaped(k)
    PROVE  \A k \in Jobs : RunRests(k)
BY DEF RunRests, SameHistory

\* An unwritten row keeps its flags.
LEMMA SameRow == ASSUME NEW k \in Jobs, job'[k] = job[k] PROVE SameFlags(k)
BY DEF SameFlags

\* Unwritten items are as they were.
LEMMA SameItems == ASSUME NEW k \in Jobs, itemStatus'[k] = itemStatus[k] PROVE ItemsReaped(k)
BY DEF ItemsReaped

\* Closing a job touches the flags of none.
LEMMA FinishKeepsFlags ==
    ASSUME JobsTyped, NEW j \in Jobs, NEW s, Finish(j, s)
    PROVE  \A k \in Jobs : SameFlags(k)
BY DEF JobsTyped, JobRow, Finish, SameFlags

\* A reaper's turn is a reaping of every job's items.
LEMMA TurnIsReaping ==
    ASSUME NEW t \in Threads, NEW from, NEW to,
           \/ from = "pending" /\ to = "skipped"
           \/ from = "running" /\ to = "failed",
           ReapTurn(t, from, to)
    PROVE  \A k \in Jobs : ItemsReaped(k)
BY DEF ReapTurn, Turn, ItemsReaped

\* Every other step of a drain chain lets the runs rest; a claim starts one.
LEMMA ChainKeepsJobs ==
    ASSUME QueueInv, NEW t \in Threads, ThreadStep(t) \/ StartThread(t) \/ StopThread(t) \/ ThreadDbFails(t)
    PROVE  \A k \in Jobs : JobSound(k)'
<1>1. TypeOK /\ RunsAreStarted /\ \A k \in Jobs : JobSound(k)
  BY DEF QueueInv, OrderInv
<1> SUFFICES ASSUME NEW k \in Jobs PROVE RunRests(k) \/ RunSettles(k)
  BY <1>1, RestingKeeps, SettlingKeeps
<1>2. CASE \/ FindJob(t) \/ FindNothing(t) \/ Wake(t) \/ RunReturns(t) \/ ReapFind(t)
           \/ StartThread(t) \/ StopThread(t) \/ ThreadDbFails(t)
  <2>1. UNCHANGED <<run, worker, did, late, job, itemStatus>>
    BY <1>2 DEF FindJob, FindNothing, Wake, RunReturns, ReapFind, StartThread, StopThread,
                ThreadDbFails, rows, runs, history
  <2> QED
    BY <2>1, AllRest, SameRow, SameItems
<1>3. CASE ReapItems(t) \/ ReapSkip(t)
  <2>1. UNCHANGED <<run, worker, did, late, job>>
    BY <1>3 DEF ReapItems, ReapSkip, runs, history
  <2>2. \A i \in Jobs : ItemsReaped(i)
    BY <1>3, TurnIsReaping DEF ReapItems, ReapSkip
  <2> QED
    BY <2>1, <2>2, AllRest, SameRow
<1>4. CASE ReapJobs(t)
  <2>1. UNCHANGED <<run, worker, did, late, itemStatus>>
    BY <1>4 DEF ReapJobs, runs, history
  <2>2. \A i \in Jobs : SameFlags(i)
    BY <1>1, <1>4 DEF ReapJobs, ReapedRow, SameFlags, TypeOK, JobsTyped, JobRow
  <2> QED
    BY <2>1, <2>2, AllRest, SameItems
<1>5. CASE ClaimJob(t)
  <2>1. thread[t].job \in SUBSET Jobs
    BY <1>1 DEF TypeOK, ThreadsTyped
  <2>2. PICK j \in thread[t].job :
          \/ /\ Claimable(j)
             /\ job' = [job EXCEPT ![j].status = "running"]
             /\ run' = [run EXCEPT ![j].phase = "load", ![j].owner = t]
          \/ UNCHANGED <<job, run>>
    BY <1>5 DEF ClaimJob
  <2>3. UNCHANGED <<worker, did, late, itemStatus>>
    BY <1>5 DEF ClaimJob, history
  <2>4. CASE UNCHANGED <<job, run>>
    <3>1. UNCHANGED <<run, worker, did, late>> /\ \A i \in Jobs : SameFlags(i) /\ ItemsReaped(i)
      BY <2>3, <2>4, SameRow, SameItems
    <3>2. \A i \in Jobs : RunRests(i)
      BY <3>1, AllRest
    <3> QED
      BY <3>2
  <2>5. CASE /\ Claimable(j)
             /\ job' = [job EXCEPT ![j].status = "running"]
             /\ run' = [run EXCEPT ![j].phase = "load", ![j].owner = t]
    <3>1. \A i \in Jobs : SameFlags(i)
      BY <1>1, <2>5 DEF TypeOK, JobsTyped, JobRow, SameFlags
    <3>2. \A i \in Jobs : ItemsReaped(i) /\ SameHistory(i) /\ worker'[i] = worker[i]
      BY <2>3, SameItems DEF SameHistory
    <3>3. CASE k # j
      BY <1>1, <2>5, <3>1, <3>2, <3>3 DEF RunRests, TypeOK, RunTyped
    <3>4. CASE k = j
      <4>1. run[k].phase = "none"
        BY <1>1, <2>5, <3>4 DEF Claimable, RunsAreStarted, Started, Terminal
      <4>2. \A w \in Workers : worker[k][w].at = "off"
        BY <1>1, <4>1 DEF JobSound, WorkersInPlace
      <4>3. run[k] \in RunCtx
        BY <1>1 DEF TypeOK, RunTyped
      <4>4. /\ run'[k].phase = "load" /\ run'[k].cursor = run[k].cursor
            /\ run'[k].halted = run[k].halted
        BY <1>1, <2>5, <3>4, <4>3 DEF TypeOK, RunTyped, RunCtx
      <4> QED
        BY <3>1, <3>2, <4>1, <4>2, <4>4 DEF RunSettles, NotYet
    <3> QED
      BY <3>3, <3>4
  <2> QED
    BY <2>2, <2>4, <2>5
<1> QED
  BY <1>2, <1>3, <1>4, <1>5 DEF ThreadStep, ReapStep, DrainStep

\* When chains die their runs stop where they are; the rows and the servers stay.
LEMMA DeathKeepsJobs ==
    ASSUME QueueInv, NEW S \in SUBSET Threads, ThreadsDie(S)
    PROVE  \A k \in Jobs : JobSound(k)'
<1>1. TypeOK /\ \A k \in Jobs : JobSound(k)
  BY DEF QueueInv, OrderInv
<1> SUFFICES ASSUME NEW k \in Jobs PROVE RunRests(k) \/ RunSettles(k)
  BY <1>1, RestingKeeps, SettlingKeeps
<1>2. SameFlags(k) /\ ItemsReaped(k) /\ SameHistory(k)
  BY SameRow, SameItems DEF ThreadsDie, rows, history, SameHistory
<1>3. \/ run'[k] = run[k] /\ worker'[k] = worker[k]
      \/ run'[k] = [run[k] EXCEPT !.phase = "lost"] /\ worker'[k] = [w \in Workers |-> IdleWorker]
  BY DEF ThreadsDie
<1>4. CASE run'[k] = run[k] /\ worker'[k] = worker[k]
  BY <1>2, <1>4 DEF RunRests
<1>5. CASE run'[k] = [run[k] EXCEPT !.phase = "lost"] /\ worker'[k] = [w \in Workers |-> IdleWorker]
  <2>1. run[k] \in RunCtx
    BY <1>1 DEF TypeOK, RunTyped
  <2>2. \A w \in Workers : worker'[k][w].at = "off"
    BY <1>5 DEF IdleWorker
  <2> QED
    BY <1>2, <1>5, <2>1, <2>2 DEF RunSettles, RunCtx, NotYet
<1> QED
  BY <1>3, <1>4, <1>5

\* A request changes the row of at most one job: a new one, or one that is to stop.
LEMMA RequestKeepsJobs ==
    ASSUME QueueInv, Request
    PROVE  \A k \in Jobs : JobSound(k)'
<1>1. TypeOK /\ RunsAreStarted /\ \A k \in Jobs : JobSound(k)
  BY DEF QueueInv, OrderInv
<1>2. ASSUME NEW s \in Servers, DeleteServer(s) PROVE \A k \in Jobs : JobSound(k)'
  <2>1. UNCHANGED <<run, worker, did, late, job, itemStatus>>
    BY <1>2 DEF DeleteServer, runs, history
  <2> QED
    BY <1>1, <2>1, AllRest, SameRow, SameItems, RestingKeeps
<1>3. ASSUME NEW j \in Jobs, RequestCancel(j), NEW k \in Jobs PROVE JobSound(k)'
  <2>1. /\ run' = run /\ worker' = worker /\ did' = did /\ late' = late
        /\ itemStatus' = itemStatus /\ job' = [job EXCEPT ![j].cancel = TRUE] /\ ~job[j].cancel
    BY <1>3 DEF RequestCancel, runs, history
  <2>2. CASE k # j
    <3>1. ItemsReaped(k) /\ job'[k] = job[k]
      BY <1>1, <2>1, <2>2, SameItems DEF TypeOK, JobsTyped
    <3>2. RunRests(k)
      BY <2>1, <3>1, SameRow DEF RunRests, SameHistory
    <3> QED
      BY <1>1, <3>2, RestingKeeps
  <2>3. CASE k = j
    <3>1. job'[k].cancel = TRUE /\ job'[k].stop = job[k].stop
      BY <1>1, <2>1, <2>3 DEF TypeOK, JobsTyped, JobRow
    <3>2. JobSound(k)
      BY <1>1
    <3>3. WorkersInPlace(k)' /\ TouchedInTurn(k)' /\ ItemsFollow(k)'
      BY <2>1, <3>2 DEF JobSound, WorkersInPlace, TouchedInTurn, ItemsFollow, Inside, Untouched
    <3>4. CanaryAlone(k)'
      BY <2>1, <3>1, <3>2 DEF JobSound, CanaryAlone, Untouched
    <3>5. StopsSoon(k)'
      <4>1. At(k, PastCheck)' = At(k, PastCheck) /\ At(k, PastTake)' = At(k, PastTake)
        BY <2>1 DEF At
      <4>2. late[k].cancel = 0 /\ Cardinality(At(k, PastCheck)) <= Concurrency
        BY <2>1, <2>3, <3>2, WorkersAt DEF JobSound, StopsSoon
      <4>3. Cardinality(At(k, PastCheck)) \in Nat /\ Concurrency \in Nat
        BY WorkersAt, JobQueueAssumption
      <4> QED
        BY <2>1, <3>1, <3>2, <4>1, <4>2, <4>3 DEF JobSound, StopsSoon
    <3> QED
      BY <3>3, <3>4, <3>5 DEF JobSound
  <2> QED
    BY <2>2, <2>3
<1>4. ASSUME NEW j \in Jobs, NEW ids \in InputLists, NEW stop \in BOOLEAN,
             CreateJob(j, ids, stop), NEW k \in Jobs
      PROVE  JobSound(k)'
  <2>1. /\ run' = run /\ worker' = worker /\ did' = did /\ late' = late
        /\ \A i \in Jobs : i # j => itemStatus'[i] = itemStatus[i] /\ job'[i] = job[i]
        /\ job[j].status = "absent"
        /\ job' = [job EXCEPT ![j] = [status |-> "pending", cancel |-> FALSE, stop |-> stop]]
        /\ \A i \in Positions : itemStatus'[j][i] \in {"pending", "absent"}
    BY <1>1, <1>4 DEF CreateJob, runs, history, TypeOK, ItemsTyped
  <2>2. CASE k # j
    BY <1>1, <2>1, <2>2, SameItems, SameRow, RestingKeeps DEF RunRests, SameHistory
  <2>3. CASE k = j
    <3>1. job'[k].cancel = FALSE
      BY <1>1, <2>1, <2>3 DEF TypeOK, JobsTyped
    <3>2. JobSound(k) /\ run[k].phase = "none"
      BY <1>1, <2>1, <2>3 DEF RunsAreStarted, Started, Terminal
    <3>3. \A i \in Positions : Untouched(k, i)
      BY <3>2 DEF JobSound, TouchedInTurn, NotYet
    <3>4. /\ \A w \in Workers : worker[k][w].at = "off"
          /\ ~run[k].halted /\ late[k].cancel = 0 /\ late[k].halt = 0 /\ 1 \in Positions
      BY <1>1, <3>2, FieldTypes DEF JobSound, WorkersInPlace, StopsSoon, NotYet, JobFields
    <3>5. WorkersInPlace(k)' /\ TouchedInTurn(k)'
      BY <2>1, <3>2 DEF JobSound, WorkersInPlace, TouchedInTurn, Inside, Untouched
    <3>6. ItemsFollow(k)'
      BY <2>1, <2>3, <3>3, <3>4 DEF ItemsFollow, Untouched
    <3>7. CanaryAlone(k)'
      BY <2>1, <3>2, <3>3, <3>4 DEF CanaryAlone, Untouched
    <3>8. StopsSoon(k)'
      BY <2>1, <3>1, <3>4 DEF StopsSoon
    <3> QED
      BY <3>5, <3>6, <3>7, <3>8 DEF JobSound
  <2> QED
    BY <2>2, <2>3
<1> QED
  BY <1>2, <1>3, <1>4 DEF Request

-----------------------------------------------------------------------------
(* The steps of a run.                                                     *)

\* Reads of the job's locals that a step of its run may rewrite without moving a worker.
RunMoves(j, q) ==
    /\ run'[j].phase = q
    /\ run'[j].cursor = run[j].cursor /\ run'[j].halted = run[j].halted
    /\ \A k \in Jobs : k # j => run'[k] = run[k]

\* The other jobs rest while one job's run steps.
LEMMA OthersRest ==
    ASSUME QueueInv, NEW j \in Jobs,
           \A k \in Jobs : k # j => /\ run'[k] = run[k] /\ worker'[k] = worker[k]
                                    /\ did'[k] = did[k] /\ late'[k] = late[k]
                                    /\ itemStatus'[k] = itemStatus[k],
           \A k \in Jobs : SameFlags(k),
           JobSound(j)'
    PROVE  \A k \in Jobs : JobSound(k)'
<1>1. ASSUME NEW k \in Jobs, k # j PROVE JobSound(k)'
  <2>1. RunRests(k)
    BY <1>1, SameItems DEF RunRests, SameHistory
  <2> QED
    BY <2>1, RestingKeeps DEF QueueInv, OrderInv
<1> QED
  BY <1>1

\* A run that moves on while nobody works keeps every job sound.
LEMMA SettledRun ==
    ASSUME QueueInv, NEW j \in Jobs, NEW q,
           \A w \in Workers : worker[j][w].at = "off",
           q \notin {"canary", "fanout"}, q \in NotYet => run[j].phase \in NotYet,
           RunMoves(j, q), UNCHANGED <<worker, did, late>>,
           \A k \in Jobs : SameFlags(k) /\ ItemsReaped(k),
           \A k \in Jobs : k # j => itemStatus'[k] = itemStatus[k]
    PROVE  \A k \in Jobs : JobSound(k)'
<1>1. RunSettles(j)
  BY DEF RunSettles, RunMoves, SameHistory
<1>2. JobSound(j)'
  BY <1>1, SettlingKeeps DEF QueueInv, OrderInv
<1> QED
  BY <1>2, OthersRest DEF RunMoves

\* Turning the pending items of a job into skipped ones is a reaping.
LEMMA SkippingIsReaping ==
    ASSUME ItemsTyped, NEW j \in Jobs,
           itemStatus' = [itemStatus EXCEPT ![j] = Turn(@, "pending", "skipped")]
    PROVE  /\ \A k \in Jobs : ItemsReaped(k)
           /\ \A k \in Jobs : k # j => itemStatus'[k] = itemStatus[k]
<1>1. \A i \in Positions : itemStatus'[j][i] = IF itemStatus[j][i] = "pending" THEN "skipped" ELSE itemStatus[j][i]
  BY DEF ItemsTyped, Turn
<1>2. \A k \in Jobs : k # j => itemStatus'[k] = itemStatus[k]
  BY DEF ItemsTyped
<1> QED
  BY <1>1, <1>2 DEF ItemsReaped

\* The canary's entry: the first item is checked, nothing is touched yet.
LEMMA CanaryStarts ==
    ASSUME QueueInv, NEW j \in Jobs, j \notin RetiredJobs, LoadJob(j)
    PROVE  \A k \in Jobs : JobSound(k)'
<1>1. TypeOK /\ JobSound(j) /\ JobFields(j) /\ run[j] \in RunCtx /\ CanaryWorker \in Workers
  BY FieldTypes DEF QueueInv, OrderInv, TypeOK, RunTyped, CanaryWorker, JobFields
<1>2. /\ run[j].phase = "load"
      /\ run' = [run EXCEPT ![j].phase = "canary", ![j].items = itemServer[j]]
      /\ worker' = [worker EXCEPT ![j][CanaryWorker] = [at |-> "check", pos |-> 1, ok |-> FALSE]]
      /\ did' = did /\ late' = late /\ job' = job /\ itemStatus' = itemStatus
  BY DEF LoadJob, rows, history
<1>3. /\ run'[j].phase = "canary" /\ run'[j].cursor = run[j].cursor /\ run'[j].halted = run[j].halted
      /\ \A k \in Jobs : k # j => run'[k] = run[k] /\ worker'[k] = worker[k]
  BY <1>1, <1>2 DEF TypeOK, RunTyped, RunCtx, WorkersTyped
<1>4. /\ worker'[j][CanaryWorker] = [at |-> "check", pos |-> 1, ok |-> FALSE]
      /\ \A w \in Workers \ {CanaryWorker} : worker'[j][w] = worker[j][w]
  BY <1>1, <1>2 DEF TypeOK, WorkersTyped
<1>5. /\ \A w \in Workers : worker[j][w].at = "off"
      /\ run[j].cursor = 2 /\ ~run[j].halted
      /\ \A i \in Positions : Untouched(j, i)
      /\ late[j].cancel = 0 /\ late[j].halt = 0
  BY <1>1, <1>2 DEF JobSound, WorkersInPlace, TouchedInTurn, StopsSoon, NotYet
<1>6. JobSound(j)'
  <2>1. WorkersInPlace(j)'
    BY <1>1, <1>3, <1>4, <1>5 DEF WorkersInPlace, Inside, NotYet
  <2>2. TouchedInTurn(j)'
    BY <1>1, <1>2, <1>3, <1>4, <1>5 DEF TouchedInTurn, Untouched, NotYet, JobFields
  <2>3. ItemsFollow(j)'
    BY <1>1, <1>2, <1>4, <1>5 DEF JobSound, ItemsFollow, Untouched
  <2>4. CanaryAlone(j)'
    BY <1>1, <1>2, <1>3, <1>4, <1>5 DEF CanaryAlone, Untouched, JobFields
  <2>5. StopsSoon(j)'
    <3>1. /\ Cardinality(At(j, PastCheck)') \in Nat
          /\ Cardinality(At(j, PastCheck)') <= Concurrency
      BY WorkersAtNext
    <3> QED
      BY <1>2, <1>3, <1>5, <3>1, JobQueueAssumption DEF StopsSoon, NotYet
  <2> QED
    BY <2>1, <2>2, <2>3, <2>4, <2>5 DEF JobSound
<1> QED
  BY <1>2, <1>3, <1>6, OthersRest, SameRow

\* The fan-out: the workers stand before their first item, and the canary's panel has
\* answered.
LEMMA FanoutStarts ==
    ASSUME QueueInv, NEW j \in Jobs, AfterCanary(j), FansOut(j)
    PROVE  \A k \in Jobs : JobSound(k)'
<1>1. TypeOK /\ JobSound(j) /\ JobFields(j) /\ CanaryWorker \in Workers
  BY FieldTypes DEF QueueInv, OrderInv, CanaryWorker, JobFields
<1>2. /\ run[j].phase = "canary" /\ worker[j][CanaryWorker].at = "off" /\ ~run[j].halted
      /\ SetPhase(j, "fanout")
      /\ worker' = [worker EXCEPT ![j] = [w \in Workers |->
                            [@[w] EXCEPT !.at = IF w <= Rest(j) THEN "next" ELSE "off"]]]
      /\ did' = did /\ late' = late /\ job' = job /\ itemStatus' = itemStatus
  BY DEF AfterCanary, CanaryDone, FansOut, Halted, rows, history
<1>3. /\ run'[j].phase = "fanout" /\ run'[j].cursor = run[j].cursor /\ run'[j].halted = run[j].halted
      /\ \A k \in Jobs : k # j => run'[k] = run[k] /\ worker'[k] = worker[k]
  BY <1>1, <1>2, PhaseMoves DEF TypeOK, WorkersTyped
<1>4. \A w \in Workers : worker'[j][w].at \in {"next", "off"}
  <2>1. worker'[j] = [w \in Workers |-> [worker[j][w] EXCEPT !.at = IF w <= Rest(j) THEN "next" ELSE "off"]]
    BY <1>1, <1>2 DEF TypeOK, WorkersTyped
  <2>2. \A w \in Workers : worker[j][w] \in WorkerCtx
    BY <1>1 DEF TypeOK, WorkersTyped
  <2> QED
    BY <2>1, <2>2 DEF WorkerCtx
<1>5. /\ run[j].cursor = 2 /\ did[j][1] # "busy" /\ late[j].halt = 0
      /\ job[j].stop => did[j][1] = "ok" \/ job[j].cancel
      /\ \A i \in Positions \ {1} : Untouched(j, i)
  <2>1. \A i \in Positions \ {1} : i >= 2
    BY JobQueueAssumption DEF Positions
  <2> QED
    BY <1>1, <1>2, <2>1 DEF JobSound, WorkersInPlace, TouchedInTurn, CanaryAlone, StopsSoon, NotYet
<1>6. JobSound(j)'
  <2>1. WorkersInPlace(j)'
    BY <1>1, <1>3, <1>4, <1>5 DEF WorkersInPlace, Inside, NotYet
  <2>2. TouchedInTurn(j)'
    BY <1>1, <1>2, <1>3, <1>4 DEF JobSound, TouchedInTurn, Untouched, NotYet
  <2>3. ItemsFollow(j)'
    BY <1>1, <1>2, <1>4 DEF JobSound, ItemsFollow, Untouched
  <2>4. CanaryAlone(j)'
    BY <1>1, <1>2, <1>3, <1>4, <1>5 DEF CanaryAlone, Untouched
  <2>5. StopsSoon(j)'
    <3>1. At(j, PastCheck)' = {}
      BY <1>4 DEF At, PastCheck
    <3>2. Cardinality({}) = 0
      BY FS_EmptySet
    <3>3. Cardinality(At(j, PastCheck)) \in Nat /\ late[j].cancel \in Nat
      BY <1>1, WorkersAt DEF JobFields
    <3> QED
      BY <1>1, <1>2, <1>3, <1>5, <3>1, <3>2, <3>3, JobQueueAssumption DEF JobSound, StopsSoon, NotYet
  <2> QED
    BY <2>1, <2>2, <2>3, <2>4, <2>5 DEF JobSound
<1> QED
  BY <1>2, <1>3, <1>6, OthersRest, SameRow

\* Every step of a run, and every database call of it that throws, keeps the jobs sound.
LEMMA RunStepKeepsJobs ==
    ASSUME QueueInv, NEW j \in Jobs, RunStep(j) \/ RunDbFails(j)
    PROVE  \A k \in Jobs : JobSound(k)'
<1>1. TypeOK /\ RunTyped /\ JobsTyped /\ ItemsTyped /\ JobSound(j)
  BY DEF QueueInv, OrderInv, TypeOK
<1>2. \A p \in Phase \ {"canary", "fanout"} :
        run[j].phase = p => \A w \in Workers : worker[j][w].at = "off"
  BY <1>1 DEF JobSound, WorkersInPlace
<1>3. CASE LoadJob(j)
  <2>1. CASE j \in RetiredJobs
    <3>1. /\ run[j].phase = "load" /\ SetPhase(j, "retire")
          /\ UNCHANGED <<worker, did, late, job, itemStatus>>
      BY <1>3, <2>1 DEF LoadJob, rows, history
    <3>2. RunMoves(j, "retire") /\ \A w \in Workers : worker[j][w].at = "off"
      BY <1>1, <1>2, <3>1, PhaseMoves DEF RunMoves, Phase
    <3> QED
      BY <3>1, <3>2, SettledRun, SameRow, SameItems DEF NotYet
  <2>2. CASE j \notin RetiredJobs
    BY <1>3, <2>2, CanaryStarts
  <2> QED
    BY <2>1, <2>2
<1>4. CASE AfterCanary(j)
  <2>1. CASE FansOut(j)
    BY <1>4, <2>1, FanoutStarts
  <2>2. CASE ~FansOut(j)
    <3>1. /\ run[j].phase = "canary" /\ SetPhase(j, "sweep") /\ worker[j][CanaryWorker].at = "off"
          /\ UNCHANGED <<worker, did, late, job, itemStatus>>
      BY <1>4, <2>2 DEF AfterCanary, CanaryDone, rows, history
    <3>2. RunMoves(j, "sweep") /\ \A w \in Workers : worker[j][w].at = "off"
      BY <1>1, <3>1, PhaseMoves DEF RunMoves, JobSound, WorkersInPlace
    <3> QED
      BY <3>1, <3>2, SettledRun, SameRow, SameItems DEF NotYet
  <2> QED
    BY <2>1, <2>2
<1>5. CASE AfterFanout(j)
  <2>1. /\ SetPhase(j, "sweep") /\ \A w \in Workers : worker[j][w].at = "off"
        /\ UNCHANGED <<worker, did, late, job, itemStatus>>
    BY <1>5 DEF AfterFanout, rows, history
  <2>2. RunMoves(j, "sweep")
    BY <1>1, <2>1, PhaseMoves DEF RunMoves
  <2> QED
    BY <2>1, <2>2, SettledRun, SameRow, SameItems DEF NotYet
<1>6. CASE RetireJob(j) \/ FinishJob(j)
  <2>1. PICK p \in {"retireItems", "journal"}, s \in Terminal :
            /\ SetPhase(j, p) /\ Finish(j, s)
            /\ p = "retireItems" => run[j].phase = "retire"
            /\ p = "journal" => run[j].phase = "finish"
    BY <1>6, VerdictType DEF RetireJob, FinishJob, Terminal
  <2>2. UNCHANGED <<worker, did, late, itemStatus>>
    BY <1>6 DEF RetireJob, FinishJob, history
  <2>3. RunMoves(j, p) /\ \A w \in Workers : worker[j][w].at = "off"
    BY <1>1, <1>2, <2>1, PhaseMoves DEF RunMoves, Phase
  <2> QED
    BY <1>1, <2>1, <2>2, <2>3, SettledRun, FinishKeepsFlags, SameItems DEF NotYet
<1>7. CASE RetireItems(j) \/ SkipPending(j)
  <2>1. /\ itemStatus' = [itemStatus EXCEPT ![j] = Turn(@, "pending", "skipped")]
        /\ run[j].phase \in {"retireItems", "skip"}
        /\ UNCHANGED <<worker, did, late, job>>
    BY <1>7 DEF RetireItems, SkipPending, NeverStarted, history
  <2>2. PICK p \in {"done", "count"} : SetPhase(j, p)
    BY <1>7 DEF RetireItems, SkipPending
  <2>3. RunMoves(j, p) /\ \A w \in Workers : worker[j][w].at = "off"
    BY <1>1, <1>2, <2>1, <2>2, PhaseMoves DEF RunMoves, Phase
  <2> QED
    BY <1>1, <2>1, <2>2, <2>3, SettledRun, SkippingIsReaping, SameRow DEF NotYet
<1>8. CASE SweepCancel(j) \/ CountFailures(j)
  <2>1. UNCHANGED <<worker, did, late, job, itemStatus>> /\ run[j].phase \in {"sweep", "count"}
    BY <1>8 DEF SweepCancel, CountFailures, rows, history
  <2>2. PICK p \in {"skip", "finish"} : RunMoves(j, p)
    BY <1>1, <1>8 DEF SweepCancel, CountFailures, RunMoves, RunTyped, RunCtx
  <2>3. \A w \in Workers : worker[j][w].at = "off"
    BY <1>2, <2>1 DEF Phase
  <2> QED
    BY <2>1, <2>2, <2>3, SettledRun, SameRow, SameItems DEF NotYet
<1>9. CASE JournalJob(j) \/ RunDbFails(j)
  <2>1. /\ UNCHANGED <<worker, did, late, job, itemStatus>>
        /\ run[j].phase \in {"load", "retire", "retireItems", "sweep", "skip", "count", "finish", "journal"}
    BY <1>9 DEF JournalJob, RunDbFails, rows, history
  <2>2. PICK p \in {"done", "thrown"} : SetPhase(j, p)
    BY <1>9 DEF JournalJob, RunDbFails
  <2>3. RunMoves(j, p) /\ \A w \in Workers : worker[j][w].at = "off"
    BY <1>1, <1>2, <2>1, <2>2, PhaseMoves DEF RunMoves, Phase
  <2> QED
    BY <2>1, <2>2, <2>3, SettledRun, SameRow, SameItems DEF NotYet
<1> QED
  BY <1>3, <1>4, <1>5, <1>6, <1>7, <1>8, <1>9 DEF RunStep

-----------------------------------------------------------------------------
(* The steps of a worker.                                                  *)

\* One worker of job j moves, the others stand.
OthersStand(j, w) ==
    /\ \A v \in Workers : v # w => worker'[j][v] = worker[j][v]
    /\ \A k \in Jobs : k # j => worker'[k] = worker[k]

\* Replacing one worker's locals moves no other worker.
LEMMA WorkerMoves ==
    ASSUME WorkersTyped, NEW j \in Jobs, NEW w \in Workers, NEW c,
           worker' = [worker EXCEPT ![j][w] = c]
    PROVE  OthersStand(j, w) /\ worker'[j][w] = c
BY DEF WorkersTyped, OthersStand

\* Changing where a worker stands changes nothing else of it.
LEMMA GotoMoves ==
    ASSUME WorkersTyped, NEW j \in Jobs, NEW w \in Workers, NEW a, Goto(j, w, a)
    PROVE  /\ OthersStand(j, w)
           /\ worker'[j][w].at = a
           /\ worker'[j][w].pos = worker[j][w].pos
           /\ worker'[j][w].ok = worker[j][w].ok
<1>1. worker[j] \in [Workers -> WorkerCtx] /\ worker[j][w] \in WorkerCtx
  BY DEF WorkersTyped
<1>2. PICK c \in WorkerCtx \cup {[worker[j][w] EXCEPT !.at = a]} :
        c = [worker[j][w] EXCEPT !.at = a]
  OBVIOUS
<1>3. worker' = [worker EXCEPT ![j][w] = c]
  BY <1>2 DEF Goto
<1>4. OthersStand(j, w) /\ worker'[j][w] = c
  BY <1>3 DEF WorkersTyped, OthersStand
<1> QED
  BY <1>1, <1>2, <1>4 DEF WorkerCtx

\* A worker works only in the canary's phase, as the canary, or in the fan-out.
LEMMA WhereWorkersAre ==
    ASSUME NEW j \in Jobs, NEW w \in Workers, JobSound(j), worker[j][w].at # "off"
    PROVE  /\ run[j].phase \in {"canary", "fanout"}
           /\ run[j].phase = "canary" =>
                w = CanaryWorker /\ worker[j][w].pos = 1 /\ run[j].cursor = 2
           /\ run[j].phase = "fanout" /\ Inside(j, w) => worker[j][w].pos >= 2
           /\ Inside(j, w) => worker[j][w].pos < run[j].cursor
           /\ Inside(j, w) =>
                \A v \in Workers : Inside(j, v) /\ worker[j][v].pos = worker[j][w].pos => v = w
BY DEF JobSound, WorkersInPlace, Inside

\* A worker inside runItem that moves on with its item, or back to the loop of mapLimit,
\* leaves every worker in its place.
LEMMA PlacesKept ==
    ASSUME NEW j \in Jobs, NEW w \in Workers, JobSound(j), Inside(j, w), OthersStand(j, w),
           worker'[j][w].pos = worker[j][w].pos,
           worker'[j][w].at = "next" => run[j].phase # "canary",
           run'[j].phase = run[j].phase, run'[j].cursor = run[j].cursor
    PROVE  WorkersInPlace(j)'
<1>1. WorkersInPlace(j) /\ run[j].phase \in {"canary", "fanout"}
  BY WhereWorkersAre DEF JobSound, Inside
<1>2. /\ run'[j].phase \notin {"canary", "fanout"} => \A v \in Workers : worker'[j][v].at = "off"
      /\ run'[j].phase \in NotYet \cup {"canary"} => run'[j].cursor = 2
      /\ run'[j].phase \in NotYet => ~run'[j].halted
      /\ run'[j].cursor >= 2
  BY <1>1 DEF WorkersInPlace, NotYet
<1>3. run'[j].phase = "canary" =>
        /\ worker'[j][CanaryWorker].at # "next"
        /\ worker'[j][CanaryWorker].at \notin {"off", "next"} => worker'[j][CanaryWorker].pos = 1
        /\ \A v \in Workers \ {CanaryWorker} : worker'[j][v].at = "off"
  BY <1>1, WhereWorkersAre DEF WorkersInPlace, Inside, OthersStand
<1>4. ASSUME NEW u \in Workers, worker'[j][u].at \notin {"off", "next"}
      PROVE  /\ worker'[j][u].pos < run'[j].cursor
             /\ run'[j].phase = "fanout" => worker'[j][u].pos >= 2
             /\ \A v \in Workers :
                  worker'[j][v].at \notin {"off", "next"} /\ worker'[j][v].pos = worker'[j][u].pos => v = u
  <2>1. \A v \in Workers : worker'[j][v].at \notin {"off", "next"} =>
            Inside(j, v) /\ worker'[j][v].pos = worker[j][v].pos
    BY DEF OthersStand, Inside
  <2> QED
    BY <1>1, <1>4, <2>1 DEF WorkersInPlace
<1> QED
  BY <1>2, <1>3, <1>4 DEF WorkersInPlace, Inside

\* What a worker's place says of its server.
FitsServer(at, ok, touched) ==
    /\ at \in {"check", "mark", "creds"} => touched = "no"
    /\ at = "panel" => touched = "busy"
    /\ at = "record" => touched # "busy"
    /\ at = "record" /\ ok => touched = "ok"
    /\ at = "regret" => touched = "ok"

\* A worker that moves to a place its server's state fits, changing at most the state of
\* that server, leaves what was touched in turn.
LEMMA TouchedKept ==
    ASSUME NEW j \in Jobs, NEW w \in Workers, JobFields(j), JobSound(j), Inside(j, w),
           OthersStand(j, w),
           worker'[j][w].pos = worker[j][w].pos,
           \A i \in Positions : i # worker[j][w].pos => did'[j][i] = did[j][i],
           FitsServer(worker'[j][w].at, worker'[j][w].ok, did'[j][worker[j][w].pos]),
           run'[j].phase = run[j].phase, run'[j].cursor = run[j].cursor
    PROVE  TouchedInTurn(j)'
<1>1. /\ TouchedInTurn(j) /\ run[j].phase \in {"canary", "fanout"}
      /\ worker[j][w].pos < run[j].cursor /\ run[j].cursor \in Nat
      /\ \A v \in Workers : worker[j][v].pos \in Positions
      /\ Positions \subseteq Nat
      /\ \A v \in Workers : Inside(j, v) /\ worker[j][v].pos = worker[j][w].pos => v = w
  BY WhereWorkersAre DEF JobSound, Inside, JobFields
<1>2. run'[j].phase \in NotYet => \A i \in Positions : did'[j][i] = "no"
  BY <1>1 DEF NotYet
<1>3. \A i \in Positions : i >= run'[j].cursor => did'[j][i] = "no"
  BY <1>1 DEF TouchedInTurn, Untouched
<1>4. ASSUME NEW v \in Workers
      PROVE  FitsServer(worker'[j][v].at, worker'[j][v].ok, did'[j][worker'[j][v].pos])
  <2>1. CASE v = w
    BY <2>1
  <2>2. CASE v # w /\ Inside(j, v)
    <3>1. worker'[j][v] = worker[j][v] /\ did'[j][worker[j][v].pos] = did[j][worker[j][v].pos]
      BY <1>1, <2>2 DEF OthersStand
    <3>2. FitsServer(worker[j][v].at, worker[j][v].ok, did[j][worker[j][v].pos])
      BY <1>1 DEF TouchedInTurn, Untouched, FitsServer
    <3> QED
      BY <3>1, <3>2
  <2>3. CASE v # w /\ ~Inside(j, v)
    BY <2>3 DEF OthersStand, Inside, FitsServer
  <2> QED
    BY <2>1, <2>2, <2>3
<1> QED
  BY <1>2, <1>3, <1>4 DEF TouchedInTurn, Untouched, FitsServer

\* Nor does it upset what the items say, if its own item says what happened.
LEMMA ItemsKept ==
    ASSUME NEW j \in Jobs, NEW w \in Workers, JobFields(j), JobSound(j), Inside(j, w),
           OthersStand(j, w),
           worker'[j][w].pos = worker[j][w].pos,
           \A i \in Positions : i # worker[j][w].pos =>
                did'[j][i] = did[j][i] /\ itemStatus'[j][i] = itemStatus[j][i],
           worker'[j][w].at \in {"creds", "panel", "record", "regret"} =>
                itemStatus'[j][worker[j][w].pos] \in {"running", "failed"},
           itemStatus'[j][worker[j][w].pos] \in {"absent", "pending", "skipped"} =>
                did'[j][worker[j][w].pos] = "no",
           itemStatus'[j][worker[j][w].pos] = "succeeded" => did'[j][worker[j][w].pos] = "ok"
    PROVE  ItemsFollow(j)'
<1>1. /\ ItemsFollow(j)
      /\ \A v \in Workers : worker[j][v].pos \in Positions
      /\ \A v \in Workers : Inside(j, v) /\ worker[j][v].pos = worker[j][w].pos => v = w
  BY WhereWorkersAre DEF JobSound, Inside, JobFields
<1>2. ASSUME NEW v \in Workers, worker'[j][v].at \in {"creds", "panel", "record", "regret"}
      PROVE  itemStatus'[j][worker'[j][v].pos] \in {"running", "failed"}
  <2>1. CASE v = w
    BY <1>2, <2>1
  <2>2. CASE v # w
    <3>1. worker'[j][v] = worker[j][v] /\ Inside(j, v) /\ worker[j][v].pos # worker[j][w].pos
      BY <1>1, <1>2, <2>2 DEF OthersStand, Inside
    <3> QED
      BY <1>1, <1>2, <3>1 DEF ItemsFollow
  <2> QED
    BY <2>1, <2>2
<1>3. ASSUME NEW i \in Positions
      PROVE  /\ itemStatus'[j][i] \in {"absent", "pending", "skipped"} => did'[j][i] = "no"
             /\ itemStatus'[j][i] = "succeeded" => did'[j][i] = "ok"
  BY <1>1 DEF ItemsFollow, Untouched
<1> QED
  BY <1>2, <1>3 DEF ItemsFollow, Untouched

\* Taking an item: the cursor passes it, or the worker leaves.
LEMMA TakeKeeps ==
    ASSUME QueueInv, NEW j \in Jobs, NEW w \in Workers, TakeItem(j, w)
    PROVE  \A k \in Jobs : JobSound(k)'
<1>1. TypeOK /\ WorkersTyped /\ JobSound(j) /\ JobFields(j)
  BY FieldTypes DEF QueueInv, OrderInv, TypeOK
<1>2. /\ run[j].phase = "fanout" /\ worker[j][w].at = "next"
      /\ did' = did /\ late' = late /\ job' = job /\ itemStatus' = itemStatus
  BY DEF TakeItem, rows, history
<1>3. CASE /\ MoreItems(j)
           /\ worker' = [worker EXCEPT ![j][w] =
                            [at |-> "check", pos |-> run[j].cursor, ok |-> FALSE]]
           /\ run' = [run EXCEPT ![j].cursor = NextIndex(j)]
  <2>1. OthersStand(j, w) /\ worker'[j][w] = [at |-> "check", pos |-> run[j].cursor, ok |-> FALSE]
    BY <1>1, <1>3, WorkerMoves
  <2>2. /\ run'[j].phase = "fanout" /\ run'[j].cursor = run[j].cursor + 1
        /\ run'[j].halted = run[j].halted /\ ~run[j].halted
        /\ \A k \in Jobs : k # j => run'[k] = run[k]
    BY <1>1, <1>2, <1>3 DEF TypeOK, RunTyped, RunCtx, NextIndex, MoreItems, Halted
  <2>3. run[j].cursor >= 2 /\ \A v \in Workers : Inside(j, v) => worker[j][v].pos < run[j].cursor
    BY <1>1 DEF JobSound, WorkersInPlace
  <2>4. run[j].cursor \in Positions
    <3>1. run[j] \in RunCtx /\ Len(run[j].items) <= MaxServersPerJob
      BY <1>1 DEF TypeOK, RunTyped
    <3> QED
      BY <1>3, <2>3, <3>1, JobQueueAssumption DEF RunCtx, MoreItems, Positions
  <2>5. JobSound(j)'
    <3>1. WorkersInPlace(j)'
      <4>1. \A v \in Workers \ {w} : worker'[j][v] = worker[j][v]
        BY <2>1 DEF OthersStand
      <4>2. /\ WorkersInPlace(j) /\ run[j].cursor \in Nat
            /\ \A v \in Workers : worker[j][v].pos \in Nat
        BY <1>1 DEF JobSound, JobFields
      <4>3. ASSUME NEW v \in Workers, worker'[j][v].at \notin {"off", "next"}
            PROVE  /\ worker'[j][v].pos < run'[j].cursor
                   /\ worker'[j][v].pos >= 2
                   /\ v # w => worker'[j][v].pos < run[j].cursor
        BY <1>2, <2>1, <2>2, <2>3, <4>1, <4>2, <4>3 DEF WorkersInPlace, Inside
      <4>4. ASSUME NEW u \in Workers, NEW v \in Workers,
                   worker'[j][u].at \notin {"off", "next"}, worker'[j][v].at \notin {"off", "next"},
                   worker'[j][u].pos = worker'[j][v].pos
            PROVE  u = v
        <5>1. CASE u = w \/ v = w
          BY <2>1, <4>2, <4>3, <4>4, <5>1
        <5>2. CASE u # w /\ v # w
          BY <4>1, <4>2, <4>4, <5>2 DEF WorkersInPlace, Inside
        <5> QED
          BY <5>1, <5>2
      <4> QED
        BY <2>2, <2>3, <4>2, <4>3, <4>4 DEF WorkersInPlace, Inside, NotYet
    <3>2. TouchedInTurn(j)'
      BY <1>1, <1>2, <2>1, <2>2, <2>4 DEF JobSound, TouchedInTurn, Untouched, OthersStand, NotYet, JobFields
    <3>3. ItemsFollow(j)'
      BY <1>1, <1>2, <2>1 DEF JobSound, ItemsFollow, Untouched, OthersStand
    <3>4. CanaryAlone(j)'
      BY <1>1, <1>2, <2>1, <2>2 DEF JobSound, CanaryAlone, Untouched, OthersStand
    <3>5. StopsSoon(j)'
      <4>1. At(j, PastCheck)' = At(j, PastCheck)
        BY <1>2, <2>1 DEF At, PastCheck, OthersStand
      <4> QED
        BY <1>1, <1>2, <2>2, <4>1 DEF JobSound, StopsSoon, NotYet
    <3> QED
      BY <3>1, <3>2, <3>3, <3>4, <3>5 DEF JobSound
  <2> QED
    BY <1>2, <2>1, <2>2, <2>5, OthersRest, SameRow DEF OthersStand
<1>4. CASE worker' = [worker EXCEPT ![j][w].at = "off"] /\ UNCHANGED run
  <2>1. OthersStand(j, w) /\ worker'[j][w].at = "off"
    <3>1. Goto(j, w, "off")
      BY <1>4 DEF Goto
    <3> QED
      BY <1>1, <3>1, GotoMoves
  <2>2. JobSound(j)'
    <3>1. WorkersInPlace(j)'
      BY <1>1, <1>2, <1>4, <2>1 DEF JobSound, WorkersInPlace, Inside, OthersStand, NotYet
    <3>2. TouchedInTurn(j)'
      BY <1>1, <1>2, <1>4, <2>1 DEF JobSound, TouchedInTurn, Untouched, OthersStand
    <3>3. ItemsFollow(j)'
      BY <1>1, <1>2, <2>1 DEF JobSound, ItemsFollow, Untouched, OthersStand
    <3>4. CanaryAlone(j)'
      BY <1>1, <1>2, <1>4, <2>1 DEF JobSound, CanaryAlone, Untouched, OthersStand
    <3>5. StopsSoon(j)'
      <4>1. At(j, PastCheck)' = At(j, PastCheck) /\ At(j, PastTake)' = At(j, PastTake)
        BY <1>2, <2>1 DEF At, PastCheck, PastTake, OthersStand
      <4> QED
        BY <1>1, <1>2, <1>4, <4>1 DEF JobSound, StopsSoon
    <3> QED
      BY <3>1, <3>2, <3>3, <3>4, <3>5 DEF JobSound
  <2> QED
    BY <1>2, <1>4, <2>1, <2>2, OthersRest, SameRow DEF OthersStand
<1> QED
  BY <1>3, <1>4 DEF TakeItem

\* Reading the flag: the worker goes on only if no cancellation was asked for.
LEMMA CheckKeeps ==
    ASSUME QueueInv, NEW j \in Jobs, NEW w \in Workers, CheckCancel(j, w)
    PROVE  \A k \in Jobs : JobSound(k)'
<1>1. TypeOK /\ WorkersTyped /\ JobSound(j) /\ JobFields(j)
  BY FieldTypes DEF QueueInv, OrderInv, TypeOK
<1>2. /\ worker[j][w].at = "check" /\ run' = run
      /\ did' = did /\ late' = late /\ job' = job /\ itemStatus' = itemStatus
      /\ Goto(j, w, IF job[j].cancel THEN Resume(j) ELSE "mark")
  BY DEF CheckCancel, CancelRequested, rows, history
<1>3. PICK a \in {"off", "next", "mark"} :
        /\ Goto(j, w, a)
        /\ a = "mark" <=> ~job[j].cancel
        /\ a = "off" => run[j].phase = "canary"
        /\ a = "next" => run[j].phase # "canary"
  BY <1>2 DEF Resume
<1>4. /\ OthersStand(j, w)
      /\ worker'[j][w].at = a /\ worker'[j][w].pos = worker[j][w].pos
  BY <1>1, <1>3, GotoMoves
<1>5. Inside(j, w) /\ (run[j].phase = "canary" => w = CanaryWorker /\ worker[j][w].pos = 1 /\ run[j].cursor = 2)
      /\ run[j].phase \in {"canary", "fanout"}
  BY <1>1, <1>2, WhereWorkersAre DEF Inside
<1>6. JobSound(j)'
  <2>1. WorkersInPlace(j)'
    BY <1>1, <1>2, <1>3, <1>4, <1>5, PlacesKept
  <2>2. TouchedInTurn(j)'
    <3>1. did[j][worker[j][w].pos] = "no"
      BY <1>1, <1>2 DEF JobSound, TouchedInTurn, Untouched
    <3>2. FitsServer(worker'[j][w].at, worker'[j][w].ok, did'[j][worker[j][w].pos])
      BY <1>2, <1>3, <1>4, <3>1 DEF FitsServer
    <3> QED
      BY <1>1, <1>2, <1>4, <1>5, <3>2, TouchedKept
  <2>3. ItemsFollow(j)'
    BY <1>1, <1>2, <1>3, <1>4 DEF JobSound, ItemsFollow, Untouched, OthersStand
  <2>4. CanaryAlone(j)'
    <3>1. did[j][worker[j][w].pos] = "no"
      BY <1>1, <1>2 DEF JobSound, TouchedInTurn, Untouched
    <3> QED
      BY <1>1, <1>2, <1>3, <1>4, <1>5, <3>1 DEF JobSound, CanaryAlone, Untouched, OthersStand
  <2>5. StopsSoon(j)'
    <3>1. At(j, PastTake)' \subseteq At(j, PastTake)
      BY <1>2, <1>3, <1>4 DEF At, PastTake, OthersStand
    <3>2. /\ Cardinality(At(j, PastTake)') <= Cardinality(At(j, PastTake))
          /\ Cardinality(At(j, PastTake)') \in Nat /\ Cardinality(At(j, PastTake)) \in Nat
      BY <3>1, WorkersAt, WorkersAtNext, FS_Subset
    <3>3. job[j].cancel => At(j, PastCheck)' = At(j, PastCheck)
      BY <1>2, <1>3, <1>4 DEF At, PastCheck, OthersStand
    <3>4. late[j].halt \in Nat /\ Concurrency \in Nat
      BY <1>1, JobQueueAssumption DEF JobFields
    <3> QED
      BY <1>1, <1>2, <3>2, <3>3, <3>4 DEF JobSound, StopsSoon
  <2> QED
    BY <2>1, <2>2, <2>3, <2>4, <2>5 DEF JobSound
<1> QED
  BY <1>2, <1>4, <1>6, OthersRest, SameRow DEF OthersStand

\* Marking the item: it becomes running and stays so, or failed, until its result.
LEMMA MarkKeeps ==
    ASSUME QueueInv, NEW j \in Jobs, NEW w \in Workers, MarkRunning(j, w)
    PROVE  \A k \in Jobs : JobSound(k)'
<1>1. TypeOK /\ WorkersTyped /\ ItemsTyped /\ JobSound(j) /\ JobFields(j)
  BY FieldTypes DEF QueueInv, OrderInv, TypeOK
<1>2. /\ worker[j][w].at = "mark" /\ run' = run
      /\ did' = did /\ late' = late /\ job' = job
      /\ itemStatus' = [itemStatus EXCEPT ![j][worker[j][w].pos] = "running"]
      /\ Goto(j, w, "creds")
  BY DEF MarkRunning, SetItem, history
<1>3. /\ OthersStand(j, w)
      /\ worker'[j][w].at = "creds" /\ worker'[j][w].pos = worker[j][w].pos
  BY <1>1, <1>2, GotoMoves
<1>4. /\ itemStatus'[j][worker[j][w].pos] = "running"
      /\ \A i \in Positions : i # worker[j][w].pos => itemStatus'[j][i] = itemStatus[j][i]
      /\ \A k \in Jobs : k # j => itemStatus'[k] = itemStatus[k]
  BY <1>1, <1>2 DEF ItemsTyped, JobFields
<1>5. Inside(j, w) /\ \A v \in Workers : Inside(j, v) /\ worker[j][v].pos = worker[j][w].pos => v = w
  BY <1>1, <1>2 DEF JobSound, WorkersInPlace, Inside
<1>6. JobSound(j)'
  <2>1. did[j][worker[j][w].pos] = "no"
    BY <1>1, <1>2 DEF JobSound, TouchedInTurn, Untouched
  <2>2. WorkersInPlace(j)'
    BY <1>1, <1>2, <1>3, <1>5, PlacesKept
  <2>3. TouchedInTurn(j)'
    <3>1. FitsServer(worker'[j][w].at, worker'[j][w].ok, did'[j][worker[j][w].pos])
      BY <1>2, <1>3, <2>1 DEF FitsServer
    <3> QED
      BY <1>1, <1>2, <1>3, <1>5, <3>1, TouchedKept
  <2>4. ItemsFollow(j)'
    BY <1>1, <1>2, <1>3, <1>4, <1>5, <2>1, ItemsKept
  <2>6. CanaryAlone(j)'
    <3>1. CanaryAlone(j) /\ worker'[j][w].at # "off"
      BY <1>1, <1>3 DEF JobSound
    <3>2. \A v \in Workers : worker'[j][v].at \in {"next", "check", "off"} <=>
                v # w /\ worker[j][v].at \in {"next", "check", "off"}
      BY <1>3 DEF OthersStand
    <3>3. worker'[j][CanaryWorker].at = "off" => worker[j][CanaryWorker].at = "off"
      BY <1>1, <1>3 DEF OthersStand, JobFields, CanaryWorker
    <3> QED
      BY <1>2, <3>1, <3>2, <3>3 DEF CanaryAlone, Untouched
  <2>5. StopsSoon(j)'
    <3>1. At(j, PastCheck)' = At(j, PastCheck) /\ At(j, PastTake)' = At(j, PastTake)
      BY <1>2, <1>3 DEF At, PastCheck, PastTake, OthersStand
    <3> QED
      BY <1>1, <1>2, <3>1 DEF JobSound, StopsSoon
  <2> QED
    BY <2>2, <2>3, <2>4, <2>5, <2>6 DEF JobSound
<1> QED
  BY <1>2, <1>3, <1>4, <1>6, OthersRest, SameRow DEF OthersStand

\* Loading the client and calling: the server is touched now, or not at all.
LEMMA LoadKeeps ==
    ASSUME QueueInv, NEW j \in Jobs, NEW w \in Workers, LoadClient(j, w)
    PROVE  \A k \in Jobs : JobSound(k)'
<1> DEFINE i == worker[j][w].pos
<1>1. TypeOK /\ WorkersTyped /\ HistoryTyped /\ JobSound(j) /\ JobFields(j) /\ i \in Positions
  BY FieldTypes DEF QueueInv, OrderInv, TypeOK, JobFields
<1>2. /\ worker[j][w].at = "creds" /\ Inside(j, w)
      /\ run' = run /\ job' = job /\ itemStatus' = itemStatus
  BY DEF LoadClient, rows, Inside
<1>3. /\ did[j][i] = "no"
      /\ itemStatus[j][i] \in {"running", "failed"}
      /\ run[j].phase \in {"canary", "fanout"}
      /\ run[j].phase = "canary" => i = 1 /\ run[j].cursor = 2
      /\ run[j].phase = "fanout" => i >= 2
      /\ run[j].phase = "fanout" /\ job[j].stop => did[j][1] = "ok"
  BY <1>1, <1>2, WhereWorkersAre DEF JobSound, TouchedInTurn, ItemsFollow, CanaryAlone, Untouched
<1>4. CASE /\ did' = [did EXCEPT ![j][i] = "busy"]
           /\ late' = [late EXCEPT ![j] =
                [halt |-> IF run[j].halted THEN @.halt + 1 ELSE @.halt,
                 cancel |-> IF job[j].cancel THEN @.cancel + 1 ELSE @.cancel]]
           /\ Goto(j, w, "panel")
  <2>1. /\ OthersStand(j, w) /\ worker'[j][w].at = "panel" /\ worker'[j][w].pos = i
    BY <1>1, <1>4, GotoMoves
  <2>2. /\ did'[j][i] = "busy"
        /\ \A n \in Positions : n # i => did'[j][n] = did[j][n]
        /\ \A k \in Jobs : k # j => did'[k] = did[k] /\ late'[k] = late[k]
        /\ late'[j].halt = (IF run[j].halted THEN late[j].halt + 1 ELSE late[j].halt)
        /\ late'[j].cancel = (IF job[j].cancel THEN late[j].cancel + 1 ELSE late[j].cancel)
    BY <1>1, <1>4 DEF HistoryTyped
  <2>3. WorkersInPlace(j)'
    BY <1>1, <1>2, <2>1, PlacesKept
  <2>4. TouchedInTurn(j)'
    <3>1. FitsServer(worker'[j][w].at, worker'[j][w].ok, did'[j][i])
      BY <2>1, <2>2 DEF FitsServer
    <3> QED
      BY <1>1, <1>2, <2>1, <2>2, <3>1, TouchedKept
  <2>5. ItemsFollow(j)'
    BY <1>1, <1>2, <1>3, <2>1, <2>2, ItemsKept
  <2>6. CanaryAlone(j)'
    <3>1. CanaryAlone(j) /\ worker'[j][w].at # "off" /\ 1 \in Positions
      BY <1>1, <2>1 DEF JobSound, JobFields
    <3>2. worker'[j][CanaryWorker].at = "off" => run[j].phase # "canary"
      BY <1>1, <1>2, <2>1, WhereWorkersAre
    <3>3. run[j].phase = "canary" => \A n \in Positions \ {1} : did'[j][n] = did[j][n]
      BY <1>3, <2>2
    <3>4. run[j].phase = "fanout" => did'[j][1] = did[j][1]
      BY <1>3, <2>2, <3>1
    <3> QED
      BY <1>2, <1>3, <2>2, <3>1, <3>2, <3>3, <3>4 DEF CanaryAlone, Untouched
  <2>7. StopsSoon(j)'
    <3>1. /\ At(j, PastCheck)' = At(j, PastCheck) \ {w} /\ w \in At(j, PastCheck)
          /\ At(j, PastTake)' = At(j, PastTake) \ {w} /\ w \in At(j, PastTake)
      BY <1>2, <2>1 DEF At, PastCheck, PastTake, OthersStand
    <3>2. /\ Cardinality(At(j, PastCheck)') = Cardinality(At(j, PastCheck)) - 1
          /\ Cardinality(At(j, PastTake)') = Cardinality(At(j, PastTake)) - 1
      <4>1. \A S : IsFiniteSet(S) /\ w \in S => Cardinality(S \ {w}) = Cardinality(S) - 1
        BY FS_RemoveElement
      <4>2. IsFiniteSet(At(j, PastCheck)) /\ IsFiniteSet(At(j, PastTake))
        BY WorkersAt
      <4> QED
        BY <3>1, <4>1, <4>2
    <3>3. /\ Cardinality(At(j, PastCheck)) \in Nat /\ Cardinality(At(j, PastTake)) \in Nat
          /\ late[j].halt \in Nat /\ late[j].cancel \in Nat /\ Concurrency \in Nat
      BY <1>1, WorkersAt, JobQueueAssumption DEF JobFields
    <3> QED
      BY <1>1, <1>2, <1>3, <2>2, <3>2, <3>3 DEF JobSound, StopsSoon, NotYet
  <2>8. JobSound(j)'
    BY <2>3, <2>4, <2>5, <2>6, <2>7 DEF JobSound
  <2> QED
    BY <1>2, <2>1, <2>2, <2>8, OthersRest, SameRow DEF OthersStand
<1>5. CASE /\ worker' = [worker EXCEPT ![j][w].at = "record", ![j][w].ok = FALSE]
           /\ UNCHANGED <<did, late>>
  <2>1. /\ OthersStand(j, w) /\ worker'[j][w].at = "record" /\ worker'[j][w].pos = i
        /\ worker'[j][w].ok = FALSE
    BY <1>1, <1>5 DEF WorkersTyped, WorkerCtx, OthersStand
  <2>2. WorkersInPlace(j)'
    BY <1>1, <1>2, <2>1, PlacesKept
  <2>3. TouchedInTurn(j)'
    <3>1. FitsServer(worker'[j][w].at, worker'[j][w].ok, did'[j][i])
      BY <1>3, <1>5, <2>1 DEF FitsServer
    <3> QED
      BY <1>1, <1>2, <1>5, <2>1, <3>1, TouchedKept
  <2>4. ItemsFollow(j)'
    BY <1>1, <1>2, <1>3, <1>5, <2>1, ItemsKept
  <2>5. CanaryAlone(j)'
    <3>1. worker'[j][CanaryWorker].at = "off" => run[j].phase # "canary"
      BY <1>1, <1>2, <2>1, WhereWorkersAre
    <3> QED
      BY <1>1, <1>2, <1>3, <1>5, <3>1 DEF JobSound, CanaryAlone, Untouched
  <2>6. StopsSoon(j)'
    <3>1. /\ At(j, PastCheck)' \subseteq At(j, PastCheck)
          /\ At(j, PastTake)' \subseteq At(j, PastTake)
      BY <1>2, <2>1 DEF At, PastCheck, PastTake, OthersStand
    <3>2. /\ Cardinality(At(j, PastCheck)') <= Cardinality(At(j, PastCheck))
          /\ Cardinality(At(j, PastTake)') <= Cardinality(At(j, PastTake))
          /\ Cardinality(At(j, PastCheck)') \in Nat /\ Cardinality(At(j, PastTake)') \in Nat
          /\ Cardinality(At(j, PastCheck)) \in Nat /\ Cardinality(At(j, PastTake)) \in Nat
          /\ late[j].halt \in Nat /\ late[j].cancel \in Nat /\ Concurrency \in Nat
      BY <1>1, <3>1, WorkersAt, WorkersAtNext, FS_Subset, JobQueueAssumption DEF JobFields
    <3> QED
      BY <1>1, <1>2, <1>5, <3>2 DEF JobSound, StopsSoon
  <2>7. JobSound(j)'
    BY <2>2, <2>3, <2>4, <2>5, <2>6 DEF JobSound
  <2> QED
    BY <1>2, <1>5, <2>1, <2>7, OthersRest, SameRow DEF OthersStand
<1> QED
  BY <1>4, <1>5 DEF LoadClient

\* The panel answers: the server is done with, well or not.
LEMMA AnswerKeeps ==
    ASSUME QueueInv, NEW j \in Jobs, NEW w \in Workers, NEW ok \in BOOLEAN, PanelAnswers(j, w, ok)
    PROVE  \A k \in Jobs : JobSound(k)'
<1> DEFINE i == worker[j][w].pos
<1>1. TypeOK /\ WorkersTyped /\ HistoryTyped /\ JobSound(j) /\ JobFields(j) /\ i \in Positions
  BY FieldTypes DEF QueueInv, OrderInv, TypeOK, JobFields
<1>2. /\ worker[j][w].at = "panel" /\ Inside(j, w)
      /\ run' = run /\ job' = job /\ itemStatus' = itemStatus /\ late' = late
      /\ did' = [did EXCEPT ![j][i] = IF ok THEN "ok" ELSE "refused"]
      /\ worker' = [worker EXCEPT ![j][w].at = "record", ![j][w].ok = ok]
  BY DEF PanelAnswers, rows, Inside
<1>2a. /\ Inside(j, w) /\ run'[j] = run[j] /\ job'[j] = job[j] /\ late'[j] = late[j]
       /\ itemStatus'[j] = itemStatus[j]
  BY <1>2
<1>3. /\ did[j][i] = "busy"
      /\ itemStatus[j][i] \in {"running", "failed"}
      /\ run[j].phase \in {"canary", "fanout"}
      /\ run[j].phase = "canary" => i = 1
      /\ run[j].phase = "fanout" => i >= 2
  BY <1>1, <1>2, WhereWorkersAre DEF JobSound, TouchedInTurn, ItemsFollow
<1>4. /\ OthersStand(j, w) /\ worker'[j][w].at = "record" /\ worker'[j][w].pos = i
      /\ worker'[j][w].ok = ok
  BY <1>1, <1>2 DEF WorkersTyped, WorkerCtx, OthersStand
<1>5. /\ did'[j][i] = IF ok THEN "ok" ELSE "refused"
      /\ \A n \in Positions : n # i => did'[j][n] = did[j][n]
      /\ \A k \in Jobs : k # j => did'[k] = did[k]
  BY <1>1, <1>2 DEF HistoryTyped
<1>6. WorkersInPlace(j)'
  BY <1>1, <1>2a, <1>4, PlacesKept
<1>7. TouchedInTurn(j)'
  <2>1. FitsServer(worker'[j][w].at, worker'[j][w].ok, did'[j][i])
    BY <1>4, <1>5 DEF FitsServer
  <2> QED
    BY <1>1, <1>2a, <1>4, <1>5, <2>1, TouchedKept
<1>8. ItemsFollow(j)'
  BY <1>1, <1>2, <1>3, <1>4, <1>5, ItemsKept
<1>9. CanaryAlone(j)'
  <2>1. CanaryAlone(j) /\ 1 \in Positions
    BY <1>1 DEF JobSound, JobFields
  <2>2. worker'[j][CanaryWorker].at = "off" => run[j].phase # "canary"
    BY <1>1, <1>2, <1>4, WhereWorkersAre
  <2>3. run[j].phase = "canary" => \A n \in Positions \ {1} : did'[j][n] = did[j][n]
    BY <1>3, <1>5
  <2>4. run[j].phase = "fanout" => did'[j][1] = did[j][1]
    BY <1>3, <1>5, <2>1
  <2>5. run[j].phase = "fanout" /\ job[j].stop => did[j][1] = "ok"
    BY <1>2, <2>1 DEF CanaryAlone
  <2>6. did'[j][1] = "busy" => did[j][1] = "busy"
    BY <1>5, <2>1
  <2>7. run[j].phase = "canary" => did[j][1] = "busy"
    BY <1>3
  <2> QED
    <3>1. /\ did'[j][1] = "busy" => run'[j].cursor = 2
          /\ run'[j].phase = "fanout" => did'[j][1] # "busy"
      BY <1>2a, <2>1, <2>4, <2>6 DEF CanaryAlone
    <3>2. job'[j].stop /\ did'[j][1] # "ok" => \A n \in Positions \ {1} : did'[j][n] = "no"
      BY <1>3, <1>2a, <2>1, <2>3, <2>4, <2>5, <2>7 DEF CanaryAlone, Untouched
    <3>3. ~(job'[j].stop /\ did'[j][1] # "ok" /\ run'[j].phase = "fanout")
      BY <1>2a, <2>4, <2>5
    <3> QED
      BY <1>2a, <2>2, <3>1, <3>2, <3>3 DEF CanaryAlone, Untouched
<1>10. StopsSoon(j)'
  <2>1. At(j, PastCheck)' = At(j, PastCheck) /\ At(j, PastTake)' = At(j, PastTake)
    BY <1>2, <1>4 DEF At, PastCheck, PastTake, OthersStand
  <2> QED
    BY <1>1, <1>2, <2>1 DEF JobSound, StopsSoon
<1>11. JobSound(j)'
  BY <1>6, <1>7, <1>8, <1>9, <1>10 DEF JobSound
<1> QED
  BY <1>2, <1>4, <1>5, <1>11, OthersRest, SameRow DEF OthersStand

\* Recording the result: a failure halts a job that is to stop, and from then on at most
\* the other workers are on their way to a server.
LEMMA RecordKeeps ==
    ASSUME QueueInv, NEW j \in Jobs, NEW w \in Workers, RecordResult(j, w)
    PROVE  \A k \in Jobs : JobSound(k)'
<1> DEFINE i == worker[j][w].pos
           ok == worker[j][w].at = "record" /\ worker[j][w].ok
<1>1. TypeOK /\ WorkersTyped /\ ItemsTyped /\ RunTyped /\ JobSound(j) /\ JobFields(j) /\ i \in Positions
  BY FieldTypes DEF QueueInv, OrderInv, TypeOK, JobFields
<1>2. /\ worker[j][w].at \in {"record", "regret"} /\ Inside(j, w)
      /\ did' = did /\ late' = late /\ job' = job
      /\ itemStatus' = [itemStatus EXCEPT ![j][i] = IF ok THEN "succeeded" ELSE "failed"]
      /\ run' = [run EXCEPT ![j].halted = @ \/ (~ok /\ job[j].stop)]
      /\ Goto(j, w, Resume(j))
  BY DEF RecordResult, Inside, SetItem, Outcome, history
<1>3. /\ did[j][i] # "busy" /\ (ok => did[j][i] = "ok")
      /\ run[j].phase \in {"canary", "fanout"}
      /\ run[j].phase = "canary" => w = CanaryWorker /\ i = 1
  BY <1>1, <1>2, WhereWorkersAre DEF JobSound, TouchedInTurn
<1>4. /\ OthersStand(j, w) /\ worker'[j][w].at = Resume(j) /\ worker'[j][w].pos = i
      /\ Resume(j) = IF run[j].phase = "canary" THEN "off" ELSE "next"
  BY <1>1, <1>2, GotoMoves DEF Resume
<1>5. /\ itemStatus'[j][i] = IF ok THEN "succeeded" ELSE "failed"
      /\ \A n \in Positions : n # i => itemStatus'[j][n] = itemStatus[j][n]
      /\ \A k \in Jobs : k # j => itemStatus'[k] = itemStatus[k]
  BY <1>1, <1>2 DEF ItemsTyped
<1>6. /\ run'[j].phase = run[j].phase /\ run'[j].cursor = run[j].cursor
      /\ run'[j].halted = (run[j].halted \/ (~ok /\ job[j].stop))
      /\ \A k \in Jobs : k # j => run'[k] = run[k]
  BY <1>1, <1>2 DEF RunTyped, RunCtx
<1> HIDE DEF ok
<1>7. WorkersInPlace(j)'
  BY <1>1, <1>2, <1>4, <1>6, PlacesKept
<1>8. TouchedInTurn(j)'
  <2>1. FitsServer(worker'[j][w].at, worker'[j][w].ok, did'[j][i])
    BY <1>4 DEF FitsServer
  <2> QED
    BY <1>1, <1>2, <1>4, <1>6, <2>1, TouchedKept
<1>9. ItemsFollow(j)'
  <2>1. worker'[j][w].at \in {"off", "next"}
    BY <1>4
  <2>2. /\ itemStatus'[j][i] \notin {"absent", "pending", "skipped"}
        /\ itemStatus'[j][i] = "succeeded" => did'[j][i] = "ok"
    BY <1>2, <1>3, <1>5
  <2> QED
    BY <1>1, <1>2, <1>4, <1>5, <2>1, <2>2, ItemsKept
<1>10. CanaryAlone(j)'
  <2>1. CanaryAlone(j)
    BY <1>1 DEF JobSound
  <2>2. run[j].phase = "canary" => did[j][1] # "busy" /\ (ok => did[j][1] = "ok")
    BY <1>3
  <2>3. run[j].phase = "fanout" /\ job[j].stop => did[j][1] = "ok"
    BY <1>2, <2>1 DEF CanaryAlone
  <2> QED
    BY <1>2, <1>6, <2>1, <2>2, <2>3 DEF CanaryAlone, Untouched
<1>11. StopsSoon(j)'
  <2>1. At(j, PastCheck)' = At(j, PastCheck) /\ At(j, PastTake)' = At(j, PastTake)
    BY <1>2, <1>4 DEF At, PastCheck, PastTake, OthersStand
  <2>2. w \notin At(j, PastTake)
    BY <1>2 DEF At, PastTake
  <2>3. /\ Cardinality(At(j, PastTake)) <= Concurrency - 1 /\ Cardinality(At(j, PastTake)) \in Nat
        /\ Concurrency \in Nat /\ run[j].halted \in BOOLEAN
    BY <1>1, <2>2, WorkersAt, JobQueueAssumption DEF JobFields
  <2> QED
    BY <1>1, <1>2, <1>6, <2>1, <2>3 DEF JobSound, StopsSoon
<1>12. JobSound(j)'
  BY <1>7, <1>8, <1>9, <1>10, <1>11 DEF JobSound
<1> QED
  BY <1>2, <1>4, <1>5, <1>6, <1>12, OthersRest, SameRow DEF OthersStand

\* A throwing database call of a worker: the item is dropped, inside mapLimit only it.
LEMMA WorkerFaultKeeps ==
    ASSUME QueueInv, NEW j \in Jobs, NEW w \in Workers, WorkerDbFails(j, w)
    PROVE  \A k \in Jobs : JobSound(k)'
<1> DEFINE i == worker[j][w].pos
<1>1. TypeOK /\ WorkersTyped /\ JobSound(j) /\ JobFields(j) /\ i \in Positions
  BY FieldTypes DEF QueueInv, OrderInv, TypeOK, JobFields
<1>2. /\ worker[j][w].at \in {"check", "mark", "record", "regret"} /\ Inside(j, w)
      /\ did' = did /\ late' = late /\ job' = job /\ itemStatus' = itemStatus
  BY DEF WorkerDbFails, rows, history, Inside
<1>3. /\ run[j].phase \in {"canary", "fanout"}
      /\ run[j].phase = "canary" => w = CanaryWorker
  BY <1>1, <1>2, WhereWorkersAre
<1>4. CASE run[j].phase = "canary" /\ ~(worker[j][w].at = "record" /\ worker[j][w].ok)
  <2>1. Goto(j, w, "off") /\ run' = [run EXCEPT ![j].phase = "thrown"]
    BY <1>4 DEF WorkerDbFails, Resume
  <2>2. OthersStand(j, w) /\ worker'[j][w].at = "off"
    BY <1>1, <2>1, GotoMoves
  <2>3. \A v \in Workers : worker'[j][v].at = "off"
    BY <1>1, <1>3, <1>4, <2>2 DEF JobSound, WorkersInPlace, OthersStand
  <2>4. /\ run'[j].phase = "thrown" /\ run'[j].cursor = run[j].cursor
        /\ run'[j].halted = run[j].halted
        /\ \A k \in Jobs : k # j => run'[k] = run[k]
    BY <1>1, <2>1 DEF TypeOK, RunTyped, RunCtx
  <2>5. RunSettles(j)
    BY <1>2, <2>3, <2>4, SameRow, SameItems DEF RunSettles, SameHistory, NotYet
  <2>6. JobSound(j)'
    BY <1>1, <2>5, SettlingKeeps
  <2> QED
    BY <1>2, <2>2, <2>4, <2>6, OthersRest, SameRow DEF OthersStand
<1>5. CASE run[j].phase = "fanout" \/ (worker[j][w].at = "record" /\ worker[j][w].ok)
  <2>1. PICK a \in {"next", "regret"} :
          /\ Goto(j, w, a) /\ run'[j] = run[j]
          /\ a = "next" => run[j].phase = "fanout"
          /\ a = "regret" => worker[j][w].at = "record" /\ worker[j][w].ok
    <3>1. CASE Goto(j, w, "regret") /\ worker[j][w].at = "record" /\ worker[j][w].ok /\ UNCHANGED run
      BY <3>1
    <3>2. CASE /\ Goto(j, w, Resume(j)) /\ run[j].phase = "fanout"
               /\ run' = [run EXCEPT ![j].phase = IF @ = "canary" THEN "thrown" ELSE @]
      <4>1. Goto(j, w, "next")
        BY <3>2 DEF Resume
      <4>2. run'[j] = run[j]
        BY <1>1, <3>2 DEF TypeOK, RunTyped, RunCtx
      <4> QED
        BY <3>2, <4>1, <4>2
    <3> QED
      BY <1>5, <3>1, <3>2 DEF WorkerDbFails
  <2>2. \A k \in Jobs : k # j => run'[k] = run[k]
    BY <1>1 DEF WorkerDbFails, TypeOK, RunTyped
  <2>3. /\ OthersStand(j, w) /\ worker'[j][w].at = a /\ worker'[j][w].pos = i
    BY <1>1, <2>1, GotoMoves
  <2>4. WorkersInPlace(j)'
    BY <1>1, <1>2, <2>1, <2>3, PlacesKept
  <2>5. a = "regret" => did[j][i] = "ok" /\ itemStatus[j][i] \in {"running", "failed"}
    BY <1>1, <2>1 DEF JobSound, TouchedInTurn, ItemsFollow
  <2>6. TouchedInTurn(j)'
    <3>1. FitsServer(worker'[j][w].at, worker'[j][w].ok, did'[j][i])
      BY <1>2, <2>3, <2>5 DEF FitsServer
    <3> QED
      BY <1>1, <1>2, <2>1, <2>3, <3>1, TouchedKept
  <2>7. ItemsFollow(j)'
    <3>1. /\ itemStatus[j][i] \in {"absent", "pending", "skipped"} => did[j][i] = "no"
          /\ itemStatus[j][i] = "succeeded" => did[j][i] = "ok"
      BY <1>1 DEF JobSound, ItemsFollow, Untouched
    <3> QED
      BY <1>1, <1>2, <2>3, <2>5, <3>1, ItemsKept
  <2>8. CanaryAlone(j)'
    <3>1. worker'[j][CanaryWorker].at = "off" => run[j].phase # "canary"
      BY <1>2, <1>3, <2>1, <2>3
    <3>2. a = "regret" => worker[j][w].at = "record"
      BY <2>1
    <3> QED
      BY <1>1, <1>2, <2>1, <2>3, <3>1, <3>2 DEF JobSound, CanaryAlone, Untouched, OthersStand
  <2>9. StopsSoon(j)'
    <3>1. /\ At(j, PastCheck)' \subseteq At(j, PastCheck)
          /\ At(j, PastTake)' \subseteq At(j, PastTake)
      BY <1>2, <2>3 DEF At, PastCheck, PastTake, OthersStand
    <3>2. /\ Cardinality(At(j, PastCheck)') <= Cardinality(At(j, PastCheck))
          /\ Cardinality(At(j, PastTake)') <= Cardinality(At(j, PastTake))
          /\ Cardinality(At(j, PastCheck)') \in Nat /\ Cardinality(At(j, PastTake)') \in Nat
          /\ Cardinality(At(j, PastCheck)) \in Nat /\ Cardinality(At(j, PastTake)) \in Nat
          /\ late[j].halt \in Nat /\ late[j].cancel \in Nat /\ Concurrency \in Nat
      BY <1>1, <3>1, WorkersAt, WorkersAtNext, FS_Subset, JobQueueAssumption DEF JobFields
    <3> QED
      BY <1>1, <1>2, <2>1, <3>2 DEF JobSound, StopsSoon
  <2>10. JobSound(j)'
    BY <2>4, <2>6, <2>7, <2>8, <2>9 DEF JobSound
  <2> QED
    BY <1>2, <2>2, <2>3, <2>10, OthersRest, SameRow DEF OthersStand
<1> QED
  BY <1>3, <1>4, <1>5

-----------------------------------------------------------------------------
(* The invariant of the queue, and what it implies.                        *)

\* Nothing is claimed or touched at the start.
LEMMA QueueInit == Init => QueueInv
<1> SUFFICES ASSUME Init PROVE QueueInv
  OBVIOUS
<1>1. OrderInv
  BY OrderInit
<1>2. ASSUME NEW j \in Jobs PROVE JobSound(j)
  <2>1. /\ run[j] = NoRun /\ \A w \in Workers : worker[j][w] = IdleWorker
        /\ \A i \in Positions : did[j][i] = "no" /\ itemStatus[j][i] = "absent"
        /\ late[j] = [halt |-> 0, cancel |-> 0] /\ job[j].cancel = FALSE
        /\ 1 \in Positions
    BY JobQueueAssumption DEF Init, Positions
  <2>2. WorkersInPlace(j) /\ TouchedInTurn(j) /\ ItemsFollow(j)
    BY <2>1 DEF NoRun, IdleWorker, WorkersInPlace, TouchedInTurn, ItemsFollow, Inside, Untouched
  <2>3. CanaryAlone(j) /\ StopsSoon(j)
    BY <2>1 DEF NoRun, IdleWorker, CanaryAlone, StopsSoon, Untouched
  <2> QED
    BY <2>2, <2>3 DEF JobSound
<1> QED
  BY <1>1, <1>2 DEF QueueInv

\* Every step keeps it.
LEMMA QueueStep == QueueInv /\ [Next]_vars => QueueInv'
<1> SUFFICES ASSUME QueueInv, [Next]_vars PROVE QueueInv'
  OBVIOUS
<1>1. OrderInv'
  BY OrderStep DEF QueueInv
<1>2. ASSUME \A k \in Jobs : JobSound(k)' PROVE QueueInv'
  BY <1>1, <1>2 DEF QueueInv
<1>3. CASE UNCHANGED vars
  <2>1. UNCHANGED <<run, worker, did, late, job, itemStatus>>
    BY <1>3 DEF vars, rows, runs, history
  <2>2. \A k \in Jobs : RunRests(k)
    BY <2>1, AllRest, SameRow, SameItems
  <2> QED
    BY <1>2, <2>2, RestingKeeps DEF QueueInv, OrderInv
<1>4. CASE Request
  BY <1>2, <1>4, RequestKeepsJobs
<1>5. ASSUME NEW j \in Jobs, RunStep(j) \/ RunDbFails(j) PROVE QueueInv'
  BY <1>2, <1>5, RunStepKeepsJobs
<1>6. ASSUME NEW j \in Jobs, NEW w \in Workers, WorkerStep(j, w) \/ WorkerDbFails(j, w)
      PROVE  QueueInv'
  BY <1>2, <1>6, TakeKeeps, CheckKeeps, MarkKeeps, LoadKeeps, AnswerKeeps, RecordKeeps,
     WorkerFaultKeeps DEF WorkerStep
<1>7. ASSUME NEW t \in Threads,
             ThreadStep(t) \/ StartThread(t) \/ StopThread(t) \/ ThreadDbFails(t)
      PROVE  QueueInv'
  BY <1>2, <1>7, ChainKeepsJobs
<1>8. ASSUME NEW t \in Threads, ThreadDies(t) PROVE QueueInv'
  <2>1. {t} \in SUBSET Threads /\ ThreadsDie({t})
    BY <1>8 DEF ThreadDies
  <2> QED
    BY <1>2, <2>1, DeathKeepsJobs
<1>9. CASE Work
  BY <1>5, <1>6, <1>7, <1>9 DEF Work
<1>10. CASE Fault
  BY <1>5, <1>6, <1>7, <1>8, <1>10 DEF Fault
<1> QED
  BY <1>3, <1>4, <1>7, <1>9, <1>10 DEF Next

\* A process that dies with all its chains keeps it too.
LEMMA DeathKeepsQueue ==
    ASSUME QueueInv, NEW S \in SUBSET Threads, ThreadsDie(S), FaultsTyped' PROVE QueueInv'
<1>1. OrderInv'
  BY DeathKeepsOrder DEF QueueInv
<1>2. \A k \in Jobs : JobSound(k)'
  BY DeathKeepsJobs
<1> QED
  BY <1>1, <1>2 DEF QueueInv

\* The invariant holds in every reachable state.
LEMMA QueueIsSound == Spec => []QueueInv
  BY QueueInit, QueueStep, PTL DEF Spec

\* In a sound state the canary is first.
LEMMA SoundCanary == QueueInv => CanaryFirst
<1> SUFFICES ASSUME QueueInv, NEW j \in Jobs, NEW i \in Positions \ {1}, did[j][i] # "no"
             PROVE  did[j][1] # "busy" /\ (job[j].stop => did[j][1] = "ok")
  BY DEF CanaryFirst
<1>1. i >= 2
  BY DEF Positions
<1>2. JobSound(j)
  BY DEF QueueInv
<1>3. run[j].cursor \in Nat /\ i \in Nat
  BY FieldTypes DEF QueueInv, OrderInv, JobFields, Positions
<1>4. i < run[j].cursor
  BY <1>1, <1>2, <1>3 DEF JobSound, TouchedInTurn, Untouched
<1>5. run[j].cursor # 2
  BY <1>1, <1>3, <1>4
<1> QED
  BY <1>2, <1>5 DEF JobSound, CanaryAlone, Untouched

\* The canary goes first and alone, in a job that stops on errors it also must succeed
\* (queue.ts:209), however many leaders overlap, die and reap.
THEOREM CanaryGoesFirst == Spec => []CanaryFirst
  BY SoundCanary, QueueIsSound, PTL

\* In a sound state a stop misses no more than it may.
LEMMA SoundStop == QueueInv => StopRadius
<1> SUFFICES ASSUME QueueInv, NEW j \in Jobs
             PROVE  late[j].halt <= Concurrency - 1 /\ late[j].cancel <= Concurrency
  BY DEF StopRadius
<1>1. StopsSoon(j) /\ JobFields(j)
  BY FieldTypes DEF QueueInv, OrderInv, JobSound
<1>2. /\ Cardinality(At(j, PastCheck)) \in Nat /\ Cardinality(At(j, PastTake)) \in Nat
      /\ Concurrency \in Nat /\ Concurrency >= 1
  BY WorkersAt, JobQueueAssumption
<1> QED
  BY <1>1, <1>2 DEF StopsSoon, JobFields

\* After the first recorded failure of a job that stops on errors at most the other
\* workers still reach a server; after a cancellation at most one server per worker
\* (queue.ts:177, :178).
THEOREM StopsWithinRadius == Spec => []StopRadius
  BY SoundStop, QueueIsSound, PTL

\* In a sound state the rows say what the panels did.
LEMMA SoundReport == QueueInv => ReportMatchesPanel
BY DEF QueueInv, JobSound, ItemsFollow, Untouched, ReportMatchesPanel

\* What the rows of a job say of a server agrees with what its panel did: a skipped or
\* pending item was never tried, a succeeded one was carried out (queue.ts:217, :254).
THEOREM ReportsMatch == Spec => []ReportMatchesPanel
  BY SoundReport, QueueIsSound, PTL

\* One server of one job, from one state to the next: touched at most once, and what
\* happened there is never forgotten.
TouchedOnce ==
    \A j \in Jobs, i \in Positions :
        did[j][i] # "no" /\ did'[j][i] # did[j][i] => did[j][i] = "busy" /\ did'[j][i] # "no"

\* A worker touches only an untouched server, and answers only for the one it called.
LEMMA WorkerTouchesOnce ==
    ASSUME QueueInv, NEW j \in Jobs, NEW w \in Workers, WorkerStep(j, w)
    PROVE  TouchedOnce
<1>1. HistoryTyped /\ JobSound(j) /\ worker[j][w].pos \in Positions
  BY FieldTypes DEF QueueInv, OrderInv, TypeOK, JobFields
<1>2. CASE UNCHANGED did
  BY <1>2 DEF TouchedOnce
<1>3. CASE LoadClient(j, w)
  <2>1. did[j][worker[j][w].pos] = "no"
    <3>1. worker[j][w].at = "creds"
      BY <1>3 DEF LoadClient
    <3> QED
      BY <1>1, <3>1 DEF JobSound, TouchedInTurn, Untouched
  <2>2. UNCHANGED did \/ did' = [did EXCEPT ![j][worker[j][w].pos] = "busy"]
    BY <1>3 DEF LoadClient
  <2>3. \A k \in Jobs, i \in Positions : did'[k][i] = did[k][i] \/ did[k][i] = "no"
    <3>1. PICK p \in Positions : p = worker[j][w].pos
      BY <1>1
    <3>2. UNCHANGED did \/ did' = [did EXCEPT ![j][p] = "busy"]
      BY <2>2, <3>1
    <3>3. did \in [Jobs -> [Positions -> {"no", "busy", "ok", "refused"}]] /\ did[j][p] = "no"
      BY <1>1, <2>1, <3>1 DEF HistoryTyped
    <3> QED
      BY <3>2, <3>3
  <2> QED
    BY <2>3 DEF TouchedOnce
<1>4. ASSUME NEW ok \in BOOLEAN, PanelAnswers(j, w, ok) PROVE TouchedOnce
  <2>1. did[j][worker[j][w].pos] = "busy"
    <3>1. worker[j][w].at = "panel"
      BY <1>4 DEF PanelAnswers
    <3> QED
      BY <1>1, <3>1 DEF JobSound, TouchedInTurn
  <2>2. did' = [did EXCEPT ![j][worker[j][w].pos] = IF ok THEN "ok" ELSE "refused"]
    BY <1>4 DEF PanelAnswers
  <2>3. \A k \in Jobs, i \in Positions :
          did'[k][i] = did[k][i] \/ (did[k][i] = "busy" /\ did'[k][i] \in {"ok", "refused"})
    BY <1>1, <2>1, <2>2 DEF HistoryTyped
  <2> QED
    BY <2>3 DEF TouchedOnce
<1> QED
  BY <1>2, <1>3, <1>4
     DEF WorkerStep, TakeItem, CheckCancel, MarkRunning, RecordResult, history

\* No other step touches a server.
LEMMA OthersTouchNothing ==
    ASSUME \/ Request
           \/ \E j \in Jobs : RunStep(j) \/ RunDbFails(j)
           \/ \E j \in Jobs, w \in Workers : WorkerDbFails(j, w)
           \/ \E t \in Threads : ThreadStep(t) \/ StartThread(t) \/ StopThread(t) \/ ThreadDbFails(t)
           \/ \E S \in SUBSET Threads : ThreadsDie(S)
    PROVE  UNCHANGED did
<1>1. CASE Request
  BY <1>1 DEF Request, CreateJob, RequestCancel, DeleteServer, history
<1>2. CASE \E j \in Jobs : RunStep(j) \/ RunDbFails(j)
  BY <1>2 DEF RunStep, RunDbFails, LoadJob, RetireJob, RetireItems, AfterCanary, AfterFanout,
              SweepCancel, SkipPending, CountFailures, FinishJob, JournalJob, history
<1>3. CASE \E j \in Jobs, w \in Workers : WorkerDbFails(j, w)
  BY <1>3 DEF WorkerDbFails, history
<1>4. CASE \E t \in Threads : ThreadStep(t) \/ StartThread(t) \/ StopThread(t) \/ ThreadDbFails(t)
  BY <1>4 DEF ThreadStep, ReapStep, DrainStep, FindJob, FindNothing, Wake, ClaimJob, RunReturns,
              ReapFind, ReapItems, ReapSkip, ReapJobs, StartThread, StopThread, ThreadDbFails, history
<1>5. CASE \E S \in SUBSET Threads : ThreadsDie(S)
  BY <1>5 DEF ThreadsDie, history
<1> QED
  BY <1>1, <1>2, <1>3, <1>4, <1>5

\* A step of the queue touches no server twice.
LEMMA QueueTouchesOnce == ASSUME QueueInv, Next PROVE TouchedOnce
<1>1. CASE UNCHANGED did
  BY <1>1 DEF TouchedOnce
<1>2. ASSUME NEW t \in Threads, ThreadDies(t) PROVE UNCHANGED did
  BY <1>2 DEF ThreadDies, ThreadsDie, history
<1> QED
  BY <1>1, <1>2, WorkerTouchesOnce, OthersTouchNothing DEF Next, Work, Fault

\* No server is worked on twice by one job, whatever leaders overlap, die or reap: the
\* conditional claim (queue.ts:104) and mapLimit's shared cursor together.
THEOREM AtMostOnceEach == Spec => AtMostOnce
<1>1. QueueInv /\ [Next]_vars => [TouchedOnce]_vars
  BY QueueTouchesOnce
<1>2. [][TouchedOnce]_vars => AtMostOnce
  <2>1. [TouchedOnce]_vars =>
          [\A j \in Jobs, i \in Positions :
            did[j][i] # "no" /\ did'[j][i] # did[j][i] =>
                did[j][i] = "busy" /\ did'[j][i] # "no"]_vars
    BY DEF TouchedOnce
  <2> QED
    BY <2>1, PTL DEF AtMostOnce
<1> QED
  BY <1>1, <1>2, QueueIsSound, PTL DEF Spec

-----------------------------------------------------------------------------
(* One leader at a time: who may write a job's rows (SoleSpec).            *)

\* A run that has begun and not ended.
Active(j) == run[j].phase \notin {"none"} \cup Over

\* At most one drain chain is alive.
Alone == \A t, u \in Threads : thread[t].at # "off" /\ thread[u].at # "off" => t = u

\* An active run belongs to a living chain that waits for it.
RunsAreHeld ==
    \A j \in Jobs : Active(j) =>
        /\ run[j].owner \in Threads
        /\ thread[run[j].owner].at = "running" /\ thread[run[j].owner].job = {j}

\* Phases of a job whose kind the build knows.
Full == {"canary", "fanout", "sweep", "skip", "count", "finish", "journal"}
Open == {"load", "retire", "canary", "fanout", "sweep", "skip", "count", "finish"}

\* Until its run closes it, a claimed job is running.
StatusFollows(j) ==
    /\ run[j].phase \in Open => job[j].status = "running"
    /\ run[j].phase \in {"retire", "retireItems"} => j \in RetiredJobs
    /\ run[j].phase \in Full \/ job[j].status = "succeeded" => j \notin RetiredJobs

\* The jobs a reaper has found are still running.
ReapersRemember ==
    \A t \in Threads : thread[t].at \in {"reapItems", "reapSkip", "reapJobs"} =>
        \A j \in thread[t].job : job[j].status = "running"

SoleInv ==
    /\ QueueInv /\ Alone /\ RunsAreHeld /\ ReapersRemember
    /\ \A j \in Jobs : StatusFollows(j)

\* While a run is active no chain looks for work or reaps.
LEMMA HeldAlone ==
    ASSUME SoleInv, NEW j \in Jobs, Active(j), NEW t \in Threads, thread[t].at # "off"
    PROVE  thread[t].at = "running" /\ thread[t].job = {j}
<1>1. /\ run[j].owner \in Threads
      /\ thread[run[j].owner].at = "running" /\ thread[run[j].owner].job = {j}
  BY DEF SoleInv, RunsAreHeld
<1> QED
  BY <1>1 DEF SoleInv, Alone

\* No chain comes alive, so the one that is alive stays alone.
LEMMA AloneKept ==
    ASSUME Alone, \A t \in Threads : thread'[t].at # "off" => thread[t].at # "off"
    PROVE  Alone'
BY DEF Alone

\* A run whose locals and status are as before still follows its status.
LEMMA StatusKept ==
    ASSUME NEW j \in Jobs, StatusFollows(j), run'[j].phase = run[j].phase,
           job'[j].status = job[j].status
    PROVE  StatusFollows(j)'
BY DEF StatusFollows

\* A step of one job's run or workers.
StepOf(j) ==
    \/ RunStep(j) \/ RunDbFails(j)
    \/ \E w \in Workers : WorkerStep(j, w) \/ WorkerDbFails(j, w)

\* A worker steps only while its run is in the canary's phase or in the fan-out.
LEMMA WorkersStepInside ==
    ASSUME QueueInv, NEW j \in Jobs, NEW w \in Workers, WorkerStep(j, w) \/ WorkerDbFails(j, w)
    PROVE  run[j].phase \in {"canary", "fanout"}
<1>1. worker[j][w].at # "off"
  BY DEF WorkerStep, TakeItem, CheckCancel, MarkRunning, LoadClient, PanelAnswers, RecordResult,
         WorkerDbFails
<1> QED
  BY <1>1, WhereWorkersAre DEF QueueInv

\* It writes no job row, and no item but its job's.
LEMMA WorkerStepWrites ==
    ASSUME TypeOK, NEW j \in Jobs, NEW w \in Workers, WorkerStep(j, w) \/ WorkerDbFails(j, w)
    PROVE  /\ UNCHANGED <<job, itemServer, servers, created, thread>>
           /\ \A k \in Jobs : k # j => run'[k] = run[k] /\ worker'[k] = worker[k]
                                       /\ itemStatus'[k] = itemStatus[k]
           /\ run'[j].phase = run[j].phase \/ (run[j].phase = "canary" /\ run'[j].phase = "thrown")
<1>1. RunTyped /\ ItemsTyped /\ WorkersTyped /\ run[j] \in RunCtx
  BY DEF TypeOK, RunTyped
<1>2. UNCHANGED <<job, itemServer, servers, created, thread>>
  BY DEF WorkerStep, TakeItem, CheckCancel, MarkRunning, LoadClient, PanelAnswers, RecordResult,
         WorkerDbFails, rows
<1>3. \A k \in Jobs : k # j => itemStatus'[k] = itemStatus[k]
  BY <1>1 DEF WorkerStep, TakeItem, CheckCancel, MarkRunning, LoadClient, PanelAnswers, RecordResult,
         WorkerDbFails, rows, SetItem, ItemsTyped
<1>4. \A k \in Jobs : k # j => worker'[k] = worker[k]
  BY <1>1 DEF WorkerStep, TakeItem, CheckCancel, MarkRunning, LoadClient, PanelAnswers, RecordResult,
         WorkerDbFails, Goto, WorkersTyped
<1>5. \A k \in Jobs : k # j => run'[k] = run[k]
  BY <1>1 DEF WorkerStep, TakeItem, CheckCancel, MarkRunning, LoadClient, PanelAnswers, RecordResult,
         WorkerDbFails, RunTyped
<1>6. run'[j].phase = run[j].phase \/ (run[j].phase = "canary" /\ run'[j].phase = "thrown")
  BY <1>1 DEF WorkerStep, TakeItem, CheckCancel, MarkRunning, LoadClient, PanelAnswers, RecordResult,
         WorkerDbFails, RunTyped, RunCtx
<1> QED
  BY <1>2, <1>3, <1>4, <1>5, <1>6

\* A step of a run writes its own job's rows and locals, and only those.
LEMMA RunStepWrites ==
    ASSUME TypeOK, NEW j \in Jobs, RunStep(j) \/ RunDbFails(j)
    PROVE  /\ UNCHANGED <<itemServer, servers, created, thread>>
           /\ \A k \in Jobs : k # j => /\ run'[k] = run[k] /\ worker'[k] = worker[k]
                                       /\ job'[k] = job[k] /\ itemStatus'[k] = itemStatus[k]
           /\ job'[j].cancel = job[j].cancel
<1>1. RunTyped /\ ItemsTyped /\ WorkersTyped /\ JobsTyped
  BY DEF TypeOK
<1>2. UNCHANGED <<itemServer, servers, created, thread>>
  BY DEF RunStep, RunDbFails, LoadJob, RetireJob, RetireItems, AfterCanary, AfterFanout,
         SweepCancel, SkipPending, CountFailures, FinishJob, JournalJob, rows
<1>3. \A k \in Jobs : k # j => run'[k] = run[k]
  BY <1>1 DEF RunStep, RunDbFails, LoadJob, RetireJob, RetireItems, AfterCanary, AfterFanout,
         SweepCancel, SkipPending, CountFailures, FinishJob, JournalJob, SetPhase, RunTyped
<1>4. \A k \in Jobs : k # j => worker'[k] = worker[k]
  BY <1>1 DEF RunStep, RunDbFails, LoadJob, RetireJob, RetireItems, AfterCanary, AfterFanout,
         SweepCancel, SkipPending, CountFailures, FinishJob, JournalJob, WorkersTyped
<1>5. \A k \in Jobs : k # j => itemStatus'[k] = itemStatus[k]
  BY <1>1 DEF RunStep, RunDbFails, LoadJob, RetireJob, RetireItems, AfterCanary, AfterFanout,
         SweepCancel, SkipPending, CountFailures, FinishJob, JournalJob, rows, ItemsTyped
<1>6. \A k \in Jobs : k # j => job'[k] = job[k]
  BY <1>1 DEF RunStep, RunDbFails, LoadJob, RetireJob, RetireItems, AfterCanary, AfterFanout,
         SweepCancel, SkipPending, CountFailures, FinishJob, JournalJob, rows, Finish, JobsTyped
<1>7. job'[j].cancel = job[j].cancel
  BY <1>1 DEF RunStep, RunDbFails, LoadJob, RetireJob, RetireItems, AfterCanary, AfterFanout,
         SweepCancel, SkipPending, CountFailures, FinishJob, JournalJob, rows, Finish, JobsTyped, JobRow
<1> QED
  BY <1>2, <1>3, <1>4, <1>5, <1>6, <1>7

\* The way a run goes through its phases.
LEMMA RunStepPhases ==
    ASSUME TypeOK, NEW j \in Jobs, RunStep(j) \/ RunDbFails(j)
    PROVE  \/ /\ run[j].phase \in Open \cup {"retireItems"} /\ run'[j].phase = "thrown"
              /\ job'[j].status = job[j].status
           \/ /\ run[j].phase = "load" /\ run'[j].phase = "retire" /\ j \in RetiredJobs
              /\ job'[j].status = job[j].status
           \/ /\ run[j].phase = "load" /\ run'[j].phase = "canary" /\ j \notin RetiredJobs
              /\ job'[j].status = job[j].status
           \/ /\ run[j].phase = "retire" /\ run'[j].phase = "retireItems"
              /\ job'[j].status = "failed"
           \/ /\ run[j].phase \in {"retireItems", "journal"} /\ run'[j].phase = "done"
              /\ job'[j].status = job[j].status
           \/ /\ run[j].phase \in Full \ {"finish", "journal"}
              /\ run'[j].phase \in {"fanout", "sweep", "skip", "count", "finish"}
              /\ job'[j].status = job[j].status
           \/ /\ run[j].phase = "finish" /\ run'[j].phase = "journal"
              /\ job'[j].status \in Terminal
<1>1. run[j] \in RunCtx /\ job[j] \in JobRow /\ run \in [Jobs -> RunCtx] /\ job \in [Jobs -> JobRow]
  BY DEF TypeOK, RunTyped, JobsTyped
<1>2. CASE LoadJob(j)
  BY <1>1, <1>2 DEF LoadJob, SetPhase, RunCtx, rows
<1>3. CASE RetireJob(j)
  BY <1>1, <1>3 DEF RetireJob, SetPhase, RunCtx, Finish, JobRow
<1>4. CASE RetireItems(j) \/ JournalJob(j)
  BY <1>1, <1>4 DEF RetireItems, JournalJob, SetPhase, RunCtx, rows
<1>5. CASE AfterCanary(j) \/ AfterFanout(j) \/ SkipPending(j)
  BY <1>1, <1>5 DEF AfterCanary, AfterFanout, SkipPending, SetPhase, RunCtx, rows, Full
<1>6. CASE SweepCancel(j) \/ CountFailures(j)
  BY <1>1, <1>6 DEF SweepCancel, CountFailures, RunCtx, rows, Full
<1>7. CASE FinishJob(j)
  <2>1. Verdict(run[j]) \in Terminal
    BY VerdictType
  <2> QED
    BY <1>1, <1>7, <2>1 DEF FinishJob, SetPhase, RunCtx, Finish, JobRow
<1>8. CASE RunDbFails(j)
  BY <1>1, <1>8 DEF RunDbFails, SetPhase, RunCtx, rows, Open
<1> QED
  BY <1>2, <1>3, <1>4, <1>5, <1>6, <1>7, <1>8 DEF RunStep

\* A step of a run or a worker is one of an active run, and keeps it held and alone.
LEMMA RunKeepsSole ==
    ASSUME SoleInv, NEW j \in Jobs, StepOf(j)
    PROVE  Alone' /\ RunsAreHeld' /\ ReapersRemember' /\ \A k \in Jobs : StatusFollows(k)'
<1>1. TypeOK /\ QueueInv /\ RunsAreStarted
  BY DEF SoleInv, QueueInv, OrderInv
<1>2. Active(j)
  <2>1. CASE RunStep(j) \/ RunDbFails(j)
    BY <1>1, <2>1, RunStepPhases DEF Active, Over, Open, Full
  <2>2. CASE \E w \in Workers : WorkerStep(j, w) \/ WorkerDbFails(j, w)
    BY <1>1, <2>2, WorkersStepInside DEF Active, Over
  <2> QED
    BY <2>1, <2>2 DEF StepOf
<1>3. /\ thread' = thread
      /\ \A k \in Jobs : k # j => run'[k] = run[k] /\ job'[k] = job[k]
      /\ \A k \in Jobs : run'[k].owner = run[k].owner
  BY <1>1, RunStepWrites, WorkerStepWrites, RunStepIsQuiet, WorkerStepIsQuiet DEF StepOf, RunQuiet
<1>4. Alone'
  BY <1>3 DEF SoleInv, Alone
<1>5. RunsAreHeld'
  <2>1. ASSUME NEW k \in Jobs, Active(k)' PROVE Active(k)
    BY <1>2, <1>3, <2>1 DEF Active
  <2> QED
    BY <1>3, <2>1 DEF SoleInv, RunsAreHeld
<1>6. ReapersRemember'
  <2>1. ASSUME NEW t \in Threads, thread[t].at \in {"reapItems", "reapSkip", "reapJobs"} PROVE FALSE
    BY <1>2, <2>1, HeldAlone
  <2> QED
    BY <1>3, <2>1 DEF ReapersRemember
<1>7. StatusFollows(j)'
  <2>1. StatusFollows(j) /\ job[j] \in JobRow
    BY <1>1 DEF SoleInv, TypeOK, JobsTyped
  <2>2. CASE \E w \in Workers : WorkerStep(j, w) \/ WorkerDbFails(j, w)
    <3>1. job'[j] = job[j] /\ (run'[j].phase = run[j].phase \/ (run[j].phase = "canary" /\ run'[j].phase = "thrown"))
      BY <1>1, <2>2, WorkerStepWrites
    <3> QED
      BY <2>1, <3>1 DEF StatusFollows, Open, Full
  <2>3. CASE RunStep(j) \/ RunDbFails(j)
    BY <1>1, <2>1, <2>3, RunStepPhases DEF StatusFollows, Open, Full
  <2> QED
    BY <2>2, <2>3 DEF StepOf
<1>8. ASSUME NEW k \in Jobs, k # j PROVE StatusFollows(k)'
  BY <1>3, <1>8, StatusKept DEF SoleInv
<1> QED
  BY <1>4, <1>5, <1>6, <1>7, <1>8

\* A request makes no run, and leaves the status of the jobs that exist.
LEMMA RequestKeepsSole ==
    ASSUME SoleInv, Request
    PROVE  /\ Alone' /\ RunsAreHeld' /\ ReapersRemember' /\ \A k \in Jobs : StatusFollows(k)'
           /\ UNCHANGED <<run, worker, thread>>
           /\ \A k \in Jobs : job[k].status # "absent" =>
                job'[k].status = job[k].status /\ itemStatus'[k] = itemStatus[k]
<1>1. TypeOK /\ JobsTyped /\ ItemsTyped /\ RunsAreStarted
  BY DEF SoleInv, QueueInv, OrderInv, TypeOK
<1>2. UNCHANGED <<run, worker, thread>>
  BY DEF Request, CreateJob, RequestCancel, DeleteServer, runs
<1>3. \A k \in Jobs : job[k].status # "absent" =>
            job'[k].status = job[k].status /\ itemStatus'[k] = itemStatus[k]
  <2>1. ASSUME NEW j \in Jobs, NEW ids \in InputLists, NEW stop \in BOOLEAN, CreateJob(j, ids, stop),
               NEW k \in Jobs, job[k].status # "absent"
        PROVE  job'[k].status = job[k].status /\ itemStatus'[k] = itemStatus[k]
    <3>1. k # j
      BY <2>1 DEF CreateJob
    <3> QED
      BY <1>1, <2>1, <3>1 DEF CreateJob, JobsTyped, ItemsTyped
  <2>2. ASSUME NEW j \in Jobs, RequestCancel(j), NEW k \in Jobs
        PROVE  job'[k].status = job[k].status /\ itemStatus'[k] = itemStatus[k]
    BY <1>1, <2>2 DEF RequestCancel, JobsTyped, JobRow
  <2>3. ASSUME NEW s \in Servers, DeleteServer(s), NEW k \in Jobs
        PROVE  job'[k].status = job[k].status /\ itemStatus'[k] = itemStatus[k]
    BY <2>3 DEF DeleteServer
  <2> QED
    BY <2>1, <2>2, <2>3 DEF Request
<1>4. \A k \in Jobs : job[k].status = "absent" => job'[k].status \in {"absent", "pending"}
  <2>1. ASSUME NEW j \in Jobs, NEW ids \in InputLists, NEW stop \in BOOLEAN, CreateJob(j, ids, stop),
               NEW k \in Jobs
        PROVE  job'[k] = job[k] \/ job'[k].status = "pending"
    BY <1>1, <2>1 DEF CreateJob, JobsTyped
  <2>2. ASSUME NEW j \in Jobs, RequestCancel(j), NEW k \in Jobs
        PROVE  job'[k].status = job[k].status
    BY <1>1, <2>2 DEF RequestCancel, JobsTyped, JobRow
  <2>3. ASSUME NEW s \in Servers, DeleteServer(s) PROVE job' = job
    BY <2>3 DEF DeleteServer
  <2> QED
    BY <2>1, <2>2, <2>3 DEF Request
<1>5. ASSUME NEW k \in Jobs PROVE StatusFollows(k)'
  <2>1. CASE job[k].status # "absent"
    BY <1>2, <1>3, <2>1, StatusKept DEF SoleInv
  <2>2. CASE job[k].status = "absent"
    <3>1. run[k].phase = "none"
      BY <1>1, <2>2 DEF RunsAreStarted, Started, Terminal
    <3> QED
      BY <1>2, <1>4, <2>2, <3>1 DEF StatusFollows, Open, Full
  <2> QED
    BY <2>1, <2>2
<1>6. Alone' /\ RunsAreHeld'
  BY <1>2 DEF SoleInv, Alone, RunsAreHeld, Active
<1>7. ReapersRemember'
  <2>1. \A t \in Threads : thread[t].job \in SUBSET Jobs
    BY <1>1 DEF TypeOK, ThreadsTyped
  <2> QED
    BY <1>2, <1>3, <2>1 DEF SoleInv, ReapersRemember
<1> QED
  BY <1>2, <1>3, <1>5, <1>6, <1>7

\* The chain that looks for work or reaps is alone, and no run is active meanwhile.
LEMMA ChainKeepsSole ==
    ASSUME SoleInv, NEW t \in Threads,
           ThreadStep(t) \/ SoleStart(t) \/ StopThread(t) \/ ThreadDbFails(t)
    PROVE  /\ Alone' /\ RunsAreHeld' /\ ReapersRemember' /\ \A k \in Jobs : StatusFollows(k)'
           /\ \A k \in Jobs : ~Active(k)
           /\ \A k \in Jobs : Ended(k) => job'[k].status = job[k].status /\ itemStatus'[k] = itemStatus[k]
<1>1. /\ TypeOK /\ JobsTyped /\ ThreadsTyped /\ RunTyped /\ RunsAreStarted
      /\ Alone /\ RunsAreHeld /\ ReapersRemember
      /\ thread[t].job \in SUBSET Jobs
  BY DEF SoleInv, QueueInv, OrderInv, TypeOK, ThreadsTyped
<1>2. \A k \in Jobs : ~Active(k)
  <2>1. CASE SoleStart(t)
    BY <1>1, <2>1 DEF SoleStart, RunsAreHeld
  <2>2. CASE RunReturns(t)
    <3>1. thread[t].at = "running" /\ \E j \in thread[t].job : run[j].phase \in Over
      BY <2>2 DEF RunReturns
    <3>2. ASSUME NEW k \in Jobs, Active(k) PROVE FALSE
      <4>1. thread[t].job = {k}
        BY <3>1, <3>2, HeldAlone
      <4> QED
        BY <3>1, <3>2, <4>1 DEF Active
    <3> QED
      BY <3>2
  <2>3. CASE ~SoleStart(t) /\ ~RunReturns(t)
    <3>1. thread[t].at \notin {"off", "running"}
      BY <2>3 DEF ThreadStep, ReapStep, DrainStep, ReapFind, ReapItems, ReapSkip, ReapJobs,
                  FindJob, FindNothing, Wake, ClaimJob, StopThread, ThreadDbFails
    <3> QED
      BY <3>1, HeldAlone
  <2> QED
    BY <2>1, <2>2, <2>3
<1>3. PICK a \in ThreadAt, S \in SUBSET Jobs :
        /\ Move(t, a, S)
        /\ a \in {"reapItems", "reapSkip", "reapJobs"} => \A j \in S : job[j].status = "running" /\ job' = job
  <2>1. CASE ReapFind(t)
    BY <2>1 DEF ReapFind, Stuck, ThreadAt, rows
  <2>2. CASE ReapItems(t) \/ ReapSkip(t)
    BY <1>1, <2>2 DEF ReapItems, ReapSkip, ReapersRemember, ThreadAt
  <2>3. CASE FindJob(t)
    <3>1. PICK n \in DOMAIN created : Move(t, "found", {created[n]})
      BY <2>3 DEF FindJob
    <3>2. created[n] \in Jobs
      BY <1>1 DEF JobsTyped
    <3> QED
      BY <3>1, <3>2 DEF ThreadAt
  <2>4. CASE ClaimJob(t)
    <3>1. \E a \in {"running", "idle"}, S \in SUBSET Jobs : Move(t, a, S)
      BY <1>1, <2>4 DEF ClaimJob
    <3> QED
      BY <3>1 DEF ThreadAt
  <2>5. CASE \/ ReapJobs(t) \/ FindNothing(t) \/ Wake(t) \/ RunReturns(t)
             \/ SoleStart(t) \/ StopThread(t) \/ ThreadDbFails(t)
    <3>1. \E a \in {"ready", "idle", "off", "reap"} : Move(t, a, {})
      BY <2>5 DEF ReapJobs, FindNothing, Wake, RunReturns, SoleStart, StartThread, StopThread,
                  ThreadDbFails
    <3> QED
      BY <3>1 DEF ThreadAt
  <2> QED
    BY <2>1, <2>2, <2>3, <2>4, <2>5 DEF ThreadStep, ReapStep, DrainStep
<1>4. /\ \A u \in Threads : u # t => thread'[u] = thread[u]
      /\ thread'[t] = [at |-> a, job |-> S]
  BY <1>1, <1>3 DEF Move, ThreadsTyped
<1>5. \A u \in Threads : u # t => thread[u].at = "off"
  <2>1. CASE SoleStart(t)
    BY <2>1 DEF SoleStart
  <2>2. CASE ~SoleStart(t)
    <3>1. thread[t].at # "off"
      BY <2>2 DEF ThreadStep, ReapStep, DrainStep, ReapFind, ReapItems, ReapSkip, ReapJobs,
                  FindJob, FindNothing, Wake, ClaimJob, RunReturns, StopThread, ThreadDbFails
    <3> QED
      BY <1>1, <3>1 DEF Alone
  <2> QED
    BY <2>1, <2>2
<1>6. Alone'
  BY <1>4, <1>5 DEF Alone
<1>7. ReapersRemember'
  BY <1>3, <1>4, <1>5 DEF ReapersRemember
<1>8. CASE ClaimJob(t)
  <2>1. PICK j \in thread[t].job :
          \/ /\ Claimable(j)
             /\ job' = [job EXCEPT ![j].status = "running"]
             /\ run' = [run EXCEPT ![j].phase = "load", ![j].owner = t]
             /\ Move(t, "running", {j})
          \/ UNCHANGED <<job, run>>
    BY <1>8 DEF ClaimJob
  <2>2. UNCHANGED itemStatus
    BY <1>8 DEF ClaimJob
  <2>3. CASE UNCHANGED <<job, run>>
    BY <1>2, <1>6, <1>7, <2>2, <2>3, StatusKept DEF SoleInv, RunsAreHeld, Active
  <2>4. CASE /\ Claimable(j)
             /\ job' = [job EXCEPT ![j].status = "running"]
             /\ run' = [run EXCEPT ![j].phase = "load", ![j].owner = t]
             /\ Move(t, "running", {j})
    <3>1. /\ j \in Jobs /\ job[j].status = "pending" /\ job'[j].status = "running"
          /\ run'[j].phase = "load" /\ run'[j].owner = t
          /\ \A k \in Jobs : k # j => run'[k] = run[k] /\ job'[k] = job[k]
      BY <1>1, <2>4 DEF Claimable, JobsTyped, JobRow, RunTyped, RunCtx
    <3>2. thread'[t].at = "running" /\ thread'[t].job = {j}
      BY <1>1, <2>4 DEF Move, ThreadsTyped
    <3>3. RunsAreHeld'
      BY <1>2, <3>1, <3>2 DEF RunsAreHeld, Active
    <3>4. StatusFollows(j)'
      BY <3>1 DEF StatusFollows, Open, Full
    <3>5. ASSUME NEW k \in Jobs, k # j PROVE StatusFollows(k)'
      BY <3>1, <3>5, StatusKept DEF SoleInv
    <3> QED
      BY <1>2, <1>6, <1>7, <2>2, <3>1, <3>3, <3>4, <3>5 DEF Ended, Terminal
  <2> QED
    BY <2>1, <2>3, <2>4
<1>9. CASE ReapJobs(t)
  <2>1. UNCHANGED <<run, itemStatus>> /\ \A k \in thread[t].job : job[k].status = "running"
    BY <1>1, <1>9 DEF ReapJobs, runs, ReapersRemember
  <2>2. \A k \in Jobs : IF k \in thread[t].job THEN job'[k].status = "failed" ELSE job'[k] = job[k]
    BY <1>1, <1>9 DEF ReapJobs, ReapedRow, JobsTyped, JobRow
  <2>3. RunsAreHeld'
    BY <1>2, <2>1 DEF RunsAreHeld, Active
  <2>4. ASSUME NEW k \in Jobs PROVE StatusFollows(k)'
    <3>1. CASE k \in thread[t].job
      BY <1>2, <2>1, <2>2, <3>1 DEF StatusFollows, Active, Over, Open, Full
    <3>2. CASE k \notin thread[t].job
      BY <2>1, <2>2, <3>2, StatusKept DEF SoleInv
    <3> QED
      BY <3>1, <3>2
  <2>5. ASSUME NEW k \in Jobs, Ended(k) PROVE k \notin thread[t].job
    BY <2>1, <2>5 DEF Ended, Terminal
  <2> QED
    BY <1>2, <1>6, <1>7, <2>1, <2>2, <2>3, <2>4, <2>5
<1>10. CASE ~ClaimJob(t) /\ ~ReapJobs(t)
  <2>1. UNCHANGED <<run, job>>
    BY <1>10 DEF ThreadStep, ReapStep, DrainStep, ReapFind, ReapItems, ReapSkip,
                 FindJob, FindNothing, Wake, RunReturns, SoleStart, StartThread, StopThread,
                 ThreadDbFails, rows, runs
  <2>2. \A k \in Jobs : Ended(k) => itemStatus'[k] = itemStatus[k]
    <3>1. CASE ReapItems(t) \/ ReapSkip(t)
      <4>1. \A k \in thread[t].job : ~Ended(k)
        BY <1>1, <3>1 DEF ReapItems, ReapSkip, ReapersRemember, Ended, Terminal
      <4> QED
        BY <3>1, <4>1 DEF ReapItems, ReapSkip, ReapTurn
    <3>2. CASE ~ReapItems(t) /\ ~ReapSkip(t)
      BY <1>10, <3>2
         DEF ThreadStep, ReapStep, DrainStep, ReapFind, FindJob, FindNothing, Wake, RunReturns,
             SoleStart, StartThread, StopThread, ThreadDbFails, rows
    <3> QED
      BY <3>1, <3>2
  <2>3. RunsAreHeld'
    BY <1>2, <2>1 DEF RunsAreHeld, Active
  <2>4. \A k \in Jobs : StatusFollows(k)'
    BY <2>1, StatusKept DEF SoleInv
  <2> QED
    BY <1>2, <1>6, <1>7, <2>1, <2>2, <2>3, <2>4
<1> QED
  BY <1>8, <1>9, <1>10

\* When chains die, what they ran is no longer active.
LEMMA DeathKeepsSole ==
    ASSUME SoleInv, NEW S \in SUBSET Threads, ThreadsDie(S)
    PROVE  /\ Alone' /\ RunsAreHeld' /\ ReapersRemember' /\ \A k \in Jobs : StatusFollows(k)'
           /\ UNCHANGED <<job, itemStatus>>
<1>1. TypeOK /\ RunTyped /\ \A k \in Jobs : run[k] \in RunCtx
  BY DEF SoleInv, QueueInv, OrderInv, TypeOK, RunTyped
<1>2. /\ \A t \in Threads : thread'[t] = IF t \in S THEN NoWork ELSE thread[t]
      /\ UNCHANGED <<job, itemStatus>>
  BY DEF ThreadsDie, rows
<1>3. \A k \in Jobs : \/ run'[k] = run[k] /\ ~(run[k].owner \in S /\ run[k].phase \notin Over)
                      \/ run'[k].phase = "lost"
  BY <1>1 DEF ThreadsDie, RunCtx
<1>4. ASSUME NEW k \in Jobs, Active(k)' PROVE Active(k) /\ run'[k] = run[k] /\ run[k].owner \notin S
  BY <1>3, <1>4 DEF Active, Over
<1>5. Alone' /\ RunsAreHeld' /\ ReapersRemember'
  BY <1>2, <1>4 DEF SoleInv, Alone, RunsAreHeld, ReapersRemember, NoWork
<1>6. ASSUME NEW k \in Jobs PROVE StatusFollows(k)'
  BY <1>2, <1>3 DEF SoleInv, StatusFollows, Open, Full
<1> QED
  BY <1>2, <1>5, <1>6

\* Every step of SoleSpec keeps the leader alone.
LEMMA SoleStep == SoleInv /\ [SoleNext]_vars => SoleInv'
<1> SUFFICES ASSUME SoleInv, [SoleNext]_vars PROVE SoleInv'
  OBVIOUS
<1>1. QueueInv'
  <2>1. [Next]_vars
    BY DEF SoleNext, Next, SoleStart
  <2> QED
    BY <2>1, QueueStep DEF SoleInv
<1>2. ASSUME Alone' /\ RunsAreHeld' /\ ReapersRemember' /\ \A k \in Jobs : StatusFollows(k)'
      PROVE  SoleInv'
  BY <1>1, <1>2 DEF SoleInv
<1>3. CASE UNCHANGED vars
  <2>1. UNCHANGED <<thread, run, job>>
    BY <1>3 DEF vars, rows, runs
  <2> QED
    BY <1>2, <2>1, StatusKept DEF SoleInv, Alone, RunsAreHeld, ReapersRemember, Active
<1>4. CASE Request
  BY <1>2, <1>4, RequestKeepsSole
<1>5. ASSUME NEW j \in Jobs, StepOf(j) PROVE SoleInv'
  BY <1>2, <1>5, RunKeepsSole
<1>6. ASSUME NEW t \in Threads, ThreadStep(t) \/ SoleStart(t) \/ StopThread(t) \/ ThreadDbFails(t)
      PROVE  SoleInv'
  BY <1>2, <1>6, ChainKeepsSole
<1>7. ASSUME NEW t \in Threads, ThreadDies(t) PROVE SoleInv'
  <2>1. {t} \in SUBSET Threads /\ ThreadsDie({t})
    BY <1>7 DEF ThreadDies
  <2> QED
    BY <1>2, <2>1, DeathKeepsSole
<1> QED
  BY <1>3, <1>4, <1>5, <1>6, <1>7 DEF SoleNext, Work, Fault, StepOf

\* At the start there is no leader at all.
LEMMA SoleInit == Init => SoleInv
<1> SUFFICES ASSUME Init PROVE SoleInv
  OBVIOUS
<1>1. QueueInv
  BY QueueInit
<1>2. \A j \in Jobs : run[j].phase = "none" /\ job[j].status = "absent"
  BY DEF Init, NoRun
<1>3. \A t \in Threads : thread[t].at = "off"
  BY DEF Init, NoWork
<1> QED
  BY <1>1, <1>2, <1>3
     DEF SoleInv, Alone, RunsAreHeld, ReapersRemember, StatusFollows, Active, Open, Full

\* The invariant of a sole leader holds in every reachable state of SoleSpec.
LEMMA SoleIsSound == SoleSpec => []SoleInv
  BY SoleInit, SoleStep, PTL DEF SoleSpec

\* Under a sole leader no step writes the rows of a job that has ended.
LEMMA EndedIsLeft ==
    ASSUME SoleInv, SoleNext, NEW j \in Jobs, j \notin RetiredJobs, Ended(j)
    PROVE  job'[j].status = job[j].status /\ itemStatus'[j] = itemStatus[j]
<1>1. TypeOK /\ QueueInv /\ StatusFollows(j)
  BY DEF SoleInv, QueueInv, OrderInv
<1>2. CASE Request
  <2>1. job[j].status # "absent"
    BY DEF Ended, Terminal
  <2> QED
    BY <1>2, <2>1, RequestKeepsSole
<1>3. ASSUME NEW k \in Jobs, RunStep(k) \/ RunDbFails(k)
      PROVE  job'[j].status = job[j].status /\ itemStatus'[j] = itemStatus[j]
  <2>1. CASE k # j
    BY <1>1, <1>3, <2>1, RunStepWrites
  <2>2. CASE k = j
    <3>1. run[j].phase \notin Open \cup {"retire", "retireItems"}
      BY <1>1 DEF StatusFollows, Ended, Terminal
    <3>2. CASE JournalJob(j)
      BY <3>2 DEF JournalJob, rows
    <3>3. CASE ~JournalJob(j)
      BY <1>3, <2>2, <3>1, <3>3
         DEF RunStep, RunDbFails, LoadJob, RetireJob, RetireItems, AfterCanary, AfterFanout,
             SweepCancel, SkipPending, CountFailures, FinishJob, Open
    <3> QED
      BY <3>2, <3>3
  <2> QED
    BY <2>1, <2>2
<1>4. ASSUME NEW k \in Jobs, NEW w \in Workers, WorkerStep(k, w) \/ WorkerDbFails(k, w)
      PROVE  job'[j].status = job[j].status /\ itemStatus'[j] = itemStatus[j]
  <2>1. k # j
    <3>1. run[k].phase \in {"canary", "fanout"}
      BY <1>1, <1>4, WorkersStepInside
    <3> QED
      BY <1>1, <3>1 DEF StatusFollows, Open, Ended, Terminal
  <2> QED
    BY <1>1, <1>4, <2>1, WorkerStepWrites
<1>5. ASSUME NEW t \in Threads, ThreadStep(t) \/ SoleStart(t) \/ StopThread(t) \/ ThreadDbFails(t)
      PROVE  job'[j].status = job[j].status /\ itemStatus'[j] = itemStatus[j]
  BY <1>5, ChainKeepsSole
<1>6. ASSUME NEW t \in Threads, ThreadDies(t)
      PROVE  job'[j].status = job[j].status /\ itemStatus'[j] = itemStatus[j]
  <2>1. {t} \in SUBSET Threads /\ ThreadsDie({t})
    BY <1>6 DEF ThreadDies
  <2> QED
    BY <2>1, DeathKeepsSole
<1> QED
  BY <1>2, <1>3, <1>4, <1>5, <1>6 DEF SoleNext, Work, Fault

\* A job of a known kind that has ended is never written again, whatever crashes, database
\* errors and late cancellations follow, as long as leadership passes on only when nothing
\* of the old leader is left (job-detail.tsx:64).
THEOREM EndedStaysFinal == SoleSpec => FinishedIsFinal
<1>1. SoleInv /\ [SoleNext]_vars => [\A j \in Jobs \ RetiredJobs : JobIsFinal(j)]_vars
  BY EndedIsLeft DEF JobIsFinal
<1> QED
  BY <1>1, SoleIsSound, PTL DEF SoleSpec, FinishedIsFinal

-----------------------------------------------------------------------------
(* The end of a job under a sole leader is complete, while no database     *)
(* call throws.                                                            *)

Rows(j) == Len(itemServer[j])
NoItem(j, S) == \A i \in Positions : itemStatus[j][i] \notin S
SomeFailed(j) == \E i \in Positions : itemStatus[j][i] = "failed"
HoldsItem(j, w, i, S) == worker[j][w].pos = i /\ worker[j][w].at \in S
BeforeMark == {"check", "mark"}
AfterMark == {"creds", "panel", "record", "regret"}

\* A job that exists has an item for each of its servers and no other.
Shape(j) ==
    job[j].status # "absent" =>
        Rows(j) >= 1 /\ \A i \in Positions : itemStatus[j][i] = "absent" <=> i > Rows(j)

\* A job nobody has opened has only items that wait.
Unopened(j) ==
    job[j].status \in {"absent", "pending"} \/ run[j].phase = "load" =>
        NoItem(j, ItemStatus \ {"absent", "pending"})

\* Every item an open run has taken up is held by a worker, has its result, or was left
\* because of a cancellation; a halted run has a failed item.
InHand(j) ==
    run[j].phase \in {"canary", "fanout"} =>
        /\ Len(run[j].items) = Rows(j)
        /\ NoItem(j, {"skipped"})
        /\ \A i \in Positions :
            /\ i >= run[j].cursor => itemStatus[j][i] \in {"absent", "pending"}
            /\ itemStatus[j][i] = "running" => \E w \in Workers : HoldsItem(j, w, i, AfterMark)
            /\ itemStatus[j][i] = "pending" /\ i < run[j].cursor =>
                job[j].cancel \/ \E w \in Workers : HoldsItem(j, w, i, BeforeMark)
        /\ \A w \in Workers :
            /\ worker[j][w].at \in BeforeMark => itemStatus[j][worker[j][w].pos] = "pending"
            /\ worker[j][w].at \in AfterMark => itemStatus[j][worker[j][w].pos] = "running"
        /\ run[j].halted => SomeFailed(j)
        /\ run[j].phase = "fanout" => (\E w \in Workers : worker[j][w].at # "off") \/ ~MoreItems(j)

\* While a run is being closed, an item that never ran has a reason the verdict will tell.
BeingClosed(j) ==
    /\ run[j].phase \in {"sweep", "skip"} => NoItem(j, {"running", "skipped"})
    /\ run[j].phase = "sweep" => NoItem(j, {"pending"}) \/ job[j].cancel \/ SomeFailed(j)
    /\ run[j].phase = "skip" => NoItem(j, {"pending"}) \/ run[j].cancelled \/ SomeFailed(j)
    /\ run[j].phase \in {"count", "finish"} =>
        /\ NoItem(j, {"running", "pending"})
        /\ NoItem(j, {"skipped"}) \/ run[j].cancelled \/ SomeFailed(j)
    /\ run[j].phase = "finish" /\ run[j].failures = 0 => ~SomeFailed(j)

Closed(j) ==
    /\ Ended(j) /\ j \notin RetiredJobs => NoItem(j, {"pending", "running"})
    /\ job[j].status = "succeeded" => NoItem(j, ItemStatus \ {"absent", "succeeded"})

Filled(j) == Shape(j) /\ Unopened(j) /\ InHand(j) /\ BeingClosed(j) /\ Closed(j)

\* What a reaper has done by the time it closes the jobs it found.
ReapersFinish ==
    \A t \in Threads : \A j \in thread[t].job :
        /\ thread[t].at = "reapSkip" => NoItem(j, {"running"})
        /\ thread[t].at = "reapJobs" => NoItem(j, {"running", "pending"})

CompleteInv == SoleInv /\ (faults.db = 0 => ReapersFinish /\ \A j \in Jobs : Filled(j))

\* A job is as complete as before when its run and items are, and it is still to be
\* cancelled if it was.
LEMMA FilledKept ==
    ASSUME NEW j \in Jobs, Filled(j),
           run'[j] = run[j], worker'[j] = worker[j], itemStatus'[j] = itemStatus[j],
           job'[j].status = job[j].status, job[j].cancel => job'[j].cancel,
           Len(itemServer'[j]) = Rows(j)
    PROVE  Filled(j)'
<1>1. Shape(j)' /\ Unopened(j)' /\ Closed(j)'
  BY DEF Filled, Shape, Unopened, Closed, NoItem, Rows, Ended
<1>2. InHand(j)'
  BY DEF Filled, InHand, NoItem, Rows, HoldsItem, SomeFailed, MoreItems, Halted
<1>3. BeingClosed(j)'
  BY DEF Filled, BeingClosed, NoItem, SomeFailed
<1> QED
  BY <1>1, <1>2, <1>3 DEF Filled

\* Items that only change among the statuses of existing ones keep the job's shape.
LEMMA ShapeKept ==
    ASSUME NEW j \in Jobs, Shape(j), job[j].status # "absent", Len(itemServer'[j]) = Rows(j),
           \A i \in Positions : itemStatus'[j][i] = "absent" <=> itemStatus[j][i] = "absent"
    PROVE  Shape(j)'
BY DEF Shape, Rows

\* In the phases in which no item is the run's concern only the rows count.
LEMMA FilledAside ==
    ASSUME NEW j \in Jobs, Shape(j)', Closed(j)', job'[j].status \notin {"absent", "pending"},
           run'[j].phase \in {"none", "retire", "retireItems", "journal"} \cup Over
    PROVE  Filled(j)'
BY DEF Filled, Unopened, InHand, BeingClosed, Over

\* A request adds a job whose items all wait, or leaves the jobs as complete as they were.
LEMMA RequestKeepsFilled ==
    ASSUME SoleInv, ReapersFinish, \A j \in Jobs : Filled(j), Request
    PROVE  ReapersFinish' /\ \A j \in Jobs : Filled(j)'
<1>1. /\ TypeOK /\ JobsTyped /\ ItemsTyped /\ ServersTyped /\ RunsAreStarted /\ ReapersRemember
      /\ \A t \in Threads : thread[t].job \in SUBSET Jobs
  BY DEF SoleInv, QueueInv, OrderInv, TypeOK, ThreadsTyped
<1>2. /\ UNCHANGED <<run, worker, thread>>
      /\ \A k \in Jobs : job[k].status # "absent" =>
                job'[k].status = job[k].status /\ itemStatus'[k] = itemStatus[k]
  BY RequestKeepsSole
<1>3. ReapersFinish'
  BY <1>1, <1>2 DEF ReapersFinish, ReapersRemember, NoItem
<1>4. ASSUME NEW j \in Jobs, NEW ids \in InputLists, NEW stop \in BOOLEAN, CreateJob(j, ids, stop),
             NEW k \in Jobs
      PROVE  Filled(k)'
  <2>1. CASE k # j
    BY <1>1, <1>2, <1>4, <2>1, FilledKept DEF CreateJob, JobsTyped, ItemsTyped, ServersTyped, Rows
  <2>2. CASE k = j
    <3>1. /\ job[k].status = "absent" /\ job'[k].status = "pending"
          /\ itemServer'[k] = Distinct(ids) /\ Len(Distinct(ids)) \in Positions
          /\ itemStatus'[k] = [i \in Positions |-> IF i <= Len(Distinct(ids)) THEN "pending" ELSE "absent"]
      BY <1>1, <1>4, <2>2 DEF CreateJob, JobsTyped, ItemsTyped, ServersTyped, Positions
    <3>2. run'[k].phase = "none"
      BY <1>1, <1>2, <3>1 DEF RunsAreStarted, Started, Terminal
    <3>3. Shape(k)'
      BY <3>1 DEF Shape, Rows, Positions
    <3>4. Unopened(k)'
      BY <3>1 DEF Unopened, NoItem
    <3> QED
      BY <3>1, <3>2, <3>3, <3>4 DEF Filled, InHand, BeingClosed, Closed, Ended, Terminal
  <2> QED
    BY <2>1, <2>2
<1>5. ASSUME NEW j \in Jobs, RequestCancel(j), NEW k \in Jobs PROVE Filled(k)'
  <2>1. /\ job'[k].status = job[k].status /\ (job[k].cancel => job'[k].cancel)
        /\ itemStatus'[k] = itemStatus[k] /\ itemServer'[k] = itemServer[k]
    BY <1>1, <1>5 DEF RequestCancel, JobsTyped, JobRow
  <2> QED
    BY <1>2, <2>1, FilledKept DEF Rows
<1>6. ASSUME NEW s \in Servers, DeleteServer(s), NEW k \in Jobs PROVE Filled(k)'
  <2>1. /\ job' = job /\ itemStatus' = itemStatus
        /\ itemServer'[k] = [i \in DOMAIN itemServer[k] |->
                IF itemServer[k][i] = s THEN NoServer ELSE itemServer[k][i]]
    BY <1>6 DEF DeleteServer
  <2>2. itemServer[k] \in Seq(Servers \cup {NoServer})
    BY <1>1 DEF ServersTyped
  <2>3. Len(itemServer'[k]) = Len(itemServer[k])
    BY <2>1, <2>2
  <2> QED
    BY <1>2, <2>1, <2>3, FilledKept DEF Rows
<1> QED
  BY <1>3, <1>4, <1>5, <1>6 DEF Request

\* A dying chain leaves its run aside, and the items as they are.
LEMMA DeathKeepsFilled ==
    ASSUME SoleInv, ReapersFinish, \A j \in Jobs : Filled(j), NEW S \in SUBSET Threads, ThreadsDie(S)
    PROVE  ReapersFinish' /\ \A j \in Jobs : Filled(j)'
<1>1. TypeOK /\ RunTyped /\ RunsAreStarted
  BY DEF SoleInv, QueueInv, OrderInv, TypeOK
<1>2. /\ \A t \in Threads : thread'[t] = IF t \in S THEN NoWork ELSE thread[t]
      /\ UNCHANGED <<job, itemStatus, itemServer>>
  BY DEF ThreadsDie, rows
<1>3. ReapersFinish'
  BY <1>2 DEF ReapersFinish, NoWork, NoItem
<1>4. ASSUME NEW k \in Jobs PROVE Filled(k)'
  <2>1. CASE run'[k] = run[k] /\ worker'[k] = worker[k]
    BY <1>2, <2>1, FilledKept DEF Rows
  <2>2. CASE run'[k].phase = "lost"
    BY <1>2, <2>2 DEF Filled, Shape, Unopened, InHand, BeingClosed, Closed, NoItem, Rows, Ended
  <2>3. \/ run'[k] = run[k] /\ worker'[k] = worker[k]
        \/ run'[k] = [run[k] EXCEPT !.phase = "lost"]
    BY DEF ThreadsDie
  <2>4. run[k] \in RunCtx
    BY <1>1 DEF RunTyped
  <2> QED
    BY <2>1, <2>2, <2>3, <2>4 DEF RunCtx
<1> QED
  BY <1>3, <1>4

\* A chain opens a job whose items all wait, and a reaper closes one only when no item of
\* it is left open.
LEMMA ChainKeepsFilled ==
    ASSUME SoleInv, SoleInv', ReapersFinish, \A j \in Jobs : Filled(j),
           NEW t \in Threads, ThreadStep(t) \/ SoleStart(t) \/ StopThread(t)
    PROVE  ReapersFinish' /\ \A j \in Jobs : Filled(j)'
<1>1. /\ TypeOK /\ JobsTyped /\ ThreadsTyped /\ RunTyped /\ ItemsTyped /\ RunsAreStarted
      /\ ReapersRemember /\ thread[t].job \in SUBSET Jobs
  BY DEF SoleInv, QueueInv, OrderInv, TypeOK, ThreadsTyped
<1>2. \A k \in Jobs : ~Active(k)
  BY ChainKeepsSole
<1>3. UNCHANGED <<worker, itemServer>>
  BY DEF ThreadStep, ReapStep, DrainStep, ReapFind, ReapItems, ReapSkip, ReapJobs,
         FindJob, FindNothing, Wake, ClaimJob, RunReturns, SoleStart, StartThread, StopThread,
         rows, runs
<1>4. ASSUME NEW u \in Threads, u # t PROVE thread'[u] = thread[u] /\ thread[u].at \notin {"reapSkip", "reapJobs"}
  <2>1. thread'[u] = thread[u]
    BY <1>1, <1>4
       DEF ThreadStep, ReapStep, DrainStep, ReapFind, ReapItems, ReapSkip, ReapJobs,
           FindJob, FindNothing, Wake, ClaimJob, RunReturns, SoleStart, StartThread, StopThread,
           Move, ThreadsTyped
  <2>2. thread[t].at # "off" => thread[u].at = "off"
    BY <1>4 DEF SoleInv, Alone
  <2>3. thread[t].at = "off" => thread[u].at = "off"
    BY DEF ThreadStep, ReapStep, DrainStep, ReapFind, ReapItems, ReapSkip, ReapJobs,
           FindJob, FindNothing, Wake, ClaimJob, RunReturns, SoleStart, StopThread
  <2> QED
    BY <2>1, <2>2, <2>3
<1>5. CASE ReapItems(t) \/ ReapSkip(t)
  <2>1. PICK from \in {"running", "pending"}, to \in {"failed", "skipped"}, a \in {"reapSkip", "reapJobs"} :
          /\ ReapTurn(t, from, to) /\ Move(t, a, thread[t].job)
          /\ a = "reapSkip" => from = "running"
          /\ a = "reapJobs" => thread[t].at = "reapSkip" /\ from = "pending"
    BY <1>5 DEF ReapItems, ReapSkip
  <2>2. run' = run /\ job' = job /\ \A k \in thread[t].job : job[k].status = "running"
    BY <1>1, <1>5 DEF ReapItems, ReapSkip, runs, ReapersRemember
  <2>3. \A k \in thread[t].job : \A i \in Positions :
            itemStatus'[k][i] = IF itemStatus[k][i] = from THEN to ELSE itemStatus[k][i]
    BY <1>1, <2>1 DEF ReapTurn, Turn
  <2>4. \A k \in Jobs : k \notin thread[t].job => itemStatus'[k] = itemStatus[k]
    BY <2>1 DEF ReapTurn
  <2>5. ReapersFinish'
    <3>1. thread'[t] = [at |-> a, job |-> thread[t].job]
      BY <1>1, <2>1 DEF Move, ThreadsTyped
    <3> QED
      BY <1>4, <2>1, <2>3, <3>1 DEF ReapersFinish, NoItem
  <2>6. ASSUME NEW k \in Jobs PROVE Filled(k)'
    <3>1. CASE k \in thread[t].job
      <4>1. Shape(k)'
        BY <1>3, <2>1, <2>2, <2>3, <3>1, ShapeKept DEF Filled, Rows
      <4>2. Closed(k)'
        BY <2>2, <3>1 DEF Closed, Ended, Terminal
      <4> QED
        BY <1>2, <2>2, <3>1, <4>1, <4>2, FilledAside DEF Active
    <3>2. CASE k \notin thread[t].job
      BY <1>3, <2>2, <2>4, <3>2, FilledKept DEF Rows
    <3> QED
      BY <3>1, <3>2
  <2> QED
    BY <2>5, <2>6
<1>6. CASE ReapJobs(t)
  <2>1. /\ run' = run /\ itemStatus' = itemStatus
        /\ \A k \in thread[t].job : job[k].status = "running" /\ NoItem(k, {"running", "pending"})
    BY <1>1, <1>6 DEF ReapJobs, runs, ReapersRemember, ReapersFinish
  <2>2. \A k \in Jobs : IF k \in thread[t].job THEN job'[k].status = "failed" ELSE job'[k] = job[k]
    BY <1>1, <1>6 DEF ReapJobs, ReapedRow, JobsTyped, JobRow
  <2>3. thread'[t] = [at |-> "ready", job |-> {}]
    BY <1>1, <1>6 DEF ReapJobs, Move, ThreadsTyped
  <2>4. ReapersFinish'
    BY <1>4, <2>3 DEF ReapersFinish
  <2>5. ASSUME NEW k \in Jobs PROVE Filled(k)'
    <3>1. CASE k \in thread[t].job
      <4>1. Shape(k)'
        BY <1>3, <2>1, <3>1, ShapeKept DEF Filled, Rows
      <4>2. Closed(k)'
        BY <2>1, <2>2, <3>1 DEF Closed, NoItem
      <4> QED
        BY <1>2, <2>1, <2>2, <3>1, <4>1, <4>2, FilledAside DEF Active
    <3>2. CASE k \notin thread[t].job
      BY <1>3, <2>1, <2>2, <3>2, FilledKept DEF Rows
    <3> QED
      BY <3>1, <3>2
  <2> QED
    BY <2>4, <2>5
<1>7. CASE ClaimJob(t)
  <2>1. PICK j \in thread[t].job :
          \/ /\ Claimable(j)
             /\ job' = [job EXCEPT ![j].status = "running"]
             /\ run' = [run EXCEPT ![j].phase = "load", ![j].owner = t]
          \/ UNCHANGED <<job, run>>
    BY <1>7 DEF ClaimJob
  <2>2. /\ UNCHANGED itemStatus
        /\ \E a \in {"running", "idle"}, S \in SUBSET Jobs : Move(t, a, S)
    BY <1>1, <1>7 DEF ClaimJob
  <2>3. thread'[t].at \in {"running", "idle"}
    BY <1>1, <2>2 DEF Move, ThreadsTyped
  <2>4. ReapersFinish'
    BY <1>4, <2>3 DEF ReapersFinish
  <2>5. ASSUME NEW k \in Jobs PROVE Filled(k)'
    <3>1. CASE job'[k] = job[k] /\ run'[k] = run[k]
      BY <1>3, <2>2, <3>1, FilledKept DEF Rows
    <3>2. CASE /\ k = j /\ Claimable(j)
               /\ job' = [job EXCEPT ![j].status = "running"]
               /\ run' = [run EXCEPT ![j].phase = "load", ![j].owner = t]
      <4>1. job[k].status = "pending" /\ job'[k].status = "running" /\ run'[k].phase = "load"
        BY <1>1, <3>2 DEF Claimable, JobsTyped, JobRow, RunTyped, RunCtx
      <4>2. Shape(k)'
        BY <1>3, <2>2, <4>1, ShapeKept DEF Filled, Rows
      <4>3. NoItem(k, ItemStatus \ {"absent", "pending"})'
        BY <2>2, <4>1 DEF Filled, Unopened, NoItem
      <4> QED
        BY <4>1, <4>2, <4>3 DEF Filled, Unopened, InHand, BeingClosed, Closed, Ended, Terminal
    <3> QED
      BY <1>1, <2>1, <3>1, <3>2 DEF JobsTyped, RunTyped
  <2> QED
    BY <2>4, <2>5
<1>8. CASE ~ReapItems(t) /\ ~ReapSkip(t) /\ ~ReapJobs(t) /\ ~ClaimJob(t)
  <2>1. UNCHANGED <<run, job, itemStatus>>
    BY <1>8 DEF ThreadStep, ReapStep, DrainStep, ReapFind, FindJob, FindNothing, Wake, RunReturns,
                SoleStart, StartThread, StopThread, rows, runs
  <2>2. \E a \in ThreadAt \ {"reapSkip", "reapJobs"}, S \in SUBSET Jobs : Move(t, a, S)
    <3>1. CASE FindJob(t)
      <4>1. PICK n \in DOMAIN created : Move(t, "found", {created[n]})
        BY <3>1 DEF FindJob
      <4>2. created[n] \in Jobs
        BY <1>1 DEF JobsTyped
      <4> QED
        BY <4>1, <4>2 DEF ThreadAt
    <3>2. CASE ~FindJob(t)
      BY <1>8, <3>2 DEF ThreadStep, ReapStep, DrainStep, ReapFind, FindNothing, Wake, RunReturns,
                SoleStart, StartThread, StopThread, ThreadAt, Stuck
    <3> QED
      BY <3>1, <3>2
  <2>3. thread'[t].at \notin {"reapSkip", "reapJobs"}
    BY <1>1, <2>2 DEF Move, ThreadsTyped
  <2>4. ReapersFinish'
    BY <1>4, <2>3 DEF ReapersFinish
  <2> QED
    BY <1>3, <2>1, <2>4, FilledKept DEF Rows
<1> QED
  BY <1>5, <1>6, <1>7, <1>8

\* Loading a job finds all of its items waiting, and enters the canary's runItem.
LEMMA LoadKeepsFilled ==
    ASSUME SoleInv, NEW j \in Jobs, Filled(j), LoadJob(j) PROVE Filled(j)'
<1>1. /\ RunTyped /\ WorkersTyped /\ run[j] \in RunCtx /\ 1 \in Workers /\ 1 \in Positions
      /\ Positions \subseteq Nat /\ JobSound(j) /\ Len(itemServer[j]) <= MaxServersPerJob
      /\ itemServer[j] \in Seq(Servers \cup {NoServer})
  BY FieldTypes DEF SoleInv, QueueInv, OrderInv, TypeOK, RunTyped, ServersTyped, JobFields
<1>2. /\ UNCHANGED <<job, itemStatus, itemServer>> /\ run[j].phase = "load"
      /\ job[j].status = "running"
  BY DEF LoadJob, rows, SoleInv, StatusFollows, Open
<1>3. Shape(j)' /\ Closed(j)'
  BY <1>2 DEF Filled, Shape, Closed, Rows, NoItem, Ended
<1>4. CASE run'[j].phase = "retire"
  BY <1>2, <1>3, <1>4, FilledAside
<1>5. CASE /\ run' = [run EXCEPT ![j].phase = "canary", ![j].items = itemServer[j]]
           /\ worker' = [worker EXCEPT ![j][CanaryWorker] = [at |-> "check", pos |-> 1, ok |-> FALSE]]
  <2>1. /\ run'[j].phase = "canary" /\ run'[j].items = itemServer[j]
        /\ run'[j].cursor = 2 /\ ~run'[j].halted
    BY <1>1, <1>2, <1>5 DEF RunTyped, RunCtx, JobSound, WorkersInPlace, NotYet
  <2>2. /\ worker'[j][1].at = "check" /\ worker'[j][1].pos = 1
        /\ \A w \in Workers : w # 1 => worker'[j][w].at = "off"
    BY <1>1, <1>2, <1>5 DEF WorkersTyped, CanaryWorker, JobSound, WorkersInPlace
  <2>3. \A i \in Positions : itemStatus'[j][i] \in {"absent", "pending"}
    <3>1. itemStatus[j] \in [Positions -> ItemStatus]
      BY DEF SoleInv, QueueInv, OrderInv, TypeOK, ItemsTyped
    <3> QED
      BY <1>2, <3>1 DEF Filled, Unopened, NoItem
  <2>4. itemStatus'[j][1] = "pending"
    <3>1. Rows(j) >= 1 /\ Rows(j) \in Nat
      BY <1>1, <1>2 DEF Filled, Shape, Rows
    <3>2. ~(1 > Rows(j))
      BY <3>1
    <3> QED
      BY <1>1, <1>2, <2>3, <3>2 DEF Filled, Shape
  <2>5. InHand(j)'
    <3>1. ASSUME NEW i \in Positions, itemStatus'[j][i] = "pending", i < 2
          PROVE  worker'[j][1].pos = i /\ worker'[j][1].at \in BeforeMark
      <4>1. i = 1
        BY <3>1 DEF Positions
      <4> QED
        BY <2>2, <4>1 DEF BeforeMark
    <3>2. \A w \in Workers : /\ worker'[j][w].at \notin AfterMark
                             /\ worker'[j][w].at \in BeforeMark => worker'[j][w].pos = 1
      BY <2>2 DEF BeforeMark, AfterMark
    <3> QED
      BY <1>1, <1>2, <2>1, <2>3, <2>4, <3>1, <3>2 DEF InHand, NoItem, Rows, HoldsItem
  <2>6. Unopened(j)' /\ BeingClosed(j)'
    BY <1>2, <2>1 DEF Unopened, BeingClosed
  <2> QED
    BY <1>3, <2>5, <2>6 DEF Filled
<1>6. run'[j].phase = "retire" \/
           (/\ run' = [run EXCEPT ![j].phase = "canary", ![j].items = itemServer[j]]
            /\ worker' = [worker EXCEPT ![j][CanaryWorker] = [at |-> "check", pos |-> 1, ok |-> FALSE]])
  BY <1>1, PhaseMoves DEF LoadJob
<1> QED
  BY <1>4, <1>5, <1>6

\* Neither closing a job of a retired kind nor journalling one changes what its end owes.
LEMMA RetireKeepsFilled ==
    ASSUME SoleInv, NEW j \in Jobs, Filled(j), RetireJob(j) \/ RetireItems(j) \/ JournalJob(j)
    PROVE  Filled(j)'
<1>1. RunTyped /\ ItemsTyped /\ JobsTyped /\ StatusFollows(j) /\ RunsAreStarted
  BY DEF SoleInv, QueueInv, OrderInv, TypeOK
<1>2. UNCHANGED itemServer
  BY DEF RetireJob, RetireItems, JournalJob, rows
<1>3. run'[j].phase \in {"retireItems", "done"} /\ run[j].phase \in {"retire", "retireItems", "journal"}
  BY <1>1, PhaseMoves DEF RetireJob, RetireItems, JournalJob
<1>4. job[j].status \notin {"absent", "pending"} /\ (run[j].phase = "retire" => j \in RetiredJobs)
  BY <1>1, <1>3 DEF RunsAreStarted, Started, Terminal, StatusFollows
<1>5. CASE RetireJob(j)
  <2>1. job'[j].status = "failed" /\ itemStatus' = itemStatus /\ j \in RetiredJobs
    BY <1>1, <1>4, <1>5 DEF RetireJob, Finish, JobsTyped, JobRow
  <2>2. Shape(j)'
    BY <1>2, <1>4, <2>1, ShapeKept DEF Filled, Rows
  <2>3. Closed(j)'
    BY <2>1 DEF Closed
  <2> QED
    BY <1>3, <2>1, <2>2, <2>3, FilledAside DEF Over
<1>6. CASE RetireItems(j)
  <2>1. /\ job' = job /\ j \in RetiredJobs
        /\ \A i \in Positions :
              itemStatus'[j][i] = IF itemStatus[j][i] = "pending" THEN "skipped" ELSE itemStatus[j][i]
    BY <1>1, <1>6 DEF RetireItems, StatusFollows, ItemsTyped, Turn
  <2>2. Shape(j)'
    BY <1>2, <1>4, <2>1, ShapeKept DEF Filled, Rows
  <2>3. Closed(j)'
    BY <1>1, <2>1 DEF Closed, StatusFollows
  <2> QED
    BY <1>3, <1>4, <2>1, <2>2, <2>3, FilledAside DEF Over
<1>7. CASE JournalJob(j)
  <2>1. job' = job /\ itemStatus' = itemStatus
    BY <1>7 DEF JournalJob, rows
  <2>2. Shape(j)' /\ Closed(j)'
    BY <1>2, <2>1 DEF Filled, Shape, Closed, Rows, NoItem, Ended
  <2> QED
    BY <1>3, <1>4, <2>1, <2>2, FilledAside DEF Over
<1> QED
  BY <1>5, <1>6, <1>7

\* The fan-out finds the canary's item settled, and every other one waiting.
LEMMA FanoutKeepsFilled ==
    ASSUME SoleInv, NEW j \in Jobs, Filled(j), AfterCanary(j), FansOut(j) PROVE Filled(j)'
<1>1. /\ RunTyped /\ WorkersTyped /\ run[j] \in RunCtx /\ 1 \in Workers
      /\ JobSound(j) /\ JobFields(j)
  BY FieldTypes DEF SoleInv, QueueInv, OrderInv, TypeOK, RunTyped, JobFields
<1>2. /\ UNCHANGED <<job, itemStatus, itemServer>> /\ run[j].phase = "canary"
      /\ job[j].status = "running" /\ worker[j][CanaryWorker].at = "off"
      /\ \A w \in Workers : worker[j][w].at = "off"
      /\ SetPhase(j, "fanout") /\ ~run[j].halted /\ 1 <= Rest(j)
      /\ worker' = [worker EXCEPT ![j] = [w \in Workers |->
                            [@[w] EXCEPT !.at = IF w <= Rest(j) THEN "next" ELSE "off"]]]
  BY <1>1 DEF AfterCanary, CanaryDone, rows, SoleInv, StatusFollows, Open, JobSound, WorkersInPlace,
          CanaryWorker, FansOut, Halted, Rest, RunCtx
<1>3. /\ run'[j].phase = "fanout" /\ run'[j].cursor = run[j].cursor
      /\ run'[j].halted = run[j].halted /\ run'[j].items = run[j].items
  BY <1>1, <1>2, PhaseMoves
<1>4. Shape(j)' /\ Closed(j)' /\ Unopened(j)' /\ BeingClosed(j)'
  BY <1>2, <1>3 DEF Filled, Shape, Closed, Rows, NoItem, Ended, Unopened, BeingClosed
<1>5. ASSUME NEW w \in Workers PROVE worker'[j][w].at \in {"next", "off"} /\ (w = 1 => worker'[j][w].at = "next")
  <2>1. worker[j][w] \in WorkerCtx /\ worker[j] \in [Workers -> WorkerCtx]
    BY <1>1 DEF WorkersTyped
  <2>2. worker'[j][w] = [worker[j][w] EXCEPT !.at = IF w <= Rest(j) THEN "next" ELSE "off"]
    BY <1>1, <1>2 DEF WorkersTyped
  <2>3. worker'[j][w].at = IF w <= Rest(j) THEN "next" ELSE "off"
    BY <2>1, <2>2 DEF WorkerCtx
  <2> QED
    BY <1>2, <2>3
<1>6. \A i \in Positions : /\ itemStatus[j][i] # "running"
                           /\ itemStatus[j][i] = "pending" /\ i < run[j].cursor => job[j].cancel
  BY <1>2 DEF Filled, InHand, HoldsItem, AfterMark, BeforeMark
<1>7. InHand(j)'
  <2>1. \A w \in Workers : worker'[j][w].at \notin AfterMark \cup BeforeMark
    BY <1>5 DEF AfterMark, BeforeMark
  <2>2. \E w \in Workers : worker'[j][w].at # "off"
    BY <1>1, <1>5
  <2> QED
    BY <1>2, <1>3, <1>6, <2>1, <2>2 DEF Filled, InHand, NoItem, Rows, HoldsItem, SomeFailed
<1> QED
  BY <1>4, <1>7 DEF Filled

\* Past the last worker every item has its result, or a reason not to have one.
LEMMA SweepKeepsFilled ==
    ASSUME SoleInv, NEW j \in Jobs, Filled(j),
           AfterFanout(j) \/ (AfterCanary(j) /\ ~FansOut(j))
    PROVE  Filled(j)'
<1>1. /\ RunTyped /\ run[j] \in RunCtx /\ JobSound(j) /\ itemStatus[j] \in [Positions -> ItemStatus]
      /\ Rows(j) \in Nat /\ Positions \subseteq Nat
  BY FieldTypes DEF SoleInv, QueueInv, OrderInv, TypeOK, RunTyped, ItemsTyped, ServersTyped, Rows, JobFields
<1>2. /\ UNCHANGED <<job, itemStatus, itemServer>> /\ run[j].phase \in {"canary", "fanout"}
      /\ job[j].status = "running" /\ run'[j].phase = "sweep"
  BY <1>1, PhaseMoves DEF AfterCanary, AfterFanout, rows, SoleInv, StatusFollows, Open
<1>3. \A w \in Workers : worker[j][w].at = "off"
  BY <1>1 DEF AfterCanary, AfterFanout, CanaryDone, JobSound, WorkersInPlace
<1>4. \A i \in Positions : /\ itemStatus[j][i] \notin {"running", "skipped"}
                           /\ itemStatus[j][i] = "pending" /\ i < run[j].cursor => job[j].cancel
  BY <1>2, <1>3 DEF Filled, InHand, HoldsItem, NoItem, AfterMark, BeforeMark
<1>5. run[j].halted \/ \A i \in Positions : i >= run[j].cursor => itemStatus[j][i] # "pending"
  <2>1. run[j].halted \/ Len(run[j].items) < run[j].cursor
    <3>1. CASE run[j].phase = "fanout"
      BY <1>1, <1>2, <1>3, <3>1 DEF Filled, InHand, MoreItems, Halted, RunCtx
    <3>2. CASE run[j].phase = "canary"
      <4>1. run[j].cursor = 2 /\ (run[j].halted \/ Len(run[j].items) <= 1)
        BY <1>1, <3>2 DEF AfterFanout, FansOut, Rest, Halted, JobSound, WorkersInPlace, RunCtx
      <4> QED
        BY <1>1, <4>1 DEF RunCtx
    <3> QED
      BY <1>2, <3>1, <3>2
  <2>2. ASSUME NEW i \in Positions, Rows(j) < run[j].cursor, i >= run[j].cursor
        PROVE  itemStatus[j][i] = "absent"
    <3>1. i > Rows(j)
      BY <1>1, <2>2 DEF RunCtx
    <3> QED
      BY <1>2, <3>1 DEF Filled, Shape
  <2>3. Len(run[j].items) = Rows(j)
    BY <1>2 DEF Filled, InHand
  <2> QED
    BY <2>1, <2>2, <2>3
<1>6. ASSUME ~NoItem(j, {"pending"}) PROVE job[j].cancel \/ SomeFailed(j)
  <2>1. PICK i \in Positions : itemStatus[j][i] = "pending"
    BY <1>6 DEF NoItem
  <2>2. CASE i < run[j].cursor
    BY <1>4, <2>1, <2>2
  <2>3. CASE i >= run[j].cursor
    BY <1>2, <1>5, <2>1, <2>3 DEF Filled, InHand
  <2> QED
    BY <1>1, <2>2, <2>3 DEF RunCtx
<1>7. Shape(j)' /\ Closed(j)' /\ Unopened(j)' /\ InHand(j)'
  BY <1>2 DEF Filled, Shape, Closed, Rows, NoItem, Ended, Unopened, InHand
<1>8. BeingClosed(j)'
  BY <1>2, <1>4, <1>6 DEF BeingClosed, NoItem, SomeFailed
<1> QED
  BY <1>7, <1>8 DEF Filled

\* BeingClosed a run: what it reads and writes on the way is what the verdict needs.
LEMMA VerdictKeepsFilled ==
    ASSUME SoleInv, NEW j \in Jobs, Filled(j),
           SweepCancel(j) \/ SkipPending(j) \/ CountFailures(j) \/ FinishJob(j)
    PROVE  Filled(j)'
<1>1. /\ RunTyped /\ ItemsTyped /\ JobsTyped /\ run[j] \in RunCtx /\ itemStatus[j] \in [Positions -> ItemStatus]
      /\ job[j] \in JobRow
  BY DEF SoleInv, QueueInv, OrderInv, TypeOK, RunTyped, ItemsTyped, JobsTyped
<1>2. UNCHANGED itemServer /\ job[j].status = "running" /\ run[j].phase \in Full
  BY DEF SweepCancel, SkipPending, CountFailures, FinishJob, rows, SoleInv, StatusFollows, Open, Full
<1>3. CASE SweepCancel(j)
  <2>1. /\ UNCHANGED <<job, itemStatus>> /\ run[j].phase = "sweep" /\ run'[j].phase = "skip"
        /\ run'[j].cancelled = job[j].cancel
    BY <1>1, <1>3 DEF SweepCancel, CancelRequested, rows, RunTyped, RunCtx
  <2>2. Shape(j)' /\ Closed(j)' /\ Unopened(j)' /\ InHand(j)'
    BY <1>2, <2>1 DEF Filled, Shape, Closed, Rows, NoItem, Ended, Unopened, InHand
  <2>3. BeingClosed(j)'
    BY <2>1 DEF Filled, BeingClosed, NoItem, SomeFailed
  <2> QED
    BY <2>2, <2>3 DEF Filled
<1>4. CASE SkipPending(j)
  <2>1. /\ job' = job /\ run[j].phase = "skip" /\ run'[j].phase = "count"
        /\ run'[j].cancelled = run[j].cancelled
    BY <1>1, <1>4, PhaseMoves DEF SkipPending
  <2>2. \A i \in Positions :
            itemStatus'[j][i] = IF itemStatus[j][i] = "pending" THEN "skipped" ELSE itemStatus[j][i]
    BY <1>1, <1>4 DEF SkipPending, NeverStarted, ItemsTyped, Turn
  <2>3. Shape(j)'
    BY <1>2, <2>1, <2>2, ShapeKept DEF Filled, Rows
  <2>4. Closed(j)' /\ Unopened(j)' /\ InHand(j)'
    BY <1>2, <2>1 DEF Closed, Ended, Terminal, Unopened, InHand
  <2>5. NoItem(j, {"running", "pending"})' /\ (NoItem(j, {"skipped"})' \/ run[j].cancelled \/ SomeFailed(j)')
    <3>1. NoItem(j, {"running", "skipped"}) /\ (NoItem(j, {"pending"}) \/ run[j].cancelled \/ SomeFailed(j))
      BY <2>1 DEF Filled, BeingClosed
    <3>2. SomeFailed(j) => SomeFailed(j)'
      BY <2>2 DEF SomeFailed
    <3> QED
      BY <2>2, <3>1, <3>2 DEF NoItem
  <2>6. BeingClosed(j)'
    BY <2>1, <2>5 DEF BeingClosed
  <2> QED
    BY <2>3, <2>4, <2>6 DEF Filled
<1>5. CASE CountFailures(j)
  <2> DEFINE failed == {i \in Positions : itemStatus[j][i] = "failed"}
  <2>1. /\ UNCHANGED <<job, itemStatus>> /\ run[j].phase = "count" /\ run'[j].phase = "finish"
        /\ run'[j].cancelled = run[j].cancelled /\ run'[j].failures = Cardinality(failed)
    BY <1>1, <1>5 DEF CountFailures, rows, RunTyped, RunCtx
  <2>2. IsFiniteSet(failed)
    <3>1. IsFiniteSet(Positions)
      BY FS_Interval, JobQueueAssumption DEF Positions
    <3> QED
      BY <3>1, FS_Subset
  <2>3. ASSUME run'[j].failures = 0 PROVE ~SomeFailed(j)
    <3>1. failed = {}
      BY <2>1, <2>2, <2>3, FS_EmptySet
    <3> QED
      BY <3>1 DEF SomeFailed
  <2> HIDE DEF failed
  <2>4. Shape(j)' /\ Closed(j)' /\ Unopened(j)' /\ InHand(j)'
    BY <1>2, <2>1 DEF Filled, Shape, Closed, Rows, NoItem, Ended, Unopened, InHand
  <2>5. BeingClosed(j)'
    BY <2>1, <2>3 DEF Filled, BeingClosed, NoItem, SomeFailed
  <2> QED
    BY <2>4, <2>5 DEF Filled
<1>6. CASE FinishJob(j)
  <2>1. /\ itemStatus' = itemStatus /\ run[j].phase = "finish" /\ run'[j].phase = "journal"
        /\ job'[j].status = Verdict(run[j]) /\ Verdict(run[j]) \in Terminal
    BY <1>1, <1>6, PhaseMoves, VerdictType DEF FinishJob, Finish, JobsTyped, JobRow
  <2>2. Shape(j)'
    BY <1>2, <2>1, ShapeKept DEF Filled, Rows
  <2>3. NoItem(j, {"running", "pending"}) /\ (NoItem(j, {"skipped"}) \/ run[j].cancelled \/ SomeFailed(j))
    BY <2>1 DEF Filled, BeingClosed
  <2>4. ASSUME Verdict(run[j]) = "succeeded"
        PROVE  ~SomeFailed(j) /\ NoItem(j, {"skipped"})
    <3>1. ~run[j].cancelled /\ run[j].failures = 0
      BY <1>1, <2>4 DEF Verdict, RunCtx
    <3> QED
      BY <2>1, <2>3, <3>1 DEF Filled, BeingClosed
  <2>5. Closed(j)'
    <3>1. Verdict(run[j]) = "succeeded" => \A i \in Positions : itemStatus[j][i] \in {"absent", "succeeded"}
      BY <1>1, <2>3, <2>4 DEF NoItem, SomeFailed, ItemStatus
    <3> QED
      BY <2>1, <2>3, <3>1 DEF Closed, NoItem
  <2> QED
    BY <2>1, <2>2, <2>5, FilledAside DEF Terminal
<1> QED
  BY <1>3, <1>4, <1>5, <1>6

\* A step of its run keeps a job on its way to a complete end.
LEMMA RunKeepsFilled ==
    ASSUME SoleInv, NEW j \in Jobs, Filled(j), RunStep(j) PROVE Filled(j)'
BY LoadKeepsFilled, RetireKeepsFilled, FanoutKeepsFilled, SweepKeepsFilled, VerdictKeepsFilled
   DEF RunStep

-----------------------------------------------------------------------------
(* The workers, and the theorem.                                           *)

\* An item before its mark waits, one after it runs.
FitsItem(a, s) ==
    /\ a \in BeforeMark => s = "pending"
    /\ a \in AfterMark => s = "running"

\* A worker that moves on with its item keeps the job as complete as it was, if the item's
\* status fits the worker's new place.
LEMMA OpenedKept ==
    ASSUME SoleInv, NEW j \in Jobs, NEW w \in Workers, Filled(j), Inside(j, w), OthersStand(j, w),
           run'[j].phase = run[j].phase, run'[j].items = run[j].items,
           run'[j].cursor = run[j].cursor,
           run'[j].halted => run[j].halted \/ itemStatus'[j][worker[j][w].pos] = "failed",
           worker'[j][w].pos = worker[j][w].pos,
           worker'[j][w].at = "off" => run[j].phase # "fanout",
           UNCHANGED <<job, itemServer>>,
           \A i \in Positions : i # worker[j][w].pos => itemStatus'[j][i] = itemStatus[j][i],
           itemStatus'[j][worker[j][w].pos] \in {"pending", "running", "succeeded", "failed"},
           itemStatus'[j][worker[j][w].pos] = "pending" =>
                worker'[j][w].at \in BeforeMark \/ job[j].cancel,
           itemStatus'[j][worker[j][w].pos] = "running" => worker'[j][w].at \in AfterMark,
           FitsItem(worker'[j][w].at, itemStatus'[j][worker[j][w].pos])
    PROVE  Filled(j)'
<1> DEFINE p == worker[j][w].pos
<1>1. /\ JobSound(j) /\ p \in Positions /\ Positions \subseteq Nat /\ run[j].phase \in {"canary", "fanout"}
      /\ p < run[j].cursor /\ run[j].cursor \in Nat
      /\ \A v \in Workers : Inside(j, v) /\ worker[j][v].pos = p => v = w
      /\ \A v \in Workers : worker[j][v].pos \in Positions
  BY FieldTypes, WhereWorkersAre DEF SoleInv, QueueInv, OrderInv, JobFields, Inside
<1>2. job[j].status = "running"
  BY <1>1 DEF SoleInv, StatusFollows, Open
<1>3. itemStatus[j][p] \in {"pending", "running"} /\ InHand(j)
  BY <1>1 DEF Filled, InHand, Inside, BeforeMark, AfterMark, SoleInv, QueueInv, OrderInv, TypeOK,
              WorkersTyped, WorkerCtx, WorkerAt
<1>4. \A v \in Workers : v # w => worker'[j][v] = worker[j][v]
  BY DEF OthersStand
<1> HIDE DEF p
<1>5. /\ \A i \in Positions : i # p => itemStatus'[j][i] = itemStatus[j][i]
      /\ itemStatus'[j][p] \in {"pending", "running", "succeeded", "failed"}
      /\ itemStatus'[j][p] = "pending" => worker'[j][w].at \in BeforeMark \/ job[j].cancel
      /\ itemStatus'[j][p] = "running" => worker'[j][w].at \in AfterMark
      /\ FitsItem(worker'[j][w].at, itemStatus'[j][p])
      /\ worker'[j][w].pos = p
      /\ run'[j].halted => run[j].halted \/ itemStatus'[j][p] = "failed"
  BY DEF p
<1>6. Shape(j)'
  BY <1>2, <1>3, <1>5, ShapeKept DEF Filled, Rows
<1>7. Unopened(j)' /\ BeingClosed(j)' /\ Closed(j)'
  BY <1>1, <1>2 DEF Unopened, BeingClosed, Closed, Ended, Terminal
<1>8. ASSUME NEW i \in Positions
      PROVE  /\ i >= run[j].cursor => itemStatus'[j][i] \in {"absent", "pending"}
             /\ itemStatus'[j][i] # "skipped"
             /\ itemStatus'[j][i] = "running" => \E v \in Workers : worker'[j][v].pos = i /\ worker'[j][v].at \in AfterMark
             /\ itemStatus'[j][i] = "pending" /\ i < run[j].cursor =>
                  job[j].cancel \/ \E v \in Workers : worker'[j][v].pos = i /\ worker'[j][v].at \in BeforeMark
  <2>1. CASE i = p
    BY <1>1, <1>5, <2>1
  <2>2. CASE i # p
    <3>1. \A v \in Workers : worker[j][v].pos = i => v # w
      BY <2>2 DEF p
    <3> QED
      BY <1>1, <1>3, <1>4, <1>5, <2>2, <3>1 DEF InHand, NoItem, HoldsItem
  <2> QED
    BY <2>1, <2>2
<1>9. ASSUME NEW v \in Workers
      PROVE  /\ worker'[j][v].at \in BeforeMark => itemStatus'[j][worker'[j][v].pos] = "pending"
             /\ worker'[j][v].at \in AfterMark => itemStatus'[j][worker'[j][v].pos] = "running"
  <2>1. CASE v = w
    BY <1>5, <2>1 DEF FitsItem
  <2>2. CASE v # w
    <3>1. worker[j][v].at \in BeforeMark \cup AfterMark => worker[j][v].pos # p
      BY <1>1, <2>2 DEF Inside, BeforeMark, AfterMark
    <3>2. /\ worker[j][v].at \in BeforeMark => itemStatus[j][worker[j][v].pos] = "pending"
          /\ worker[j][v].at \in AfterMark => itemStatus[j][worker[j][v].pos] = "running"
      BY <1>1, <1>3 DEF InHand
    <3>3. worker'[j][v] = worker[j][v] /\ worker[j][v].pos \in Positions
      BY <1>1, <1>4, <2>2
    <3> QED
      BY <1>5, <3>1, <3>2, <3>3
  <2> QED
    BY <2>1, <2>2
<1>10. run'[j].halted => \E i \in Positions : itemStatus'[j][i] = "failed"
  <2>1. run[j].halted => \E i \in Positions : i # p /\ itemStatus[j][i] = "failed"
    <3>1. run[j].halted => SomeFailed(j)
      BY <1>1, <1>3 DEF InHand
    <3> QED
      BY <1>3, <3>1 DEF SomeFailed
  <2> QED
    BY <1>1, <1>5, <2>1
<1>11. run'[j].phase = "fanout" => worker'[j][w].at # "off"
  OBVIOUS
<1>12. InHand(j)'
  BY <1>1, <1>3, <1>8, <1>9, <1>10, <1>11 DEF InHand, NoItem, Rows, HoldsItem, SomeFailed
<1> QED
  BY <1>6, <1>7, <1>12 DEF Filled


\* A worker that takes the next index gets an item that waits; one that finds none leaves.
LEMMA TakeKeepsFilled ==
    ASSUME SoleInv, NEW j \in Jobs, NEW w \in Workers, Filled(j), TakeItem(j, w) PROVE Filled(j)'
<1> DEFINE c == run[j].cursor
<1>1. /\ RunTyped /\ WorkersTyped /\ run[j] \in RunCtx /\ Len(run[j].items) <= MaxServersPerJob
      /\ c \in Nat /\ c >= 2 /\ Len(run[j].items) \in Nat /\ MaxServersPerJob \in Nat
      /\ JobSound(j) /\ \A v \in Workers : worker[j][v].pos \in Positions
  BY FieldTypes, JobQueueAssumption
     DEF SoleInv, QueueInv, OrderInv, TypeOK, RunTyped, RunCtx, JobFields, JobSound, WorkersInPlace
<1>2. /\ UNCHANGED <<job, itemStatus, itemServer>> /\ run[j].phase = "fanout"
      /\ worker[j][w].at = "next" /\ job[j].status = "running" /\ InHand(j)
  BY DEF TakeItem, rows, SoleInv, StatusFollows, Open, Filled
<1>3. CASE MoreItems(j)
  <2>1. /\ worker' = [worker EXCEPT ![j][w] = [at |-> "check", pos |-> c, ok |-> FALSE]]
        /\ run' = [run EXCEPT ![j].cursor = NextIndex(j)]
    BY <1>3 DEF TakeItem
  <2>2. /\ worker'[j][w].at = "check" /\ worker'[j][w].pos = c
        /\ \A v \in Workers : v # w => worker'[j][v] = worker[j][v]
    <3>1. PICK r : r = [at |-> "check", pos |-> c, ok |-> FALSE] /\ worker' = [worker EXCEPT ![j][w] = r]
      BY <2>1
    <3>2. OthersStand(j, w) /\ worker'[j][w] = r
      BY <1>1, <3>1, WorkerMoves
    <3> QED
      BY <3>1, <3>2 DEF OthersStand
  <2>3. /\ run'[j].cursor = c + 1 /\ run'[j].phase = "fanout" /\ run'[j].halted = run[j].halted
        /\ run'[j].items = run[j].items
    BY <1>1, <1>2, <2>1 DEF NextIndex, RunTyped, RunCtx
  <2>4. c \in Positions /\ c <= Rows(j)
    BY <1>1, <1>2, <1>3 DEF MoreItems, Positions, InHand
  <2>5. itemStatus[j][c] = "pending"
    <3>1. itemStatus[j][c] \in {"absent", "pending"}
      BY <1>1, <1>2, <2>4 DEF InHand
    <3>2. Rows(j) \in Nat
      BY <1>1, <1>2 DEF InHand
    <3>3. ~(c > Rows(j))
      BY <1>1, <2>4, <3>2
    <3> QED
      BY <1>2, <2>4, <3>1, <3>3 DEF Filled, Shape
  <2> HIDE DEF c
  <2>6. ASSUME NEW i \in Positions
        PROVE  /\ i >= c + 1 => itemStatus[j][i] \in {"absent", "pending"}
               /\ itemStatus[j][i] = "running" => \E v \in Workers : worker'[j][v].pos = i /\ worker'[j][v].at \in AfterMark
               /\ itemStatus[j][i] = "pending" /\ i < c + 1 =>
                    job[j].cancel \/ \E v \in Workers : worker'[j][v].pos = i /\ worker'[j][v].at \in BeforeMark
    <3>1. i \in Nat
      BY DEF Positions
    <3>2. i >= c + 1 => itemStatus[j][i] \in {"absent", "pending"}
      BY <1>1, <1>2, <3>1 DEF InHand, c
    <3>3. itemStatus[j][i] = "running" => \E v \in Workers : v # w /\ worker[j][v].pos = i /\ worker[j][v].at \in AfterMark
      BY <1>2 DEF InHand, HoldsItem, AfterMark
    <3>4. i < c => (itemStatus[j][i] = "pending" =>
              job[j].cancel \/ \E v \in Workers : v # w /\ worker[j][v].pos = i /\ worker[j][v].at \in BeforeMark)
      BY <1>2 DEF InHand, HoldsItem, BeforeMark, c
    <3>5. i < c + 1 => i < c \/ i = c
      BY <1>1, <3>1 DEF c
    <3> QED
      BY <2>2, <3>2, <3>3, <3>4, <3>5 DEF BeforeMark
  <2>7. ASSUME NEW v \in Workers
        PROVE  /\ worker'[j][v].at \in BeforeMark => itemStatus[j][worker'[j][v].pos] = "pending"
               /\ worker'[j][v].at \in AfterMark => itemStatus[j][worker'[j][v].pos] = "running"
    <3>1. /\ worker[j][v].at \in BeforeMark => itemStatus[j][worker[j][v].pos] = "pending"
          /\ worker[j][v].at \in AfterMark => itemStatus[j][worker[j][v].pos] = "running"
      BY <1>2 DEF InHand
    <3>2. CASE v = w
      BY <2>2, <2>5, <3>2 DEF AfterMark
    <3>3. CASE v # w
      BY <2>2, <3>1, <3>3
    <3> QED
      BY <3>2, <3>3
  <2>8. InHand(j)'
    <3>1. /\ Len(run[j].items) = Rows(j) /\ NoItem(j, {"skipped"}) /\ (run[j].halted => SomeFailed(j))
      BY <1>2 DEF InHand
    <3>2. \E v \in Workers : worker'[j][v].at # "off"
      BY <2>2
    <3> QED
      BY <1>2, <2>3, <2>6, <2>7, <3>1, <3>2 DEF InHand, NoItem, Rows, HoldsItem, SomeFailed
  <2>9. Shape(j)' /\ Closed(j)' /\ Unopened(j)' /\ BeingClosed(j)'
    BY <1>2, <2>3 DEF Filled, Shape, Closed, Rows, NoItem, Ended, Unopened, BeingClosed
  <2> QED
    BY <2>8, <2>9 DEF Filled
<1>4. CASE ~MoreItems(j)
  <2>1. Goto(j, w, "off") /\ run' = run
    BY <1>4 DEF TakeItem, Goto
  <2>2. worker'[j][w].at = "off" /\ \A v \in Workers : v # w => worker'[j][v] = worker[j][v]
    BY <1>1, <2>1, GotoMoves DEF OthersStand
  <2>3. \A i \in Positions, S \in {BeforeMark, AfterMark} :
            (\E v \in Workers : HoldsItem(j, v, i, S)) => \E v \in Workers : HoldsItem(j, v, i, S)'
    BY <1>2, <2>2 DEF HoldsItem, BeforeMark, AfterMark
  <2>4. \A i \in Positions :
            /\ i >= run[j].cursor => itemStatus[j][i] \in {"absent", "pending"}
            /\ itemStatus[j][i] = "running" => \E v \in Workers : HoldsItem(j, v, i, AfterMark)'
            /\ itemStatus[j][i] = "pending" /\ i < run[j].cursor =>
                job[j].cancel \/ \E v \in Workers : HoldsItem(j, v, i, BeforeMark)'
    BY <1>2, <2>3 DEF InHand
  <2>5. \A v \in Workers :
            /\ worker'[j][v].at \in BeforeMark => itemStatus[j][worker'[j][v].pos] = "pending"
            /\ worker'[j][v].at \in AfterMark => itemStatus[j][worker'[j][v].pos] = "running"
    BY <1>2, <2>2 DEF InHand, BeforeMark, AfterMark
  <2>6. InHand(j)'
    <3>1. /\ Len(run[j].items) = Rows(j) /\ NoItem(j, {"skipped"}) /\ (run[j].halted => SomeFailed(j))
      BY <1>2 DEF InHand
    <3> QED
      BY <1>2, <1>4, <2>1, <2>4, <2>5, <3>1 DEF InHand, NoItem, Rows, HoldsItem, SomeFailed, MoreItems, Halted
  <2>7. Shape(j)' /\ Closed(j)' /\ Unopened(j)' /\ BeingClosed(j)'
    BY <1>2, <2>1 DEF Filled, Shape, Closed, Rows, NoItem, Ended, Unopened, BeingClosed
  <2> QED
    BY <2>6, <2>7 DEF Filled
<1> QED
  BY <1>3, <1>4

\* A worker keeps its job on the way to a complete end.
LEMMA WorkerKeepsFilled ==
    ASSUME SoleInv, NEW j \in Jobs, NEW w \in Workers, Filled(j), WorkerStep(j, w) PROVE Filled(j)'
<1>1. CASE TakeItem(j, w)
  BY <1>1, TakeKeepsFilled
<1>2. CASE ~TakeItem(j, w)
  <2> DEFINE p == worker[j][w].pos
             a == worker'[j][w].at
  <2>1. /\ TypeOK /\ WorkersTyped /\ ItemsTyped /\ RunTyped /\ run[j] \in RunCtx /\ JobSound(j) /\ JobFields(j)
        /\ p \in Positions
    BY FieldTypes DEF SoleInv, QueueInv, OrderInv, TypeOK, RunTyped, JobFields
  <2>2. Inside(j, w)
    BY <1>2 DEF WorkerStep, CheckCancel, MarkRunning, LoadClient, PanelAnswers, RecordResult, Inside
  <2>3. run[j].phase \in {"canary", "fanout"} /\ InHand(j)
    BY <2>1, <2>2, WhereWorkersAre DEF Inside, Filled
  <2>4. /\ worker[j][w].at \in BeforeMark => itemStatus[j][p] = "pending"
        /\ worker[j][w].at \in AfterMark => itemStatus[j][p] = "running"
    BY <2>3 DEF InHand
  <2>5. Resume(j) \in {"off", "next"} /\ (Resume(j) = "off" => run[j].phase # "fanout")
    BY <2>3 DEF Resume
  <2>6. UNCHANGED <<job, itemServer>>
    BY <1>2, WorkerStepWrites DEF SoleInv, QueueInv, OrderInv
  <2>7. CASE CheckCancel(j, w)
    <3>1. /\ run' = run /\ itemStatus' = itemStatus /\ worker[j][w].at = "check"
          /\ Goto(j, w, IF job[j].cancel THEN Resume(j) ELSE "mark")
      BY <2>7 DEF CheckCancel, CancelRequested, rows
    <3>2. /\ OthersStand(j, w) /\ worker'[j][w].pos = p
          /\ a = IF job[j].cancel THEN Resume(j) ELSE "mark"
      BY <2>1, <3>1, GotoMoves
    <3>3. itemStatus'[j][p] = "pending"
      BY <2>4, <3>1 DEF BeforeMark
    <3>4. FitsItem(a, itemStatus'[j][p]) /\ (a \in BeforeMark \/ job[j].cancel) /\ (a = "off" => run[j].phase # "fanout")
      BY <2>5, <3>2, <3>3 DEF FitsItem, BeforeMark, AfterMark
    <3> QED
      BY <2>2, <2>6, <3>1, <3>2, <3>3, <3>4, OpenedKept
  <2>8. CASE MarkRunning(j, w)
    <3>1. /\ run' = run /\ SetItem(j, w, "running") /\ Goto(j, w, "creds")
      BY <2>8 DEF MarkRunning
    <3>2. OthersStand(j, w) /\ worker'[j][w].pos = p /\ a = "creds"
      BY <2>1, <3>1, GotoMoves
    <3>3. itemStatus'[j][p] = "running" /\ \A i \in Positions : i # p => itemStatus'[j][i] = itemStatus[j][i]
      BY <2>1, <3>1 DEF SetItem, ItemsTyped
    <3>4. FitsItem(a, itemStatus'[j][p]) /\ a \in AfterMark
      BY <3>2, <3>3 DEF FitsItem, BeforeMark, AfterMark
    <3> QED
      BY <2>2, <2>6, <3>1, <3>2, <3>3, <3>4, OpenedKept
  <2>9. CASE LoadClient(j, w) \/ \E ok \in BOOLEAN : PanelAnswers(j, w, ok)
    <3>1. run' = run /\ itemStatus' = itemStatus /\ worker[j][w].at \in {"creds", "panel"}
      BY <2>9 DEF LoadClient, PanelAnswers, rows
    <3>2. /\ OthersStand(j, w) /\ worker'[j][w].pos = p /\ a \in {"panel", "record"}
      <4>1. worker[j] \in [Workers -> WorkerCtx] /\ worker[j][w] \in WorkerCtx
        BY <2>1 DEF WorkersTyped
      <4>2. CASE Goto(j, w, "panel")
        BY <2>1, <4>2, GotoMoves
      <4>3. CASE \E ok \in BOOLEAN : worker' = [worker EXCEPT ![j][w].at = "record", ![j][w].ok = ok]
        BY <2>1, <4>1, <4>3 DEF OthersStand, WorkersTyped, WorkerCtx
      <4> QED
        BY <2>9, <4>2, <4>3 DEF LoadClient, PanelAnswers
    <3>3. itemStatus'[j][p] = "running"
      BY <2>4, <3>1 DEF AfterMark
    <3>4. FitsItem(a, itemStatus'[j][p]) /\ a \in AfterMark
      BY <3>2, <3>3 DEF FitsItem, BeforeMark, AfterMark
    <3> QED
      BY <2>2, <2>6, <3>1, <3>2, <3>3, <3>4, OpenedKept
  <2>10. CASE RecordResult(j, w)
    <3>1. PICK ok \in BOOLEAN :
            /\ SetItem(j, w, Outcome(ok)) /\ Goto(j, w, Resume(j))
            /\ run' = [run EXCEPT ![j].halted = @ \/ (~ok /\ job[j].stop)]
      BY <2>10 DEF RecordResult
    <3>2. OthersStand(j, w) /\ worker'[j][w].pos = p /\ a = Resume(j)
      BY <2>1, <3>1, GotoMoves
    <3>3. /\ itemStatus'[j][p] = Outcome(ok)
          /\ \A i \in Positions : i # p => itemStatus'[j][i] = itemStatus[j][i]
      BY <2>1, <3>1 DEF SetItem, ItemsTyped
    <3>4. /\ run'[j].phase = run[j].phase /\ run'[j].items = run[j].items
          /\ run'[j].cursor = run[j].cursor /\ run'[j].halted = (run[j].halted \/ (~ok /\ job[j].stop))
      BY <2>1, <3>1 DEF RunTyped, RunCtx
    <3>5. itemStatus'[j][p] \in {"succeeded", "failed"} /\ (~ok => itemStatus'[j][p] = "failed")
      BY <3>3 DEF Outcome
    <3>6. FitsItem(a, itemStatus'[j][p]) /\ (a = "off" => run[j].phase # "fanout")
      BY <2>5, <3>2 DEF FitsItem, BeforeMark, AfterMark
    <3>7. run'[j].halted => run[j].halted \/ itemStatus'[j][p] = "failed"
      BY <3>4, <3>5
    <3> QED
      BY <2>2, <2>6, <3>2, <3>3, <3>4, <3>5, <3>6, <3>7, OpenedKept
  <2> QED
    BY <1>2, <2>7, <2>8, <2>9, <2>10 DEF WorkerStep
<1> QED
  BY <1>1, <1>2


\* While no database call throws, every step of a sole leader keeps all jobs on the way
\* to a complete end.
LEMMA CompleteStep == CompleteInv /\ [SoleNext]_vars => CompleteInv'
<1> SUFFICES ASSUME CompleteInv, [SoleNext]_vars PROVE CompleteInv'
  OBVIOUS
<1>1. SoleInv /\ SoleInv' /\ TypeOK /\ QueueInv /\ FaultsTyped
  BY SoleStep DEF CompleteInv, SoleInv, QueueInv, OrderInv, TypeOK
<1>2. ASSUME DbFault PROVE faults'.db # 0
  BY <1>1, <1>2 DEF DbFault, FaultsTyped
<1>3. CASE faults'.db # 0
  BY <1>1, <1>3 DEF CompleteInv
<1>4. CASE faults'.db = 0
  <2>1. ASSUME ReapersFinish', \A k \in Jobs : Filled(k)' PROVE CompleteInv'
    BY <1>1, <2>1 DEF CompleteInv
  <2>2. ~DbFault
    BY <1>2, <1>4
  <2>3. faults.db = 0
    <3>1. CASE UNCHANGED faults
      BY <1>4, <3>1
    <3>2. CASE ThreadExit
      BY <1>1, <1>4, <3>2 DEF ThreadExit, FaultsTyped
    <3>3. CASE \E s \in Servers : DeleteServer(s)
      BY <1>1, <1>4, <3>3 DEF DeleteServer, FaultsTyped
    <3>4. UNCHANGED faults \/ ThreadExit \/ \E s \in Servers : DeleteServer(s)
      <4>1. CASE UNCHANGED vars
        BY <4>1 DEF vars
      <4>2. CASE Request
        <5>1. ASSUME NEW j \in Jobs, NEW ids \in InputLists, NEW stop \in BOOLEAN, CreateJob(j, ids, stop)
              PROVE  UNCHANGED faults
          BY <5>1 DEF CreateJob
        <5>2. ASSUME NEW j \in Jobs, RequestCancel(j) PROVE UNCHANGED faults
          BY <5>2 DEF RequestCancel
        <5> QED
          BY <4>2, <5>1, <5>2 DEF Request
      <4>3. CASE Work
        <5>1. ASSUME NEW j \in Jobs, RunStep(j) PROVE UNCHANGED faults
          BY <2>2, <5>1
             DEF RunStep, LoadJob, RetireJob, RetireItems, AfterCanary, AfterFanout, SweepCancel,
                 SkipPending, CountFailures, FinishJob, JournalJob
        <5>2. ASSUME NEW j \in Jobs, NEW w \in Workers, WorkerStep(j, w) PROVE UNCHANGED faults
          BY <5>2
             DEF WorkerStep, TakeItem, CheckCancel, MarkRunning, LoadClient, PanelAnswers, RecordResult
        <5>3. ASSUME NEW t \in Threads, ThreadStep(t) PROVE UNCHANGED faults
          BY <5>3
             DEF ThreadStep, ReapStep, DrainStep, ReapFind, ReapItems, ReapSkip, ReapJobs, FindJob,
                 FindNothing, Wake, ClaimJob, RunReturns
        <5> QED
          BY <4>3, <5>1, <5>2, <5>3 DEF Work
      <4>4. CASE Fault
        BY <2>2, <4>4 DEF Fault, RunDbFails, WorkerDbFails, ThreadDbFails, ThreadDies
      <4>5. CASE \E t \in Threads : SoleStart(t) \/ StopThread(t)
        BY <4>5 DEF SoleStart, StartThread, StopThread
      <4> QED
        BY <4>1, <4>2, <4>3, <4>4, <4>5 DEF SoleNext
    <3> QED
      BY <3>1, <3>2, <3>3, <3>4
  <2>4. ReapersFinish /\ \A k \in Jobs : Filled(k)
    BY <2>3 DEF CompleteInv
  <2>5. CASE UNCHANGED vars
    <3>1. UNCHANGED <<run, worker, thread, job, itemStatus, itemServer>>
      BY <2>5 DEF vars, rows, runs
    <3>2. ReapersFinish'
      BY <2>4, <3>1 DEF ReapersFinish, NoItem
    <3> QED
      BY <2>1, <2>4, <3>1, <3>2, FilledKept DEF Rows
  <2>6. CASE Request
    BY <1>1, <2>1, <2>4, <2>6, RequestKeepsFilled
  <2>7. ASSUME NEW j \in Jobs, StepOf(j), Filled(j)', UNCHANGED <<itemServer, thread>>,
               \A k \in Jobs : k # j => /\ run'[k] = run[k] /\ worker'[k] = worker[k]
                                        /\ job'[k] = job[k] /\ itemStatus'[k] = itemStatus[k]
        PROVE  CompleteInv'
    <3>1. ASSUME NEW k \in Jobs, k # j PROVE Filled(k)'
      BY <2>4, <2>7, <3>1, FilledKept DEF Rows
    <3>2. Active(j)
      <4>1. CASE RunStep(j) \/ RunDbFails(j)
        BY <1>1, <4>1, RunStepPhases DEF Active, Over, Open, Full
      <4>2. CASE \E w \in Workers : WorkerStep(j, w) \/ WorkerDbFails(j, w)
        BY <1>1, <4>2, WorkersStepInside DEF Active, Over
      <4> QED
        BY <2>7, <4>1, <4>2 DEF StepOf
    <3>3. \A t \in Threads : thread[t].at \notin {"reapSkip", "reapJobs"}
      BY <1>1, <3>2, HeldAlone
    <3>4. ReapersFinish'
      BY <2>7, <3>3 DEF ReapersFinish
    <3> QED
      BY <2>1, <2>7, <3>1, <3>4
  <2>8. ASSUME NEW j \in Jobs, RunStep(j) PROVE CompleteInv'
    BY <1>1, <2>4, <2>7, <2>8, RunKeepsFilled, RunStepWrites DEF StepOf
  <2>9. ASSUME NEW j \in Jobs, NEW w \in Workers, WorkerStep(j, w) PROVE CompleteInv'
    BY <1>1, <2>4, <2>7, <2>9, WorkerKeepsFilled, WorkerStepWrites DEF StepOf
  <2>10. ASSUME NEW t \in Threads, ThreadStep(t) \/ SoleStart(t) \/ StopThread(t) PROVE CompleteInv'
    BY <1>1, <2>1, <2>4, <2>10, ChainKeepsFilled
  <2>11. ASSUME NEW t \in Threads, ThreadDies(t) PROVE CompleteInv'
    <3>1. {t} \in SUBSET Threads /\ ThreadsDie({t})
      BY <2>11 DEF ThreadDies
    <3> QED
      BY <1>1, <2>1, <2>4, <3>1, DeathKeepsFilled
  <2>12. CASE Fault
    BY <2>2, <2>11, <2>12 DEF Fault, RunDbFails, WorkerDbFails, ThreadDbFails
  <2> QED
    BY <2>5, <2>6, <2>8, <2>9, <2>10, <2>12 DEF SoleNext, Work
<1> QED
  BY <1>3, <1>4

\* At the start there is no job.
LEMMA CompleteInit == Init => CompleteInv
<1> SUFFICES ASSUME Init PROVE CompleteInv
  OBVIOUS
<1>1. SoleInv
  BY SoleInit
<1>2. /\ \A j \in Jobs : run[j].phase = "none" /\ job[j].status = "absent"
      /\ \A j \in Jobs, i \in Positions : itemStatus[j][i] = "absent"
      /\ \A t \in Threads : thread[t].job = {}
  BY DEF Init, NoRun, NoWork
<1>3. \A j \in Jobs : Filled(j)
  BY <1>2 DEF Filled, Shape, Unopened, InHand, BeingClosed, Closed, NoItem, Ended, Terminal
<1> QED
  BY <1>1, <1>2, <1>3 DEF CompleteInv, ReapersFinish

\* Under a sole leader, and while no database call throws, the end of a job is complete:
\* no item is left open, and a job reported as succeeded has every item succeeded, with
\* processes that die and reapers that close what they left behind (queue.ts:217, :229).
THEOREM EndsComplete == SoleSpec => [](faults.db = 0 => EndIsComplete)
<1>1. CompleteInv /\ faults.db = 0 => EndIsComplete
  <2> SUFFICES ASSUME CompleteInv, faults.db = 0, NEW j \in Jobs
               PROVE  /\ Ended(j) /\ j \notin RetiredJobs => Cardinality(LeftOpen(j)) <= 0
                      /\ job[j].status = "succeeded" => Cardinality(Unmet(j)) <= 0
    BY DEF EndIsComplete
  <2>1. Closed(j) /\ \A i \in Positions : itemStatus[j][i] \in ItemStatus
    BY DEF CompleteInv, Filled, SoleInv, QueueInv, OrderInv, TypeOK, ItemsTyped
  <2>2. Ended(j) /\ j \notin RetiredJobs => LeftOpen(j) = {}
    BY <2>1 DEF Closed, NoItem, LeftOpen
  <2>3. job[j].status = "succeeded" => Unmet(j) = {}
    BY <2>1 DEF Closed, NoItem, Unmet
  <2> QED
    BY <2>2, <2>3, FS_EmptySet
<1> QED
  BY <1>1, CompleteInit, CompleteStep, PTL DEF SoleSpec

=============================================================================
