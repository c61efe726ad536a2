----------------------------- MODULE LeaderJobs -----------------------------
(***************************************************************************)
(* The job queue as the elected leader drives it: JobQueue composed with   *)
(* Leadership through src/src/lib/jobs/runner.ts.                          *)
(*                                                                         *)
(* Becoming the leader starts a drain chain (a thread of JobQueue) in that *)
(* process; losing leadership sets the runner's stopped flag and clears    *)
(* its one timer handle, but waits for nothing: a chain in the middle of a *)
(* job goes on, next to the chain of the next leader.                      *)
(***************************************************************************)
EXTENDS JobQueue, Leadership

CONSTANT MaxChains  \* bound: drain chains of one process alive together

ASSUME LeaderJobsAssumption ==
    /\ MaxChains \in Nat \ {0}
    /\ Threads = Procs \X (1 .. MaxChains)

VARIABLES
    armed,       \* chains whose setTimeout is pending
    drainTimer   \* the handle the runner remembers: its latest timer

timers == <<armed, drainTimer>>
allVars == <<vars, lvars, timers>>

ThreadsOf(p) == {t \in Threads : t[1] = p}
Stopped(t) == runner[t[1]].stopped

CInit == Init /\ LInit /\ armed = {} /\ drainTimer = [p \in Procs |-> NoThread]

-----------------------------------------------------------------------------
(* drain().                                                                *)

\* The finally block: a chain that goes idle arms a timer unless it is stopped.
ArmTimer(t) ==
    IF thread'[t].at = "idle" /\ ~Stopped(t)
    THEN /\ armed' = armed \cup {t}
         /\ drainTimer' = [drainTimer EXCEPT ![t[1]] = t]
    ELSE UNCHANGED timers

\* A step of the reaper, of the loop or of a query of theirs that throws: what the reaper
\* throws is caught before drain(), what a round throws inside it.
DrainChain(t) ==
    /\ thread[t].at = "ready" => ~Stopped(t)
    /\ \/ ReapStep(t) \/ FindJob(t) \/ FindNothing(t) \/ ClaimJob(t) \/ RunReturns(t)
       \/ ThreadDbFails(t)
    /\ ArmTimer(t)
    /\ UNCHANGED lvars

\* The timer fires; drain() returns at once when stopped.
DrainTimer(t) ==
    /\ t \in armed
    /\ \/ ~Stopped(t) /\ Wake(t)
       \/ Stopped(t) /\ StopThread(t)
    /\ armed' = armed \ {t}
    /\ UNCHANGED <<drainTimer, lvars>>

\* The chain ends: stopped between two jobs, or idle with no timer left.
DrainEnds(t) ==
    /\ \/ thread[t].at = "ready" /\ Stopped(t)
       \/ thread[t].at = "idle" /\ t \notin armed
    /\ StopThread(t)
    /\ UNCHANGED <<timers, lvars>>

-----------------------------------------------------------------------------
(* What a step of the poller does to the chains of its process.            *)

RunnerStarts(p) == ~runner[p].running /\ runner'[p].running
RunnerStops(p) == runner[p].running /\ ~runner'[p].running
GoesDown(p) == poller[p].up /\ ~poller'[p].up

StartsChain(p) ==
    /\ RunnerStarts(p)
    /\ \E t \in ThreadsOf(p) : StartThread(t)
    /\ UNCHANGED timers

\* stopJobRunner: clearTimeout on the remembered handle; inFlight is not awaited by
\* the caller.
StopsChains(p) ==
    /\ RunnerStops(p) /\ ~GoesDown(p)
    /\ armed' = armed \ {drainTimer[p]}
    /\ drainTimer' = [drainTimer EXCEPT ![p] = NoThread]
    /\ UNCHANGED vars

KillsChains(p) ==
    /\ GoesDown(p)
    /\ ThreadsDie(ThreadsOf(p))
    /\ armed' = armed \ ThreadsOf(p)
    /\ drainTimer' = [drainTimer EXCEPT ![p] = NoThread]
    /\ UNCHANGED faults

LeavesChains(p) ==
    /\ ~RunnerStarts(p) /\ ~RunnerStops(p) /\ ~GoesDown(p)
    /\ UNCHANGED <<vars, timers>>

PollerStep(p) ==
    /\ ProcStep(p)
    /\ StartsChain(p) \/ StopsChains(p) \/ KillsChains(p) \/ LeavesChains(p)

JobStep ==
    /\ \/ Request
       \/ \E j \in Jobs : RunStep(j)
       \/ \E j \in Jobs : RunDbFails(j)
       \/ \E j \in Jobs, w \in Workers : WorkerStep(j, w) \/ WorkerDbFails(j, w)
    /\ UNCHANGED <<lvars, timers>>

CNext ==
    \/ JobStep
    \/ \E t \in Threads : DrainChain(t) \/ DrainTimer(t) \/ DrainEnds(t)
    \/ \E p \in Procs : PollerStep(p)

CSpec == CInit /\ [][CNext]_allVars

-----------------------------------------------------------------------------
(* Properties.                                                             *)

\* A runner that says it runs has a chain that will look for the next job, however its
\* starts and stops fell between the chains and timers of earlier leaderships.
RunningMeansDraining ==
    \A p \in Procs : runner[p].running =>
        \E t \in ThreadsOf(p) :
            thread[t].at # "off" /\ (thread[t].at = "idle" => t \in armed)

\* No server is worked on twice by one job, whichever leaderships come, go and overlap.
AtMostOnceHere ==
    [][\A j \in Jobs, i \in Positions :
        did[j][i] # "no" /\ did'[j][i] # did[j][i] => did[j][i] = "busy" /\ did'[j][i] # "no"]_allVars

=============================================================================
