----------------------------- MODULE Leadership -----------------------------
(***************************************************************************)
(* The leader election of the background work, src/src/lib/servers/        *)
(* poller.ts, with the two flags of src/src/lib/jobs/runner.ts it drives.  *)
(*                                                                         *)
(* Every process runs one ServerPoller.  It opens a database connection    *)
(* and asks for an advisory lock; the session that gets it makes its       *)
(* process the leader, which polls the fleet in tick chains and drains the *)
(* job queue.  lock is the database's view, poller[p] the process's: the   *)
(* database frees the lock when a session ends, the process learns of it   *)
(* from a later event of the connection.                                   *)
(***************************************************************************)
EXTENDS Naturals, FiniteSets

CONSTANTS
    Procs,       \* processes of the app: web replicas and workers
    Dedicated,   \* those started with exitOnShutdown
    NoSession,   \* the lock is free
    MaxConns,    \* bound: connections of one process open together
    MaxTicks,    \* bound: tick chains of one process alive together
    MaxBreaks,   \* bound: connections that break in a behaviour
    MaxSignals,  \* bound: SIGINT or SIGTERM in a behaviour
    MaxKills     \* bound: processes that die unasked in a behaviour

ASSUME LeadershipAssumption ==
    /\ Dedicated \subseteq Procs
    /\ MaxConns \in Nat \ {0}
    /\ MaxTicks \in Nat \ {0}
    /\ MaxBreaks \in Nat /\ MaxSignals \in Nat /\ MaxKills \in Nat
    /\ NoSession \notin Procs \X (1 .. MaxConns)

Slots == 1 .. MaxConns
Chains == 1 .. MaxTicks
None == 0

ConnAt == {"unused", "opening", "granted", "denied", "failing", "open", "broken", "closing"}
ChainAt == {"off", "polling", "timer"}
Closing == {"no", "cycle", "ending", "closed"}

VARIABLES
    poller,  \* the ServerPoller of each process
    conn,    \* its database connections
    ticks,   \* its tick chains
    runner,  \* running and stopped of the job runner
    lock,    \* the session that holds the advisory lock
    spent    \* how much of each bound is used

lvars == <<poller, conn, ticks, runner, lock, spent>>

Fresh == [up |-> TRUE, stopped |-> FALSE, leader |-> FALSE, connecting |-> TRUE,
          client |-> None, retry |-> FALSE, tickTimer |-> None, cycle |-> None,
          closing |-> "no", held |-> None]
Gone == [Fresh EXCEPT !.up = FALSE, !.connecting = FALSE]
IdleRunner == [running |-> FALSE, stopped |-> TRUE]
FirstConn == [k \in Slots |-> IF k = 1 THEN "opening" ELSE "unused"]

\* startServerPoller in every process: start() asks for the lock at once.
LInit ==
    /\ poller = [p \in Procs |-> Fresh]
    /\ conn = [p \in Procs |-> FirstConn]
    /\ ticks = [p \in Procs |-> [k \in Chains |-> "off"]]
    /\ runner = [p \in Procs |-> IdleRunner]
    /\ lock = NoSession
    /\ spent = [breaks |-> 0, signals |-> 0, kills |-> 0]

Spend(what, bound) == spent[what] < bound /\ spent' = [spent EXCEPT ![what] = @ + 1]

SetConn(p, k, at) == conn' = [conn EXCEPT ![p][k] = at]

\* The session of connection k of p ends: the database frees its lock.
WithoutSession(p, k) == IF lock = <<p, k>> THEN NoSession ELSE lock

-----------------------------------------------------------------------------
(* Becoming the leader.                                                    *)

\* The check both scheduleAcquire and tryBecomeLeader begin with.
MayAskWhileConnecting(r) == ~r.stopped /\ ~r.leader
MayAsk(r) == ~r.stopped /\ ~r.leader /\ ~r.connecting

\* scheduleAcquire
NeverRetried(r) == r
ScheduleAcquire(r) == [r EXCEPT !.retry = @ \/ MayAsk(r)]

\* The retry timer fires and tryBecomeLeader opens a connection.
RetryAcquire(p) ==
    LET r == poller[p]
        asks == MayAsk(r) IN
    /\ r.retry
    /\ poller' = [poller EXCEPT ![p] = [r EXCEPT !.retry = FALSE, !.connecting = @ \/ asks]]
    /\ \/ /\ asks
          /\ \E k \in Slots :
                /\ conn[p][k] = "unused"
                /\ \A m \in 1 .. k - 1 : conn[p][m] # "unused"
                /\ SetConn(p, k, "opening")
       \/ ~asks /\ UNCHANGED conn
    /\ UNCHANGED <<ticks, runner, lock, spent>>

\* pg_try_advisory_lock, evaluated by the database.
LockIsFree == lock = NoSession

TryLock(p, k) ==
    /\ conn[p][k] = "opening"
    /\ \/ LockIsFree /\ lock' = <<p, k>> /\ SetConn(p, k, "granted")
       \/ ~LockIsFree /\ SetConn(p, k, "denied") /\ UNCHANGED lock
    /\ UNCHANGED <<poller, ticks, runner, spent>>

\* startJobRunner
StartRunner(p) ==
    runner' = [runner EXCEPT ![p] =
        IF @.running THEN @ ELSE [running |-> TRUE, stopped |-> FALSE]]

\* The answer "locked": leadership, the job runner, the first tick.  Nothing looks
\* at stopped here except the tick itself.
BecomeLeader(p, k) ==
    LET r == poller[p] IN
    /\ conn[p][k] = "granted"
    /\ SetConn(p, k, "open")
    /\ StartRunner(p)
    /\ \E c \in Chains :
        /\ ticks[p][c] = "off"
        /\ \A m \in 1 .. c - 1 : ticks[p][m] # "off"
        /\ ticks' = IF r.stopped THEN ticks ELSE [ticks EXCEPT ![p][c] = "polling"]
        /\ poller' = [poller EXCEPT ![p] =
                [r EXCEPT !.leader = TRUE, !.connecting = FALSE, !.client = k,
                          !.cycle = IF r.stopped THEN None ELSE c]]
    /\ UNCHANGED <<lock, spent>>

\* Held by another process, or an attempt that failed: close and retry later.
GiveUpAttempt(p, k) ==
    /\ conn[p][k] \in {"denied", "failing"}
    /\ SetConn(p, k, "closing")
    /\ poller' = [poller EXCEPT ![p].connecting = FALSE]
    /\ UNCHANGED <<ticks, runner, lock, spent>>

-----------------------------------------------------------------------------
(* Losing it.                                                              *)

\* stopJobRunner, not awaited.
StillRunning(r) == [r EXCEPT !.stopped = TRUE]
StoppedRunner(r) == IF r.running THEN IdleRunner ELSE r

\* loseLeadership, run by any connection's event, whatever the leadership now rests
\* on.  at is where the connection that raised the event is left.
ClientRemembered(r) == ScheduleAcquire([r EXCEPT !.leader = FALSE, !.tickTimer = None])
LostPoller(r) ==
    ScheduleAcquire([r EXCEPT !.leader = FALSE, !.client = None, !.tickTimer = None])

\* client.end(): whatever connection the leadership rested on is closed.
ClientLeftOpen(p, k, at) == [conn[p] EXCEPT ![k] = at]
LostConns(p, k, at) ==
    [m \in Slots |->
        IF m = k THEN at ELSE IF m = poller[p].client THEN "closing" ELSE conn[p][m]]

LoseLeadership(p, k, at) ==
    LET r == poller[p] IN
    /\ poller' = [poller EXCEPT ![p] = LostPoller(r)]
    /\ conn' = [conn EXCEPT ![p] = LostConns(p, k, at)]
    /\ ticks' = [ticks EXCEPT ![p] = [c \in Chains |->
            IF c = r.tickTimer /\ @[c] = "timer" THEN "off" ELSE @[c]]]
    /\ runner' = [runner EXCEPT ![p] = StoppedRunner(@)]

\* The 'end' event of a closed connection; its session is over by then.
ConnectionEnds(p, k) ==
    /\ conn[p][k] = "closing"
    /\ LoseLeadership(p, k, "unused")
    /\ lock' = WithoutSession(p, k)
    /\ UNCHANGED spent

\* A session breaks: the database frees the lock, the process does not know yet.
ConnectionBreaks(p, k) ==
    /\ conn[p][k] \in {"opening", "granted", "open"}
    /\ Spend("breaks", MaxBreaks)
    /\ SetConn(p, k, IF conn[p][k] = "open" THEN "broken" ELSE "failing")
    /\ lock' = WithoutSession(p, k)
    /\ UNCHANGED <<poller, ticks, runner>>

\* Its 'error' event: the current client is also told to end, which raises 'end'.
BreakNoticed(p, k) ==
    /\ conn[p][k] = "broken"
    /\ LoseLeadership(p, k, IF poller[p].client = k THEN "closing" ELSE "unused")
    /\ UNCHANGED <<lock, spent>>

-----------------------------------------------------------------------------
(* The poll loop.                                                          *)

KeepsTicking(r) == ~r.stopped /\ r.leader

\* The cycle is over: the finally block sets the next timer.
CycleEnds(p, c) ==
    /\ ticks[p][c] = "polling"
    /\ \/ /\ KeepsTicking(poller[p])
          /\ ticks' = [ticks EXCEPT ![p][c] = "timer"]
          /\ poller' = [poller EXCEPT ![p].tickTimer = c]
       \/ /\ ~KeepsTicking(poller[p])
          /\ ticks' = [ticks EXCEPT ![p][c] = "off"]
          /\ UNCHANGED poller
    /\ UNCHANGED <<conn, runner, lock, spent>>

\* The timer fires: this.inFlight = this.tick().
TimerFires(p, c) ==
    LET goes == KeepsTicking(poller[p]) IN
    /\ ticks[p][c] = "timer"
    /\ ticks' = [ticks EXCEPT ![p][c] = IF goes THEN "polling" ELSE "off"]
    /\ poller' = [poller EXCEPT ![p].cycle = IF goes THEN c ELSE None]
    /\ UNCHANGED <<conn, runner, lock, spent>>

-----------------------------------------------------------------------------
(* Shutdown, death, restart.                                               *)

Signal(p) ==
    LET r == poller[p] IN
    /\ r.up /\ ~r.stopped
    /\ Spend("signals", MaxSignals)
    /\ poller' = [poller EXCEPT ![p] =
            [r EXCEPT !.stopped = TRUE, !.retry = FALSE, !.closing = "cycle"]]
    /\ ticks' = [ticks EXCEPT ![p] = [c \in Chains |->
            IF c = r.tickTimer /\ @[c] = "timer" THEN "off" ELSE @[c]]]
    /\ UNCHANGED <<conn, runner, lock>>

\* The poll cycle in flight is over: unlock and close the connection.
CycleNotAwaited(p) == TRUE
CycleAwaited(p) == \A c \in Chains : poller[p].cycle = c => ticks[p][c] # "polling"

ReleaseLock(p) ==
    LET k == poller[p].client IN
    /\ poller[p].closing = "cycle"
    /\ CycleAwaited(p)
    /\ poller' = [poller EXCEPT ![p].client = None, ![p].held = k,
                                ![p].closing = IF k = None THEN "closed" ELSE "ending"]
    /\ lock' = WithoutSession(p, k)
    /\ conn' = [conn EXCEPT ![p] = [m \in Slots |->
            IF m = k /\ @[m] = "open" THEN "closing" ELSE @[m]]]
    /\ UNCHANGED <<ticks, runner, spent>>

CloseAwaited(p) ==
    /\ poller[p].closing = "ending"
    /\ conn[p][poller[p].held] = "unused"
    /\ poller' = [poller EXCEPT ![p].closing = "closed"]
    /\ UNCHANGED <<conn, ticks, runner, lock, spent>>

GoDown(p) ==
    /\ poller[p].up
    /\ poller' = [poller EXCEPT ![p] = Gone]
    /\ conn' = [conn EXCEPT ![p] = [k \in Slots |-> "unused"]]
    /\ ticks' = [ticks EXCEPT ![p] = [c \in Chains |-> "off"]]
    /\ runner' = [runner EXCEPT ![p] = IdleRunner]
    /\ lock' = IF lock \in {p} \X Slots THEN NoSession ELSE lock

\* process.exit(0) at the end of shutdown; an embedded poller's process is ended by
\* its HTTP server, at any time after the signal.
Exit(p) ==
    /\ poller[p].stopped
    /\ p \in Dedicated => poller[p].closing = "closed"
    /\ GoDown(p)
    /\ UNCHANGED spent

Kill(p) == GoDown(p) /\ Spend("kills", MaxKills)

Restart(p) ==
    /\ ~poller[p].up
    /\ poller' = [poller EXCEPT ![p] = Fresh]
    /\ conn' = [conn EXCEPT ![p] = FirstConn]
    /\ UNCHANGED <<ticks, runner, lock, spent>>

-----------------------------------------------------------------------------

ConnStep(p, k) ==
    TryLock(p, k) \/ BecomeLeader(p, k) \/ GiveUpAttempt(p, k)
        \/ ConnectionEnds(p, k) \/ BreakNoticed(p, k)

TickStep(p, c) == CycleEnds(p, c) \/ TimerFires(p, c)

ShutdownStep(p) == ReleaseLock(p) \/ CloseAwaited(p) \/ Exit(p)

ProcStep(p) ==
    \/ RetryAcquire(p) \/ Signal(p) \/ ShutdownStep(p) \/ Kill(p) \/ Restart(p)
    \/ \E k \in Slots : ConnStep(p, k) \/ ConnectionBreaks(p, k)
    \/ \E c \in Chains : TickStep(p, c)

LNext == \E p \in Procs : ProcStep(p)

LSpec == LInit /\ [][LNext]_lvars

\* Timers fire, sockets answer or fail, poll cycles end (every panel call has a
\* deadline), a stopped process exits, and its supervisor starts it again.
LFairness ==
    \A p \in Procs :
        /\ WF_lvars(RetryAcquire(p)) /\ WF_lvars(ShutdownStep(p)) /\ WF_lvars(Restart(p))
        /\ \A k \in Slots : WF_lvars(ConnStep(p, k))
        /\ \A c \in Chains : WF_lvars(TickStep(p, c))

LFairSpec == LSpec /\ LFairness

-----------------------------------------------------------------------------
(* Properties.                                                             *)

\* The client a poller remembers is a connection it opened and has not seen the end of.
LTypeOK ==
    /\ poller \in [Procs -> [up : BOOLEAN, stopped : BOOLEAN, leader : BOOLEAN,
            connecting : BOOLEAN, client : 0 .. MaxConns, retry : BOOLEAN,
            tickTimer : 0 .. MaxTicks, cycle : 0 .. MaxTicks,
            closing : Closing, held : 0 .. MaxConns]]
    /\ conn \in [Procs -> [Slots -> ConnAt]]
    /\ ticks \in [Procs -> [Chains -> ChainAt]]
    /\ runner \in [Procs -> [running : BOOLEAN, stopped : BOOLEAN]]
    /\ lock \in (Procs \X Slots) \cup {NoSession}
    /\ spent \in [breaks : Nat, signals : Nat, kills : Nat]
    /\ \A p \in Procs : poller[p].client # None =>
            conn[p][poller[p].client] \in {"open", "broken"}

\* The lock follows the leader. It is never left with a session nobody will close: its
\* connection is the leader's client, is about to become it, or is being closed. And a
\* process that believes it leads and whose connection stands does hold it: two leaders
\* need a connection that broke unnoticed (poller.ts:65-107).
LockFollowsLeader ==
    /\ \A p \in Procs, k \in Slots : lock = <<p, k>> =>
        /\ poller[p].up
        /\ \/ conn[p][k] \in {"granted", "closing"}
           \/ conn[p][k] = "open" /\ poller[p].client = k
    /\ \A p \in Procs : poller[p].client # None /\ conn[p][poller[p].client] = "open" =>
        lock = <<p, poller[p].client>>

\* However the events of old connections mix with a new attempt, a process asks for the
\* lock over one connection at a time, and over one exactly while it says so.
OneAttempt ==
    \A p \in Procs :
        LET asking == {k \in Slots : conn[p][k] \in {"opening", "granted", "denied", "failing"}} IN
        Cardinality(asking) = IF poller[p].connecting THEN 1 ELSE 0

\* While no connection breaks, all processes together run at most one poll cycle
\* (poller.ts:164): a leader told to stop ends its cycle before the next one leads.
OnePoller ==
    spent.breaks = 0 =>
        Cardinality({pc \in Procs \X Chains : ticks[pc[1]][pc[2]] = "polling"}) <= 1

\* Whatever breaks, dies or is stopped, some process leads again.
LeaderReturns == []<>(\E p \in Procs : poller[p].leader /\ ~poller[p].stopped)

=============================================================================
