-------------------------- MODULE Leadership_proofs --------------------------
(***************************************************************************)
(* Proofs about Leadership, for any processes, connections, chains, breaks,*)
(* signals and kills: the types of its state, that the lock follows the    *)
(* leader, that a process asks for it once at a time, and that polls do    *)
(* not meet while no connection breaks.  The last section is about         *)
(* LeaderJobs, the job queue driven by the elected leader: the elections   *)
(* go on as proved, the queue keeps its promises, and a runner that runs   *)
(* has a chain that drains.                                                *)
(*                                                                         *)
(* A step is one process's.  What has to hold of a process is Safe, said   *)
(* of its record r, its connections cs, its chains ts and the slots h that *)
(* hold the lock; the lemmas about Safe are steps on these values.         *)
(***************************************************************************)
EXTENDS LeaderJobs, JobQueue_proofs, FiniteSetTheorems, TLAPS

Rec == [up : BOOLEAN, stopped : BOOLEAN, leader : BOOLEAN,
        connecting : BOOLEAN, client : 0 .. MaxConns, retry : BOOLEAN,
        tickTimer : 0 .. MaxTicks, cycle : 0 .. MaxTicks,
        closing : Closing, held : 0 .. MaxConns]
Conns == [Slots -> ConnAt]
Ticks == [Chains -> ChainAt]
Asking == {"opening", "granted", "denied", "failing"}

-----------------------------------------------------------------------------
(* What holds of one process.                                              *)

ClientThere(r, cs) == r.client # None => cs[r.client] \in {"open", "broken"}

\* One attempt, exactly while connecting.
Attempts(r, cs) ==
    /\ r.connecting => \E k \in Slots : cs[k] \in Asking
    /\ \A k \in Slots : cs[k] \in Asking =>
        r.connecting /\ \A m \in Slots : cs[m] \in Asking => m = k

Leads(r) ==
    /\ r.connecting => ~r.leader
    /\ r.client # None => r.leader
    /\ r.closing = "cycle" => r.stopped

\* The session that holds the lock, and the connections that must.
Locks(r, cs, h) ==
    \A k \in Slots :
        /\ k \in h => r.up /\ cs[k] \in {"granted", "closing", "open"}
        /\ cs[k] = "open" => r.client = k
        /\ cs[k] \in {"open", "granted"} => k \in h

Down(r, cs, ts) ==
    ~r.up => /\ ~r.retry /\ ~r.connecting /\ r.client = None
             /\ \A k \in Slots : cs[k] = "unused"
             /\ \A c \in Chains : ts[c] = "off"

\* While no connection has broken a process has one connection, and a chain only
\* with the connection it leads by; a shutdown waits for that chain.
Calm(r, cs, ts) ==
    /\ \A k \in Slots : cs[k] \notin {"broken", "failing"}
    /\ \A k, m \in Slots : cs[k] # "unused" /\ cs[m] # "unused" => k = m
    /\ r.retry => \A k \in Slots : cs[k] = "unused"
    /\ \A c \in Chains : ts[c] # "off" => r.client # None
    /\ \A c, d \in Chains : ts[c] # "off" /\ ts[d] # "off" => c = d
    /\ \A c \in Chains : ts[c] = "polling" => r.cycle = c
    /\ \A c \in Chains : ts[c] = "timer" => r.tickTimer = c /\ ~r.stopped

Safe(r, cs, ts, h, calm) ==
    /\ ClientThere(r, cs) /\ Attempts(r, cs) /\ Leads(r) /\ Locks(r, cs, h) /\ Down(r, cs, ts)
    /\ calm => Calm(r, cs, ts)

\* "No connection" and "no chain" are not slots.
LEMMA SlotFacts == None \notin Slots /\ Slots \subseteq 0 .. MaxConns /\ Chains \subseteq 0 .. MaxTicks
                   /\ None \notin Chains /\ 1 \in Slots /\ None \in 0 .. MaxConns /\ None \in 0 .. MaxTicks
  BY LeadershipAssumption DEF LeadershipAssumption, Slots, Chains, None

\* The retry timer fires and an attempt begins.
LEMMA AskSafe ==
    ASSUME NEW r \in Rec, NEW cs \in Conns, NEW ts \in Ticks, NEW h, NEW calm,
           Safe(r, cs, ts, h, calm), NEW k \in Slots, MayAsk(r), r.retry, cs[k] = "unused"
    PROVE  /\ [r EXCEPT !.retry = FALSE, !.connecting = TRUE] \in Rec
           /\ [cs EXCEPT ![k] = "opening"] \in Conns
           /\ Safe([r EXCEPT !.retry = FALSE, !.connecting = TRUE], [cs EXCEPT ![k] = "opening"], ts, h, calm)
<1> DEFINE s == [r EXCEPT !.retry = FALSE, !.connecting = TRUE]
           ds == [cs EXCEPT ![k] = "opening"]
<1>1. s \in Rec /\ ds \in Conns
  BY DEF Rec, Conns, ConnAt
<1>2. /\ s.up = r.up /\ s.stopped = r.stopped /\ s.leader = r.leader /\ s.client = r.client
      /\ s.tickTimer = r.tickTimer /\ s.cycle = r.cycle /\ s.closing = r.closing
      /\ s.connecting /\ ~s.retry
  BY DEF Rec
<1>3. ds[k] = "opening" /\ \A m \in Slots : m # k => ds[m] = cs[m]
  BY DEF Conns
<1> HIDE DEF s, ds
<1>4. ClientThere(s, ds)
  <2>1. r.client = None
    BY DEF Safe, Leads, MayAsk
  <2> QED
    BY <1>2, <2>1 DEF ClientThere
<1>5. Attempts(s, ds)
  BY <1>2, <1>3 DEF Safe, Attempts, MayAsk, Asking
<1>6. Leads(s)
  BY <1>2 DEF Safe, Leads, MayAsk
<1>7. Locks(s, ds, h)
  BY <1>2, <1>3 DEF Safe, Locks
<1>8. Down(s, ds, ts)
  BY <1>2, <1>3 DEF Safe, Down
<1>9. calm => Calm(s, ds, ts)
  BY <1>2, <1>3 DEF Safe, Calm
<1> QED
  BY <1>1, <1>4, <1>5, <1>6, <1>7, <1>8, <1>9 DEF Safe, s, ds

\* It finds that there is nothing to ask for.
LEMMA NoAskSafe ==
    ASSUME NEW r \in Rec, NEW cs \in Conns, NEW ts \in Ticks, NEW h, NEW calm, Safe(r, cs, ts, h, calm)
    PROVE  [r EXCEPT !.retry = FALSE] \in Rec /\ Safe([r EXCEPT !.retry = FALSE], cs, ts, h, calm)
<1> DEFINE s == [r EXCEPT !.retry = FALSE]
<1>1. s \in Rec
  BY DEF Rec
<1>2. /\ s.up = r.up /\ s.stopped = r.stopped /\ s.leader = r.leader /\ s.client = r.client
      /\ s.tickTimer = r.tickTimer /\ s.cycle = r.cycle /\ s.closing = r.closing
      /\ s.connecting = r.connecting /\ ~s.retry
  BY DEF Rec
<1> HIDE DEF s
<1>3. ClientThere(s, cs) /\ Attempts(s, cs) /\ Leads(s)
  BY <1>2 DEF Safe, ClientThere, Attempts, Leads
<1>4. Locks(s, cs, h) /\ Down(s, cs, ts) /\ (calm => Calm(s, cs, ts))
  BY <1>2 DEF Safe, Locks, Down, Calm
<1> QED
  BY <1>1, <1>3, <1>4 DEF Safe, s

\* The lock is refused, or granted where nobody holds it.
LEMMA AnswerSafe ==
    ASSUME NEW r \in Rec, NEW cs \in Conns, NEW ts \in Ticks, NEW h, NEW calm,
           Safe(r, cs, ts, h, calm), NEW k \in Slots, cs[k] = "opening"
    PROVE  /\ [cs EXCEPT ![k] = "denied"] \in Conns /\ Safe(r, [cs EXCEPT ![k] = "denied"], ts, h, calm)
           /\ [cs EXCEPT ![k] = "granted"] \in Conns
           /\ h = {} => Safe(r, [cs EXCEPT ![k] = "granted"], ts, {k}, calm)
<1>1. ASSUME NEW at \in {"denied", "granted"}, NEW g, g = (IF at = "granted" THEN {k} ELSE h),
             at = "granted" => h = {}
      PROVE  [cs EXCEPT ![k] = at] \in Conns /\ Safe(r, [cs EXCEPT ![k] = at], ts, g, calm)
  <2> DEFINE ds == [cs EXCEPT ![k] = at]
  <2>1. ds \in Conns
    BY DEF Conns, ConnAt
  <2>2. ds[k] = at /\ \A m \in Slots : m # k => ds[m] = cs[m]
    BY DEF Conns
  <2> HIDE DEF ds
  <2>3. r.client # k \/ r.client = None
    BY DEF Safe, ClientThere
  <2>4. ClientThere(r, ds)
    <3>1. r.client # None => r.client \in Slots
      BY DEF Rec, Slots, None
    <3> QED
      BY <2>2, <2>3, <3>1 DEF Safe, ClientThere
  <2>5. Attempts(r, ds) /\ Leads(r)
    BY <2>2 DEF Safe, Attempts, Leads, Asking
  <2>6. Locks(r, ds, g)
    <3>1. r.connecting /\ r.up
      BY DEF Safe, Attempts, Asking, Down
    <3> QED
      BY <1>1, <2>2, <3>1 DEF Safe, Locks
  <2>7. Down(r, ds, ts)
    BY <2>2 DEF Safe, Down
  <2>8. calm => Calm(r, ds, ts)
    BY <2>2 DEF Safe, Calm
  <2> QED
    BY <2>1, <2>4, <2>5, <2>6, <2>7, <2>8 DEF Safe, ds
<1>2. /\ [cs EXCEPT ![k] = "denied"] \in Conns /\ Safe(r, [cs EXCEPT ![k] = "denied"], ts, h, calm)
      /\ [cs EXCEPT ![k] = "granted"] \in Conns
  <2>1. "denied" # "granted" /\ "denied" \in {"denied", "granted"}
    OBVIOUS
  <2>2. [cs EXCEPT ![k] = "granted"] \in Conns
    BY DEF Conns, ConnAt
  <2> QED
    BY <1>1, <2>1, <2>2
<1>3. h = {} => Safe(r, [cs EXCEPT ![k] = "granted"], ts, {k}, calm)
  BY <1>1
<1> QED
  BY <1>2, <1>3

\* The process becomes the leader, with a chain of ticks unless it was told to stop.
Promoted(r, k, c) ==
    [r EXCEPT !.leader = TRUE, !.connecting = FALSE, !.client = k, !.cycle = IF r.stopped THEN None ELSE c]
Opened(cs, k) == [cs EXCEPT ![k] = "open"]
Begun(r, ts, c) == IF r.stopped THEN ts ELSE [ts EXCEPT ![c] = "polling"]

\* Becoming the leader over a connection that was just granted the lock keeps a process safe.
LEMMA BecomeSafe ==
    ASSUME NEW r \in Rec, NEW cs \in Conns, NEW ts \in Ticks, NEW h, NEW calm,
           Safe(r, cs, ts, h, calm), NEW k \in Slots, cs[k] = "granted", NEW c \in Chains
    PROVE  /\ Promoted(r, k, c) \in Rec /\ Opened(cs, k) \in Conns /\ Begun(r, ts, c) \in Ticks
           /\ Safe(Promoted(r, k, c), Opened(cs, k), Begun(r, ts, c), h, calm)
<1> DEFINE s == Promoted(r, k, c)  ds == Opened(cs, k)  us == Begun(r, ts, c)
<1>1. s \in Rec /\ ds \in Conns /\ us \in Ticks
  BY SlotFacts DEF Promoted, Opened, Begun, Rec, Conns, ConnAt, Ticks, ChainAt
<1>2. /\ s.up = r.up /\ s.stopped = r.stopped /\ s.leader /\ s.client = k
      /\ s.tickTimer = r.tickTimer /\ s.closing = r.closing /\ ~s.connecting /\ s.retry = r.retry
      /\ ~r.stopped => s.cycle = c
  BY DEF Promoted, Rec
<1>3. ds[k] = "open" /\ \A m \in Slots : m # k => ds[m] = cs[m]
  BY DEF Opened, Conns
<1>4. /\ r.stopped => us = ts
      /\ ~r.stopped => us[c] = "polling" /\ \A d \in Chains : d # c => us[d] = ts[d]
  BY DEF Begun, Ticks
<1> HIDE DEF s, ds, us
<1>5. r.connecting /\ r.up /\ r.client = None /\ k \in h /\ k # None
  BY SlotFacts DEF Safe, Attempts, Asking, Leads, Locks
<1>6. ClientThere(s, ds)
  BY <1>2, <1>3 DEF ClientThere
<1>7. Attempts(s, ds)
  BY <1>2, <1>3 DEF Safe, Attempts, Asking
<1>8. Leads(s) /\ Down(s, ds, us)
  BY <1>2, <1>5 DEF Safe, Leads, Down
<1>9. Locks(s, ds, h)
  BY <1>2, <1>3, <1>5, SlotFacts DEF Safe, Locks
<1>10. calm => Calm(s, ds, us)
  <2> SUFFICES ASSUME calm PROVE Calm(s, ds, us)
    OBVIOUS
  <2>1. \A d \in Chains : ts[d] = "off"
    BY <1>5 DEF Safe, Calm
  <2>2. /\ \A m \in Slots : ds[m] \notin {"broken", "failing"}
        /\ \A m, n \in Slots : ds[m] # "unused" /\ ds[n] # "unused" => m = n
        /\ s.retry => \A m \in Slots : ds[m] = "unused"
    BY <1>2, <1>3 DEF Safe, Calm
  <2>3. \A d \in Chains : us[d] # "off" => d = c /\ us[d] = "polling" /\ s.cycle = c
    BY <1>2, <1>4, <2>1
  <2>4. s.client # None
    BY <1>2, <1>5
  <2> QED
    BY <2>2, <2>3, <2>4 DEF Calm
<1> QED
  BY <1>1, <1>6, <1>7, <1>8, <1>9, <1>10 DEF Safe, s, ds, us

\* An attempt is given up.
LEMMA GiveUpSafe ==
    ASSUME NEW r \in Rec, NEW cs \in Conns, NEW ts \in Ticks, NEW h, NEW calm,
           Safe(r, cs, ts, h, calm), NEW k \in Slots, cs[k] \in {"denied", "failing"},
           NEW s, s = [r EXCEPT !.connecting = FALSE], NEW ds, ds = [cs EXCEPT ![k] = "closing"]
    PROVE  s \in Rec /\ ds \in Conns /\ Safe(s, ds, ts, h, calm)
<1>1. s \in Rec /\ ds \in Conns
  BY DEF Rec, Conns, ConnAt
<1>2. /\ s.up = r.up /\ s.stopped = r.stopped /\ s.leader = r.leader /\ s.client = r.client
      /\ s.tickTimer = r.tickTimer /\ s.closing = r.closing /\ ~s.connecting /\ s.retry = r.retry
      /\ s.cycle = r.cycle
  BY DEF Rec
<1>3. ds[k] = "closing" /\ \A m \in Slots : m # k => ds[m] = cs[m]
  BY DEF Conns
<1>4. r.connecting /\ r.client = None /\ k \notin h
  BY DEF Safe, Attempts, Asking, Leads, Locks
<1>5. ClientThere(s, ds) /\ Leads(s)
  BY <1>2, <1>4 DEF Safe, ClientThere, Leads
<1>6. Attempts(s, ds)
  BY <1>2, <1>3 DEF Safe, Attempts, Asking
<1>7. Locks(s, ds, h) /\ Down(s, ds, ts)
  BY <1>2, <1>3, <1>4 DEF Safe, Locks, Down
<1>8. calm => Calm(s, ds, ts)
  BY <1>2, <1>3 DEF Safe, Calm
<1> QED
  BY <1>1, <1>5, <1>6, <1>7, <1>8 DEF Safe

\* What the loss of leadership leaves of a record.
LEMMA LostFields ==
    ASSUME NEW r \in Rec, NEW s, s = LostPoller(r)
    PROVE  /\ s \in Rec
           /\ s.up = r.up /\ s.stopped = r.stopped /\ ~s.leader /\ s.client = None
           /\ s.tickTimer = None /\ s.closing = r.closing /\ s.connecting = r.connecting
           /\ s.cycle = r.cycle /\ s.held = r.held
           /\ s.retry <=> r.retry \/ (~r.stopped /\ ~r.connecting)
<1> DEFINE q == [r EXCEPT !.leader = FALSE, !.client = None, !.tickTimer = None]
<1>1. /\ q \in Rec
      /\ q.up = r.up /\ q.stopped = r.stopped /\ ~q.leader /\ q.client = None
      /\ q.tickTimer = None /\ q.closing = r.closing /\ q.connecting = r.connecting
      /\ q.cycle = r.cycle /\ q.held = r.held /\ q.retry = r.retry
  BY SlotFacts DEF Rec
<1>2. s = [q EXCEPT !.retry = q.retry \/ MayAsk(q)]
  BY DEF LostPoller, ScheduleAcquire
<1>3. MayAsk(q) <=> ~r.stopped /\ ~r.connecting
  BY <1>1 DEF MayAsk
<1> HIDE DEF q
<1>4. /\ s.up = q.up /\ s.stopped = q.stopped /\ s.leader = q.leader /\ s.client = q.client
      /\ s.tickTimer = q.tickTimer /\ s.closing = q.closing /\ s.connecting = q.connecting
      /\ s.cycle = q.cycle /\ s.held = q.held
      /\ s.retry <=> (q.retry \/ MayAsk(q))
  BY <1>1, <1>2 DEF Rec
<1>5. (q.retry \/ MayAsk(q)) \in BOOLEAN
  OBVIOUS
<1>6. s \in Rec
  BY <1>1, <1>2, <1>5 DEF Rec
<1> QED
  BY <1>1, <1>3, <1>4, <1>6

\* A connection ends, or its break is noticed, and leadership with it.
LEMMA LostSafe ==
    ASSUME NEW r \in Rec, NEW cs \in Conns, NEW ts \in Ticks, NEW h, NEW calm,
           Safe(r, cs, ts, h, calm), NEW k \in Slots, NEW at \in {"unused", "closing"},
           (cs[k] = "closing" /\ at = "unused") \/ cs[k] = "broken",
           NEW s, s = LostPoller(r),
           NEW ds, ds = [m \in Slots |-> IF m = k THEN at ELSE IF m = r.client THEN "closing" ELSE cs[m]],
           NEW us, us = [c \in Chains |-> IF c = r.tickTimer /\ ts[c] = "timer" THEN "off" ELSE ts[c]]
    PROVE  s \in Rec /\ ds \in Conns /\ us \in Ticks /\ Safe(s, ds, us, h \ {k}, calm)
<1>1. ds \in Conns /\ us \in Ticks
  BY DEF Conns, ConnAt, Ticks, ChainAt
<1>2. /\ s \in Rec
      /\ s.up = r.up /\ s.stopped = r.stopped /\ ~s.leader /\ s.client = None
      /\ s.tickTimer = None /\ s.closing = r.closing /\ s.connecting = r.connecting
      /\ s.cycle = r.cycle
      /\ s.retry <=> r.retry \/ (~r.stopped /\ ~r.connecting)
  BY LostFields
<1>3. /\ ds[k] = at
      /\ \A m \in Slots : m # k => ds[m] = IF m = r.client THEN "closing" ELSE cs[m]
  OBVIOUS
<1>4. r.up
  BY DEF Safe, Down
<1>5. ClientThere(s, ds) /\ Leads(s) /\ Down(s, ds, us)
  BY <1>2, <1>4 DEF Safe, ClientThere, Leads, Down
<1>6. \A m \in Slots : ds[m] \in Asking <=> cs[m] \in Asking
  <2>1. \A m \in Slots : m = r.client => cs[m] \in {"open", "broken"}
    BY SlotFacts DEF Safe, ClientThere
  <2> QED
    BY <1>3, <2>1 DEF Asking
<1>7. Attempts(s, ds)
  BY <1>2, <1>6 DEF Safe, Attempts
<1>8. Locks(s, ds, h \ {k})
  <2>1. \A m \in Slots : cs[m] = "open" => r.client = m
    BY DEF Safe, Locks
  <2>2. \A m \in Slots : ds[m] # "open"
    BY <1>3, <2>1
  <2>3. \A m \in Slots : m \in h => cs[m] \in {"granted", "closing", "open"}
    BY DEF Safe, Locks
  <2>4. \A m \in Slots : m \in h \ {k} => ds[m] \in {"granted", "closing"}
    BY <1>3, <2>1, <2>3
  <2>5. \A m \in Slots : ds[m] = "granted" => m \in h \ {k}
    BY <1>3 DEF Safe, Locks
  <2> QED
    BY <1>2, <1>4, <2>2, <2>4, <2>5 DEF Locks
<1>9. calm => Calm(s, ds, us)
  <2> SUFFICES ASSUME calm PROVE Calm(s, ds, us)
    OBVIOUS
  <2>1. cs[k] = "closing" /\ at = "unused" /\ \A m \in Slots : m # k => cs[m] = "unused"
    BY DEF Safe, Calm
  <2>2. r.client = None
    <3>1. r.client # None => r.client \in Slots /\ cs[r.client] \in {"open", "broken"}
      BY DEF Safe, ClientThere, Rec, Slots, None
    <3> QED
      BY <2>1, <3>1
  <2>3. \A c \in Chains : us[c] = "off"
    BY <2>2 DEF Safe, Calm
  <2>4. \A m \in Slots : ds[m] = "unused"
    BY <1>3, <2>1, <2>2, SlotFacts
  <2> QED
    BY <2>3, <2>4 DEF Calm
<1> QED
  BY <1>1, <1>2, <1>5, <1>7, <1>8, <1>9 DEF Safe

\* A session breaks: the database lets go of its lock.
LEMMA BreakSafe ==
    ASSUME NEW r \in Rec, NEW cs \in Conns, NEW ts \in Ticks, NEW h, NEW calm,
           Safe(r, cs, ts, h, calm), NEW k \in Slots, cs[k] \in {"opening", "granted", "open"},
           NEW ds, ds = [cs EXCEPT ![k] = IF cs[k] = "open" THEN "broken" ELSE "failing"]
    PROVE  ds \in Conns /\ Safe(r, ds, ts, h \ {k}, FALSE)
<1>1. ds \in Conns
  BY DEF Conns, ConnAt
<1>2. /\ ds[k] = IF cs[k] = "open" THEN "broken" ELSE "failing"
      /\ \A m \in Slots : m # k => ds[m] = cs[m]
  BY DEF Conns
<1>3. ClientThere(r, ds)
  <2>1. r.client # None => r.client \in Slots /\ cs[r.client] \in {"open", "broken"}
    BY DEF Safe, ClientThere, Rec, Slots, None
  <2> QED
    BY <1>2, <2>1 DEF ClientThere
<1>4. Attempts(r, ds)
  BY <1>2 DEF Safe, Attempts, Asking
<1>5. Locks(r, ds, h \ {k})
  BY <1>2 DEF Safe, Locks
<1>6. Leads(r) /\ Down(r, ds, ts)
  BY <1>2 DEF Safe, Down
<1> QED
  BY <1>1, <1>3, <1>4, <1>5, <1>6 DEF Safe

\* A cycle ends and the next is timed, or not.
Timed(r, c) == IF KeepsTicking(r) THEN [r EXCEPT !.tickTimer = c] ELSE r
TimedChain(r, ts, c) == [ts EXCEPT ![c] = IF KeepsTicking(r) THEN "timer" ELSE "off"]

\* The end of a poll cycle, which arms the next timer or none, keeps a process safe.
LEMMA CycleSafe ==
    ASSUME NEW r \in Rec, NEW cs \in Conns, NEW ts \in Ticks, NEW h, NEW calm,
           Safe(r, cs, ts, h, calm), NEW c \in Chains, ts[c] = "polling"
    PROVE  Timed(r, c) \in Rec /\ TimedChain(r, ts, c) \in Ticks /\ Safe(Timed(r, c), cs, TimedChain(r, ts, c), h, calm)
<1> DEFINE s == Timed(r, c)  us == TimedChain(r, ts, c)
<1>1. s \in Rec /\ us \in Ticks
  BY SlotFacts DEF Timed, TimedChain, Rec, Ticks, ChainAt
<1>2. /\ s.up = r.up /\ s.stopped = r.stopped /\ s.leader = r.leader /\ s.client = r.client
      /\ s.closing = r.closing /\ s.connecting = r.connecting /\ s.retry = r.retry /\ s.cycle = r.cycle
      /\ KeepsTicking(r) => s.tickTimer = c
  BY DEF Timed, TimedChain, Rec
<1>3. /\ us[c] = IF KeepsTicking(r) THEN "timer" ELSE "off"
      /\ \A d \in Chains : d # c => us[d] = ts[d]
  BY DEF Timed, TimedChain, Ticks
<1> HIDE DEF s, us
<1>4. ClientThere(s, cs) /\ Attempts(s, cs) /\ Leads(s) /\ Locks(s, cs, h)
  BY <1>2 DEF Safe, ClientThere, Attempts, Leads, Locks
<1>5. Down(s, cs, us)
  BY <1>2, <1>3 DEF Safe, Down
<1>6. calm => Calm(s, cs, us)
  <2> SUFFICES ASSUME calm PROVE Calm(s, cs, us)
    OBVIOUS
  <2>1. r.client # None /\ \A d \in Chains : d # c => ts[d] = "off"
    BY DEF Safe, Calm
  <2>2. \A d \in Chains : us[d] # "off" => d = c /\ us[d] = "timer" /\ s.tickTimer = c /\ ~s.stopped
    BY <1>2, <1>3, <2>1 DEF KeepsTicking
  <2>3. /\ \A m \in Slots : cs[m] \notin {"broken", "failing"}
        /\ \A m, n \in Slots : cs[m] # "unused" /\ cs[n] # "unused" => m = n
        /\ s.retry => \A m \in Slots : cs[m] = "unused"
    BY <1>2 DEF Safe, Calm
  <2> QED
    BY <1>2, <2>1, <2>2, <2>3 DEF Calm
<1> QED
  BY <1>1, <1>4, <1>5, <1>6 DEF Safe, s, us

\* The timer of a chain fires.
Fired(r, c) == [r EXCEPT !.cycle = IF KeepsTicking(r) THEN c ELSE None]
FiredChain(r, ts, c) == [ts EXCEPT ![c] = IF KeepsTicking(r) THEN "polling" ELSE "off"]

\* A timer that fires into a poll cycle keeps a process safe.
LEMMA TimerSafe ==
    ASSUME NEW r \in Rec, NEW cs \in Conns, NEW ts \in Ticks, NEW h, NEW calm,
           Safe(r, cs, ts, h, calm), NEW c \in Chains, ts[c] = "timer"
    PROVE  Fired(r, c) \in Rec /\ FiredChain(r, ts, c) \in Ticks /\ Safe(Fired(r, c), cs, FiredChain(r, ts, c), h, calm)
<1> DEFINE s == Fired(r, c)  us == FiredChain(r, ts, c)
<1>1. s \in Rec /\ us \in Ticks
  BY SlotFacts DEF Fired, FiredChain, Rec, Ticks, ChainAt
<1>2. /\ s.up = r.up /\ s.stopped = r.stopped /\ s.leader = r.leader /\ s.client = r.client
      /\ s.closing = r.closing /\ s.connecting = r.connecting /\ s.retry = r.retry
      /\ KeepsTicking(r) => s.cycle = c
  BY DEF Fired, FiredChain, Rec
<1>3. /\ us[c] = IF KeepsTicking(r) THEN "polling" ELSE "off"
      /\ \A d \in Chains : d # c => us[d] = ts[d]
  BY DEF Fired, FiredChain, Ticks
<1> HIDE DEF s, us
<1>4. ClientThere(s, cs) /\ Attempts(s, cs) /\ Leads(s) /\ Locks(s, cs, h)
  BY <1>2 DEF Safe, ClientThere, Attempts, Leads, Locks
<1>5. Down(s, cs, us)
  BY <1>2, <1>3 DEF Safe, Down
<1>6. calm => Calm(s, cs, us)
  <2> SUFFICES ASSUME calm PROVE Calm(s, cs, us)
    OBVIOUS
  <2>1. r.client # None /\ \A d \in Chains : d # c => ts[d] = "off"
    BY DEF Safe, Calm
  <2>2. \A d \in Chains : us[d] # "off" => d = c /\ us[d] = "polling" /\ s.cycle = c
    BY <1>2, <1>3, <2>1
  <2>3. /\ \A m \in Slots : cs[m] \notin {"broken", "failing"}
        /\ \A m, n \in Slots : cs[m] # "unused" /\ cs[n] # "unused" => m = n
        /\ s.retry => \A m \in Slots : cs[m] = "unused"
    BY <1>2 DEF Safe, Calm
  <2> QED
    BY <1>2, <2>1, <2>2, <2>3 DEF Calm
<1> QED
  BY <1>1, <1>4, <1>5, <1>6 DEF Safe, s, us

\* A signal: no more retries, no timer, and the poller waits for its cycle.
Stopping(r) == [r EXCEPT !.stopped = TRUE, !.retry = FALSE, !.closing = "cycle"]
Untimed(r, ts) == [c \in Chains |-> IF c = r.tickTimer /\ ts[c] = "timer" THEN "off" ELSE ts[c]]

\* A signal, which stops the timers and takes the client to close, keeps a process safe.
LEMMA SignalSafe ==
    ASSUME NEW r \in Rec, NEW cs \in Conns, NEW ts \in Ticks, NEW h, NEW calm,
           Safe(r, cs, ts, h, calm), r.up
    PROVE  Stopping(r) \in Rec /\ Untimed(r, ts) \in Ticks /\ Safe(Stopping(r), cs, Untimed(r, ts), h, calm)
<1> DEFINE s == Stopping(r)  us == Untimed(r, ts)
<1>1. s \in Rec /\ us \in Ticks
  BY DEF Stopping, Untimed, Rec, Closing, Ticks, ChainAt
<1>2. /\ s.up = r.up /\ s.stopped /\ s.leader = r.leader /\ s.client = r.client
      /\ s.closing = "cycle" /\ s.connecting = r.connecting /\ ~s.retry /\ s.cycle = r.cycle
  BY DEF Stopping, Untimed, Rec
<1> HIDE DEF s, us
<1>3. ClientThere(s, cs) /\ Attempts(s, cs) /\ Leads(s) /\ Locks(s, cs, h) /\ Down(s, cs, us)
  BY <1>2 DEF Safe, ClientThere, Attempts, Leads, Locks, Down
<1>4. calm => Calm(s, cs, us)
  <2> SUFFICES ASSUME calm PROVE Calm(s, cs, us)
    OBVIOUS
  <2>1. \A c \in Chains : us[c] # "off" => us[c] = ts[c] /\ us[c] # "timer" /\ ts[c] # "off"
    BY DEF Safe, Calm, Ticks, ChainAt, us, Untimed
  <2> QED
    BY <1>2, <2>1 DEF Safe, Calm
<1> QED
  BY <1>1, <1>3, <1>4 DEF Safe, s, us

\* The cycle in flight is over; the lock and its connection are let go.
LettingGo(r) ==
    [r EXCEPT !.client = None, !.held = r.client, !.closing = IF r.client = None THEN "closed" ELSE "ending"]
WithoutClient(r, cs) == [m \in Slots |-> IF m = r.client /\ cs[m] = "open" THEN "closing" ELSE cs[m]]

\* A shutdown that unlocks once its cycle has ended keeps a process safe.
LEMMA ReleaseSafe ==
    ASSUME NEW r \in Rec, NEW cs \in Conns, NEW ts \in Ticks, NEW h, NEW calm,
           Safe(r, cs, ts, h, calm), r.closing = "cycle",
           \A c \in Chains : r.cycle = c => ts[c] # "polling"
    PROVE  LettingGo(r) \in Rec /\ WithoutClient(r, cs) \in Conns /\ Safe(LettingGo(r), WithoutClient(r, cs), ts, h \ {r.client}, calm)
<1> DEFINE s == LettingGo(r)  ds == WithoutClient(r, cs)
<1>1. s \in Rec /\ ds \in Conns
  BY SlotFacts DEF LettingGo, WithoutClient, Rec, Closing, Conns, ConnAt
<1>2. /\ s.up = r.up /\ s.stopped = r.stopped /\ s.leader = r.leader /\ s.client = None
      /\ s.closing # "cycle" /\ s.connecting = r.connecting /\ s.retry = r.retry
      /\ s.cycle = r.cycle /\ s.tickTimer = r.tickTimer
  BY DEF LettingGo, WithoutClient, Rec
<1> HIDE DEF s, ds
<1>3. \A m \in Slots : cs[m] = "open" => m = r.client
  BY DEF Safe, Locks
<1>4. \A m \in Slots : ds[m] = IF cs[m] = "open" THEN "closing" ELSE cs[m]
  BY <1>3 DEF ds, WithoutClient
<1>5. ClientThere(s, ds) /\ Leads(s) /\ Down(s, ds, ts)
  BY <1>2, <1>4 DEF Safe, ClientThere, Leads, Down
<1>6. Attempts(s, ds)
  BY <1>2, <1>4 DEF Safe, Attempts, Asking
<1>7. Locks(s, ds, h \ {r.client})
  <2>1. \A m \in Slots : m = r.client => cs[m] \in {"open", "broken"}
    BY SlotFacts DEF Safe, ClientThere
  <2>2. \A m \in Slots : ds[m] # "open" /\ (ds[m] = "granted" => m \in h /\ m # r.client)
    BY <1>4, <2>1 DEF Safe, Locks
  <2>3. \A m \in Slots : m \in h => r.up /\ ds[m] \in {"granted", "closing"}
    BY <1>4 DEF Safe, Locks
  <2> QED
    BY <1>2, <2>2, <2>3 DEF Locks
<1>8. calm => Calm(s, ds, ts)
  <2> SUFFICES ASSUME calm PROVE Calm(s, ds, ts)
    OBVIOUS
  <2>1. \A c \in Chains : ts[c] = "off"
    BY DEF Safe, Calm, Leads, Ticks, ChainAt
  <2>2. /\ \A m \in Slots : ds[m] \notin {"broken", "failing"}
        /\ \A m, n \in Slots : ds[m] # "unused" /\ ds[n] # "unused" => m = n
        /\ s.retry => \A m \in Slots : ds[m] = "unused"
    BY <1>2, <1>4 DEF Safe, Calm
  <2> QED
    BY <2>1, <2>2 DEF Calm
<1> QED
  BY <1>1, <1>5, <1>6, <1>7, <1>8 DEF Safe, s, ds

\* A shutdown that has seen its connection closed keeps a process safe.
LEMMA ClosedSafe ==
    ASSUME NEW r \in Rec, NEW cs \in Conns, NEW ts \in Ticks, NEW h, NEW calm,
           Safe(r, cs, ts, h, calm), NEW s, s = [r EXCEPT !.closing = "closed"]
    PROVE  s \in Rec /\ Safe(s, cs, ts, h, calm)
<1>1. s \in Rec
  BY DEF Rec, Closing
<1>2. /\ s.up = r.up /\ s.stopped = r.stopped /\ s.leader = r.leader /\ s.client = r.client
      /\ s.closing # "cycle" /\ s.connecting = r.connecting /\ s.retry = r.retry
      /\ s.cycle = r.cycle /\ s.tickTimer = r.tickTimer
  BY DEF Rec
<1>3. ClientThere(s, cs) /\ Attempts(s, cs) /\ Leads(s) /\ Locks(s, cs, h) /\ Down(s, cs, ts)
  BY <1>2 DEF Safe, ClientThere, Attempts, Leads, Locks, Down
<1>4. calm => Calm(s, cs, ts)
  BY <1>2 DEF Safe, Calm
<1> QED
  BY <1>1, <1>3, <1>4 DEF Safe

\* A process that is gone, and one that has just started.
LEMMA StartFields ==
    /\ Fresh \in Rec /\ Fresh.up /\ Fresh.connecting /\ ~Fresh.leader /\ Fresh.client = None
    /\ ~Fresh.retry /\ Fresh.closing = "no"
    /\ Gone \in Rec /\ ~Gone.up /\ ~Gone.connecting /\ ~Gone.leader /\ Gone.client = None
    /\ ~Gone.retry /\ Gone.closing = "no"
  BY SlotFacts DEF Fresh, Gone, Rec, Closing

\* A process that is gone holds nothing, so it is safe.
LEMMA GoneSafe ==
    ASSUME NEW calm, NEW h, h = {}, NEW ds, ds = [k \in Slots |-> "unused"], NEW us, us = [c \in Chains |-> "off"]
    PROVE  ds \in Conns /\ us \in Ticks /\ Safe(Gone, ds, us, h, calm)
<1>1. ds \in Conns /\ us \in Ticks
  BY DEF Conns, ConnAt, Ticks, ChainAt
<1>2. ClientThere(Gone, ds) /\ Attempts(Gone, ds) /\ Leads(Gone) /\ Locks(Gone, ds, h) /\ Down(Gone, ds, us)
  BY StartFields DEF ClientThere, Attempts, Asking, Leads, Locks, Down
<1>3. Calm(Gone, ds, us)
  BY StartFields DEF Calm
<1> QED
  BY <1>1, <1>2, <1>3 DEF Safe

\* A process that starts holds nothing but its first connection, so it is safe.
LEMMA FreshSafe ==
    ASSUME NEW calm, NEW h, h \cap Slots = {}, NEW us \in Ticks, \A c \in Chains : us[c] = "off"
    PROVE  FirstConn \in Conns /\ Safe(Fresh, FirstConn, us, h, calm)
<1>1. FirstConn \in Conns /\ FirstConn[1] = "opening" /\ \A k \in Slots : k # 1 => FirstConn[k] = "unused"
  BY SlotFacts DEF FirstConn, Conns, ConnAt
<1>2. ClientThere(Fresh, FirstConn) /\ Leads(Fresh) /\ Down(Fresh, FirstConn, us)
  BY StartFields DEF ClientThere, Leads, Down
<1>3. Attempts(Fresh, FirstConn)
  BY <1>1, SlotFacts, StartFields DEF Attempts, Asking
<1>4. Locks(Fresh, FirstConn, h)
  BY <1>1 DEF Locks
<1>5. Calm(Fresh, FirstConn, us)
  BY <1>1, StartFields DEF Calm
<1> QED
  BY <1>1, <1>2, <1>3, <1>4, <1>5 DEF Safe

-----------------------------------------------------------------------------
(* All processes and the lock.                                             *)

Holds(p) == {k \in Slots : lock = <<p, k>>}

TypeInv ==
    /\ poller \in [Procs -> Rec] /\ conn \in [Procs -> Conns] /\ ticks \in [Procs -> Ticks]
    /\ runner \in [Procs -> [running : BOOLEAN, stopped : BOOLEAN]]
    /\ lock \in (Procs \X Slots) \cup {NoSession}
    /\ spent \in [breaks : Nat, signals : Nat, kills : Nat]
SafeIn(p) == Safe(poller[p], conn[p], ticks[p], Holds(p), spent.breaks = 0)
Inv == TypeInv /\ \A p \in Procs : SafeIn(p)

\* What a step of one process has to show.
LEMMA OneProcess ==
    ASSUME Inv, NEW p \in Procs, NEW r \in Rec, NEW cs \in Conns, NEW ts \in Ticks,
           poller' = [poller EXCEPT ![p] = r], conn' = [conn EXCEPT ![p] = cs],
           ticks' = [ticks EXCEPT ![p] = ts],
           runner' \in [Procs -> [running : BOOLEAN, stopped : BOOLEAN]],
           lock' \in (Procs \X Slots) \cup {NoSession},
           spent' \in [breaks : Nat, signals : Nat, kills : Nat],
           NEW calm, calm <=> (spent'.breaks = 0), calm => spent.breaks = 0,
           NEW h, h = Holds(p)', Safe(r, cs, ts, h, calm),
           \A q \in Procs : q # p => Holds(q)' = Holds(q)
    PROVE  Inv'
<1>1. TypeInv'
  BY DEF Inv, TypeInv
<1>2. ASSUME NEW q \in Procs, q # p PROVE SafeIn(q)'
  <2>1. /\ poller'[q] = poller[q] /\ conn'[q] = conn[q] /\ ticks'[q] = ticks[q] /\ Holds(q)' = Holds(q)
        /\ spent'.breaks = 0 => spent.breaks = 0
    BY <1>2 DEF Inv, TypeInv
  <2>2. SafeIn(q)
    BY DEF Inv
  <2> QED
    BY <2>1, <2>2 DEF SafeIn, Safe
<1>3. SafeIn(p)'
  <2>1. poller'[p] = r /\ conn'[p] = cs /\ ticks'[p] = ts
    BY DEF Inv, TypeInv
  <2> QED
    BY <2>1 DEF SafeIn, Safe
<1> QED
  BY <1>1, <1>2, <1>3 DEF Inv

\* The same where the lock and the counts stay.
LEMMA OneQuiet ==
    ASSUME Inv, NEW p \in Procs, NEW r \in Rec, NEW cs \in Conns, NEW ts \in Ticks,
           poller' = [poller EXCEPT ![p] = r], conn' = [conn EXCEPT ![p] = cs],
           ticks' = [ticks EXCEPT ![p] = ts],
           runner' \in [Procs -> [running : BOOLEAN, stopped : BOOLEAN]],
           UNCHANGED <<lock, spent>>,
           Safe(r, cs, ts, Holds(p), spent.breaks = 0)
    PROVE  Inv'
<1>1. /\ lock' \in (Procs \X Slots) \cup {NoSession} /\ spent' \in [breaks : Nat, signals : Nat, kills : Nat]
      /\ \A q \in Procs : Holds(q)' = Holds(q)
      /\ (spent'.breaks = 0) <=> (spent.breaks = 0)
  BY DEF Inv, TypeInv, Holds
<1>2. PICK h, calm : h = Holds(p) /\ calm = (spent.breaks = 0)
  OBVIOUS
<1>3. Safe(r, cs, ts, h, calm) /\ h = Holds(p)' /\ (calm <=> (spent'.breaks = 0)) /\ (calm => spent.breaks = 0)
  BY <1>1, <1>2
<1> QED
  BY <1>1, <1>3, OneProcess

\* A session that ends takes its own lock with it.
LEMMA SessionEnds ==
    ASSUME Inv, NEW p \in Procs, NEW k, lock' = WithoutSession(p, k)
    PROVE  /\ lock' \in (Procs \X Slots) \cup {NoSession}
           /\ Holds(p)' = Holds(p) \ {k}
           /\ \A q \in Procs : q # p => Holds(q)' = Holds(q)
<1>1. \A q \in Procs, m \in Slots : NoSession # <<q, m>>
  BY LeadershipAssumption DEF LeadershipAssumption, Slots
<1>2. lock' \in (Procs \X Slots) \cup {NoSession}
  BY DEF Inv, TypeInv, WithoutSession
<1>3. \A q \in Procs, m \in Slots : lock' = <<q, m>> <=> (lock = <<q, m>> /\ ~(q = p /\ m = k))
  BY <1>1 DEF WithoutSession
<1> QED
  BY <1>2, <1>3 DEF Holds

\* What happens to one connection, from its opening to its end, keeps the invariant.
LEMMA ConnStepSafe ==
    ASSUME Inv, NEW p \in Procs, NEW k \in Slots, ConnStep(p, k)
    PROVE  Inv'
<1> DEFINE r == poller[p]  cs == conn[p]  ts == ticks[p]
<1>1. /\ r \in Rec /\ cs \in Conns /\ ts \in Ticks /\ Safe(r, cs, ts, Holds(p), spent.breaks = 0)
      /\ poller = [poller EXCEPT ![p] = r] /\ conn = [conn EXCEPT ![p] = cs] /\ ticks = [ticks EXCEPT ![p] = ts]
  BY DEF Inv, TypeInv, SafeIn
<1>2. PICK calm, h : calm = (spent.breaks = 0) /\ h = Holds(p)
  OBVIOUS
<1>3. Safe(r, cs, ts, h, calm)
  BY <1>1, <1>2
<1>4. runner \in [Procs -> [running : BOOLEAN, stopped : BOOLEAN]] /\ spent \in [breaks : Nat, signals : Nat, kills : Nat]
  BY DEF Inv, TypeInv
<1> HIDE DEF r, cs, ts
<1>5. CASE TryLock(p, k)
  <2>1. cs[k] = "opening" /\ UNCHANGED <<poller, ticks, runner, spent>>
    BY <1>5 DEF TryLock, cs
  <2>2. CASE lock' = lock /\ SetConn(p, k, "denied")
    <3>1. conn' = [conn EXCEPT ![p] = [cs EXCEPT ![k] = "denied"]]
      BY <1>1, <2>2 DEF SetConn, cs, Inv, TypeInv, Conns
    <3>2. [cs EXCEPT ![k] = "denied"] \in Conns /\ Safe(r, [cs EXCEPT ![k] = "denied"], ts, Holds(p), spent.breaks = 0)
      BY <1>1, <2>1, AnswerSafe
    <3> QED
      BY <1>1, <1>4, <2>1, <2>2, <3>1, <3>2, OneQuiet
  <2>3. CASE LockIsFree /\ lock' = <<p, k>> /\ SetConn(p, k, "granted")
    <3>1. conn' = [conn EXCEPT ![p] = [cs EXCEPT ![k] = "granted"]]
      BY <1>1, <2>3 DEF SetConn, cs, Inv, TypeInv, Conns
    <3>2. h = {} /\ Holds(p)' = {k} /\ (\A q \in Procs : q # p => Holds(q)' = Holds(q))
      BY <1>2, <2>3, LeadershipAssumption DEF LockIsFree, Holds, LeadershipAssumption, Slots
    <3>3. [cs EXCEPT ![k] = "granted"] \in Conns /\ Safe(r, [cs EXCEPT ![k] = "granted"], ts, {k}, calm)
      BY <1>1, <1>3, <2>1, <3>2, AnswerSafe
    <3>4. PICK g : g = {k}
      OBVIOUS
    <3>5. PICK ds : ds = [cs EXCEPT ![k] = "granted"]
      OBVIOUS
    <3>6. /\ lock' \in (Procs \X Slots) \cup {NoSession} /\ spent' \in [breaks : Nat, signals : Nat, kills : Nat]
          /\ (calm <=> (spent'.breaks = 0)) /\ (calm => spent.breaks = 0)
      BY <1>2, <1>4, <2>1, <2>3
    <3>7. ds \in Conns /\ conn' = [conn EXCEPT ![p] = ds] /\ Safe(r, ds, ts, g, calm) /\ g = Holds(p)'
      BY <3>1, <3>2, <3>3, <3>4, <3>5
    <3>8. /\ runner' \in [Procs -> [running : BOOLEAN, stopped : BOOLEAN]]
          /\ poller' = [poller EXCEPT ![p] = r] /\ ticks' = [ticks EXCEPT ![p] = ts]
      BY <1>1, <1>4, <2>1
    <3> QED
      BY <1>1, <3>2, <3>6, <3>7, <3>8, OneProcess
  <2> QED
    BY <1>5, <2>2, <2>3 DEF TryLock
<1>6. CASE BecomeLeader(p, k)
  <2>1. PICK c \in Chains :
          /\ ticks' = IF r.stopped THEN ticks ELSE [ticks EXCEPT ![p][c] = "polling"]
          /\ poller' = [poller EXCEPT ![p] =
                [r EXCEPT !.leader = TRUE, !.connecting = FALSE, !.client = k,
                          !.cycle = IF r.stopped THEN None ELSE c]]
    BY <1>6 DEF BecomeLeader, r
  <2>2. PICK s, ds, us : s = Promoted(r, k, c) /\ ds = Opened(cs, k) /\ us = Begun(r, ts, c)
    OBVIOUS
  <2>3. cs[k] = "granted" /\ UNCHANGED <<lock, spent>>
    BY <1>6 DEF BecomeLeader, cs
  <2>4. s \in Rec /\ ds \in Conns /\ us \in Ticks /\ Safe(s, ds, us, h, calm)
    <3>1. r \in Rec /\ cs \in Conns /\ ts \in Ticks /\ cs[k] = "granted" /\ c \in Chains
      BY <1>1, <2>1, <2>3
    <3> QED
      BY <1>3, <2>2, <3>1, BecomeSafe
  <2>5. conn' = [conn EXCEPT ![p] = ds]
    BY <1>1, <1>6, <2>2 DEF BecomeLeader, SetConn, cs, Inv, TypeInv, Conns, Opened
  <2>6. poller' = [poller EXCEPT ![p] = s]
    BY <2>1, <2>2 DEF Promoted
  <2>7. ticks' = [ticks EXCEPT ![p] = us]
    BY <1>1, <2>1, <2>2 DEF ts, Inv, TypeInv, Ticks, Begun
  <2>8. runner' \in [Procs -> [running : BOOLEAN, stopped : BOOLEAN]]
    BY <1>4, <1>6 DEF BecomeLeader, StartRunner
  <2> QED
    BY <1>2, <2>3, <2>4, <2>5, <2>6, <2>7, <2>8, OneQuiet
<1>7. CASE GiveUpAttempt(p, k)
  <2>1. PICK s, ds : s = [r EXCEPT !.connecting = FALSE] /\ ds = [cs EXCEPT ![k] = "closing"]
    OBVIOUS
  <2>2. cs[k] \in {"denied", "failing"} /\ UNCHANGED <<ticks, runner, lock, spent>>
    BY <1>7 DEF GiveUpAttempt, cs
  <2>3. s \in Rec /\ ds \in Conns /\ Safe(s, ds, ts, h, calm)
    <3>1. r \in Rec /\ cs \in Conns /\ ts \in Ticks /\ cs[k] \in {"denied", "failing"}
      BY <1>1, <2>2
    <3> QED
      BY <1>3, <2>1, <3>1, GiveUpSafe
  <2>4. conn' = [conn EXCEPT ![p] = ds] /\ poller' = [poller EXCEPT ![p] = s]
    BY <1>1, <1>7, <2>1 DEF GiveUpAttempt, SetConn, cs, r, Inv, TypeInv, Conns
  <2> QED
    BY <1>1, <1>2, <1>4, <2>2, <2>3, <2>4, OneQuiet
\* Both ends of a leadership.
<1>8. ASSUME NEW at \in {"unused", "closing"}, LoseLeadership(p, k, at),
             (cs[k] = "closing" /\ at = "unused") \/ cs[k] = "broken",
             lock' = WithoutSession(p, k), UNCHANGED spent
      PROVE  Inv'
  <2>1. PICK s, ds, us :
          /\ s = LostPoller(r)
          /\ ds = [m \in Slots |-> IF m = k THEN at ELSE IF m = r.client THEN "closing" ELSE cs[m]]
          /\ us = [c \in Chains |-> IF c = r.tickTimer /\ ts[c] = "timer" THEN "off" ELSE ts[c]]
    OBVIOUS
  <2>2. s \in Rec /\ ds \in Conns /\ us \in Ticks /\ Safe(s, ds, us, h \ {k}, calm)
    <3>1. r \in Rec /\ cs \in Conns /\ ts \in Ticks
      BY <1>1
    <3>2. (cs[k] = "closing" /\ at = "unused") \/ cs[k] = "broken"
      BY <1>8
    <3> QED
      BY <1>3, <2>1, <3>1, <3>2, LostSafe, SMTT(60)
  <2>3. poller' = [poller EXCEPT ![p] = s] /\ conn' = [conn EXCEPT ![p] = ds]
    BY <1>8, <2>1 DEF LoseLeadership, LostConns, r, cs
  <2>4. ticks' = [ticks EXCEPT ![p] = us]
    BY <1>1, <1>8, <2>1 DEF LoseLeadership, r, ts, Inv, TypeInv
  <2>5. runner' \in [Procs -> [running : BOOLEAN, stopped : BOOLEAN]]
    BY <1>4, <1>8 DEF LoseLeadership, StoppedRunner, IdleRunner
  <2>6. PICK g : g = h \ {k}
    OBVIOUS
  <2>7. /\ lock' \in (Procs \X Slots) \cup {NoSession} /\ g = Holds(p)'
        /\ \A q \in Procs : q # p => Holds(q)' = Holds(q)
    BY <1>2, <1>8, <2>6, SessionEnds
  <2>8. spent' \in [breaks : Nat, signals : Nat, kills : Nat] /\ (calm <=> (spent'.breaks = 0)) /\ (calm => spent.breaks = 0)
    BY <1>2, <1>4, <1>8
  <2>9. Safe(s, ds, us, g, calm)
    BY <2>2, <2>6
  <2> QED
    BY <2>2, <2>3, <2>4, <2>5, <2>7, <2>8, <2>9, OneProcess
<1>9. CASE ConnectionEnds(p, k)
  BY <1>8, <1>9 DEF ConnectionEnds, cs
<1>10. CASE BreakNoticed(p, k)
  <2>1. cs[k] = "broken" /\ UNCHANGED <<lock, spent>>
    BY <1>10 DEF BreakNoticed, cs
  <2>2. k \notin Holds(p)
    BY <1>1, <2>1 DEF Safe, Locks
  <2>3. lock' = WithoutSession(p, k)
    BY <2>1, <2>2 DEF WithoutSession, Holds
  <2> QED
    BY <1>8, <1>10, <2>1, <2>3 DEF BreakNoticed
<1> QED
  BY <1>5, <1>6, <1>7, <1>9, <1>10 DEF ConnStep

\* The other steps of a process.
LEMMA OwnStepSafe ==
    ASSUME Inv, NEW p \in Procs,
           \/ RetryAcquire(p) \/ Signal(p) \/ ReleaseLock(p) \/ CloseAwaited(p) \/ (GoDown(p) /\ spent' = spent)
           \/ Kill(p) \/ Restart(p)
           \/ \E k \in Slots : ConnectionBreaks(p, k)
           \/ \E c \in Chains : TickStep(p, c)
    PROVE  Inv'
<1> DEFINE r == poller[p]  cs == conn[p]  ts == ticks[p]
<1>1. /\ r \in Rec /\ cs \in Conns /\ ts \in Ticks /\ Safe(r, cs, ts, Holds(p), spent.breaks = 0)
      /\ poller = [poller EXCEPT ![p] = r] /\ conn = [conn EXCEPT ![p] = cs] /\ ticks = [ticks EXCEPT ![p] = ts]
  BY DEF Inv, TypeInv, SafeIn
<1>2. PICK calm, h : calm = (spent.breaks = 0) /\ h = Holds(p)
  OBVIOUS
<1>3. Safe(r, cs, ts, h, calm)
  BY <1>1, <1>2
<1>4. runner \in [Procs -> [running : BOOLEAN, stopped : BOOLEAN]] /\ spent \in [breaks : Nat, signals : Nat, kills : Nat]
  BY DEF Inv, TypeInv
<1> HIDE DEF r, cs, ts
<1>5. CASE RetryAcquire(p)
  <2>1. r.retry /\ UNCHANGED <<ticks, runner, lock, spent>>
    BY <1>5 DEF RetryAcquire, r
  <2>2. CASE MayAsk(r)
    <3>1. PICK k \in Slots : cs[k] = "unused" /\ SetConn(p, k, "opening")
      BY <1>5, <2>2 DEF RetryAcquire, r, cs
    <3>2. /\ [r EXCEPT !.retry = FALSE, !.connecting = TRUE] \in Rec /\ [cs EXCEPT ![k] = "opening"] \in Conns
          /\ Safe([r EXCEPT !.retry = FALSE, !.connecting = TRUE], [cs EXCEPT ![k] = "opening"], ts, h, calm)
      BY <1>1, <1>3, <2>1, <2>2, <3>1, AskSafe
    <3>3. conn' = [conn EXCEPT ![p] = [cs EXCEPT ![k] = "opening"]]
      BY <1>1, <3>1 DEF SetConn, cs, Inv, TypeInv, Conns
    <3>4. [r EXCEPT !.retry = FALSE, !.connecting = r.connecting \/ MayAsk(r)] = [r EXCEPT !.retry = FALSE, !.connecting = TRUE]
      BY <2>2
    <3>5. poller' = [poller EXCEPT ![p] = [r EXCEPT !.retry = FALSE, !.connecting = TRUE]]
      BY <1>5, <3>4 DEF RetryAcquire, r
    <3> QED
      BY <1>1, <1>2, <1>4, <2>1, <3>2, <3>3, <3>5, OneQuiet
  <2>3. CASE ~MayAsk(r)
    <3>1. UNCHANGED conn /\ poller' = [poller EXCEPT ![p] = [r EXCEPT !.retry = FALSE, !.connecting = r.connecting \/ MayAsk(r)]]
      BY <1>5, <2>3 DEF RetryAcquire, r
    <3>2. [r EXCEPT !.retry = FALSE, !.connecting = r.connecting \/ MayAsk(r)] = [r EXCEPT !.retry = FALSE]
      BY <1>1, <2>3 DEF Rec
    <3>3. [r EXCEPT !.retry = FALSE] \in Rec /\ Safe([r EXCEPT !.retry = FALSE], cs, ts, h, calm)
      BY <1>1, <1>3, NoAskSafe
    <3>4. PICK s : s = [r EXCEPT !.retry = FALSE]
      OBVIOUS
    <3>5. s \in Rec /\ Safe(s, cs, ts, h, calm) /\ poller' = [poller EXCEPT ![p] = s]
      BY <3>1, <3>2, <3>3, <3>4
    <3>6. conn' = [conn EXCEPT ![p] = cs] /\ ticks' = [ticks EXCEPT ![p] = ts]
      BY <1>1, <2>1, <3>1
    <3> QED
      BY <1>1, <1>2, <1>4, <2>1, <3>5, <3>6, OneQuiet
  <2> QED
    BY <2>2, <2>3
<1>6. CASE Signal(p)
  <2>1. PICK s, us : s = Stopping(r) /\ us = Untimed(r, ts)
    OBVIOUS
  <2>2. r.up /\ UNCHANGED <<conn, runner, lock>> /\ spent' = [spent EXCEPT !["signals"] = @ + 1]
    BY <1>6 DEF Signal, Spend, r
  <2>3. s \in Rec /\ us \in Ticks /\ Safe(s, cs, us, h, calm)
    BY <1>1, <1>3, <2>1, <2>2, SignalSafe
  <2>4. poller' = [poller EXCEPT ![p] = s] /\ ticks' = [ticks EXCEPT ![p] = us]
    BY <1>1, <1>6, <2>1 DEF Signal, Stopping, Untimed, r, ts, Inv, TypeInv
  <2>5. /\ spent' \in [breaks : Nat, signals : Nat, kills : Nat] /\ spent'.breaks = spent.breaks
        /\ lock' \in (Procs \X Slots) \cup {NoSession} /\ \A q \in Procs : Holds(q)' = Holds(q)
    BY <1>4, <2>2 DEF Inv, TypeInv, Holds
  <2>6. /\ (calm <=> (spent'.breaks = 0)) /\ (calm => spent.breaks = 0)
        /\ h = Holds(p)'
        /\ runner' \in [Procs -> [running : BOOLEAN, stopped : BOOLEAN]]
        /\ conn' = [conn EXCEPT ![p] = cs]
    BY <1>1, <1>2, <1>4, <2>2, <2>5
  <2> QED
    BY <1>1, <2>3, <2>4, <2>5, <2>6, OneProcess
<1>7. CASE ReleaseLock(p)
  <2>1. PICK s, ds : s = LettingGo(r) /\ ds = WithoutClient(r, cs)
    OBVIOUS
  <2>2. /\ r.closing = "cycle" /\ \A c \in Chains : r.cycle = c => ts[c] # "polling"
        /\ UNCHANGED <<ticks, runner, spent>> /\ lock' = WithoutSession(p, r.client)
    BY <1>7 DEF ReleaseLock, CycleAwaited, r, ts
  <2>3. s \in Rec /\ ds \in Conns /\ Safe(s, ds, ts, h \ {r.client}, calm)
    BY <1>1, <1>3, <2>1, <2>2, ReleaseSafe
  <2>4. poller' = [poller EXCEPT ![p] = s] /\ conn' = [conn EXCEPT ![p] = ds]
    BY <1>1, <1>7, <2>1 DEF ReleaseLock, LettingGo, WithoutClient, r, cs, Inv, TypeInv
  <2>5. /\ lock' \in (Procs \X Slots) \cup {NoSession} /\ Holds(p)' = Holds(p) \ {r.client}
        /\ \A q \in Procs : q # p => Holds(q)' = Holds(q)
    BY <2>2, SessionEnds
  <2>6. PICK g : g = h \ {r.client}
    OBVIOUS
  <2>7. /\ g = Holds(p)' /\ Safe(s, ds, ts, g, calm)
        /\ spent' \in [breaks : Nat, signals : Nat, kills : Nat]
        /\ (calm <=> (spent'.breaks = 0)) /\ (calm => spent.breaks = 0)
        /\ runner' \in [Procs -> [running : BOOLEAN, stopped : BOOLEAN]] /\ ticks' = [ticks EXCEPT ![p] = ts]
    BY <1>1, <1>2, <1>4, <2>2, <2>3, <2>5, <2>6
  <2> QED
    BY <1>1, <2>3, <2>4, <2>5, <2>7, OneProcess
<1>8. CASE CloseAwaited(p)
  <2>1. PICK s : s = [r EXCEPT !.closing = "closed"]
    OBVIOUS
  <2>2. s \in Rec /\ Safe(s, cs, ts, h, calm)
    BY <1>1, <1>3, <2>1, ClosedSafe
  <2>3. poller' = [poller EXCEPT ![p] = s] /\ UNCHANGED <<conn, ticks, runner, lock, spent>>
    BY <1>1, <1>8, <2>1 DEF CloseAwaited, r, Inv, TypeInv
  <2> QED
    BY <1>1, <1>2, <1>4, <2>2, <2>3, OneQuiet
<1>9. ASSUME GoDown(p), spent' \in [breaks : Nat, signals : Nat, kills : Nat], spent'.breaks = spent.breaks
      PROVE  Inv'
  <2>1. PICK ds, us, g : ds = [k \in Slots |-> "unused"] /\ us = [c \in Chains |-> "off"] /\ g = {}
    OBVIOUS
  <2>2. ds \in Conns /\ us \in Ticks /\ Safe(Gone, ds, us, g, calm)
    BY <2>1, GoneSafe
  <2>3. poller' = [poller EXCEPT ![p] = Gone] /\ conn' = [conn EXCEPT ![p] = ds] /\ ticks' = [ticks EXCEPT ![p] = us]
    BY <1>9, <2>1 DEF GoDown
  <2>4. /\ lock' \in (Procs \X Slots) \cup {NoSession} /\ g = Holds(p)'
        /\ \A q \in Procs : q # p => Holds(q)' = Holds(q)
    <3>1. \A q \in Procs, m \in Slots : NoSession # <<q, m>>
      BY LeadershipAssumption DEF LeadershipAssumption, Slots
    <3>2. lock \in (Procs \X Slots) \cup {NoSession}
      BY DEF Inv, TypeInv
    <3>3. lock' = IF lock \in {p} \X Slots THEN NoSession ELSE lock
      BY <1>9 DEF GoDown
    <3> QED
      BY <2>1, <3>1, <3>2, <3>3 DEF Holds
  <2>5. /\ runner' \in [Procs -> [running : BOOLEAN, stopped : BOOLEAN]]
        /\ (calm <=> (spent'.breaks = 0)) /\ (calm => spent.breaks = 0) /\ Gone \in Rec
    BY <1>2, <1>4, <1>9, StartFields DEF GoDown, IdleRunner
  <2> QED
    BY <1>9, <2>2, <2>3, <2>4, <2>5, OneProcess
<1>10. CASE Kill(p)
  <2>1. GoDown(p) /\ spent' = [spent EXCEPT !["kills"] = @ + 1]
    BY <1>10 DEF Kill, Spend
  <2> QED
    BY <1>4, <1>9, <2>1
<1>11. CASE Restart(p)
  <2>1. poller' = [poller EXCEPT ![p] = Fresh] /\ conn' = [conn EXCEPT ![p] = FirstConn] /\ UNCHANGED <<ticks, runner, lock, spent>>
    BY <1>11 DEF Restart
  <2>2. h \cap Slots = {} /\ \A c \in Chains : ts[c] = "off"
    <3>1. ~r.up
      BY <1>11 DEF Restart, r
    <3> QED
      BY <1>3, <3>1 DEF Safe, Locks, Down
  <2>3. FirstConn \in Conns /\ Safe(Fresh, FirstConn, ts, h, calm)
    BY <1>1, <2>2, FreshSafe
  <2> QED
    BY <1>1, <1>2, <1>4, <2>1, <2>3, StartFields, OneQuiet
<1>12. ASSUME NEW k \in Slots, ConnectionBreaks(p, k) PROVE Inv'
  <2>1. PICK ds, g : ds = [cs EXCEPT ![k] = IF cs[k] = "open" THEN "broken" ELSE "failing"] /\ g = h \ {k}
    OBVIOUS
  <2>2. /\ cs[k] \in {"opening", "granted", "open"} /\ UNCHANGED <<poller, ticks, runner>>
        /\ lock' = WithoutSession(p, k) /\ spent' = [spent EXCEPT !["breaks"] = @ + 1]
    BY <1>12 DEF ConnectionBreaks, Spend, cs
  <2>3. ds \in Conns /\ Safe(r, ds, ts, g, FALSE)
    BY <1>1, <1>3, <2>1, <2>2, BreakSafe
  <2>4. conn' = [conn EXCEPT ![p] = ds]
    BY <1>1, <1>12, <2>1 DEF ConnectionBreaks, SetConn, cs, Inv, TypeInv, Conns
  <2>5. /\ lock' \in (Procs \X Slots) \cup {NoSession} /\ g = Holds(p)'
        /\ \A q \in Procs : q # p => Holds(q)' = Holds(q)
    BY <1>2, <2>1, <2>2, SessionEnds
  <2>6. spent' \in [breaks : Nat, signals : Nat, kills : Nat] /\ spent'.breaks # 0
    BY <1>4, <2>2
  <2>7. PICK never : never = FALSE
    OBVIOUS
  <2>8. /\ (never <=> (spent'.breaks = 0)) /\ (never => spent.breaks = 0) /\ Safe(r, ds, ts, g, never)
        /\ runner' \in [Procs -> [running : BOOLEAN, stopped : BOOLEAN]]
        /\ poller' = [poller EXCEPT ![p] = r] /\ ticks' = [ticks EXCEPT ![p] = ts]
    BY <1>1, <1>4, <2>2, <2>3, <2>6, <2>7
  <2> QED
    BY <1>1, <2>3, <2>4, <2>5, <2>6, <2>8, OneProcess
<1>13. ASSUME NEW c \in Chains, CycleEnds(p, c) PROVE Inv'
  <2>1. PICK s, us : s = Timed(r, c) /\ us = TimedChain(r, ts, c)
    OBVIOUS
  <2>2. ts[c] = "polling" /\ UNCHANGED <<conn, runner, lock, spent>>
    BY <1>13 DEF CycleEnds, ts
  <2>3. s \in Rec /\ us \in Ticks /\ Safe(s, cs, us, h, calm)
    BY <1>1, <1>3, <2>1, <2>2, CycleSafe
  <2>4. poller' = [poller EXCEPT ![p] = s]
    BY <1>1, <1>13, <2>1 DEF CycleEnds, Timed, r, Inv, TypeInv
  <2>5. ticks' = [ticks EXCEPT ![p] = us]
    BY <1>1, <1>13, <2>1 DEF CycleEnds, TimedChain, r, ts, Inv, TypeInv, Ticks
  <2> QED
    BY <1>1, <1>2, <1>4, <2>2, <2>3, <2>4, <2>5, OneQuiet
<1>14. ASSUME NEW c \in Chains, TimerFires(p, c) PROVE Inv'
  <2>1. PICK s, us : s = Fired(r, c) /\ us = FiredChain(r, ts, c)
    OBVIOUS
  <2>2. ts[c] = "timer" /\ UNCHANGED <<conn, runner, lock, spent>>
    BY <1>14 DEF TimerFires, ts
  <2>3. s \in Rec /\ us \in Ticks /\ Safe(s, cs, us, h, calm)
    BY <1>1, <1>3, <2>1, <2>2, TimerSafe
  <2>4. poller' = [poller EXCEPT ![p] = s]
    BY <1>1, <1>14, <2>1 DEF TimerFires, Fired, r, Inv, TypeInv
  <2>5. ticks' = [ticks EXCEPT ![p] = us]
    BY <1>1, <1>14, <2>1 DEF TimerFires, FiredChain, r, ts, Inv, TypeInv, Ticks
  <2> QED
    BY <1>1, <1>2, <1>4, <2>2, <2>3, <2>4, <2>5, OneQuiet
<1>15. CASE GoDown(p) /\ spent' = spent
  BY <1>4, <1>9, <1>15
<1> QED
  BY <1>5, <1>6, <1>7, <1>8, <1>10, <1>11, <1>12, <1>13, <1>14, <1>15 DEF TickStep

\* Processes that have not started are safe and hold no lock.
LEMMA InvInit == LInit => Inv
<1> SUFFICES ASSUME LInit PROVE Inv
  OBVIOUS
<1> DEFINE us == [c \in Chains |-> "off"]
<1>1. us \in Ticks /\ \A c \in Chains : us[c] = "off"
  BY DEF Ticks, ChainAt
<1>2. PICK calm, h : calm = (spent.breaks = 0) /\ h = {}
  OBVIOUS
<1>3. FirstConn \in Conns /\ Safe(Fresh, FirstConn, us, h, calm)
  BY <1>1, <1>2, FreshSafe
<1>4. \A p \in Procs : poller[p] = Fresh /\ conn[p] = FirstConn /\ ticks[p] = us /\ Holds(p) = {}
  BY LeadershipAssumption DEF LInit, Holds, LeadershipAssumption, Slots
<1>5. TypeInv
  BY <1>1, <1>3, StartFields DEF LInit, TypeInv, IdleRunner
<1> HIDE DEF us
<1>6. \A p \in Procs : SafeIn(p)
  BY <1>2, <1>3, <1>4 DEF SafeIn
<1> QED
  BY <1>5, <1>6 DEF Inv

\* Every step is a process's or a connection's, and each keeps the invariant.
LEMMA InvStep == Inv /\ [LNext]_lvars => Inv'
<1> SUFFICES ASSUME Inv, [LNext]_lvars PROVE Inv'
  OBVIOUS
<1>1. ASSUME NEW p \in Procs, ProcStep(p) PROVE Inv'
  <2>1. CASE \E k \in Slots : ConnStep(p, k)
    BY <2>1, ConnStepSafe
  <2>2. CASE Exit(p)
    BY <2>2, OwnStepSafe DEF Exit
  <2> QED
    BY <1>1, <2>1, <2>2, OwnStepSafe DEF ProcStep, ShutdownStep
<1>2. CASE UNCHANGED lvars
  <2>1. UNCHANGED <<poller, conn, ticks, runner, lock, spent>>
    BY <1>2 DEF lvars
  <2>2. TypeInv'
    BY <2>1 DEF Inv, TypeInv
  <2>3. \A p \in Procs : SafeIn(p)'
    BY <2>1 DEF Inv, SafeIn, Safe, Holds
  <2> QED
    BY <2>2, <2>3 DEF Inv
<1> QED
  BY <1>1, <1>2 DEF LNext

\* Every process is safe, and the lock has one holder, in every reachable state.
LEMMA Invariant == LSpec => []Inv
  BY InvInit, InvStep, PTL DEF LSpec

-----------------------------------------------------------------------------
(* What follows.                                                           *)

\* Every variable keeps its type, and the client a poller remembers is a connection
\* it opened and has not seen the end of.
THEOREM LeadershipTypes == LSpec => []LTypeOK
<1>1. Inv => LTypeOK
  <2> SUFFICES ASSUME Inv PROVE LTypeOK
    OBVIOUS
  <2>1. \A p \in Procs : poller[p].client # None => conn[p][poller[p].client] \in {"open", "broken"}
    BY DEF Inv, SafeIn, Safe, ClientThere
  <2> QED
    BY <2>1 DEF Inv, TypeInv, LTypeOK, Rec, Conns, Ticks
<1> QED
  BY <1>1, Invariant, PTL

\* The lock is never left with a session nobody will close, and a process that leads
\* over a standing connection holds it, whatever breaks, is stopped or dies.
THEOREM LockIsTheLeaders == LSpec => []LockFollowsLeader
<1>1. Inv => LockFollowsLeader
  <2> SUFFICES ASSUME Inv PROVE LockFollowsLeader
    OBVIOUS
  <2>1. ASSUME NEW p \in Procs, NEW k \in Slots, lock = <<p, k>>
        PROVE  /\ poller[p].up
               /\ \/ conn[p][k] \in {"granted", "closing"}
                  \/ conn[p][k] = "open" /\ poller[p].client = k
    <3>1. k \in Holds(p)
      BY <2>1 DEF Holds
    <3> QED
      BY <3>1 DEF Inv, SafeIn, Safe, Locks
  <2>2. ASSUME NEW p \in Procs, poller[p].client # None, conn[p][poller[p].client] = "open"
        PROVE  lock = <<p, poller[p].client>>
    <3>1. poller[p].client \in Slots
      BY <2>2 DEF Inv, TypeInv, Rec, Slots, None
    <3>2. poller[p].client \in Holds(p)
      BY <2>2, <3>1 DEF Inv, SafeIn, Safe, Locks
    <3> QED
      BY <3>2 DEF Holds
  <2> QED
    BY <2>1, <2>2 DEF LockFollowsLeader
<1> QED
  BY <1>1, Invariant, PTL

\* A process asks for the lock over one connection at a time, exactly while it says
\* so, however the events of old connections mix with the attempt.
THEOREM AttemptsAreSingle == LSpec => []OneAttempt
<1>1. Inv => OneAttempt
  <2> SUFFICES ASSUME Inv, NEW p \in Procs
               PROVE  Cardinality({k \in Slots : conn[p][k] \in Asking}) = IF poller[p].connecting THEN 1 ELSE 0
    BY DEF OneAttempt, Asking
  <2>1. Attempts(poller[p], conn[p])
    BY DEF Inv, SafeIn, Safe
  <2>2. CASE poller[p].connecting
    <3>1. PICK k \in Slots : conn[p][k] \in Asking
      BY <2>1, <2>2 DEF Attempts
    <3>2. {m \in Slots : conn[p][m] \in Asking} = {k}
      BY <2>1, <3>1 DEF Attempts
    <3> QED
      BY <2>2, <3>2, FS_Singleton
  <2>3. CASE ~poller[p].connecting
    <3>1. {m \in Slots : conn[p][m] \in Asking} = {}
      BY <2>1, <2>3 DEF Attempts
    <3> QED
      BY <2>3, <3>1, FS_EmptySet
  <2> QED
    BY <2>2, <2>3
<1> QED
  BY <1>1, Invariant, PTL

\* While no connection breaks, all processes together run at most one poll cycle, with
\* any number of them stopped, killed and started again.
THEOREM PollsDoNotMeet == LSpec => []OnePoller
<1>1. Inv => OnePoller
  <2> DEFINE S == {pc \in Procs \X Chains : ticks[pc[1]][pc[2]] = "polling"}
  <2> SUFFICES ASSUME Inv, spent.breaks = 0 PROVE Cardinality(S) <= 1
    BY DEF OnePoller
  <2>1. ASSUME NEW p \in Procs, NEW c \in Chains, ticks[p][c] = "polling"
        PROVE  lock = <<p, poller[p].client>>
    <3>1. poller[p].client \in Slots /\ conn[p][poller[p].client] \in {"open", "broken"}
      <4>1. poller[p].client # None /\ poller[p] \in Rec
        BY <2>1 DEF Inv, TypeInv, SafeIn, Safe, Calm
      <4> QED
        BY <4>1 DEF Inv, SafeIn, Safe, ClientThere, Rec, Slots, None
    <3>2. conn[p][poller[p].client] = "open"
      BY <3>1 DEF Inv, SafeIn, Safe, Calm
    <3>3. poller[p].client \in Holds(p)
      BY <3>1, <3>2 DEF Inv, SafeIn, Safe, Locks
    <3> QED
      BY <3>3 DEF Holds
  <2>2. ASSUME NEW p \in Procs, NEW c \in Chains, NEW d \in Chains,
               ticks[p][c] = "polling", ticks[p][d] = "polling"
        PROVE  c = d
    BY <2>2 DEF Inv, SafeIn, Safe, Calm
  <2>3. ASSUME NEW x \in S, NEW y \in S PROVE x = y
    <3>1. x[1] = y[1]
      BY <2>1
    <3>2. x[2] = y[2]
      BY <2>2, <3>1
    <3> QED
      BY <3>1, <3>2
  <2> HIDE DEF S
  <2>4. S = {} \/ \E x : S = {x}
    <3>1. CASE S = {}
      BY <3>1
    <3>2. CASE S # {}
      <4>1. PICK x \in S : TRUE
        BY <3>2
      <4>2. S = {x}
        BY <4>1, <2>3
      <4> QED
        BY <4>2
    <3> QED
      BY <3>1, <3>2
  <2> QED
    BY <2>4, FS_EmptySet, FS_Singleton
<1> QED
  BY <1>1, Invariant, PTL


-----------------------------------------------------------------------------
(* The job queue as the elected leader drives it (LeaderJobs).             *)

\* A step of the whole is a step of the elections or leaves them alone: what is proved
\* of LSpec holds of the composed system.
THEOREM ElectionsGoOn == CSpec => LSpec
<1>1. CInit => LInit
  BY DEF CInit
<1>2. [CNext]_allVars => [LNext]_lvars
  <2>1. ASSUME CNext PROVE LNext \/ UNCHANGED lvars
    BY <2>1 DEF CNext, JobStep, DrainChain, DrainTimer, DrainEnds, PollerStep, LNext
  <2>2. ASSUME UNCHANGED allVars PROVE UNCHANGED lvars
    BY <2>2 DEF allVars
  <2> QED
    BY <2>1, <2>2
<1> QED
  BY <1>1, <1>2, PTL DEF CSpec, LSpec

\* What a process's step does to the runners: its own is never both running and stopped,
\* and is not running once the process is down; the others stay.
LEMMA RunnerMoves ==
    ASSUME TypeInv, NEW p \in Procs, ProcStep(p), runner[p].running => ~runner[p].stopped
    PROVE  /\ \A q \in Procs : q # p => runner'[q] = runner[q]
           /\ runner'[p].running => ~runner'[p].stopped
           /\ GoesDown(p) => ~runner'[p].running
<1>1. /\ runner \in [Procs -> [running : BOOLEAN, stopped : BOOLEAN]]
      /\ poller \in [Procs -> Rec] /\ poller[p] \in Rec
  BY DEF TypeInv
<1>2. CASE GoDown(p)
  BY <1>1, <1>2 DEF GoDown, IdleRunner
<1>3. ASSUME UNCHANGED runner, ~GoesDown(p)
      PROVE  /\ \A q \in Procs : q # p => runner'[q] = runner[q]
             /\ runner'[p].running => ~runner'[p].stopped
             /\ GoesDown(p) => ~runner'[p].running
  BY <1>3
<1>4. CASE RetryAcquire(p) \/ Signal(p) \/ ReleaseLock(p) \/ CloseAwaited(p) \/ Restart(p)
  <2>1. UNCHANGED runner
    BY <1>4 DEF RetryAcquire, Signal, ReleaseLock, CloseAwaited, Restart
  <2>2. ~GoesDown(p)
    <3>1. CASE RetryAcquire(p)
      BY <1>1, <3>1 DEF GoesDown, RetryAcquire, Rec
    <3>2. CASE Signal(p)
      BY <1>1, <3>2 DEF GoesDown, Signal, Rec
    <3>3. CASE ReleaseLock(p)
      BY <1>1, <3>3 DEF GoesDown, ReleaseLock, Rec
    <3>4. CASE CloseAwaited(p) \/ Restart(p)
      BY <1>1, <3>4 DEF GoesDown, CloseAwaited, Restart, Rec
    <3> QED
      BY <1>4, <3>1, <3>2, <3>3, <3>4
  <2> QED
    BY <1>3, <2>1, <2>2
<1>5. CASE \E c \in Chains : TickStep(p, c)
  <2>1. UNCHANGED runner
    BY <1>5 DEF TickStep, CycleEnds, TimerFires
  <2>2. ~GoesDown(p)
    <3>1. PICK c \in Chains : TickStep(p, c)
      BY <1>5
    <3>2. CASE CycleEnds(p, c)
      BY <1>1, <3>2 DEF GoesDown, CycleEnds, Rec
    <3>3. CASE TimerFires(p, c)
      BY <1>1, <3>3 DEF GoesDown, TimerFires, Rec
    <3> QED
      BY <3>1, <3>2, <3>3 DEF TickStep
  <2> QED
    BY <1>3, <2>1, <2>2
<1>6. ASSUME NEW k \in Slots, ConnectionBreaks(p, k) \/ TryLock(p, k) \/ GiveUpAttempt(p, k)
      PROVE  UNCHANGED runner /\ ~GoesDown(p)
  BY <1>1, <1>6 DEF GoesDown, ConnectionBreaks, TryLock, GiveUpAttempt, Rec
<1>7. ASSUME NEW k \in Slots, BecomeLeader(p, k)
      PROVE  /\ \A q \in Procs : q # p => runner'[q] = runner[q]
             /\ runner'[p].running => ~runner'[p].stopped
             /\ GoesDown(p) => ~runner'[p].running
  <2>1. ~GoesDown(p)
    <3>1. PICK c \in Chains :
            /\ ticks' = IF poller[p].stopped THEN ticks ELSE [ticks EXCEPT ![p][c] = "polling"]
            /\ poller' = [poller EXCEPT ![p] =
                  [poller[p] EXCEPT !.leader = TRUE, !.connecting = FALSE, !.client = k,
                                    !.cycle = IF poller[p].stopped THEN None ELSE c]]
      BY <1>7, Zenon DEF BecomeLeader
    <3> DEFINE r == Promoted(poller[p], k, c)
    <3>2. r.up = poller[p].up
      BY <1>1 DEF Promoted, Rec
    <3>4. poller' = [poller EXCEPT ![p] = r]
      BY <3>1 DEF Promoted
    <3> HIDE DEF r
    <3>3. poller'[p] = r
      BY <1>1, <3>4
    <3> QED
      BY <3>2, <3>3 DEF GoesDown
  <2>2. /\ \A q \in Procs : q # p => runner'[q] = runner[q]
        /\ runner'[p].running => ~runner'[p].stopped
    BY <1>1, <1>7 DEF BecomeLeader, StartRunner
  <2> QED
    BY <2>1, <2>2
<1>8. ASSUME NEW k \in Slots, NEW at, LoseLeadership(p, k, at)
      PROVE  /\ \A q \in Procs : q # p => runner'[q] = runner[q]
             /\ runner'[p].running => ~runner'[p].stopped
             /\ GoesDown(p) => ~runner'[p].running
  <2>1. ~GoesDown(p)
    <3>1. LostPoller(poller[p]).up = poller[p].up
      BY <1>1 DEF LostPoller, ScheduleAcquire, Rec
    <3>2. poller'[p] = LostPoller(poller[p])
      BY <1>1, <1>8 DEF LoseLeadership
    <3> QED
      BY <3>1, <3>2 DEF GoesDown
  <2>2. /\ \A q \in Procs : q # p => runner'[q] = runner[q]
        /\ runner'[p].running => ~runner'[p].stopped
    BY <1>1, <1>8 DEF LoseLeadership, StoppedRunner, IdleRunner
  <2> QED
    BY <2>1, <2>2
<1>9. ASSUME NEW k \in Slots, ConnStep(p, k) \/ ConnectionBreaks(p, k)
      PROVE  /\ \A q \in Procs : q # p => runner'[q] = runner[q]
             /\ runner'[p].running => ~runner'[p].stopped
             /\ GoesDown(p) => ~runner'[p].running
  <2>1. CASE ConnectionBreaks(p, k) \/ TryLock(p, k) \/ GiveUpAttempt(p, k)
    BY <1>3, <1>6, <2>1
  <2>2. CASE BecomeLeader(p, k)
    BY <1>7, <2>2
  <2>3. CASE ConnectionEnds(p, k) \/ BreakNoticed(p, k)
    <3>1. \E at : LoseLeadership(p, k, at)
      BY <2>3 DEF ConnectionEnds, BreakNoticed
    <3> QED
      BY <1>8, <3>1
  <2> QED
    BY <1>9, <2>1, <2>2, <2>3 DEF ConnStep
<1> QED
  BY <1>2, <1>4, <1>5, <1>9 DEF ProcStep, ShutdownStep, Exit, Kill

\* The chains of a running runner: one looks for jobs, or a timer will make it look.
Draining(p) ==
    \E t \in ThreadsOf(p) : thread[t].at # "off" /\ (thread[t].at = "idle" => t \in armed)

\* The queue is sound, the elections are, a runner that runs is not stopped and has a
\* chain, and the timer a runner remembers is one of its own chains'.
DrivenInv ==
    /\ QueueInv /\ Inv
    /\ \A p \in Procs : /\ runner[p].running => ~runner[p].stopped /\ Draining(p)
                        /\ drainTimer[p] \in ThreadsOf(p) \cup {NoThread}
    /\ drainTimer \in [Procs -> Threads \cup {NoThread}]

\* Each chain lives in one process.
LEMMA ChainsLive ==
    /\ \A t \in Threads : t[1] \in Procs /\ t \in ThreadsOf(t[1])
    /\ \A p, q \in Procs : p # q => \A t \in ThreadsOf(p) : t \notin ThreadsOf(q)
    /\ \A p \in Procs : ThreadsOf(p) \in SUBSET Threads
BY LeaderJobsAssumption DEF ThreadsOf

\* The poller's steps, seen from the queue: a chain starts, all chains of a process die,
\* or nothing happens.
LEMMA QueueUnderPoller ==
    ASSUME QueueInv, NEW p \in Procs, PollerStep(p)
    PROVE  QueueInv' /\ UNCHANGED did
<1>1. ThreadsOf(p) \in SUBSET Threads
  BY ChainsLive
<1>2. CASE StartsChain(p)
  <2>1. PICK t \in Threads : StartThread(t)
    BY <1>1, <1>2 DEF StartsChain
  <2>2. [Next]_vars
    BY <2>1 DEF Next
  <2> QED
    BY <2>1, <2>2, QueueStep, OthersTouchNothing
<1>3. CASE StopsChains(p) \/ LeavesChains(p)
  <2>1. UNCHANGED vars
    BY <1>3 DEF StopsChains, LeavesChains
  <2> QED
    BY <2>1, QueueStep DEF vars, history
<1>4. CASE KillsChains(p)
  <2>1. ThreadsDie(ThreadsOf(p)) /\ UNCHANGED faults
    BY <1>4 DEF KillsChains
  <2>2. FaultsTyped'
    BY <2>1 DEF QueueInv, OrderInv, TypeOK, FaultsTyped
  <2> QED
    BY <1>1, <2>1, <2>2, DeathKeepsQueue, OthersTouchNothing
<1> QED
  BY <1>2, <1>3, <1>4 DEF PollerStep

\* Any other step is one of the queue itself.
LEMMA QueueElsewhere ==
    ASSUME JobStep \/ \E t \in Threads : DrainChain(t) \/ DrainTimer(t) \/ DrainEnds(t)
    PROVE  Next
<1>1. ASSUME NEW t \in Threads, DrainChain(t) \/ DrainTimer(t) \/ DrainEnds(t)
      PROVE  ThreadStep(t) \/ ThreadDbFails(t) \/ StopThread(t)
  BY <1>1 DEF DrainChain, DrainTimer, DrainEnds, ThreadStep, DrainStep
<1>2. CASE JobStep
  BY <1>2 DEF JobStep, Next, Work, Fault
<1> QED
  BY <1>1, <1>2 DEF Next, Work, Fault

\* The runners of a step of the whole: only the stepping process's flags change.
LEMMA RunnersKept ==
    ASSUME JobStep \/ \E t \in Threads : DrainChain(t) \/ DrainTimer(t) \/ DrainEnds(t)
    PROVE  UNCHANGED lvars
BY DEF JobStep, DrainChain, DrainTimer, DrainEnds

\* A chain of another process is not touched by a step of chain t, and t itself only
\* stops being one that drains when its runner is stopped.
ChainMoves(t) ==
    /\ \A u \in Threads \ {t} : thread'[u] = thread[u] /\ (u \in armed => u \in armed')
    /\ ~Stopped(t) => \/ thread'[t].at \notin {"off", "idle"}
                      \/ thread'[t].at = "idle" /\ t \in armed'
                      \/ thread[t].at = "idle" /\ t \notin armed
    /\ drainTimer' = drainTimer \/ drainTimer' = [drainTimer EXCEPT ![t[1]] = t]

\* The steps of drain() move a chain from job to timer to job, or end it.
LEMMA DrainMoves ==
    ASSUME TypeOK, NEW t \in Threads, DrainChain(t) \/ DrainTimer(t) \/ DrainEnds(t)
    PROVE  ChainMoves(t)
<1>1. thread \in [Threads -> [at : ThreadAt, job : SUBSET Jobs]]
  BY DEF TypeOK, ThreadsTyped
<1>2. ASSUME NEW at, NEW jobs, Move(t, at, jobs)
      PROVE  thread'[t].at = at /\ \A u \in Threads \ {t} : thread'[u] = thread[u]
  BY <1>1, <1>2 DEF Move
<1>3. CASE DrainChain(t)
  <2>1. /\ thread'[t].at # "off"
        /\ \A u \in Threads \ {t} : thread'[u] = thread[u]
    <3>1. CASE ReapStep(t)
      <4>1. \E at \in {"ready", "reapItems", "reapSkip", "reapJobs"}, jobs \in {{}, Stuck, thread[t].job} : Move(t, at, jobs)
        BY <3>1 DEF ReapStep, ReapFind, ReapItems, ReapSkip, ReapJobs
      <4> QED
        BY <1>2, <4>1
    <3>2. CASE ClaimJob(t)
      <4>1. \E at \in {"running", "idle"}, jobs \in SUBSET Jobs : Move(t, at, jobs)
        <5>1. thread[t].job \in SUBSET Jobs
          BY <1>1
        <5> QED
          BY <3>2, <5>1 DEF ClaimJob
      <4> QED
        BY <1>2, <4>1
    <3>3. CASE RunReturns(t)
      <4>1. \E at \in {"ready", "idle"} : Move(t, at, {})
        BY <3>3 DEF RunReturns
      <4> QED
        BY <1>2, <4>1
    <3>4. CASE FindJob(t)
      <4>1. \E n \in DOMAIN created : Move(t, "found", {created[n]})
        BY <3>4 DEF FindJob
      <4> QED
        BY <1>2, <4>1
    <3>5. CASE FindNothing(t)
      BY <1>2, <3>5 DEF FindNothing
    <3>6. CASE ThreadDbFails(t)
      <4>1. \E at \in {"ready", "idle"} : Move(t, at, {})
        BY <3>6 DEF ThreadDbFails
      <4> QED
        BY <1>2, <4>1
    <3> QED
      BY <1>3, <3>1, <3>2, <3>3, <3>4, <3>5, <3>6 DEF DrainChain
  <2>2. ArmTimer(t)
    BY <1>3 DEF DrainChain
  <2>3. \A u \in Threads : u \in armed => u \in armed'
    BY <2>2 DEF ArmTimer, timers
  <2>4. ~Stopped(t) /\ thread'[t].at = "idle" => t \in armed'
    BY <2>2 DEF ArmTimer
  <2>5. drainTimer' = drainTimer \/ drainTimer' = [drainTimer EXCEPT ![t[1]] = t]
    BY <2>2 DEF ArmTimer, timers
  <2> QED
    BY <2>1, <2>3, <2>4, <2>5 DEF ChainMoves
<1>4. CASE DrainTimer(t)
  <2>1. /\ \A u \in Threads \ {t} : thread'[u] = thread[u]
        /\ ~Stopped(t) => thread'[t].at = "ready"
    BY <1>2, <1>4 DEF DrainTimer, Wake, StopThread
  <2> QED
    BY <1>4, <2>1 DEF DrainTimer, ChainMoves
<1>5. CASE DrainEnds(t)
  <2>1. \A u \in Threads \ {t} : thread'[u] = thread[u]
    BY <1>2, <1>5 DEF DrainEnds, StopThread
  <2>2. Stopped(t) \/ (thread[t].at = "idle" /\ t \notin armed)
    BY <1>5 DEF DrainEnds
  <2>3. UNCHANGED <<armed, drainTimer>>
    BY <1>5 DEF DrainEnds, timers
  <2> QED
    BY <2>1, <2>2, <2>3 DEF ChainMoves
<1> QED
  BY <1>3, <1>4, <1>5

\* The composed system starts with nothing drained and no timer remembered.
LEMMA DrivenInit == CInit => DrivenInv
<1> SUFFICES ASSUME CInit PROVE DrivenInv
  OBVIOUS
<1>1. QueueInv /\ Inv
  BY QueueInit, InvInit DEF CInit
<1>2. \A p \in Procs : runner[p] = IdleRunner
  BY DEF CInit, LInit
<1>3. \A p \in Procs : ~runner[p].running
  BY <1>2 DEF IdleRunner
<1> QED
  BY <1>1, <1>3 DEF CInit, DrivenInv

\* A chain's step leaves every running runner with a chain that drains.
LEMMA DrainStepDrives ==
    ASSUME DrivenInv, NEW t \in Threads, DrainChain(t) \/ DrainTimer(t) \/ DrainEnds(t),
           QueueInv', Inv'
    PROVE  DrivenInv'
<1>1. ChainMoves(t) /\ UNCHANGED runner
  BY DrainMoves, RunnersKept DEF DrivenInv, QueueInv, OrderInv, lvars
<1>2. ASSUME NEW p \in Procs, runner[p].running PROVE Draining(p)'
  <2>1. PICK u \in ThreadsOf(p) : thread[u].at # "off" /\ (thread[u].at = "idle" => u \in armed)
    BY <1>2 DEF DrivenInv, Draining
  <2>2. u \in Threads /\ u[1] = p /\ ~Stopped(u)
    BY <1>2, <2>1 DEF DrivenInv, ThreadsOf, Stopped
  <2>3. thread'[u].at # "off" /\ (thread'[u].at = "idle" => u \in armed')
    BY <1>1, <2>1, <2>2 DEF ChainMoves
  <2> QED
    BY <2>2, <2>3 DEF Draining, ThreadsOf
<1>3. t[1] \in Procs /\ t \in ThreadsOf(t[1])
  BY ChainsLive
<1>4. drainTimer' \in [Procs -> Threads \cup {NoThread}]
  BY <1>1, <1>3 DEF ChainMoves, DrivenInv
<1>5. ASSUME NEW p \in Procs PROVE drainTimer'[p] \in ThreadsOf(p) \cup {NoThread}
  BY <1>1, <1>3 DEF ChainMoves, DrivenInv
<1> QED
  BY <1>1, <1>2, <1>4, <1>5 DEF DrivenInv, Draining, ThreadsOf

\* Chains that neither stop nor lose their timer go on draining.
LEMMA DrainsOn ==
    ASSUME NEW p \in Procs, Draining(p),
           \A u \in ThreadsOf(p) : thread'[u] = thread[u] /\ (u \in armed => u \in armed')
    PROVE  Draining(p)'
BY DEF Draining, ThreadsOf

\* A step of a process's poller, seen by the chains: those of other processes go on,
\* and its own runner runs only with a chain that drains.
LEMMA PollerStepDrives ==
    ASSUME DrivenInv, NEW p \in Procs, PollerStep(p), QueueInv', Inv'
    PROVE  DrivenInv'
<1>1. /\ \A q \in Procs : q # p => runner'[q] = runner[q]
      /\ runner'[p].running => ~runner'[p].stopped
      /\ GoesDown(p) => ~runner'[p].running
  BY RunnerMoves DEF DrivenInv, Inv, PollerStep
<1>2. thread \in [Threads -> [at : ThreadAt, job : SUBSET Jobs]]
  BY DEF DrivenInv, QueueInv, OrderInv, TypeOK, ThreadsTyped
<1>3. drainTimer[p] \in ThreadsOf(p) \cup {NoThread} /\ NoThread \notin Threads
  BY JobQueueAssumption DEF DrivenInv
<1>4. \A q \in Procs : q # p => \A u \in ThreadsOf(q) : u \notin ThreadsOf(p) /\ u \in Threads
  BY ChainsLive
<1>5. /\ \A q \in Procs : q # p => \A u \in ThreadsOf(q) :
             thread'[u] = thread[u] /\ (u \in armed => u \in armed')
      /\ drainTimer' = drainTimer \/ drainTimer' = [drainTimer EXCEPT ![p] = NoThread]
      /\ runner'[p].running => Draining(p)'
  <2>1. CASE StartsChain(p)
    <3>1. PICK t \in ThreadsOf(p) : StartThread(t)
      BY <2>1 DEF StartsChain
    <3>2. t \in Threads
      BY <3>1 DEF ThreadsOf
    <3>3. thread'[t].at = "reap" /\ \A u \in Threads \ {t} : thread'[u] = thread[u]
      BY <1>2, <3>1, <3>2 DEF StartThread, Move
    <3>4. Draining(p)'
      BY <3>1, <3>3 DEF Draining, ThreadsOf
    <3> QED
      BY <1>4, <2>1, <3>1, <3>3, <3>4 DEF StartsChain, timers
  <2>2. CASE StopsChains(p)
    <3>1. UNCHANGED thread /\ ~runner'[p].running /\ armed' = armed \ {drainTimer[p]}
      BY <2>2 DEF StopsChains, RunnerStops, vars
    <3>2. \A q \in Procs : q # p => \A u \in ThreadsOf(q) : u # drainTimer[p]
      BY <1>3, <1>4
    <3> QED
      BY <2>2, <3>1, <3>2 DEF StopsChains
  <2>3. CASE KillsChains(p)
    <3>1. /\ ~runner'[p].running
          /\ thread' = [t \in Threads |-> IF t \in ThreadsOf(p) THEN NoWork ELSE thread[t]]
          /\ armed' = armed \ ThreadsOf(p)
      BY <1>1, <2>3 DEF KillsChains, ThreadsDie
    <3> QED
      BY <1>4, <2>3, <3>1 DEF KillsChains
  <2>4. CASE LeavesChains(p)
    <3>1. UNCHANGED <<thread, armed, drainTimer>> /\ (runner'[p].running => runner[p].running)
      BY <2>4 DEF LeavesChains, RunnerStarts, timers, vars
    <3>2. runner'[p].running => Draining(p)'
      BY <3>1 DEF DrivenInv, Draining, ThreadsOf
    <3> QED
      BY <3>1, <3>2
  <2> QED
    BY <2>1, <2>2, <2>3, <2>4 DEF PollerStep
<1>6. ASSUME NEW q \in Procs, runner'[q].running PROVE ~runner'[q].stopped /\ Draining(q)'
  <2>1. CASE q = p
    BY <1>1, <1>5, <1>6, <2>1
  <2>2. CASE q # p
    <3>1. runner'[q] = runner[q] /\ ~runner[q].stopped /\ Draining(q)
      BY <1>1, <1>6, <2>2 DEF DrivenInv
    <3>2. Draining(q)'
      BY <1>5, <2>2, <3>1, DrainsOn
    <3> QED
      BY <3>1, <3>2
  <2> QED
    BY <2>1, <2>2
<1>7. drainTimer' \in [Procs -> Threads \cup {NoThread}]
  BY <1>5 DEF DrivenInv
<1>8. ASSUME NEW q \in Procs PROVE drainTimer'[q] \in ThreadsOf(q) \cup {NoThread}
  BY <1>5 DEF DrivenInv
<1> QED
  BY <1>6, <1>7, <1>8 DEF DrivenInv, ThreadsOf

\* Every step of the composed system keeps the queue, the elections and the draining.
LEMMA DrivenStep == DrivenInv /\ [CNext]_allVars => DrivenInv'
<1> SUFFICES ASSUME DrivenInv, [CNext]_allVars PROVE DrivenInv'
  OBVIOUS
<1>1. Inv'
  <2>1. [LNext]_lvars
    <3>1. CASE UNCHANGED allVars
      BY <3>1 DEF allVars
    <3>2. CASE CNext
      BY <3>2, RunnersKept DEF CNext, PollerStep, LNext
    <3> QED
      BY <3>1, <3>2
  <2> QED
    BY <2>1, InvStep DEF DrivenInv
<1>2. CASE UNCHANGED allVars
  <2>1. QueueInv'
    BY <1>2, QueueStep DEF DrivenInv, allVars
  <2>2. UNCHANGED <<thread, runner, armed, drainTimer>>
    BY <1>2 DEF allVars, vars, lvars, timers
  <2> QED
    BY <1>1, <2>1, <2>2 DEF DrivenInv, Draining, ThreadsOf
<1>3. ASSUME NEW p \in Procs, PollerStep(p) PROVE DrivenInv'
  <2>1. QueueInv'
    BY <1>3, QueueUnderPoller DEF DrivenInv
  <2> QED
    BY <1>1, <1>3, <2>1, PollerStepDrives
<1>4. ASSUME NEW t \in Threads, DrainChain(t) \/ DrainTimer(t) \/ DrainEnds(t) PROVE DrivenInv'
  <2>1. Next
    BY <1>4, QueueElsewhere
  <2>2. QueueInv'
    BY <2>1, QueueStep DEF DrivenInv
  <2> QED
    BY <1>1, <1>4, <2>2, DrainStepDrives
<1>5. CASE JobStep
  <2>1. Next
    BY <1>5, QueueElsewhere
  <2>2. QueueInv'
    BY <2>1, QueueStep DEF DrivenInv
  <2>3. UNCHANGED <<thread, runner, armed, drainTimer>>
    <3>1. UNCHANGED thread
      <4>1. ASSUME Request PROVE UNCHANGED thread
        BY <4>1 DEF Request, CreateJob, RequestCancel, DeleteServer
      <4>2. ASSUME NEW j \in Jobs, RunStep(j) PROVE UNCHANGED thread
        BY <4>2 DEF RunStep, LoadJob, RetireJob, RetireItems, AfterCanary, AfterFanout, SweepCancel,
                    SkipPending, CountFailures, FinishJob, JournalJob
      <4>3. ASSUME NEW j \in Jobs, NEW w \in Workers, WorkerStep(j, w) PROVE UNCHANGED thread
        BY <4>3 DEF WorkerStep, TakeItem, CheckCancel, MarkRunning, LoadClient, PanelAnswers, RecordResult
      <4>4. ASSUME NEW j \in Jobs, RunDbFails(j) PROVE UNCHANGED thread
        BY <4>4 DEF RunDbFails
      <4>5. ASSUME NEW j \in Jobs, NEW w \in Workers, WorkerDbFails(j, w) PROVE UNCHANGED thread
        BY <4>5 DEF WorkerDbFails
      <4> QED
        BY <1>5, <4>1, <4>2, <4>3, <4>4, <4>5 DEF JobStep
    <3> QED
      BY <1>5, <3>1 DEF JobStep, lvars, timers
  <2> QED
    BY <1>1, <2>2, <2>3 DEF DrivenInv, Draining, ThreadsOf
<1> QED
  BY <1>2, <1>3, <1>4, <1>5 DEF CNext

\* Queue, election and the chains between them are sound in every reachable state.
LEMMA DrivenInvariant == CSpec => []DrivenInv
  BY DrivenInit, DrivenStep, PTL DEF CSpec

\* A runner that says it runs has a chain that will look for the next job, however its
\* starts and stops fell between the chains and timers of earlier leaderships
\* (runner.ts:13-64).
THEOREM RunnersDrain == CSpec => []RunningMeansDraining
<1>1. DrivenInv => RunningMeansDraining
  BY DEF DrivenInv, RunningMeansDraining, Draining
<1> QED
  BY <1>1, DrivenInvariant, PTL

\* The promises of the queue survive the leaderships that drive it: the canary goes first,
\* a stop reaches no further than its radius, reports agree with the panels and jobs
\* are taken up in order.
THEOREM QueueHoldsHere ==
    CSpec => [](CanaryFirst /\ StopRadius /\ ReportMatchesPanel /\ ClaimOrder)
<1>1. DrivenInv => CanaryFirst /\ StopRadius /\ ReportMatchesPanel /\ ClaimOrder
  BY SoundCanary, SoundStop, SoundReport, SoundOrder DEF DrivenInv, QueueInv
<1> QED
  BY <1>1, DrivenInvariant, PTL

\* No server is worked on twice by one job, whichever leaderships come, go and overlap.
THEOREM TouchedOnceHere == CSpec => AtMostOnceHere
<1>1. DrivenInv /\ [CNext]_allVars => [TouchedOnce]_allVars
  <2> SUFFICES ASSUME DrivenInv, CNext PROVE TouchedOnce
    OBVIOUS
  <2>1. ASSUME NEW p \in Procs, PollerStep(p) PROVE TouchedOnce
    <3>1. UNCHANGED did
      BY <2>1, QueueUnderPoller DEF DrivenInv
    <3> QED
      BY <3>1 DEF TouchedOnce
  <2>2. ASSUME JobStep \/ \E t \in Threads : DrainChain(t) \/ DrainTimer(t) \/ DrainEnds(t)
        PROVE  TouchedOnce
    BY <2>2, QueueElsewhere, QueueTouchesOnce DEF DrivenInv
  <2> QED
    BY <2>1, <2>2 DEF CNext
<1>2. CSpec => [][TouchedOnce]_allVars
  BY <1>1, DrivenInvariant, PTL DEF CSpec
<1> QED
  BY <1>2 DEF TouchedOnce, AtMostOnceHere

=============================================================================
