----------------------------- MODULE PanelGate -----------------------------
(***************************************************************************)
(* Bounded concurrency per panel: PanelGate and gateFor of                 *)
(* src/src/lib/aapanel/rate-limit.ts, and the one path every panel call    *)
(* takes through it, post() of src/src/lib/aapanel/client.ts.              *)
(*                                                                         *)
(* A request takes a slot or queues, sends, and releases the slot in a     *)
(* finally block; one deadline covers the wait and the sending.  gates[o]  *)
(* is the counter and the queue of waiters the code keeps; at[r] is where  *)
(* the request really is, which the gate never looks at.                   *)
(***************************************************************************)
EXTENDS Naturals, Sequences, FiniteSets, SequencesExt

CONSTANTS
    Requests,   \* calls of post()
    Origins,    \* panels, by origin
    Limits      \* values maxConcurrent can have had when a client was built

ASSUME GateAssumption ==
    /\ Limits \subseteq Nat \ {0}
    /\ IsFiniteSet(Requests)

VARIABLES
    gates,     \* the Map of gates: limit (0: no gate yet), inFlight, queue
    at,        \* where each request is
    origin,    \* the panel it is for
    released   \* the flag inside its ReleaseSlot

vars == <<gates, at, origin, released>>

RequestAt == {"new", "waiting", "sending", "answered", "failed", "busy"}

NoGate == [limit |-> 0, inFlight |-> 0, queue |-> <<>>]

Init ==
    /\ gates = [o \in Origins |-> NoGate]
    /\ at = [r \in Requests |-> "new"]
    /\ origin \in [Requests -> Origins]
    /\ released = [r \in Requests |-> FALSE]

\* gateFor: a gate keeps the limit it was created with.
RecreatedGate(o, limit) == [gates[o] EXCEPT !.limit = limit]
GateFor(o, limit) ==
    IF gates[o].limit = 0 THEN [NoGate EXCEPT !.limit = limit] ELSE gates[o]

HasRoomOffByOne(g) == g.inFlight <= g.limit
HasRoom(g) == g.inFlight < g.limit

\* post() up to acquire(): take a slot or join the queue.
Post(r, limit) ==
    LET o == origin[r]
        g == GateFor(o, limit) IN
    /\ at[r] = "new"
    /\ \/ /\ HasRoom(g)
          /\ gates' = [gates EXCEPT ![o] = [g EXCEPT !.inFlight = @ + 1]]
          /\ at' = [at EXCEPT ![r] = "sending"]
       \/ /\ ~HasRoom(g)
          /\ gates' = [gates EXCEPT ![o] = [g EXCEPT !.queue = Append(@, r)]]
          /\ at' = [at EXCEPT ![r] = "waiting"]
    /\ UNCHANGED <<origin, released>>

\* onAbort of a queued request: its waiter leaves the queue.
StillQueued(queue, r) == queue
Unqueued(queue, r) ==
    LET n == CHOOSE i \in DOMAIN queue : queue[i] = r IN
    SubSeq(queue, 1, n - 1) \o SubSeq(queue, n + 1, Len(queue))

DeadlineWhileWaiting(r) ==
    /\ at[r] = "waiting"
    /\ gates' = [gates EXCEPT ![origin[r]].queue = Unqueued(@, r)]
    /\ at' = [at EXCEPT ![r] = "busy"]
    /\ UNCHANGED <<origin, released>>

\* The slot goes straight to the first waiter; only without one is it freed.
FreedWithoutHandover(g) == [g EXCEPT !.inFlight = @ - 1]
Freed(g) ==
    IF g.queue = <<>> THEN [g EXCEPT !.inFlight = @ - 1] ELSE [g EXCEPT !.queue = Tail(@)]

Granted(g) == IF g.queue = <<>> THEN {} ELSE {Head(g.queue)}

\* send() ends: with an answer, an error of the panel, or at the deadline.
SendEnds(r, outcome) ==
    /\ at[r] = "sending"
    /\ at' = [at EXCEPT ![r] = outcome]
    /\ UNCHANGED <<gates, origin, released>>

\* The ReleaseSlot of a request, called by the finally block.  A second call finds
\* the flag set and does nothing.  Granting a waiter whose promise was rejected has no
\* effect on its request.
AlreadyReleased(r) == released[r]

Release(r) ==
    LET g == gates[origin[r]] IN
    /\ at[r] \in {"answered", "failed"}
    /\ IF AlreadyReleased(r)
       THEN UNCHANGED <<gates, at, released>>
       ELSE /\ gates' = [gates EXCEPT ![origin[r]] = Freed(g)]
            /\ at' = [q \in Requests |->
                    IF q \in Granted(g) /\ at[q] = "waiting" THEN "sending" ELSE at[q]]
            /\ released' = [released EXCEPT ![r] = TRUE]
    /\ UNCHANGED origin

Step(r) ==
    \/ \E limit \in Limits : Post(r, limit)
    \/ DeadlineWhileWaiting(r)
    \/ \E outcome \in {"answered", "failed"} : SendEnds(r, outcome)
    \/ Release(r)

Next == \E r \in Requests : Step(r)

Spec == Init /\ [][Next]_vars

\* Every wait and every send ends at the deadline at the latest, and the finally
\* block runs.
Fairness ==
    \A r \in Requests :
        /\ WF_vars(DeadlineWhileWaiting(r))
        /\ WF_vars(\E outcome \in {"answered", "failed"} : SendEnds(r, outcome))
        /\ WF_vars(Release(r))

FairSpec == Spec /\ Fairness

-----------------------------------------------------------------------------
(* Properties.                                                             *)

\* A request holds a slot from the moment it may send until it releases.
Holds(r) == at[r] = "sending" \/ (at[r] \in {"answered", "failed"} /\ ~released[r])
Holders(o) == {r \in Requests : origin[r] = o /\ Holds(r)}
Waiters(o) == {r \in Requests : origin[r] = o /\ at[r] = "waiting"}

TypeOK ==
    /\ gates \in [Origins -> [limit : Limits \cup {0}, inFlight : Nat, queue : Seq(Requests)]]
    /\ at \in [Requests -> RequestAt]
    /\ origin \in [Requests -> Origins]
    /\ released \in [Requests -> BOOLEAN]

\* However releases, deadlines and new calls interleave, no panel serves more requests
\* at once than its gate's limit: what rate-limit.ts:4 calls an invariant.
BudgetKept == \A o \in Origins : Cardinality(Holders(o)) <= gates[o].limit

\* No slot is lost and none is invented: the counter is the number of requests that
\* hold a slot, and somebody waits only while all of them are taken.
SlotsAccounted ==
    \A o \in Origins :
        /\ gates[o].inFlight = Cardinality(Holders(o))
        /\ gates[o].queue # <<>> => gates[o].inFlight = gates[o].limit

\* The queue holds exactly the requests still waiting, each once: no ghost of one
\* that gave up could be handed a slot.
NoGhostInQueue ==
    \A o \in Origins :
        LET q == gates[o].queue IN
        /\ ToSet(q) = Waiters(o)
        /\ IsInjective(q)

\* Every slot comes back: once the calls stop, no panel is left with a slot taken or
\* a waiter in line, whatever was answered, failed or given up on the way.
SlotsReturn ==
    <>[](\A o \in Origins : gates[o].inFlight = 0 /\ gates[o].queue = <<>>)

\* The gate implements the abstract budget: its counter and its queue are never wrong
\* about who is inside.
Budget == INSTANCE PanelBudget WITH
    inside <- [o \in Origins |-> Holders(o)],
    line <- [o \in Origins |-> gates[o].queue],
    budget <- [o \in Origins |-> gates[o].limit]

ImplementsBudget == Budget!BSpec

=============================================================================
