-------------------------- MODULE PanelGate_proofs --------------------------
(***************************************************************************)
(* Proofs about PanelGate, for any set of requests, panels and limits: its *)
(* type invariant, that no panel is given more than its budget, that its   *)
(* counter and queue are never wrong, and that it implements PanelBudget.  *)
(***************************************************************************)
EXTENDS PanelGate, FiniteSetTheorems, SequenceTheorems, TLAPS

-----------------------------------------------------------------------------
(* The queue of waiters, as a sequence in which nobody stands twice.       *)

\* Joining the queue adds one waiter to those standing in it.
LEMMA AppendLemma ==
    ASSUME NEW q \in Seq(Requests), IsInjective(q), NEW r \in Requests, r \notin ToSet(q)
    PROVE  /\ Append(q, r) \in Seq(Requests)
           /\ ToSet(Append(q, r)) = ToSet(q) \cup {r}
           /\ IsInjective(Append(q, r))
           /\ Append(q, r) # <<>>
<1> DEFINE u == Append(q, r)
<1>1. /\ u \in Seq(Requests)
      /\ Len(u) = Len(q) + 1
      /\ DOMAIN u = 1 .. Len(q) + 1
      /\ DOMAIN q = 1 .. Len(q)
      /\ u[Len(q) + 1] = r
      /\ \A i \in 1 .. Len(q) : u[i] = q[i]
      /\ Len(q) \in Nat
  OBVIOUS
<1>2. \A i \in 1 .. Len(q) : u[i] # r
  BY <1>1 DEF ToSet
<1> HIDE DEF u
<1>3. ToSet(u) = ToSet(q) \cup {r}
  BY <1>1 DEF ToSet
<1>4. IsInjective(u)
  BY <1>1, <1>2 DEF IsInjective
<1>5. u # <<>>
  BY <1>1
<1> QED
  BY <1>1, <1>3, <1>4, <1>5 DEF u

\* The first waiter leaves the queue, and nobody else does.
LEMMA TailLemma ==
    ASSUME NEW q \in Seq(Requests), IsInjective(q), q # <<>>
    PROVE  /\ Tail(q) \in Seq(Requests)
           /\ Head(q) \in ToSet(q)
           /\ ToSet(Tail(q)) = ToSet(q) \ {Head(q)}
           /\ IsInjective(Tail(q))
<1> DEFINE u == Tail(q)
<1>1. /\ u \in Seq(Requests)
      /\ Len(q) \in Nat \ {0}
      /\ DOMAIN u = 1 .. Len(q) - 1
      /\ DOMAIN q = 1 .. Len(q)
      /\ Head(q) = q[1]
      /\ \A i \in 1 .. Len(q) - 1 : u[i] = q[i + 1]
  OBVIOUS
<1> HIDE DEF u
<1>2. \A i \in 2 .. Len(q) : q[i] # q[1] /\ q[i] = u[i - 1] /\ i - 1 \in DOMAIN u
  BY <1>1 DEF IsInjective
<1>3. ToSet(u) = ToSet(q) \ {Head(q)}
  <2>1. \A i \in DOMAIN u : u[i] \in ToSet(q) \ {Head(q)}
    BY <1>1, <1>2 DEF ToSet
  <2>2. ASSUME NEW i \in DOMAIN q, q[i] # Head(q)
        PROVE  q[i] \in ToSet(u)
    <3>1. i \in 2 .. Len(q)
      BY <1>1, <2>2
    <3>2. i - 1 \in DOMAIN u /\ u[i - 1] = q[i]
      BY <1>2, <3>1
    <3> QED
      BY <3>2 DEF ToSet
  <2> QED
    BY <2>1, <2>2 DEF ToSet
<1>4. IsInjective(u)
  <2> SUFFICES ASSUME NEW a \in DOMAIN u, NEW b \in DOMAIN u, u[a] = u[b]
               PROVE  a = b
    BY DEF IsInjective
  <2>1. /\ a + 1 \in DOMAIN q /\ b + 1 \in DOMAIN q
        /\ q[a + 1] = q[b + 1]
        /\ a \in Int /\ b \in Int
    BY <1>1
  <2>2. a + 1 = b + 1
    BY <2>1 DEF IsInjective
  <2> QED
    BY <2>1, <2>2
<1>5. Head(q) \in ToSet(q)
  BY <1>1 DEF ToSet
<1>6. u = Tail(q)
  BY DEF u
<1> QED
  BY <1>1, <1>3, <1>4, <1>5, <1>6

\* Taking a waiter out of the middle keeps the others, in their order.
LEMMA UnqueuedLemma ==
    ASSUME NEW q \in Seq(Requests), IsInjective(q), NEW r \in ToSet(q)
    PROVE  /\ Unqueued(q, r) \in Seq(Requests)
           /\ ToSet(Unqueued(q, r)) = ToSet(q) \ {r}
           /\ IsInjective(Unqueued(q, r))
           /\ \E n \in DOMAIN q :
                Unqueued(q, r) = SubSeq(q, 1, n - 1) \o SubSeq(q, n + 1, Len(q))
<1> DEFINE n == CHOOSE i \in DOMAIN q : q[i] = r
           u == SubSeq(q, 1, n - 1) \o SubSeq(q, n + 1, Len(q))
<1>1. n \in DOMAIN q /\ q[n] = r
  BY DEF ToSet
<1>2. DOMAIN q = 1 .. Len(q) /\ Len(q) \in Nat
  OBVIOUS
<1>3. Unqueued(q, r) = u
  BY DEF Unqueued
<1> HIDE DEF n
<1>4. /\ u \in Seq(Requests)
      /\ DOMAIN u = 1 .. Len(q) - 1
      /\ \A i \in 1 .. Len(q) - 1 : u[i] = IF i < n THEN q[i] ELSE q[i + 1]
  <2> DEFINE h == SubSeq(q, 1, n - 1)
             t == SubSeq(q, n + 1, Len(q))
  <2>1. /\ h \in Seq(Requests) /\ Len(h) = n - 1
        /\ \A i \in 1 .. n - 1 : h[i] = q[i]
    BY <1>1, <1>2
  <2>2. /\ t \in Seq(Requests) /\ Len(t) = Len(q) - n
        /\ \A i \in 1 .. Len(q) - n : t[i] = q[n + i]
    BY <1>1, <1>2
  <2> HIDE DEF h, t
  <2>3. /\ h \o t \in Seq(Requests)
        /\ Len(h \o t) = Len(h) + Len(t)
        /\ \A i \in 1 .. Len(h) + Len(t) :
                (h \o t)[i] = IF i <= Len(h) THEN h[i] ELSE t[i - Len(h)]
    BY <2>1, <2>2, ConcatProperties
  <2>4. u = h \o t
    BY DEF h, t
  <2> HIDE DEF u
  <2>5. n \in 1 .. Len(q)
    BY <1>1, <1>2
  <2>6. Len(h) + Len(t) = Len(q) - 1
    BY <1>2, <2>1, <2>2, <2>5
  <2>7. ASSUME NEW i \in 1 .. Len(q) - 1
        PROVE  u[i] = IF i < n THEN q[i] ELSE q[i + 1]
    <3>1. CASE i < n
      BY <1>2, <2>1, <2>3, <2>4, <2>5, <2>6, <3>1
    <3>2. CASE i >= n
      <4>1. i - (n - 1) \in 1 .. Len(q) - n /\ n + (i - (n - 1)) = i + 1
        BY <1>2, <2>5, <3>2
      <4>2. u[i] = t[i - (n - 1)]
        BY <1>2, <2>1, <2>3, <2>4, <2>5, <2>6, <3>2
      <4> QED
        BY <1>2, <2>2, <2>5, <3>2, <4>1, <4>2
    <3> QED
      BY <1>2, <2>5, <3>1, <3>2
  <2>8. DOMAIN u = 1 .. Len(q) - 1
    BY <2>3, <2>4, <2>6
  <2> QED
    BY <2>3, <2>4, <2>7, <2>8
<1> HIDE DEF u
<1>5. ToSet(u) = ToSet(q) \ {r}
  <2>1. \A i \in DOMAIN u : u[i] \in ToSet(q) \ {r}
    BY <1>1, <1>2, <1>4 DEF ToSet, IsInjective
  <2>2. ASSUME NEW i \in DOMAIN q, q[i] # r
        PROVE  q[i] \in ToSet(u)
    <3>1. CASE i < n
      BY <1>1, <1>2, <1>4, <3>1 DEF ToSet
    <3>2. CASE i > n
      <4>1. i - 1 \in DOMAIN u /\ u[i - 1] = q[i]
        BY <1>1, <1>2, <1>4, <3>2
      <4> QED
        BY <4>1 DEF ToSet
    <3> QED
      BY <1>1, <1>2, <2>2, <3>1, <3>2
  <2> QED
    BY <2>1, <2>2 DEF ToSet
<1>6. IsInjective(u)
  <2> SUFFICES ASSUME NEW a \in DOMAIN u, NEW b \in DOMAIN u, u[a] = u[b]
               PROVE  a = b
    BY DEF IsInjective
  <2> DEFINE from(i) == IF i < n THEN i ELSE i + 1
  <2>1. /\ from(a) \in DOMAIN q /\ from(b) \in DOMAIN q
        /\ q[from(a)] = q[from(b)]
        /\ a \in Int /\ b \in Int /\ n \in Int
    BY <1>1, <1>2, <1>4
  <2>2. from(a) = from(b)
    BY <2>1 DEF IsInjective
  <2> QED
    BY <2>1, <2>2
<1>7. \E m \in DOMAIN q : u = SubSeq(q, 1, m - 1) \o SubSeq(q, m + 1, Len(q))
  BY <1>1 DEF u
<1> QED
  BY <1>3, <1>4, <1>5, <1>6, <1>7


-----------------------------------------------------------------------------
(* The inductive invariant.                                                *)

\* What is true of one panel's gate.  Neither half stands alone: the counter stays
\* right because the queue names real waiters, and the queue stays right because a
\* slot is free only when nobody waits.
GateOK(o) ==
    LET g == gates[o] IN
    /\ g.inFlight = Cardinality(Holders(o))
    /\ g.inFlight <= g.limit
    /\ g.queue # <<>> => g.limit # 0 /\ g.inFlight = g.limit
    /\ ToSet(g.queue) = Waiters(o)
    /\ IsInjective(g.queue)

\* Only a request whose send() is over has released its slot.
ReleasedIsOver == \A r \in Requests : released[r] => at[r] \in {"answered", "failed"}

GateInv ==
    /\ TypeOK
    /\ \A o \in Origins : GateOK(o)
    /\ ReleasedIsOver

\* Sets of requests are finite.
LEMMA FiniteRequests ==
    ASSUME NEW S \in SUBSET Requests
    PROVE  IsFiniteSet(S) /\ Cardinality(S) \in Nat
BY GateAssumption, FS_Subset, FS_CardinalityType

\* A step that leaves a panel's gate and the standing of its requests alone keeps
\* that gate correct.
LEMMA OtherGate ==
    ASSUME TypeOK, NEW o \in Origins, GateOK(o),
           gates'[o] = gates[o], Holders(o)' = Holders(o), Waiters(o)' = Waiters(o)
    PROVE  GateOK(o)'
BY DEF GateOK

\* gateFor never changes who is inside or who waits.
LEMMA GateForLemma ==
    ASSUME TypeOK, NEW o \in Origins, GateOK(o), NEW limit \in Limits
    PROVE  LET g == GateFor(o, limit) IN
           /\ g \in [limit : Limits, inFlight : Nat, queue : Seq(Requests)]
           /\ g.inFlight = gates[o].inFlight
           /\ g.queue = gates[o].queue
           /\ g.inFlight <= g.limit
           /\ g.queue # <<>> => g = gates[o]
<1>1. gates[o] \in [limit : Limits \cup {0}, inFlight : Nat, queue : Seq(Requests)]
  BY DEF TypeOK
<1>2. Limits \subseteq Nat \ {0}
  BY GateAssumption
<1>3. CASE gates[o].limit = 0
  <2>1. gates[o].inFlight = 0 /\ gates[o].queue = <<>>
    BY <1>1, <1>3 DEF GateOK
  <2>2. GateFor(o, limit) = [limit |-> limit, inFlight |-> 0, queue |-> <<>>]
    BY <1>3 DEF GateFor, NoGate
  <2>3. <<>> \in Seq(Requests) /\ limit \in Nat
    BY <1>2
  <2> QED
    BY <2>1, <2>2, <2>3
<1>4. CASE gates[o].limit # 0
  BY <1>1, <1>4 DEF GateFor, GateOK
<1> QED
  BY <1>3, <1>4

\* The gate starts correct: nobody is inside.
LEMMA GateInvInit == Init => GateInv
<1> SUFFICES ASSUME Init PROVE GateInv
  OBVIOUS
<1>1. TypeOK
  BY DEF Init, TypeOK, NoGate, RequestAt
<1>2. ASSUME NEW o \in Origins PROVE GateOK(o)
  <2>1. Holders(o) = {} /\ Waiters(o) = {}
    BY DEF Init, Holders, Holds, Waiters
  <2>2. gates[o] = NoGate
    BY DEF Init
  <2>3. ToSet(<<>>) = {} /\ IsInjective(<<>>)
    BY DEF ToSet, IsInjective
  <2> QED
    BY <2>1, <2>2, <2>3, FS_EmptySet DEF GateOK, NoGate
<1>3. ReleasedIsOver
  BY DEF Init, ReleasedIsOver
<1> QED
  BY <1>1, <1>2, <1>3 DEF GateInv

\* post() up to acquire().
LEMMA PostKeeps ==
    ASSUME GateInv, NEW r \in Requests, NEW limit \in Limits, Post(r, limit)
    PROVE  GateInv'
<1> PICK o \in Origins : o = origin[r]
  BY DEF GateInv, TypeOK
<1> DEFINE g == GateFor(o, limit)
<1>1. TypeOK /\ GateOK(o) /\ at[r] = "new" /\ ReleasedIsOver
  BY DEF GateInv, Post
<1>2. /\ g \in [limit : Limits, inFlight : Nat, queue : Seq(Requests)]
      /\ g.inFlight = gates[o].inFlight
      /\ g.queue = gates[o].queue
      /\ g.inFlight <= g.limit
      /\ g.queue # <<>> => g = gates[o]
  BY <1>1, GateForLemma
<1>3. Limits \subseteq Nat \ {0}
  BY GateAssumption
<1>4. r \notin Holders(o) /\ r \notin Waiters(o) /\ ~released[r]
  BY <1>1 DEF Holders, Holds, Waiters, ReleasedIsOver
<1>5. origin' = origin /\ released' = released
  BY DEF Post
<1> HIDE DEF g
<1>6. CASE HasRoom(g)
  <2>1. /\ gates' = [gates EXCEPT ![o] = [g EXCEPT !.inFlight = g.inFlight + 1]]
        /\ at' = [at EXCEPT ![r] = "sending"]
    BY <1>6 DEF Post, g
  <2>2. TypeOK'
    <3>1. [g EXCEPT !.inFlight = g.inFlight + 1]
            \in [limit : Limits \cup {0}, inFlight : Nat, queue : Seq(Requests)]
      BY <1>2
    <3> QED
      BY <1>1, <1>5, <2>1, <3>1 DEF TypeOK, RequestAt
  <2>3. /\ Holders(o)' = Holders(o) \cup {r}
        /\ Waiters(o)' = Waiters(o)
    BY <1>1, <1>5, <2>1 DEF TypeOK, Holders, Holds, Waiters
  <2>4. Cardinality(Holders(o)') = Cardinality(Holders(o)) + 1
    <3>1. Holders(o) \in SUBSET Requests
      BY DEF Holders
    <3> QED
      BY <1>4, <2>3, <3>1, FiniteRequests, FS_AddElement
  <2>5. g.queue = <<>>
    BY <1>1, <1>2, <1>3, <1>6 DEF GateOK, HasRoom
  <2>6. gates'[o] = [g EXCEPT !.inFlight = g.inFlight + 1]
    BY <1>1, <2>1 DEF TypeOK
  <2>7. GateOK(o)'
    BY <1>1, <1>2, <1>3, <1>6, <2>3, <2>4, <2>5, <2>6 DEF GateOK, HasRoom
  <2>8. ASSUME NEW p \in Origins, p # o PROVE GateOK(p)'
    <3>1. Holders(p)' = Holders(p) /\ Waiters(p)' = Waiters(p) /\ gates'[p] = gates[p]
      BY <1>1, <1>5, <2>1, <2>8 DEF TypeOK, Holders, Holds, Waiters
    <3> QED
      BY <1>1, <3>1, OtherGate DEF GateInv
  <2>9. ReleasedIsOver'
    BY <1>1, <1>4, <1>5, <2>1 DEF TypeOK, ReleasedIsOver
  <2> QED
    BY <2>2, <2>7, <2>8, <2>9 DEF GateInv
<1>7. CASE ~HasRoom(g)
  <2>1. /\ gates' = [gates EXCEPT ![o] = [g EXCEPT !.queue = Append(g.queue, r)]]
        /\ at' = [at EXCEPT ![r] = "waiting"]
    BY <1>7 DEF Post, g
  <2>2. /\ Append(g.queue, r) \in Seq(Requests)
        /\ ToSet(Append(g.queue, r)) = ToSet(g.queue) \cup {r}
        /\ IsInjective(Append(g.queue, r))
        /\ Append(g.queue, r) # <<>>
    BY <1>1, <1>2, <1>4, AppendLemma DEF GateOK
  <2>3. TypeOK'
    BY <1>1, <1>2, <1>5, <2>1, <2>2 DEF TypeOK, RequestAt
  <2>4. /\ Holders(o)' = Holders(o)
        /\ Waiters(o)' = Waiters(o) \cup {r}
    BY <1>1, <1>5, <2>1 DEF TypeOK, Holders, Holds, Waiters
  <2>5. gates'[o] = [g EXCEPT !.queue = Append(g.queue, r)]
    BY <1>1, <2>1 DEF TypeOK
  <2>6. GateOK(o)'
    BY <1>1, <1>2, <1>3, <1>7, <2>2, <2>4, <2>5 DEF GateOK, HasRoom
  <2>7. ASSUME NEW p \in Origins, p # o PROVE GateOK(p)'
    <3>1. Holders(p)' = Holders(p) /\ Waiters(p)' = Waiters(p) /\ gates'[p] = gates[p]
      BY <1>1, <1>5, <2>1, <2>7 DEF TypeOK, Holders, Holds, Waiters
    <3> QED
      BY <1>1, <3>1, OtherGate DEF GateInv
  <2>8. ReleasedIsOver'
    BY <1>1, <1>4, <1>5, <2>1 DEF TypeOK, ReleasedIsOver
  <2> QED
    BY <2>3, <2>6, <2>7, <2>8 DEF GateInv
<1> QED
  BY <1>6, <1>7

\* A waiter gives up.
LEMMA DeadlineKeeps ==
    ASSUME GateInv, NEW r \in Requests, DeadlineWhileWaiting(r)
    PROVE  GateInv'
<1> PICK o \in Origins : o = origin[r]
  BY DEF GateInv, TypeOK
<1> DEFINE q == gates[o].queue
<1>1. TypeOK /\ GateOK(o) /\ at[r] = "waiting" /\ ReleasedIsOver
  BY DEF GateInv, DeadlineWhileWaiting
<1>2. q \in Seq(Requests) /\ IsInjective(q) /\ r \in ToSet(q)
  BY <1>1 DEF GateOK, TypeOK, Waiters
<1>3. /\ Unqueued(q, r) \in Seq(Requests)
      /\ ToSet(Unqueued(q, r)) = ToSet(q) \ {r}
      /\ IsInjective(Unqueued(q, r))
  BY <1>2, UnqueuedLemma
<1>4. /\ gates' = [gates EXCEPT ![o].queue = Unqueued(q, r)]
      /\ at' = [at EXCEPT ![r] = "busy"]
      /\ origin' = origin /\ released' = released
  BY DEF DeadlineWhileWaiting
<1>5. TypeOK'
  BY <1>1, <1>3, <1>4 DEF TypeOK, RequestAt
<1>6. /\ Holders(o)' = Holders(o)
      /\ Waiters(o)' = Waiters(o) \ {r}
  BY <1>1, <1>4 DEF TypeOK, Holders, Holds, Waiters
<1>7. gates'[o] = [gates[o] EXCEPT !.queue = Unqueued(q, r)]
  BY <1>1, <1>4 DEF TypeOK
<1>8. q # <<>>
  BY <1>2 DEF ToSet
<1>9. GateOK(o)'
  BY <1>1, <1>3, <1>6, <1>7, <1>8 DEF GateOK, TypeOK
<1>10. ASSUME NEW p \in Origins, p # o PROVE GateOK(p)'
  <2>1. Holders(p)' = Holders(p) /\ Waiters(p)' = Waiters(p) /\ gates'[p] = gates[p]
    BY <1>1, <1>4, <1>10 DEF TypeOK, Holders, Holds, Waiters
  <2> QED
    BY <1>1, <2>1, OtherGate DEF GateInv
<1>11. ReleasedIsOver'
  BY <1>1, <1>4 DEF TypeOK, ReleasedIsOver
<1> QED
  BY <1>5, <1>9, <1>10, <1>11 DEF GateInv

\* send() ends; the slot is still held.
LEMMA SendEndsKeeps ==
    ASSUME GateInv, NEW r \in Requests, NEW outcome \in {"answered", "failed"},
           SendEnds(r, outcome)
    PROVE  GateInv'
<1>1. TypeOK /\ ReleasedIsOver /\ at[r] = "sending"
  BY DEF GateInv, SendEnds
<1>2. /\ at' = [at EXCEPT ![r] = outcome]
      /\ gates' = gates /\ origin' = origin /\ released' = released
  BY DEF SendEnds
<1>3. TypeOK'
  BY <1>1, <1>2 DEF TypeOK, RequestAt
<1>4. ~released[r]
  BY <1>1 DEF ReleasedIsOver
<1>5. ASSUME NEW p \in Origins PROVE GateOK(p)'
  <2>1. Holders(p)' = Holders(p) /\ Waiters(p)' = Waiters(p) /\ gates'[p] = gates[p]
    BY <1>1, <1>2, <1>4 DEF TypeOK, Holders, Holds, Waiters
  <2> QED
    BY <1>1, <2>1, OtherGate DEF GateInv
<1>6. ReleasedIsOver'
  BY <1>1, <1>2, <1>4 DEF TypeOK, ReleasedIsOver
<1> QED
  BY <1>3, <1>5, <1>6 DEF GateInv

\* The finally block: the slot goes to the first waiter, or it is freed.
LEMMA ReleaseKeeps ==
    ASSUME GateInv, NEW r \in Requests, Release(r)
    PROVE  GateInv'
<1> PICK o \in Origins : o = origin[r]
  BY DEF GateInv, TypeOK
<1> DEFINE g == gates[o]
<1>1. /\ TypeOK /\ GateOK(o) /\ ReleasedIsOver
      /\ at[r] \in {"answered", "failed"} /\ origin' = origin
  BY DEF GateInv, Release
<1>2. g \in [limit : Limits \cup {0}, inFlight : Nat, queue : Seq(Requests)]
  BY <1>1 DEF TypeOK
<1>3. Limits \subseteq Nat \ {0}
  BY GateAssumption
<1>4. CASE released[r]
  <2>1. UNCHANGED vars
    BY <1>1, <1>4 DEF Release, AlreadyReleased, vars
  <2>2. TypeOK' /\ ReleasedIsOver'
    BY <1>1, <2>1 DEF vars, TypeOK, ReleasedIsOver
  <2>3. ASSUME NEW p \in Origins PROVE GateOK(p)'
    BY <2>1, OtherGate DEF GateInv, vars, Holders, Holds, Waiters
  <2> QED
    BY <2>2, <2>3 DEF GateInv
<1>5. CASE ~released[r]
  <2>1. /\ gates' = [gates EXCEPT ![o] = Freed(g)]
        /\ at' = [q \in Requests |->
                IF q \in Granted(g) /\ at[q] = "waiting" THEN "sending" ELSE at[q]]
        /\ released' = [released EXCEPT ![r] = TRUE]
    BY <1>5 DEF Release, AlreadyReleased
  <2>2. r \in Holders(o)
    BY <1>1, <1>5 DEF Holders, Holds
  <2>3. /\ Cardinality(Holders(o)) \in Nat
        /\ Cardinality(Holders(o) \ {r}) = Cardinality(Holders(o)) - 1
        /\ IsFiniteSet(Holders(o) \ {r})
        /\ Cardinality(Holders(o) \ {r}) \in Nat
    <3>1. Holders(o) \in SUBSET Requests /\ Holders(o) \ {r} \in SUBSET Requests
      BY DEF Holders
    <3> QED
      BY <2>2, <3>1, FiniteRequests, FS_RemoveElement
  <2>4. \A q \in Granted(g) : q \in Requests /\ at[q] = "waiting" /\ origin[q] = o
    BY <1>1, <1>2, TailLemma DEF Granted, GateOK, Waiters
  <2>5. Freed(g) \in [limit : Limits \cup {0}, inFlight : Nat, queue : Seq(Requests)]
    BY <1>1, <1>2, <2>3, TailLemma DEF Freed, GateOK
  <2>6. TypeOK'
    BY <1>1, <2>1, <2>5 DEF TypeOK, RequestAt
  <2>7. gates'[o] = Freed(g)
    BY <1>1, <2>1 DEF TypeOK
  <2>8. GateOK(o)'
    <3>1. CASE g.queue = <<>>
      <4>1. /\ Holders(o)' = Holders(o) \ {r}
            /\ Waiters(o)' = Waiters(o)
        BY <1>1, <2>1, <3>1 DEF TypeOK, Granted, Holders, Holds, Waiters
      <4> QED
        BY <1>1, <1>2, <1>3, <2>3, <2>7, <3>1, <4>1 DEF GateOK, Freed
    <3>2. CASE g.queue # <<>>
      <4> DEFINE h == Head(g.queue)
      <4>1. /\ Tail(g.queue) \in Seq(Requests)
            /\ h \in ToSet(g.queue)
            /\ ToSet(Tail(g.queue)) = ToSet(g.queue) \ {h}
            /\ IsInjective(Tail(g.queue))
        BY <1>1, <1>2, <3>2, TailLemma DEF GateOK
      <4>2. h \in Requests /\ at[h] = "waiting" /\ origin[h] = o /\ ~released[h] /\ h # r
        BY <1>1, <4>1 DEF GateOK, Waiters, ReleasedIsOver
      <4>3. /\ Holders(o)' = (Holders(o) \ {r}) \cup {h}
            /\ Waiters(o)' = Waiters(o) \ {h}
        BY <1>1, <2>1, <3>2, <4>2 DEF TypeOK, Granted, Holders, Holds, Waiters
      <4>4. Cardinality(Holders(o)') = Cardinality(Holders(o))
        <5>1. h \notin Holders(o) \ {r}
          BY <4>2 DEF Holders, Holds
        <5>2. Cardinality((Holders(o) \ {r}) \cup {h}) = Cardinality(Holders(o) \ {r}) + 1
          BY <2>3, <5>1, FS_AddElement
        <5> QED
          BY <2>3, <4>3, <5>2
      <4> QED
        BY <1>1, <1>2, <2>7, <3>2, <4>1, <4>3, <4>4 DEF GateOK, Freed
    <3> QED
      BY <3>1, <3>2
  <2>9. ASSUME NEW p \in Origins, p # o PROVE GateOK(p)'
    <3>1. Holders(p)' = Holders(p) /\ Waiters(p)' = Waiters(p) /\ gates'[p] = gates[p]
      BY <1>1, <2>1, <2>4, <2>9 DEF TypeOK, Holders, Holds, Waiters
    <3> QED
      BY <1>1, <3>1, OtherGate DEF GateInv
  <2>10. ReleasedIsOver'
    BY <1>1, <2>1 DEF TypeOK, ReleasedIsOver
  <2> QED
    BY <2>6, <2>8, <2>9, <2>10 DEF GateInv
<1> QED
  BY <1>4, <1>5

\* Every step keeps the gates correct.
LEMMA GateInvStep == GateInv /\ [Next]_vars => GateInv'
<1> SUFFICES ASSUME GateInv, [Next]_vars PROVE GateInv'
  OBVIOUS
<1>1. CASE UNCHANGED vars
  <2>1. TypeOK' /\ ReleasedIsOver'
    BY <1>1 DEF vars, GateInv, TypeOK, ReleasedIsOver
  <2>2. ASSUME NEW p \in Origins PROVE GateOK(p)'
    BY <1>1, OtherGate DEF GateInv, vars, Holders, Holds, Waiters
  <2> QED
    BY <2>1, <2>2 DEF GateInv
<1>2. ASSUME NEW r \in Requests, Step(r) PROVE GateInv'
  <2>1. CASE \E limit \in Limits : Post(r, limit)
    BY <2>1, PostKeeps
  <2>2. CASE DeadlineWhileWaiting(r)
    BY <2>2, DeadlineKeeps
  <2>3. CASE \E outcome \in {"answered", "failed"} : SendEnds(r, outcome)
    BY <2>3, SendEndsKeeps
  <2>4. CASE Release(r)
    BY <2>4, ReleaseKeeps
  <2> QED
    BY <1>2, <2>1, <2>2, <2>3, <2>4 DEF Step
<1> QED
  BY <1>1, <1>2 DEF Next

\* The gates of all panels are correct in every reachable state.
THEOREM GateInvariant == Spec => []GateInv
  BY GateInvInit, GateInvStep, PTL DEF Spec

\* Type correctness of the gate, with a counter that never goes below zero
\* (rate-limit.ts:88-95).
THEOREM TypeCorrect == Spec => []TypeOK
<1>1. GateInv => TypeOK
  BY DEF GateInv
<1> QED
  BY <1>1, GateInvariant, PTL

\* No panel ever serves more requests of this app at once than its gate's limit
\* (rate-limit.ts:4).
THEOREM BudgetIsKept == Spec => []BudgetKept
<1>1. GateInv => BudgetKept
  BY DEF GateInv, GateOK, BudgetKept
<1> QED
  BY <1>1, GateInvariant, PTL

\* The counter is exactly the number of requests that hold a slot, and nobody waits
\* while a slot is free (rate-limit.ts:62-65 and 88-95).
THEOREM SlotsAreAccounted == Spec => []SlotsAccounted
<1>1. GateInv => SlotsAccounted
  BY DEF GateInv, GateOK, SlotsAccounted
<1> QED
  BY <1>1, GateInvariant, PTL

\* The queue is exactly the set of requests that wait, each in it once
\* (rate-limit.ts:75-79).
THEOREM QueueHasNoGhost == Spec => []NoGhostInQueue
<1>1. GateInv => NoGhostInQueue
  BY DEF GateInv, GateOK, NoGhostInQueue
<1> QED
  BY <1>1, GateInvariant, PTL

-----------------------------------------------------------------------------
(* The gate implements PanelBudget.                                        *)

\* The abstract specification counts as this module does: both names stand for the
\* definition in FiniteSets.
LEMMA SameCount == ASSUME NEW S PROVE Budget!Cardinality(S) = Cardinality(S)
BY DEF Budget!Cardinality, Cardinality

\* acquire() is an arrival: inside at once if there is room, else last in line.
LEMMA PostArrives ==
    ASSUME GateInv, NEW r \in Requests, NEW limit \in Limits, Post(r, limit)
    PROVE  \E o \in Origins : Budget!Arrive(r, o, limit)
<1> PICK o \in Origins : o = origin[r]
  BY DEF GateInv, TypeOK
<1> DEFINE g == GateFor(o, limit)
<1>1. TypeOK /\ GateOK(o) /\ at[r] = "new" /\ origin' = origin /\ released' = released
  BY DEF GateInv, Post
<1>2. /\ g \in [limit : Limits, inFlight : Nat, queue : Seq(Requests)]
      /\ g.inFlight = Cardinality(Holders(o))
      /\ g.queue = gates[o].queue
      /\ g.inFlight <= g.limit
      /\ g.queue # <<>> => g = gates[o]
  BY <1>1, GateForLemma DEF GateOK
<1>3. /\ g.limit = IF gates[o].limit = 0 THEN limit ELSE gates[o].limit
      /\ Limits \subseteq Nat \ {0}
  BY GateAssumption DEF GateFor, NoGate
<1>4. r \notin Holders(o) /\ ~released[r]
  BY <1>1 DEF Holders, Holds, GateInv, ReleasedIsOver
<1> DEFINE I == [p \in Origins |-> Holders(p)]
           Q == [p \in Origins |-> gates[p].queue]
           B == [p \in Origins |-> gates[p].limit]
<1> HIDE DEF g
<1>5. ASSUME \A p \in Origins :
                gates'[p].limit = IF p = o THEN g.limit ELSE gates[p].limit
      PROVE  /\ B' = IF B[o] = 0 THEN [B EXCEPT ![o] = limit] ELSE B
             /\ B'[o] = g.limit
  <2>1. CASE gates[o].limit = 0
    BY <1>3, <1>5, <2>1
  <2>2. CASE gates[o].limit # 0
    BY <1>3, <1>5, <2>2
  <2> QED
    BY <2>1, <2>2
<1>6. g.limit \in Nat /\ g.inFlight \in Nat
  BY <1>2, <1>3
<1>7. CASE HasRoom(g)
  <2>1. /\ gates' = [gates EXCEPT ![o] = [g EXCEPT !.inFlight = g.inFlight + 1]]
        /\ at' = [at EXCEPT ![r] = "sending"]
    BY <1>7 DEF Post, g
  <2>2. g.queue = <<>>
    BY <1>1, <1>2, <1>3, <1>7 DEF GateOK, HasRoom
  <2>3. \A p \in Origins : Holders(p)' = IF p = o THEN Holders(p) \cup {r} ELSE Holders(p)
    BY <1>1, <1>4, <2>1 DEF TypeOK, Holders, Holds
  <2>4. \A p \in Origins : /\ gates'[p].queue = gates[p].queue
                          /\ gates'[p].limit = IF p = o THEN g.limit ELSE gates[p].limit
    BY <1>1, <1>2, <2>1 DEF TypeOK
  <2>5. Cardinality(Holders(o)) < g.limit
    BY <1>2, <1>7 DEF HasRoom
  <2>6. I' = [I EXCEPT ![o] = @ \cup {r}] /\ Q' = Q /\ Q[o] = <<>> /\ I[o] = Holders(o)
    BY <1>2, <2>2, <2>3, <2>4
  <2>7. /\ B' = IF B[o] = 0 THEN [B EXCEPT ![o] = limit] ELSE B
        /\ B'[o] = g.limit
    BY <1>5, <2>4
  <2>8. Budget!Fixes(o, limit)
    BY <2>7 DEF Budget!Fixes
  <2>9. Cardinality(I[o]) < B'[o]
    BY <2>5, <2>6, <2>7
  <2>10. Budget!Arrive(r, o, limit)
    BY <2>6, <2>8, <2>9, SameCount DEF Budget!Arrive
  <2> QED
    BY <2>10
<1>8. CASE ~HasRoom(g)
  <2>1. /\ gates' = [gates EXCEPT ![o] = [g EXCEPT !.queue = Append(g.queue, r)]]
        /\ at' = [at EXCEPT ![r] = "waiting"]
    BY <1>8 DEF Post, g
  <2>2. \A p \in Origins : Holders(p)' = Holders(p)
    BY <1>1, <1>4, <2>1 DEF TypeOK, Holders, Holds
  <2>3. \A p \in Origins :
            /\ gates'[p].queue = IF p = o THEN Append(gates[p].queue, r) ELSE gates[p].queue
            /\ gates'[p].limit = IF p = o THEN g.limit ELSE gates[p].limit
    BY <1>1, <1>2, <2>1 DEF TypeOK
  <2>4. Cardinality(Holders(o)) >= g.limit
    BY <1>2, <1>8, <1>6 DEF HasRoom
  <2>5. Q' = [Q EXCEPT ![o] = Append(@, r)] /\ I' = I /\ I[o] = Holders(o)
    BY <2>2, <2>3
  <2>6. /\ B' = IF B[o] = 0 THEN [B EXCEPT ![o] = limit] ELSE B
        /\ B'[o] = g.limit
    BY <1>5, <2>3
  <2>7. Budget!Fixes(o, limit)
    BY <2>6 DEF Budget!Fixes
  <2>8. Cardinality(I[o]) >= B'[o]
    BY <2>4, <2>5, <2>6
  <2>9. Budget!Arrive(r, o, limit)
    BY <2>5, <2>7, <2>8, SameCount DEF Budget!Arrive
  <2> QED
    BY <2>9
<1> QED
  BY <1>7, <1>8

\* A deadline in the queue is somebody giving up.
LEMMA DeadlineGivesUp ==
    ASSUME GateInv, NEW r \in Requests, DeadlineWhileWaiting(r)
    PROVE  \E o \in Origins : Budget!GiveUp(o)
<1> PICK o \in Origins : o = origin[r]
  BY DEF GateInv, TypeOK
<1> DEFINE q == gates[o].queue
<1>1. /\ TypeOK /\ q \in Seq(Requests) /\ IsInjective(q) /\ r \in ToSet(q)
      /\ at[r] = "waiting"
  BY DEF GateInv, GateOK, TypeOK, Waiters, DeadlineWhileWaiting
<1>2. PICK n \in DOMAIN q :
        Unqueued(q, r) = SubSeq(q, 1, n - 1) \o SubSeq(q, n + 1, Len(q))
  BY <1>1, UnqueuedLemma
<1>3. /\ gates' = [gates EXCEPT ![o].queue = Unqueued(q, r)]
      /\ at' = [at EXCEPT ![r] = "busy"]
      /\ origin' = origin /\ released' = released
  BY DEF DeadlineWhileWaiting
<1>4. \A p \in Origins : Holders(p)' = Holders(p)
  BY <1>1, <1>3 DEF TypeOK, Holders, Holds
<1>5. \A p \in Origins : /\ gates'[p].queue = IF p = o THEN Unqueued(q, r) ELSE gates[p].queue
                        /\ gates'[p].limit = gates[p].limit
  BY <1>1, <1>3 DEF TypeOK
<1> DEFINE Q == [p \in Origins |-> gates[p].queue]
<1>6. n \in DOMAIN Q[o]
  OBVIOUS
<1>7. Q' = [Q EXCEPT ![o] = SubSeq(@, 1, n - 1) \o SubSeq(@, n + 1, Len(@))]
  BY <1>2, <1>5
<1>8. Budget!GiveUp(o)
  BY <1>4, <1>5, <1>6, <1>7 DEF Budget!GiveUp
<1> QED
  BY <1>8

\* A release is a departure that lets the first in line in.
LEMMA ReleaseLeaves ==
    ASSUME GateInv, NEW r \in Requests, Release(r), ~released[r]
    PROVE  \E o \in Origins : Budget!Leave(r, o)
<1> PICK o \in Origins : o = origin[r]
  BY DEF GateInv, TypeOK
<1> DEFINE g == gates[o]
<1>1. /\ TypeOK /\ GateOK(o) /\ at[r] \in {"answered", "failed"} /\ origin' = origin
      /\ gates' = [gates EXCEPT ![o] = Freed(g)]
      /\ at' = [q \in Requests |->
              IF q \in Granted(g) /\ at[q] = "waiting" THEN "sending" ELSE at[q]]
      /\ released' = [released EXCEPT ![r] = TRUE]
  BY DEF GateInv, Release, AlreadyReleased
<1>2. r \in Holders(o)
  BY <1>1 DEF Holders, Holds
<1>3. g \in [limit : Limits \cup {0}, inFlight : Nat, queue : Seq(Requests)]
  BY <1>1 DEF TypeOK
<1>4. CASE g.queue = <<>>
  <2>1. \A p \in Origins : Holders(p)' = IF p = o THEN Holders(p) \ {r} ELSE Holders(p)
    BY <1>1, <1>4 DEF TypeOK, Granted, Holders, Holds
  <2>2. \A p \in Origins : /\ gates'[p].queue = gates[p].queue
                          /\ gates'[p].limit = gates[p].limit
    BY <1>1, <1>3, <1>4 DEF TypeOK, Freed
  <2>3. Budget!Leave(r, o)
    BY <1>2, <1>4, <2>1, <2>2 DEF Budget!Leave
  <2> QED
    BY <2>3
<1>5. CASE g.queue # <<>>
  <2> DEFINE h == Head(g.queue)
  <2>1. h \in ToSet(g.queue)
    BY <1>1, <1>3, <1>5, TailLemma DEF GateOK
  <2>2. h \in Requests /\ at[h] = "waiting" /\ origin[h] = o /\ ~released[h] /\ h # r
    BY <1>1, <2>1 DEF GateOK, Waiters, GateInv, ReleasedIsOver
  <2>3. \A p \in Origins :
            Holders(p)' = IF p = o THEN (Holders(p) \ {r}) \cup {h} ELSE Holders(p)
    BY <1>1, <1>5, <2>2 DEF TypeOK, Granted, Holders, Holds
  <2>4. \A p \in Origins :
            /\ gates'[p].queue = IF p = o THEN Tail(gates[p].queue) ELSE gates[p].queue
            /\ gates'[p].limit = gates[p].limit
    BY <1>1, <1>3, <1>5 DEF TypeOK, Freed
  <2>5. Budget!Leave(r, o)
    BY <1>2, <1>5, <2>3, <2>4 DEF Budget!Leave
  <2> QED
    BY <2>5
<1> QED
  BY <1>4, <1>5

\* Steps that change neither who is inside nor who waits are stutters.
LEMMA SilentSteps ==
    ASSUME GateInv, NEW r \in Requests,
           \/ UNCHANGED vars
           \/ \E outcome \in {"answered", "failed"} : SendEnds(r, outcome)
           \/ Release(r) /\ released[r]
    PROVE  UNCHANGED Budget!bvars
<1>1. gates' = gates /\ origin' = origin /\ released' = released
  BY DEF vars, SendEnds, Release, AlreadyReleased
<1>2. \A p \in Origins : Holders(p)' = Holders(p)
  <2>1. CASE at' = at
    BY <1>1, <2>1 DEF Holders, Holds
  <2>2. CASE \E outcome \in {"answered", "failed"} : SendEnds(r, outcome)
    BY <1>1, <2>2 DEF GateInv, TypeOK, ReleasedIsOver, SendEnds, Holders, Holds
  <2> QED
    BY <2>1, <2>2 DEF vars, Release, AlreadyReleased
<1> QED
  BY <1>1, <1>2 DEF Budget!bvars

\* The gate, its counter and its queue implement the abstract budget of ADR-0004:
\* first come, first served, and never more inside than the budget.
THEOREM Implements == Spec => ImplementsBudget
<1>1. Init => Budget!BInit
  <2> SUFFICES ASSUME Init PROVE Budget!BInit
    OBVIOUS
  <2>1. \A o \in Origins : Holders(o) = {} /\ gates[o] = NoGate
    BY DEF Init, Holders, Holds
  <2> QED
    BY <2>1 DEF Budget!BInit, NoGate
<1>2. GateInv /\ [Next]_vars => [Budget!BNext]_(Budget!bvars)
  <2> SUFFICES ASSUME GateInv, [Next]_vars PROVE [Budget!BNext]_(Budget!bvars)
    OBVIOUS
  <2>1. CASE UNCHANGED vars
    <3>1. \A p \in Origins : Holders(p)' = Holders(p)
      BY <2>1 DEF vars, Holders, Holds
    <3> QED
      BY <2>1, <3>1 DEF vars, Budget!bvars
  <2>2. ASSUME NEW r \in Requests, Step(r) PROVE [Budget!BNext]_(Budget!bvars)
    <3>1. CASE \E limit \in Limits : Post(r, limit)
      BY <3>1, PostArrives DEF Budget!BNext
    <3>2. CASE DeadlineWhileWaiting(r)
      BY <3>2, DeadlineGivesUp DEF Budget!BNext
    <3>3. CASE \E outcome \in {"answered", "failed"} : SendEnds(r, outcome)
      BY <3>3, SilentSteps
    <3>4. CASE Release(r) /\ released[r]
      BY <3>4, SilentSteps
    <3>5. CASE Release(r) /\ ~released[r]
      BY <3>5, ReleaseLeaves DEF Budget!BNext
    <3> QED
      BY <2>2, <3>1, <3>2, <3>3, <3>4, <3>5 DEF Step
  <2> QED
    BY <2>1, <2>2 DEF Next
<1> QED
  BY <1>1, <1>2, GateInvariant, PTL DEF Spec, ImplementsBudget, Budget!BSpec

=============================================================================
