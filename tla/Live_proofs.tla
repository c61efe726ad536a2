----------------------------- MODULE Live_proofs -----------------------------
(***************************************************************************)
(* Proofs about Live, for any pages, connections and bounds: the types of  *)
(* its state, and that the hub is never deaf.  A connection that was       *)
(* forgotten while it listens is never closed, so that a free one exists   *)
(* for every attempt is the larger part: each failure costs at most two.   *)
(***************************************************************************)
EXTENDS Live, FiniteSetTheorems, TLAPS

-----------------------------------------------------------------------------
(* The invariant.                                                          *)

\* Connections that nobody will use again: gone with an event to raise, or
\* open and unknown to the hub.
Stray == {c \in Conns : pending[c] # {} \/ (conn[c] # "closed" /\ c \notin {client, connecting})}

\* Those that still have both of their events to raise.
Erring == {c \in Conns : "error" \in pending[c]}

HubTypeOK ==
    /\ timer \in BOOLEAN /\ started \in BOOLEAN /\ breaks \in 0..MaxBreaks
    /\ client \in Conns \cup {None} /\ connecting \in Conns \cup {None}
    /\ conn \in [Conns -> ConnState] /\ pending \in [Conns -> SUBSET Event]

EventsOfTheGone == \A c \in Conns : pending[c] # {} => conn[c] = "closed"

OneAtATime ==
    /\ connecting # None => client = None /\ conn[connecting] \in {"opening", "open", "closed"}
    /\ client # None => conn[client] = "listening" \/ pending[client] # {}

Sought == started => client # None \/ connecting # None \/ timer

FewStray ==
    /\ IsFiniteSet(Stray) /\ IsFiniteSet(Erring)
    /\ Cardinality(Stray) + Cardinality(Erring) <= 2 * breaks

HubInv == HubTypeOK /\ EventsOfTheGone /\ OneAtATime /\ Sought /\ FewStray

-----------------------------------------------------------------------------
(* Counting.                                                               *)

\* A set that gained at most one element.
LEMMA AtMostOneMore ==
    ASSUME NEW S, NEW x, NEW T, IsFiniteSet(S), T \subseteq S \cup {x}
    PROVE  IsFiniteSet(T) /\ Cardinality(T) <= Cardinality(S) + 1
<1>1. Cardinality(S) \in Nat
  BY FS_CardinalityType
<1>2. /\ IsFiniteSet(S \cup {x})
      /\ Cardinality(S \cup {x}) = IF x \in S THEN Cardinality(S) ELSE Cardinality(S) + 1
  BY FS_AddElement
<1>3. IsFiniteSet(T) /\ Cardinality(T) <= Cardinality(S \cup {x})
  BY <1>2, FS_Subset
<1>4. Cardinality(T) \in Nat
  BY <1>3, FS_CardinalityType
<1> QED
  BY <1>1, <1>2, <1>3, <1>4

\* A set that lost an element.
LEMMA OneLess ==
    ASSUME NEW S, NEW y \in S, NEW T, IsFiniteSet(S), T \subseteq S \ {y}
    PROVE  IsFiniteSet(T) /\ Cardinality(T) <= Cardinality(S) - 1
<1>1. IsFiniteSet(S \ {y}) /\ Cardinality(S \ {y}) = Cardinality(S) - 1
  BY FS_RemoveElement
<1>2. IsFiniteSet(T) /\ Cardinality(T) <= Cardinality(S \ {y})
  BY <1>1, FS_Subset
<1> QED
  BY <1>1, <1>2

\* A set in which one element gave way to another.
LEMMA OneReplaced ==
    ASSUME NEW S, NEW y \in S, NEW x, NEW T, IsFiniteSet(S), T \subseteq (S \ {y}) \cup {x}
    PROVE  IsFiniteSet(T) /\ Cardinality(T) <= Cardinality(S)
<1> DEFINE U == S \ {y}
<1>1. IsFiniteSet(U) /\ Cardinality(U) <= Cardinality(S) - 1
  BY OneLess
<1>2. T \subseteq U \cup {x}
  OBVIOUS
<1> HIDE DEF U
<1>3. IsFiniteSet(T) /\ Cardinality(T) <= Cardinality(U) + 1
  BY <1>1, <1>2, AtMostOneMore
<1>4. Cardinality(S) \in Nat /\ Cardinality(U) \in Nat /\ Cardinality(T) \in Nat
  BY <1>1, <1>3, FS_CardinalityType
<1> QED
  BY <1>1, <1>3, <1>4

\* A hub with neither client nor attempt finds a connection to make.
LEMMA SpareExists ==
    ASSUME HubInv, client = None, connecting = None
    PROVE  /\ Spare \in Conns /\ Spare # None
           /\ conn[Spare] = "closed" /\ pending[Spare] = {}
<1>1. IsFiniteSet(Stray) /\ Cardinality(Stray) <= 2 * MaxBreaks
  <2>1. IsFiniteSet(Stray) /\ Cardinality(Stray) \in Nat /\ Cardinality(Erring) \in Nat
    BY FS_CardinalityType DEF HubInv, FewStray
  <2> QED
    BY <2>1, LiveAssumption DEF HubInv, FewStray, HubTypeOK, LiveAssumption
<1>2. Stray # Conns
  <2>1. SUFFICES ASSUME Stray = Conns PROVE FALSE
    OBVIOUS
  <2>2. IsFiniteSet(Conns) /\ Cardinality(Conns) <= 2 * MaxBreaks
    BY <1>1, <2>1
  <2>3. Cardinality(Conns) \in Nat
    BY <2>2, FS_CardinalityType
  <2> QED
    BY <2>2, <2>3, LiveAssumption DEF LiveAssumption
<1>3. PICK c \in Conns : c \notin Stray
  BY <1>2 DEF Stray
<1>4. conn[c] = "closed" /\ pending[c] = {}
  BY <1>3, LiveAssumption DEF Stray, LiveAssumption
<1>5. Spare \in Conns /\ conn[Spare] = "closed" /\ pending[Spare] = {}
  BY <1>4 DEF Spare
<1> QED
  BY <1>5, LiveAssumption DEF LiveAssumption

-----------------------------------------------------------------------------
(* The steps of the hub.                                                   *)

\* A hub nobody subscribed to owes nothing.
LEMMA HubInit == Init => HubInv
<1> SUFFICES ASSUME Init PROVE HubInv
  OBVIOUS
<1>1. /\ client = None /\ connecting = None /\ timer = FALSE /\ started = FALSE /\ breaks = 0
      /\ conn = [c \in Conns |-> "closed"] /\ pending = [c \in Conns |-> {}]
      /\ MaxBreaks \in Nat
  BY LiveAssumption DEF Init, LiveAssumption
<1>4. HubTypeOK
  <2>1. conn \in [Conns -> ConnState] /\ pending \in [Conns -> SUBSET Event]
    BY <1>1 DEF ConnState
  <2>2. timer \in BOOLEAN /\ started \in BOOLEAN
    BY <1>1, Zenon
  <2>3. breaks \in 0..MaxBreaks
    BY <1>1
  <2> QED
    BY <1>1, <2>1, <2>2, <2>3, Zenon DEF HubTypeOK
<1>5. EventsOfTheGone /\ OneAtATime /\ Sought
  BY <1>1 DEF EventsOfTheGone, OneAtATime, Sought
<1>2. Stray = {} /\ Erring = {} /\ breaks = 0
  BY DEF Init, Stray, Erring
<1>3. FewStray
  BY <1>2, FS_EmptySet DEF FewStray
<1> QED
  BY <1>3, <1>4, <1>5 DEF HubInv

\* What happens elsewhere leaves the hub alone, even when it is a failure.
LEMMA HubRests ==
    ASSUME HubInv, UNCHANGED hub, UNCHANGED breaks \/ Break
    PROVE  HubInv'
<1>1. /\ UNCHANGED <<client, connecting, timer, conn, pending, started>>
      /\ breaks' = breaks \/ (breaks' = breaks + 1 /\ breaks < MaxBreaks)
  BY DEF hub, Break
<1>2. /\ breaks \in Nat /\ breaks' \in 0..MaxBreaks /\ breaks <= breaks'
  BY <1>1, LiveAssumption DEF HubInv, HubTypeOK, LiveAssumption
<1>3. HubTypeOK' /\ EventsOfTheGone' /\ OneAtATime' /\ Sought'
  BY <1>1, <1>2 DEF HubInv, HubTypeOK, EventsOfTheGone, OneAtATime, Sought
<1>4. Stray' = Stray /\ Erring' = Erring
  BY <1>1 DEF Stray, Erring
<1>5. FewStray'
  <2>1. Cardinality(Stray) \in Nat /\ Cardinality(Erring) \in Nat
    BY FS_CardinalityType DEF HubInv, FewStray
  <2> QED
    BY <1>2, <1>4, <2>1 DEF HubInv, FewStray, HubTypeOK
<1> QED
  BY <1>3, <1>5 DEF HubInv

\* A call of ensureClient, by a subscriber or the timer, finds the hub busy or
\* makes it so; the connection it takes was nobody's.
LEMMA HubEnsured ==
    ASSUME HubInv, EnsureClient, UNCHANGED <<client, pending, breaks>>,
           timer' \in BOOLEAN, started' \in BOOLEAN
    PROVE  HubInv'
<1>1. CASE Busy
  <2>1. UNCHANGED <<client, connecting, conn, pending, breaks>>
    BY <1>1 DEF EnsureClient
  <2>2. HubTypeOK' /\ EventsOfTheGone' /\ OneAtATime' /\ Sought'
    BY <1>1, <2>1 DEF HubInv, HubTypeOK, EventsOfTheGone, OneAtATime, Sought, Busy
  <2>3. Stray' = Stray /\ Erring' = Erring
    BY <2>1 DEF Stray, Erring
  <2> QED
    BY <2>1, <2>2, <2>3 DEF HubInv, FewStray
<1>2. CASE ~Busy
  <2>1. /\ client = None /\ connecting = None
        /\ connecting' = Spare /\ conn' = [conn EXCEPT ![Spare] = "opening"]
    BY <1>2 DEF Busy, EnsureClient
  <2>2. Spare \in Conns /\ Spare # None /\ conn[Spare] = "closed" /\ pending[Spare] = {}
    BY <2>1, SpareExists
  <2> HIDE DEF Spare
  <2>3. HubTypeOK'
    BY <2>1, <2>2 DEF HubInv, HubTypeOK, ConnState
  <2>4. EventsOfTheGone'
    BY <2>1, <2>2 DEF HubInv, HubTypeOK, EventsOfTheGone
  <2>5. OneAtATime' /\ Sought'
    BY <2>1, <2>2 DEF HubInv, HubTypeOK, OneAtATime, Sought
  <2>6. Stray' = Stray /\ Erring' = Erring
    BY <2>1, <2>2, LiveAssumption DEF Stray, Erring, HubInv, HubTypeOK, LiveAssumption
  <2> QED
    BY <2>3, <2>4, <2>5, <2>6 DEF HubInv, FewStray
<1> QED
  BY <1>1, <1>2

\* A connection that opens is still the attempt's.
LEMMA HubConnected == HubInv /\ Connected => HubInv'
<1> SUFFICES ASSUME HubInv, Connected PROVE HubInv'
  OBVIOUS
<1>1. /\ connecting \in Conns /\ conn[connecting] = "opening"
      /\ conn' = [conn EXCEPT ![connecting] = "open"]
      /\ UNCHANGED <<client, connecting, timer, pending, started, breaks>>
  BY DEF Connected, HubInv, HubTypeOK
<1>2. HubTypeOK' /\ EventsOfTheGone' /\ OneAtATime' /\ Sought'
  BY <1>1 DEF HubInv, HubTypeOK, EventsOfTheGone, OneAtATime, Sought, ConnState
<1>3. Stray' = Stray /\ Erring' = Erring
  BY <1>1 DEF Stray, Erring, HubInv, HubTypeOK
<1> QED
  BY <1>1, <1>2, <1>3 DEF HubInv, FewStray

\* An attempt that succeeds leaves the one client that hears.
LEMMA HubEstablished == HubInv /\ Established => HubInv'
<1> SUFFICES ASSUME HubInv, Established PROVE HubInv'
  OBVIOUS
<1>1. /\ connecting \in Conns /\ conn[connecting] = "open" /\ client = None
      /\ conn' = [conn EXCEPT ![connecting] = "listening"]
      /\ client' = connecting /\ connecting' = None
      /\ UNCHANGED <<timer, pending, started, breaks>>
  BY DEF Established, HubInv, HubTypeOK, OneAtATime
<1>2. HubTypeOK' /\ EventsOfTheGone' /\ OneAtATime' /\ Sought'
  BY <1>1, LiveAssumption
  DEF HubInv, HubTypeOK, EventsOfTheGone, OneAtATime, Sought, ConnState, LiveAssumption
<1>3. Stray' = Stray /\ Erring' = Erring
  BY <1>1, LiveAssumption DEF Stray, Erring, HubInv, HubTypeOK, LiveAssumption
<1> QED
  BY <1>1, <1>2, <1>3 DEF HubInv, FewStray

\* An attempt that fails leaves a timer, and at most one connection more that is astray.
LEMMA HubAttemptFails == HubInv /\ AttemptFails => HubInv'
<1> SUFFICES ASSUME HubInv, AttemptFails PROVE HubInv'
  OBVIOUS
<1>1. /\ connecting \in Conns /\ client = None /\ client' = None /\ connecting' = None
      /\ timer' = TRUE /\ UNCHANGED started
  BY DEF AttemptFails, ScheduleReconnect, HubInv, HubTypeOK, OneAtATime
<1>2. CASE conn[connecting] = "closed" /\ UNCHANGED <<conn, pending, breaks>>
  <2>1. HubTypeOK' /\ EventsOfTheGone' /\ OneAtATime' /\ Sought'
    BY <1>1, <1>2 DEF HubInv, HubTypeOK, EventsOfTheGone, OneAtATime, Sought
  <2>2. Stray' = Stray /\ Erring' = Erring
    BY <1>1, <1>2 DEF Stray, Erring
  <2> QED
    BY <1>2, <2>1, <2>2 DEF HubInv, FewStray
<1>3. ASSUME Break,
             \/ /\ conn[connecting] = "opening"
                /\ conn' = [conn EXCEPT ![connecting] = "closed"]
                /\ pending' = [pending EXCEPT ![connecting] = {"end"}]
             \/ /\ conn[connecting] = "open" /\ UNCHANGED pending
                /\ conn' = [conn EXCEPT ![connecting] = "deaf"]
      PROVE  HubInv'
  <2>1. breaks \in Nat /\ breaks' = breaks + 1 /\ breaks' \in 0..MaxBreaks
    BY <1>3, LiveAssumption DEF Break, HubInv, HubTypeOK, LiveAssumption
  <2>2. HubTypeOK'
    BY <1>1, <1>3, <2>1 DEF HubInv, HubTypeOK, ConnState, Event
  <2>3. EventsOfTheGone' /\ OneAtATime' /\ Sought'
    BY <1>1, <1>3 DEF HubInv, HubTypeOK, EventsOfTheGone, OneAtATime, Sought
  <2>4. Stray' \subseteq Stray \cup {connecting} /\ Erring' \subseteq Erring \cup {connecting}
    BY <1>1, <1>3 DEF Stray, Erring, HubInv, HubTypeOK
  <2>5. FewStray'
    <3>1. IsFiniteSet(Stray') /\ Cardinality(Stray') <= Cardinality(Stray) + 1
      BY <2>4, AtMostOneMore DEF HubInv, FewStray
    <3>2. IsFiniteSet(Erring') /\ Cardinality(Erring') <= Cardinality(Erring) + 1
      BY <2>4, AtMostOneMore DEF HubInv, FewStray
    <3>3. Cardinality(Stray) \in Nat /\ Cardinality(Erring) \in Nat /\ Cardinality(Stray') \in Nat /\ Cardinality(Erring') \in Nat
      BY <3>1, <3>2, FS_CardinalityType DEF HubInv, FewStray
    <3> QED
      BY <2>1, <3>1, <3>2, <3>3 DEF HubInv, FewStray
  <2> QED
    BY <2>2, <2>3, <2>5 DEF HubInv
<1> QED
  BY <1>2, <1>3 DEF AttemptFails

\* A connection that breaks leaves its events to raise, which will be told to the hub.
LEMMA HubBreaks ==
    ASSUME HubInv, NEW c \in Conns, ConnectionBreaks(c)
    PROVE  HubInv'
<1>1. /\ conn[c] \in {"open", "listening", "deaf"}
      /\ conn' = [conn EXCEPT ![c] = "closed"] /\ pending' = [pending EXCEPT ![c] = Event]
      /\ UNCHANGED <<client, connecting, timer, started>>
  BY DEF ConnectionBreaks
<1>2. breaks \in Nat /\ breaks' = breaks + 1 /\ breaks' \in 0..MaxBreaks
  BY LiveAssumption DEF ConnectionBreaks, Break, HubInv, HubTypeOK, LiveAssumption
<1>3. HubTypeOK'
  BY <1>1, <1>2 DEF HubInv, HubTypeOK, ConnState
<1>4. EventsOfTheGone' /\ OneAtATime' /\ Sought'
  BY <1>1 DEF HubInv, HubTypeOK, EventsOfTheGone, OneAtATime, Sought, Event
<1>5. Stray' \subseteq Stray \cup {c} /\ Erring' \subseteq Erring \cup {c}
  BY <1>1 DEF Stray, Erring, HubInv, HubTypeOK
<1>6. FewStray'
  <2>1. IsFiniteSet(Stray') /\ Cardinality(Stray') <= Cardinality(Stray) + 1
    BY <1>5, AtMostOneMore DEF HubInv, FewStray
  <2>2. IsFiniteSet(Erring') /\ Cardinality(Erring') <= Cardinality(Erring) + 1
    BY <1>5, AtMostOneMore DEF HubInv, FewStray
  <2>3. Cardinality(Stray) \in Nat /\ Cardinality(Erring) \in Nat /\ Cardinality(Stray') \in Nat /\ Cardinality(Erring') \in Nat
    BY <2>1, <2>2, FS_CardinalityType DEF HubInv, FewStray
  <2> QED
    BY <1>2, <2>1, <2>2, <2>3 DEF HubInv, FewStray
<1> QED
  BY <1>3, <1>4, <1>6 DEF HubInv

\* An event may cost the hub a client that hears, and pays for it itself.
LEMMA HubRaised ==
    ASSUME HubInv, NEW c \in Conns, Raised(c)
    PROVE  HubInv'
<1>1. /\ pending[c] # {} /\ conn[c] = "closed"
      /\ pending' = [pending EXCEPT ![c] = IF "error" \in pending[c] THEN {"end"} ELSE {}]
      /\ client' = None /\ timer' = (timer \/ connecting = None)
      /\ UNCHANGED <<connecting, conn, started, breaks>>
  BY DEF Raised, ScheduleReconnect, HubInv, EventsOfTheGone
<1>2. HubTypeOK'
  BY <1>1 DEF HubInv, HubTypeOK, Event
<1>3. EventsOfTheGone' /\ OneAtATime' /\ Sought'
  BY <1>1 DEF HubInv, HubTypeOK, EventsOfTheGone, OneAtATime, Sought
<1>4. \/ Stray' \subseteq Stray \cup {client} /\ c \in Erring /\ Erring' \subseteq Erring \ {c}
      \/ /\ Stray' \subseteq (Stray \ {c}) \cup {client} /\ c \in Stray
         /\ Erring' \subseteq Erring
  <2>1. CASE "error" \in pending[c]
    BY <1>1, <2>1 DEF Stray, Erring, HubInv, HubTypeOK
  <2>2. CASE "error" \notin pending[c]
    BY <1>1, <2>2 DEF Stray, Erring, HubInv, HubTypeOK
  <2> QED
    BY <2>1, <2>2
<1>5. breaks \in Nat
  BY LiveAssumption DEF HubInv, HubTypeOK, LiveAssumption
<1>6. FewStray'
  <2>1. IsFiniteSet(Stray) /\ IsFiniteSet(Erring)
    BY DEF HubInv, FewStray
  <2>2. /\ IsFiniteSet(Stray') /\ IsFiniteSet(Erring')
        /\ \/ /\ Cardinality(Stray') <= Cardinality(Stray) + 1
              /\ Cardinality(Erring') <= Cardinality(Erring) - 1
           \/ /\ Cardinality(Stray') <= Cardinality(Stray)
              /\ Cardinality(Erring') <= Cardinality(Erring)
    <3>1. CASE /\ Stray' \subseteq Stray \cup {client} /\ c \in Erring
               /\ Erring' \subseteq Erring \ {c}
      <4>1. IsFiniteSet(Stray') /\ Cardinality(Stray') <= Cardinality(Stray) + 1
        BY <2>1, <3>1, AtMostOneMore
      <4>2. IsFiniteSet(Erring') /\ Cardinality(Erring') <= Cardinality(Erring) - 1
        BY <2>1, <3>1, OneLess
      <4> QED
        BY <4>1, <4>2
    <3>2. CASE /\ Stray' \subseteq (Stray \ {c}) \cup {client} /\ c \in Stray
               /\ Erring' \subseteq Erring
      <4>1. IsFiniteSet(Stray') /\ Cardinality(Stray') <= Cardinality(Stray)
        BY <2>1, <3>2, OneReplaced
      <4>2. IsFiniteSet(Erring') /\ Cardinality(Erring') <= Cardinality(Erring)
        BY <2>1, <3>2, FS_Subset
      <4> QED
        BY <4>1, <4>2
    <3> QED
      BY <1>4, <3>1, <3>2
  <2>3. /\ Cardinality(Stray) \in Nat /\ Cardinality(Erring) \in Nat
        /\ Cardinality(Stray') \in Nat /\ Cardinality(Erring') \in Nat
    BY <2>1, <2>2, FS_CardinalityType
  <2> QED
    BY <1>1, <1>5, <2>2, <2>3 DEF HubInv, FewStray
<1> QED
  BY <1>2, <1>3, <1>6 DEF HubInv

\* Every step keeps the hub heard, on the way to it, or about to be told.
LEMMA HubStep == HubInv /\ [Next]_vars => HubInv'
<1> SUFFICES ASSUME HubInv, [Next]_vars PROVE HubInv'
  OBVIOUS
<1>1. CASE Flip
  BY <1>1, HubRests DEF Flip
<1>2. CASE PollStep
  BY <1>2, HubRests DEF PollStep, Poll, Notify
<1>3. CASE TimerFires
  <2>1. started \in BOOLEAN
    BY DEF HubInv, HubTypeOK
  <2> QED
    BY <1>3, <2>1, HubEnsured DEF TimerFires
<1>4. CASE AttemptStep
  BY <1>4, HubConnected, HubEstablished, HubAttemptFails DEF AttemptStep
<1>5. ASSUME NEW c \in Conns, ConnectionBreaks(c) \/ Raised(c) PROVE HubInv'
  BY <1>5, HubBreaks, HubRaised
<1>6. ASSUME NEW p \in Pages, Subscribe(p) PROVE HubInv'
  <2>1. timer \in BOOLEAN
    BY DEF HubInv, HubTypeOK
  <2> QED
    BY <1>6, <2>1, HubEnsured DEF Subscribe
<1>7. ASSUME NEW p \in Pages,
             \/ Open(p) \/ Refused(p) \/ StreamBreaks(p) \/ Leave(p)
             \/ OnMessage(p) \/ Refresh(p) \/ Render(p) \/ Paint(p)
      PROVE  HubInv'
  BY <1>7, HubRests DEF Open, Refused, StreamBreaks, Leave, OnMessage, Refresh, Render, Paint
<1>8. CASE UNCHANGED vars
  BY <1>8, HubRests DEF vars
<1> QED
  BY <1>1, <1>2, <1>3, <1>4, <1>5, <1>6, <1>7, <1>8 DEF Next, PageStep

\* The hub is never deaf once a page has subscribed, however many connections
\* break or are refused and in whatever order their events are raised: it has a
\* client that hears or is about to be told, an attempt, or its timer.
THEOREM HubIsNeverDeaf == Spec => []NeverDeaf
<1>1. HubInv => NeverDeaf
  BY LiveAssumption
  DEF HubInv, HubTypeOK, OneAtATime, Sought, NeverDeaf, LiveAssumption
<1> QED
  BY <1>1, HubInit, HubStep, PTL DEF Spec

\* There is always a connection left for the next attempt: the connections that
\* the hub forgets while they are open are at most two for each failure.
THEOREM StrayAreFew == Spec => [](Cardinality(Stray) <= 2 * breaks)
<1>1. HubInv => Cardinality(Stray) <= 2 * breaks
  <2> SUFFICES ASSUME HubInv PROVE Cardinality(Stray) <= 2 * breaks
    OBVIOUS
  <2>1. Cardinality(Stray) \in Nat /\ Cardinality(Erring) \in Nat
    BY FS_CardinalityType DEF HubInv, FewStray
  <2>2. breaks \in Nat
    BY LiveAssumption DEF HubInv, HubTypeOK, LiveAssumption
  <2> QED
    BY <2>1, <2>2 DEF HubInv, FewStray
<1> QED
  BY <1>1, HubInit, HubStep, PTL DEF Spec

-----------------------------------------------------------------------------
(* The types.                                                              *)

WorldTypeOK ==
    /\ truth \in BOOLEAN /\ cache \in Found
    /\ flips \in 0..MaxFlips /\ polling \in {"idle", "written"}

PageTypeOK ==
    /\ stream \in [Pages -> {"closed", "connecting", "open", "refused"}]
    /\ message \in [Pages -> BOOLEAN] /\ debounce \in [Pages -> BOOLEAN]
    /\ asked \in [Pages -> [state : {"no", "sent", "read"}, found : Found]]
    /\ shown \in [Pages -> Found]

Quiet(p) == ~message[p] /\ ~debounce[p] /\ asked[p] = NotAsked /\ shown[p] = None
QuietWhenClosed == \A p \in Pages : stream[p] = "closed" => Quiet(p)

TypeInv == WorldTypeOK /\ PageTypeOK /\ QuietWhenClosed

\* A page nobody opened is well typed.
LEMMA TypeInit == Init => TypeInv
<1> SUFFICES ASSUME Init PROVE TypeInv
  OBVIOUS
<1>1. WorldTypeOK
  BY LiveAssumption DEF Init, WorldTypeOK, Found, LiveAssumption
<1>2. PageTypeOK
  BY DEF Init, PageTypeOK, Found, NotAsked
<1>3. QuietWhenClosed
  BY DEF Init, QuietWhenClosed, Quiet
<1> QED
  BY <1>1, <1>2, <1>3 DEF TypeInv

\* Every step keeps the types of hub, stream and page.
LEMMA TypeStep == TypeInv /\ [Next]_vars => TypeInv'
<1> SUFFICES ASSUME TypeInv, [Next]_vars PROVE TypeInv'
  OBVIOUS
<1> USE DEF TypeInv
<1>1. ASSUME UNCHANGED pages PROVE PageTypeOK' /\ QuietWhenClosed'
  BY <1>1 DEF pages, PageTypeOK, QuietWhenClosed, Quiet
<1>2. ASSUME UNCHANGED world PROVE WorldTypeOK'
  BY <1>2 DEF world, WorldTypeOK
<1>3. CASE Flip
  <2>1. WorldTypeOK'
    BY <1>3, LiveAssumption DEF Flip, WorldTypeOK, LiveAssumption
  <2> QED
    BY <1>1, <1>3, <2>1 DEF Flip
<1>4. CASE Poll
  <2>1. WorldTypeOK'
    BY <1>4 DEF Poll, WorldTypeOK, Found
  <2> QED
    BY <1>1, <1>4, <2>1 DEF Poll
<1>5. CASE Notify
  <2>1. WorldTypeOK'
    BY <1>5 DEF Notify, WorldTypeOK
  <2>2. PageTypeOK'
    BY <1>5 DEF Notify, PageTypeOK
  <2>3. QuietWhenClosed'
    BY <1>5 DEF Notify, Hears, QuietWhenClosed, Quiet, PageTypeOK
  <2> QED
    BY <2>1, <2>2, <2>3
<1>6. CASE TimerFires \/ AttemptStep \/ \E c \in Conns : ConnectionBreaks(c) \/ Raised(c)
  <2>1. UNCHANGED pages /\ UNCHANGED world
    BY <1>6
    DEF TimerFires, AttemptStep, Connected, Established, AttemptFails, ConnectionBreaks, Raised
  <2> QED
    BY <1>1, <1>2, <2>1
<1>7. ASSUME NEW p \in Pages, Open(p) \/ Subscribe(p) \/ Refused(p) \/ StreamBreaks(p) PROVE TypeInv'
  <2>1. UNCHANGED world
    BY <1>7 DEF Open, Subscribe, Refused, StreamBreaks
  <2>2. PageTypeOK'
    <3>1. CASE Open(p)
      BY <3>1 DEF Open, PageTypeOK, WorldTypeOK
    <3>2. CASE Subscribe(p)
      BY <3>2 DEF Subscribe, PageTypeOK
    <3>3. CASE StreamBreaks(p)
      BY <3>3 DEF StreamBreaks, PageTypeOK
    <3>4. CASE Refused(p)
      BY <3>4 DEF Refused, PageTypeOK
    <3> QED
      BY <1>7, <3>1, <3>2, <3>3, <3>4
  <2>3. QuietWhenClosed'
    BY <1>7 DEF Open, Subscribe, Refused, StreamBreaks, QuietWhenClosed, Quiet, PageTypeOK
  <2> QED
    BY <1>2, <2>1, <2>2, <2>3
<1>8. ASSUME NEW p \in Pages, OnMessage(p) \/ Refresh(p) \/ Render(p) \/ Paint(p) PROVE TypeInv'
  <2>1. UNCHANGED world
    BY <1>8 DEF OnMessage, Refresh, Render, Paint
  <2>2. PageTypeOK'
    <3>1. CASE OnMessage(p)
      BY <3>1 DEF OnMessage, PageTypeOK
    <3>2. CASE Refresh(p)
      BY <3>2 DEF Refresh, PageTypeOK, Found
    <3>3. CASE Render(p)
      BY <3>3 DEF Render, PageTypeOK, WorldTypeOK
    <3>4. CASE Paint(p)
      BY <3>4 DEF Paint, PageTypeOK, Found, NotAsked
    <3> QED
      BY <1>8, <3>1, <3>2, <3>3, <3>4
  <2>3. stream[p] # "closed"
    BY <1>8 DEF OnMessage, Refresh, Render, Paint, QuietWhenClosed, Quiet, NotAsked
  <2>4. QuietWhenClosed'
    BY <1>8, <2>3 DEF OnMessage, Refresh, Render, Paint, QuietWhenClosed, Quiet, PageTypeOK
  <2> QED
    BY <1>2, <2>1, <2>2, <2>4
<1>9. ASSUME NEW p \in Pages, Leave(p) PROVE TypeInv'
  <2>1. UNCHANGED world
    BY <1>9 DEF Leave
  <2>2. PageTypeOK'
    BY <1>9 DEF Leave, PageTypeOK, Found, NotAsked
  <2>3. QuietWhenClosed'
    BY <1>9 DEF Leave, QuietWhenClosed, Quiet, PageTypeOK
  <2> QED
    BY <1>2, <2>1, <2>2, <2>3
<1>10. CASE UNCHANGED vars
  BY <1>1, <1>2, <1>10 DEF vars
<1> QED
  BY <1>3, <1>4, <1>5, <1>6, <1>7, <1>8, <1>9, <1>10 DEF Next, PollStep, PageStep

\* The state always has its types, and a page that was left keeps nothing that
\* could still fire: no message, no timer, no answer.
THEOREM TypeCorrect == Spec => []LiveTypeOK
<1>1. HubInv /\ TypeInv => LiveTypeOK
  BY DEF HubInv, HubTypeOK, TypeInv, WorldTypeOK, PageTypeOK, QuietWhenClosed, Quiet, LiveTypeOK
<1> QED
  BY <1>1, HubInit, HubStep, TypeInit, TypeStep, PTL DEF Spec

=============================================================================
