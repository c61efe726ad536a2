-------------------------------- MODULE Live ---------------------------------
(***************************************************************************)
(* From a poll to the page: a refresh writes the status cache and sends a  *)
(* NOTIFY (src/src/lib/servers/status.ts, realtime/notify.ts), the hub of  *)
(* the web process hears it on a LISTEN connection (realtime/server-       *)
(* events.ts), the SSE route passes it on (app/api/sse/servers/route.ts),  *)
(* and the page reads the cache again a moment later (components/servers/  *)
(* servers-live.tsx).  A NOTIFY nobody listens to is lost, and no message  *)
(* says what changed: the page shows what the cache holds when it asks.    *)
(***************************************************************************)
EXTENDS Naturals, FiniteSets

CONSTANTS
    Pages,      \* browser pages on the list of servers
    Conns,      \* LISTEN connections that may exist at once
    None,
    MaxFlips,   \* bound: changes of what a poll finds
    MaxBreaks   \* bound: connections, streams and queries that fail

ASSUME LiveAssumption ==
    /\ None \notin Pages \cup Conns /\ {MaxFlips, MaxBreaks} \subseteq Nat
    /\ Cardinality(Conns) > 2 * MaxBreaks

VARIABLES
    truth, flips,       \* whether the server answers a poll now
    cache, polling,     \* its cached status; what the poll under way has done
    client, connecting, \* the hub: its client, the connection being made
    timer,              \* its reconnectTimer is set
    conn, pending,      \* connections: state, and events not yet raised
    started,            \* some page has subscribed
    stream,             \* pages: their EventSource
    message, debounce,  \* pages: messages on their way, the timer they set
    asked, shown,       \* pages: the answer of a refresh, what is on screen
    breaks

hub == <<client, connecting, timer, conn, pending, started>>
pages == <<stream, message, debounce, asked, shown>>
world == <<truth, flips, cache, polling>>
vars == <<world, hub, pages, breaks>>

ConnState == {"closed", "opening", "open", "listening", "deaf"}
Event == {"error", "end"}
NotAsked == [state |-> "no", found |-> None]

Init ==
    /\ truth \in BOOLEAN /\ flips = 0 /\ cache = None /\ polling = "idle"
    /\ client = None /\ connecting = None /\ timer = FALSE
    /\ conn = [c \in Conns |-> "closed"] /\ pending = [c \in Conns |-> {}]
    /\ started = FALSE
    /\ stream = [p \in Pages |-> "closed"]
    /\ message = [p \in Pages |-> FALSE] /\ debounce = [p \in Pages |-> FALSE]
    /\ asked = [p \in Pages |-> NotAsked] /\ shown = [p \in Pages |-> None]
    /\ breaks = 0

\* Something outside fails.
Break == breaks < MaxBreaks /\ breaks' = breaks + 1

(***************************************************************************)
(* Polls.                                                                  *)
(***************************************************************************)

Flip ==
    /\ flips < MaxFlips /\ flips' = flips + 1 /\ truth' = ~truth
    /\ UNCHANGED <<cache, polling, hub, pages, breaks>>

\* The cycle never ends; a poll that finds what is cached already writes it again.
Poll ==
    /\ polling = "idle" /\ polling' = "written"
    /\ cache' = truth
    /\ UNCHANGED <<truth, flips, hub, pages, breaks>>

Listening == {c \in Conns : conn[c] = "listening"}
Hears(p) == stream[p] = "open" /\ Listening # {}

\* Every connection that listens raises the event, and every stream that is
\* open carries it; a page only learns that there is something to read.  A
\* query that fails costs the message and nothing else.
Notify ==
    /\ polling = "written" /\ polling' = "idle"
    /\ \/ message' = [p \in Pages |-> message[p] \/ Hears(p)] /\ UNCHANGED breaks
       \/ Break /\ UNCHANGED message
    /\ UNCHANGED <<truth, flips, cache, hub, stream, debounce, asked, shown>>

(***************************************************************************)
(* The hub.                                                                *)
(***************************************************************************)

\* ensureClient, when neither a client nor an attempt is there.
Busy == client # None \/ connecting # None
Spare == CHOOSE c \in Conns : conn[c] = "closed" /\ pending[c] = {}
EnsureClient ==
    IF Busy THEN UNCHANGED <<connecting, conn>>
    ELSE connecting' = Spare /\ conn' = [conn EXCEPT ![Spare] = "opening"]

\* scheduleReconnect, with the client and the attempt as the caller leaves them.
ScheduleReconnect(cl, attempt) == timer' = (timer \/ (cl = None /\ attempt = None))

TimerFires ==
    /\ timer /\ timer' = FALSE
    /\ EnsureClient
    /\ UNCHANGED <<world, client, pending, started, pages, breaks>>

Connected ==
    /\ connecting # None /\ conn[connecting] = "opening"
    /\ conn' = [conn EXCEPT ![connecting] = "open"]
    /\ UNCHANGED <<world, client, connecting, timer, pending, started, pages, breaks>>

\* LISTEN is answered: from here on this is the client.
Established ==
    /\ connecting # None /\ conn[connecting] = "open"
    /\ conn' = [conn EXCEPT ![connecting] = "listening"]
    /\ client' = connecting /\ connecting' = None
    /\ UNCHANGED <<world, timer, pending, started, pages, breaks>>

\* Wrong on purpose: an attempt that failed is not tried again.
GiveUp ==
    /\ connecting # None /\ connecting' = None /\ timer' = timer
    /\ \/ /\ Break
          /\ IF conn[connecting] = "opening"
             THEN /\ conn' = [conn EXCEPT ![connecting] = "closed"]
                  /\ pending' = [pending EXCEPT ![connecting] = {"end"}]
             ELSE /\ conn[connecting] = "open" /\ UNCHANGED pending
                  /\ conn' = [conn EXCEPT ![connecting] = "deaf"]
       \/ conn[connecting] = "closed" /\ UNCHANGED <<conn, pending, breaks>>
    /\ UNCHANGED <<world, client, started, pages>>

\* The attempt fails.  Without an answer the connection ends; one whose LISTEN
\* is refused stays open, registered and deaf; one that broke is gone already.
AttemptFails ==
    /\ connecting # None /\ connecting' = None
    /\ ScheduleReconnect(client, None)
    /\ \/ /\ Break
          /\ IF conn[connecting] = "opening"
             THEN /\ conn' = [conn EXCEPT ![connecting] = "closed"]
                  /\ pending' = [pending EXCEPT ![connecting] = {"end"}]
             ELSE /\ conn[connecting] = "open" /\ UNCHANGED pending
                  /\ conn' = [conn EXCEPT ![connecting] = "deaf"]
       \/ conn[connecting] = "closed" /\ UNCHANGED <<conn, pending, breaks>>
    /\ UNCHANGED <<world, client, started, pages>>

ConnectionBreaks(c) ==
    /\ conn[c] \in {"open", "listening", "deaf"} /\ Break
    /\ conn' = [conn EXCEPT ![c] = "closed"]
    /\ pending' = [pending EXCEPT ![c] = Event]
    /\ UNCHANGED <<world, client, connecting, timer, started, pages>>

\* Its events are raised, the error first.  dropClient forgets the client there
\* is, whichever connection the event belongs to.
Raised(c) ==
    /\ pending[c] # {}
    /\ pending' = [pending EXCEPT ![c] = IF "error" \in @ THEN {"end"} ELSE {}]
    /\ client' = None
    /\ ScheduleReconnect(None, connecting)
    /\ UNCHANGED <<world, connecting, conn, started, pages, breaks>>

(***************************************************************************)
(* The route and the page.                                                 *)
(***************************************************************************)

\* The page is rendered from the cache; its EventSource connects after that.
Open(p) ==
    /\ stream[p] = "closed"
    /\ stream' = [stream EXCEPT ![p] = "connecting"]
    /\ shown' = [shown EXCEPT ![p] = cache]
    /\ UNCHANGED <<world, hub, message, debounce, asked, breaks>>

\* Wrong on purpose: a subscriber waits for somebody else to connect.
SubscribeOnly(p) ==
    /\ stream[p] = "connecting"
    /\ stream' = [stream EXCEPT ![p] = "open"]
    /\ started' = TRUE
    /\ UNCHANGED <<world, client, connecting, timer, conn, pending, message, debounce, asked, shown, breaks>>

\* The request reaches the route: subscribeToServerEvents connects the hub.
Subscribe(p) ==
    /\ stream[p] = "connecting"
    /\ stream' = [stream EXCEPT ![p] = "open"]
    /\ started' = TRUE /\ EnsureClient
    /\ UNCHANGED <<world, client, timer, pending, message, debounce, asked, shown, breaks>>

\* The answer is not a stream: 401 without a session, or what stands before the server
\* says.  EventSource does not connect again after that.
Refused(p) ==
    /\ stream[p] = "connecting"
    /\ stream' = [stream EXCEPT ![p] = "refused"]
    /\ UNCHANGED <<world, hub, message, debounce, asked, shown, breaks>>

\* EventSource connects again by itself; what was on its way is lost.
StreamBreaks(p) ==
    /\ stream[p] = "open" /\ Break
    /\ stream' = [stream EXCEPT ![p] = "connecting"]
    /\ message' = [message EXCEPT ![p] = FALSE]
    /\ UNCHANGED <<world, hub, debounce, asked, shown>>

\* A burst of messages sets one timer.
OnMessage(p) ==
    /\ message[p]
    /\ message' = [message EXCEPT ![p] = FALSE]
    /\ debounce' = [debounce EXCEPT ![p] = TRUE]
    /\ UNCHANGED <<world, hub, stream, asked, shown, breaks>>

\* router.refresh(), which the router runs one at a time.
Refresh(p) ==
    /\ debounce[p] /\ asked[p] = NotAsked
    /\ debounce' = [debounce EXCEPT ![p] = FALSE]
    /\ asked' = [asked EXCEPT ![p] = [state |-> "sent", found |-> None]]
    /\ UNCHANGED <<world, hub, stream, message, shown, breaks>>
Render(p) ==
    /\ asked[p].state = "sent"
    /\ asked' = [asked EXCEPT ![p] = [state |-> "read", found |-> cache]]
    /\ UNCHANGED <<world, hub, stream, message, debounce, shown, breaks>>
Paint(p) ==
    /\ asked[p].state = "read"
    /\ shown' = [shown EXCEPT ![p] = asked[p].found]
    /\ asked' = [asked EXCEPT ![p] = NotAsked]
    /\ UNCHANGED <<world, hub, stream, message, debounce, breaks>>

\* The page is left: the stream is closed and its timer cleared.
Leave(p) ==
    /\ stream[p] # "closed"
    /\ stream' = [stream EXCEPT ![p] = "closed"]
    /\ message' = [message EXCEPT ![p] = FALSE]
    /\ debounce' = [debounce EXCEPT ![p] = FALSE]
    /\ asked' = [asked EXCEPT ![p] = NotAsked]
    /\ shown' = [shown EXCEPT ![p] = None]
    /\ UNCHANGED <<world, hub, breaks>>

PollStep == Poll \/ Notify
AttemptStep == Connected \/ Established \/ AttemptFails
PageStep(p) == Subscribe(p) \/ Refused(p) \/ OnMessage(p) \/ Refresh(p) \/ Render(p) \/ Paint(p)

Next ==
    \/ Flip \/ PollStep \/ TimerFires \/ AttemptStep
    \/ \E c \in Conns : ConnectionBreaks(c) \/ Raised(c)
    \/ \E p \in Pages : Open(p) \/ StreamBreaks(p) \/ PageStep(p) \/ Leave(p)

Spec == Init /\ [][Next]_vars

\* The poller goes on, timers fire, requests are answered.  Messages keep
\* putting the page's timer off, but a cycle ends and the poller rests.
Fairness ==
    /\ WF_vars(PollStep) /\ WF_vars(TimerFires) /\ WF_vars(AttemptStep)
    /\ \A c \in Conns : WF_vars(Raised(c))
    /\ \A p \in Pages :
        /\ WF_vars(Subscribe(p) \/ Refused(p)) /\ WF_vars(OnMessage(p))
        /\ WF_vars(Refresh(p)) /\ WF_vars(Render(p) \/ Paint(p))
FairSpec == Spec /\ Fairness

(***************************************************************************)
(* Properties.                                                             *)
(***************************************************************************)

\* The types of the state; a page that is not open has nothing on its way or shown.
Found == {TRUE, FALSE, None}
LiveTypeOK ==
    /\ {truth, timer, started} \subseteq BOOLEAN /\ cache \in Found
    /\ flips \in 0..MaxFlips /\ breaks \in 0..MaxBreaks /\ polling \in {"idle", "written"}
    /\ {client, connecting} \subseteq Conns \cup {None}
    /\ conn \in [Conns -> ConnState] /\ pending \in [Conns -> SUBSET Event]
    /\ stream \in [Pages -> {"closed", "connecting", "open", "refused"}]
    /\ {message, debounce} \subseteq [Pages -> BOOLEAN]
    /\ asked \in [Pages -> [state : {"no", "sent", "read"}, found : Found]]
    /\ shown \in [Pages -> Found]
    /\ \A p \in Pages : stream[p] = "closed" =>
        ~message[p] /\ ~debounce[p] /\ asked[p] = NotAsked /\ shown[p] = None

\* Once a page has subscribed, the hub never sits there deaf: it has a client
\* that hears or is about to be told that it is gone, it is connecting, or it
\* has set its timer; and never two of these at a time by its own doing.
NeverDeaf ==
    /\ started =>
        \/ client # None /\ (conn[client] = "listening" \/ pending[client] # {})
        \/ connecting # None
        \/ timer
    /\ connecting # None => client = None

\* A page that stays open, and whose stream is not refused, comes to show what the
\* poller finds, whatever messages and connections were lost on the way, and keeps
\* showing it.  One that is refused stays as it is until it is loaded again.
PageCatchesUp ==
    \A p \in Pages : <>[](stream[p] \in {"connecting", "open"}) => <>[](shown[p] = truth)
==============================================================================
