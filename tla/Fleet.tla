-------------------------------- MODULE Fleet --------------------------------
(***************************************************************************)
(* The registered servers: the form that edits one (src/src/components/    *)
(* servers/), the actions of src/src/server/actions/servers.ts, trust on   *)
(* first use (src/src/lib/aapanel/index.ts, tls.ts) and the status cache   *)
(* that polls fill and the summary reads (src/src/lib/servers/).           *)
(*                                                                         *)
(* A poll is a row read, a certificate perhaps probed, stored and          *)
(* journalled, a panel asked, and a row of the cache written: each an      *)
(* await, with edits, other polls and the panels themselves in between.    *)
(***************************************************************************)
EXTENDS Naturals, FiniteSets

CONSTANTS
    Ids,        \* server ids, each given out once
    Urls,       \* addresses; TlsUrls of them begin with https:
    TlsUrls,
    Certs,      \* fingerprints a panel may present
    CertsAt,    \* address -> the fingerprints ever presented there
    Trusted,    \* fingerprints a public authority vouches for
    First,      \* rows a server may be registered with at the start
    Batches,    \* callers of a bounded refresh: Poller and pages in a browser
    Poller,
    Slots,      \* WORKER_CONCURRENCY places of each batch
    Admins,     \* server form dialogs
    None, Unused, Gone,
    MaxChanges, \* bound: changes of the panels, queries that reject and deaths, together
    MaxEdits    \* bound: registrations created, saved and removed

Modes == {"PINNED", "VERIFY"}
Workers == Batches \X Slots
PinOrNone == Certs \cup {None}
Disks == {"ok", "full"}
FailureKind == {"network", "tls", "unknown"}
Server == [url : Urls, mode : Modes, pin : PinOrNone]

ASSUME FleetAssumption ==
    /\ TlsUrls \subseteq Urls /\ Trusted \subseteq Certs
    /\ CertsAt \in [Urls -> SUBSET Certs] /\ \A u \in Urls : CertsAt[u] # {}
    /\ Poller \in Batches /\ Slots # {}
    /\ First \subseteq Server /\ {None, Unused, Gone} \cap Server = {}
    /\ None \notin Ids \cup Urls \cup Certs /\ None \notin {Unused, Gone} /\ Unused # Gone
    /\ {MaxChanges, MaxEdits} \subseteq Nat

VARIABLES
    server,     \* the Server rows: Unused, Gone, or [url, mode, pin]
    status,     \* their ServerStatus rows, None before the first poll
    journal,    \* their lines in the audit log
    lost,       \* history: lines whose write was rejected, or whose process died first
    panel,      \* address -> what answers there: [up, cert, disk]
    era,        \* how often a panel has changed
    queue,      \* ids a batch has still to take
    at, poll,   \* where a worker's refresh is, and what it holds
    form, edit, \* the dialog of an admin and its save in flight
    edits, faults

registry == <<server, journal, lost>>
polls == <<queue, at, poll>>
vars == <<registry, status, panel, era, polls, form, edit, edits, faults>>

Registered(id) == server[id] \in Server
Line == [action : {"create", "update", "pin", "repin", "delete"}, target : PinOrNone]
Pinned(action, cert) == [action |-> action, target |-> cert]
Plain(action) == [action |-> action, target |-> None]

\* What a poll found; what it holds: the row it read, with the pin of its client.
Finding == [online : BOOLEAN, kind : FailureKind \cup {None}, disk : Disks \cup {None}]
Failed(kind) == [online |-> FALSE, kind |-> kind, disk |-> None]
IdlePoll == [id |-> None, by |-> None, began |-> 0, found |-> None]
Closed == [id |-> None, pin |-> None]
NoEdit == [id |-> None, row |-> None, before |-> None, lines |-> {}]

Init ==
    /\ server \in [Ids -> {Unused} \cup First]
    /\ status = [id \in Ids |-> None]
    /\ journal = [id \in Ids |-> IF server[id] = Unused THEN {} ELSE {Plain("create")}]
    /\ lost = [id \in Ids |-> {}]
    /\ panel = [u \in Urls |-> [up |-> TRUE, cert |-> CHOOSE c \in CertsAt[u] : TRUE, disk |-> "ok"]]
    /\ era = 0
    /\ queue = [b \in Batches |-> {}]
    /\ at = [w \in Workers |-> "idle"] /\ poll = [w \in Workers |-> IdlePoll]
    /\ form = [a \in Admins |-> Closed] /\ edit = [a \in Admins |-> NoEdit]
    /\ edits = 0 /\ faults = 0

(***************************************************************************)
(* Connections.                                                            *)
(***************************************************************************)

\* createClientForServer: plain http has nothing to pin, whatever the mode says.
ModeFor(row) == IF row.url \in TlsUrls THEN row.mode ELSE "VERIFY"
NeedsPin(row) == ModeFor(row) = "PINNED" /\ row.pin = None

\* The connector of a pinned client accepts one certificate; the default one,
\* over TLS, whatever an authority vouches for.
PinnedConnector(pin, url) == panel[url].cert = pin
Accepts(mode, pin, url) ==
    \/ url \notin TlsUrls
    \/ mode = "VERIFY" /\ panel[url].cert \in Trusted
    \/ mode = "PINNED" /\ PinnedConnector(pin, url)

\* What a poll of this row would find.
Reaches(row) ==
    /\ panel[row.url].up
    /\ NeedsPin(row) \/ Accepts(ModeFor(row), row.pin, row.url)

(***************************************************************************)
(* Polls.                                                                  *)
(***************************************************************************)

Idle(b) == \A s \in Slots : at[<<b, s>>] = "idle"

\* The poller's tick lists every server; a page sends the ids it has on screen,
\* of which some may be gone by now.
Visible == {ids \in SUBSET Ids : ids # {} /\ \A id \in ids : server[id] # Unused}
PollAll == {id \in Ids : Registered(id)}
Batch(b, ids) ==
    /\ queue[b] = {} /\ Idle(b)
    /\ queue' = [queue EXCEPT ![b] = ids]
    /\ UNCHANGED <<registry, status, panel, era, at, poll, form, edit, edits, faults>>
Tick == Batch(Poller, PollAll) /\ PollAll # {}
RefreshVisible(b) == b # Poller /\ \E ids \in Visible : Batch(b, ids)
RefreshRow(b) == b # Poller /\ \E ids \in Visible : Cardinality(ids) = 1 /\ Batch(b, ids)

Goto(w, where) == at' = [at EXCEPT ![w] = where]
Fails(w, kind) ==
    /\ Goto(w, "failed")
    /\ poll' = [poll EXCEPT ![w].found = Failed(kind)]
Quiet == UNCHANGED <<panel, era, form, edit, edits>>
Fault == era + faults < MaxChanges /\ faults' = faults + 1

\* mapLimit hands out the next id; loadServerCreds refuses one that is gone; the
\* time of the reading is taken before the panel is asked.
Take(w) ==
    /\ at[w] = "idle"
    /\ \E id \in queue[w[1]] :
        /\ queue' = [queue EXCEPT ![w[1]] = @ \ {id}]
        /\ IF ~Registered(id) THEN UNCHANGED <<at, poll>>
           ELSE /\ Goto(w, IF NeedsPin(server[id]) THEN "probe" ELSE "collect")
                /\ poll' = [poll EXCEPT ![w] =
                     [id |-> id, by |-> server[id], began |-> era, found |-> None]]
    /\ UNCHANGED <<registry, status, faults>> /\ Quiet

Probe(w) ==
    LET by == poll[w].by IN
    /\ at[w] = "probe"
    /\ IF panel[by.url].up
       THEN /\ Goto(w, "pin")
            /\ poll' = [poll EXCEPT ![w].by.pin = panel[by.url].cert]
       ELSE Fails(w, "network")
    /\ UNCHANGED <<registry, status, queue, faults>> /\ Quiet

\* Wrong on purpose: a pin is stored without a line of its own.
StorePinUnsaid(w) ==
    LET id == poll[w].id IN
    /\ at[w] = "pin"
    /\ IF Registered(id)
       THEN /\ server' = [server EXCEPT ![id].pin = poll[w].by.pin]
            /\ Goto(w, "collect") /\ poll' = poll
       ELSE server' = server /\ Fails(w, "unknown")
    /\ UNCHANGED <<journal, lost, status, queue, faults>> /\ Quiet

\* The pin is written whatever the row holds by now; a row that is gone throws.
StorePin(w) ==
    LET id == poll[w].id IN
    /\ at[w] = "pin"
    /\ IF Registered(id)
       THEN /\ server' = [server EXCEPT ![id].pin = poll[w].by.pin]
            /\ Goto(w, "journal") /\ poll' = poll
       ELSE server' = server /\ Fails(w, "unknown")
    /\ UNCHANGED <<journal, lost, status, queue, faults>> /\ Quiet

\* recordAudit swallows what happens to the line: one that names a server which is gone
\* is refused, and any write may be rejected.
RecordAudit(id, line) ==
    \/ /\ Registered(id)
       /\ journal' = [journal EXCEPT ![id] = @ \cup {line}]
       /\ UNCHANGED <<lost, faults>>
    \/ ~Registered(id) /\ UNCHANGED <<journal, lost, faults>>
    \/ /\ Registered(id) /\ Fault
       /\ lost' = [lost EXCEPT ![id] = @ \cup {line}]
       /\ UNCHANGED journal

JournalPin(w) ==
    /\ at[w] = "journal"
    /\ RecordAudit(poll[w].id, Pinned("pin", poll[w].by.pin))
    /\ Goto(w, "collect")
    /\ UNCHANGED <<server, status, queue, poll>> /\ Quiet

\* collectStatus through the client built from the row that was read.
Collect(w) ==
    LET by == poll[w].by
        answers == panel[by.url].up
        snapshot == [online |-> TRUE, kind |-> None, disk |-> panel[by.url].disk] IN
    /\ at[w] = "collect"
    /\ IF answers /\ Accepts(ModeFor(by), by.pin, by.url)
       THEN Goto(w, "answered") /\ poll' = [poll EXCEPT ![w].found = snapshot]
       ELSE Fails(w, IF answers THEN "tls" ELSE "network")
    /\ UNCHANGED <<registry, status, queue, faults>> /\ Quiet

\* A failed poll leaves the figures of an earlier one.
DiskKept(id, found) ==
    IF found.online \/ status[id] = None THEN found.disk ELSE status[id].disk

\* Wrong on purpose: the reading is stamped when it is written.
ReadingStampedLate(w, found) ==
    [online |-> found.online, kind |-> found.kind, disk |-> DiskKept(poll[w].id, found),
     checkedAt |-> era, by |-> poll[w].by]

\* The row of the cache, stamped with the time its poll began.
Reading(w, found) ==
    [online |-> found.online, kind |-> found.kind, disk |-> DiskKept(poll[w].id, found),
     checkedAt |-> poll[w].began, by |-> poll[w].by]

Upsert(w, found) ==
    status' = [status EXCEPT ![poll[w].id] = Reading(w, found)]
Done(w) == Goto(w, "idle") /\ poll' = [poll EXCEPT ![w] = IdlePoll]

\* The write of a healthy reading is inside the try: where it throws, because the
\* row it belongs to is gone or the query rejects, the failure is stored instead.
WriteOnline(w) ==
    /\ at[w] = "answered"
    /\ \/ /\ Registered(poll[w].id)
          /\ Upsert(w, poll[w].found) /\ Done(w) /\ UNCHANGED faults
       \/ /\ ~Registered(poll[w].id)
          /\ Fails(w, "unknown") /\ UNCHANGED <<status, faults>>
       \/ Registered(poll[w].id) /\ Fault /\ Fails(w, "unknown") /\ UNCHANGED status
    /\ UNCHANGED <<registry, queue>> /\ Quiet

\* Wrong on purpose: a failed poll is reported and not written.
DropFailure(w) ==
    /\ at[w] = "failed" /\ Done(w)
    /\ UNCHANGED <<registry, status, queue, faults>> /\ Quiet

\* The write of a failure is not: it throws out of the refresh, and mapLimit
\* keeps that from the rest of the batch.
WriteOffline(w) ==
    /\ at[w] = "failed" /\ Done(w)
    /\ \/ Registered(poll[w].id) /\ Upsert(w, poll[w].found) /\ UNCHANGED faults
       \/ ~Registered(poll[w].id) /\ UNCHANGED <<status, faults>>
       \/ Registered(poll[w].id) /\ Fault /\ UNCHANGED status
    /\ UNCHANGED <<registry, queue>> /\ Quiet

(***************************************************************************)
(* The dialog and the actions behind it.                                   *)
(***************************************************************************)

Edits == edits < MaxEdits /\ edits' = edits + 1
Still == UNCHANGED <<status, panel, era, polls>>

\* A row is rendered with its dialog, whose fingerprint field starts at the pin
\* the row had and does not follow it.
Mount(a) ==
    /\ form[a].id = None /\ edit[a] = NoEdit
    /\ \E id \in Ids : 
        /\ Registered(id)
        /\ form' = [form EXCEPT ![a] = [id |-> id, pin |-> server[id].pin]]
    /\ UNCHANGED <<registry, edit, edits, faults>> /\ Still

\* inspectCertificateAction shows the certificate presented at the address typed
\* in, https only, and the operator puts it into the fingerprint field.
Inspect(a) ==
    /\ form[a].id # None
    /\ \E u \in TlsUrls : panel[u].up /\ form' = [form EXCEPT ![a].pin = panel[u].cert]
    /\ UNCHANGED <<registry, edit, edits, faults>> /\ Still

\* What the form sends: the fingerprint field is only there for a pinned server.
Submission(a, url, mode) ==
    [url |-> url, mode |-> mode, pin |-> IF mode = "PINNED" THEN form[a].pin ELSE None]

\* A save that has stored its row and still has to write these lines.
CreateLines(cert) ==
    {Plain("create")} \cup (IF cert = None THEN {} ELSE {Pinned("pin", cert)})
Stored(id, lines) == [id |-> id, row |-> None, before |-> None, lines |-> lines]

\* createServerAction stores the row; its lines are written one by one after that.
Create(a) ==
    /\ Edits
    /\ form[a].id = None /\ edit[a] = NoEdit
    /\ \E id \in Ids, url \in Urls, mode \in Modes, cert \in PinOrNone :
        /\ server[id] = Unused
        /\ cert # None => mode = "PINNED" /\ cert \in CertsAt[url]
        /\ server' = [server EXCEPT ![id] = [url |-> url, mode |-> mode, pin |-> cert]]
        /\ edit' = [edit EXCEPT ![a] = Stored(id, CreateLines(cert))]
    /\ UNCHANGED <<journal, lost, form, faults>> /\ Still

\* updateServerAction reads the row, ...
LoadBefore(a) ==
    LET id == form[a].id IN
    /\ id # None /\ Edits
    /\ form' = [form EXCEPT ![a] = Closed]
    /\ IF Registered(id)
       THEN \E url \in Urls, mode \in Modes :
              edit' = [edit EXCEPT ![a] =
                [id |-> id, row |-> Submission(a, url, mode),
                 before |-> server[id], lines |-> {}]]
       ELSE edit' = edit
    /\ UNCHANGED <<registry, faults>> /\ Still

\* ... and writes it: a fingerprint that was sent wins; a new address, or no
\* pinning, drops the one stored; otherwise the row keeps what it has by now.
PinToStore(a) ==
    LET row == edit[a].row  before == edit[a].before IN
    IF row.pin # None THEN row.pin
    ELSE IF row.mode = "VERIFY" \/ before.url # row.url THEN None
    ELSE server[edit[a].id].pin

Writing(a) == edit[a] # NoEdit /\ edit[a].row # None
Saved(a) == edit[a] # NoEdit /\ edit[a].row = None

UpdateServer(a) ==
    LET id == edit[a].id  row == edit[a].row  before == edit[a].before IN
    /\ Writing(a)
    /\ IF Registered(id)
       THEN /\ server' = [server EXCEPT ![id] = [row EXCEPT !.pin = PinToStore(a)]]
            /\ edit' = [edit EXCEPT ![a].row = None, ![a].lines =
                 {Plain("update")} \cup
                 (IF row.pin \in {None, before.pin} THEN {} ELSE {Pinned("repin", row.pin)})]
       ELSE server' = server /\ edit' = [edit EXCEPT ![a] = NoEdit]
    /\ UNCHANGED <<journal, lost, form, edits, faults>> /\ Still

Written(save, line) ==
    IF save.lines = {line} THEN NoEdit ELSE [save EXCEPT !.lines = @ \ {line}]

\* A pin that was entered is a trust decision and gets a line of its own, after the plain
\* one of the save.
JournalSave(a) ==
    /\ Saved(a)
    /\ \E line \in edit[a].lines :
        /\ line.target # None => edit[a].lines = {line}
        /\ RecordAudit(edit[a].id, line)
        /\ edit' = [edit EXCEPT ![a] = Written(@, line)]
    /\ UNCHANGED <<server, form, edits>> /\ Still

\* deleteServerAction: the row and its line in one transaction; the status goes
\* with the row.
Delete ==
    /\ Edits
    /\ \E id \in Ids :
        /\ Registered(id)
        /\ server' = [server EXCEPT ![id] = Gone]
        /\ status' = [status EXCEPT ![id] = None]
        /\ journal' = [journal EXCEPT ![id] = @ \cup {Plain("delete")}]
    /\ UNCHANGED <<lost, panel, era, polls, form, edit, faults>>

(***************************************************************************)
(* The panels, and the whole.                                              *)
(***************************************************************************)

Change ==
    /\ era + faults < MaxChanges /\ era' = era + 1
    /\ \E u \in Urls :
        \/ panel' = [panel EXCEPT ![u].up = ~@]
        \/ \E cert \in CertsAt[u] \ {panel[u].cert} : panel' = [panel EXCEPT ![u].cert = cert]
        \/ \E disk \in Disks \ {panel[u].disk} : panel' = [panel EXCEPT ![u].disk = disk]
    /\ UNCHANGED <<registry, status, polls, form, edit, edits, faults>>

\* The worker, the web process or the one process that is both dies: its batches and its
\* saves end where they are, and the lines these had still to write are never written.
Owed(id, batches, admins) ==
    {Pinned("pin", poll[w].by.pin) :
        w \in {v \in Workers : v[1] \in batches /\ at[v] = "journal" /\ poll[v].id = id}}
    \cup UNION {edit[a].lines : a \in {b \in admins : edit[b].id = id}}
Die(batches, admins) ==
    /\ Fault
    /\ queue' = [b \in Batches |-> IF b \in batches THEN {} ELSE queue[b]]
    /\ at' = [w \in Workers |-> IF w[1] \in batches THEN "idle" ELSE at[w]]
    /\ poll' = [w \in Workers |-> IF w[1] \in batches THEN IdlePoll ELSE poll[w]]
    /\ edit' = [a \in Admins |-> IF a \in admins THEN NoEdit ELSE edit[a]]
    /\ lost' = [id \in Ids |-> lost[id] \cup Owed(id, batches, admins)]
    /\ UNCHANGED <<server, journal, status, panel, era, form, edits>>
ProcessDies ==
    Die({Poller}, {}) \/ Die(Batches \ {Poller}, Admins) \/ Die(Batches, Admins)

PollStep(w) ==
    \/ Take(w) \/ Probe(w) \/ StorePin(w) \/ JournalPin(w) \/ Collect(w)
    \/ WriteOnline(w) \/ WriteOffline(w)
SaveStep(a) == UpdateServer(a) \/ JournalSave(a)
DialogStep(a) == Mount(a) \/ Inspect(a) \/ LoadBefore(a) \/ Create(a)

Next ==
    \/ Tick \/ Delete \/ Change \/ ProcessDies
    \/ \E b \in Batches : RefreshVisible(b) \/ RefreshRow(b)
    \/ \E w \in Workers : PollStep(w)
    \/ \E a \in Admins : SaveStep(a) \/ DialogStep(a)

Spec == Init /\ [][Next]_vars

\* A request that began runs on, and the poller begins its cycles.
Fairness ==
    /\ WF_vars(Tick)
    /\ \A w \in Workers : WF_vars(PollStep(w))
    /\ \A a \in Admins : WF_vars(SaveStep(a))
FairSpec == Spec /\ Fairness

(***************************************************************************)
(* What the summary says.                                                  *)
(***************************************************************************)

\* getFleetOverview: worst first, one reason for a server that has been polled.
\* Memory is judged as the disk is; the age of a reading is left out here.
Attention(id) ==
    IF ~status[id].online THEN "offline"
    ELSE IF status[id].disk = "full" THEN "disk" ELSE "none"

(***************************************************************************)
(* Properties.                                                             *)
(***************************************************************************)

\* The types of the state.
StatusRow == [online : BOOLEAN, kind : FailureKind \cup {None}, disk : Disks \cup {None},
              checkedAt : Nat, by : Server]
PollPc == {"idle", "probe", "pin", "journal", "collect", "answered", "failed"}
FleetTypeOK ==
    /\ server \in [Ids -> Server \cup {Unused, Gone}]
    /\ status \in [Ids -> StatusRow \cup {None}]
    /\ journal \in [Ids -> SUBSET Line] /\ lost \in [Ids -> SUBSET Line]
    /\ panel \in [Urls -> [up : BOOLEAN, cert : Certs, disk : Disks]]
    /\ era \in Nat /\ edits \in Nat /\ faults \in Nat
    /\ queue \in [Batches -> SUBSET Ids]
    /\ at \in [Workers -> PollPc]
    /\ poll \in [Workers -> [id : Ids \cup {None}, by : Server \cup {None}, began : Nat,
                             found : Finding \cup {None}]]
    /\ form \in [Admins -> [id : Ids \cup {None}, pin : PinOrNone]]
    /\ edit \in [Admins -> [id : Ids \cup {None}, row : Server \cup {None},
                            before : Server \cup {None}, lines : SUBSET Line]]

\* A reading taken with the registration as it stands, whose time is after the
\* last change of a panel, says what the summary would be told now: an older
\* poll may overwrite a newer one, but then the time goes back with it.
Current(id) ==
    /\ Registered(id) /\ status[id] # None
    /\ status[id].by = server[id] /\ status[id].checkedAt = era /\ status[id].kind # "unknown"
FreshReadingIsTrue ==
    \A id \in Ids : Current(id) =>
        Attention(id) = IF ~Reaches(server[id]) THEN "offline"
                        ELSE IF panel[server[id].url].disk = "full" THEN "disk" ELSE "none"

\* "Who decided to trust this certificate, and when" has an answer: a pin that is
\* stored, and the certificate behind a pinned reading, have a line that names
\* them, or the request that stored them is about to write it, or that write was
\* rejected or its process died first (servers.ts:115, index.ts:48, audit.ts:57).
Said(id, cert) ==
    \E action \in {"pin", "repin"} : Pinned(action, cert) \in journal[id] \cup lost[id]
Named(id, cert) ==
    \/ Said(id, cert)
    \/ \E w \in Workers : at[w] = "journal" /\ poll[w].id = id /\ poll[w].by.pin = cert
    \/ \E a \in Admins : /\ Saved(a) /\ edit[a].id = id
                        /\ \E action \in {"pin", "repin"} : Pinned(action, cert) \in edit[a].lines
TrustIsJournalled ==
    \A id \in Ids : Registered(id) =>
        /\ server[id].pin # None => Named(id, server[id].pin)
        /\ status[id] # None /\ status[id].online /\ ModeFor(status[id].by) = "PINNED" =>
             status[id].by.pin # None /\ Named(id, status[id].by.pin)

\* Once the panels and the registrations are left alone, the cache comes to say
\* of every server what a poll would find, and keeps saying it.
CacheSettles ==
    \A id \in Ids : <>[](Registered(id) =>
        /\ status[id] # None
        /\ status[id].online = Reaches(server[id]))
==============================================================================
