----------------------------- MODULE Fleet_proofs -----------------------------
(***************************************************************************)
(* Proofs about Fleet, for any servers, addresses, certificates, batches,  *)
(* dialogs and numbers of changes: the types of its state, that a fresh    *)
(* reading is true, and that whatever is trusted has a line in the journal.*)
(***************************************************************************)
EXTENDS Fleet, TLAPS

-----------------------------------------------------------------------------
(* The types, and who works on what.                                       *)

PollRecord == [id : Ids \cup {None}, by : Server \cup {None}, began : Nat, found : Finding \cup {None}]
EditRecord == [id : Ids \cup {None}, row : Server \cup {None}, before : Server \cup {None},
               lines : SUBSET Line]

\* A poll under way has a server that was registered, the row it read, and a
\* start that is not in the future; its pin is settled before it asks the panel.
Fits(pc, p) ==
    pc # "idle" =>
        /\ p.id \in Ids /\ server[p.id] # Unused
        /\ p.by \in Server /\ p.began <= era
        /\ pc = "probe" => NeedsPin(p.by)
        /\ pc \in {"pin", "journal"} => p.by.pin \in Certs
        /\ pc \in {"collect", "answered"} => ~NeedsPin(p.by)
        /\ pc \in {"answered", "failed"} => p.found \in Finding
        /\ pc = "answered" => p.found.online
        /\ pc = "failed" => ~p.found.online
Polling(w) == Fits(at[w], poll[w])

Editing(a) ==
    edit[a] # NoEdit =>
        /\ edit[a].id \in Ids /\ server[edit[a].id] # Unused
        /\ edit[a].row # None => edit[a].before \in Server

Cached(id) ==
    status[id] # None => Registered(id) /\ status[id].checkedAt <= era

TypeInv ==
    /\ FleetTypeOK
    /\ \A w \in Workers : Polling(w)
    /\ \A a \in Admins : Editing(a)
    /\ \A id \in Ids : Cached(id)

\* Nothing polled, nothing pinned by a poll and no dialog open is well typed.
LEMMA TypeInit == Init => TypeInv
<1> SUFFICES ASSUME Init PROVE TypeInv
  OBVIOUS
<1> USE FleetAssumption DEF Init, FleetAssumption
<1>1. server \in [Ids -> Server \cup {Unused, Gone}] /\ status \in [Ids -> StatusRow \cup {None}]
  OBVIOUS
<1>2. journal \in [Ids -> SUBSET Line] /\ lost \in [Ids -> SUBSET Line]
  <2>1. {} \in SUBSET Line /\ {Plain("create")} \in SUBSET Line
    BY DEF Line, Plain, PinOrNone
  <2> QED
    BY <2>1
<1>3. panel \in [Urls -> [up : BOOLEAN, cert : Certs, disk : Disks]]
  <2>1. \A u \in Urls : (CHOOSE c \in CertsAt[u] : TRUE) \in Certs
    OBVIOUS
  <2> QED
    BY <2>1 DEF Disks
<1>4. poll \in [Workers -> PollRecord] /\ at \in [Workers -> PollPc] /\ queue \in [Batches -> SUBSET Ids]
  BY DEF IdlePoll, PollRecord, PollPc
<1>5. form \in [Admins -> [id : Ids \cup {None}, pin : PinOrNone]] /\ edit \in [Admins -> EditRecord]
  BY DEF Closed, NoEdit, EditRecord, PinOrNone
<1>6. FleetTypeOK
  BY <1>1, <1>2, <1>3, <1>4, <1>5 DEF FleetTypeOK, PollRecord, EditRecord
<1>7. /\ \A w \in Workers : Polling(w)
      /\ \A a \in Admins : Editing(a)
      /\ \A id \in Ids : Cached(id)
  BY DEF Polling, Fits, Editing, Cached
<1> QED
  BY <1>6, <1>7 DEF TypeInv

\* Every line that is written or lost, of a server.
Lines(id) == journal[id] \cup lost[id]

\* A line that is given to the journal is there, or lost, unless its server is gone; the
\* others stay.
LEMMA LineGiven ==
    ASSUME TypeInv, NEW id \in Ids, NEW line \in Line, RecordAudit(id, line)
    PROVE  /\ journal' \in [Ids -> SUBSET Line] /\ lost' \in [Ids -> SUBSET Line] /\ faults' \in Nat
           /\ \A i \in Ids : Lines(i) \subseteq Lines(i)'
           /\ Registered(id) => line \in Lines(id)'
<1>1. journal \in [Ids -> SUBSET Line] /\ lost \in [Ids -> SUBSET Line] /\ faults \in Nat
  BY DEF TypeInv, FleetTypeOK
<1>2. CASE Registered(id) /\ journal' = [journal EXCEPT ![id] = @ \cup {line}] /\ UNCHANGED <<lost, faults>>
  BY <1>1, <1>2 DEF Lines
<1>3. CASE ~Registered(id) /\ UNCHANGED <<journal, lost, faults>>
  BY <1>1, <1>3 DEF Lines
<1>4. CASE Registered(id) /\ Fault /\ lost' = [lost EXCEPT ![id] = @ \cup {line}] /\ UNCHANGED journal
  BY <1>1, <1>4 DEF Lines, Fault
<1> QED
  BY <1>2, <1>3, <1>4 DEF RecordAudit

\* A worker goes on; the servers stay what they are or are pinned.
LEMMA Goes ==
    ASSUME TypeInv, NEW w \in Workers, NEW pc \in PollPc, NEW p \in PollRecord,
           at' = [at EXCEPT ![w] = pc], poll' = [poll EXCEPT ![w] = p],
           UNCHANGED era, \A id \in Ids : server[id] # Unused => server'[id] # Unused,
           Fits(pc, p)
    PROVE  /\ at' \in [Workers -> PollPc] /\ poll' \in [Workers -> PollRecord]
           /\ \A v \in Workers : Polling(v)'
<1>1. at' \in [Workers -> PollPc] /\ poll' \in [Workers -> PollRecord]
  BY DEF TypeInv, FleetTypeOK, PollRecord
<1>2. ASSUME NEW q, NEW qc, Fits(qc, q) PROVE Fits(qc, q)'
  BY <1>2 DEF Fits, NeedsPin, ModeFor
<1>3. ASSUME NEW v \in Workers PROVE Polling(v)'
  <2>1. CASE v = w
    <3>1. at'[v] = pc /\ poll'[v] = p
      BY <2>1 DEF TypeInv, FleetTypeOK
    <3>2. Fits(pc, p)'
      BY <1>2
    <3> QED
      BY <3>1, <3>2 DEF Polling, Fits, NeedsPin, ModeFor
  <2>2. CASE v # w
    <3>1. at'[v] = at[v] /\ poll'[v] = poll[v]
      BY <2>2 DEF TypeInv, FleetTypeOK
    <3>2. Fits(at[v], poll[v])
      BY DEF TypeInv, Polling
    <3> QED
      BY <3>1, <3>2 DEF Polling, Fits, NeedsPin, ModeFor
  <2> QED
    BY <2>1, <2>2
<1> QED
  BY <1>1, <1>3

\* The steps of one poll keep the types: each carries the row it was taken with.
LEMMA PollTypes ==
    ASSUME TypeInv, NEW w \in Workers, PollStep(w)
    PROVE  TypeInv'
<1> USE FleetAssumption DEF TypeInv, FleetTypeOK, FleetAssumption
<1>1. UNCHANGED <<panel, era, form, edit, edits>>
  BY DEF PollStep, Take, Probe, StorePin, JournalPin, Collect, WriteOnline, WriteOffline, Quiet
<1>2. /\ poll[w] \in PollRecord /\ Fits(at[w], poll[w])
      /\ at[w] # "idle" => poll[w].id \in Ids /\ poll[w].by \in Server
  BY DEF PollRecord, Polling, Fits
\* What remains to be shown of each step, when the registrations stay.
<1>3. ASSUME UNCHANGED <<server, journal, lost, status>>, queue' \in [Batches -> SUBSET Ids], faults' \in Nat,
             at' \in [Workers -> PollPc], poll' \in [Workers -> PollRecord],
             \A v \in Workers : Polling(v)'
      PROVE  TypeInv'
  BY <1>1, <1>3 DEF PollRecord, Editing, Cached, Registered
<1>4. ASSUME NEW kind \in FailureKind, Fails(w, kind), at[w] # "idle",
             UNCHANGED <<server, journal, lost, status, queue>>, faults' \in Nat
      PROVE  TypeInv'
  <2>1. Failed(kind) \in Finding /\ ~Failed(kind).online
    BY DEF Failed, Finding
  <2>2. [poll[w] EXCEPT !.found = Failed(kind)] \in PollRecord
    BY <1>2, <2>1 DEF PollRecord
  <2>3. Fits("failed", [poll[w] EXCEPT !.found = Failed(kind)])
    BY <1>2, <1>4, <2>1 DEF Fits, PollRecord
  <2>4. at' = [at EXCEPT ![w] = "failed"] /\ poll' = [poll EXCEPT ![w] = [poll[w] EXCEPT !.found = Failed(kind)]]
    BY <1>4 DEF Fails, Goto
  <2>5. "failed" \in PollPc
    BY DEF PollPc
  <2> HIDE DEF TypeInv, FleetTypeOK
  <2>6. /\ at' \in [Workers -> PollPc] /\ poll' \in [Workers -> PollRecord]
        /\ \A v \in Workers : Polling(v)'
    BY <1>1, <1>4, <2>2, <2>3, <2>4, <2>5, Goes
  <2> QED
    BY <1>3, <1>4, <2>6 DEF TypeInv, FleetTypeOK
<1>5. ASSUME NEW pc \in PollPc, NEW p \in PollRecord,
             at' = [at EXCEPT ![w] = pc], poll' = [poll EXCEPT ![w] = p], Fits(pc, p),
             UNCHANGED <<server, journal, lost, status>>, queue' \in [Batches -> SUBSET Ids], faults' \in Nat
      PROVE  TypeInv'
  <2> HIDE DEF TypeInv, FleetTypeOK
  <2>1. /\ at' \in [Workers -> PollPc] /\ poll' \in [Workers -> PollRecord]
        /\ \A v \in Workers : Polling(v)'
    BY <1>1, <1>5, Goes
  <2> QED
    BY <1>3, <1>5, <2>1 DEF TypeInv, FleetTypeOK
<1>6. CASE Take(w)
  <2>1. queue' \in [Batches -> SUBSET Ids] /\ UNCHANGED <<server, journal, lost, status, faults>>
    BY <1>6 DEF Take, registry, Workers
  <2>2. CASE UNCHANGED <<at, poll>>
    <3>1. \A v \in Workers : Polling(v)'
      BY <1>1, <2>1, <2>2 DEF Polling, Fits, NeedsPin, ModeFor
    <3>2. at' \in [Workers -> PollPc] /\ poll' \in [Workers -> PollRecord]
      BY <2>2 DEF PollRecord
    <3>3. UNCHANGED <<server, journal, lost, status>> /\ faults' \in Nat
      BY <2>1
    <3> HIDE DEF TypeInv, FleetTypeOK
    <3> QED
      BY <1>3, <2>1, <3>1, <3>2, <3>3
  <2>3. ASSUME NEW id \in Ids, Registered(id),
               at' = [at EXCEPT ![w] = IF NeedsPin(server[id]) THEN "probe" ELSE "collect"],
               poll' = [poll EXCEPT ![w] = [id |-> id, by |-> server[id], began |-> era, found |-> None]]
        PROVE  TypeInv'
    <3> DEFINE pc == IF NeedsPin(server[id]) THEN "probe" ELSE "collect"
               p == [id |-> id, by |-> server[id], began |-> era, found |-> None]
    <3>1. pc \in PollPc /\ p \in PollRecord
      BY <2>3 DEF PollPc, PollRecord, Registered
    <3>2. Fits(pc, p)
      BY <2>3 DEF Fits, Registered
    <3> QED
      BY <1>5, <2>1, <2>3, <3>1, <3>2
  <2>4. queue[w[1]] \subseteq Ids
    BY DEF Workers
  <2> HIDE DEF TypeInv, FleetTypeOK
  <2>5. CASE ~(UNCHANGED <<at, poll>>)
    <3>1. PICK id \in queue[w[1]] : Registered(id)
            /\ Goto(w, IF NeedsPin(server[id]) THEN "probe" ELSE "collect")
            /\ poll' = [poll EXCEPT ![w] = [id |-> id, by |-> server[id], began |-> era, found |-> None]]
      BY <1>6, <2>5 DEF Take
    <3> QED
      BY <2>3, <2>4, <3>1 DEF Goto
  <2> QED
    BY <2>2, <2>5
<1>7. CASE Probe(w)
  <2> DEFINE p == [poll[w] EXCEPT !.by.pin = panel[poll[w].by.url].cert]
  <2>1. at[w] = "probe" /\ UNCHANGED <<server, journal, lost, status, queue, faults>>
    BY <1>7 DEF Probe, registry
  <2>2. CASE panel[poll[w].by.url].up
    <3>1. p \in PollRecord /\ p.by.pin \in Certs /\ p.id = poll[w].id /\ p.began = poll[w].began
      BY <1>2, <2>1 DEF PollRecord, Server, PinOrNone
    <3>2. Fits("pin", p)
      BY <1>2, <2>1, <3>1 DEF Fits, PollRecord, NeedsPin, Server, PinOrNone
    <3>3. at' = [at EXCEPT ![w] = "pin"] /\ poll' = [poll EXCEPT ![w] = p] /\ "pin" \in PollPc
      BY <1>7, <2>2 DEF Probe, Goto, PollPc
    <3> QED
      BY <1>5, <2>1, <3>1, <3>2, <3>3
  <2>3. CASE ~panel[poll[w].by.url].up
    BY <1>4, <1>7, <2>1, <2>3 DEF Probe, FailureKind
  <2> QED
    BY <2>2, <2>3
<1>8. CASE StorePin(w)
  <2>1. at[w] = "pin" /\ UNCHANGED <<journal, lost, status, queue, faults>>
    BY <1>8 DEF StorePin
  <2>2. CASE ~Registered(poll[w].id)
    BY <1>4, <1>8, <2>1, <2>2 DEF StorePin, FailureKind
  <2>3. CASE Registered(poll[w].id)
    <3>1. /\ server' = [server EXCEPT ![poll[w].id].pin = poll[w].by.pin]
          /\ at' = [at EXCEPT ![w] = "journal"] /\ UNCHANGED poll
      BY <1>8, <2>3 DEF StorePin, Goto
    <3>2. poll[w].id \in Ids /\ server[poll[w].id] \in Server /\ poll[w].by.pin \in Certs
      BY <1>2, <2>1, <2>3 DEF Registered, Fits
    <3>3. [server[poll[w].id] EXCEPT !.pin = poll[w].by.pin] \in Server
      BY <3>2 DEF Server, PinOrNone
    <3>4. /\ server' \in [Ids -> Server \cup {Unused, Gone}]
          /\ \A id \in Ids : server[id] # Unused => server'[id] # Unused
          /\ \A id \in Ids : Registered(id) => Registered(id)'
      BY <3>1, <3>2, <3>3 DEF Registered
    <3>5. Fits("journal", poll[w]) /\ poll' = [poll EXCEPT ![w] = poll[w]] /\ "journal" \in PollPc
      BY <1>2, <2>1, <3>1 DEF Fits, PollPc, PollRecord
    <3> HIDE DEF TypeInv, FleetTypeOK
    <3>6. /\ at' \in [Workers -> PollPc] /\ poll' \in [Workers -> PollRecord]
          /\ \A v \in Workers : Polling(v)'
      BY <1>1, <1>2, <3>1, <3>4, <3>5, Goes
    <3> QED
      BY <1>1, <2>1, <3>4, <3>6 DEF TypeInv, FleetTypeOK, PollRecord, Editing, Cached
  <2> QED
    BY <2>2, <2>3
<1>9. CASE JournalPin(w)
  <2>1. /\ at[w] = "journal" /\ at' = [at EXCEPT ![w] = "collect"]
        /\ UNCHANGED <<server, status, queue, poll>>
    BY <1>9 DEF JournalPin, Goto
  <2>2. journal' \in [Ids -> SUBSET Line] /\ lost' \in [Ids -> SUBSET Line] /\ faults' \in Nat
    <3>1. Pinned("pin", poll[w].by.pin) \in Line /\ poll[w].id \in Ids
      BY <1>2, <2>1 DEF Fits, Pinned, Line, PinOrNone
    <3> HIDE DEF TypeInv, FleetTypeOK
    <3> QED
      BY <1>9, <3>1, LineGiven DEF JournalPin
  <2>3. Fits("collect", poll[w]) /\ poll' = [poll EXCEPT ![w] = poll[w]] /\ "collect" \in PollPc
    BY <1>2, <2>1 DEF Fits, PollPc, PollRecord, NeedsPin
  <2> HIDE DEF TypeInv, FleetTypeOK
  <2>4. /\ at' \in [Workers -> PollPc] /\ poll' \in [Workers -> PollRecord]
        /\ \A v \in Workers : Polling(v)'
    BY <1>1, <1>2, <2>1, <2>3, Goes
  <2> QED
    BY <1>1, <2>1, <2>2, <2>4 DEF TypeInv, FleetTypeOK, PollRecord, Editing, Cached, Registered
<1>10. CASE Collect(w)
  <2> DEFINE snapshot == [online |-> TRUE, kind |-> None, disk |-> panel[poll[w].by.url].disk]
             p == [poll[w] EXCEPT !.found = snapshot]
  <2>1. at[w] = "collect" /\ UNCHANGED <<server, journal, lost, status, queue, faults>>
    BY <1>10 DEF Collect, registry
  <2>2. CASE at' = [at EXCEPT ![w] = "answered"] /\ poll' = [poll EXCEPT ![w] = p]
    <3>1. snapshot \in Finding /\ snapshot.online
      BY <1>2, <2>1 DEF Finding, Server
    <3> HIDE DEF snapshot
    <3>2. p \in PollRecord /\ Fits("answered", p) /\ "answered" \in PollPc
      BY <1>2, <2>1, <3>1 DEF PollRecord, Fits, PollPc
    <3> QED
      BY <1>5, <2>1, <2>2, <3>2
  <2>3. CASE \E kind \in FailureKind : Fails(w, kind)
    BY <1>4, <2>1, <2>3
  <2> QED
    BY <1>10, <2>2, <2>3 DEF Collect, Goto, FailureKind
<1>11. ASSUME at[w] \in {"answered", "failed"}, Registered(poll[w].id), Upsert(w, poll[w].found), Done(w),
              UNCHANGED <<server, journal, lost, queue, faults>>
       PROVE  TypeInv'
  <2>1. poll[w].id \in Ids /\ poll[w].by \in Server /\ poll[w].found \in Finding /\ poll[w].began <= era
    BY <1>2, <1>11 DEF Fits
  <2>2. DiskKept(poll[w].id, poll[w].found) \in Disks \cup {None}
    BY <2>1 DEF DiskKept, StatusRow, Finding
  <2>3. Reading(w, poll[w].found) \in StatusRow
    BY <1>2, <2>1, <2>2 DEF Reading, StatusRow, Finding, PollRecord
  <2>4. status' \in [Ids -> StatusRow \cup {None}] /\ \A id \in Ids : Cached(id)'
    BY <1>1, <1>11, <2>1, <2>3 DEF Upsert, Cached, Registered, Reading
  <2>5. at' = [at EXCEPT ![w] = "idle"] /\ poll' = [poll EXCEPT ![w] = IdlePoll]
    BY <1>11 DEF Done, Goto
  <2>6. IdlePoll \in PollRecord /\ Fits("idle", IdlePoll) /\ "idle" \in PollPc
    BY DEF IdlePoll, PollRecord, Fits, PollPc
  <2> HIDE DEF TypeInv, FleetTypeOK
  <2>7. /\ at' \in [Workers -> PollPc] /\ poll' \in [Workers -> PollRecord]
        /\ \A v \in Workers : Polling(v)'
    BY <1>1, <1>11, <2>5, <2>6, Goes
  <2> QED
    BY <1>1, <1>11, <2>4, <2>7 DEF TypeInv, FleetTypeOK, PollRecord, Editing
<1>12. ASSUME Done(w), UNCHANGED <<server, journal, lost, status, queue>>, faults' \in Nat
       PROVE  TypeInv'
  <2>1. IdlePoll \in PollRecord /\ Fits("idle", IdlePoll) /\ "idle" \in PollPc
    BY DEF IdlePoll, PollRecord, Fits, PollPc
  <2> QED
    BY <1>5, <1>12, <2>1 DEF Done, Goto
<1>13. CASE WriteOnline(w)
  <2>1. at[w] = "answered" /\ UNCHANGED <<server, journal, lost, queue>> /\ faults' \in Nat
    BY <1>13 DEF WriteOnline, registry, Fault
  <2> QED
    BY <1>4, <1>11, <1>13, <2>1 DEF WriteOnline, FailureKind
<1>14. CASE WriteOffline(w)
  <2>1. at[w] = "failed" /\ UNCHANGED <<server, journal, lost, queue>> /\ faults' \in Nat
    BY <1>14 DEF WriteOffline, registry, Fault
  <2> QED
    BY <1>11, <1>12, <1>14, <2>1 DEF WriteOffline
<1> QED
  BY <1>6, <1>7, <1>8, <1>9, <1>10, <1>13, <1>14 DEF PollStep

\* What the dialogs and the panels do leaves the polls alone.
LEMMA Aside ==
    ASSUME TypeInv, UNCHANGED <<at, poll>>, era' \in Nat, era <= era',
           \A id \in Ids : server[id] # Unused => server'[id] # Unused
    PROVE  /\ at' \in [Workers -> PollPc] /\ poll' \in [Workers -> PollRecord]
           /\ \A w \in Workers : Polling(w)'
<1>1. at' \in [Workers -> PollPc] /\ poll' \in [Workers -> PollRecord]
  BY DEF TypeInv, FleetTypeOK, PollRecord
<1>2. ASSUME NEW w \in Workers PROVE Polling(w)'
  <2>1. Fits(at[w], poll[w]) /\ at'[w] = at[w] /\ poll'[w] = poll[w]
    BY DEF TypeInv, Polling
  <2>2. poll[w].began <= era => poll[w].began <= era'
    <3>1. poll[w].began \in Nat /\ era \in Nat
      BY DEF TypeInv, FleetTypeOK
    <3> QED
      BY <3>1
  <2> QED
    BY <2>1, <2>2 DEF Polling, Fits, NeedsPin, ModeFor
<1> QED
  BY <1>1, <1>2

\* A tick or a refresh only queues servers.
LEMMA BatchTypes ==
    ASSUME TypeInv, NEW b \in Batches, NEW ids \in SUBSET Ids, Batch(b, ids)
    PROVE  TypeInv'
<1>1. queue' \in [Batches -> SUBSET Ids]
  BY DEF TypeInv, FleetTypeOK, Batch
<1>2. UNCHANGED <<server, journal, lost, status, panel, era, at, poll, form, edit, edits, faults>>
  BY DEF Batch, registry
<1>3. /\ at' \in [Workers -> PollPc] /\ poll' \in [Workers -> PollRecord]
      /\ \A w \in Workers : Polling(w)'
  BY <1>2, Aside DEF TypeInv, FleetTypeOK
<1> QED
  BY <1>1, <1>2, <1>3 DEF TypeInv, FleetTypeOK, PollRecord, Editing, Cached, Registered

\* A step of the dialogs or of what they call: the registrations come to hold
\* servers, or none where there was one.
LEMMA DialogTypes ==
    ASSUME TypeInv, Still,
           server' \in [Ids -> Server \cup {Unused, Gone}], journal' \in [Ids -> SUBSET Line],
           lost' \in [Ids -> SUBSET Line], faults' \in Nat,
           \A id \in Ids : server[id] # Unused => server'[id] # Unused,
           \A id \in Ids : Registered(id) => Registered(id)',
           form' \in [Admins -> [id : Ids \cup {None}, pin : PinOrNone]],
           edit' \in [Admins -> EditRecord], \A a \in Admins : Editing(a)', edits' \in Nat
    PROVE  TypeInv'
<1>1. UNCHANGED <<status, panel, era, queue, at, poll>>
  BY DEF Still, polls
<1>2. /\ at' \in [Workers -> PollPc] /\ poll' \in [Workers -> PollRecord]
      /\ \A w \in Workers : Polling(w)'
  BY <1>1, Aside DEF TypeInv, FleetTypeOK
<1>3. \A id \in Ids : Cached(id)'
  BY <1>1 DEF TypeInv, Cached
<1> QED
  BY <1>1, <1>2, <1>3 DEF TypeInv, FleetTypeOK, PollRecord, EditRecord

\* The steps of a dialog and of the action that saves it keep the types.
LEMMA AdminTypes ==
    ASSUME TypeInv, NEW a \in Admins, DialogStep(a) \/ SaveStep(a)
    PROVE  TypeInv'
<1> USE FleetAssumption DEF FleetAssumption
<1>1. /\ server \in [Ids -> Server \cup {Unused, Gone}] /\ journal \in [Ids -> SUBSET Line]
      /\ lost \in [Ids -> SUBSET Line] /\ faults \in Nat
      /\ form \in [Admins -> [id : Ids \cup {None}, pin : PinOrNone]]
      /\ edit \in [Admins -> EditRecord] /\ edits \in Nat
      /\ \A u \in Urls : panel[u].cert \in Certs
      /\ \A b \in Admins : Editing(b)
  BY DEF TypeInv, FleetTypeOK, EditRecord
<1>2. Still
  BY DEF DialogStep, Mount, Inspect, LoadBefore, Create, SaveStep, UpdateServer, JournalSave
\* An edit that is given up, and one that goes on.
<1>3. ASSUME NEW e \in EditRecord, edit' = [edit EXCEPT ![a] = e],
             \A id \in Ids : server[id] # Unused => server'[id] # Unused,
             e # NoEdit => /\ e.id \in Ids /\ server'[e.id] # Unused
                           /\ e.row # None => e.before \in Server
      PROVE  edit' \in [Admins -> EditRecord] /\ \A b \in Admins : Editing(b)'
  BY <1>1, <1>3 DEF Editing
<1>4. NoEdit \in EditRecord /\ Closed \in [id : Ids \cup {None}, pin : PinOrNone]
  BY DEF NoEdit, EditRecord, Closed, PinOrNone
<1>5. CASE UNCHANGED <<server, journal, lost, edit, edits, faults>> /\ form' \in [Admins -> [id : Ids \cup {None}, pin : PinOrNone]]
  <2>1. \A b \in Admins : Editing(b)'
    BY <1>1, <1>5 DEF Editing
  <2> QED
    BY <1>1, <1>2, <1>5, <2>1, DialogTypes DEF Registered
<1>6. CASE Mount(a)
  <2>1. PICK id \in Ids : Registered(id) /\ form' = [form EXCEPT ![a] = [id |-> id, pin |-> server[id].pin]]
    BY <1>6 DEF Mount
  <2>2. [id |-> id, pin |-> server[id].pin] \in [id : Ids \cup {None}, pin : PinOrNone]
    BY <2>1 DEF Registered, Server
  <2> QED
    BY <1>1, <1>5, <1>6, <2>1, <2>2 DEF Mount, registry
<1>7. CASE Inspect(a)
  <2>1. PICK u \in TlsUrls : form' = [form EXCEPT ![a].pin = panel[u].cert]
    BY <1>7 DEF Inspect
  <2>2. form' \in [Admins -> [id : Ids \cup {None}, pin : PinOrNone]]
    BY <1>1, <2>1 DEF PinOrNone
  <2> QED
    BY <1>5, <1>7, <2>2 DEF Inspect, registry
<1>8. CASE LoadBefore(a)
  <2>1. /\ UNCHANGED <<server, journal, lost, faults>> /\ edits' \in Nat
        /\ form' \in [Admins -> [id : Ids \cup {None}, pin : PinOrNone]]
    BY <1>1, <1>4, <1>8 DEF LoadBefore, registry, Edits
  <2>2. edit' \in [Admins -> EditRecord] /\ \A b \in Admins : Editing(b)'
    <3>1. CASE Registered(form[a].id)
      <4>1. PICK url \in Urls, mode \in Modes :
              edit' = [edit EXCEPT ![a] = [id |-> form[a].id, row |-> Submission(a, url, mode),
                                           before |-> server[form[a].id], lines |-> {}]]
        BY <1>8, <3>1 DEF LoadBefore
      <4>2. form[a].id \in Ids /\ server[form[a].id] \in Server /\ form[a].pin \in PinOrNone
        BY <1>1, <1>8, <3>1 DEF LoadBefore, Registered
      <4>3. Submission(a, url, mode) \in Server
        BY <4>2 DEF Submission, Server, PinOrNone
      <4> DEFINE e == [id |-> form[a].id, row |-> Submission(a, url, mode),
                       before |-> server[form[a].id], lines |-> {}]
      <4>4. e \in EditRecord
        BY <4>2, <4>3 DEF EditRecord
      <4>5. e.id \in Ids /\ server'[e.id] # Unused /\ e.before \in Server
        BY <2>1, <4>2
      <4> HIDE DEF e
      <4> QED
        BY <1>3, <2>1, <4>1, <4>4, <4>5 DEF e
    <3>2. CASE ~Registered(form[a].id)
      BY <1>1, <1>8, <2>1, <3>2 DEF LoadBefore, Editing
    <3> QED
      BY <3>1, <3>2
  <2> QED
    BY <1>1, <1>2, <2>1, <2>2, DialogTypes DEF Registered
<1>9. CASE UpdateServer(a)
  <2> DEFINE id == edit[a].id  row == edit[a].row
  <2>1. /\ edit[a] \in EditRecord /\ id \in Ids /\ row \in Server /\ edit[a].before \in Server
        /\ UNCHANGED <<journal, lost, form, edits, faults>>
    BY <1>1, <1>9 DEF UpdateServer, Writing, Editing, EditRecord
  <2>2. CASE Registered(id)
    <3> DEFINE lines == {Plain("update")} \cup
                  (IF row.pin \in {None, edit[a].before.pin} THEN {} ELSE {Pinned("repin", row.pin)})
               e == [edit[a] EXCEPT !.row = None, !.lines = lines]
    <3>1. /\ server' = [server EXCEPT ![id] = [row EXCEPT !.pin = PinToStore(a)]]
          /\ edit' = [edit EXCEPT ![a] = e]
      BY <1>1, <1>9, <2>2 DEF UpdateServer
    <3>2. PinToStore(a) \in PinOrNone
      BY <1>1, <2>1, <2>2 DEF PinToStore, Registered, Server, PinOrNone
    <3>3. [row EXCEPT !.pin = PinToStore(a)] \in Server
      BY <2>1, <3>2 DEF Server
    <3>4. /\ server' \in [Ids -> Server \cup {Unused, Gone}]
          /\ \A i \in Ids : server[i] # Unused => server'[i] # Unused
          /\ \A i \in Ids : Registered(i) => Registered(i)'
      BY <1>1, <3>1, <3>3 DEF Registered
    <3>5. Plain("update") \in Line /\ \A pin \in PinOrNone : Pinned("repin", pin) \in Line
      BY DEF Line, Plain, Pinned, PinOrNone
    <3>6. lines \subseteq Line
      BY <2>1, <3>5 DEF Server
    <3> HIDE DEF lines
    <3>7. /\ e \in EditRecord
          /\ e.id \in Ids /\ server'[e.id] # Unused /\ e.before \in Server
      BY <2>1, <2>2, <3>4, <3>6 DEF EditRecord, Registered
    <3>8. edit' \in [Admins -> EditRecord] /\ \A b \in Admins : Editing(b)'
      <4> HIDE DEF e
      <4> QED
        BY <1>3, <3>1, <3>4, <3>7
    <3> QED
      BY <1>1, <1>2, <2>1, <3>4, <3>8, DialogTypes
  <2>3. CASE ~Registered(id)
    <3>1. UNCHANGED server /\ edit' = [edit EXCEPT ![a] = NoEdit]
      BY <1>9, <2>3 DEF UpdateServer
    <3>2. edit' \in [Admins -> EditRecord] /\ \A b \in Admins : Editing(b)'
      BY <1>3, <1>4, <3>1
    <3> QED
      BY <1>1, <1>2, <2>1, <3>1, <3>2, DialogTypes DEF Registered
  <2> QED
    BY <2>2, <2>3
<1>10. CASE JournalSave(a)
  <2>1. UNCHANGED <<server, form, edits>> /\ Saved(a) /\ edit[a] \in EditRecord
    BY <1>1, <1>10 DEF JournalSave
  <2>2. PICK line \in edit[a].lines :
          /\ RecordAudit(edit[a].id, line)
          /\ edit' = [edit EXCEPT ![a] = Written(edit[a], line)]
    BY <1>1, <1>10 DEF JournalSave
  <2>3. edit[a].id \in Ids /\ server[edit[a].id] # Unused /\ line \in Line /\ edit[a].row = None
    BY <1>1, <2>1, <2>2 DEF Editing, Saved, EditRecord
  <2> DEFINE e == Written(edit[a], line)
  <2>4. e \in EditRecord /\ (e # NoEdit => e.id = edit[a].id /\ e.row = None)
    BY <1>4, <2>1, <2>3 DEF EditRecord, Written
  <2>5. edit' \in [Admins -> EditRecord] /\ \A b \in Admins : Editing(b)'
    <3>1. edit' = [edit EXCEPT ![a] = e]
      BY <2>2
    <3> HIDE DEF e
    <3> QED
      BY <1>3, <2>1, <2>3, <2>4, <3>1
  <2> QED
    BY <1>1, <1>2, <2>1, <2>2, <2>3, <2>5, LineGiven, DialogTypes DEF Registered
<1>11. CASE Create(a)
  <2>1. PICK id \in Ids, url \in Urls, mode \in Modes, cert \in PinOrNone :
          /\ server[id] = Unused
          /\ server' = [server EXCEPT ![id] = [url |-> url, mode |-> mode, pin |-> cert]]
          /\ edit' = [edit EXCEPT ![a] = Stored(id, CreateLines(cert))]
    BY <1>11 DEF Create
  <2>2. [url |-> url, mode |-> mode, pin |-> cert] \in Server
    BY DEF Server
  <2>3. /\ server' \in [Ids -> Server \cup {Unused, Gone}]
        /\ \A i \in Ids : server[i] # Unused => server'[i] # Unused
        /\ \A i \in Ids : Registered(i) => Registered(i)'
        /\ server'[id] # Unused
    BY <1>1, <2>1, <2>2 DEF Registered
  <2>4. UNCHANGED <<journal, lost, form, faults>> /\ edits' \in Nat
    BY <1>1, <1>11 DEF Create, Edits
  <2> DEFINE e == Stored(id, CreateLines(cert))
  <2>5. CreateLines(cert) \subseteq Line
    BY DEF CreateLines, Line, Plain, Pinned, PinOrNone
  <2>6. edit' = [edit EXCEPT ![a] = e]
    BY <2>1
  <2>7. e \in EditRecord /\ e.id = id /\ e.row = None
    BY <2>5 DEF Stored, EditRecord
  <2> HIDE DEF e
  <2>8. edit' \in [Admins -> EditRecord] /\ \A b \in Admins : Editing(b)'
    BY <1>3, <2>3, <2>6, <2>7
  <2> QED
    BY <1>1, <1>2, <2>3, <2>4, <2>8, DialogTypes
<1> QED
  BY <1>6, <1>7, <1>8, <1>9, <1>10, <1>11 DEF DialogStep, SaveStep

\* A deletion takes the row of the cache along and adds its line.
LEMMA DeleteTypes ==
    ASSUME TypeInv, Delete
    PROVE  TypeInv'
<1> USE FleetAssumption DEF FleetAssumption
<1>1. PICK id \in Ids :
        /\ server' = [server EXCEPT ![id] = Gone]
        /\ status' = [status EXCEPT ![id] = None]
        /\ journal' = [journal EXCEPT ![id] = @ \cup {Plain("delete")}]
        /\ Registered(id)
  BY DEF Delete
<1>2. UNCHANGED <<lost, panel, era, queue, at, poll, form, edit, faults>> /\ edits' \in Nat
  BY DEF Delete, Edits, polls, TypeInv, FleetTypeOK
<1>3. /\ server' \in [Ids -> Server \cup {Unused, Gone}]
      /\ \A i \in Ids : server[i] # Unused => server'[i] # Unused
  BY <1>1 DEF TypeInv, FleetTypeOK, Registered
<1>4. status' \in [Ids -> StatusRow \cup {None}] /\ \A i \in Ids : Cached(i)'
  BY <1>1, <1>2 DEF TypeInv, FleetTypeOK, Cached, Registered
<1>5. journal' \in [Ids -> SUBSET Line]
  <2>1. Plain("delete") \in Line
    BY DEF Line, Plain, PinOrNone
  <2> QED
    BY <1>1, <2>1 DEF TypeInv, FleetTypeOK
<1>6. /\ at' \in [Workers -> PollPc] /\ poll' \in [Workers -> PollRecord]
      /\ \A w \in Workers : Polling(w)'
  BY <1>2, <1>3, Aside DEF TypeInv, FleetTypeOK
<1>7. \A a \in Admins : Editing(a)'
  BY <1>2, <1>3 DEF TypeInv, Editing
<1> QED
  BY <1>2, <1>3, <1>4, <1>5, <1>6, <1>7 DEF TypeInv, FleetTypeOK, PollRecord

\* A panel that changes begins a new era; nothing of the app moves.
LEMMA ChangeTypes ==
    ASSUME TypeInv, Change
    PROVE  TypeInv'
<1> USE FleetAssumption DEF FleetAssumption
<1>1. era' = era + 1 /\ UNCHANGED <<server, journal, lost, status, queue, at, poll, form, edit, edits, faults>>
  BY DEF Change, registry, polls
<1>2. panel' \in [Urls -> [up : BOOLEAN, cert : Certs, disk : Disks]]
  <2>1. PICK u \in Urls :
          \/ panel' = [panel EXCEPT ![u].up = ~@]
          \/ \E cert \in CertsAt[u] \ {panel[u].cert} : panel' = [panel EXCEPT ![u].cert = cert]
          \/ \E disk \in Disks \ {panel[u].disk} : panel' = [panel EXCEPT ![u].disk = disk]
    BY DEF Change
  <2> DEFINE Panel == [up : BOOLEAN, cert : Certs, disk : Disks]
  <2>2. panel \in [Urls -> Panel] /\ CertsAt[u] \subseteq Certs
    BY DEF TypeInv, FleetTypeOK
  <2>3. /\ [panel[u] EXCEPT !.up = ~@] \in Panel
        /\ \A cert \in CertsAt[u] : [panel[u] EXCEPT !.cert = cert] \in Panel
        /\ \A disk \in Disks : [panel[u] EXCEPT !.disk = disk] \in Panel
    BY <2>2
  <2>4. \E p \in Panel : panel' = [panel EXCEPT ![u] = p]
    BY <2>1, <2>2, <2>3
  <2> HIDE DEF Panel
  <2>5. panel' \in [Urls -> Panel]
    BY <2>2, <2>4
  <2> QED
    BY <2>5 DEF Panel
<1>3. era' \in Nat /\ era <= era'
  BY <1>1 DEF TypeInv, FleetTypeOK
<1>4. /\ at' \in [Workers -> PollPc] /\ poll' \in [Workers -> PollRecord]
      /\ \A w \in Workers : Polling(w)'
  BY <1>1, <1>3, Aside
<1>5. \A id \in Ids : Cached(id)'
  <2>1. ASSUME NEW id \in Ids, status[id] # None PROVE status[id].checkedAt <= era'
    <3>1. status[id].checkedAt \in Nat /\ status[id].checkedAt <= era /\ era \in Nat
      BY <2>1 DEF TypeInv, FleetTypeOK, Cached, StatusRow
    <3> QED
      BY <1>1, <3>1
  <2> QED
    BY <1>1, <2>1 DEF TypeInv, Cached, Registered
<1>6. \A a \in Admins : Editing(a)'
  BY <1>1 DEF TypeInv, Editing
<1> QED
  BY <1>1, <1>2, <1>3, <1>4, <1>5, <1>6 DEF TypeInv, FleetTypeOK, PollRecord

\* What a death leaves owed are lines.
LEMMA OwedLines ==
    ASSUME TypeInv, NEW id \in Ids, NEW batches, NEW admins \in SUBSET Admins
    PROVE  Owed(id, batches, admins) \subseteq Line
<1>1. ASSUME NEW w \in Workers, at[w] = "journal" PROVE Pinned("pin", poll[w].by.pin) \in Line
  BY <1>1 DEF TypeInv, Polling, Fits, Pinned, Line, PinOrNone
<1>2. ASSUME NEW a \in Admins PROVE edit[a].lines \subseteq Line
  BY DEF TypeInv, FleetTypeOK
<1> QED
  BY <1>1, <1>2 DEF Owed

\* A process that dies leaves its polls and saves where they are.
LEMMA DieTypes ==
    ASSUME TypeInv, NEW batches, NEW admins \in SUBSET Admins, Die(batches, admins)
    PROVE  TypeInv'
<1>1. UNCHANGED <<server, journal, status, panel, era, form, edits>> /\ faults' \in Nat
  BY DEF Die, Fault, TypeInv, FleetTypeOK
<1>2. queue' \in [Batches -> SUBSET Ids] /\ at' \in [Workers -> PollPc] /\ poll' \in [Workers -> PollRecord]
  <2>1. IdlePoll \in PollRecord /\ "idle" \in PollPc
    BY DEF IdlePoll, PollRecord, PollPc
  <2> QED
    BY <2>1 DEF Die, TypeInv, FleetTypeOK, PollRecord
<1>3. edit' \in [Admins -> EditRecord]
  <2>1. NoEdit \in EditRecord
    BY DEF NoEdit, EditRecord
  <2> QED
    BY <2>1 DEF Die, TypeInv, FleetTypeOK, EditRecord
<1>4. lost' \in [Ids -> SUBSET Line]
  BY OwedLines DEF Die, TypeInv, FleetTypeOK
<1>5. ASSUME NEW w \in Workers PROVE Polling(w)'
  <2>1. at'[w] = "idle" \/ (at'[w] = at[w] /\ poll'[w] = poll[w])
    BY DEF Die
  <2>2. Fits(at[w], poll[w])
    BY DEF TypeInv, Polling
  <2> QED
    BY <1>1, <2>1, <2>2 DEF Polling, Fits, NeedsPin, ModeFor
<1>6. ASSUME NEW a \in Admins PROVE Editing(a)'
  <2>1. edit'[a] = NoEdit \/ edit'[a] = edit[a]
    BY DEF Die
  <2> QED
    BY <1>1, <2>1 DEF TypeInv, Editing
<1> QED
  BY <1>1, <1>2, <1>3, <1>4, <1>5, <1>6 DEF TypeInv, FleetTypeOK, PollRecord, EditRecord, Cached, Registered

\* A stutter keeps the types.
LEMMA StillTypes ==
    ASSUME TypeInv, UNCHANGED vars
    PROVE  TypeInv'
<1>1. UNCHANGED <<server, journal, lost, status, panel, era, queue, at, poll, form, edit, edits, faults>>
  BY DEF vars, registry, polls
<1>2. \A w \in Workers : Polling(w)'
  BY <1>1, Aside DEF TypeInv, FleetTypeOK
<1> QED
  BY <1>1, <1>2 DEF TypeInv, FleetTypeOK, Editing, Cached, Registered

\* Every step keeps the types: one lemma per kind of step.
LEMMA TypeStep == TypeInv /\ [Next]_vars => TypeInv'
<1> SUFFICES ASSUME TypeInv, [Next]_vars PROVE TypeInv'
  OBVIOUS
<1>1. CASE Tick
  BY <1>1, BatchTypes, FleetAssumption DEF Tick, PollAll, FleetAssumption
<1>2. CASE \E b \in Batches : RefreshVisible(b) \/ RefreshRow(b)
  <2>1. Visible \subseteq SUBSET Ids
    BY DEF Visible
  <2> QED
    BY <1>2, <2>1, BatchTypes DEF RefreshVisible, RefreshRow
<1> QED
  BY <1>1, <1>2, PollTypes, AdminTypes, DeleteTypes, ChangeTypes, DieTypes, StillTypes DEF Next, ProcessDies

\* The types hold in every reachable state.
LEMMA TypeInvariant == Spec => []TypeInv
  BY TypeInit, TypeStep, PTL DEF Spec

\* Every variable keeps its type; a poll under way holds a row that was
\* registered, with a pin wherever its client needs one, and a reading is dated
\* no later than now.
THEOREM TypeCorrect == Spec => []FleetTypeOK
<1>1. TypeInv => FleetTypeOK
  BY DEF TypeInv
<1> QED
  BY <1>1, TypeInvariant, PTL

-----------------------------------------------------------------------------
(* Fresh readings.                                                         *)

\* What a poll that began after the last change of a panel has found agrees with
\* the panels, through the row it was made with; so does a reading so dated.
Agrees(by, began, found) ==
    began = era /\ found.kind # "unknown" =>
        IF found.online THEN Reaches(by) /\ found.disk = panel[by.url].disk ELSE ~Reaches(by)
Finds(w) == at[w] \in {"answered", "failed"} => Agrees(poll[w].by, poll[w].began, poll[w].found)
Says(id) == status[id] # None => Agrees(status[id].by, status[id].checkedAt, status[id])
Fresh == (\A w \in Workers : Finds(w)) /\ (\A id \in Ids : Says(id))

\* What a poll found keeps agreeing with the panel while the panel does not change.
LEMMA AgreesStays ==
    ASSUME UNCHANGED <<panel, era>>, NEW by, NEW began, NEW found, Agrees(by, began, found)
    PROVE  Agrees(by, began, found)'
  BY DEF Agrees, Reaches, NeedsPin, Accepts, ModeFor, PinnedConnector

\* Where no worker but w goes on, and no panel changes.
LEMMA FreshPoll ==
    ASSUME TypeInv, Fresh, NEW w \in Workers, NEW pc, NEW p, UNCHANGED <<panel, era>>,
           at' = [at EXCEPT ![w] = pc], poll' = [poll EXCEPT ![w] = p],
           pc \in {"answered", "failed"} => Agrees(p.by, p.began, p.found)
    PROVE  \A v \in Workers : Finds(v)'
<1> SUFFICES ASSUME NEW v \in Workers PROVE Finds(v)'
  OBVIOUS
<1>1. CASE v = w
  <2>1. at'[v] = pc /\ poll'[v] = p
    BY <1>1 DEF TypeInv, FleetTypeOK
  <2>2. pc \in {"answered", "failed"} => Agrees(p.by, p.began, p.found)'
    BY AgreesStays
  <2> QED
    BY <2>1, <2>2 DEF Finds, Agrees, Reaches, NeedsPin, Accepts, ModeFor, PinnedConnector
<1>2. CASE v # w
  <2>1. at'[v] = at[v] /\ poll'[v] = poll[v]
    BY <1>2 DEF TypeInv, FleetTypeOK
  <2>2. Finds(v)
    BY DEF Fresh
  <2> QED
    BY <2>1, <2>2 DEF Finds, Agrees, Reaches, NeedsPin, Accepts, ModeFor, PinnedConnector
<1> QED
  BY <1>1, <1>2

\* Where the workers, the panels and the readings stay.
LEMMA FreshSame ==
    ASSUME Fresh, UNCHANGED <<panel, era>>
    PROVE  /\ UNCHANGED <<at, poll>> => \A w \in Workers : Finds(w)'
           /\ UNCHANGED status => \A id \in Ids : Says(id)'
  BY DEF Fresh, Finds, Says, Agrees, Reaches, NeedsPin, Accepts, ModeFor, PinnedConnector

\* What a poll finds is how things are.
LEMMA FreshFound ==
    ASSUME TypeInv, NEW w \in Workers, Probe(w) \/ Collect(w), at'[w] \in {"answered", "failed"}
    PROVE  \E p : /\ at' = [at EXCEPT ![w] = at'[w]] /\ poll' = [poll EXCEPT ![w] = p]
                  /\ Agrees(p.by, p.began, p.found)
<1> DEFINE by == poll[w].by
<1> USE DEF FleetTypeOK, TypeInv
<1>1. poll[w] \in PollRecord /\ Fits(at[w], poll[w])
  BY DEF PollRecord, Polling
<1>2. at[w] \in {"probe", "collect"}
  BY DEF Probe, Collect
<1>3. ASSUME NEW kind \in {"network", "tls"}, Fails(w, kind), ~Reaches(by)
      PROVE  \E p : /\ at' = [at EXCEPT ![w] = at'[w]] /\ poll' = [poll EXCEPT ![w] = p]
                    /\ Agrees(p.by, p.began, p.found)
  <2> DEFINE p == [poll[w] EXCEPT !.found = Failed(kind)]
  <2>1. p.by = by /\ p.found = Failed(kind) /\ ~Failed(kind).online
    BY <1>1 DEF PollRecord, Failed
  <2>2. Agrees(p.by, p.began, p.found)
    BY <1>3, <2>1 DEF Agrees
  <2>3. poll' = [poll EXCEPT ![w] = p] /\ at' = [at EXCEPT ![w] = at'[w]]
    BY <1>3 DEF Fails, Goto
  <2> QED
    BY <2>2, <2>3
<1>4. CASE Probe(w)
  <2>1. ~panel[by.url].up
    BY <1>4 DEF Probe, Goto
  <2>2. ~Reaches(by) /\ Fails(w, "network")
    BY <1>4, <2>1 DEF Probe, Reaches
  <2> QED
    BY <1>3, <2>2
<1>5. CASE Collect(w)
  <2> DEFINE reached == panel[by.url].up /\ Accepts(ModeFor(by), by.pin, by.url)
  <2>1. Reaches(by) <=> reached
    BY <1>1, <1>5 DEF Collect, Fits, Reaches
  <2>2. CASE ~reached
    <3>1. Fails(w, "tls") \/ Fails(w, "network")
      BY <1>5, <2>2 DEF Collect
    <3> QED
      BY <1>3, <2>1, <2>2, <3>1
  <2>3. CASE reached
    <3> DEFINE snapshot == [online |-> TRUE, kind |-> None, disk |-> panel[by.url].disk]
               p == [poll[w] EXCEPT !.found = snapshot]
    <3>1. /\ at' = [at EXCEPT ![w] = "answered"] /\ poll' = [poll EXCEPT ![w] = p]
      BY <1>5, <2>3 DEF Collect, Goto
    <3>2. p.by = by /\ p.found = snapshot
      BY <1>1 DEF PollRecord
    <3>3. Agrees(p.by, p.began, p.found)
      BY <2>1, <2>3, <3>2 DEF Agrees
    <3> QED
      BY <3>1, <3>3
  <2> QED
    BY <2>2, <2>3
<1> QED
  BY <1>4, <1>5

\* Every step keeps what was found in agreement: a change of the panel makes it old, a poll
\* finds what is there now.
LEMMA FreshStep == TypeInv /\ Fresh /\ [Next]_vars => Fresh'
<1> SUFFICES ASSUME TypeInv, Fresh, [Next]_vars PROVE Fresh'
  OBVIOUS
<1>1. CASE Change
  <2>1. /\ UNCHANGED <<status, at, poll>> /\ era' = era + 1 /\ era \in Nat
    BY <1>1 DEF Change, polls, TypeInv, FleetTypeOK
  <2>2. ASSUME NEW w \in Workers PROVE Finds(w)'
    <3>1. at[w] \in {"answered", "failed"} => poll[w].began \in Nat /\ poll[w].began <= era
      BY DEF TypeInv, FleetTypeOK, Polling, Fits
    <3>2. at[w] \in {"answered", "failed"} => poll[w].began # era'
      BY <2>1, <3>1
    <3> QED
      BY <2>1, <3>2 DEF Finds, Agrees
  <2>3. ASSUME NEW id \in Ids PROVE Says(id)'
    <3>1. status[id] # None => status[id].checkedAt \in Nat /\ status[id].checkedAt <= era
      BY DEF TypeInv, FleetTypeOK, StatusRow, Cached
    <3>2. status[id] # None => status[id].checkedAt # era'
      BY <2>1, <3>1
    <3> QED
      BY <2>1, <3>2 DEF Says, Agrees
  <2> QED
    BY <2>2, <2>3 DEF Fresh
<1>2. CASE Delete
  <2>1. PICK id \in Ids : status' = [status EXCEPT ![id] = None]
    BY <1>2 DEF Delete
  <2>2. UNCHANGED <<panel, era, at, poll>>
    BY <1>2 DEF Delete, polls
  <2>3. ASSUME NEW i \in Ids PROVE Says(i)'
    <3>1. status'[i] = IF i = id THEN None ELSE status[i]
      BY <2>1 DEF TypeInv, FleetTypeOK
    <3> QED
      BY <2>2, <3>1 DEF Fresh, Says, Agrees, Reaches, NeedsPin, Accepts, ModeFor, PinnedConnector
  <2> QED
    BY <2>2, <2>3, FreshSame DEF Fresh
<1>3. CASE UNCHANGED <<panel, era, status, at, poll>>
  BY <1>3, FreshSame DEF Fresh
<1>4. ASSUME NEW w \in Workers, PollStep(w) PROVE Fresh'
  <2>1. UNCHANGED <<panel, era>>
    BY <1>4 DEF PollStep, Take, Probe, StorePin, JournalPin, Collect, WriteOnline, WriteOffline, Quiet
  <2>2. Fits(at[w], poll[w]) /\ poll[w] \in PollRecord
    BY DEF TypeInv, FleetTypeOK, Polling, PollRecord
  \* Steps that reach neither end nor the cache.
  <2>3. CASE Take(w) \/ (StorePin(w) /\ Registered(poll[w].id)) \/ JournalPin(w)
    <3>1. UNCHANGED status
      BY <2>3 DEF Take, StorePin, JournalPin
    <3>2. \/ UNCHANGED <<at, poll>>
          \/ \E pc \in {"probe", "collect", "journal"} : \E p :
               at' = [at EXCEPT ![w] = pc] /\ poll' = [poll EXCEPT ![w] = p]
      <4>1. CASE Take(w)
        BY <4>1 DEF Take, Goto
      <4>2. CASE ~Take(w)
        <5>1. UNCHANGED poll /\ \E pc \in {"journal", "collect"} : at' = [at EXCEPT ![w] = pc]
          BY <2>3, <4>2 DEF StorePin, JournalPin, Goto
        <5>2. poll' = [poll EXCEPT ![w] = poll[w]]
          BY <5>1 DEF TypeInv, FleetTypeOK
        <5> QED
          BY <5>1, <5>2
      <4> QED
        BY <4>1, <4>2
    <3> QED
      BY <2>1, <3>1, <3>2, FreshPoll, FreshSame DEF Fresh
  <2>4. CASE \E kind \in {"unknown"} : Fails(w, kind) /\ UNCHANGED status
    <3> DEFINE p == [poll[w] EXCEPT !.found = Failed("unknown")]
    <3>1. p.found.kind = "unknown"
      BY <2>2 DEF PollRecord, Failed
    <3>2. Agrees(p.by, p.began, p.found)
      BY <3>1 DEF Agrees
    <3>3. at' = [at EXCEPT ![w] = "failed"] /\ poll' = [poll EXCEPT ![w] = p]
      BY <2>4 DEF Fails, Goto
    <3> QED
      BY <2>1, <2>4, <3>2, <3>3, FreshPoll, FreshSame DEF Fresh
  <2>5. CASE Probe(w) \/ Collect(w)
    <3>1. UNCHANGED status
      BY <2>5 DEF Probe, Collect
    <3>2. \E pc, p : /\ at' = [at EXCEPT ![w] = pc] /\ poll' = [poll EXCEPT ![w] = p]
                     /\ pc \in {"answered", "failed"} => Agrees(p.by, p.began, p.found)
      <4>1. CASE at'[w] \in {"answered", "failed"}
        BY <2>5, <4>1, FreshFound
      <4>2. CASE at'[w] \notin {"answered", "failed"}
        <5>1. CASE Probe(w)
          <6>1. panel[poll[w].by.url].up
            BY <4>2, <5>1 DEF Probe, Fails, Goto, TypeInv, FleetTypeOK
          <6>2. /\ at' = [at EXCEPT ![w] = "pin"]
                /\ poll' = [poll EXCEPT ![w].by.pin = panel[poll[w].by.url].cert]
            BY <5>1, <6>1 DEF Probe, Goto
          <6>3. \E p : poll' = [poll EXCEPT ![w] = p]
            BY <6>2
          <6>4. "pin" \notin {"answered", "failed"}
            OBVIOUS
          <6> QED
            BY <6>2, <6>3, <6>4
        <5>2. CASE Collect(w)
          <6>1. \E pc \in {"answered", "failed"} : at' = [at EXCEPT ![w] = pc]
            BY <5>2 DEF Collect, Fails, Goto
          <6> QED
            BY <4>2, <6>1 DEF TypeInv, FleetTypeOK
        <5> QED
          BY <2>5, <5>1, <5>2
      <4> QED
        BY <4>1, <4>2
    <3> QED
      BY <2>1, <3>1, <3>2, FreshPoll, FreshSame DEF Fresh
  <2>6. ASSUME Done(w) PROVE \A v \in Workers : Finds(v)'
    BY <2>1, <2>6, FreshPoll DEF Done, Goto
  <2>7. ASSUME Done(w), UNCHANGED status PROVE Fresh'
    BY <2>1, <2>6, <2>7, FreshSame DEF Fresh
  <2>8. ASSUME at[w] \in {"answered", "failed"}, Done(w), Upsert(w, poll[w].found) PROVE Fresh'
    <3> DEFINE id == poll[w].id  found == poll[w].found
    <3>1. id \in Ids /\ found \in Finding
      BY <2>2, <2>8 DEF Fits
    <3>2. Agrees(poll[w].by, poll[w].began, found)
      BY <2>8 DEF Fresh, Finds
    <3>3. PICK r : r = Reading(w, found)
      OBVIOUS
    <3>4. /\ r.online = found.online /\ r.kind = found.kind
          /\ found.online => r.disk = found.disk
          /\ r.checkedAt = poll[w].began /\ r.by = poll[w].by
      BY <3>3 DEF Reading, DiskKept
    <3>5. Agrees(r.by, r.checkedAt, r)
      BY <3>2, <3>4 DEF Agrees
    <3>6. Agrees(r.by, r.checkedAt, r)'
      BY <2>1, <3>5, AgreesStays
    <3>7. ASSUME NEW i \in Ids PROVE Says(i)'
      <4>1. status'[i] = IF i = id THEN r ELSE status[i]
        BY <2>8, <3>3 DEF Upsert, TypeInv, FleetTypeOK
      <4>2. CASE i = id
        BY <3>6, <4>1, <4>2 DEF Says, Agrees, Reaches, NeedsPin, Accepts, ModeFor, PinnedConnector
      <4>3. CASE i # id
        BY <2>1, <4>1, <4>3 DEF Fresh, Says, Agrees, Reaches, NeedsPin, Accepts, ModeFor, PinnedConnector
      <4> QED
        BY <4>2, <4>3
    <3> QED
      BY <2>6, <2>8, <3>7 DEF Fresh
  <2>9. CASE StorePin(w) /\ ~Registered(poll[w].id)
    BY <2>4, <2>9 DEF StorePin
  <2>10. CASE WriteOnline(w)
    BY <2>4, <2>8, <2>10 DEF WriteOnline
  <2>11. CASE WriteOffline(w)
    <3>1. at[w] = "failed" /\ Done(w) /\ (Upsert(w, poll[w].found) \/ UNCHANGED status)
      BY <2>11 DEF WriteOffline
    <3> QED
      BY <2>7, <2>8, <3>1
  <2>12. CASE StorePin(w)
    BY <2>3, <2>9, <2>12
  <2>13. CASE Take(w) \/ JournalPin(w)
    BY <2>3, <2>13
  <2> QED
    BY <1>4, <2>5, <2>10, <2>11, <2>12, <2>13 DEF PollStep
<1>5. CASE Tick \/ \E b \in Batches : RefreshVisible(b) \/ RefreshRow(b)
  BY <1>3, <1>5 DEF Tick, RefreshVisible, RefreshRow, Batch
<1>6. CASE (\E a \in Admins : SaveStep(a) \/ DialogStep(a)) \/ UNCHANGED vars
  BY <1>3, <1>6 DEF Create, SaveStep, UpdateServer, JournalSave, DialogStep, Mount, Inspect, LoadBefore,
                    Still, polls, vars
<1>7. ASSUME NEW batches, NEW admins, Die(batches, admins) PROVE Fresh'
  <2>1. UNCHANGED <<panel, era, status>>
    BY <1>7 DEF Die
  <2>2. ASSUME NEW w \in Workers PROVE Finds(w)'
    <3>1. at'[w] = "idle" \/ (at'[w] = at[w] /\ poll'[w] = poll[w])
      BY <1>7 DEF Die
    <3>2. Finds(w)
      BY DEF Fresh
    <3> QED
      BY <2>1, <3>1, <3>2 DEF Finds, Agrees, Reaches, NeedsPin, Accepts, ModeFor, PinnedConnector
  <2> QED
    BY <2>1, <2>2, FreshSame DEF Fresh
<1> QED
  BY <1>1, <1>2, <1>4, <1>5, <1>6, <1>7 DEF Next, ProcessDies

\* A reading made with the registration as it stands, dated after the last change
\* of a panel, says of its server what the panel would say now, in whatever order
\* the polls that overlap were written.
THEOREM FreshReadings == Spec => []FreshReadingIsTrue
<1>1. Init => Fresh
  BY DEF Init, Fresh, Finds, Says
<1>2. TypeInv /\ Fresh => FreshReadingIsTrue
  <2> SUFFICES ASSUME TypeInv, Fresh, NEW id \in Ids, Current(id)
               PROVE  Attention(id) = IF ~Reaches(server[id]) THEN "offline"
                                      ELSE IF panel[server[id].url].disk = "full" THEN "disk" ELSE "none"
    BY DEF FreshReadingIsTrue
  <2>1. Agrees(server[id], era, status[id]) /\ status[id].kind # "unknown"
    BY DEF Fresh, Says, Current
  <2>2. status[id].online \in BOOLEAN
    BY DEF TypeInv, FleetTypeOK, StatusRow, Current
  <2> QED
    BY <2>1, <2>2 DEF Agrees, Attention
<1> QED
  BY <1>1, <1>2, FreshStep, TypeInvariant, PTL DEF Spec

-----------------------------------------------------------------------------
(* Trust and the journal.                                                  *)

\* A dialog submits once its save before is done with.
OneSave == \A a \in Admins : form[a].id # None => edit[a] = NoEdit

\* A step keeps what a line, or a request about to write it, says of a server: lines are
\* only added or lost.
LEMMA LinesStay ==
    ASSUME TypeInv, [Next]_vars, NEW id \in Ids
    PROVE  Lines(id) \subseteq Lines(id)'
<1>1. CASE UNCHANGED <<journal, lost>>
  BY <1>1 DEF Lines
<1>2. ASSUME NEW w \in Workers, PollStep(w) PROVE Lines(id) \subseteq Lines(id)'
  <2>1. CASE JournalPin(w)
    <3>1. poll[w].id \in Ids /\ Pinned("pin", poll[w].by.pin) \in Line
      BY <2>1 DEF JournalPin, TypeInv, Polling, Fits, Pinned, Line, PinOrNone
    <3> QED
      BY <2>1, <3>1, LineGiven DEF JournalPin
  <2>2. JournalPin(w) \/ UNCHANGED <<journal, lost>>
    BY <1>2 DEF PollStep, Take, Probe, StorePin, Collect, WriteOnline, WriteOffline, registry
  <2> QED
    BY <1>1, <2>1, <2>2
<1>3. ASSUME NEW a \in Admins, SaveStep(a) \/ DialogStep(a) PROVE Lines(id) \subseteq Lines(id)'
  <2>1. CASE JournalSave(a)
    <3>1. PICK line \in edit[a].lines : RecordAudit(edit[a].id, line)
      BY <2>1 DEF JournalSave
    <3>2. edit[a].id \in Ids /\ line \in Line
      BY <2>1, <3>1 DEF JournalSave, Saved, TypeInv, FleetTypeOK, Editing
    <3> QED
      BY <3>1, <3>2, LineGiven
  <2>2. JournalSave(a) \/ UNCHANGED <<journal, lost>>
    BY <1>3 DEF SaveStep, DialogStep, UpdateServer, Mount, Inspect, LoadBefore, Create, registry
  <2> QED
    BY <1>1, <2>1, <2>2
<1>4. CASE Delete
  BY <1>4 DEF Delete, Lines, TypeInv, FleetTypeOK
<1>5. ASSUME NEW batches, NEW admins, Die(batches, admins) PROVE Lines(id) \subseteq Lines(id)'
  BY <1>5 DEF Die, Lines
<1>6. CASE Tick \/ Change \/ (\E b \in Batches : RefreshVisible(b) \/ RefreshRow(b)) \/ UNCHANGED vars
  BY <1>1, <1>6 DEF Tick, Change, RefreshVisible, RefreshRow, Batch, registry, vars
<1> QED
  BY <1>2, <1>3, <1>4, <1>5, <1>6 DEF Next, ProcessDies

\* A poll that has stored a pin still owes its line, or the line is there or lost.
LEMMA PinLineComes ==
    ASSUME TypeInv, [Next]_vars, NEW w \in Workers, at[w] = "journal",
           NEW id, id = poll[w].id, Registered(id), NEW line, line = Pinned("pin", poll[w].by.pin)
    PROVE  (at'[w] = "journal" /\ poll'[w] = poll[w]) \/ line \in Lines(id)'
<1>1. id \in Ids /\ line \in Line
  BY DEF TypeInv, Polling, Fits, Pinned, Line, PinOrNone
<1>2. CASE UNCHANGED <<at, poll>>
  BY <1>2
<1>3. ASSUME NEW v \in Workers, PollStep(v), v # w PROVE at'[w] = "journal" /\ poll'[w] = poll[w]
  BY <1>3 DEF PollStep, Take, Probe, StorePin, JournalPin, Collect, WriteOnline, WriteOffline, Goto, Fails, Done,
              TypeInv, FleetTypeOK
<1>4. CASE PollStep(w)
  <2>1. JournalPin(w)
    BY <1>4 DEF PollStep, Take, Probe, StorePin, Collect, WriteOnline, WriteOffline
  <2>2. RecordAudit(id, line)
    BY <2>1 DEF JournalPin
  <2> QED
    BY <1>1, <2>2, LineGiven
<1>5. CASE Tick \/ \E b \in Batches : RefreshVisible(b) \/ RefreshRow(b)
  BY <1>2, <1>5 DEF Tick, RefreshVisible, RefreshRow, Batch
<1>6. CASE Delete \/ Change \/ (\E a \in Admins : SaveStep(a) \/ DialogStep(a)) \/ UNCHANGED vars
  BY <1>2, <1>6 DEF Create, Delete, Change, SaveStep, UpdateServer, JournalSave, DialogStep, Mount, Inspect,
                    LoadBefore, Still, polls, vars
<1>7. ASSUME NEW batches, NEW admins, Die(batches, admins)
      PROVE  (at'[w] = "journal" /\ poll'[w] = poll[w]) \/ line \in Lines(id)'
  <2>1. CASE w[1] \in batches
    <3>1. line \in Owed(id, batches, admins)
      BY <2>1 DEF Owed
    <3>2. lost'[id] = lost[id] \cup Owed(id, batches, admins)
      BY <1>1, <1>7 DEF Die
    <3> QED
      BY <3>1, <3>2 DEF Lines
  <2>2. CASE w[1] \notin batches
    BY <1>7, <2>2 DEF Die
  <2> QED
    BY <2>1, <2>2
<1> QED
  BY <1>3, <1>4, <1>5, <1>6, <1>7 DEF Next, ProcessDies

\* A save that has written its row still owes a line, or the line is there or lost.
LEMMA SaveLinesCome ==
    ASSUME TypeInv, OneSave, [Next]_vars, NEW a \in Admins, Saved(a),
           NEW id, id = edit[a].id, Registered(id), NEW line \in edit[a].lines
    PROVE  \/ Saved(a)' /\ edit'[a].id = id /\ line \in edit'[a].lines
           \/ line \in Lines(id)'
<1>1. edit[a] \in EditRecord /\ id \in Ids /\ line \in Line
  BY DEF TypeInv, FleetTypeOK, EditRecord, Editing, Saved
<1>2. CASE edit'[a] = edit[a]
  BY <1>2 DEF Saved
<1>3. ASSUME NEW b \in Admins, SaveStep(b) \/ DialogStep(b), b # a PROVE edit'[a] = edit[a]
  BY <1>3 DEF SaveStep, UpdateServer, JournalSave, DialogStep, Mount, Inspect, LoadBefore, Create,
              TypeInv, FleetTypeOK
<1>4. CASE SaveStep(a) \/ DialogStep(a)
  <2>1. CASE JournalSave(a)
    <3>1. PICK l \in edit[a].lines :
            RecordAudit(id, l) /\ edit'[a] = Written(edit[a], l)
      BY <2>1 DEF JournalSave, TypeInv, FleetTypeOK
    <3>2. CASE l = line
      BY <1>1, <3>1, <3>2, LineGiven
    <3>3. CASE l # line
      <4>1. edit'[a] = [edit[a] EXCEPT !.lines = @ \ {l}]
        BY <3>1, <3>3 DEF Written
      <4>2. /\ edit'[a].id = id /\ edit'[a].row = None /\ line \in edit'[a].lines
        BY <1>1, <3>3, <4>1 DEF EditRecord, Saved
      <4>3. edit'[a] # NoEdit
        BY <4>2 DEF NoEdit
      <4> QED
        BY <4>2, <4>3 DEF Saved
    <3> QED
      BY <3>2, <3>3
  <2>2. CASE Mount(a) \/ Inspect(a)
    BY <1>2, <2>2 DEF Mount, Inspect
  <2>3. ~UpdateServer(a) /\ ~LoadBefore(a) /\ ~Create(a)
    BY DEF UpdateServer, LoadBefore, Create, Writing, Saved, OneSave
  <2> QED
    BY <1>4, <2>1, <2>2, <2>3 DEF SaveStep, DialogStep
<1>5. CASE \E w \in Workers : PollStep(w)
  BY <1>2, <1>5 DEF PollStep, Take, Probe, StorePin, JournalPin, Collect, WriteOnline, WriteOffline, Quiet
<1>6. CASE Tick \/ \E b \in Batches : RefreshVisible(b) \/ RefreshRow(b)
  BY <1>2, <1>6 DEF Tick, RefreshVisible, RefreshRow, Batch
<1>7. CASE Delete \/ Change \/ UNCHANGED vars
  BY <1>2, <1>7 DEF Delete, Change, vars
<1>8. ASSUME NEW batches, NEW admins \in SUBSET Admins, Die(batches, admins)
      PROVE  \/ Saved(a)' /\ edit'[a].id = id /\ line \in edit'[a].lines
             \/ line \in Lines(id)'
  <2>1. CASE a \in admins
    <3>1. line \in Owed(id, batches, admins)
      BY <2>1 DEF Owed
    <3>2. lost'[id] = lost[id] \cup Owed(id, batches, admins)
      BY <1>1, <1>8 DEF Die
    <3> QED
      BY <3>1, <3>2 DEF Lines
  <2>2. CASE a \notin admins
    BY <1>2, <1>8, <2>2 DEF Die
  <2> QED
    BY <2>1, <2>2
<1> QED
  BY <1>2, <1>3, <1>4, <1>5, <1>6, <1>7, <1>8 DEF Next, ProcessDies

\* No id is registered twice.
LEMMA GoneStays ==
    ASSUME TypeInv, [Next]_vars, NEW id \in Ids, server[id] # Unused, Registered(id)'
    PROVE  Registered(id)
<1> SUFFICES ASSUME server[id] = Gone PROVE FALSE
  BY DEF TypeInv, FleetTypeOK, Registered
<1> USE FleetAssumption DEF FleetAssumption, TypeInv, FleetTypeOK, Registered
<1>1. CASE UNCHANGED server
  BY <1>1
<1>2. ASSUME NEW w \in Workers, PollStep(w) PROVE FALSE
  BY <1>2, <1>1 DEF PollStep, Take, Probe, StorePin, JournalPin, Collect, WriteOnline, WriteOffline, registry
<1>3. ASSUME NEW a \in Admins, SaveStep(a) \/ DialogStep(a) PROVE FALSE
  BY <1>3, <1>1 DEF SaveStep, DialogStep, UpdateServer, JournalSave, Mount, Inspect, LoadBefore, Create, registry
<1>4. CASE Delete \/ ProcessDies
  BY <1>1, <1>4 DEF ProcessDies, Die, Delete
<1>5. CASE Tick \/ Change \/ (\E b \in Batches : RefreshVisible(b) \/ RefreshRow(b)) \/ UNCHANGED vars
  BY <1>1, <1>5 DEF Tick, Change, RefreshVisible, RefreshRow, Batch, registry, vars
<1> QED
  BY <1>2, <1>3, <1>4, <1>5 DEF Next

\* A certificate trusted for a server, as long as the server is there.
Vouched(id, cert) == Registered(id) => Named(id, cert)

\* A certificate that somebody vouches for stays vouched for: its line is there or still owed.
LEMMA VouchedStays ==
    ASSUME TypeInv, OneSave, [Next]_vars, NEW id \in Ids, server[id] # Unused, NEW cert, Vouched(id, cert)
    PROVE  Vouched(id, cert)'
<1> SUFFICES ASSUME Registered(id)' PROVE Named(id, cert)'
  BY DEF Vouched
<1>1. Registered(id) /\ Named(id, cert) /\ Lines(id) \subseteq Lines(id)'
  BY GoneStays, LinesStay DEF Vouched
<1>2. ASSUME NEW action \in {"pin", "repin"}, Pinned(action, cert) \in Lines(id)'
      PROVE  Named(id, cert)'
  BY <1>2 DEF Named, Said, Lines, Pinned
<1>3. CASE Said(id, cert)
  BY <1>1, <1>2, <1>3 DEF Said, Lines
<1>4. CASE \E w \in Workers : at[w] = "journal" /\ poll[w].id = id /\ poll[w].by.pin = cert
  <2>1. PICK w \in Workers : at[w] = "journal" /\ poll[w].id = id /\ poll[w].by.pin = cert
    BY <1>4
  <2>2. PICK line : line = Pinned("pin", cert)
    OBVIOUS
  <2>3. (at'[w] = "journal" /\ poll'[w] = poll[w]) \/ line \in Lines(id)'
    BY <1>1, <2>1, <2>2, PinLineComes
  <2> QED
    BY <1>2, <2>1, <2>2, <2>3 DEF Named
<1>5. CASE \E a \in Admins : /\ Saved(a) /\ edit[a].id = id
                           /\ \E action \in {"pin", "repin"} : Pinned(action, cert) \in edit[a].lines
  <2>1. PICK a \in Admins, action \in {"pin", "repin"} :
          Saved(a) /\ edit[a].id = id /\ Pinned(action, cert) \in edit[a].lines
    BY <1>5
  <2>2. PICK line : line = Pinned(action, cert)
    OBVIOUS
  <2>3. \/ Saved(a)' /\ edit'[a].id = id /\ line \in edit'[a].lines
        \/ line \in Lines(id)'
    BY <1>1, <2>1, <2>2, SaveLinesCome
  <2> QED
    BY <1>2, <2>2, <2>3 DEF Named, Pinned
<1> QED
  BY <1>1, <1>3, <1>4, <1>5 DEF Named

\* Who trusts what: a row its pin, a poll and a reading the pin of their client,
\* a save the pin it started from.
RowTrust(id) == server[id] \in Server /\ server[id].pin # None => Vouched(id, server[id].pin)
PollTrust(w) ==
    at[w] \in {"collect", "answered"} /\ ModeFor(poll[w].by) = "PINNED" => Vouched(poll[w].id, poll[w].by.pin)
SaveTrust(a) == Writing(a) /\ edit[a].before.pin # None => Vouched(edit[a].id, edit[a].before.pin)
CacheTrust(id) ==
    status[id] # None /\ status[id].online /\ ModeFor(status[id].by) = "PINNED" =>
        status[id].by.pin # None /\ Vouched(id, status[id].by.pin)

\* Each of these stays while what it speaks of stays.
LEMMA TrustStays ==
    ASSUME TypeInv, OneSave, [Next]_vars
    PROVE  /\ \A id \in Ids : RowTrust(id) /\ server'[id] = server[id] => RowTrust(id)'
           /\ \A w \in Workers : PollTrust(w) /\ at'[w] = at[w] /\ poll'[w] = poll[w] => PollTrust(w)'
           /\ \A a \in Admins : SaveTrust(a) /\ edit'[a] = edit[a] => SaveTrust(a)'
           /\ \A id \in Ids : CacheTrust(id) /\ status'[id] = status[id] => CacheTrust(id)'
<1>1. ASSUME NEW id \in Ids, RowTrust(id), server'[id] = server[id] PROVE RowTrust(id)'
  <2>1. CASE server[id] \in Server /\ server[id].pin # None
    <3>1. PICK cert : cert = server[id].pin
      OBVIOUS
    <3>2. Vouched(id, cert)'
      BY <1>1, <2>1, <3>1, VouchedStays, FleetAssumption DEF RowTrust, FleetAssumption
    <3> QED
      BY <1>1, <3>1, <3>2 DEF RowTrust, Vouched, Named
  <2>2. CASE ~(server[id] \in Server /\ server[id].pin # None)
    BY <1>1, <2>2 DEF RowTrust
  <2> QED
    BY <2>1, <2>2
<1>2. ASSUME NEW w \in Workers, PollTrust(w), at'[w] = at[w], poll'[w] = poll[w] PROVE PollTrust(w)'
  <2>1. CASE at[w] \in {"collect", "answered"} /\ ModeFor(poll[w].by) = "PINNED"
    <3>1. PICK id, cert : id = poll[w].id /\ cert = poll[w].by.pin
      OBVIOUS
    <3>2. id \in Ids /\ server[id] # Unused
      BY <2>1, <3>1 DEF TypeInv, Polling, Fits
    <3>3. Vouched(id, cert)'
      BY <1>2, <2>1, <3>1, <3>2, VouchedStays DEF PollTrust
    <3> QED
      BY <1>2, <3>1, <3>3 DEF PollTrust, Vouched, Named, Registered
  <2>2. CASE ~(at[w] \in {"collect", "answered"} /\ ModeFor(poll[w].by) = "PINNED")
    BY <1>2, <2>2 DEF PollTrust, ModeFor
  <2> QED
    BY <2>1, <2>2
<1>3. ASSUME NEW a \in Admins, SaveTrust(a), edit'[a] = edit[a] PROVE SaveTrust(a)'
  <2>1. CASE Writing(a) /\ edit[a].before.pin # None
    <3>1. PICK id, cert : id = edit[a].id /\ cert = edit[a].before.pin
      OBVIOUS
    <3>2. id \in Ids /\ server[id] # Unused
      BY <2>1, <3>1 DEF TypeInv, Editing, Writing
    <3>3. Vouched(id, cert)'
      BY <1>3, <2>1, <3>1, <3>2, VouchedStays DEF SaveTrust
    <3> QED
      BY <1>3, <3>1, <3>3 DEF SaveTrust, Vouched, Named, Registered
  <2>2. CASE ~(Writing(a) /\ edit[a].before.pin # None)
    BY <1>3, <2>2 DEF SaveTrust, Writing
  <2> QED
    BY <2>1, <2>2
<1>4. ASSUME NEW id \in Ids, CacheTrust(id), status'[id] = status[id] PROVE CacheTrust(id)'
  <2>1. CASE status[id] # None /\ status[id].online /\ ModeFor(status[id].by) = "PINNED"
    <3>1. PICK cert : cert = status[id].by.pin
      OBVIOUS
    <3>2. server[id] # Unused
      BY <2>1, FleetAssumption DEF TypeInv, Cached, Registered, FleetAssumption
    <3>3. Vouched(id, cert)' /\ cert # None
      BY <1>4, <2>1, <3>1, <3>2, VouchedStays DEF CacheTrust
    <3> QED
      BY <1>4, <3>1, <3>3 DEF CacheTrust, Vouched, Named
  <2>2. CASE ~(status[id] # None /\ status[id].online /\ ModeFor(status[id].by) = "PINNED")
    BY <1>4, <2>2 DEF CacheTrust, ModeFor
  <2> QED
    BY <2>1, <2>2
<1> QED
  BY <1>1, <1>2, <1>3, <1>4

Trust ==
    /\ OneSave
    /\ \A id \in Ids : RowTrust(id) /\ CacheTrust(id)
    /\ \A w \in Workers : PollTrust(w)
    /\ \A a \in Admins : SaveTrust(a)

\* A dialog that is open has no save of its own under way: every step keeps it so.
LEMMA OneSaveStep == TypeInv /\ OneSave /\ [Next]_vars => OneSave'
<1> SUFFICES ASSUME TypeInv, OneSave, [Next]_vars PROVE OneSave'
  OBVIOUS
<1> USE DEF TypeInv, FleetTypeOK
<1>1. CASE UNCHANGED <<form, edit>>
  BY <1>1 DEF OneSave
<1>2. ASSUME NEW a \in Admins, SaveStep(a) \/ DialogStep(a) PROVE OneSave'
  <2> SUFFICES ASSUME NEW b \in Admins PROVE (form[b].id # None => edit[b] = NoEdit)'
    BY DEF OneSave
  <2>1. CASE Mount(a)
    BY <2>1 DEF Mount, OneSave
  <2>2. CASE Inspect(a)
    <3>1. form'[b].id = form[b].id /\ UNCHANGED edit
      BY <2>2 DEF Inspect
    <3> QED
      BY <3>1 DEF OneSave
  <2>3. CASE LoadBefore(a)
    BY <2>3 DEF LoadBefore, OneSave, Closed
  <2>5. CASE Create(a)
    BY <2>5 DEF Create, OneSave
  <2>4. CASE UpdateServer(a) \/ JournalSave(a)
    <3>1. edit[a] # NoEdit /\ UNCHANGED form
      BY <2>4 DEF UpdateServer, JournalSave, Writing, Saved
    <3>2. b # a => edit'[b] = edit[b]
      BY <2>4 DEF UpdateServer, JournalSave
    <3> QED
      BY <3>1, <3>2 DEF OneSave
  <2> QED
    BY <1>2, <2>1, <2>2, <2>3, <2>4, <2>5 DEF SaveStep, DialogStep
<1>3. CASE \E w \in Workers : PollStep(w)
  BY <1>1, <1>3 DEF PollStep, Take, Probe, StorePin, JournalPin, Collect, WriteOnline, WriteOffline, Quiet
<1>4. CASE Tick \/ \E b \in Batches : RefreshVisible(b) \/ RefreshRow(b)
  BY <1>1, <1>4 DEF Tick, RefreshVisible, RefreshRow, Batch
<1>5. CASE Delete \/ Change \/ UNCHANGED vars
  BY <1>1, <1>5 DEF Delete, Change, vars
<1>6. CASE ProcessDies
  BY <1>6 DEF ProcessDies, Die, OneSave
<1> QED
  BY <1>2, <1>3, <1>4, <1>5, <1>6 DEF Next

\* A poll stores only pins and readings that somebody vouches for.
LEMMA PollTrustStep ==
    ASSUME TypeInv, Trust, NEW w \in Workers, PollStep(w), [Next]_vars
    PROVE  Trust'
<1> USE DEF TypeInv, FleetTypeOK
<1>1. UNCHANGED edit /\ OneSave /\ OneSave'
  BY OneSaveStep DEF PollStep, Take, Probe, StorePin, JournalPin, Collect, WriteOnline, WriteOffline, Quiet, Trust
<1>2. Fits(at[w], poll[w]) /\ poll[w] \in PollRecord
  BY DEF Polling, PollRecord
<1>3. \A a \in Admins : SaveTrust(a)'
  BY <1>1, TrustStays DEF Trust
<1>4. ASSUME NEW v \in Workers, v # w PROVE PollTrust(v)'
  <2>1. at'[v] = at[v] /\ poll'[v] = poll[v]
    BY <1>4 DEF PollStep, Take, Probe, StorePin, JournalPin, Collect, WriteOnline, WriteOffline, Goto, Fails, Done
  <2> QED
    BY <1>1, <2>1, TrustStays DEF Trust
<1>5. ASSUME NEW id \in Ids PROVE RowTrust(id)'
  <2>1. CASE server'[id] = server[id]
    BY <1>1, <2>1, TrustStays DEF Trust
  <2>2. CASE server'[id] # server[id]
    <3>1. StorePin(w)
      BY <2>2 DEF PollStep, Take, Probe, JournalPin, Collect, WriteOnline, WriteOffline, registry
    <3>2. Registered(poll[w].id) /\ id = poll[w].id
      BY <2>2, <3>1 DEF StorePin
    <3>3. /\ at'[w] = "journal" /\ poll'[w] = poll[w]
          /\ server' = [server EXCEPT ![id].pin = poll[w].by.pin]
      BY <3>1, <3>2 DEF StorePin, Goto
    <3>4. server[id] \in Server
      BY <3>2 DEF Registered
    <3>5. server'[id].pin = poll[w].by.pin
      BY <3>3, <3>4 DEF Server
    <3> QED
      BY <3>2, <3>3, <3>5 DEF RowTrust, Vouched, Named
  <2> QED
    BY <2>1, <2>2
<1>6. PollTrust(w)'
  <2>1. CASE Take(w) /\ ~UNCHANGED <<at, poll>>
    <3>1. PICK id \in queue[w[1]] : /\ Registered(id)
            /\ Goto(w, IF NeedsPin(server[id]) THEN "probe" ELSE "collect")
            /\ poll' = [poll EXCEPT ![w] = [id |-> id, by |-> server[id], began |-> era, found |-> None]]
      BY <2>1 DEF Take
    <3>2. id \in Ids /\ server[id] \in Server
      BY <3>1 DEF Workers, Registered
    <3>3. /\ poll'[w].id = id /\ poll'[w].by = server[id]
          /\ at'[w] = IF NeedsPin(server[id]) THEN "probe" ELSE "collect"
      BY <3>1 DEF Goto
    <3>4. CASE server[id].pin # None
      <4>1. PICK cert : cert = server[id].pin
        OBVIOUS
      <4>2. Vouched(id, cert)'
        BY <1>1, <3>2, <3>4, <4>1, VouchedStays, FleetAssumption DEF Trust, RowTrust, FleetAssumption
      <4> QED
        BY <3>3, <4>1, <4>2 DEF PollTrust, Vouched, Named, Registered
    <3>5. CASE server[id].pin = None
      BY <3>3, <3>5 DEF PollTrust, NeedsPin, ModeFor
    <3> QED
      BY <3>4, <3>5
  <2>2. CASE UNCHANGED <<at, poll>>
    BY <1>1, <2>2, TrustStays DEF Trust
  <2>3. CASE JournalPin(w)
    <3>1. /\ poll'[w] = poll[w] /\ UNCHANGED server
          /\ poll[w].id \in Ids
      BY <1>2, <2>3 DEF JournalPin, Fits
    <3>2. Registered(poll[w].id) => Pinned("pin", poll[w].by.pin) \in journal'[poll[w].id] \cup lost'[poll[w].id]
      <4>1. Pinned("pin", poll[w].by.pin) \in Line
        BY <1>2, <2>3 DEF JournalPin, Fits, Pinned, Line, PinOrNone
      <4> HIDE DEF TypeInv, FleetTypeOK
      <4> QED
        BY <2>3, <3>1, <4>1, LineGiven DEF JournalPin, Lines
    <3> QED
      BY <3>1, <3>2 DEF PollTrust, Vouched, Named, Said, Registered, Pinned
  <2>4. CASE Collect(w)
    <3>1. poll'[w].id = poll[w].id /\ poll'[w].by = poll[w].by /\ at[w] = "collect"
      BY <1>2, <2>4 DEF Collect, Fails, PollRecord
    <3>2. CASE ModeFor(poll[w].by) = "PINNED"
      <4>1. PICK id, cert : id = poll[w].id /\ cert = poll[w].by.pin
        OBVIOUS
      <4>2. id \in Ids /\ server[id] # Unused /\ Vouched(id, cert)
        BY <1>2, <3>1, <3>2, <4>1 DEF Fits, Trust, PollTrust
      <4>3. Vouched(id, cert)'
        BY <1>1, <4>2, VouchedStays
      <4> QED
        BY <3>1, <4>1, <4>3 DEF PollTrust, Vouched, Named, Registered
    <3>3. CASE ModeFor(poll[w].by) # "PINNED"
      BY <3>1, <3>3 DEF PollTrust, ModeFor
    <3> QED
      BY <3>2, <3>3
  <2>5. CASE Probe(w) \/ StorePin(w) \/ WriteOnline(w) \/ WriteOffline(w)
    <3>1. at'[w] \notin {"collect", "answered"}
      BY <2>5 DEF Probe, StorePin, WriteOnline, WriteOffline, Goto, Fails, Done
    <3> QED
      BY <3>1 DEF PollTrust
  <2> QED
    BY <2>1, <2>2, <2>3, <2>4, <2>5 DEF PollStep
<1>7. ASSUME NEW id \in Ids PROVE CacheTrust(id)'
  <2>1. CASE status'[id] = status[id]
    BY <1>1, <2>1, TrustStays DEF Trust
  <2>2. CASE status'[id] # status[id]
    <3>1. (WriteOnline(w) \/ WriteOffline(w)) /\ Upsert(w, poll[w].found)
      BY <2>2 DEF PollStep, Take, Probe, StorePin, JournalPin, Collect, WriteOnline, WriteOffline
    <3>2. id = poll[w].id /\ status'[id] = Reading(w, poll[w].found)
      BY <2>2, <3>1 DEF Upsert
    <3>3. status'[id].online = poll[w].found.online /\ status'[id].by = poll[w].by
      BY <3>2 DEF Reading
    <3>4. CASE WriteOffline(w)
      BY <1>2, <3>3, <3>4 DEF WriteOffline, Fits, CacheTrust
    <3>5. CASE WriteOnline(w) /\ ModeFor(poll[w].by) = "PINNED"
      <4>1. PICK cert : cert = poll[w].by.pin
        OBVIOUS
      <4>2. cert # None /\ server[id] # Unused /\ Vouched(id, cert)
        BY <1>2, <3>2, <3>5, <4>1 DEF WriteOnline, Fits, NeedsPin, Trust, PollTrust
      <4>3. Vouched(id, cert)'
        BY <1>1, <4>2, VouchedStays
      <4> QED
        BY <3>3, <4>1, <4>2, <4>3 DEF CacheTrust, Vouched, Named, Registered
    <3>6. CASE ModeFor(poll[w].by) # "PINNED"
      BY <3>3, <3>6 DEF CacheTrust, ModeFor
    <3> QED
      BY <3>1, <3>4, <3>5, <3>6
  <2> QED
    BY <2>1, <2>2
<1> QED
  BY <1>1, <1>3, <1>4, <1>5, <1>6, <1>7 DEF Trust

\* Steps that leave the polls and the cache alone.
LEMMA TrustAside ==
    ASSUME TypeInv, Trust, [Next]_vars, UNCHANGED <<at, poll, status>>
    PROVE  (\A w \in Workers : PollTrust(w)') /\ (\A id \in Ids : CacheTrust(id)')
  BY TrustStays DEF Trust

\* A dialog stores only pins that its own lines will name.
LEMMA AdminTrustStep ==
    ASSUME TypeInv, Trust, NEW a \in Admins, SaveStep(a) \/ DialogStep(a), [Next]_vars
    PROVE  Trust'
<1> USE DEF TypeInv, FleetTypeOK
<1>1. UNCHANGED <<at, poll, status>> /\ OneSave /\ OneSave'
  BY OneSaveStep DEF SaveStep, DialogStep, UpdateServer, JournalSave, Mount, Inspect, LoadBefore, Create, Still,
                     polls, Trust
<1>2. ASSUME NEW b \in Admins, b # a PROVE SaveTrust(b)'
  <2>1. edit'[b] = edit[b]
    BY <1>2 DEF SaveStep, DialogStep, UpdateServer, JournalSave, Mount, Inspect, LoadBefore, Create
  <2> QED
    BY <1>1, <2>1, TrustStays DEF Trust
<1>3. SaveTrust(a)'
  <2>1. CASE edit'[a] = edit[a]
    BY <1>1, <2>1, TrustStays DEF Trust
  <2>2. CASE UpdateServer(a) \/ JournalSave(a) \/ Create(a)
    <3>1. edit'[a] = NoEdit \/ edit'[a].row = None
      <4>1. CASE UpdateServer(a)
        <5>1. edit[a] \in EditRecord
          BY DEF EditRecord
        <5> QED
          BY <4>1, <5>1 DEF UpdateServer, EditRecord
      <4>2. CASE JournalSave(a)
        <5>1. edit[a] \in EditRecord /\ edit[a].row = None
          BY <4>2 DEF EditRecord, JournalSave, Saved
        <5> QED
          BY <4>2, <5>1 DEF JournalSave, Written, EditRecord
      <4>3. CASE Create(a)
        <5>1. PICK id \in Ids, cert \in PinOrNone :
                edit' = [edit EXCEPT ![a] = Stored(id, CreateLines(cert))]
          BY <4>3 DEF Create
        <5>2. Stored(id, CreateLines(cert)).row = None
          BY DEF Stored
        <5> QED
          BY <5>1, <5>2
      <4> QED
        BY <2>2, <4>1, <4>2, <4>3
    <3> QED
      BY <3>1 DEF SaveTrust, Writing
  <2>3. CASE LoadBefore(a) /\ Registered(form[a].id)
    <3> DEFINE id == form[a].id
    <3>1. PICK url \in Urls, mode \in Modes :
            edit' = [edit EXCEPT ![a] = [id |-> id, row |-> Submission(a, url, mode),
                                         before |-> server[id], lines |-> {}]]
      BY <2>3 DEF LoadBefore
    <3>2. /\ edit'[a].id = id /\ edit'[a].before = server[id] /\ UNCHANGED server
          /\ id \in Ids /\ server[id] \in Server /\ server[id] # Unused
      <4>1. id \in Ids
        BY <2>3 DEF LoadBefore
      <4> QED
        BY <2>3, <3>1, <4>1, FleetAssumption DEF LoadBefore, registry, Registered, FleetAssumption
    <3>3. CASE server[id].pin # None
      <4>1. PICK i, cert : i = id /\ cert = server[id].pin
        OBVIOUS
      <4>2. Vouched(i, cert) /\ i \in Ids /\ server[i] # Unused
        BY <3>2, <3>3, <4>1 DEF Trust, RowTrust
      <4>3. Vouched(i, cert)'
        BY <1>1, <4>2, VouchedStays
      <4> HIDE DEF id
      <4> QED
        BY <3>2, <4>1, <4>3 DEF SaveTrust, Vouched, Named, Registered
    <3>4. CASE server[id].pin = None
      BY <3>2, <3>4 DEF SaveTrust
    <3> QED
      BY <3>3, <3>4
  <2> QED
    BY <2>1, <2>2, <2>3 DEF SaveStep, DialogStep, Mount, Inspect, LoadBefore
<1>4. ASSUME NEW id \in Ids PROVE RowTrust(id)'
  <2>1. CASE server'[id] = server[id]
    BY <1>1, <2>1, TrustStays DEF Trust
  <2>3. CASE server'[id] # server[id] /\ Create(a)
    <3>1. PICK i \in Ids, url \in Urls, mode \in Modes, cert \in PinOrNone :
            /\ server' = [server EXCEPT ![i] = [url |-> url, mode |-> mode, pin |-> cert]]
            /\ edit' = [edit EXCEPT ![a] = Stored(i, CreateLines(cert))]
      BY <2>3 DEF Create
    <3>2. i = id /\ server'[id].pin = cert
      BY <2>3, <3>1
    <3>3. /\ edit'[a].id = id /\ edit'[a].row = None
          /\ cert # None => Pinned("pin", cert) \in edit'[a].lines
      BY <3>1, <3>2 DEF Stored, CreateLines
    <3>4. edit'[a] # NoEdit
      BY <3>3, FleetAssumption DEF NoEdit, FleetAssumption
    <3>5. Saved(a)'
      BY <3>3, <3>4 DEF Saved
    <3> QED
      BY <3>2, <3>3, <3>5 DEF RowTrust, Vouched, Named, Pinned
  <2>2. CASE server'[id] # server[id] /\ ~Create(a)
    <3> DEFINE row == edit[a].row  before == edit[a].before
    <3>1. UpdateServer(a) /\ Registered(edit[a].id) /\ id = edit[a].id
      BY <2>2 DEF SaveStep, DialogStep, UpdateServer, JournalSave, Mount, Inspect, LoadBefore, registry
    <3>2. row \in Server /\ edit[a] # NoEdit /\ edit[a] \in EditRecord
      BY <3>1 DEF UpdateServer, Writing, EditRecord
    <3>3. server'[id] = [row EXCEPT !.pin = PinToStore(a)]
      BY <3>1 DEF UpdateServer
    <3>4. server'[id].pin = PinToStore(a)
      BY <3>2, <3>3 DEF Server
    <3>5. PICK cert : cert = PinToStore(a)
      OBVIOUS
    <3>6. CASE row.pin # None /\ row.pin # before.pin
      <4>1. cert = row.pin
        BY <3>5, <3>6 DEF PinToStore
      <4>2. edit'[a] = [edit[a] EXCEPT !.row = None, !.lines =
                          {Plain("update")} \cup {Pinned("repin", row.pin)}]
        BY <3>1, <3>6 DEF UpdateServer
      <4>3. /\ edit'[a].id = id /\ edit'[a].row = None
            /\ Pinned("repin", cert) \in edit'[a].lines
        BY <3>1, <3>2, <4>1, <4>2 DEF EditRecord
      <4>4. edit'[a] # NoEdit
        BY <4>3 DEF NoEdit
      <4>5. Saved(a)'
        BY <4>3, <4>4 DEF Saved
      <4> QED
        BY <3>4, <3>5, <4>3, <4>5 DEF RowTrust, Vouched, Named, Pinned
    <3>7. CASE row.pin # None /\ row.pin = before.pin
      <4>1. cert = before.pin /\ before.pin # None
        BY <3>5, <3>7 DEF PinToStore
      <4>2. Vouched(id, cert) /\ server[id] # Unused
        BY <3>1, <4>1 DEF Trust, SaveTrust, UpdateServer, Editing, Writing
      <4>3. Vouched(id, cert)'
        BY <1>1, <4>2, VouchedStays
      <4> QED
        BY <3>4, <3>5, <4>3 DEF RowTrust, Vouched, Named
    <3>8. CASE row.pin = None
      <4>1. CASE cert = None
        BY <3>4, <3>5, <4>1 DEF RowTrust
      <4>2. CASE cert # None
        <5>1. cert = server[id].pin
          BY <3>1, <3>5, <3>8, <4>2 DEF PinToStore
        <5>2. Vouched(id, cert) /\ server[id] # Unused
          BY <3>1, <4>2, <5>1, FleetAssumption DEF Trust, RowTrust, Registered, FleetAssumption
        <5>3. Vouched(id, cert)'
          BY <1>1, <5>2, VouchedStays
        <5> QED
          BY <3>4, <3>5, <5>3 DEF RowTrust, Vouched, Named
      <4> QED
        BY <4>1, <4>2
    <3> QED
      BY <3>6, <3>7, <3>8
  <2> QED
    BY <2>1, <2>2, <2>3
<1> QED
  BY <1>1, <1>2, <1>3, <1>4, TrustAside DEF Trust

\* Every step keeps the vouching: polls, dialogs, and what creates and deletes rows.
LEMMA TrustStep == TypeInv /\ Trust /\ [Next]_vars => Trust'
<1> SUFFICES ASSUME TypeInv, Trust, [Next]_vars PROVE Trust'
  OBVIOUS
<1> USE FleetAssumption DEF TypeInv, FleetTypeOK, FleetAssumption
<1>1. OneSave /\ OneSave'
  BY OneSaveStep DEF Trust
<1>2. ASSUME NEW batches, NEW admins, Die(batches, admins) PROVE Trust'
  <2>1. UNCHANGED <<server, status>>
    BY <1>2 DEF Die
  <2>2. ASSUME NEW w \in Workers PROVE PollTrust(w)'
    <3>1. at'[w] = "idle" \/ (at'[w] = at[w] /\ poll'[w] = poll[w])
      BY <1>2 DEF Die
    <3> QED
      BY <1>1, <3>1, TrustStays DEF Trust, PollTrust
  <2>3. ASSUME NEW a \in Admins PROVE SaveTrust(a)'
    <3>1. edit'[a] = NoEdit \/ edit'[a] = edit[a]
      BY <1>2 DEF Die
    <3> QED
      BY <1>1, <3>1, TrustStays DEF Trust, SaveTrust, Writing
  <2> QED
    BY <1>1, <2>1, <2>2, <2>3, TrustStays DEF Trust
<1>3. CASE Delete
  <2>1. UNCHANGED <<at, poll, edit>>
    BY <1>3 DEF Delete, polls
  <2>2. PICK gone \in Ids : server' = [server EXCEPT ![gone] = Gone] /\ status' = [status EXCEPT ![gone] = None]
    BY <1>3 DEF Delete
  <2>3. ASSUME NEW id \in Ids PROVE RowTrust(id)' /\ CacheTrust(id)'
    <3>1. CASE id = gone
      BY <2>2, <3>1 DEF RowTrust, CacheTrust
    <3>2. CASE id # gone
      <4>1. server'[id] = server[id] /\ status'[id] = status[id]
        BY <2>2, <3>2
      <4> QED
        BY <1>1, <4>1, TrustStays DEF Trust
    <3> QED
      BY <3>1, <3>2
  <2>4. (\A a \in Admins : SaveTrust(a)') /\ (\A w \in Workers : PollTrust(w)')
    BY <1>1, <2>1, TrustStays DEF Trust
  <2> QED
    BY <1>1, <2>3, <2>4 DEF Trust
<1>4. CASE UNCHANGED <<at, poll, status, edit, server>>
  <2>1. (\A a \in Admins : SaveTrust(a)') /\ (\A id \in Ids : RowTrust(id)')
    BY <1>1, <1>4, TrustStays DEF Trust
  <2> QED
    BY <1>1, <1>4, <2>1, TrustAside DEF Trust
<1>5. CASE Tick \/ \E b \in Batches : RefreshVisible(b) \/ RefreshRow(b)
  BY <1>4, <1>5 DEF Tick, RefreshVisible, RefreshRow, Batch, registry
<1>6. CASE Change \/ UNCHANGED vars
  BY <1>4, <1>6 DEF Change, vars, registry, polls
<1> QED
  BY <1>2, <1>3, <1>5, <1>6, PollTrustStep, AdminTrustStep DEF Next, ProcessDies

\* Whatever certificate a registration or a pinned reading rests on has a line in
\* the journal that names it, or a request still under way that is about to write
\* it, unless just that write was rejected or its process died before it, provided that no server starts out pinned by hand.
THEOREM TrustHasLines ==
    ASSUME \A row \in First : row.pin = None
    PROVE  Spec => []TrustIsJournalled
<1>1. Init => Trust
  BY FleetAssumption DEF Init, Trust, OneSave, Closed, NoEdit, RowTrust, PollTrust, SaveTrust, Writing, CacheTrust,
                         FleetAssumption
<1>2. TypeInv /\ Trust => TrustIsJournalled
  BY DEF TypeInv, Cached, Trust, RowTrust, CacheTrust, Vouched, Registered, TrustIsJournalled
<1> QED
  BY <1>1, <1>2, TrustStep, TypeInvariant, PTL DEF Spec

=============================================================================
