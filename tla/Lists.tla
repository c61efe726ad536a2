-------------------------------- MODULE Lists --------------------------------
(***************************************************************************)
(* A section of a server's page in one browser: a list that is searched,   *)
(* refreshed and, for projects, polled (src/src/components/servers/detail/ *)
(* use-searchable-list.ts, settle-refresh.ts and the tables), and the      *)
(* dialogs of its rows, over the operations of PanelWork.                  *)
(*                                                                         *)
(* Several requests for the list may be out at once and are answered in    *)
(* any order; only the newest may paint.  The rows on screen belong to the *)
(* term they were fetched with, which need not be the one in the box.      *)
(***************************************************************************)
EXTENDS PanelWork

CONSTANTS
    Requests,   \* bound: requests for the list that are out at once
    Searched,   \* bound: the sections whose box is typed in and whose count may be unreadable
    All         \* the empty term, which every item matches

ASSUME ListsAssumption == All \in Terms /\ Matches[All] = Items

VARIABLES
    box,        \* what the search box holds
    typing,     \* the pause after the last keystroke is running
    request,    \* requests for the list: None, or [term, got, current]
    newest,     \* the one that may paint, while it is out
    list,       \* the answer on screen, its term, whether a later one failed
    dialog      \* the dialog of a row or of the form: [item, op]

screen == <<box, typing, request, newest, list, dialog>>
vars == <<fixed, panel, actions, faults, screen>>

\* A request for the list: its term, what each source has sent by now, and whether the
\* panel is as it was when it was asked for.
Page == [rows : UNION {[shown -> State] : shown \in SUBSET Items}, total : Nat \cup {None}]
Request ==
    [term : Terms, current : BOOLEAN,
     got : UNION {[asked -> Page \cup {None, Refused}] :
                    asked \in SUBSET ({"mysql", "pgsql"} \cup Sections)}]

ASSUME RequestAssumption == None \notin Request

Unanswered == [s \in Sources |-> None]

\* What the page arrives with was read while it was rendered.
Init ==
    /\ section \in Sections /\ readable \in {TRUE, section \notin Searched}
    /\ have \in {h \in [Items -> {"gone", "on"}] : \A i \in Items \ Changing : h[i] = "on"}
    /\ era = 0
    /\ work = None /\ journal = {} /\ acted = {} /\ faults = 0
    /\ box = All /\ typing = FALSE /\ newest = None /\ dialog = None
    /\ request = [r \in Requests |-> None]
    /\ \E got \in [Sources -> UNION {PagesOf(s, All) : s \in Sources}] :
        /\ \A s \in Sources : got[s] \in PagesOf(s, All)
        /\ list = [answer |-> ListAction(got), term |-> All, stale |-> FALSE, current |-> TRUE]

(***************************************************************************)
(* The list.                                                               *)
(***************************************************************************)

\* run(term): every call takes the next number, and with it the right to paint.
Run(term) ==
    LET free == {r \in Requests : request[r] = None}
        r == CHOOSE r \in free : TRUE
    IN  /\ free # {}
        /\ request' = [request EXCEPT ![r] = [term |-> term, got |-> Unanswered, current |-> TRUE]]
        /\ newest' = r
Pending == newest # None

\* The effect of the hook: a box that holds the term of the rows needs nothing, any
\* other waits for a pause; a keystroke ends the pause before it.  An open dialog
\* covers the page.
Type ==
    /\ dialog = None /\ section \in Searched
    /\ \E term \in Terms \ {box} : box' = term /\ typing' = (term # list.term)
    /\ UNCHANGED <<fixed, panel, actions, faults, request, newest, list, dialog>>
Pause ==
    /\ typing /\ typing' = FALSE /\ Run(box)
    /\ UNCHANGED <<fixed, panel, actions, faults, box, list, dialog>>

\* The button of every table is off while a request is out; the poll of the
\* projects waits for it too.
Refresh ==
    /\ dialog = None /\ ~Pending /\ Run(box)
    /\ UNCHANGED <<fixed, panel, actions, faults, box, typing, list, dialog>>
ReloadIfIdle ==
    /\ section = "projects" /\ ~Pending /\ Run(box)
    /\ UNCHANGED <<fixed, panel, actions, faults, box, typing, list, dialog>>

\* Each source of a list is asked on its own.
AskSource(r) ==
    /\ request[r] # None
    /\ \E s \in Sources :
        /\ request[r].got[s] = None
        /\ \/ /\ \E p \in PagesOf(s, request[r].term) : request' = [request EXCEPT ![r].got[s] = p]
              /\ UNCHANGED faults
           \/ Fault /\ request' = [request EXCEPT ![r].got[s] = Refused]
    /\ UNCHANGED <<fixed, panel, actions, box, typing, newest, list, dialog>>

\* settleRefresh: an answer with data replaces what is shown; a refusal leaves
\* data that is there, and says that it is not fresh.
SettleRefresh(next, term, current) ==
    IF next.ok THEN [answer |-> next, term |-> term, stale |-> FALSE, current |-> current]
    ELSE IF list.answer.ok THEN [list EXCEPT !.stale = TRUE]
    ELSE [answer |-> next, term |-> term, stale |-> FALSE, current |-> current]

\* Wrong on purpose: an open dialog outlives its row.
DialogStays(shown) == dialog

\* Whatever stands in a row goes with it.
DialogAfter(shown) ==
    IF dialog # None /\ dialog.item # None /\ dialog.item \notin DOMAIN shown.rows
    THEN None ELSE dialog

\* Wrong on purpose: an answer that brings nothing does not say that the list is idle.
PaintStaysBusy(next, term, current) ==
    /\ list' = SettleRefresh(next, term, current)
    /\ dialog' = DialogAfter(list'.answer)
    /\ newest' = IF next.ok THEN None ELSE newest

Paint(next, term, current) ==
    /\ list' = SettleRefresh(next, term, current)
    /\ dialog' = DialogAfter(list'.answer)
    /\ newest' = None

Land(r, next) ==
    /\ request' = [request EXCEPT ![r] = None]
    /\ IF r = newest THEN Paint(next, request[r].term, request[r].current)
       ELSE UNCHANGED <<list, dialog, newest>>
    /\ UNCHANGED <<fixed, panel, actions, box, typing>>

Complete(r) == request[r] # None /\ \A s \in Sources : request[r].got[s] # None

\* The action answers with what the client found; or the server's row is gone, the
\* session has ended or the call itself does not get through, which callAction
\* turns into a refusal.
Answer(r) == Complete(r) /\ Land(r, ListAction(request[r].got)) /\ UNCHANGED faults
CallFails(r) == request[r] # None /\ Fault /\ Land(r, Refusal)

(***************************************************************************)
(* The dialogs.  Each belongs to one row, or is the form of the section.   *)
(***************************************************************************)

Rows == IF list.answer.ok THEN list.answer.rows ELSE <<>>

\* What a table says about its rows: that some are missing, that there are none.
ListIntegrityNotice == list.answer.failed # {} \/ list.answer.cut # {}
NoneSaid == list.answer.ok /\ list.answer.failed = {} /\ DOMAIN Rows = {}

Open(i, op) == i \in Changing \cup {None} /\ dialog = None /\ dialog' = [item |-> i, op |-> op]
Choose(op) == dialog.op = None /\ dialog' = [dialog EXCEPT !.op = op]
CloseDialog == dialog # None /\ dialog' = None
BackToCard == dialog # None /\ dialog.op # None /\ dialog' = [dialog EXCEPT !.op = None]
Form == Open(None, "create")

\* A scheduled task and an FTP account have a card, on which an operation is
\* chosen and confirmed; deleting cannot be chosen while the list is not fresh.
CronTable == \E i \in DOMAIN Rows : Open(i, None)
Turn(i) == IF Rows[i] = "on" THEN "disable" ELSE "enable"
CronTaskDialog ==
    /\ dialog # None
    /\ \/ Choose("run") \/ Choose("toggle")
       \/ ~list.stale /\ Choose("delete")
       \/ BackToCard \/ CloseDialog
CronTaskDialogDone == IF work.op = "delete" THEN None ELSE [dialog EXCEPT !.op = None]

FtpTable == Form \/ \E i \in DOMAIN Rows : Open(i, None)
FtpUserDialog ==
    /\ dialog # None /\ dialog.op # "create"
    /\ \/ Choose("toggle") \/ Choose("password")
       \/ ~list.stale /\ Choose("delete")
       \/ BackToCard \/ CloseDialog
FtpUserDialogDone == IF work.op = "delete" THEN None ELSE [dialog EXCEPT !.op = None]
FtpFormDialog == dialog # None /\ dialog.op = "create" /\ CloseDialog

\* A database has one dialog, behind a button that is off while the list is not
\* fresh, and so has the deletion of a project.
DatabasesTable == Form \/ (~list.stale /\ \E i \in DOMAIN Rows : Open(i, "delete"))
DatabaseDeleteDialog == dialog # None /\ dialog.op = "delete" /\ CloseDialog
DatabaseFormDialog == dialog # None /\ dialog.op = "create" /\ CloseDialog

ProjectsTable ==
    \/ Form
    \/ \E i \in DOMAIN Rows : Open(i, "modify")
    \/ ~list.stale /\ \E i \in DOMAIN Rows : Open(i, "delete")
ProjectDeleteDialog == dialog # None /\ dialog.op = "delete" /\ CloseDialog
ProjectFormDialog == dialog # None /\ dialog.op \in {"create", "modify"} /\ CloseDialog

Leaf ==
    \/ section = "cron" /\ (CronTable \/ CronTaskDialog)
    \/ section = "ftp" /\ (FtpTable \/ FtpUserDialog \/ FtpFormDialog)
    \/ section = "databases" /\ (DatabasesTable \/ DatabaseDeleteDialog \/ DatabaseFormDialog)
    \/ section = "projects" /\ (ProjectsTable \/ ProjectDeleteDialog \/ ProjectFormDialog)
Dialogs ==
    /\ Leaf
    /\ UNCHANGED <<fixed, panel, actions, faults, box, typing, request, newest, list>>

\* The confirming button, once the phrase or the form has been filled in: what is
\* asked for is the opposite of the state in the row as it is shown now.
Confirm ==
    /\ dialog # None /\ dialog.op # None
    /\ LET op == IF dialog.op = "toggle" THEN Turn(dialog.item) ELSE dialog.op
       IN \E i \in Changing : dialog.item \in {i, None} /\ StartWork(op, i, box)
    /\ UNCHANGED <<fixed, screen>>

\* The buttons in the row of a project.
RunOp ==
    /\ section = "projects" /\ dialog = None
    /\ \E i \in Changing \cap DOMAIN Rows : \E op \in {"start", "stop", "restart"} :
        /\ Rows[i] # Asked(op) \/ op = "restart"
        /\ StartWork(op, i, box)
    /\ UNCHANGED <<fixed, screen>>

\* The dialog the action was started from, if it is still there.
Own ==
    /\ dialog # None
    /\ dialog.item = IF work.op = "create" THEN None ELSE work.item
    /\ section \in {"cron", "ftp"} \/ dialog.op = work.op
DialogDone ==
    IF ~Own THEN dialog
    ELSE IF section = "cron" THEN CronTaskDialogDone
    ELSE IF section = "ftp" /\ work.op # "create" THEN FtpUserDialogDone
    ELSE None

\* What a dialog does with its answer: an error is shown and changes nothing, a
\* success reads the list again; only a new password shows in no list.  The term is
\* that of the page on which the action was started, whatever the box holds by now.
Settle ==
    /\ Answered /\ EndWork
    /\ IF work.result = "error" THEN UNCHANGED <<dialog, request, newest>>
       ELSE /\ dialog' = DialogDone
            /\ IF work.op = "password" THEN UNCHANGED <<request, newest>> ELSE Run(work.term)
    /\ UNCHANGED <<fixed, panel, faults, box, typing, list>>

(***************************************************************************)
(* The whole.                                                              *)
(***************************************************************************)

Reading(r) == AskSource(r) \/ Answer(r) \/ CallFails(r)

\* What has been asked for before a change of the panel is no longer current.
Aged == IF era' = era THEN UNCHANGED <<request, list>>
        ELSE /\ request' = [r \in Requests |-> IF request[r] = None THEN None
                                               ELSE [request[r] EXCEPT !.current = FALSE]]
             /\ list' = [list EXCEPT !.current = FALSE]
Elsewhere == Aged /\ UNCHANGED <<fixed, box, typing, newest, dialog>>
Acting == (WorkStep \/ Exit \/ OthersChange) /\ Elsewhere
Next ==
    \/ Type \/ Pause \/ Refresh \/ ReloadIfIdle
    \/ \E r \in Requests : Reading(r)
    \/ Dialogs \/ Confirm \/ RunOp \/ Settle
    \/ Acting

(***************************************************************************)
(* Properties.                                                             *)
(***************************************************************************)

ListsTypeOK ==
    /\ have \in [Items -> State] /\ era \in 0 .. MaxChanges + 1
    /\ box \in Terms /\ list.term \in Terms
    /\ list.stale => list.answer.ok
    /\ DOMAIN Rows \subseteq Items
    /\ newest # None => request[newest] # None
    /\ dialog # None /\ dialog.item # None => dialog.item \in DOMAIN Rows
    /\ work # None => \E n \in 0 .. Len(StepsOf(work.op)) :
        work.todo = SubSeq(StepsOf(work.op), n + 1, Len(StepsOf(work.op)))

\* A list without a notice shows, while the panel is as it was when the list was asked
\* for, every item of the panel that its term finds, in the state it is in, and one that
\* says there are none is right: "claiming a truncated list is complete is how an
\* operator concludes a site was deleted".
NothingIsMissing ==
    list.answer.ok /\ list.current =>
        /\ ~ListIntegrityNotice => Rows = [i \in Found(list.term) |-> have[i]]
        /\ NoneSaid => Found(list.term) = {}

\* Who is told that a task or an account is now on, or off, is told the truth, unless
\* somebody else changed it after its state was read: however old the row was.
SwitchedAsAsked ==
    Answered /\ work.result = "ok" /\ Asked(work.op) # None /\ ~work.touched =>
        have[work.item] = Asked(work.op)

\* Nothing that cannot be undone happens on a panel without a line in the journal,
\* whatever fails or exits on the way; and a line that says "ok" is true.
IrreversibleIsJournalled ==
    /\ \A done \in acted : \E line \in journal : line.op = done.op /\ line.item = done.item
    /\ \A line \in journal :
        line.result = "ok" /\ line.op \in Irreversible => [op |-> line.op, item |-> line.item] \in acted

\* The polled list comes to show what the panel holds, once nobody searches and works:
\* a poll repairs whatever a lost answer, a failed call or an answer that was
\* overtaken has left on screen.
PolledListSettles ==
    <>[](section = "projects" /\ box = All /\ work = None) =>
        <>[](list.term = All /\ list.current /\ ~list.stale /\ list.answer.ok)

\* The hook says that without its numbering "the list settles on results for a term
\* that is no longer in the box": at rest, with nothing out and nothing to come, a
\* fresh list belongs to what the box holds.
ListIsOfTheBox ==
    section # "projects" /\ ~Pending /\ ~typing /\ work = None /\ list.answer.ok /\ ~list.stale =>
        list.term = box
==============================================================================
