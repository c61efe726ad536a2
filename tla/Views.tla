-------------------------------- MODULE Views --------------------------------
(***************************************************************************)
(* The parts of a server's page that only show what a panel answers: the   *)
(* log of a project and of a scheduled task, a file, the card of a site    *)
(* and its log, the summary of the server, that of the firewall, the       *)
(* folders to pick from, and what the form of a project is filled with     *)
(* (src/src/components/servers/detail/), over the reading operations of    *)
(* the client and their actions.  Each loads in its own way: some number   *)
(* their loads, some wait for the last to return, some do neither.         *)
(*                                                                         *)
(* A behaviour is about one section, a list or one of these views.  What a *)
(* view is about changes on the panel, and era counts its changes.         *)
(***************************************************************************)
EXTENDS Lists

CONSTANTS
    Views,      \* the views that may be on screen, one in a behaviour
    Calls,      \* bound: loads of a view that are out at once
    Paths,      \* folders, where the view has a path
    Lost        \* a part of an answer that could not be read

ASSUME ViewsAssumption ==
    /\ Views \subseteq {"logs", "file", "task", "site", "sitelog", "metrics", "rules",
                         "folders", "scripts", "edit"}
    /\ None \notin Calls

VARIABLES
    view,       \* [open, live, path, shown, failed]
    call,       \* the loads: None, or [of, got, button, old]
    latest,     \* the load whose number is the current one
    busy        \* the flag that says a load is out

viewing == <<view, call, latest, busy>>
pageVars == <<vars, viewing>>

(***************************************************************************)
(* What an answer is made of.  A client operation asks for its parts one   *)
(* by one or at once; without its vital part there is no answer, any other *)
(* may be missing from it.                                                 *)
(***************************************************************************)

GetProjectLogs == [parts |-> {"log"}, vital |-> {"log"}]
ReadFile == [parts |-> {"text"}, vital |-> {"text"}]
GetCronLogs == [parts |-> {"log"}, vital |-> {"log"}]
GetSiteDetail == [parts |-> {"domains", "directory", "ssl", "php"}, vital |-> {}]
GetSiteLogs == [parts |-> {"log"}, vital |-> {"log"}]
GetMetrics == [parts |-> {"system", "disk", "network"}, vital |-> {"system"}]
GetFirewallOverview == [parts |-> {"state", "info"}, vital |-> {}]
ListDir == [parts |-> {"folders"}, vital |-> {"folders"}]
GetRunList == [parts |-> {"scripts"}, vital |-> {"scripts"}]
GetProjectEditData == [parts |-> {"config", "scripts", "versions"}, vital |-> {"config"}]

Asks == CASE section = "logs" -> GetProjectLogs
          [] section = "file" -> ReadFile
          [] section = "task" -> GetCronLogs
          [] section = "site" -> GetSiteDetail
          [] section = "sitelog" -> GetSiteLogs
          [] section = "metrics" -> GetMetrics
          [] section = "rules" -> GetFirewallOverview
          [] section = "folders" -> ListDir
          [] section = "scripts" -> GetRunList
          [] section = "edit" -> GetProjectEditData

Unread == [p \in Asks.parts |-> None]
Blank == [open |-> FALSE, live |-> FALSE, path |-> None, shown |-> None, failed |-> FALSE]

\* The summaries stand on the page and arrive with it; everything else is opened.
ViewInit ==
    /\ section \in Views /\ readable = TRUE
    /\ have = [i \in Items |-> "on"] /\ era = 0
    /\ work = None /\ journal = {} /\ acted = {} /\ faults = 0
    /\ box = All /\ typing = FALSE /\ newest = None /\ dialog = None
    /\ request = [r \in Requests |-> None]
    /\ list = [answer |-> Refusal, term |-> All, stale |-> FALSE, current |-> FALSE]
    /\ call = [c \in Calls |-> None] /\ latest = None /\ busy = FALSE
    /\ \E arrived \in {None, [of |-> None, got |-> [p \in Asks.parts |-> 0], old |-> FALSE]} :
        view = IF section \in {"metrics", "rules"}
               THEN [Blank EXCEPT !.open = TRUE, !.shown = arrived, !.failed = arrived = None]
               ELSE Blank

(***************************************************************************)
(* Loading.                                                                *)
(***************************************************************************)

Load(of, button) ==
    LET free == {c \in Calls : call[c] = None}
        c == CHOOSE c \in free : TRUE
    IN  /\ free # {}
        /\ call' = [call EXCEPT ![c] = [of |-> of, got |-> Unread, button |-> button, old |-> FALSE]]
        /\ latest' = c /\ busy' = TRUE
Loading == \E c \in Calls : call[c] # None
Idle == UNCHANGED <<call, latest, busy>>

Opens(v) == ~view.open /\ view' = [v EXCEPT !.open = TRUE]
Again == view.open /\ UNCHANGED view

\* What was asked for before a view was closed is of an earlier opening from then on.
Closes(v, current) ==
    /\ view.open
    /\ view' = [v EXCEPT !.open = FALSE, !.shown = IF @ = None THEN None ELSE [@ EXCEPT !.old = TRUE]]
    /\ call' = [c \in Calls |-> IF call[c] = None THEN None ELSE [call[c] EXCEPT !.old = TRUE]]
    /\ latest' = current /\ UNCHANGED busy

\* The log of a project starts anew whenever it is opened, and may be followed; its
\* button waits only for what a button has asked for.
ProjectLogsDialog ==
    \/ Opens(Blank) /\ Load(None, TRUE)
    \/ Closes([view EXCEPT !.live = FALSE], latest)
    \/ Again /\ (\A c \in Calls : call[c] # None => ~call[c].button) /\ Load(None, TRUE)
    \/ view.open /\ ~view.live /\ view' = [view EXCEPT !.live = TRUE] /\ Load(None, FALSE)
    \/ view.open /\ view.live /\ view' = [view EXCEPT !.live = FALSE] /\ Idle
LogsTick == view.open /\ view.live /\ ~busy /\ UNCHANGED view /\ Load(None, FALSE)

\* Wrong on purpose: closing a file leaves the read that is out its number.
FileStaysWanted == Closes([view EXCEPT !.shown = None], latest)

\* Closing a file forgets it, and whatever is still being read of it.
FileForgotten == Closes([view EXCEPT !.shown = None, !.failed = FALSE], None)
FileViewDialog ==
    \/ Opens(view) /\ Load(None, TRUE)
    \/ FileForgotten
    \/ Again /\ ~Loading /\ Load(None, TRUE)

\* The log of a task is loaded once and again on request, and once more after the
\* task has been run, whether or not a load is out.
CronTaskLog ==
    \/ Opens(view) /\ (IF view.shown = None /\ ~Loading THEN Load(None, TRUE) ELSE Idle)
    \/ Closes(view, latest)
    \/ Again /\ ~Loading /\ Load(None, TRUE)
    \/ UNCHANGED view /\ Load(None, FALSE)

SiteDetailDialog ==
    \/ Opens(view) /\ (IF view.shown = None /\ ~Loading THEN Load(None, TRUE) ELSE Idle)
    \/ Closes(view, latest)
SiteLog ==
    \/ Opens(view) /\ Idle
    \/ Closes(view, latest)
    \/ Again /\ ~Loading /\ Load(None, TRUE)

\* The summary of the server is polled; the poll and the button wait for one another.
OverviewTick == ~busy /\ UNCHANGED view /\ Load(None, FALSE)
HandleRetry == ~busy /\ view.shown = None /\ UNCHANGED view /\ Load(None, FALSE)
RefreshAll == Again /\ ~Loading /\ Load(None, TRUE)

\* A folder is entered, typed or gone up to, whatever is being listed already.
DirectoryPickerDialog ==
    \/ \E start \in Paths : Opens([Blank EXCEPT !.path = start]) /\ Load(start, TRUE)
    \/ view.open /\ \E path \in Paths : view' = [view EXCEPT !.path = path] /\ path # view.path /\ Idle
    \/ Again /\ \E path \in Paths : Load(path, TRUE)
    \/ Closes(view, latest)

\* The commands a new project may start with belong to a folder.  Picking one loads
\* them, typing one does not.
ProjectFormScripts ==
    \/ Opens(Blank) /\ Idle
    \/ view.open /\ \E path \in Paths : view' = [view EXCEPT !.path = path] /\ Load(path, TRUE)
    \/ view.open /\ \E path \in Paths : view' = [view EXCEPT !.path = path] /\ path # view.path /\ Idle
    \/ Again /\ view.path # None /\ ~Loading /\ Load(view.path, TRUE)
    \/ Closes(Blank, latest)
ProjectFormEdit ==
    \/ Opens(Blank) /\ Load(None, TRUE)
    \/ Closes(Blank, latest)

User ==
    /\ \/ section = "logs" /\ ProjectLogsDialog
       \/ section = "file" /\ FileViewDialog
       \/ section = "task" /\ CronTaskLog
       \/ section = "site" /\ SiteDetailDialog
       \/ section = "sitelog" /\ SiteLog
       \/ section = "metrics" /\ HandleRetry
       \/ section = "rules" /\ RefreshAll
       \/ section = "folders" /\ DirectoryPickerDialog
       \/ section = "scripts" /\ ProjectFormScripts
       \/ section = "edit" /\ ProjectFormEdit
    /\ UNCHANGED vars
ViewTick ==
    /\ \/ section = "logs" /\ LogsTick
       \/ section = "metrics" /\ OverviewTick
    /\ UNCHANGED vars

(***************************************************************************)
(* Answers.                                                                *)
(***************************************************************************)

\* readFileAction journals before it asks the panel, and asks nothing if it cannot.
ReadLine(c) == [op |-> "read", item |-> c, result |-> "started"]
BeginRead(c) ==
    /\ section = "file" /\ call[c] # None /\ ReadLine(c) \notin journal
    /\ journal' = journal \cup {ReadLine(c)}
    /\ UNCHANGED <<fixed, panel, work, acted, faults, screen, viewing>>

MayAsk(c, p) ==
    /\ \A v \in Asks.vital \ {p} : call[c].got[v] \notin {None, Lost}
    /\ section = "file" => ReadLine(c) \in journal
ReadPart(c) ==
    /\ call[c] # None
    /\ \E p \in Asks.parts :
        /\ call[c].got[p] = None /\ MayAsk(c, p)
        /\ \/ call' = [call EXCEPT ![c].got[p] = era] /\ UNCHANGED faults
           \/ Fault /\ call' = [call EXCEPT ![c].got[p] = Lost]
    /\ acted' = IF section = "file" THEN acted \cup {[op |-> "read", item |-> c]} ELSE acted
    /\ UNCHANGED <<fixed, panel, work, journal, screen, view, latest, busy>>

Wanting(c) == \E v \in Asks.vital : call[c].got[v] = Lost
Whole(c) == \A p \in Asks.parts : call[c].got[p] # None

\* Wrong on purpose: whatever arrives last is shown.
PaintsAlways(c) == TRUE

\* Only the log of a project and a file number their loads.
Paints(c) == section \in {"logs", "file"} => latest = c

\* A view whose load fails says so.  Most keep what they showed; a file, the card and
\* the log of a site, folders and scripts do not.
Forgets == section \in {"file", "site", "sitelog", "folders", "scripts"}
Fulfil(c) ==
    [view EXCEPT !.shown = [of |-> call[c].of, got |-> call[c].got, old |-> call[c].old],
                 !.failed = FALSE,
                 !.path = IF section = "folders" THEN call[c].of ELSE @]
Fail == [view EXCEPT !.shown = IF Forgets THEN None ELSE @, !.failed = TRUE]

\* The flag falls with every load that returns, the newest or not.
Return(c, next) ==
    /\ view' = IF Paints(c) THEN next ELSE view
    /\ call' = [call EXCEPT ![c] = None]
    /\ latest' = IF latest = c THEN None ELSE latest
    /\ busy' = FALSE
    /\ journal' = {line \in journal : line.item # c} /\ acted' = {done \in acted : done.item # c}
    /\ UNCHANGED <<fixed, panel, work, screen>>
Reply(c) == call[c] # None /\ Whole(c) /\ ~Wanting(c) /\ Return(c, Fulfil(c)) /\ UNCHANGED faults
Refuse(c) ==
    /\ call[c] # None /\ Return(c, Fail)
    /\ IF Wanting(c) THEN UNCHANGED faults ELSE Fault

\* What the view is about changes on the panel.
ContentChanges ==
    /\ era < MaxChanges /\ era' = era + 1
    /\ UNCHANGED <<fixed, have, actions, faults, screen, viewing>>

(***************************************************************************)
(* The page.                                                               *)
(***************************************************************************)

Replies ==
    \E c \in Calls :
        BeginRead(c) \/ ReadPart(c) \/ Reply(c) \/ (call[c] # None /\ Wanting(c) /\ Refuse(c))
Lapses == \E c \in Calls : call[c] # None /\ ~Wanting(c) /\ Refuse(c)
OfView == section \in Views /\ (User \/ ViewTick \/ ContentChanges \/ Replies \/ Lapses)
OfList == section \in Sections /\ Next /\ UNCHANGED viewing

PageInit == ViewInit \/ (Init /\ view = Blank /\ call = [c \in Calls |-> None] /\ latest = None /\ busy = FALSE)
PageNext == OfList \/ OfView

\* Polls tick and requests are answered; nobody has to type, to click or to change
\* anything, and an action under way need not end.
Polls == (ReloadIfIdle /\ UNCHANGED viewing) \/ ViewTick
Answers == ((\E r \in Requests : AskSource(r) \/ Answer(r)) /\ UNCHANGED viewing) \/ Replies

Spec == PageInit /\ [][PageNext]_pageVars
FairSpec == Spec /\ WF_pageVars(Polls) /\ WF_pageVars(Answers)

(***************************************************************************)
(* Properties.                                                             *)
(***************************************************************************)

\* What a view shows is never replaced by something the panel was read for before
\* that, in any view that numbers its loads or waits for them.  (The log of a task
\* does neither when the task is run, nor does the form of a project when it is opened
\* again: they can go back.)
Forward(before, after) ==
    \A p \in Asks.parts : Lost \in {before[p], after[p]} \/ after[p] >= before[p]
ViewNeverGoesBack ==
    [][/\ section \in {"logs", "file", "site", "sitelog", "metrics", "rules"}
       /\ view.shown # None /\ view'.shown # None
       => Forward(view.shown.got, view'.shown.got)]_pageVars

\* A log or a file that is open shows nothing that was asked for before it was opened.
ViewIsOfThisOpening ==
    section \in {"logs", "file"} /\ view.open /\ view.shown # None => ~view.shown.old

\* The summary of a server comes to show what its panel says, whatever was lost before.
PolledViewSettles ==
    <>[](section = "metrics") =>
        <>[](~view.failed /\ view.shown # None /\ view.shown.got = [p \in Asks.parts |-> era])

PollsSettle == PolledListSettles /\ PolledViewSettles
==============================================================================
