------------------------------ MODULE PanelWork ------------------------------
(***************************************************************************)
(* What the application asks of one panel on behalf of a server's page:    *)
(* the list and change operations of the client (src/src/lib/aapanel/      *)
(* client.ts, paging.ts) and the server actions that call them (src/src/   *)
(* server/actions/).                                                       *)
(*                                                                         *)
(* A panel holds items: projects, databases, sites, scheduled tasks, FTP   *)
(* accounts, firewall rules.  Of an item the model keeps whether it is     *)
(* there and whether it is on.  The panel is changed by others at any      *)
(* time, and a request to it may fail before or after it took effect.      *)
(***************************************************************************)
EXTENDS Naturals, Sequences, FiniteSets

CONSTANTS
    Sections,   \* the sections that may be open, one in a behaviour
    Items,
    Mysql,      \* the items that are MySQL databases, should items be databases
    Terms,      \* what a search box may hold
    Matches,    \* term -> the items the panel finds with it
    Limit,      \* DEFAULT_PAGE_LIMIT, as far as a source has pages
    Refused,    \* a source that did not answer
    None,
    Changing,   \* bound: the items that dialogs are about and that change
    MaxChanges, \* bound: changes of the panel
    MaxFaults   \* bound: requests, queries and processes that fail

ASSUME PanelWorkAssumption ==
    /\ Sections \subseteq {"projects", "databases", "sites", "cron", "ftp", "firewall"}
    /\ Mysql \cup Changing \subseteq Items /\ Matches \in [Terms -> SUBSET Items]
    /\ Limit \in Nat \ {0} /\ {MaxChanges, MaxFaults} \subseteq Nat
    /\ IsFiniteSet(Items) /\ None \notin Nat

VARIABLES
    section,    \* the section that is open
    readable,   \* the panel's markup states a row count that can be read
    have,       \* item -> its state on the panel
    era,        \* how often that has changed
    work,       \* the changing action under way
    journal,    \* its lines in the audit log
    acted,      \* what it did that cannot be undone, as [op, item]
    faults

panel == <<have, era>>
actions == <<work, journal, acted>>
fixed == <<section, readable>>

State == {"gone", "off", "on"}
There == {i \in Items : have[i] # "gone"}

Fault == faults < MaxFaults /\ faults' = faults + 1

(***************************************************************************)
(* Lists.                                                                  *)
(***************************************************************************)

Sources == IF section = "databases" THEN {"mysql", "pgsql"} ELSE {section}
SourceOf(i) == IF section # "databases" THEN section
               ELSE IF i \in Mysql THEN "mysql" ELSE "pgsql"
Found(term) == {i \in There : i \in Matches[term]}

\* A page a source may send for a term: as many rows as are asked for, and the
\* count stated in the markup that comes with it.  Scheduled tasks have no pages.
PagesOf(source, term) ==
    LET found == {i \in Found(term) : SourceOf(i) = source}
        fits(rows) == IF section = "cron" THEN rows = found
                      ELSE \/ Cardinality(rows) = Limit
                           \/ rows = found /\ Cardinality(found) < Limit
    IN {[rows |-> [i \in rows |-> have[i]],
         total |-> IF readable THEN Cardinality(found) ELSE None] : rows \in {r \in SUBSET found : fits(r)}}

Shown(p) == Cardinality(DOMAIN p.rows)

\* Wrong on purpose: a page that holds all it may is taken for the whole.
FullPageIsWhole(p) == IF p.total # None THEN p.total > Shown(p) ELSE Shown(p) > Limit

\* describePage: the panel's own count wins; without one, a page that came back
\* full probably has more behind it.
DescribePage(p) == IF p.total # None THEN p.total > Shown(p) ELSE Shown(p) >= Limit

\* PartialResult: the rows of the sources that answered, beside the sources that
\* did not and those that have more.
Partial(got) ==
    LET answered == {s \in DOMAIN got : got[s] # Refused}
    IN [ok |-> TRUE,
        rows |-> [i \in UNION {DOMAIN got[s].rows : s \in answered} |-> got[SourceOf(i)].rows[i]],
        failed |-> DOMAIN got \ answered,
        cut |-> {s \in answered : DescribePage(got[s])}]
Refusal == [ok |-> FALSE, rows |-> <<>>, failed |-> {}, cut |-> {}]

\* The client contains the failure of a source, ...
ListSites(got) == Partial(got)
ListFtpUsers(got) == Partial(got)
ListFirewallRules(got) == Partial(got)
ListDatabases(got) == Partial(got)
ListCronTasks(got) == [Partial(got) EXCEPT !.cut = {}]

\* ... except that of projects, which throws.
ListProjects(got) == IF got["projects"] = Refused THEN Refusal ELSE Partial(got)

\* The actions hand on what the client found; one that throws is a refusal.
ListSitesAction(got) == ListSites(got)
ListFtpUsersAction(got) == ListFtpUsers(got)
ListFirewallRulesAction(got) == ListFirewallRules(got)
ListDatabasesAction(got) == ListDatabases(got)
ListCronTasksAction(got) == ListCronTasks(got)
ListNodeProjectsAction(got) == [ListProjects(got) EXCEPT !.failed = {}]

ListAction(got) ==
    CASE section = "projects" -> ListNodeProjectsAction(got)
      [] section = "databases" -> ListDatabasesAction(got)
      [] section = "sites" -> ListSitesAction(got)
      [] section = "cron" -> ListCronTasksAction(got)
      [] section = "ftp" -> ListFtpUsersAction(got)
      [] section = "firewall" -> ListFirewallRulesAction(got)

(***************************************************************************)
(* Changes: what each call does to an item, on the panel.                  *)
(***************************************************************************)

Becomes(i, state) ==
    /\ have' = [have EXCEPT ![i] = state]
    /\ era' = IF have[i] = state THEN era ELSE era + 1
Keeps == UNCHANGED panel
OnOff(i) == IF have[i] = "on" THEN "off" ELSE "on"

RunCronTask(i) == i \in There /\ Keeps
DeleteCronTask(i) == i \in There /\ Becomes(i, "gone")
\* The endpoint has no "set": it turns whatever it finds.
ToggleCronTask(i) == i \in There /\ Becomes(i, OnOff(i))

CreateFtpUser(i) == i \notin There /\ Becomes(i, "on")
SetFtpUserPassword(i) == i \in There /\ Keeps
SetFtpUserEnabled(i, state) == i \in There /\ Becomes(i, state)
DeleteFtpUser(i) == i \in There /\ Becomes(i, "gone")

CreateDatabase(i) == i \notin There /\ Becomes(i, "on")
DeleteDatabase(i) == i \in There /\ Becomes(i, "gone")

\* A project that starts is on; the answer holds a verdict for each name, and one
\* that is false is a failure.
BatchOperation(i, op) ==
    /\ i \in There
    /\ Becomes(i, CASE op = "delete" -> "gone" [] op = "stop" -> "off" [] OTHER -> "on")
CreateProject(i) == i \notin There /\ \E state \in {"on", "off"} : Becomes(i, state)
ModifyProject(i) == i \in There /\ Keeps
DeleteProject(i) == BatchOperation(i, "delete")

\* What the panel does once the request of an action reaches it.
Performs(op, i) ==
    CASE section = "cron" ->
           (CASE op = "run" -> RunCronTask(i)
              [] op = "delete" -> DeleteCronTask(i)
              [] OTHER -> ToggleCronTask(i))
      [] section = "ftp" ->
           (CASE op = "create" -> CreateFtpUser(i)
              [] op = "password" -> SetFtpUserPassword(i)
              [] op = "delete" -> DeleteFtpUser(i)
              [] OTHER -> SetFtpUserEnabled(i, IF op = "enable" THEN "on" ELSE "off"))
      [] section = "databases" ->
           (IF op = "create" THEN CreateDatabase(i) ELSE DeleteDatabase(i))
      [] section = "projects" ->
           (CASE op = "create" -> CreateProject(i)
              [] op = "modify" -> ModifyProject(i)
              [] op = "delete" -> DeleteProject(i)
              [] OTHER -> BatchOperation(i, op))

(***************************************************************************)
(* The actions that change something.                                      *)
(*                                                                         *)
(* One that cannot be undone writes its line first and refuses where it    *)
(* cannot; the others write theirs afterwards, if they can.                *)
(***************************************************************************)

OpsIn == [s \in Sections |->
    CASE s = "cron" -> {"run", "enable", "disable", "delete"}
      [] s = "ftp" -> {"create", "password", "enable", "disable", "delete"}
      [] s = "databases" -> {"create", "delete"}
      [] s = "projects" -> {"create", "modify", "delete", "start", "stop", "restart"}
      [] OTHER -> {}]
Irreversible == {"run", "delete"}
Asked(op) == CASE op \in {"enable", "start", "restart"} -> "on"
               [] op \in {"disable", "stop"} -> "off"
               [] OTHER -> None

\* An action under way: what it does to which item, the term that will be read again
\* when it is done, the steps that are left and how it has gone so far.
Task == [op : UNION {OpsIn[s] : s \in Sections}, item : Items, term : Terms,
         todo : Seq({"begin", "read", "ask", "finish", "record"}),
         touched : BOOLEAN, result : {"ok", "error"}]

ASSUME TaskAssumption == None \notin Task

\* The steps of each action once its role, its form, the typed phrase and the
\* server's row have been checked: "begin" writes the line, "read" asks the panel
\* for the state of the item, "ask" is the request that changes something, and
\* "finish" or "record" write the outcome.
RunCronTaskAction == <<"begin", "ask", "finish">>
SetCronTaskEnabledAction == <<"read", "ask", "record">>
DeleteCronTaskAction == <<"begin", "ask", "finish">>
CreateFtpUserAction == <<"ask", "record">>
SetFtpUserPasswordAction == <<"ask", "record">>
SetFtpUserEnabledAction == <<"ask", "record">>

\* Wrong on purpose: the line of a deletion is written after it.
DeleteFtpUserActionUnsaid == <<"ask", "record">>
DeleteFtpUserAction == <<"begin", "ask", "finish">>
CreateDatabaseAction == <<"ask", "record">>
DeleteDatabaseAction == <<"begin", "ask", "finish">>
ProjectControlAction == <<"ask", "record">>
CreateProjectAction == <<"ask", "record">>
ModifyProjectAction == <<"ask", "record">>
DeleteProjectAction == <<"begin", "ask", "finish">>

StepsOf(op) ==
    CASE section = "cron" ->
           (CASE op = "run" -> RunCronTaskAction
              [] op = "delete" -> DeleteCronTaskAction
              [] OTHER -> SetCronTaskEnabledAction)
      [] section = "ftp" ->
           (CASE op = "create" -> CreateFtpUserAction
              [] op = "password" -> SetFtpUserPasswordAction
              [] op = "delete" -> DeleteFtpUserAction
              [] OTHER -> SetFtpUserEnabledAction)
      [] section = "databases" ->
           (IF op = "create" THEN CreateDatabaseAction ELSE DeleteDatabaseAction)
      [] section = "projects" ->
           (CASE op = "create" -> CreateProjectAction
              [] op = "modify" -> ModifyProjectAction
              [] op = "delete" -> DeleteProjectAction
              [] OTHER -> ProjectControlAction)

Line(result) == [op |-> work.op, item |-> work.item, result |-> result]
Doing(step) == work # None /\ work.todo # <<>> /\ Head(work.todo) = step
Onward == [work EXCEPT !.todo = Tail(@)]
Fails == [Onward EXCEPT !.result = "error"]
Answered == work # None /\ work.todo = <<>>
EndsWith(result) == work' = [work EXCEPT !.todo = <<>>, !.result = result]

\* Who asks may have no right to, the form may not hold up, the server's row may
\* be gone: then nothing of the action happens.
StartWork(op, i, term) ==
    /\ work = None /\ era <= MaxChanges
    /\ \E steps \in {StepsOf(op), <<>>} :
        /\ work' = [op |-> op, item |-> i, term |-> term, todo |-> steps, touched |-> FALSE,
                    result |-> IF steps = <<>> THEN "error" ELSE "ok"]
        /\ IF steps = <<>> THEN Fault ELSE UNCHANGED faults
    /\ UNCHANGED <<panel, journal, acted>>

BeginAudit ==
    /\ Doing("begin")
    /\ \/ journal' = journal \cup {Line("started")} /\ work' = Onward /\ UNCHANGED faults
       \/ Fault /\ EndsWith("error") /\ UNCHANGED journal
    /\ UNCHANGED <<panel, acted>>

\* Wrong on purpose: the state the browser last saw is not read again.
TrustTheBrowser ==
    /\ Doing("read") /\ work' = Onward
    /\ UNCHANGED <<panel, journal, acted, faults>>

\* setCronTaskEnabled: the whole list is read again; a task that is not in it is
\* an error, and one that is as asked already is left alone.
ReadTask ==
    LET i == work.item IN
    /\ Doing("read")
    /\ \/ /\ i \in There /\ have[i] # Asked(work.op)
          /\ work' = [Onward EXCEPT !.touched = FALSE] /\ UNCHANGED faults
       \/ /\ i \in There /\ have[i] = Asked(work.op)
          /\ work' = [work EXCEPT !.todo = <<"record">>, !.touched = FALSE] /\ UNCHANGED faults
       \/ i \notin There /\ work' = [Fails EXCEPT !.todo = <<"record">>] /\ UNCHANGED faults
       \/ Fault /\ work' = [Fails EXCEPT !.todo = <<"record">>]
    /\ UNCHANGED <<panel, journal, acted>>

\* The request that changes something.  Its answer may be lost after it took effect.
Ask ==
    LET i == work.item  op == work.op
        done == IF op \in Irreversible THEN {[op |-> op, item |-> i]} ELSE {}
        refused == (op = "create") <=> (i \in There) IN
    /\ Doing("ask")
    /\ \/ /\ Performs(op, i) /\ acted' = acted \cup done
          /\ \/ work' = [Onward EXCEPT !.touched = section = "cron" /\ @] /\ UNCHANGED faults
             \/ Fault /\ work' = Fails
       \/ /\ Keeps /\ UNCHANGED acted /\ work' = Fails
          /\ Fault \/ (refused /\ UNCHANGED faults)
    /\ UNCHANGED journal

\* recordAudit and the handle's finish(): best effort, both of them.
RecordOutcome ==
    /\ Doing("record") /\ work' = Onward
    /\ \/ journal' = journal \cup {Line(work.result)} /\ UNCHANGED faults
       \/ Fault /\ UNCHANGED journal
    /\ UNCHANGED <<panel, acted>>
FinishAudit ==
    /\ Doing("finish") /\ work' = Onward
    /\ \/ journal' = (journal \ {Line("started")}) \cup {Line(work.result)} /\ UNCHANGED faults
       \/ Fault /\ UNCHANGED journal
    /\ UNCHANGED <<panel, acted>>

\* The process that runs the action exits, and the call is never answered.
Exit ==
    /\ work # None /\ work.todo # <<>>
    /\ Fault /\ EndsWith("error")
    /\ UNCHANGED <<panel, journal, acted>>

\* Whoever called has the answer.
EndWork == work' = None /\ journal' = {} /\ acted' = {}

WorkStep == BeginAudit \/ ReadTask \/ Ask \/ RecordOutcome \/ FinishAudit

\* The panel is changed by others: its own interface, another administrator.
OthersChange ==
    /\ era < MaxChanges
    /\ \E i \in Changing : \E state \in State \ {have[i]} :
        /\ section \in {"databases", "firewall"} => state # "off"
        /\ Becomes(i, state)
        /\ work' = IF work = None \/ work.item # i \/ Asked(work.op) = None THEN work
                   ELSE [work EXCEPT !.touched = TRUE]
    /\ UNCHANGED <<journal, acted, faults>>
==============================================================================
