------------------------------ MODULE Accounts ------------------------------
(***************************************************************************)
(* Operators and the journal: the accounts of src/src/server/actions/      *)
(* users.ts with the rules of src/src/lib/users/policy.ts, the sessions of *)
(* src/src/auth.ts, and the three ways src/src/lib/audit.ts journals what  *)
(* an operator does.                                                       *)
(*                                                                         *)
(* A request is one server action in progress; every query and the panel   *)
(* call is a step of its own.  Actions on a panel come in two shapes: an   *)
(* irreversible one is journalled first (deleteCronTaskAction and its      *)
(* like), a reversible one afterwards (createFtpUserAction and its like).  *)
(* A session carries the role its account had when it signed in, and       *)
(* outlives the account.                                                   *)
(***************************************************************************)
EXTENDS Naturals, FiniteSets

CONSTANTS
    Users,          \* ids of accounts, never used twice; bound: accounts in a behaviour
    InitialAdmins,  \* accounts that exist at the start
    Requests,       \* server actions in a behaviour
    MaxDbErrors,    \* bound: queries that throw in a behaviour
    MaxDeaths       \* bound: deaths of the web process in a behaviour

ASSUME AccountsAssumption ==
    /\ InitialAdmins \subseteq Users
    /\ InitialAdmins # {}
    /\ IsFiniteSet(Users)
    /\ MaxDbErrors \in Nat
    /\ MaxDeaths \in Nat

Roles == {"viewer", "admin"}
UserKinds == {"createUser", "updateUser", "deleteUser"}
PanelKinds == {"irreversible", "reversible"}
Kinds == UserKinds \cup PanelKinds \cup {"deleteServer"}

\* What cannot be undone, and must not happen without its line.
Irreversible == {"deleteUser", "deleteServer", "irreversible"}

RequestAt == {"new", "load", "count", "write", "begin", "panel", "finish", "record", "over", "dead"}

VARIABLES
    users,   \* User.role, or whether the row is not there yet or not any more
    token,   \* the role in the session of each account
    server,  \* the row of the panel's server is there
    req,     \* the server actions
    line,    \* AuditLog.result of each request's line
    done,    \* what the request was for has happened
    faults   \* how much of each bound is spent

vars == <<users, token, server, req, line, done, faults>>

Idle == [at |-> "new", kind |-> "reversible", actor |-> CHOOSE u \in Users : TRUE,
         target |-> CHOOSE u \in Users : TRUE, role |-> "viewer", seen |-> "viewer",
         ok |-> FALSE, crossed |-> FALSE, ghost |-> FALSE]

Init ==
    /\ users = [u \in Users |-> IF u \in InitialAdmins THEN "admin" ELSE "unborn"]
    /\ token = [u \in Users |-> "none"]
    /\ server = TRUE
    /\ req = [q \in Requests |-> Idle]
    /\ line = [q \in Requests |-> "none"]
    /\ done = [q \in Requests |-> FALSE]
    /\ faults = [db |-> 0, deaths |-> 0]

Exists(u) == users[u] \in Roles
Admins == {u \in Users : users[u] = "admin"}

Goto(q, at) == req' = [req EXCEPT ![q].at = at]
Outcome(q, at, ok) == req' = [req EXCEPT ![q].at = at, ![q].ok = ok]

-----------------------------------------------------------------------------
(* Sessions.                                                               *)

MaySignIn(u) == Exists(u)

\* authorize and jwt: the role is copied into the token, once.
SignIn(u) ==
    /\ MaySignIn(u)
    /\ token' = [token EXCEPT ![u] = users[u]]
    /\ UNCHANGED <<users, server, req, line, done, faults>>

\* requireAdmin looks at the token only; a refused request leaves no trace.
RequireAdmin(u) == token[u] = "admin"

Start(q, kind, actor, target, role) ==
    /\ req[q].at = "new"
    /\ RequireAdmin(actor)
    /\ req' = [req EXCEPT ![q] =
            [Idle EXCEPT !.at = IF kind = "createUser" THEN "write" ELSE "load",
                         !.kind = kind, !.actor = actor, !.target = target,
                         !.role = role, !.ghost = ~Exists(actor)]]
    /\ UNCHANGED <<users, token, server, line, done, faults>>

-----------------------------------------------------------------------------
(* The journal.                                                            *)

\* The foreign keys of a line: its author's row, and the server's where it names one.
NoForeignKeys(q) == TRUE
LineAccepted(q) ==
    /\ Exists(req[q].actor)
    /\ req[q].kind \in PanelKinds => server

ResultAlwaysOk(ok) == "ok"
Result(ok) == IF ok THEN "ok" ELSE "error"

\* recordAudit: best effort, after the fact.
RecordAudit(q) ==
    /\ req[q].at = "record"
    /\ line' = IF LineAccepted(q) THEN [line EXCEPT ![q] = Result(req[q].ok)] ELSE line
    /\ Goto(q, "over")
    /\ UNCHANGED <<users, token, server, done, faults>>

\* beginAudit: no line, no action.
BeginAudit(q) ==
    /\ req[q].at = "begin"
    /\ \/ /\ LineAccepted(q)
          /\ line' = [line EXCEPT ![q] = "started"]
          /\ Goto(q, "panel")
       \/ /\ ~LineAccepted(q)
          /\ Goto(q, "over")
          /\ UNCHANGED line
    /\ UNCHANGED <<users, token, server, done, faults>>

\* finish() of its handle: the row is found by its own id.
FinishAudit(q) ==
    /\ req[q].at = "finish"
    /\ line' = [line EXCEPT ![q] = Result(req[q].ok)]
    /\ Goto(q, "over")
    /\ UNCHANGED <<users, token, server, done, faults>>

\* recordAuditIn: a line that cannot be written takes the transaction with it.
NeverAborts(q) == FALSE
TransactionAborts(q) == ~LineAccepted(q)

-----------------------------------------------------------------------------
(* Accounts.                                                               *)

\* Every write of a row makes what other requests have read of the accounts stale.
AfterAccountWrite(q, at, ok) ==
    req' = [r \in Requests |->
        IF r = q THEN [req[q] EXCEPT !.at = at, !.ok = ok]
        ELSE [req[r] EXCEPT !.crossed = @ \/ req[r].at \in {"count", "write"}]]

\* findUnique of the target.
LoadTarget(q) ==
    LET u == req[q].target IN
    /\ req[q].at = "load"
    /\ req[q].kind \in {"updateUser", "deleteUser"}
    /\ req' = [req EXCEPT
            ![q].seen = IF Exists(u) THEN users[u] ELSE @,
            ![q].at = IF ~Exists(u) THEN "over"
                      ELSE IF req[q].kind = "updateUser" /\ users[u] = req[q].role THEN "write"
                      ELSE "count"]
    /\ UNCHANGED <<users, token, server, line, done, faults>>

LastAdminOffByOne(n) == n < 1
LastAdmin(n) == n <= 1

\* denyUserDeletion and denyRoleChange
Denied(q, adminCount) ==
    \/ req[q].kind = "deleteUser" /\ req[q].target = req[q].actor
    \/ /\ req[q].seen = "admin"
       /\ req[q].kind = "deleteUser" \/ req[q].role # "admin"
       /\ LastAdmin(adminCount)

CountAdmins(q) ==
    /\ req[q].at = "count"
    /\ Goto(q, IF Denied(q, Cardinality(Admins)) THEN "over" ELSE "write")
    /\ UNCHANGED <<users, token, server, line, done, faults>>

\* createUserAction: a row with an id of its own, unless somebody has the target's address.
CreateUser(q) ==
    /\ req[q].at = "write" /\ req[q].kind = "createUser"
    /\ \/ /\ ~Exists(req[q].target)
          /\ \E u \in Users :
                /\ users[u] = "unborn"
                /\ users' = [users EXCEPT ![u] = req[q].role]
          /\ done' = [done EXCEPT ![q] = TRUE]
          /\ AfterAccountWrite(q, "record", TRUE)
       \/ /\ Exists(req[q].target)
          /\ Goto(q, "over")
          /\ UNCHANGED <<users, done>>
    /\ UNCHANGED <<token, server, line, faults>>

\* updateUserAction: the role is written whether it was to change or not; a row that is
\* gone makes the query throw.
UpdateUser(q) ==
    LET u == req[q].target IN
    /\ req[q].at = "write" /\ req[q].kind = "updateUser"
    /\ \/ /\ Exists(u)
          /\ users' = [users EXCEPT ![u] = req[q].role]
          /\ done' = [done EXCEPT ![q] = TRUE]
          /\ AfterAccountWrite(q, "record", TRUE)
       \/ /\ ~Exists(u)
          /\ Outcome(q, "record", FALSE)
          /\ UNCHANGED <<users, done>>
    /\ UNCHANGED <<token, server, line, faults>>

\* deleteUserAction: the row and the line in one transaction.
DeleteUser(q) ==
    LET u == req[q].target
        aborts == ~Exists(u) \/ TransactionAborts(q) IN
    /\ req[q].at = "write" /\ req[q].kind = "deleteUser"
    /\ \/ /\ ~aborts
          /\ users' = [users EXCEPT ![u] = "gone"]
          /\ line' = [line EXCEPT ![q] = "ok"]
          /\ done' = [done EXCEPT ![q] = TRUE]
          /\ AfterAccountWrite(q, "over", TRUE)
       \/ /\ aborts
          /\ Outcome(q, "record", FALSE)
          /\ UNCHANGED <<users, line, done>>
    /\ UNCHANGED <<token, server, faults>>

-----------------------------------------------------------------------------
(* Servers and what happens on their panels.                               *)

\* loadServerCreds, or the lookup of deleteServerAction.
LoadServer(q) ==
    /\ req[q].at = "load" /\ req[q].kind \in PanelKinds \cup {"deleteServer"}
    /\ Goto(q, IF ~server THEN "over"
               ELSE CASE req[q].kind = "irreversible" -> "begin"
                      [] req[q].kind = "reversible" -> "panel"
                      [] req[q].kind = "deleteServer" -> "write")
    /\ UNCHANGED <<users, token, server, line, done, faults>>

\* The panel call: done and answered, refused, or done with the answer lost.
PanelCall(q) ==
    /\ req[q].at = "panel"
    /\ \E happens \in BOOLEAN, ok \in BOOLEAN :
        /\ ok => happens
        /\ done' = [done EXCEPT ![q] = happens]
        /\ Outcome(q, IF req[q].kind = "irreversible" THEN "finish" ELSE "record", ok)
    /\ UNCHANGED <<users, token, server, line, faults>>

\* deleteServerAction: the row and a line without serverId in one transaction.
DeleteServer(q) ==
    LET aborts == ~server \/ TransactionAborts(q) IN
    /\ req[q].at = "write" /\ req[q].kind = "deleteServer"
    /\ \/ /\ ~aborts
          /\ server' = FALSE
          /\ line' = [line EXCEPT ![q] = "ok"]
          /\ done' = [done EXCEPT ![q] = TRUE]
          /\ Outcome(q, "over", TRUE)
       \/ /\ aborts
          /\ Outcome(q, "record", FALSE)
          /\ UNCHANGED <<server, line, done>>
    /\ UNCHANGED <<users, token, faults>>

-----------------------------------------------------------------------------
(* Faults.                                                                 *)

\* A query that throws: an irreversible panel action ends without a line, or without its
\* outcome; every other action is caught and journalled as an error.
DbFails(q) ==
    /\ faults.db < MaxDbErrors
    /\ faults' = [faults EXCEPT !.db = @ + 1]
    /\ \/ /\ \/ req[q].at \in {"begin", "finish", "record"}
             \/ req[q].at = "load" /\ req[q].kind = "irreversible"
          /\ Goto(q, "over")
       \/ /\ \/ req[q].at \in {"count", "write"}
             \/ req[q].at = "load" /\ req[q].kind # "irreversible"
          /\ Outcome(q, "record", FALSE)
    /\ UNCHANGED <<users, token, server, line, done>>

\* The web process dies with the requests it was serving.
Die ==
    /\ faults.deaths < MaxDeaths
    /\ faults' = [faults EXCEPT !.deaths = @ + 1]
    /\ req' = [q \in Requests |->
            IF req[q].at \in {"new", "over"} THEN req[q] ELSE [req[q] EXCEPT !.at = "dead"]]
    /\ UNCHANGED <<users, token, server, line, done>>

-----------------------------------------------------------------------------

Step(q) ==
    \/ \E kind \in Kinds, actor \in Users, target \in Users, role \in Roles :
            Start(q, kind, actor, target, role)
    \/ LoadTarget(q) \/ CountAdmins(q) \/ CreateUser(q) \/ UpdateUser(q) \/ DeleteUser(q)
    \/ LoadServer(q) \/ BeginAudit(q) \/ PanelCall(q) \/ FinishAudit(q) \/ DeleteServer(q)
    \/ RecordAudit(q)
    \/ DbFails(q)

Next ==
    \/ \E u \in Users : SignIn(u)
    \/ \E q \in Requests : Step(q)
    \/ Die

Spec == Init /\ [][Next]_vars

-----------------------------------------------------------------------------
(* Properties.                                                             *)

\* Every variable has its type; a session has a role an account can have.
AccountsTypeOK ==
    /\ users \in [Users -> Roles \cup {"unborn", "gone"}]
    /\ token \in [Users -> Roles \cup {"none"}]
    /\ server \in BOOLEAN
    /\ req \in [Requests -> [at : RequestAt, kind : Kinds, actor : Users, target : Users,
            role : Roles, seen : Roles, ok : BOOLEAN, crossed : BOOLEAN, ghost : BOOLEAN]]
    /\ line \in [Requests -> {"none", "started", "ok", "error"}]
    /\ done \in [Requests -> BOOLEAN]
    /\ faults \in [db : Nat, deaths : Nat]

\* The last admin is only ever lost in a race: by a request whose count of admins
\* another write has overtaken (users.ts:130, :164).  Sessions that outlive a demotion
\* or their account do not lose it.
LastAdminGoesOnlyCrossed ==
    [][Admins # {} /\ Admins' = {} =>
        \E q \in Requests : req[q].at = "write" /\ req'[q].at # "write" /\ req[q].crossed]_vars

HarmlessGhost(q) == req[q].ghost /\ req[q].kind \in Irreversible => ~done[q]

\* A session whose account is gone does nothing irreversible, although requireAdmin lets
\* it in: the line it would need refers to an account that is not there (audit.ts:103, :141).
GhostsDoNothingIrreversible == \A q \in Requests : HarmlessGhost(q)

\* Two accounts never delete each other: the second transaction has no author left.
NoMutualDeletion ==
    \A q, r \in Requests :
        /\ req[q].kind = "deleteUser" /\ req[r].kind = "deleteUser"
        /\ req[q].actor = req[r].target /\ req[r].actor = req[q].target
        /\ q # r
        => ~(done[q] /\ done[r])

\* What the journal says of a request is so: nothing irreversible happened without a line;
\* "ok" means it happened; a deletion journalled as an error did not; a line
\* left at "started" means that the process died in the middle, or that its last write failed.
LineIsTrue(q) ==
    /\ done[q] /\ req[q].kind \in Irreversible => line[q] # "none"
    /\ line[q] = "ok" => done[q]
    /\ line[q] = "error" /\ req[q].kind \in {"deleteUser", "deleteServer"} => ~done[q]
    /\ line[q] = "started" /\ req[q].at = "over" => faults.db > 0

\* Every line of the journal is true (audit.ts:57-154).
JournalIsTrue == \A q \in Requests : LineIsTrue(q)

=============================================================================
