-------------------------- MODULE Accounts_proofs --------------------------
(***************************************************************************)
(* Proofs about Accounts, for any number of accounts and requests and any  *)
(* number of failed queries and deaths.                                    *)
(***************************************************************************)
EXTENDS Accounts, FiniteSetTheorems, TLAPS

-----------------------------------------------------------------------------
(* The inductive invariant.                                                *)

\* Only an account that has existed has a session.
SessionsHadAccounts == \A u \in Users : token[u] # "none" => users[u] # "unborn"

\* What a request's line and effect are while it is under way.
LineSoFar(q) ==
    LET at == req[q].at kind == req[q].kind IN
    /\ at \in {"new", "load", "count", "write", "begin"} => line[q] = "none" /\ ~done[q]
    /\ at \in {"count", "write", "record"} => kind # "irreversible"
    /\ at = "panel" => ~done[q] /\ line[q] = (IF kind = "irreversible" THEN "started" ELSE "none")
    /\ at = "begin" => kind = "irreversible"
    /\ at = "panel" => kind \in PanelKinds
    /\ at = "finish" => kind = "irreversible" /\ line[q] = "started" /\ (req[q].ok => done[q])
    /\ at = "record" => /\ line[q] = "none" /\ (req[q].ok => done[q])
                        /\ kind \in {"deleteUser", "deleteServer"} => ~done[q]

\* A request without an account is past saving, and never reaches the panel irreversibly.
GhostsStayOutside(q) ==
    req[q].ghost => /\ users[req[q].actor] = "gone"
                    /\ req[q].kind = "irreversible" => req[q].at \notin {"panel", "finish"}

\* A deletion that happened has left no account.
DeletedIsGone(q) == done[q] /\ req[q].kind = "deleteUser" => users[req[q].target] = "gone"

\* What a request has read of the accounts is still so, while nobody has crossed it.
ReadIsCurrent(q) ==
    ~req[q].crossed /\ req[q].kind \in {"updateUser", "deleteUser"} =>
        /\ req[q].at \in {"count", "write"} => users[req[q].target] = req[q].seen
        /\ req[q].at = "write" => ~Denied(q, Cardinality(Admins))

JournalInv == (\A q \in Requests : LineSoFar(q)) /\ JournalIsTrue
GhostInv ==
    /\ SessionsHadAccounts
    /\ \A q \in Requests : GhostsStayOutside(q)
    /\ GhostsDoNothingIrreversible

-----------------------------------------------------------------------------
(* Types.                                                                  *)

\* A request has what a server action remembers.
ReqType == [at : RequestAt, kind : Kinds, actor : Users, target : Users, role : Roles,
            seen : Roles, ok : BOOLEAN, crossed : BOOLEAN, ghost : BOOLEAN]

\* A request that has not come yet is a request.
LEMMA IdleTyped == Idle \in ReqType
<1>1. \E u \in Users : TRUE
  BY AccountsAssumption
<1>2. (CHOOSE u \in Users : TRUE) \in Users
  BY <1>1
<1> QED
  BY <1>2 DEF Idle, ReqType, RequestAt, Kinds, UserKinds, PanelKinds, Roles

\* The first state has its types.
LEMMA TypeInit == Init => AccountsTypeOK
<1> SUFFICES ASSUME Init
             PROVE  AccountsTypeOK
  OBVIOUS
<1>1. req \in [Requests -> ReqType]
  BY IdleTyped DEF Init
<1> QED
  BY <1>1 DEF Init, AccountsTypeOK, ReqType, Roles

\* The ways a request moves on keep it a request.
LEMMA MovesTyped ==
    ASSUME AccountsTypeOK, NEW q \in Requests, NEW at \in RequestAt, NEW ok \in BOOLEAN
    PROVE  /\ Goto(q, at) => req' \in [Requests -> ReqType]
           /\ Outcome(q, at, ok) => req' \in [Requests -> ReqType]
           /\ AfterAccountWrite(q, at, ok) => req' \in [Requests -> ReqType]
<1>1. /\ req \in [Requests -> ReqType]
      /\ \A r \in Requests : req[r] \in ReqType
  BY DEF AccountsTypeOK, ReqType
<1>2. /\ [req[q] EXCEPT !.at = at] \in ReqType
      /\ [req[q] EXCEPT !.at = at, !.ok = ok] \in ReqType
  BY <1>1 DEF ReqType
<1>3. \A r \in Requests, b \in BOOLEAN : [req[r] EXCEPT !.crossed = b] \in ReqType
  BY <1>1 DEF ReqType
<1>4. Goto(q, at) => req' \in [Requests -> ReqType]
  <2>1. Goto(q, at) => req' = [req EXCEPT ![q] = [req[q] EXCEPT !.at = at]]
    BY <1>1 DEF Goto
  <2> QED
    BY <1>1, <1>2, <2>1
<1>5. Outcome(q, at, ok) => req' \in [Requests -> ReqType]
  <2>1. Outcome(q, at, ok) => req' = [req EXCEPT ![q] = [req[q] EXCEPT !.at = at, !.ok = ok]]
    BY <1>1 DEF Outcome
  <2> QED
    BY <1>1, <1>2, <2>1
<1>6. ASSUME AfterAccountWrite(q, at, ok)
      PROVE  req' \in [Requests -> ReqType]
  <2>1. ASSUME NEW r \in Requests, r # q
        PROVE  req'[r] \in ReqType
    <3>1. req'[r] = [req[r] EXCEPT !.crossed = req[r].crossed \/ req[r].at \in {"count", "write"}]
      BY <1>6, <2>1 DEF AfterAccountWrite
    <3>2. (req[r].crossed \/ req[r].at \in {"count", "write"}) \in BOOLEAN
      OBVIOUS
    <3> QED
      BY <1>3, <3>1, <3>2
  <2>2. req'[q] \in ReqType
    BY <1>2, <1>6 DEF AfterAccountWrite
  <2> QED
    BY <1>6, <2>1, <2>2 DEF AfterAccountWrite
<1> QED
  BY <1>4, <1>5, <1>6

\* Every step keeps the types.
LEMMA TypeStep == AccountsTypeOK /\ [Next]_vars => AccountsTypeOK'
<1> SUFFICES ASSUME AccountsTypeOK, [Next]_vars
             PROVE  AccountsTypeOK'
  OBVIOUS
<1> DEFINE ReqTyped == req \in [Requests -> ReqType]
           RestTyped == /\ users \in [Users -> Roles \cup {"unborn", "gone"}]
                        /\ token \in [Users -> Roles \cup {"none"}]
                        /\ server \in BOOLEAN
                        /\ line \in [Requests -> {"none", "started", "ok", "error"}]
                        /\ done \in [Requests -> BOOLEAN]
                        /\ faults \in [db : Nat, deaths : Nat]
<1>0. /\ AccountsTypeOK <=> ReqTyped /\ RestTyped
      /\ AccountsTypeOK' <=> ReqTyped' /\ RestTyped'
  BY DEF AccountsTypeOK, ReqType
<1>1. ReqTyped /\ RestTyped
  BY <1>0
<1>2. ASSUME NEW u \in Users, SignIn(u)
      PROVE  ReqTyped' /\ RestTyped'
  BY <1>1, <1>2 DEF SignIn, MaySignIn, Exists
<1>3. ASSUME NEW q \in Requests, NEW kind \in Kinds, NEW actor \in Users, NEW target \in Users,
             NEW role \in Roles, Start(q, kind, actor, target, role)
      PROVE  ReqTyped' /\ RestTyped'
  <2>1. req'[q] \in ReqType
    BY <1>1, <1>3, IdleTyped DEF Start, ReqType, RequestAt
  <2>2. ReqTyped'
    BY <1>1, <1>3, <2>1 DEF Start
  <2> QED
    BY <1>1, <1>3, <2>2 DEF Start
<1>4. ASSUME NEW q \in Requests, LoadTarget(q)
      PROVE  ReqTyped' /\ RestTyped'
  <2>1. ReqTyped'
    BY <1>1, <1>4 DEF LoadTarget, ReqType, RequestAt, Exists
  <2> QED
    BY <1>1, <1>4, <2>1 DEF LoadTarget
<1>5. ASSUME NEW q \in Requests, CountAdmins(q)
      PROVE  ReqTyped' /\ RestTyped'
  <2>1. ReqTyped'
    BY <1>1, <1>5, MovesTyped, TRUE \in BOOLEAN, FALSE \in BOOLEAN DEF CountAdmins, RequestAt
  <2> QED
    BY <1>1, <1>5, <2>1 DEF CountAdmins
<1>6. ASSUME NEW q \in Requests, CreateUser(q)
      PROVE  ReqTyped' /\ RestTyped'
  <2>1. ReqTyped'
    BY <1>1, <1>6, MovesTyped, TRUE \in BOOLEAN, FALSE \in BOOLEAN DEF CreateUser, RequestAt
  <2>2. req[q].role \in Roles
    BY <1>1 DEF ReqType
  <2>3. users' \in [Users -> Roles \cup {"unborn", "gone"}]
    BY <1>1, <1>6, <2>2 DEF CreateUser
  <2>4. UNCHANGED <<token, server, line, faults>> /\ done' \in [Requests -> BOOLEAN]
    BY <1>1, <1>6 DEF CreateUser
  <2> QED
    BY <1>1, <2>1, <2>3, <2>4
<1>7. ASSUME NEW q \in Requests, UpdateUser(q)
      PROVE  ReqTyped' /\ RestTyped'
  <2>1. ReqTyped'
    BY <1>1, <1>7, MovesTyped, TRUE \in BOOLEAN, FALSE \in BOOLEAN DEF UpdateUser, RequestAt
  <2>2. req[q].role \in Roles
    BY <1>1 DEF ReqType
  <2>3. users' \in [Users -> Roles \cup {"unborn", "gone"}]
    BY <1>1, <1>7, <2>2 DEF UpdateUser
  <2>4. UNCHANGED <<token, server, line, faults>> /\ done' \in [Requests -> BOOLEAN]
    BY <1>1, <1>7 DEF UpdateUser
  <2> QED
    BY <1>1, <2>1, <2>3, <2>4
<1>8. ASSUME NEW q \in Requests, DeleteUser(q)
      PROVE  ReqTyped' /\ RestTyped'
  <2>1. ReqTyped'
    BY <1>1, <1>8, MovesTyped, TRUE \in BOOLEAN, FALSE \in BOOLEAN DEF DeleteUser, RequestAt
  <2> QED
    BY <1>1, <1>8, <2>1 DEF DeleteUser
<1>9. ASSUME NEW q \in Requests, LoadServer(q)
      PROVE  ReqTyped' /\ RestTyped'
  <2>1. ReqTyped'
    BY <1>1, <1>9, MovesTyped, TRUE \in BOOLEAN, FALSE \in BOOLEAN DEF LoadServer, RequestAt, PanelKinds
  <2> QED
    BY <1>1, <1>9, <2>1 DEF LoadServer
<1>10. ASSUME NEW q \in Requests, BeginAudit(q)
      PROVE  ReqTyped' /\ RestTyped'
  <2>1. ReqTyped'
    BY <1>1, <1>10, MovesTyped, TRUE \in BOOLEAN, FALSE \in BOOLEAN DEF BeginAudit, RequestAt
  <2> QED
    BY <1>1, <1>10, <2>1 DEF BeginAudit
<1>11. ASSUME NEW q \in Requests, PanelCall(q)
      PROVE  ReqTyped' /\ RestTyped'
  <2>1. ReqTyped'
    BY <1>1, <1>11, MovesTyped, TRUE \in BOOLEAN, FALSE \in BOOLEAN DEF PanelCall, RequestAt
  <2> QED
    BY <1>1, <1>11, <2>1 DEF PanelCall
<1>12. ASSUME NEW q \in Requests, FinishAudit(q)
      PROVE  ReqTyped' /\ RestTyped'
  <2>1. ReqTyped'
    BY <1>1, <1>12, MovesTyped DEF FinishAudit, RequestAt
  <2>2. line' \in [Requests -> {"none", "started", "ok", "error"}]
    BY <1>1, <1>12 DEF FinishAudit, Result
  <2> QED
    BY <1>1, <1>12, <2>1, <2>2 DEF FinishAudit
<1>13. ASSUME NEW q \in Requests, DeleteServer(q)
      PROVE  ReqTyped' /\ RestTyped'
  <2>1. ReqTyped'
    BY <1>1, <1>13, MovesTyped, TRUE \in BOOLEAN, FALSE \in BOOLEAN DEF DeleteServer, RequestAt
  <2> QED
    BY <1>1, <1>13, <2>1 DEF DeleteServer
<1>14. ASSUME NEW q \in Requests, RecordAudit(q)
      PROVE  ReqTyped' /\ RestTyped'
  <2>1. ReqTyped'
    BY <1>1, <1>14, MovesTyped DEF RecordAudit, RequestAt
  <2>2. line' \in [Requests -> {"none", "started", "ok", "error"}]
    BY <1>1, <1>14 DEF RecordAudit, Result
  <2> QED
    BY <1>1, <1>14, <2>1, <2>2 DEF RecordAudit
<1>15. ASSUME NEW q \in Requests, DbFails(q)
      PROVE  ReqTyped' /\ RestTyped'
  <2>1. ReqTyped'
    BY <1>1, <1>15, MovesTyped, TRUE \in BOOLEAN, FALSE \in BOOLEAN DEF DbFails, RequestAt
  <2> QED
    BY <1>1, <1>15, <2>1 DEF DbFails
<1>16. ASSUME Die
      PROVE  ReqTyped' /\ RestTyped'
  <2>1. ReqTyped'
    BY <1>1, <1>16 DEF Die, ReqType, RequestAt
  <2> QED
    BY <1>1, <1>16, <2>1 DEF Die
<1>17. ASSUME UNCHANGED vars
      PROVE  ReqTyped' /\ RestTyped'
  BY <1>1, <1>17 DEF vars
<1>18. ReqTyped' /\ RestTyped'
  BY <1>2, <1>3, <1>4, <1>5, <1>6, <1>7, <1>8, <1>9, <1>10, <1>11, <1>12, <1>13, <1>14, <1>15, <1>16, <1>17 DEF Next, Step
<1> QED
  BY <1>0, <1>18

-----------------------------------------------------------------------------
(* One request at a time.                                                *)

\* The step of a request leaves the others as they are; it may only cross them.
Others(q) ==
    /\ \A r \in Requests \ {q} :
        /\ line'[r] = line[r] /\ done'[r] = done[r]
        /\ req'[r].at = req[r].at /\ req'[r].kind = req[r].kind /\ req'[r].actor = req[r].actor
        /\ req'[r].target = req[r].target /\ req'[r].role = req[r].role
        /\ req'[r].seen = req[r].seen /\ req'[r].ok = req[r].ok /\ req'[r].ghost = req[r].ghost
        /\ req[r].crossed => req'[r].crossed
    /\ faults'.db \in Nat /\ faults'.db >= faults.db

\* What a write of an account does to the other requests.
CrossOthers(q) ==
    \A r \in Requests \ {q} :
        req'[r] = [req[r] EXCEPT !.crossed = @ \/ req[r].at \in {"count", "write"}]

\* It crosses them and changes nothing else of them.
LEMMA CrossingLemma ==
    ASSUME AccountsTypeOK, NEW q \in Requests, CrossOthers(q),
           faults' = faults, \A r \in Requests \ {q} : line'[r] = line[r] /\ done'[r] = done[r]
    PROVE  Others(q)
<1>1. ASSUME NEW r \in Requests \ {q}
      PROVE  /\ req'[r].at = req[r].at /\ req'[r].kind = req[r].kind /\ req'[r].actor = req[r].actor
             /\ req'[r].target = req[r].target /\ req'[r].role = req[r].role
             /\ req'[r].seen = req[r].seen /\ req'[r].ok = req[r].ok /\ req'[r].ghost = req[r].ghost
             /\ req[r].crossed => req'[r].crossed
  <2> DEFINE c == req[r].crossed \/ req[r].at \in {"count", "write"}
  <2>1. req'[r] = [req[r] EXCEPT !.crossed = c]
    BY DEF CrossOthers
  <2>2. req[r].crossed => c
    OBVIOUS
  <2>3. req[r] \in [at : RequestAt, kind : Kinds, actor : Users, target : Users, role : Roles,
                     seen : Roles, ok : BOOLEAN, crossed : BOOLEAN, ghost : BOOLEAN]
    BY DEF AccountsTypeOK
  <2> HIDE DEF c
  <2>4. req'[r].crossed = c
    BY <2>1, <2>3
  <2>5. req[r].crossed => req'[r].crossed
    BY <2>2, <2>4, Zenon
  <2> QED
    BY <2>1, <2>3, <2>5
<1>2. faults'.db \in Nat /\ faults'.db >= faults.db
  BY DEF AccountsTypeOK
<1> QED
  BY <1>1, <1>2 DEF Others

\* Every step of a request is of that kind.
LEMMA StepOfOne ==
    ASSUME AccountsTypeOK, NEW q \in Requests, Step(q)
    PROVE  Others(q)
<1> USE DEF AccountsTypeOK, Others
<1>1. ASSUME NEW kind \in Kinds, NEW actor \in Users, NEW target \in Users,
             NEW role \in Roles, Start(q, kind, actor, target, role)
      PROVE  Others(q)
  BY <1>1 DEF Start
<1>2. ASSUME LoadTarget(q)
      PROVE  Others(q)
  BY <1>2 DEF LoadTarget
<1>3. ASSUME CountAdmins(q)
      PROVE  Others(q)
  BY <1>3 DEF CountAdmins, Goto
<1>4. ASSUME CreateUser(q)
      PROVE  Others(q)
  <2>1. faults' = faults /\ \A r \in Requests \ {q} : line'[r] = line[r] /\ done'[r] = done[r]
    BY <1>4 DEF CreateUser
  <2>2. CASE AfterAccountWrite(q, "record", TRUE)
    <3>1. CrossOthers(q)
      BY <2>2 DEF AfterAccountWrite, CrossOthers
    <3> QED
      BY <2>1, <3>1, CrossingLemma
  <2>3. CASE Goto(q, "over")
    <3>1. \A r \in Requests \ {q} : req'[r] = req[r]
      BY <2>3 DEF Goto
    <3> QED
      BY <2>1, <3>1
  <2>4. AfterAccountWrite(q, "record", TRUE) \/ Goto(q, "over")
    BY <1>4, Zenon DEF CreateUser
  <2> QED
    BY <2>2, <2>3, <2>4
<1>5. ASSUME UpdateUser(q)
      PROVE  Others(q)
  <2>1. faults' = faults /\ \A r \in Requests \ {q} : line'[r] = line[r] /\ done'[r] = done[r]
    BY <1>5 DEF UpdateUser
  <2>2. CASE AfterAccountWrite(q, "record", TRUE)
    <3>1. CrossOthers(q)
      BY <2>2 DEF AfterAccountWrite, CrossOthers
    <3> QED
      BY <2>1, <3>1, CrossingLemma
  <2>3. CASE Outcome(q, "record", FALSE)
    <3>1. \A r \in Requests \ {q} : req'[r] = req[r]
      BY <2>3 DEF Outcome
    <3> QED
      BY <2>1, <3>1
  <2>4. AfterAccountWrite(q, "record", TRUE) \/ Outcome(q, "record", FALSE)
    BY <1>5, Zenon DEF UpdateUser
  <2> QED
    BY <2>2, <2>3, <2>4
<1>6. ASSUME DeleteUser(q)
      PROVE  Others(q)
  <2>1. faults' = faults /\ \A r \in Requests \ {q} : line'[r] = line[r] /\ done'[r] = done[r]
    BY <1>6 DEF DeleteUser
  <2>2. CASE AfterAccountWrite(q, "over", TRUE)
    <3>1. CrossOthers(q)
      BY <2>2 DEF AfterAccountWrite, CrossOthers
    <3> QED
      BY <2>1, <3>1, CrossingLemma
  <2>3. CASE Outcome(q, "record", FALSE)
    <3>1. \A r \in Requests \ {q} : req'[r] = req[r]
      BY <2>3 DEF Outcome
    <3> QED
      BY <2>1, <3>1
  <2>4. AfterAccountWrite(q, "over", TRUE) \/ Outcome(q, "record", FALSE)
    BY <1>6, Zenon DEF DeleteUser
  <2> QED
    BY <2>2, <2>3, <2>4
<1>7. ASSUME LoadServer(q)
      PROVE  Others(q)
  BY <1>7 DEF LoadServer, Goto
<1>8. ASSUME BeginAudit(q)
      PROVE  Others(q)
  BY <1>8 DEF BeginAudit, Goto
<1>9. ASSUME PanelCall(q)
      PROVE  Others(q)
  BY <1>9 DEF PanelCall, Outcome
<1>10. ASSUME FinishAudit(q)
      PROVE  Others(q)
  BY <1>10 DEF FinishAudit, Goto
<1>11. ASSUME DeleteServer(q)
      PROVE  Others(q)
  BY <1>11 DEF DeleteServer, Outcome
<1>12. ASSUME RecordAudit(q)
      PROVE  Others(q)
  BY <1>12 DEF RecordAudit, Goto
<1>13. ASSUME DbFails(q)
      PROVE  Others(q)
  BY <1>13 DEF DbFails, Goto, Outcome
<1> QED
  BY <1>1, <1>2, <1>3, <1>4, <1>5, <1>6, <1>7, <1>8, <1>9, <1>10, <1>11, <1>12, <1>13 DEF Step

-----------------------------------------------------------------------------
(* The journal.                                                            *)

\* At the start there is nothing to journal.
LEMMA JournalInit == Init => JournalInv
  BY DEF Init, Idle, JournalInv, LineSoFar, JournalIsTrue, LineIsTrue

\* The step of a request keeps its own line true.
LEMMA JournalStep ==
    ASSUME AccountsTypeOK, NEW q \in Requests, Step(q), LineSoFar(q), LineIsTrue(q)
    PROVE  LineSoFar(q)' /\ LineIsTrue(q)'
<1> USE DEF AccountsTypeOK, LineSoFar, LineIsTrue, Irreversible
<1>1. ASSUME NEW kind \in Kinds, NEW actor \in Users, NEW target \in Users,
             NEW role \in Roles, Start(q, kind, actor, target, role)
      PROVE  LineSoFar(q)' /\ LineIsTrue(q)'
  BY <1>1 DEF Start, Idle
<1>2. ASSUME LoadTarget(q)
      PROVE  LineSoFar(q)' /\ LineIsTrue(q)'
  BY <1>2 DEF LoadTarget
<1>3. ASSUME CountAdmins(q)
      PROVE  LineSoFar(q)' /\ LineIsTrue(q)'
  BY <1>3 DEF CountAdmins, Goto
<1>4. ASSUME CreateUser(q)
      PROVE  LineSoFar(q)' /\ LineIsTrue(q)'
  <2>1. /\ faults' = faults
        /\ \/ AfterAccountWrite(q, "record", TRUE) /\ done' = [done EXCEPT ![q] = TRUE] /\ line' = line
           \/ Goto(q, "over") /\ done' = done /\ line' = line
    BY <1>4, Zenon DEF CreateUser
  <2>2. req[q].at = "write" /\ req[q].kind = "createUser"
    BY <1>4 DEF CreateUser
  <2>3. CASE AfterAccountWrite(q, "record", TRUE) /\ done' = [done EXCEPT ![q] = TRUE] /\ line' = line
    <3>1. req'[q] = [req[q] EXCEPT !.at = "record", !.ok = TRUE]
      BY <2>3 DEF AfterAccountWrite
    <3>2. /\ req'[q].at = "record" /\ req'[q].ok = TRUE
          /\ req'[q].kind = req[q].kind
      BY <3>1
    <3>3. done'[q] = TRUE /\ line'[q] = "none"
      BY <2>2, <2>3
    <3> QED
      BY <2>1, <2>2, <3>2, <3>3
  <2>4. CASE Goto(q, "over") /\ done' = done /\ line' = line
    BY <2>1, <2>2, <2>4 DEF Goto
  <2> QED
    BY <2>1, <2>3, <2>4
<1>5. ASSUME UpdateUser(q)
      PROVE  LineSoFar(q)' /\ LineIsTrue(q)'
  <2>1. /\ faults' = faults
        /\ \/ AfterAccountWrite(q, "record", TRUE) /\ done' = [done EXCEPT ![q] = TRUE] /\ line' = line
           \/ Outcome(q, "record", FALSE) /\ done' = done /\ line' = line
    BY <1>5, Zenon DEF UpdateUser
  <2>2. req[q].at = "write" /\ req[q].kind = "updateUser"
    BY <1>5 DEF UpdateUser
  <2>3. CASE AfterAccountWrite(q, "record", TRUE) /\ done' = [done EXCEPT ![q] = TRUE] /\ line' = line
    <3>1. req'[q] = [req[q] EXCEPT !.at = "record", !.ok = TRUE]
      BY <2>3 DEF AfterAccountWrite
    <3>2. /\ req'[q].at = "record" /\ req'[q].ok = TRUE
          /\ req'[q].kind = req[q].kind
      BY <3>1
    <3>3. done'[q] = TRUE /\ line'[q] = "none"
      BY <2>2, <2>3
    <3> QED
      BY <2>1, <2>2, <3>2, <3>3
  <2>4. CASE Outcome(q, "record", FALSE) /\ done' = done /\ line' = line
    BY <2>1, <2>2, <2>4 DEF Outcome
  <2> QED
    BY <2>1, <2>3, <2>4
<1>6. ASSUME DeleteUser(q)
      PROVE  LineSoFar(q)' /\ LineIsTrue(q)'
  <2>1. /\ faults' = faults
        /\ \/ AfterAccountWrite(q, "over", TRUE) /\ done' = [done EXCEPT ![q] = TRUE] /\ line' = [line EXCEPT ![q] = "ok"]
           \/ Outcome(q, "record", FALSE) /\ done' = done /\ line' = line
    BY <1>6, Zenon DEF DeleteUser
  <2>2. req[q].at = "write" /\ req[q].kind = "deleteUser"
    BY <1>6 DEF DeleteUser
  <2>3. CASE AfterAccountWrite(q, "over", TRUE) /\ done' = [done EXCEPT ![q] = TRUE] /\ line' = [line EXCEPT ![q] = "ok"]
    <3>1. req'[q] = [req[q] EXCEPT !.at = "over", !.ok = TRUE]
      BY <2>3 DEF AfterAccountWrite
    <3>2. /\ req'[q].at = "over" /\ req'[q].ok = TRUE
          /\ req'[q].kind = req[q].kind
      BY <3>1
    <3>3. done'[q] = TRUE /\ line'[q] = "ok"
      BY <2>2, <2>3
    <3> QED
      BY <2>1, <2>2, <3>2, <3>3
  <2>4. CASE Outcome(q, "record", FALSE) /\ done' = done /\ line' = line
    BY <2>1, <2>2, <2>4 DEF Outcome
  <2> QED
    BY <2>1, <2>3, <2>4
<1>7. ASSUME LoadServer(q)
      PROVE  LineSoFar(q)' /\ LineIsTrue(q)'
  BY <1>7 DEF LoadServer, Goto, PanelKinds
<1>8. ASSUME BeginAudit(q)
      PROVE  LineSoFar(q)' /\ LineIsTrue(q)'
  BY <1>8 DEF BeginAudit, Goto, PanelKinds
<1>9. ASSUME PanelCall(q)
      PROVE  LineSoFar(q)' /\ LineIsTrue(q)'
  BY <1>9 DEF PanelCall, Outcome, PanelKinds
<1>10. ASSUME FinishAudit(q)
      PROVE  LineSoFar(q)' /\ LineIsTrue(q)'
  BY <1>10 DEF FinishAudit, Goto, Result
<1>11. ASSUME DeleteServer(q)
      PROVE  LineSoFar(q)' /\ LineIsTrue(q)'
  BY <1>11 DEF DeleteServer, Outcome
<1>12. ASSUME RecordAudit(q)
      PROVE  LineSoFar(q)' /\ LineIsTrue(q)'
  BY <1>12 DEF RecordAudit, Goto, Result
<1>13. ASSUME DbFails(q)
      PROVE  LineSoFar(q)' /\ LineIsTrue(q)'
  BY <1>13 DEF DbFails, Goto, Outcome, PanelKinds
<1> QED
  BY <1>1, <1>2, <1>3, <1>4, <1>5, <1>6, <1>7, <1>8, <1>9, <1>10, <1>11, <1>12, <1>13 DEF Step

\* Every step keeps every line true.
LEMMA JournalNext == AccountsTypeOK /\ JournalInv /\ [Next]_vars => JournalInv'
<1> SUFFICES ASSUME AccountsTypeOK, JournalInv, [Next]_vars, NEW r \in Requests
             PROVE  LineSoFar(r)' /\ LineIsTrue(r)'
  BY DEF JournalInv, JournalIsTrue
<1>1. LineSoFar(r) /\ LineIsTrue(r)
  BY DEF JournalInv, JournalIsTrue
<1>2. ASSUME NEW q \in Requests, Step(q)
      PROVE  LineSoFar(r)' /\ LineIsTrue(r)'
  <2>1. CASE r = q
    BY <1>1, <1>2, <2>1, JournalStep
  <2>2. CASE r # q
    <3>1. Others(q)
      BY <1>2, StepOfOne
    <3> QED
      BY <1>1, <2>2, <3>1 DEF Others, LineSoFar, LineIsTrue, AccountsTypeOK
  <2> QED
    BY <2>1, <2>2
<1>3. ASSUME Die
      PROVE  LineSoFar(r)' /\ LineIsTrue(r)'
  BY <1>1, <1>3 DEF Die, LineSoFar, LineIsTrue, AccountsTypeOK
<1>4. ASSUME UNCHANGED <<req, line, done, faults>>
      PROVE  LineSoFar(r)' /\ LineIsTrue(r)'
  BY <1>1, <1>4 DEF LineSoFar, LineIsTrue
<1> QED
  BY <1>2, <1>3, <1>4 DEF Next, SignIn, vars

-----------------------------------------------------------------------------
(* What a request does to itself.                                          *)

\* A step other than the first keeps what the request is and who makes it.
SameRequest(q) ==
    /\ req'[q].kind = req[q].kind /\ req'[q].actor = req[q].actor /\ req'[q].target = req[q].target
    /\ req'[q].role = req[q].role /\ req'[q].ghost = req[q].ghost

\* The first step: a session with the admin role, and nothing done yet.
Begins(q) ==
    /\ req[q].at = "new" /\ req'[q].at \in {"load", "write"}
    /\ token[req'[q].actor] = "admin" /\ req'[q].ghost = ~Exists(req'[q].actor)
    /\ req'[q].actor \in Users /\ done' = done /\ users' = users

\* The ways to the panel and to something done, and who may take them.
Reaches(q) ==
    /\ req'[q].at = "panel" /\ req[q].kind = "irreversible" => Exists(req[q].actor)
    /\ req'[q].at = "finish" => req[q].at = "panel"
    /\ done'[q] /\ ~done[q] /\ req[q].kind \in Irreversible =>
            Exists(req[q].actor) \/ req[q].at = "panel"
    /\ done'[q] /\ ~done[q] /\ req[q].kind = "deleteUser" => users'[req[q].target] = "gone"

\* No account is born again, and none becomes unborn.
Ages == \A u \in Users : /\ users[u] = "gone" => users'[u] = "gone"
                         /\ users[u] # "unborn" => users'[u] # "unborn"

\* A step of a request is its first, or keeps it and takes one of those ways.
LEMMA StepOfItself ==
    ASSUME AccountsTypeOK, NEW q \in Requests, Step(q), LineSoFar(q)
    PROVE  Begins(q) \/ (SameRequest(q) /\ Reaches(q))
<1> USE DEF AccountsTypeOK
<1>1. ASSUME NEW kind \in Kinds, NEW actor \in Users, NEW target \in Users,
             NEW role \in Roles, Start(q, kind, actor, target, role)
      PROVE  Begins(q)
  BY <1>1 DEF Start, Begins, RequireAdmin
<1>2. ASSUME LoadTarget(q)
      PROVE  SameRequest(q) /\ Reaches(q)
  BY <1>2 DEF LoadTarget, Exists, SameRequest, Reaches, LineAccepted, Irreversible, LineSoFar
<1>3. ASSUME CountAdmins(q)
      PROVE  SameRequest(q) /\ Reaches(q)
  BY <1>3 DEF CountAdmins, Goto, SameRequest, Reaches, LineAccepted, Irreversible, LineSoFar
<1>4. ASSUME CreateUser(q)
      PROVE  SameRequest(q) /\ Reaches(q)
  <2>1. \/ AfterAccountWrite(q, "record", TRUE)
        \/ Goto(q, "over") /\ done' = done
    BY <1>4, Zenon DEF CreateUser
  <2>2. CASE AfterAccountWrite(q, "record", TRUE)
    <3>1. req'[q] = [req[q] EXCEPT !.at = "record", !.ok = TRUE]
      BY <2>2 DEF AfterAccountWrite
    <3>2. SameRequest(q) /\ req'[q].at = "record"
      BY <3>1 DEF SameRequest
    <3>3. req[q].kind = "createUser"
      BY <1>4 DEF CreateUser
    <3> QED
      BY <3>2, <3>3 DEF Reaches, Irreversible
  <2>3. CASE Goto(q, "over") /\ done' = done
    BY <2>3 DEF Goto, SameRequest, Reaches
  <2> QED
    BY <2>1, <2>2, <2>3
<1>5. ASSUME UpdateUser(q)
      PROVE  SameRequest(q) /\ Reaches(q)
  <2>1. \/ AfterAccountWrite(q, "record", TRUE)
        \/ Outcome(q, "record", FALSE) /\ done' = done
    BY <1>5, Zenon DEF UpdateUser
  <2>2. CASE AfterAccountWrite(q, "record", TRUE)
    <3>1. req'[q] = [req[q] EXCEPT !.at = "record", !.ok = TRUE]
      BY <2>2 DEF AfterAccountWrite
    <3>2. SameRequest(q) /\ req'[q].at = "record"
      BY <3>1 DEF SameRequest
    <3>3. req[q].kind = "updateUser"
      BY <1>5 DEF UpdateUser
    <3> QED
      BY <3>2, <3>3 DEF Reaches, Irreversible
  <2>3. CASE Outcome(q, "record", FALSE) /\ done' = done
    BY <2>3 DEF Outcome, SameRequest, Reaches
  <2> QED
    BY <2>1, <2>2, <2>3
<1>6. ASSUME DeleteUser(q)
      PROVE  SameRequest(q) /\ Reaches(q)
  <2>1. \/ AfterAccountWrite(q, "over", TRUE)
        \/ Outcome(q, "record", FALSE) /\ done' = done
    BY <1>6, Zenon DEF DeleteUser
  <2>2. CASE AfterAccountWrite(q, "over", TRUE)
    <3>1. req'[q] = [req[q] EXCEPT !.at = "over", !.ok = TRUE]
      BY <2>2 DEF AfterAccountWrite
    <3>2. SameRequest(q) /\ req'[q].at = "over"
      BY <3>1 DEF SameRequest
    <3>3. done'[q] /\ ~done[q] => Exists(req[q].actor) /\ users'[req[q].target] = "gone"
      <4>1. \/ done' = done
            \/ ~TransactionAborts(q) /\ users' = [users EXCEPT ![req[q].target] = "gone"]
        BY <1>6, Zenon DEF DeleteUser
      <4> QED
        BY <4>1 DEF TransactionAborts, LineAccepted
    <3> QED
      BY <3>2, <3>3 DEF Reaches
  <2>3. CASE Outcome(q, "record", FALSE) /\ done' = done
    BY <2>3 DEF Outcome, SameRequest, Reaches
  <2> QED
    BY <2>1, <2>2, <2>3
<1>7. ASSUME LoadServer(q)
      PROVE  SameRequest(q) /\ Reaches(q)
  BY <1>7 DEF LoadServer, Goto, PanelKinds, SameRequest, Reaches, LineAccepted, Irreversible, LineSoFar
<1>8. ASSUME BeginAudit(q)
      PROVE  SameRequest(q) /\ Reaches(q)
  BY <1>8 DEF BeginAudit, Goto, SameRequest, Reaches, LineAccepted, Irreversible, LineSoFar
<1>9. ASSUME PanelCall(q)
      PROVE  SameRequest(q) /\ Reaches(q)
  BY <1>9 DEF PanelCall, Outcome, PanelKinds, SameRequest, Reaches, LineAccepted, Irreversible, LineSoFar
<1>10. ASSUME FinishAudit(q)
      PROVE  SameRequest(q) /\ Reaches(q)
  BY <1>10 DEF FinishAudit, Goto, SameRequest, Reaches, LineAccepted, Irreversible, LineSoFar
<1>11. ASSUME DeleteServer(q)
      PROVE  SameRequest(q) /\ Reaches(q)
  BY <1>11 DEF DeleteServer, Outcome, TransactionAborts, LineAccepted, SameRequest, Reaches, LineAccepted, Irreversible, LineSoFar
<1>12. ASSUME RecordAudit(q)
      PROVE  SameRequest(q) /\ Reaches(q)
  BY <1>12 DEF RecordAudit, Goto, SameRequest, Reaches, LineAccepted, Irreversible, LineSoFar
<1>13. ASSUME DbFails(q)
      PROVE  SameRequest(q) /\ Reaches(q)
  BY <1>13 DEF DbFails, Goto, Outcome, SameRequest, Reaches, LineAccepted, Irreversible, LineSoFar
<1> QED
  BY <1>1, <1>2, <1>3, <1>4, <1>5, <1>6, <1>7, <1>8, <1>9, <1>10, <1>11, <1>12, <1>13 DEF Step

\* Every step lets the accounts age.
LEMMA AccountsAge == AccountsTypeOK /\ [Next]_vars => Ages
<1> SUFFICES ASSUME AccountsTypeOK, [Next]_vars
             PROVE  Ages
  OBVIOUS
<1> USE DEF AccountsTypeOK, Ages
<1>1. ASSUME NEW q \in Requests, CreateUser(q)
      PROVE  Ages
  <2>1. CASE users' = users
    BY <2>1
  <2>2. CASE \E u \in Users : users[u] = "unborn" /\ users' = [users EXCEPT ![u] = req[q].role]
    BY <2>2 DEF Roles
  <2> QED
    BY <1>1, <2>1, <2>2 DEF CreateUser
<1>2. ASSUME NEW q \in Requests, UpdateUser(q)
      PROVE  Ages
  <2>1. \/ users' = users
        \/ Exists(req[q].target) /\ users' = [users EXCEPT ![req[q].target] = req[q].role]
    BY <1>2 DEF UpdateUser
  <2> QED
    BY <2>1 DEF Exists, Roles
<1>3. ASSUME NEW q \in Requests, DeleteUser(q)
      PROVE  Ages
  <2>1. users' = users \/ users' = [users EXCEPT ![req[q].target] = "gone"]
    BY <1>3 DEF DeleteUser
  <2> QED
    BY <2>1
<1>4. CASE users' = users
  BY <1>4
<1> QED
  BY <1>1, <1>2, <1>3, <1>4 DEF Next, Step, vars, SignIn, Start, LoadTarget, CountAdmins,
     LoadServer, BeginAudit, PanelCall, FinishAudit, DeleteServer, RecordAudit, DbFails, Die

-----------------------------------------------------------------------------
(* Ghosts and deletions.                                                   *)

\* At the start there are no sessions, no ghosts and no deletions.
LEMMA GhostInit == Init => GhostInv /\ \A q \in Requests : DeletedIsGone(q)
  BY DEF Init, Idle, GhostInv, SessionsHadAccounts, GhostsStayOutside,
     GhostsDoNothingIrreversible, HarmlessGhost, DeletedIsGone

\* A session is only ever given to an account.
LEMMA SessionNext == AccountsTypeOK /\ SessionsHadAccounts /\ [Next]_vars => SessionsHadAccounts'
<1> SUFFICES ASSUME AccountsTypeOK, SessionsHadAccounts, [Next]_vars, NEW u \in Users
             PROVE  token'[u] # "none" => users'[u] # "unborn"
  BY DEF SessionsHadAccounts
<1>1. Ages
  BY AccountsAge
<1>2. ASSUME NEW v \in Users, SignIn(v)
      PROVE  token'[u] # "none" => users'[u] # "unborn"
  BY <1>2 DEF SignIn, MaySignIn, Exists, Roles, SessionsHadAccounts, AccountsTypeOK
<1>3. CASE token' = token
  BY <1>1, <1>3 DEF SessionsHadAccounts, Ages
<1> QED
  BY <1>2, <1>3 DEF Next, Step, vars, Start, LoadTarget, CountAdmins, CreateUser, UpdateUser,
     DeleteUser, LoadServer, BeginAudit, PanelCall, FinishAudit, DeleteServer, RecordAudit, DbFails, Die

\* The step of a request leaves it a harmless ghost, if it is one, and its deletion done.
LEMMA GhostStep ==
    ASSUME AccountsTypeOK, SessionsHadAccounts, NEW q \in Requests, Step(q), Ages, LineSoFar(q),
           GhostsStayOutside(q), HarmlessGhost(q), DeletedIsGone(q)
    PROVE  GhostsStayOutside(q)' /\ HarmlessGhost(q)' /\ DeletedIsGone(q)'
<1>1. /\ req[q].actor \in Users /\ req[q].target \in Users /\ done[q] \in BOOLEAN
      /\ req[q].at = "new" => ~done[q]
  BY DEF AccountsTypeOK, LineSoFar
<1>2. CASE Begins(q)
  <2>1. ~done'[q]
    BY <1>1, <1>2 DEF Begins
  <2>2. req'[q].ghost => users'[req'[q].actor] = "gone"
    BY <1>2 DEF Begins, SessionsHadAccounts, Exists, AccountsTypeOK
  <2> QED
    BY <1>2, <2>1, <2>2 DEF Begins, GhostsStayOutside, HarmlessGhost, DeletedIsGone
<1>3. CASE SameRequest(q) /\ Reaches(q)
  <2>1. users[req[q].actor] = "gone" => ~Exists(req[q].actor)
    BY DEF Exists, Roles
  <2>2. GhostsStayOutside(q)'
    BY <1>1, <1>3, <2>1 DEF SameRequest, Reaches, GhostsStayOutside, Ages
  <2>3. HarmlessGhost(q)'
    <3>1. req[q].at = "panel" /\ req[q].kind \in Irreversible => req[q].kind = "irreversible"
      BY DEF LineSoFar, PanelKinds, Irreversible
    <3> QED
      BY <1>1, <1>3, <2>1, <3>1 DEF SameRequest, Reaches, GhostsStayOutside, HarmlessGhost
  <2>4. DeletedIsGone(q)'
    BY <1>1, <1>3 DEF SameRequest, Reaches, DeletedIsGone, Ages
  <2> QED
    BY <2>2, <2>3, <2>4
<1> QED
  BY <1>2, <1>3, StepOfItself

\* Every step keeps ghosts harmless and deletions done.
LEMMA GhostNext ==
    AccountsTypeOK /\ JournalInv /\ GhostInv /\ (\A q \in Requests : DeletedIsGone(q)) /\ [Next]_vars
    => GhostInv' /\ (\A q \in Requests : DeletedIsGone(q))'
<1> SUFFICES ASSUME AccountsTypeOK, JournalInv, GhostInv, \A q \in Requests : DeletedIsGone(q),
                    [Next]_vars
             PROVE  GhostInv' /\ (\A q \in Requests : DeletedIsGone(q))'
  OBVIOUS
<1>1. Ages /\ SessionsHadAccounts'
  BY AccountsAge, SessionNext DEF GhostInv
<1>2. ASSUME NEW r \in Requests
      PROVE  GhostsStayOutside(r)' /\ HarmlessGhost(r)' /\ DeletedIsGone(r)'
  <2>1. /\ GhostsStayOutside(r) /\ HarmlessGhost(r) /\ DeletedIsGone(r) /\ LineSoFar(r)
        /\ SessionsHadAccounts
    BY DEF GhostInv, GhostsDoNothingIrreversible, JournalInv
  <2>2. req[r].actor \in Users /\ req[r].target \in Users
    BY DEF AccountsTypeOK
  <2>3. ASSUME NEW q \in Requests, Step(q)
        PROVE  GhostsStayOutside(r)' /\ HarmlessGhost(r)' /\ DeletedIsGone(r)'
    <3>1. CASE q = r
      BY <1>1, <2>1, <2>3, <3>1, GhostStep
    <3>2. CASE q # r
      <4>1. Others(q)
        BY <2>3, StepOfOne
      <4> QED
        BY <1>1, <2>1, <2>2, <3>2, <4>1
        DEF Others, Ages, GhostsStayOutside, HarmlessGhost, DeletedIsGone
    <3> QED
      BY <3>1, <3>2
  <2>4. ASSUME Die
        PROVE  GhostsStayOutside(r)' /\ HarmlessGhost(r)' /\ DeletedIsGone(r)'
    BY <2>1, <2>4 DEF Die, AccountsTypeOK, GhostsStayOutside, HarmlessGhost, DeletedIsGone
  <2>5. ASSUME UNCHANGED <<req, done>>
        PROVE  GhostsStayOutside(r)' /\ HarmlessGhost(r)' /\ DeletedIsGone(r)'
    BY <1>1, <2>1, <2>2, <2>5 DEF Ages, GhostsStayOutside, HarmlessGhost, DeletedIsGone
  <2> QED
    BY <2>3, <2>4, <2>5 DEF Next, SignIn, vars
<1> QED
  BY <1>1, <1>2 DEF GhostInv, GhostsDoNothingIrreversible

\* The second of two deletions of each other has lost its author.
LEMMA MutualNext ==
    ASSUME AccountsTypeOK, JournalInv, \A q \in Requests : DeletedIsGone(q), NoMutualDeletion,
           [Next]_vars
    PROVE  NoMutualDeletion'
<1> DEFINE Mutual(q, r) ==
        /\ req[q].kind = "deleteUser" /\ req[r].kind = "deleteUser"
        /\ req[q].actor = req[r].target /\ req[r].actor = req[q].target
        /\ done[q] /\ done[r]
<1>0. ASSUME NEW q \in Requests, NEW r \in Requests, q # r
      PROVE  ~Mutual(q, r)
  BY <1>0 DEF NoMutualDeletion
<1>1. ASSUME NEW p \in Requests, NEW r \in Requests, p # r, Step(p)
      PROVE  ~(Mutual(p, r))'
  <2> SUFFICES ASSUME (Mutual(p, r))'
               PROVE  FALSE
    OBVIOUS
  <2>1. /\ done[r] /\ req[r].kind = "deleteUser"
        /\ req[r].actor = req'[r].actor /\ req[r].target = req'[r].target
    BY <1>1, StepOfOne DEF Others
  <2>2. LineSoFar(p)
    BY DEF JournalInv
  <2>3. ~Begins(p)
    BY <2>2 DEF Begins, LineSoFar
  <2>4. SameRequest(p) /\ Reaches(p)
    BY <1>1, <2>2, <2>3, StepOfItself
  <2>5. /\ req[p].kind = "deleteUser" /\ req[p].actor = req[r].target /\ req[r].actor = req[p].target
        /\ done'[p]
    BY <2>1, <2>4 DEF SameRequest
  <2>6. ~done[p]
    BY <1>0, <1>1, <2>1, <2>5
  <2>7. req[p].at # "panel"
    BY <2>2, <2>5 DEF LineSoFar, PanelKinds
  <2>8. Exists(req[p].actor)
    BY <2>4, <2>5, <2>6, <2>7 DEF Reaches, Irreversible
  <2>9. users[req[r].target] = "gone"
    BY <2>1 DEF DeletedIsGone
  <2> QED
    BY <2>5, <2>8, <2>9 DEF Exists, Roles
<1>2. ASSUME NEW q \in Requests, NEW r \in Requests, q # r
      PROVE  ~(Mutual(q, r))'
  <2>1. ASSUME NEW p \in Requests, Step(p)
        PROVE  ~(Mutual(q, r))'
    <3>1. CASE p = q
      BY <1>1, <1>2, <2>1, <3>1
    <3>2. CASE p = r
      <4>1. ~(Mutual(r, q))'
        BY <1>1, <1>2, <2>1, <3>2
      <4> QED
        BY <4>1
    <3>3. CASE p # q /\ p # r
      BY <1>0, <1>2, <2>1, <3>3, StepOfOne DEF Others
    <3> QED
      BY <3>1, <3>2, <3>3
  <2>2. ASSUME Die
        PROVE  ~(Mutual(q, r))'
    BY <1>0, <1>2, <2>2 DEF Die, AccountsTypeOK
  <2>3. ASSUME UNCHANGED <<req, done>>
        PROVE  ~(Mutual(q, r))'
    BY <1>0, <1>2, <2>3
  <2> QED
    BY <2>1, <2>2, <2>3 DEF Next, SignIn, vars
<1> QED
  BY <1>2 DEF NoMutualDeletion

-----------------------------------------------------------------------------
(* The last admin.                                                         *)

\* Of two admins and more, one remains when any single one is left out.
LEMMA AnotherAdmin ==
    ASSUME AccountsTypeOK, NEW u, ~LastAdmin(Cardinality(Admins))
    PROVE  Admins \ {u} # {}
<1> SUFFICES ASSUME Admins \ {u} = {}
             PROVE  FALSE
  OBVIOUS
<1>1. Admins \subseteq {u}
  OBVIOUS
<1>2. IsFiniteSet({u}) /\ Cardinality({u}) = 1
  BY FS_Singleton
<1>3. Cardinality(Admins) \in Nat /\ Cardinality(Admins) <= 1
  BY <1>1, <1>2, FS_Subset, FS_CardinalityType
<1> QED
  BY <1>3 DEF LastAdmin

\* What a request may still do wrong: it has counted, and nobody has crossed it.
Counted(q) == req[q].kind \in {"updateUser", "deleteUser"} /\ req[q].at \in {"count", "write"}

\* A step of a request that changes the accounts is a write, and crosses whoever has counted.
WritesAccounts(q) ==
    /\ req[q].at = "write" /\ req'[q].at \notin {"count", "write"}
    /\ \A r \in Requests \ {q} : Counted(r) => req'[r].crossed
    /\ \/ \E u \in Users : /\ users[u] = "unborn"
                           /\ users' = [users EXCEPT ![u] = req[q].role]
       \/ /\ req[q].kind = "updateUser"
          /\ users' = [users EXCEPT ![req[q].target] = req[q].role]
       \/ /\ req[q].kind = "deleteUser"
          /\ users' = [users EXCEPT ![req[q].target] = "gone"]

\* Every other step of a request leaves the accounts; the request counts, or does not.
ReadsAccounts(q) ==
    /\ users' = users
    /\ Counted(q)' => \/ /\ req[q].at = "load" /\ req'[q].seen = users[req'[q].target]
                         /\ req'[q].at = "write" =>
                                req'[q].kind = "updateUser" /\ req'[q].seen = req'[q].role
                      \/ /\ req[q].at = "count" /\ req'[q].at = "write" /\ SameRequest(q)
                         /\ req'[q].seen = req[q].seen /\ req'[q].crossed = req[q].crossed
                         /\ ~Denied(q, Cardinality(Admins))

\* A write crosses whoever has counted.
LEMMA CrossesCounted ==
    ASSUME AccountsTypeOK, NEW q \in Requests, CrossOthers(q)
    PROVE  \A r \in Requests \ {q} : Counted(r) => req'[r].crossed
<1> SUFFICES ASSUME NEW r \in Requests \ {q}, Counted(r)
             PROVE  req'[r].crossed
  OBVIOUS
<1> DEFINE c == req[r].crossed \/ req[r].at \in {"count", "write"}
<1>1. req'[r] = [req[r] EXCEPT !.crossed = c]
  BY DEF CrossOthers
<1>2. c
  BY DEF Counted
<1>3. req[r] \in [at : RequestAt, kind : Kinds, actor : Users, target : Users, role : Roles,
                 seen : Roles, ok : BOOLEAN, crossed : BOOLEAN, ghost : BOOLEAN]
  BY DEF AccountsTypeOK
<1> HIDE DEF c
<1>4. req'[r].crossed = c
  BY <1>1, <1>3
<1> QED
  BY <1>2, <1>4, Zenon

\* A step of a request does one or the other.
LEMMA StepOnAccounts ==
    ASSUME AccountsTypeOK, NEW q \in Requests, Step(q)
    PROVE  WritesAccounts(q) \/ ReadsAccounts(q)
<1> USE DEF AccountsTypeOK
<1>1. ASSUME NEW kind \in Kinds, NEW actor \in Users, NEW target \in Users,
             NEW role \in Roles, Start(q, kind, actor, target, role)
      PROVE  ReadsAccounts(q)
  BY <1>1 DEF Start, ReadsAccounts, Counted
<1>2. ASSUME LoadTarget(q)
      PROVE  ReadsAccounts(q)
  BY <1>2 DEF LoadTarget, ReadsAccounts, Counted, Exists
<1>3. ASSUME CountAdmins(q)
      PROVE  ReadsAccounts(q)
  <2>1. /\ req'[q] = [req[q] EXCEPT !.at = IF Denied(q, Cardinality(Admins)) THEN "over" ELSE "write"]
        /\ users' = users /\ req[q].at = "count"
    BY <1>3 DEF CountAdmins, Goto
  <2>2. SameRequest(q) /\ req'[q].seen = req[q].seen /\ req'[q].crossed = req[q].crossed
    BY <2>1 DEF SameRequest
  <2>3. req'[q].at = IF Denied(q, Cardinality(Admins)) THEN "over" ELSE "write"
    BY <2>1
  <2> QED
    BY <2>1, <2>2, <2>3, Zenon DEF ReadsAccounts, Counted
<1>4. ASSUME CreateUser(q)
      PROVE  WritesAccounts(q) \/ ReadsAccounts(q)
  <2>1. \/ /\ AfterAccountWrite(q, "record", TRUE)
           /\ \E u \in Users : users[u] = "unborn" /\ users' = [users EXCEPT ![u] = req[q].role]
        \/ Goto(q, "over") /\ users' = users
    BY <1>4, Zenon DEF CreateUser
  <2>2. req[q].at = "write" /\ req[q].kind = "createUser"
    BY <1>4 DEF CreateUser
  <2>3. CASE AfterAccountWrite(q, "record", TRUE) /\ \E u \in Users : users[u] = "unborn" /\ users' = [users EXCEPT ![u] = req[q].role]
    <3>1. req'[q] = [req[q] EXCEPT !.at = "record", !.ok = TRUE]
      BY <2>3 DEF AfterAccountWrite
    <3>2. req'[q].at \notin {"count", "write"}
      BY <3>1
    <3>3. \A r \in Requests \ {q} : Counted(r) => req'[r].crossed
      <4>1. CrossOthers(q)
        BY <2>3 DEF AfterAccountWrite, CrossOthers
      <4> QED
        BY <4>1, CrossesCounted
    <3> QED
      BY <2>2, <2>3, <3>2, <3>3, Zenon DEF WritesAccounts
  <2>4. CASE Goto(q, "over") /\ users' = users
    BY <2>4 DEF Goto, ReadsAccounts, Counted
  <2> QED
    BY <2>1, <2>3, <2>4
<1>5. ASSUME UpdateUser(q)
      PROVE  WritesAccounts(q) \/ ReadsAccounts(q)
  <2>1. \/ /\ AfterAccountWrite(q, "record", TRUE)
           /\ users' = [users EXCEPT ![req[q].target] = req[q].role]
        \/ Outcome(q, "record", FALSE) /\ users' = users
    BY <1>5, Zenon DEF UpdateUser
  <2>2. req[q].at = "write" /\ req[q].kind = "updateUser"
    BY <1>5 DEF UpdateUser
  <2>3. CASE AfterAccountWrite(q, "record", TRUE) /\ users' = [users EXCEPT ![req[q].target] = req[q].role]
    <3>1. req'[q] = [req[q] EXCEPT !.at = "record", !.ok = TRUE]
      BY <2>3 DEF AfterAccountWrite
    <3>2. req'[q].at \notin {"count", "write"}
      BY <3>1
    <3>3. \A r \in Requests \ {q} : Counted(r) => req'[r].crossed
      <4>1. CrossOthers(q)
        BY <2>3 DEF AfterAccountWrite, CrossOthers
      <4> QED
        BY <4>1, CrossesCounted
    <3> QED
      BY <2>2, <2>3, <3>2, <3>3, Zenon DEF WritesAccounts
  <2>4. CASE Outcome(q, "record", FALSE) /\ users' = users
    BY <2>4 DEF Outcome, ReadsAccounts, Counted
  <2> QED
    BY <2>1, <2>3, <2>4
<1>6. ASSUME DeleteUser(q)
      PROVE  WritesAccounts(q) \/ ReadsAccounts(q)
  <2>1. \/ /\ AfterAccountWrite(q, "over", TRUE)
           /\ users' = [users EXCEPT ![req[q].target] = "gone"]
        \/ Outcome(q, "record", FALSE) /\ users' = users
    BY <1>6, Zenon DEF DeleteUser
  <2>2. req[q].at = "write" /\ req[q].kind = "deleteUser"
    BY <1>6 DEF DeleteUser
  <2>3. CASE AfterAccountWrite(q, "over", TRUE) /\ users' = [users EXCEPT ![req[q].target] = "gone"]
    <3>1. req'[q] = [req[q] EXCEPT !.at = "over", !.ok = TRUE]
      BY <2>3 DEF AfterAccountWrite
    <3>2. req'[q].at \notin {"count", "write"}
      BY <3>1
    <3>3. \A r \in Requests \ {q} : Counted(r) => req'[r].crossed
      <4>1. CrossOthers(q)
        BY <2>3 DEF AfterAccountWrite, CrossOthers
      <4> QED
        BY <4>1, CrossesCounted
    <3> QED
      BY <2>2, <2>3, <3>2, <3>3, Zenon DEF WritesAccounts
  <2>4. CASE Outcome(q, "record", FALSE) /\ users' = users
    BY <2>4 DEF Outcome, ReadsAccounts, Counted
  <2> QED
    BY <2>1, <2>3, <2>4
<1>7. ASSUME LoadServer(q)
      PROVE  ReadsAccounts(q)
  BY <1>7 DEF LoadServer, Goto, PanelKinds, ReadsAccounts, Counted
<1>8. ASSUME BeginAudit(q)
      PROVE  ReadsAccounts(q)
  BY <1>8 DEF BeginAudit, Goto, ReadsAccounts, Counted
<1>9. ASSUME PanelCall(q)
      PROVE  ReadsAccounts(q)
  BY <1>9 DEF PanelCall, Outcome, ReadsAccounts, Counted
<1>10. ASSUME FinishAudit(q)
      PROVE  ReadsAccounts(q)
  BY <1>10 DEF FinishAudit, Goto, ReadsAccounts, Counted
<1>11. ASSUME DeleteServer(q)
      PROVE  ReadsAccounts(q)
  BY <1>11 DEF DeleteServer, Outcome, ReadsAccounts, Counted
<1>12. ASSUME RecordAudit(q)
      PROVE  ReadsAccounts(q)
  BY <1>12 DEF RecordAudit, Goto, ReadsAccounts, Counted
<1>13. ASSUME DbFails(q)
      PROVE  ReadsAccounts(q)
  BY <1>13 DEF DbFails, Goto, Outcome, ReadsAccounts, Counted
<1> QED
  BY <1>1, <1>2, <1>3, <1>4, <1>5, <1>6, <1>7, <1>8, <1>9, <1>10, <1>11, <1>12, <1>13 DEF Step

\* What a request has read stays current until another write crosses it.
LEMMA ReadNext ==
    ASSUME AccountsTypeOK, \A q \in Requests : ReadIsCurrent(q), [Next]_vars
    PROVE  (\A q \in Requests : ReadIsCurrent(q))'
<1> SUFFICES ASSUME NEW r \in Requests
             PROVE  ReadIsCurrent(r)'
  OBVIOUS
<1>1. ReadIsCurrent(r)
  OBVIOUS
<1>2. ASSUME users' = users, UNCHANGED <<req[r].kind, req[r].actor, req[r].target, req[r].role,
                req[r].seen>>, req[r].crossed => req'[r].crossed,
             req'[r].at \in {"count", "write"} => req'[r].at = req[r].at
      PROVE  ReadIsCurrent(r)'
  BY <1>1, <1>2 DEF ReadIsCurrent, Denied, Admins
<1>3. ASSUME NEW q \in Requests, Step(q)
      PROVE  ReadIsCurrent(r)'
  <2>1. CASE q # r
    <3>1. Others(q)
      BY <1>3, StepOfOne
    <3>2. CASE WritesAccounts(q)
      <4>1. Counted(r)' => Counted(r)
        BY <2>1, <3>1 DEF Others, Counted
      <4>2. Counted(r)' => req'[r].crossed
        BY <2>1, <3>2, <4>1 DEF WritesAccounts
      <4> QED
        BY <4>2 DEF ReadIsCurrent, Counted
    <3>3. CASE ReadsAccounts(q)
      BY <1>2, <2>1, <3>1, <3>3 DEF Others, ReadsAccounts
    <3> QED
      BY <1>3, <3>2, <3>3, StepOnAccounts
  <2>2. CASE q = r
    <3>1. CASE WritesAccounts(r)
      BY <3>1 DEF WritesAccounts, ReadIsCurrent
    <3>2. CASE ReadsAccounts(r)
      <4>1. CASE ~Counted(r)'
        BY <4>1 DEF Counted, ReadIsCurrent
      <4>2. CASE /\ Counted(r)' /\ users' = users
                 /\ req'[r].seen = users[req'[r].target]
                 /\ req'[r].at = "write" => req'[r].kind = "updateUser" /\ req'[r].seen = req'[r].role
        BY <4>2 DEF ReadIsCurrent, Denied
      <4>3. CASE /\ users' = users /\ req[r].at = "count" /\ SameRequest(r)
                 /\ req'[r].seen = req[r].seen /\ req'[r].crossed = req[r].crossed
                 /\ ~Denied(r, Cardinality(Admins))
        BY <1>1, <4>3 DEF ReadIsCurrent, Denied, SameRequest, Admins
      <4> QED
        BY <3>2, <4>1, <4>2, <4>3 DEF ReadsAccounts
    <3> QED
      BY <1>3, <2>2, <3>1, <3>2, StepOnAccounts
  <2> QED
    BY <2>1, <2>2
<1>4. ASSUME Die
      PROVE  ReadIsCurrent(r)'
  BY <1>1, <1>4 DEF Die, AccountsTypeOK, ReadIsCurrent, Denied, Admins
<1>5. ASSUME UNCHANGED <<req, users>>
      PROVE  ReadIsCurrent(r)'
  BY <1>1, <1>5 DEF ReadIsCurrent, Denied, Admins
<1> QED
  BY <1>3, <1>4, <1>5 DEF Next, SignIn, vars

\* A request nobody has crossed leaves an admin.
LEMMA UncrossedLeavesAdmin ==
    ASSUME AccountsTypeOK, NEW q \in Requests, WritesAccounts(q), ReadIsCurrent(q),
           ~req[q].crossed, Admins # {}
    PROVE  Admins' # {}
<1> USE DEF AccountsTypeOK
<1>1. CASE \E u \in Users : users[u] = "unborn" /\ users' = [users EXCEPT ![u] = req[q].role]
  BY <1>1 DEF Admins
<1>2. ASSUME NEW v, users' = [users EXCEPT ![req[q].target] = v],
             Counted(q), v = "admin" => req[q].kind = "updateUser" /\ req[q].role = "admin",
             v # "admin" => req[q].kind = "deleteUser" \/ req[q].role # "admin"
      PROVE  Admins' # {}
  <2>1. users[req[q].target] = req[q].seen /\ ~Denied(q, Cardinality(Admins))
    BY <1>2 DEF ReadIsCurrent, Counted, WritesAccounts
  <2>2. Admins \ {req[q].target} \subseteq Admins'
    BY <1>2 DEF Admins
  <2>3. CASE v = "admin"
    BY <1>2, <2>3 DEF Admins
  <2>4. CASE v # "admin" /\ req[q].seen = "admin"
    <3>1. ~LastAdmin(Cardinality(Admins))
      BY <1>2, <2>1, <2>4 DEF Denied
    <3>2. Admins \ {req[q].target} # {}
      BY <3>1, AnotherAdmin
    <3> QED
      BY <2>2, <3>2
  <2>5. CASE req[q].seen # "admin"
    <3>1. req[q].target \notin Admins
      BY <2>1, <2>5 DEF Admins
    <3> QED
      BY <2>2, <3>1
  <2> QED
    BY <2>3, <2>4, <2>5
<1>3. CASE req[q].kind = "updateUser" /\ users' = [users EXCEPT ![req[q].target] = req[q].role]
  BY <1>2, <1>3 DEF Counted, WritesAccounts
<1>4. CASE req[q].kind = "deleteUser" /\ users' = [users EXCEPT ![req[q].target] = "gone"]
  BY <1>2, <1>4 DEF Counted, WritesAccounts
<1> QED
  BY <1>1, <1>3, <1>4 DEF WritesAccounts

\* The step that loses the last admin is a crossed write.
LEMMA LastAdminStep ==
    ASSUME AccountsTypeOK, \A q \in Requests : ReadIsCurrent(q), [Next]_vars,
           Admins # {}, Admins' = {}
    PROVE  \E q \in Requests : req[q].at = "write" /\ req'[q].at # "write" /\ req[q].crossed
<1>1. users' # users
  BY DEF Admins
<1>2. PICK q \in Requests : Step(q)
  BY <1>1 DEF Next, SignIn, Die, vars
<1>3. WritesAccounts(q)
  BY <1>1, <1>2, StepOnAccounts DEF ReadsAccounts
<1>4. req[q].crossed
  BY <1>3, UncrossedLeavesAdmin
<1> QED
  BY <1>3, <1>4 DEF WritesAccounts

-----------------------------------------------------------------------------
(* The theorems.                                                           *)

\* The accounts, sessions, requests and lines of auth.ts, users.ts and audit.ts keep their types.
THEOREM TypeCorrect == Spec => []AccountsTypeOK
<1> QED
  BY TypeInit, TypeStep, PTL DEF Spec

\* What the journal says of any request is so (audit.ts:57-154).
THEOREM JournalTrue == Spec => []JournalIsTrue
<1>1. JournalInv => JournalIsTrue
  BY DEF JournalInv
<1> QED
  BY <1>1, JournalInit, JournalNext, TypeCorrect, PTL DEF Spec

\* A session whose account is gone does nothing irreversible (guards.ts:20, audit.ts:103, :141).
THEOREM GhostsHarmless == Spec => []GhostsDoNothingIrreversible
<1> DEFINE Deletions == \A q \in Requests : DeletedIsGone(q)
<1>1. Init => GhostInv /\ Deletions
  BY GhostInit
<1>2. AccountsTypeOK /\ JournalInv /\ (GhostInv /\ Deletions) /\ [Next]_vars => (GhostInv /\ Deletions)'
  BY GhostNext
<1>3. GhostInv => GhostsDoNothingIrreversible
  BY DEF GhostInv
<1> HIDE DEF Deletions
<1> QED
  BY <1>1, <1>2, <1>3, JournalInit, JournalNext, TypeCorrect, PTL DEF Spec

\* Two accounts never delete each other (users.ts:175-183).
THEOREM MutualDeletionExcluded == Spec => []NoMutualDeletion
<1> DEFINE Deletions == \A q \in Requests : DeletedIsGone(q)
<1>1. Init => GhostInv /\ Deletions /\ NoMutualDeletion
  BY GhostInit DEF Init, NoMutualDeletion
<1>2. AccountsTypeOK /\ JournalInv /\ (GhostInv /\ Deletions) /\ [Next]_vars => (GhostInv /\ Deletions)'
  BY GhostNext
<1>3. AccountsTypeOK /\ JournalInv /\ Deletions /\ NoMutualDeletion /\ [Next]_vars => NoMutualDeletion'
  BY MutualNext
<1> HIDE DEF Deletions
<1> QED
  BY <1>1, <1>2, <1>3, JournalInit, JournalNext, TypeCorrect, PTL DEF Spec

\* The last admin is only ever lost in a race (users.ts:130, :164; policy.ts:25, :40).
THEOREM LastAdminKeptUncrossed == Spec => LastAdminGoesOnlyCrossed
<1> DEFINE Current == \A q \in Requests : ReadIsCurrent(q)
           Crossed == Admins # {} /\ Admins' = {} =>
                \E q \in Requests : req[q].at = "write" /\ req'[q].at # "write" /\ req[q].crossed
<1>1. Init => Current
  BY DEF Init, Idle, ReadIsCurrent
<1>2. AccountsTypeOK /\ Current /\ [Next]_vars => Current'
  BY ReadNext
<1>3. AccountsTypeOK /\ Current /\ [Next]_vars => [Crossed]_vars
  BY LastAdminStep
<1>4. LastAdminGoesOnlyCrossed <=> [][Crossed]_vars
  BY DEF LastAdminGoesOnlyCrossed
<1> HIDE DEF Current, Crossed
<1> QED
  BY <1>1, <1>2, <1>3, <1>4, TypeCorrect, PTL DEF Spec

=============================================================================
