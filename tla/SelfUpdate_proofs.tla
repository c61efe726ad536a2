-------------------------- MODULE SelfUpdate_proofs --------------------------
(***************************************************************************)
(* Proofs about SelfUpdate, for any releases, tabs, requests and runners   *)
(* and any number of failures: the types of its state, that runners which  *)
(* end within the lock's time to live never meet, and that what the page   *)
(* says of an update and what a restart boots is so, whichever requests    *)
(* overlap, unless a release was staged again while it was in use.         *)
(***************************************************************************)
EXTENDS SelfUpdate, TLAPS

-----------------------------------------------------------------------------
(* The types.                                                              *)

RunnerRecord == [at : RunnerPc, kind : {"update", "rollback"},
                 target : VersionOrNone, previous : VersionOrNone]
StatusRecord == [target : VersionOrNone, current : {"none"} \cup {UpdateSteps[i] : i \in 1..5},
                 state : {"none", "running", "done", "failed"}]
FlowRecord == [version : VersionOrNone, before : VersionOrNone,
               tab : SUBSET Admins, beside : SUBSET Versions]

RowTypeOK == settings \in Row /\ installed \in Versions /\ migrated \subseteq Versions
WebTypeOK == install \in Modes /\ running \in VersionOrNone
GitTypeOK ==
    /\ lock \in {"free", "corrupt", "fresh", "stale"} /\ status \in StatusRecord
    /\ tree \in Versions /\ built \in VersionOrNone
    /\ runner \in [Runners -> RunnerRecord]
FileTypeOK ==
    /\ tarball \in [Versions -> {"none", "part", "full"}]
    /\ partial \in [Versions -> {"none", "part", "full"}]
    /\ release \in [Versions -> {"none", "part", "full"}]
    /\ config \subseteq Versions /\ link \in Versions /\ disturbed \subseteq Versions
RequestTypeOK == at \in [Requests -> RequestPc] /\ flow \in [Requests -> FlowRecord]
TabTypeOK == tab \in [Admins -> Phases] /\ page \in [Admins -> [current : Versions, row : Row]]
BoundTypeOK == presses \in 0..MaxPresses /\ faults \in 0..MaxFaults

\* Who is at work works for a version: a runner, and a request.
RunnersAimed ==
    /\ \A r \in Runners : Live(r) => runner[r].target \in Versions
    /\ \A r \in Runners : Live(r) /\ runner[r].at \notin {"start", "reads"}
                             => runner[r].previous \in Versions
RequestsAimed ==
    /\ \A q \in Requests : Open(q) => flow[q].version \in Versions
    /\ \A q \in Requests : at[q] \in SwapPc \ {"locate"} => flow[q].before \in Versions
    /\ \A q \in Requests : at[q] \notin SwapPc \ {"locate"} => flow[q].before = NoVersion
Aimed == RunnersAimed /\ RequestsAimed

TypeInv ==
    /\ RowTypeOK /\ WebTypeOK /\ GitTypeOK /\ FileTypeOK
    /\ RequestTypeOK /\ TabTypeOK /\ BoundTypeOK
    /\ RunnersAimed /\ RequestsAimed

\* The names of the five steps, and the places where a runner or a request can be.
LEMMA Places ==
    /\ {UpdateSteps[i] : i \in 1..5} = {"download", "install", "migrate", "build", "restart"}
    /\ RunnerPc = {"off", "start", "reads", "finish", "building", "history",
                   "download", "install", "migrate", "build", "restart"}
<1>1. 1..5 = {1, 2, 3, 4, 5}
  OBVIOUS
<1>2. {UpdateSteps[i] : i \in 1..5} = {"download", "install", "migrate", "build", "restart"}
  BY <1>1 DEF UpdateSteps
<1> QED
  BY <1>2 DEF RunnerPc

\* The newest stable release is one of the releases.
LEMMA LatestIsListed == Latest.version \in Versions
  BY SelfUpdateAssumption DEF Latest, Versions, SelfUpdateAssumption, Stable

\* What a restart would boot is a version, or nothing.
LEMMA BootType == TypeInv => Boot \in VersionOrNone
  BY DEF TypeInv, GitTypeOK, FileTypeOK, Boot, VersionOrNone

\* The settings keep their type through a change of any of their fields.
LEMMA RowChanges ==
    ASSUME settings \in Row
    PROVE  /\ \A mode \in Modes, self \in BOOLEAN :
                 [settings EXCEPT !.mode = mode, !.self = self] \in Row
           /\ \A version \in VersionOrNone :
                 /\ [settings EXCEPT !.staged = version] \in Row
                 /\ [settings EXCEPT !.previous = version, !.staged = NoVersion] \in Row
<1>1. NoVersion \in VersionOrNone
  BY DEF VersionOrNone
<1> QED
  BY <1>1 DEF Row

\* What becomes of the requests and tabs when the web process stops.
LEMMA RequestsDieType ==
    ASSUME TabTypeOK, NEW asking, RequestsDie(asking)
    PROVE  /\ RequestTypeOK' /\ RequestsAimed'
           /\ tab' \in [Admins -> Phases]
           /\ \A q \in Requests : at'[q] = "idle" /\ flow'[q] = NoFlow
<1>1. NoFlow \in FlowRecord
  BY DEF NoFlow, FlowRecord, VersionOrNone
<1>2. at' = [q \in Requests |-> "idle"] /\ flow' = [q \in Requests |-> NoFlow]
  BY DEF RequestsDie
<1>3. tab' \in [Admins -> Phases]
  BY DEF RequestsDie, TabTypeOK, Phases
<1> QED
  BY <1>1, <1>2, <1>3 DEF RequestTypeOK, RequestPc, RequestsAimed, Open, NoFlow, SwapPc

\* A request that answers is over; the others go on.
LEMMA AnswersType ==
    ASSUME RequestTypeOK, RequestsAimed, TabTypeOK, NEW q \in Requests, NEW phase \in Phases,
           Answers(q, phase)
    PROVE  /\ RequestTypeOK' /\ RequestsAimed'
           /\ tab' \in [Admins -> Phases]
           /\ at'[q] = "idle" /\ flow'[q] = NoFlow
           /\ \A p \in Requests \ {q} : at'[p] = at[p] /\ flow'[p] = flow[p]
<1>1. NoFlow \in FlowRecord
  BY DEF NoFlow, FlowRecord, VersionOrNone
<1>2. at' = [at EXCEPT ![q] = "idle"] /\ flow' = [flow EXCEPT ![q] = NoFlow]
  BY DEF Answers
<1>3. tab' \in [Admins -> Phases]
  BY DEF Answers, TabTypeOK, Phases
<1>4. /\ at'[q] = "idle" /\ flow'[q] = NoFlow
      /\ \A p \in Requests \ {q} : at'[p] = at[p] /\ flow'[p] = flow[p]
  BY <1>2 DEF RequestTypeOK
<1> QED
  BY <1>1, <1>2, <1>3, <1>4 DEF RequestTypeOK, RequestPc, RequestsAimed, Open, NoFlow, SwapPc

\* A tab that turns away from its request leaves it as it is.
LEMMA LeavesType ==
    ASSUME RequestTypeOK, RequestsAimed, NEW a \in Admins, Leaves(a), UNCHANGED at
    PROVE  /\ RequestTypeOK' /\ RequestsAimed'
           /\ \A q \in Requests : /\ flow'[q].version = flow[q].version
                                  /\ flow'[q].before = flow[q].before
                                  /\ flow'[q].beside = flow[q].beside
<1>1. \A q \in Requests : flow'[q] = [flow[q] EXCEPT !.tab = @ \ {a}]
  BY DEF Leaves
<1>2. ASSUME NEW q \in Requests
      PROVE  /\ flow'[q] \in FlowRecord
             /\ flow'[q].version = flow[q].version /\ flow'[q].before = flow[q].before
             /\ flow'[q].beside = flow[q].beside
  <2>1. flow[q] \in FlowRecord /\ flow[q].tab \ {a} \in SUBSET Admins
    BY DEF RequestTypeOK, FlowRecord
  <2> QED
    BY <1>1, <2>1 DEF FlowRecord
<1>3. flow' \in [Requests -> FlowRecord]
  BY <1>2 DEF Leaves
<1> QED
  BY <1>2, <1>3 DEF RequestTypeOK, RequestsAimed, Open

\* A request that begins, and the others beside it.
LEMMA BeginsType ==
    ASSUME RequestTypeOK, RequestsAimed, TabTypeOK, NEW a \in Admins, NEW q \in Requests,
           NEW where \in {"download", "locate"}, NEW phase \in Phases, NEW version \in Versions,
           Begins(a, q, where, phase, version)
    PROVE  /\ RequestTypeOK' /\ RequestsAimed'
           /\ tab' \in [Admins -> Phases]
           /\ at[q] = "idle" /\ at' = [at EXCEPT ![q] = where]
           /\ flow'[q].version = version /\ flow'[q].before = NoVersion
           /\ \A p \in Requests : Open(p) => flow[p].version \in flow'[q].beside
           /\ \A v \in flow'[q].beside : \E p \in Requests : Open(p) /\ v = flow[p].version
           /\ \A p \in Requests \ {q} :
                 /\ flow'[p].version = flow[p].version /\ flow'[p].before = flow[p].before
                 /\ flow'[p].beside = IF Open(p) THEN flow[p].beside \cup {version}
                                      ELSE flow[p].beside
<1> DEFINE fresh == [version |-> version, before |-> NoVersion, tab |-> {a},
                     beside |-> {flow[o].version : o \in {p \in Requests : Open(p)}}]
<1>1. fresh \in FlowRecord
  <2>1. {flow[o].version : o \in {p \in Requests : Open(p)}} \in SUBSET Versions
    BY DEF RequestsAimed
  <2> QED
    BY <2>1 DEF FlowRecord, VersionOrNone
<1>2. at[q] = "idle" /\ at' = [at EXCEPT ![q] = where] /\ tab' = [tab EXCEPT ![a] = phase]
  BY DEF Begins, FreeRequest, Open
<1>3. flow'[q] = fresh
  BY DEF Begins
<1>4. ASSUME NEW p \in Requests \ {q}
      PROVE  /\ flow'[p] \in FlowRecord
             /\ flow'[p].version = flow[p].version /\ flow'[p].before = flow[p].before
             /\ flow'[p].beside = IF Open(p) THEN flow[p].beside \cup {version} ELSE flow[p].beside
  <2>1. flow'[p] = IF Open(p) THEN [flow[p] EXCEPT !.beside = @ \cup {version}] ELSE flow[p]
    BY DEF Begins
  <2> QED
    BY <2>1 DEF RequestTypeOK, FlowRecord
<1>5. flow' \in [Requests -> FlowRecord]
  <2>1. \A p \in Requests : flow'[p] \in FlowRecord
    BY <1>1, <1>3, <1>4
  <2> QED
    BY <2>1 DEF Begins
<1>6. RequestTypeOK'
  BY <1>2, <1>5 DEF RequestTypeOK, RequestPc, StagePc, SwapPc
<1>7. RequestsAimed'
  <2>1. /\ at'[q] = where /\ flow'[q].version = version /\ flow'[q].before = NoVersion
        /\ \A p \in Requests \ {q} : at'[p] = at[p]
    BY <1>2, <1>3 DEF RequestTypeOK
  <2>2. where \notin SwapPc \ {"locate"}
    BY DEF SwapPc
  <2>3. \A p \in Requests \ {q} : flow'[p].version = flow[p].version /\ flow'[p].before = flow[p].before
    BY <1>4
  <2> QED
    BY <2>1, <2>2, <2>3 DEF RequestsAimed, Open
<1>8. /\ \A p \in Requests : Open(p) => flow[p].version \in flow'[q].beside
      /\ \A v \in flow'[q].beside : \E p \in Requests : Open(p) /\ v = flow[p].version
  BY <1>3
<1>9. flow'[q].version = version /\ flow'[q].before = NoVersion /\ tab' \in [Admins -> Phases]
  BY <1>2, <1>3 DEF TabTypeOK
<1> HIDE DEF fresh
<1> QED
  BY <1>2, <1>4, <1>6, <1>7, <1>8, <1>9

\* A fresh install is well typed.
LEMMA TypeInit == Init => TypeInv
<1> SUFFICES ASSUME Init PROVE TypeInv
  OBVIOUS
<1> USE SelfUpdateAssumption DEF SelfUpdateAssumption
<1>1. First \in Versions /\ NoVersion \in VersionOrNone /\ First \in VersionOrNone
  BY DEF VersionOrNone
<1>2. settings \in Row
  BY <1>1 DEF Init, FreshSettings, Row
<1>3. RowTypeOK /\ WebTypeOK /\ BoundTypeOK
  BY <1>1, <1>2 DEF Init, RowTypeOK, WebTypeOK, BoundTypeOK
<1>4. GitTypeOK
  BY <1>1, Places DEF Init, GitTypeOK, Off, NoStatus, StatusRecord, RunnerRecord
<1>5. FileTypeOK
  BY <1>1 DEF Init, FileTypeOK
<1>6. RequestTypeOK /\ RequestsAimed
  BY <1>1 DEF Init, RequestTypeOK, RequestsAimed, Open, NoFlow, FlowRecord, RequestPc, SwapPc
<1>7. TabTypeOK
  BY <1>1, <1>2 DEF Init, TabTypeOK, Phases
<1>8. RunnersAimed
  BY DEF Init, RunnersAimed, Off, Live
<1> QED
  BY <1>3, <1>4, <1>5, <1>6, <1>7, <1>8 DEF TypeInv

\* The steps of a runner, and its death, keep the types.
LEMMA RunnerTypes ==
    ASSUME TypeInv, NEW r \in Runners, RunnerStep(r) \/ RunnerKilled(r)
    PROVE  TypeInv'
<1> USE DEF TypeInv
<1>1. RowTypeOK'
  <2>1. CASE RecordHistory(r)
    <3>1. runner[r].previous \in VersionOrNone /\ runner[r].target \in Versions
      BY <2>1 DEF RecordHistory, Step, RunnersAimed, Live, VersionOrNone
    <3> QED
      BY <2>1, <3>1, RowChanges DEF RecordHistory, Activation, RowTypeOK, Row
  <2>2. CASE Migrate(r)
    BY <2>2 DEF Migrate, OnlyRunner, RowTypeOK, GitTypeOK
  <2>3. CASE UNCHANGED rowVars
    BY <2>3 DEF rowVars, RowTypeOK
  <2> QED
    BY <2>1, <2>2, <2>3 DEF RunnerStep, RunnerKilled, RunnerStarts, RunnerReads, Checkout, Install, Migrate, Build, RecordHistory,
         RunnerRestarts, RunnerFinishes, RunnerFails, OnlyRunner, rowVars
<1>2. WebTypeOK'
  BY BootType DEF RunnerStep, RunnerKilled, RunnerStarts, RunnerReads, Checkout, Install, Migrate, Build, RecordHistory,
         RunnerRestarts, RunnerFinishes, RunnerFails, OnlyRunner, webVars, WebTypeOK
<1>3. FileTypeOK' /\ BoundTypeOK'
  BY SelfUpdateAssumption DEF RunnerStep, RunnerKilled, RunnerStarts, RunnerReads, Checkout, Install, Migrate, Build, RecordHistory,
         RunnerRestarts, RunnerFinishes, RunnerFails, OnlyRunner, fileVars, tabVars, FileTypeOK, BoundTypeOK, Fault,
         SelfUpdateAssumption
<1>4. RequestTypeOK' /\ TabTypeOK' /\ RequestsAimed'
  <2>1. CASE RunnerRestarts(r)
    BY <2>1, RequestsDieType DEF RunnerRestarts, TabTypeOK
  <2>2. CASE UNCHANGED <<requestVars, tabVars>>
    BY <2>2 DEF requestVars, tabVars, RequestTypeOK, TabTypeOK, RequestsAimed, Open
  <2> QED
    BY <2>1, <2>2 DEF RunnerStep, RunnerKilled, RunnerStarts, RunnerReads, Checkout, Install, Migrate, Build, RecordHistory,
         RunnerRestarts, RunnerFinishes, RunnerFails, OnlyRunner
<1>5. GitTypeOK'
  <2> USE Places DEF GitTypeOK, RunnerRecord
  <2>1. ASSUME NEW step \in {"none", "download", "install", "migrate", "build", "restart"},
               NEW state \in {"running", "done", "failed"}, Reports(r, step, state)
        PROVE  status' \in StatusRecord
    BY <2>1 DEF Reports, StatusRecord
  <2>2. CASE RunnerStarts(r)
    BY <2>1, <2>2 DEF RunnerStarts, Step, Track
  <2>3. CASE RunnerReads(r)
    <3>1. status' \in StatusRecord
      BY <2>1, <2>3 DEF RunnerReads, Track
    <3>2. "download" \in RunnerPc /\ tree \in VersionOrNone
      BY Places DEF VersionOrNone
    <3>3. [runner[r] EXCEPT !.at = "download", !.previous = tree] \in RunnerRecord
      BY <3>2
    <3>4. runner' = [runner EXCEPT ![r] = [runner[r] EXCEPT !.at = "download", !.previous = tree]]
      BY <2>3 DEF RunnerReads
    <3> QED
      BY <2>3, <3>1, <3>3, <3>4 DEF RunnerReads
  <2>4. CASE Checkout(r)
    BY <2>1, <2>4 DEF Checkout, Step, Track, RunnersAimed, Live
  <2>5. CASE Install(r)
    BY <2>1, <2>5 DEF Install, Step, Track
  <2>6. CASE Migrate(r)
    BY <2>1, <2>6 DEF Migrate, Step, Track, VersionOrNone
  <2>7. CASE Build(r)
    BY <2>7 DEF Build, Step, VersionOrNone
  <2>8. CASE RecordHistory(r)
    BY <2>1, <2>8 DEF RecordHistory, Step, Track
  <2>9. CASE RunnerRestarts(r)
    BY <2>9 DEF RunnerRestarts, Step
  <2>10. CASE RunnerFinishes(r)
    BY <2>1, <2>10 DEF RunnerFinishes, Step, Release
  <2>11. CASE RunnerFails(r)
    <3>1. Tracked(r) \in {"none", "download", "install", "migrate", "build", "restart"}
      BY <2>11 DEF RunnerFails, Live, Tracked
    <3> QED
      BY <2>1, <2>11, <3>1 DEF RunnerFails, Off, Release, VersionOrNone
  <2>12. CASE RunnerKilled(r)
    BY <2>12 DEF RunnerKilled, Off, VersionOrNone
  <2> QED
    BY <2>2, <2>3, <2>4, <2>5, <2>6, <2>7, <2>8, <2>9, <2>10, <2>11, <2>12 DEF RunnerStep
<1>6. RunnersAimed'
  BY Places DEF RunnerStep, RunnerKilled, RunnerStarts, RunnerReads, Checkout, Install, Migrate, Build, RecordHistory,
         RunnerRestarts, RunnerFinishes, RunnerFails, GitTypeOK, Step, Off, RunnerRecord, RunnersAimed, Live
<1> QED
  BY <1>1, <1>2, <1>3, <1>4, <1>5, <1>6

\* What a request does, and a tab over it, leaves the update in place alone.
LEMMA RequestsLeaveGitAlone ==
    ASSUME \/ \E q \in Requests : RequestStep(q)
           \/ \E a \in Admins, q \in Requests : StageBegins(a, q) \/ Activate(a, q) \/ Rollback(a, q)
           \/ \E a \in Admins : ViewStatus(a) \/ AnswerLost(a) \/ WaitEnds(a)
           \/ SaveSettings \/ Reboot
    PROVE  UNCHANGED gitVars
<1>1. ASSUME NEW q \in Requests, Stage(q)
      PROVE  UNCHANGED gitVars
  BY <1>1 DEF Stage, Download, VerifyChecksum, ClearPartial, Extract, RemoveOld, RenamePartial,
         CarryEnvFile, BackupDb, RunMigrations, MarkStaged, OnlyFiles
<1>2. ASSUME NEW q \in Requests, SwapAndRestart(q) \/ RequestFails(q)
      PROVE  UNCHANGED gitVars
  BY <1>2 DEF SwapAndRestart, Locate, SwapSymlink, RecordActivation, Restart, RequestFails, OnlyFiles
<1>3. ASSUME NEW a \in Admins, NEW q \in Requests, StageBegins(a, q) \/ Activate(a, q) \/ Rollback(a, q)
      PROVE  UNCHANGED gitVars
  BY <1>3 DEF StageBegins, Activate, Rollback
<1>4. ASSUME NEW a \in Admins, ViewStatus(a) \/ AnswerLost(a) \/ WaitEnds(a)
      PROVE  UNCHANGED gitVars
  BY <1>4 DEF ViewStatus, AnswerLost, WaitEnds
<1>5. ASSUME SaveSettings \/ Reboot PROVE UNCHANGED gitVars
  BY <1>5 DEF SaveSettings, Reboot
<1> QED
  BY <1>1, <1>2, <1>3, <1>4, <1>5 DEF RequestStep

\* With the update in place left alone, its types are.
LEMMA GitTypesStay ==
    ASSUME GitTypeOK, RunnersAimed, UNCHANGED gitVars
    PROVE  GitTypeOK' /\ RunnersAimed'
  BY DEF gitVars, GitTypeOK, RunnersAimed, Live

\* The steps of stage() keep the types.
LEMMA StageTypes ==
    ASSUME TypeInv, NEW q \in Requests, Stage(q)
    PROVE  TypeInv'
<1> USE DEF TypeInv
<1>1. at[q] \in StagePc /\ flow[q].version \in Versions
  <2>1. at[q] \in StagePc
    BY DEF Stage, Download, VerifyChecksum, ClearPartial, Extract, RemoveOld, RenamePartial,
         CarryEnvFile, BackupDb, RunMigrations, MarkStaged, Goes, StagePc
  <2> QED
    BY <2>1 DEF RequestsAimed, Open, StagePc
<1>2. RowTypeOK'
  <2>1. CASE MarkStaged(q)
    <3>1. flow[q].version \in VersionOrNone
      BY <1>1 DEF VersionOrNone
    <3> QED
      BY <2>1, <3>1, RowChanges DEF MarkStaged, SetStagedVersion, RowTypeOK
  <2>2. CASE RunMigrations(q)
    BY <1>1, <2>2 DEF RunMigrations, RowTypeOK
  <2> QED
    BY <2>1, <2>2 DEF Stage, Download, VerifyChecksum, ClearPartial, Extract, RemoveOld, RenamePartial,
         CarryEnvFile, BackupDb, RunMigrations, MarkStaged, OnlyFiles, rowVars, RowTypeOK
<1>3. WebTypeOK' /\ BoundTypeOK'
  BY DEF Stage, Download, VerifyChecksum, ClearPartial, Extract, RemoveOld, RenamePartial,
         CarryEnvFile, BackupDb, RunMigrations, MarkStaged, OnlyFiles, webVars, tabVars, WebTypeOK, BoundTypeOK
<1>4. GitTypeOK' /\ RunnersAimed'
  BY RequestsLeaveGitAlone, GitTypesStay DEF RequestStep
<1>5. FileTypeOK'
  <2>1. \A v \in Left(q) : v \in {"none", "part", "full"}
    BY DEF Left
  <2> QED
    BY <1>1, <2>1 DEF Stage, Download, VerifyChecksum, ClearPartial, Extract, RemoveOld, RenamePartial,
         CarryEnvFile, BackupDb, RunMigrations, MarkStaged, fileVars, FileTypeOK
<1>6. RequestTypeOK' /\ RequestsAimed' /\ TabTypeOK'
  <2>1. CASE MarkStaged(q)
    BY <2>1, AnswersType DEF MarkStaged, TabTypeOK, Phases
  <2>2. ASSUME NEW pc \in StagePc, UNCHANGED <<flow, tabVars>>, at' = [at EXCEPT ![q] = pc]
        PROVE  RequestTypeOK' /\ RequestsAimed' /\ TabTypeOK'
    BY <1>1, <2>2 DEF RequestTypeOK, RequestPc, RequestsAimed, Open, StagePc, SwapPc, TabTypeOK, tabVars
  <2>3. CASE ~MarkStaged(q)
    BY <2>2, <2>3 DEF Stage, Download, VerifyChecksum, ClearPartial, Extract, RemoveOld, RenamePartial,
         CarryEnvFile, BackupDb, RunMigrations, MarkStaged, OnlyFiles, Goes, StagePc
  <2> QED
    BY <2>1, <2>3
<1> QED
  BY <1>2, <1>3, <1>4, <1>5, <1>6

\* The steps of an activation, and a request that fails, keep the types.
LEMMA SwapTypes ==
    ASSUME TypeInv, NEW q \in Requests, SwapAndRestart(q) \/ RequestFails(q)
    PROVE  TypeInv'
<1> USE DEF TypeInv
<1>1. RowTypeOK'
  <2>1. CASE RecordActivation(q)
    <3>1. flow[q].version \in Versions /\ flow[q].before \in VersionOrNone
      BY <2>1 DEF RecordActivation, Goes, RequestsAimed, Open, SwapPc, VersionOrNone
    <3> QED
      BY <2>1, <3>1, RowChanges DEF RecordActivation, Activation, RowTypeOK
  <2>2. CASE UNCHANGED rowVars
    BY <2>2 DEF rowVars, RowTypeOK
  <2> QED
    BY <2>1, <2>2 DEF SwapAndRestart, Locate, SwapSymlink, Restart, RequestFails, OnlyFiles
<1>2. WebTypeOK'
  BY BootType DEF SwapAndRestart, Locate, SwapSymlink, RecordActivation, Restart, RequestFails,
         OnlyFiles, webVars, WebTypeOK
<1>3. BoundTypeOK'
  BY SelfUpdateAssumption DEF SwapAndRestart, Locate, SwapSymlink, RecordActivation, Restart,
         RequestFails, OnlyFiles, Fault, tabVars, BoundTypeOK, SelfUpdateAssumption
<1>4. GitTypeOK' /\ RunnersAimed'
  BY RequestsLeaveGitAlone, GitTypesStay DEF RequestStep
<1>5. FileTypeOK'
  BY DEF SwapAndRestart, Locate, SwapSymlink, RecordActivation, Restart, RequestFails, OnlyFiles,
         Goes, fileVars, FileTypeOK, RequestsAimed, Open
<1>6. RequestTypeOK' /\ RequestsAimed' /\ TabTypeOK'
  <2>1. CASE Locate(q) /\ release[flow[q].version] # "none"
    <3>1. /\ at[q] = "locate" /\ at' = [at EXCEPT ![q] = "swap"]
          /\ flow' = [flow EXCEPT ![q].before = link] /\ UNCHANGED <<tab, page>>
      BY <2>1 DEF Locate, Goes
    <3>2. link \in Versions /\ link \in VersionOrNone
      BY DEF FileTypeOK, VersionOrNone
    <3> QED
      BY <3>1, <3>2 DEF RequestTypeOK, RequestPc, SwapPc, FlowRecord, RequestsAimed, Open, TabTypeOK
  <2>2. CASE RequestFails(q) \/ (Locate(q) /\ release[flow[q].version] = "none")
    BY <2>2, AnswersType DEF Locate, RequestFails, TabTypeOK, Phases
  <2>3. CASE SwapSymlink(q) \/ RecordActivation(q)
    BY <2>3 DEF SwapSymlink, RecordActivation, Goes, OnlyFiles, tabVars, TabTypeOK, RequestTypeOK,
         RequestPc, SwapPc, RequestsAimed, Open
  <2>4. CASE Restart(q)
    BY <2>4, RequestsDieType DEF Restart, TabTypeOK
  <2> QED
    BY <2>1, <2>2, <2>3, <2>4 DEF SwapAndRestart
<1> QED
  BY <1>1, <1>2, <1>3, <1>4, <1>5, <1>6

\* A runner is started with the version it is for.
LEMMA LaunchTypes ==
    ASSUME TypeInv, NEW a \in Admins, NEW r \in Runners, NEW kind \in {"update", "rollback"},
           NEW version \in Versions, LaunchGit(a, r, kind, version)
    PROVE  TypeInv'
<1> USE DEF TypeInv
<1>1. version \in VersionOrNone /\ NoVersion \in VersionOrNone
  BY DEF VersionOrNone
<1>2. RowTypeOK' /\ FileTypeOK'
  BY DEF LaunchGit, rowVars, fileVars, RowTypeOK, FileTypeOK
<1>3. WebTypeOK' /\ BoundTypeOK'
  BY BootType, SelfUpdateAssumption
  DEF LaunchGit, Fault, Press, WebTypeOK, BoundTypeOK, SelfUpdateAssumption
<1>4. GitTypeOK'
  <2>1. [Off EXCEPT !.at = "start", !.kind = kind, !.target = version] \in RunnerRecord
    BY <1>1, Places DEF Off, RunnerRecord
  <2>2. runner' \in [Runners -> RunnerRecord]
    BY <2>1 DEF LaunchGit, Spawn, GitTypeOK
  <2>3. lock' \in {"free", "corrupt", "fresh", "stale"}
    BY DEF LaunchGit, Release
  <2> QED
    BY <2>2, <2>3 DEF LaunchGit, GitTypeOK
<1>5. RequestTypeOK' /\ RequestsAimed' /\ TabTypeOK'
  <2>1. CASE UNCHANGED requestVars
    <3>1. tab' \in [Admins -> Phases]
      BY <2>1, RequestsDieType DEF LaunchGit, TabTypeOK, Phases
    <3> QED
      BY <2>1, <3>1 DEF LaunchGit, requestVars, RequestTypeOK, RequestsAimed, Open, TabTypeOK
  <2>2. CASE RequestsDie({a})
    BY <2>2, RequestsDieType DEF LaunchGit, TabTypeOK
  <2> QED
    BY <2>1, <2>2 DEF LaunchGit
<1>6. RunnersAimed'
  BY DEF LaunchGit, Spawn, Off, GitTypeOK, RunnersAimed, Live
<1> QED
  BY <1>2, <1>3, <1>4, <1>5, <1>6

\* A request over bundles begins with a listed version.
LEMMA BeginTypes ==
    ASSUME TypeInv, NEW a \in Admins, NEW q \in Requests,
           StageBegins(a, q) \/ Activate(a, q) \/ Rollback(a, q)
    PROVE  TypeInv'
<1> USE DEF TypeInv
<1>1. PICK where \in {"download", "locate"}, phase \in Phases, version \in Versions :
           Begins(a, q, where, phase, version)
  <2>1. CASE StageBegins(a, q)
    <3>1. PICK r \in Stable(Releases) : Begins(a, q, "download", "staging", r.version)
      BY <2>1 DEF StageBegins
    <3> QED
      BY <3>1 DEF Stable, Versions, Phases
  <2>2. CASE Activate(a, q)
    BY <2>2 DEF Activate, RowTypeOK, Row, VersionOrNone, Phases
  <2>3. CASE Rollback(a, q)
    BY <2>3 DEF Rollback, TabTypeOK, Row, VersionOrNone, Phases
  <2> QED
    BY <2>1, <2>2, <2>3
<1>2. RequestTypeOK' /\ RequestsAimed' /\ TabTypeOK'
  <2>1. UNCHANGED page
    BY DEF StageBegins, Activate, Rollback
  <2> QED
    BY <1>1, <2>1, BeginsType DEF TabTypeOK
<1>3. RowTypeOK' /\ WebTypeOK' /\ BoundTypeOK'
  BY <1>1, SelfUpdateAssumption DEF StageBegins, Activate, Rollback, Begins, Press, rowVars, webVars,
         RowTypeOK, WebTypeOK, BoundTypeOK, SelfUpdateAssumption
<1>4. GitTypeOK' /\ RunnersAimed'
  BY RequestsLeaveGitAlone, GitTypesStay
<1>5. FileTypeOK'
  <2>1. CASE StageBegins(a, q)
    <3>1. PICK r \in Stable(Releases) :
             /\ tarball' = [tarball EXCEPT ![r.version] = "part"]
             /\ disturbed' \in {disturbed \cup {r.version}, disturbed \ {r.version}}
      BY <2>1 DEF StageBegins
    <3>2. r.version \in Versions
      BY DEF Stable, Versions
    <3> QED
      BY <2>1, <3>1, <3>2 DEF StageBegins, FileTypeOK
  <2>2. CASE Activate(a, q) \/ Rollback(a, q)
    BY <2>2 DEF Activate, Rollback, fileVars, FileTypeOK
  <2> QED
    BY <2>1, <2>2
<1> QED
  BY <1>2, <1>3, <1>4, <1>5

\* The page, the settings, the clock and a reboot keep the types.
LEMMA OtherTypes ==
    ASSUME TypeInv,
           \/ SaveSettings \/ LockAges \/ Reboot
           \/ \E a \in Admins : ViewStatus(a) \/ AnswerLost(a) \/ WaitEnds(a)
    PROVE  TypeInv'
<1> USE DEF TypeInv
<1>1. RowTypeOK' /\ WebTypeOK' /\ FileTypeOK'
  <2>1. CASE SaveSettings
    <3>1. settings' \in Row
      BY <2>1, RowChanges DEF SaveSettings, SaveRow, RowTypeOK
    <3> QED
      BY <2>1, <3>1 DEF SaveSettings, webVars, fileVars, RowTypeOK, WebTypeOK, FileTypeOK
  <2>2. CASE LockAges \/ Reboot \/ \E a \in Admins : AnswerLost(a) \/ WaitEnds(a)
    BY <2>2, BootType DEF LockAges, Reboot, AnswerLost, WaitEnds, rowVars, webVars, fileVars,
         RowTypeOK, WebTypeOK, FileTypeOK
  <2>3. CASE \E a \in Admins : ViewStatus(a)
    BY <2>3 DEF ViewStatus, RecordVersionIfNew, webVars, fileVars, RowTypeOK, WebTypeOK, FileTypeOK,
         VersionOrNone
  <2> QED
    BY <2>1, <2>2, <2>3
<1>2. BoundTypeOK'
  BY SelfUpdateAssumption DEF SaveSettings, LockAges, Reboot, ViewStatus, AnswerLost, WaitEnds,
         Fault, Press, tabVars, BoundTypeOK, SelfUpdateAssumption
<1>3. GitTypeOK' /\ RunnersAimed'
  <2>1. CASE LockAges
    BY <2>1 DEF LockAges, GitTypeOK, RunnersAimed, Live
  <2> QED
    BY <2>1, RequestsLeaveGitAlone, GitTypesStay
<1>4. RequestTypeOK' /\ RequestsAimed' /\ TabTypeOK'
  <2>1. CASE Reboot
    BY <2>1, RequestsDieType DEF Reboot, TabTypeOK
  <2>2. CASE SaveSettings \/ LockAges
    BY <2>2 DEF SaveSettings, LockAges, requestVars, tabVars, RequestTypeOK, RequestsAimed, Open,
         TabTypeOK
  <2>3. ASSUME NEW a \in Admins, ViewStatus(a)
        PROVE  RequestTypeOK' /\ RequestsAimed' /\ TabTypeOK'
    <3>1. RequestTypeOK' /\ RequestsAimed'
      BY <2>3, LeavesType DEF ViewStatus
    <3>2. [current |-> running, row |-> settings] \in [current : Versions, row : Row]
      BY <2>3 DEF ViewStatus, WebTypeOK, RowTypeOK, VersionOrNone
    <3> QED
      BY <2>3, <3>1, <3>2 DEF ViewStatus, TabTypeOK, Phases
  <2>4. ASSUME NEW a \in Admins, AnswerLost(a)
        PROVE  RequestTypeOK' /\ RequestsAimed' /\ TabTypeOK'
    <3>1. RequestTypeOK' /\ RequestsAimed'
      BY <2>4, LeavesType DEF AnswerLost
    <3> QED
      BY <2>4, <3>1 DEF AnswerLost, TabTypeOK, Phases
  <2>5. ASSUME NEW a \in Admins, WaitEnds(a)
        PROVE  RequestTypeOK' /\ RequestsAimed' /\ TabTypeOK'
    BY <2>5 DEF WaitEnds, requestVars, RequestTypeOK, RequestsAimed, Open, TabTypeOK, Phases
  <2> QED
    BY <2>1, <2>2, <2>3, <2>4, <2>5
<1> QED
  BY <1>1, <1>2, <1>3, <1>4

\* A runner is launched for a listed version.
LEMMA LaunchIsListed ==
    ASSUME TypeInv, NEW a \in Admins, NEW r \in Runners, GitUpdate(a, r) \/ GitRollback(a, r)
    PROVE  \E kind \in {"update", "rollback"}, version \in Versions : LaunchGit(a, r, kind, version)
<1>1. CASE GitUpdate(a, r)
  BY <1>1, LatestIsListed DEF GitUpdate
<1>2. CASE GitRollback(a, r)
  <2>1. page[a].row.previous \in Versions
    BY <1>2 DEF GitRollback, TypeInv, TabTypeOK, Row, VersionOrNone
  <2> QED
    BY <1>2, <2>1 DEF GitRollback
<1> QED
  BY <1>1, <1>2

\* Every step keeps the types: one lemma per kind of step.
LEMMA TypeStep == TypeInv /\ [Next]_vars => TypeInv'
<1> SUFFICES ASSUME TypeInv, [Next]_vars PROVE TypeInv'
  OBVIOUS
<1>1. ASSUME NEW a \in Admins, NEW r \in Runners, GitUpdate(a, r) \/ GitRollback(a, r)
      PROVE  TypeInv'
  BY <1>1, LaunchIsListed, LaunchTypes
<1>2. CASE UNCHANGED vars
  BY <1>2 DEF vars, rowVars, webVars, gitVars, fileVars, requestVars, tabVars, TypeInv, RowTypeOK,
         WebTypeOK, GitTypeOK, FileTypeOK, RequestTypeOK, TabTypeOK, BoundTypeOK, RunnersAimed,
         RequestsAimed, Live, Open
<1> QED
  BY <1>1, <1>2, RunnerTypes, StageTypes, SwapTypes, BeginTypes, OtherTypes DEF Next, RequestStep

\* The state always has its types, and whoever is at work works for a version
\* that is listed, with a version before it to go back to.
THEOREM TypeCorrect == Spec => [](SelfUpdateTypeOK /\ Aimed)
<1>1. TypeInv => SelfUpdateTypeOK /\ Aimed
  BY DEF TypeInv, RowTypeOK, WebTypeOK, GitTypeOK, FileTypeOK, RequestTypeOK, TabTypeOK, BoundTypeOK,
         RunnerRecord, StatusRecord, FlowRecord, SelfUpdateTypeOK, Aimed
<1> QED
  BY <1>1, TypeInit, TypeStep, PTL DEF Spec

-----------------------------------------------------------------------------
(* The lock.                                                               *)

\* Who runs holds a lock that is not old, so that nobody else is let in.
LockInv == OneRunner /\ \A r \in Runners : Live(r) => lock = "fresh"

\* Every step keeps the lock of a live runner fresh, and so the runner alone.
LEMMA LockStep ==
    ASSUME RunsWithinTTL, TypeInv, LockInv, [Next]_vars
    PROVE  LockInv'
<1> USE DEF LockInv, OneRunner, Live, TypeInv, GitTypeOK
<1>1. ASSUME NEW a \in Admins, NEW r \in Runners, GitUpdate(a, r) \/ GitRollback(a, r)
      PROVE  LockInv'
  BY <1>1 DEF GitUpdate, GitRollback, LaunchGit, Acquirable, FreeRunner, Spawn, Off, Release
<1>2. ASSUME NEW r \in Runners, RunnerStep(r) \/ RunnerKilled(r)
      PROVE  LockInv'
  <2>1. CASE RunnerStarts(r) \/ RunnerReads(r)
    BY <2>1 DEF RunnerStarts, RunnerReads, Step
  <2>4. CASE Checkout(r) \/ Install(r)
    BY <2>4 DEF Checkout, Install, Step
  <2>5. CASE Migrate(r) \/ Build(r)
    BY <2>5 DEF Migrate, Build, Step
  <2>2. CASE RecordHistory(r) \/ RunnerRestarts(r)
    BY <2>2 DEF RecordHistory, RunnerRestarts, Step
  <2>3. CASE RunnerFinishes(r) \/ RunnerFails(r) \/ RunnerKilled(r)
    <3>1. Live(r)
      BY <2>3 DEF RunnerFinishes, RunnerFails, RunnerKilled, Step
    <3>2. runner'[r].at = "off" /\ \A s \in Runners \ {r} : runner'[s] = runner[s]
      <4>1. CASE RunnerFinishes(r)
        BY <4>1 DEF RunnerFinishes, Step
      <4>2. CASE RunnerFails(r) \/ RunnerKilled(r)
        BY <4>2 DEF RunnerFails, RunnerKilled, Off
      <4> QED
        BY <2>3, <4>1, <4>2
    <3> QED
      BY <3>1, <3>2
  <2> QED
    BY <1>2, <2>1, <2>2, <2>3, <2>4, <2>5 DEF RunnerStep
<1>3. CASE LockAges
  BY <1>3 DEF LockAges
<1>4. CASE UNCHANGED gitVars
  BY <1>4 DEF gitVars
<1>5. CASE UNCHANGED vars
  BY <1>4, <1>5 DEF vars
<1> QED
  BY <1>1, <1>2, <1>3, <1>4, <1>5, RequestsLeaveGitAlone DEF Next

\* At the start there is no runner.
LEMMA LockInit == Init => LockInv
  BY DEF Init, LockInv, OneRunner, Live, Off

\* Two runners never work on the checkout at once, however many are killed and
\* whenever a lock is let go or taken over, as long as none outlives its lock.
THEOREM RunnersNeverMeet ==
    ASSUME RunsWithinTTL
    PROVE  Spec => []OneRunner
<1>1. LockInv => OneRunner
  BY DEF LockInv
<1>2. TypeInv /\ LockInv /\ [Next]_vars => LockInv'
  BY LockStep
<1> QED
  BY <1>1, <1>2, LockInit, TypeInit, TypeStep, PTL DEF Spec

-----------------------------------------------------------------------------
(* How the panel is installed.                                             *)

\* A checkout has no requests over releases and nothing staged, a release no runner.
OneWay ==
    /\ install = "git" => settings.staged = NoVersion /\ \A q \in Requests : ~Open(q)
    /\ install = "aapanel" => \A r \in Runners : ~Live(r)

\* At the start there is neither a request nor a runner.
LEMMA OneWayInit == Init => OneWay
  BY DEF Init, OneWay, FreshSettings, Open, Live, Off

\* How the panel is installed stays, and what is migrated and what was active before
\* is not forgotten.
LEMMA RowsGrow ==
    ASSUME TypeInv, [Next]_vars
    PROVE  /\ install' = install
           /\ migrated \subseteq migrated'
           /\ settings.previous # NoVersion => settings'.previous # NoVersion
<1> DEFINE Grow == /\ install' = install /\ migrated \subseteq migrated'
                   /\ settings.previous # NoVersion => settings'.previous # NoVersion
<1> USE SelfUpdateAssumption DEF SelfUpdateAssumption
<1>0. settings \in Row
  BY DEF TypeInv, RowTypeOK
<1>1. CASE UNCHANGED <<install, settings, migrated>>
  BY <1>1
<1>2. ASSUME NEW r \in Runners, RunnerStep(r) \/ RunnerKilled(r)
      PROVE  Grow
  <2>1. CASE Migrate(r)
    BY <2>1 DEF Migrate, OnlyRunner
  <2>2. CASE RecordHistory(r)
    <3>1. runner[r].previous \in Versions
      BY <2>2 DEF RecordHistory, Step, TypeInv, RunnersAimed, Live
    <3> QED
      BY <1>0, <2>2, <3>1 DEF RecordHistory, Activation, Row, webVars
  <2> QED
    BY <1>1, <1>2, <2>1, <2>2
    DEF RunnerStep, RunnerKilled, RunnerStarts, RunnerReads, Checkout, Install, Migrate, Build, RecordHistory,
         RunnerRestarts, RunnerFinishes, RunnerFails, OnlyRunner, rowVars
<1>3. ASSUME NEW q \in Requests, RequestStep(q)
      PROVE  Grow
  <2>1. CASE RunMigrations(q)
    BY <2>1 DEF RunMigrations, webVars
  <2>2. CASE MarkStaged(q)
    BY <1>0, <2>2 DEF MarkStaged, SetStagedVersion, Row, webVars
  <2>3. CASE RecordActivation(q)
    <3>1. flow[q].before \in Versions
      BY <2>3 DEF RecordActivation, Goes, TypeInv, RequestsAimed, SwapPc
    <3> QED
      BY <1>0, <2>3, <3>1 DEF RecordActivation, Activation, Row, webVars
  <2>4. CASE Stage(q) /\ ~RunMigrations(q) /\ ~MarkStaged(q)
    BY <1>1, <2>4 DEF Stage, Download, VerifyChecksum, ClearPartial, Extract, RemoveOld, RenamePartial,
         CarryEnvFile, BackupDb, RunMigrations, MarkStaged, OnlyFiles, rowVars, webVars
  <2>5. CASE RequestFails(q) \/ Locate(q) \/ SwapSymlink(q) \/ Restart(q)
    BY <1>1, <2>5 DEF RequestFails, Locate, SwapSymlink, Restart, OnlyFiles, rowVars, webVars
  <2> QED
    BY <1>3, <2>1, <2>2, <2>3, <2>4, <2>5 DEF RequestStep, SwapAndRestart
<1>4. ASSUME NEW a \in Admins, NEW r \in Runners, GitUpdate(a, r) \/ GitRollback(a, r)
      PROVE  Grow
  BY <1>1, <1>4 DEF GitUpdate, GitRollback, LaunchGit, rowVars
<1>5. ASSUME NEW a \in Admins, NEW q \in Requests, StageBegins(a, q) \/ Activate(a, q) \/ Rollback(a, q)
      PROVE  Grow
  BY <1>1, <1>5 DEF StageBegins, Activate, Rollback, rowVars, webVars
<1>6. CASE LockAges \/ Reboot \/ UNCHANGED vars
  BY <1>1, <1>6 DEF LockAges, Reboot, vars, rowVars, webVars
<1>7. CASE SaveSettings
  BY <1>0, <1>7 DEF SaveSettings, SaveRow, Row, webVars
<1>8. ASSUME NEW a \in Admins, ViewStatus(a) \/ AnswerLost(a) \/ WaitEnds(a)
      PROVE  Grow
  BY <1>1, <1>8 DEF ViewStatus, AnswerLost, WaitEnds, rowVars, webVars
<1> QED
  BY <1>2, <1>3, <1>4, <1>5, <1>6, <1>7, <1>8 DEF Next

\* No step starts a runner of a release or stages in a checkout.
LEMMA OneWayStep ==
    ASSUME TypeInv, OneWay, [Next]_vars
    PROVE  OneWay'
<1>1. install' = install
  BY RowsGrow
<1>0. settings \in Row
  BY DEF TypeInv, RowTypeOK
<1>2. ASSUME NEW r \in Runners, RunnerStep(r) \/ RunnerKilled(r)
      PROVE  OneWay'
  <2>1. install # "aapanel"
    BY <1>2 DEF OneWay, Live, RunnerStep, RunnerKilled, RunnerStarts, RunnerReads, Checkout, Install, Migrate, Build, RecordHistory,
         RunnerRestarts, RunnerFinishes, RunnerFails, Step
  <2>2. CASE RecordHistory(r)
    <3>1. settings'.staged = NoVersion
      BY <1>0, <2>2 DEF RecordHistory, Activation, Row
    <3> QED
      BY <1>1, <2>1, <2>2, <3>1 DEF RecordHistory, OneWay, requestVars, Open
  <2>3. CASE RunnerRestarts(r)
    <3>1. \A q \in Requests : at'[q] = "idle"
      BY <2>3, RequestsDieType DEF RunnerRestarts, TypeInv
    <3> QED
      BY <1>1, <2>1, <2>3, <3>1 DEF RunnerRestarts, rowVars, OneWay, Open
  <2>4. CASE UNCHANGED <<settings, at>>
    BY <1>1, <2>1, <2>4 DEF OneWay, Open
  <2> QED
    BY <1>2, <2>2, <2>3, <2>4 DEF RunnerStep, RunnerKilled, RunnerStarts, RunnerReads, Checkout, Install, Migrate, Build, RecordHistory,
         RunnerRestarts, RunnerFinishes, RunnerFails, OnlyRunner, requestVars
<1>3. ASSUME NEW q \in Requests, RequestStep(q)
      PROVE  OneWay'
  <2>1. Open(q)
    BY <1>3 DEF RequestStep, Stage, SwapAndRestart, Locate, SwapSymlink, RecordActivation, Restart,
         RequestFails, Download, VerifyChecksum, ClearPartial, Extract, RemoveOld, RenamePartial,
         CarryEnvFile, BackupDb, RunMigrations, MarkStaged, Goes, Open
  <2>2. install # "git"
    BY <2>1 DEF OneWay
  <2>3. UNCHANGED gitVars
    BY <1>3, RequestsLeaveGitAlone
  <2> QED
    BY <1>1, <2>2, <2>3 DEF OneWay, gitVars, Live
<1>4. ASSUME NEW a \in Admins, NEW r \in Runners, GitUpdate(a, r) \/ GitRollback(a, r)
      PROVE  OneWay'
  <2>1. install = "git" /\ install # "aapanel"
    BY <1>4 DEF GitUpdate, GitRollback, Offered
  <2>2. UNCHANGED requestVars \/ RequestsDie({a})
    BY <1>4 DEF GitUpdate, GitRollback, LaunchGit
  <2>3. \A q \in Requests : ~Open(q)'
    BY <2>1, <2>2, RequestsDieType DEF TypeInv, requestVars, OneWay, Open
  <2>4. UNCHANGED settings
    BY <1>4 DEF GitUpdate, GitRollback, LaunchGit, rowVars
  <2> QED
    BY <1>1, <2>1, <2>3, <2>4 DEF OneWay
<1>5. ASSUME NEW a \in Admins, NEW q \in Requests, StageBegins(a, q) \/ Activate(a, q) \/ Rollback(a, q)
      PROVE  OneWay'
  <2>1. install # "git"
    BY <1>5 DEF StageBegins, Activate, Rollback, Offered
  <2>2. UNCHANGED gitVars
    BY <1>5, RequestsLeaveGitAlone
  <2> QED
    BY <1>1, <2>1, <2>2 DEF OneWay, gitVars, Live
<1>6. CASE LockAges \/ UNCHANGED vars \/ \E a \in Admins : ViewStatus(a) \/ AnswerLost(a) \/ WaitEnds(a)
  BY <1>1, <1>6 DEF LockAges, ViewStatus, AnswerLost, WaitEnds, vars, rowVars, gitVars, requestVars,
         OneWay, Open, Live
<1>7. CASE SaveSettings
  BY <1>0, <1>1, <1>7 DEF SaveSettings, SaveRow, gitVars, requestVars, OneWay, Open, Live, Row
<1>8. CASE Reboot
  <2>1. \A q \in Requests : at'[q] = "idle"
    BY <1>8, RequestsDieType DEF Reboot, TypeInv
  <2> QED
    BY <1>1, <1>8, <2>1 DEF Reboot, rowVars, gitVars, OneWay, Open, Live
<1> QED
  BY <1>2, <1>3, <1>4, <1>5, <1>6, <1>7, <1>8 DEF Next

-----------------------------------------------------------------------------
(* The checklist of an update in place.                                    *)

\* What each place in the pipeline has behind it.
Reached(r) ==
    LET pc == runner[r].at  target == runner[r].target
    IN  /\ pc \notin {"off", "start"} => status.target = target
        /\ pc # "build"
        /\ pc \in {"install", "migrate", "building", "history", "restart", "finish"} => tree = target
        /\ pc \in {"building", "history", "restart", "finish"} => target \in migrated
        /\ pc \in {"history", "restart", "finish"} => built = target
        /\ pc \in {"restart", "finish"} => settings.previous # NoVersion
        /\ pc = "finish" => running = target

\* What the status file says, of an update under way, failed, killed or done.
StatusTrue ==
    /\ status.state = "done" => install = "git" /\ running = status.target
    /\ status.state = "done" \/ status.current \in {"build", "restart"} => status.target \in migrated
    /\ status.state = "done" \/ status.current = "restart"
          => tree = status.target /\ built = status.target

CheckInv == StatusTrue /\ \A r \in Runners : Reached(r)

\* A tick on the page says that the status has gone past that step.
LEMMA ChecklistMeaning ==
    ASSUME status \in StatusRecord
    PROVE  /\ Checklist(3) = "done" => status.state = "done" \/ status.current \in {"build", "restart"}
           /\ Checklist(4) = "done" => status.state = "done" \/ status.current = "restart"
           /\ Checklist(5) = "done" => status.state = "done"
<1> DEFINE steps == {j \in 1..5 : UpdateSteps[j] = status.current}
<1>1. /\ UpdateSteps[1] = "download" /\ UpdateSteps[2] = "install" /\ UpdateSteps[3] = "migrate"
      /\ UpdateSteps[4] = "build" /\ UpdateSteps[5] = "restart"
  BY DEF UpdateSteps
<1>2. /\ (\E i \in steps : 3 < i) => status.current \in {"build", "restart"}
      /\ (\E i \in steps : 4 < i) => status.current = "restart"
      /\ ~ \E i \in steps : 5 < i
  BY <1>1
<1> HIDE DEF steps
<1>3. ASSUME NEW i \in 1..5, Checklist(i) = "done"
      PROVE  status.state = "done" \/ \E j \in steps : i < j
  BY <1>3 DEF Checklist, steps
<1> QED
  BY <1>2, <1>3

\* At the start nothing is ticked.
LEMMA CheckInit == Init => CheckInv
  BY DEF Init, CheckInv, StatusTrue, Reached, Off, NoStatus

\* A start of a checkout that was updated boots what it was updated to.
LEMMA BootsTheTree ==
    ASSUME install = "git", built = tree
    PROVE  Boot = tree
  BY DEF Boot

\* Every step keeps the status file true to its runner, and its runner to what is done.
LEMMA CheckStep ==
    ASSUME TypeInv, LockInv, OneWay, CheckInv, [Next]_vars
    PROVE  CheckInv'
<1>1. /\ install' = install /\ migrated \subseteq migrated'
      /\ settings.previous # NoVersion => settings'.previous # NoVersion
  BY RowsGrow
<1>2. CASE UNCHANGED <<running, status, tree, built, runner>>
  BY <1>1, <1>2 DEF CheckInv, StatusTrue, Reached
\* A start of the web process: what is done boots.
<1>3. ASSUME running' = Boot, UNCHANGED <<status, tree, built>>,
             \A s \in Runners : runner'[s] = runner[s] \/ runner'[s].at \in {"off", "start"},
             \A s \in Runners : Live(s) => install = "git"
      PROVE  CheckInv'
  <2>1. StatusTrue'
    BY <1>1, <1>3, BootsTheTree DEF CheckInv, StatusTrue
  <2>2. ASSUME NEW s \in Runners PROVE Reached(s)'
    BY <1>1, <1>3, BootsTheTree DEF CheckInv, Reached, Live
  <2> QED
    BY <2>1, <2>2 DEF CheckInv
<1>4. \A s \in Runners : Live(s) => install = "git"
  <2>1. install \in {"git", "aapanel"}
    BY SelfUpdateAssumption DEF TypeInv, WebTypeOK, SelfUpdateAssumption
  <2> QED
    BY <2>1 DEF OneWay
<1>5. ASSUME NEW q \in Requests, RequestStep(q)
      PROVE  CheckInv'
  <2>1. UNCHANGED gitVars
    BY <1>5, RequestsLeaveGitAlone
  <2>2. CASE Restart(q)
    BY <1>3, <1>4, <2>1, <2>2 DEF Restart, gitVars
  <2>3. CASE ~Restart(q)
    BY <1>2, <1>5, <2>1, <2>3
    DEF RequestStep, Stage, SwapAndRestart, Locate, SwapSymlink, RecordActivation, RequestFails,
        Download, VerifyChecksum, ClearPartial, Extract, RemoveOld, RenamePartial,
         CarryEnvFile, BackupDb, RunMigrations, MarkStaged, OnlyFiles, webVars, gitVars
  <2> QED
    BY <2>2, <2>3
<1>6. ASSUME NEW a \in Admins, NEW q \in Requests, StageBegins(a, q) \/ Activate(a, q) \/ Rollback(a, q)
      PROVE  CheckInv'
  BY <1>2, <1>6 DEF StageBegins, Activate, Rollback, webVars, gitVars
<1>7. CASE SaveSettings \/ LockAges \/ UNCHANGED vars \/ \E a \in Admins : ViewStatus(a) \/ AnswerLost(a) \/ WaitEnds(a)
  BY <1>2, <1>7 DEF SaveSettings, LockAges, ViewStatus, AnswerLost, WaitEnds, vars, webVars, gitVars
<1>8. CASE Reboot
  BY <1>3, <1>4, <1>8 DEF Reboot, gitVars
<1>9. ASSUME NEW a \in Admins, NEW r \in Runners, GitUpdate(a, r) \/ GitRollback(a, r)
      PROVE  CheckInv'
  <2>1. /\ UNCHANGED <<status, tree, built>> /\ (running' = Boot \/ UNCHANGED running)
        /\ \A s \in Runners : runner'[s] = runner[s] \/ runner'[s].at = "start"
    BY <1>9 DEF GitUpdate, GitRollback, LaunchGit, Spawn, Off, TypeInv, GitTypeOK
  <2>2. CASE running' = Boot
    BY <1>3, <1>4, <2>1, <2>2
  <2>3. CASE UNCHANGED running
    BY <1>1, <2>1, <2>3 DEF CheckInv, StatusTrue, Reached
  <2> QED
    BY <2>1, <2>2, <2>3
<1>10. ASSUME NEW r \in Runners, RunnerStep(r) \/ RunnerKilled(r)
      PROVE  CheckInv'
  <2> USE DEF TypeInv, GitTypeOK, RunnerRecord, StatusRecord
  <2>0. Live(r) /\ install = "git"
    BY <1>4, <1>10 DEF RunnerStep, RunnerKilled, RunnerStarts, RunnerReads, Checkout, Install, Migrate, Build, RecordHistory,
         RunnerRestarts, RunnerFinishes, RunnerFails, Step, Live
  <2>1. \A s \in Runners \ {r} : runner'[s].at = "off"
    BY <1>10, <2>0 DEF LockInv, OneRunner, Live, RunnerStep, RunnerKilled, RunnerStarts, RunnerReads, Checkout, Install, Migrate, Build, RecordHistory,
         RunnerRestarts, RunnerFinishes, RunnerFails, Step
  <2>2. \A s \in Runners \ {r} : Reached(s)'
    BY <2>1 DEF Reached
  <2>3. StatusTrue /\ Reached(r)
    BY DEF CheckInv
  <2>4. StatusTrue' /\ Reached(r)'
    <3>1. CASE RunnerStarts(r)
      BY <1>1, <2>3, <3>1 DEF RunnerStarts, Step, Track, Reports, StatusTrue, Reached
    <3>2. CASE RunnerReads(r)
      BY <1>1, <2>3, <3>2 DEF RunnerReads, Track, Reports, StatusTrue, Reached
    <3>3. CASE Checkout(r)
      BY <1>1, <2>3, <3>3 DEF Checkout, Step, Track, Reports, StatusTrue, Reached
    <3>4. CASE Install(r)
      BY <1>1, <2>3, <3>4 DEF Install, Step, Track, Reports, StatusTrue, Reached
    <3>5. CASE Migrate(r)
      BY <1>1, <2>3, <3>5 DEF Migrate, Step, Track, Reports, StatusTrue, Reached
    <3>6. CASE Build(r)
      BY <1>1, <2>3, <3>6 DEF Build, Step, StatusTrue, Reached
    <3>7. CASE RecordHistory(r)
      <4>1. settings'.previous # NoVersion
        <5>1. runner[r].previous \in Versions /\ settings \in Row
          BY <3>7 DEF RecordHistory, Step, RunnersAimed, Live, RowTypeOK
        <5> QED
          BY <3>7, <5>1, SelfUpdateAssumption DEF RecordHistory, Activation, Row, SelfUpdateAssumption
      <4> QED
        BY <1>1, <2>3, <3>7, <4>1 DEF RecordHistory, Step, Track, Reports, webVars, StatusTrue, Reached
    <3>8. CASE RunnerRestarts(r)
      <4>1. running' = tree
        BY <2>0, <2>3, <3>8, BootsTheTree DEF RunnerRestarts, Step, Reached
      <4> QED
        BY <1>1, <2>3, <3>8, <4>1 DEF RunnerRestarts, Step, StatusTrue, Reached
    <3>9. CASE RunnerFinishes(r)
      BY <1>1, <2>0, <2>3, <3>9 DEF RunnerFinishes, Step, Reports, StatusTrue, Reached
    <3>10. CASE RunnerFails(r)
      <4>1. /\ runner'[r].at = "off" /\ UNCHANGED <<running, tree, built>>
            /\ status'.target = runner[r].target /\ status'.state = "failed"
            /\ status'.current = Tracked(r)
        BY <3>10 DEF RunnerFails, Reports, Off
      <4>2. /\ Tracked(r) = "build" => runner[r].at \in {"building", "history"}
            /\ Tracked(r) = "restart" => runner[r].at \in {"restart", "finish"}
        BY <2>3 DEF Tracked, Reached
      <4> QED
        BY <1>1, <2>3, <4>1, <4>2 DEF StatusTrue, Reached
    <3>11. CASE RunnerKilled(r)
      BY <1>1, <2>3, <3>11 DEF RunnerKilled, Off, StatusTrue, Reached
    <3> QED
      BY <1>10, <3>1, <3>2, <3>3, <3>4, <3>5, <3>6, <3>7, <3>8, <3>9, <3>10, <3>11 DEF RunnerStep
  <2> QED
    BY <2>2, <2>4 DEF CheckInv
<1> QED
  BY <1>5, <1>6, <1>7, <1>8, <1>9, <1>10 DEF Next

\* A step ticked off on the page is done, after any failure or kill, as long as
\* no runner outlives its lock.
THEOREM ChecklistTrue ==
    ASSUME RunsWithinTTL
    PROVE  Spec => []ChecklistIsTrue
<1>1. TypeInv /\ CheckInv => ChecklistIsTrue
  BY ChecklistMeaning DEF TypeInv, GitTypeOK, CheckInv, StatusTrue, ChecklistIsTrue
<1>2. TypeInv /\ LockInv /\ [Next]_vars => LockInv'
  BY LockStep
<1>3. TypeInv /\ OneWay /\ [Next]_vars => OneWay'
  BY OneWayStep
<1>4. TypeInv /\ LockInv /\ OneWay /\ CheckInv /\ [Next]_vars => CheckInv'
  BY CheckStep
<1> QED
  BY <1>1, <1>2, <1>3, <1>4, LockInit, OneWayInit, CheckInit, TypeInit, TypeStep, PTL DEF Spec

-----------------------------------------------------------------------------
(* What is offered, linked and booted.                                     *)

\* A stage() under way, and what may be started again: what the settings name or a page
\* still shows, what is linked or runs, and what a request links.
Staging(q) == at[q] \in StagePc
Wanted(version) ==
    \/ version \in {settings.staged, settings.previous, link, running}
    \/ \E a \in Admins : version = page[a].row.previous
    \/ \E q \in Requests : at[q] \in SwapPc /\ version \in {flow[q].version, flow[q].before}

\* Open requests know each other's version; who shares one with a stage() disturbs it.
Known ==
    /\ \A p, q \in Requests : Open(p) /\ Open(q) /\ p # q => flow[p].version \in flow[q].beside
    /\ \A q \in Requests : Staging(q) /\ Shared(q) => flow[q].version \in disturbed

\* What is wanted and not disturbed is ready, and no stage() works on it.
Ready ==
    \A v \in Versions \ disturbed : Wanted(v) =>
        /\ \A q \in Requests : Staging(q) => flow[q].version # v
        /\ install = "aapanel" => Complete(v) /\ v \in migrated

\* What stage() has done for its version by the time it comes to each step, if no other
\* request is for the same version.
Prepared(q) ==
    LET v == flow[q].version
    IN  Open(q) /\ ~Shared(q) =>
            /\ at[q] \in {"remove", "rename"} => partial[v] = "full"
            /\ at[q] \in {"carry", "backup", "migrate", "mark"} => release[v] = "full"
            /\ at[q] \in {"backup", "migrate", "mark"} => v \in config \cup disturbed
            /\ at[q] = "mark" => v \in migrated

\* What swapAndRestart() has done, and, if no other request was beside it, still is so.
Swapped(q) ==
    Open(q) =>
        /\ at[q] = "restart" => settings.previous # NoVersion
        /\ flow[q].beside = {} =>
              /\ at[q] \in {"record", "restart"} => link = flow[q].version
              /\ at[q] = "restart" => settings.staged = NoVersion

BundleInv == Known /\ Ready /\ \A q \in Requests : Prepared(q) /\ Swapped(q)

\* At the start the version that runs is the one that is wanted.
LEMMA BundleInit == Init => BundleInv
<1> SUFFICES ASSUME Init PROVE BundleInv
  OBVIOUS
<1> USE SelfUpdateAssumption DEF SelfUpdateAssumption
<1>1. \A q \in Requests : ~Open(q) /\ ~Staging(q) /\ at[q] \notin SwapPc
  BY DEF Init, Open, Staging, StagePc, SwapPc
<1>2. \A v \in Versions : Wanted(v) => v = First
  BY <1>1 DEF Init, Wanted, FreshSettings
<1>3. Complete(First) /\ First \in migrated
  BY DEF Init, Complete
<1> QED
  BY <1>1, <1>2, <1>3 DEF BundleInv, Known, Ready, Prepared, Swapped

\* A checkout has no requests, and its readiness is a matter of the runner.
LEMMA CheckoutBundle ==
    ASSUME OneWay', install' = "git"
    PROVE  BundleInv'
<1>1. \A q \in Requests : ~Open(q)' /\ ~Staging(q)'
  BY DEF OneWay, Open, Staging, StagePc
<1> QED
  BY <1>1 DEF BundleInv, Known, Ready, Prepared, Swapped

\* A step that leaves files, requests and what is linked and runs alone, and by which
\* nothing comes to be wanted.
LEMMA QuietBundle ==
    ASSUME BundleInv,
           UNCHANGED <<install, running, migrated, partial, release, config, link, disturbed, at>>,
           \A q \in Requests : /\ flow'[q].version = flow[q].version
                               /\ flow'[q].before = flow[q].before
                               /\ flow'[q].beside = flow[q].beside,
           settings'.staged = settings.staged, settings'.previous = settings.previous,
           \A a \in Admins : page'[a].row.previous \in {page[a].row.previous, settings.previous}
    PROVE  BundleInv'
<1>1. Known'
  BY DEF BundleInv, Known, Open, Staging, Shared
<1>2. \A v : Wanted(v)' => Wanted(v)
  BY DEF Wanted
<1>3. Ready'
  BY <1>2 DEF BundleInv, Ready, Staging, Complete
<1>4. \A q \in Requests : Prepared(q)' /\ Swapped(q)'
  BY DEF BundleInv, Prepared, Swapped, Shared, Open
<1> QED
  BY <1>1, <1>3, <1>4 DEF BundleInv

\* The web process starts: what it boots is linked, or it runs nothing.
LEMMA BootBundle ==
    ASSUME TypeInv, BundleInv, install = "aapanel", RequestsDie({}), running' = Boot,
           UNCHANGED <<settings, migrated, install, release, config, link, disturbed, page>>
    PROVE  BundleInv'
<1>1. \A q \in Requests : at'[q] = "idle" /\ flow'[q] = NoFlow
  BY RequestsDieType DEF TypeInv
<1>2. \A q \in Requests : ~Open(q)' /\ ~Staging(q)' /\ at'[q] \notin SwapPc
  BY <1>1 DEF Open, Staging, StagePc, SwapPc
<1>3. \A v \in Versions : Wanted(v)' => Wanted(v)
  <2>1. running' \in {link, NoVersion}
    BY DEF Boot
  <2> QED
    BY <1>2, <2>1, SelfUpdateAssumption DEF Wanted, SelfUpdateAssumption
<1>4. Ready'
  BY <1>2, <1>3 DEF BundleInv, Ready, Complete
<1> QED
  BY <1>2, <1>4 DEF BundleInv, Known, Prepared, Swapped

\* A request is over, with or without a result, and the files are as they were.
LEMMA AnswerBundle ==
    ASSUME TypeInv, BundleInv, NEW q \in Requests, NEW phase \in Phases, Answers(q, phase),
           UNCHANGED <<settings, migrated, install, running, partial, release, config, link,
                       disturbed, page>>
    PROVE  BundleInv'
<1>1. /\ at'[q] = "idle" /\ flow'[q] = NoFlow
      /\ \A p \in Requests \ {q} : at'[p] = at[p] /\ flow'[p] = flow[p]
  BY AnswersType DEF TypeInv
<1>2. ~Open(q)' /\ ~Staging(q)' /\ at'[q] \notin SwapPc
  BY <1>1 DEF Open, Staging, StagePc, SwapPc
<1>3. Known'
  BY <1>1, <1>2 DEF BundleInv, Known, Open, Staging, Shared
<1>4. \A v : Wanted(v)' => Wanted(v)
  BY <1>1, <1>2 DEF Wanted
<1>5. Ready'
  BY <1>1, <1>2, <1>4 DEF BundleInv, Ready, Staging, Complete
<1>6. ASSUME NEW p \in Requests PROVE Prepared(p)' /\ Swapped(p)'
  BY <1>1, <1>2 DEF BundleInv, Prepared, Swapped, Shared, Open
<1> QED
  BY <1>3, <1>5, <1>6 DEF BundleInv

\* A stage() that begins disturbs what may be started again, or has its version alone.
LEMMA StageBeginsBundle ==
    ASSUME TypeInv, BundleInv, NEW a \in Admins, NEW q \in Requests, StageBegins(a, q)
    PROVE  BundleInv'
<1>1. PICK r \in Stable(Releases) :
         /\ Begins(a, q, "download", "staging", r.version)
         /\ disturbed' = IF InUse(r.version) THEN disturbed \cup {r.version}
                         ELSE disturbed \ {r.version}
  BY DEF StageBegins
<1> DEFINE version == r.version
<1>2. version \in Versions
  BY DEF Stable, Versions
<1>3. /\ at[q] = "idle" /\ at'[q] = "download" /\ flow'[q].version = version
      /\ flow'[q].before = NoVersion
      /\ \A p \in Requests : Open(p) => flow[p].version \in flow'[q].beside
      /\ \A v \in flow'[q].beside : \E p \in Requests : Open(p) /\ v = flow[p].version
      /\ \A p \in Requests \ {q} :
            /\ at'[p] = at[p]
            /\ flow'[p].version = flow[p].version /\ flow'[p].before = flow[p].before
            /\ flow'[p].beside = IF Open(p) THEN flow[p].beside \cup {version} ELSE flow[p].beside
  <2>1. "download" \in {"download", "locate"} /\ "staging" \in Phases
    BY DEF Phases
  <2> HIDE DEF version
  <2>2. Begins(a, q, "download", "staging", version)
    BY <1>1 DEF version
  <2>3. at[q] = "idle" /\ at' = [at EXCEPT ![q] = "download"]
    BY <1>2, <2>1, <2>2, BeginsType DEF TypeInv
  <2>4. at'[q] = "download" /\ \A p \in Requests \ {q} : at'[p] = at[p]
    BY <2>3 DEF TypeInv, RequestTypeOK
  <2>5. /\ flow'[q].version = version /\ flow'[q].before = NoVersion
        /\ \A p \in Requests : Open(p) => flow[p].version \in flow'[q].beside
        /\ \A v \in flow'[q].beside : \E p \in Requests : Open(p) /\ v = flow[p].version
    BY <1>2, <2>1, <2>2, BeginsType DEF TypeInv
  <2>6. ASSUME NEW p \in Requests \ {q}
        PROVE  /\ flow'[p].version = flow[p].version /\ flow'[p].before = flow[p].before
               /\ flow'[p].beside = IF Open(p) THEN flow[p].beside \cup {version} ELSE flow[p].beside
    <3>1. flow'[p] = IF Open(p) THEN [flow[p] EXCEPT !.beside = @ \cup {version}] ELSE flow[p]
      BY <2>2 DEF Begins
    <3> QED
      BY <3>1 DEF TypeInv, RequestTypeOK, FlowRecord
  <2> QED
    BY <2>1, <2>2, <2>3, <2>4, <2>5, <2>6
<1>4. UNCHANGED <<settings, migrated, install, running, partial, release, config, link, page>>
  BY DEF StageBegins, rowVars, webVars
<1>5. /\ disturbed \ {version} \subseteq disturbed'
      /\ disturbed' \ {version} \subseteq disturbed
      /\ InUse(version) => version \in disturbed'
  BY <1>1
<1> HIDE DEF version
<1>6. \A p \in Requests : Open(p) => InUse(flow[p].version)
  BY DEF InUse
<1>7. Known'
  <2>1. ASSUME NEW p \in Requests, NEW s \in Requests, Open(p)', Open(s)', p # s
        PROVE  flow'[p].version \in flow'[s].beside
    BY <1>3, <2>1 DEF BundleInv, Known, Open
  <2>2. ASSUME NEW p \in Requests, Staging(p)', Shared(p)'
        PROVE  flow'[p].version \in disturbed'
    <3>1. CASE p = q
      BY <1>3, <1>5, <1>6, <2>2, <3>1 DEF Shared
    <3>2. CASE p # q
      <4>1. Open(p) /\ Staging(p)
        BY <1>3, <2>2, <3>2 DEF Staging, Open, StagePc
      <4>2. CASE flow[p].version = version
        BY <1>3, <1>5, <1>6, <3>2, <4>1, <4>2
      <4>3. CASE flow[p].version # version
        <5>1. flow'[p].version = flow[p].version /\ flow'[p].beside = flow[p].beside \cup {version}
          BY <1>3, <3>2, <4>1
        <5>2. Shared(p)
          BY <2>2, <4>3, <5>1 DEF Shared
        <5>3. flow[p].version \in disturbed
          BY <4>1, <5>2 DEF BundleInv, Known
        <5> QED
          BY <1>5, <4>3, <5>1, <5>3
      <4> QED
        BY <4>2, <4>3
    <3> QED
      BY <3>1, <3>2
  <2> QED
    BY <2>1, <2>2 DEF Known
<1>8. Ready'
  <2> SUFFICES ASSUME NEW v \in Versions \ disturbed', Wanted(v)'
               PROVE  /\ \A p \in Requests : Staging(p)' => flow'[p].version # v
                      /\ install' = "aapanel" => Complete(v)' /\ v \in migrated'
    BY DEF Ready
  <2>1. Wanted(v)
    BY <1>3, <1>4 DEF Wanted, SwapPc
  <2>2. v # version
    BY <1>5, <2>1 DEF Wanted, InUse, Open, SwapPc
  <2>3. v \notin disturbed
    BY <1>5, <2>2
  <2> QED
    <3>1. /\ \A p \in Requests : Staging(p) => flow[p].version # v
          /\ install = "aapanel" => Complete(v) /\ v \in migrated
      BY <2>1, <2>3 DEF BundleInv, Ready
    <3>2. install' = "aapanel" => Complete(v)' /\ v \in migrated'
      BY <1>4, <3>1 DEF Complete
    <3>3. ASSUME NEW p \in Requests, Staging(p)' PROVE flow'[p].version # v
      BY <1>3, <2>2, <3>1, <3>3 DEF Staging
    <3> QED
      BY <3>2, <3>3
<1>9. ASSUME NEW p \in Requests PROVE Prepared(p)' /\ Swapped(p)'
  <2>1. CASE p = q
    BY <1>3, <2>1 DEF Prepared, Swapped
  <2>2. CASE p # q
    <3>1. /\ at'[p] = at[p] /\ flow'[p].version = flow[p].version
          /\ flow'[p].beside = IF Open(p) THEN flow[p].beside \cup {version} ELSE flow[p].beside
      BY <1>3, <2>2
    <3>2. Prepared(p) /\ Swapped(p)
      BY DEF BundleInv
    <3>3. ASSUME Open(p), ~Shared(p)'
          PROVE  /\ ~Shared(p)
                 /\ flow[p].version \in disturbed => flow[p].version \in disturbed'
      BY <1>5, <3>1, <3>3 DEF Shared
    <3>4. Open(p)' <=> Open(p)
      BY <3>1 DEF Open
    <3>5. Prepared(p)'
      BY <1>4, <3>1, <3>2, <3>3, <3>4 DEF Prepared
    <3>6. Swapped(p)'
      BY <1>4, <3>1, <3>2, <3>4 DEF Swapped
    <3> QED
      BY <3>5, <3>6
  <2> QED
    BY <2>1, <2>2
<1> QED
  BY <1>7, <1>8, <1>9 DEF BundleInv

\* An activation or a rollback is for a version that was wanted before it.
LEMMA SwapBeginsBundle ==
    ASSUME TypeInv, BundleInv, NEW a \in Admins, NEW q \in Requests, Activate(a, q) \/ Rollback(a, q)
    PROVE  BundleInv'
<1>1. PICK version \in Versions : Wanted(version) /\ Begins(a, q, "locate", "applying", version)
  <2>1. CASE Activate(a, q)
    BY <2>1 DEF Activate, TypeInv, RowTypeOK, Row, VersionOrNone, Wanted
  <2>2. CASE Rollback(a, q)
    BY <2>2 DEF Rollback, TypeInv, TabTypeOK, Row, VersionOrNone, Wanted
  <2> QED
    BY <2>1, <2>2
<1>3. /\ at[q] = "idle" /\ at'[q] = "locate" /\ flow'[q].version = version
      /\ flow'[q].before = NoVersion
      /\ \A p \in Requests : Open(p) => flow[p].version \in flow'[q].beside
      /\ \A p \in Requests \ {q} :
            /\ at'[p] = at[p]
            /\ flow'[p].version = flow[p].version /\ flow'[p].before = flow[p].before
            /\ flow'[p].beside = IF Open(p) THEN flow[p].beside \cup {version} ELSE flow[p].beside
  <2>1. "locate" \in {"download", "locate"} /\ "applying" \in Phases
    BY DEF Phases
  <2>2. at[q] = "idle" /\ at' = [at EXCEPT ![q] = "locate"]
    BY <1>1, <2>1, BeginsType DEF TypeInv
  <2>3. at'[q] = "locate" /\ \A p \in Requests \ {q} : at'[p] = at[p]
    BY <2>2 DEF TypeInv, RequestTypeOK
  <2>4. /\ flow'[q].version = version /\ flow'[q].before = NoVersion
        /\ \A p \in Requests : Open(p) => flow[p].version \in flow'[q].beside
    BY <1>1, <2>1, BeginsType DEF TypeInv
  <2>5. ASSUME NEW p \in Requests \ {q}
        PROVE  /\ flow'[p].version = flow[p].version /\ flow'[p].before = flow[p].before
               /\ flow'[p].beside = IF Open(p) THEN flow[p].beside \cup {version} ELSE flow[p].beside
    <3>1. flow'[p] = IF Open(p) THEN [flow[p] EXCEPT !.beside = @ \cup {version}] ELSE flow[p]
      BY <1>1 DEF Begins
    <3> QED
      BY <3>1 DEF TypeInv, RequestTypeOK, FlowRecord
  <2> QED
    BY <2>1, <2>2, <2>3, <2>4, <2>5
<1>4. UNCHANGED <<settings, migrated, install, running, partial, release, config, link, page,
                  disturbed>>
  BY DEF Activate, Rollback, rowVars, webVars, fileVars
<1>7. Known'
  <2>1. ASSUME NEW p \in Requests, NEW s \in Requests, Open(p)', Open(s)', p # s
        PROVE  flow'[p].version \in flow'[s].beside
    BY <1>3, <2>1 DEF BundleInv, Known, Open
  <2>2. ASSUME NEW p \in Requests, Staging(p)', Shared(p)'
        PROVE  flow'[p].version \in disturbed'
    <3>1. p # q /\ Staging(p) /\ Open(p)
      BY <1>3, <2>2 DEF Staging, StagePc, Open
    <3>2. CASE flow[p].version = version
      BY <1>1, <1>3, <1>4, <3>1, <3>2 DEF BundleInv, Ready
    <3>3. CASE flow[p].version # version
      BY <1>3, <1>4, <2>2, <3>1, <3>3 DEF BundleInv, Known, Shared
    <3> QED
      BY <3>2, <3>3
  <2> QED
    BY <2>1, <2>2 DEF Known
<1>8. Ready'
  <2>1. \A v \in Versions : Wanted(v)' => Wanted(v)
    <3> SUFFICES ASSUME NEW v \in Versions, Wanted(v)' PROVE Wanted(v)
      OBVIOUS
    <3>1. v # NoVersion
      BY SelfUpdateAssumption DEF SelfUpdateAssumption
    <3>2. CASE \E p \in Requests : at'[p] \in SwapPc /\ v \in {flow'[p].version, flow'[p].before}
      <4>1. PICK p \in Requests : at'[p] \in SwapPc /\ v \in {flow'[p].version, flow'[p].before}
        BY <3>2
      <4>2. CASE p = q
        BY <1>1, <1>3, <3>1, <4>1, <4>2
      <4>3. CASE p # q
        BY <1>3, <4>1, <4>3 DEF Wanted
      <4> QED
        BY <4>2, <4>3
    <3>3. CASE \/ v \in {settings'.staged, settings'.previous, link', running'}
               \/ \E b \in Admins : v = page'[b].row.previous
      BY <1>4, <3>3 DEF Wanted
    <3> QED
      BY <3>2, <3>3 DEF Wanted
  <2>2. \A p \in Requests : Staging(p)' => Staging(p) /\ flow'[p].version = flow[p].version
    BY <1>3 DEF Staging, StagePc
  <2> QED
    BY <1>4, <2>1, <2>2 DEF BundleInv, Ready, Complete
<1>9. ASSUME NEW p \in Requests PROVE Prepared(p)' /\ Swapped(p)'
  <2>1. CASE p = q
    BY <1>3, <2>1 DEF Prepared, Swapped
  <2>2. CASE p # q
    BY <1>3, <1>4, <2>2 DEF BundleInv, Prepared, Swapped, Shared, Open
  <2> QED
    BY <2>1, <2>2
<1> QED
  BY <1>7, <1>8, <1>9 DEF BundleInv

\* A step of stage() in the middle: it changes files of its version alone.
LEMMA StageBundle ==
    ASSUME TypeInv, BundleInv, NEW q \in Requests, Stage(q), ~MarkStaged(q)
    PROVE  BundleInv'
<1> DEFINE version == flow[q].version
<1>1. /\ Staging(q) /\ Staging(q)' /\ UNCHANGED <<settings, install, running, flow, link, page>>
      /\ \A p \in Requests \ {q} : at'[p] = at[p]
  BY DEF Stage, Download, VerifyChecksum, ClearPartial, Extract, RemoveOld, RenamePartial, CarryEnvFile,
         BackupDb, RunMigrations, Goes, OnlyFiles, fileVars, rowVars, webVars, tabVars, Staging,
         StagePc, TypeInv, RequestTypeOK
<1>2. migrated \subseteq migrated' /\ disturbed \subseteq disturbed'
  BY DEF Stage, Download, VerifyChecksum, ClearPartial, Extract, RemoveOld, RenamePartial, CarryEnvFile,
         BackupDb, RunMigrations, OnlyFiles, fileVars, rowVars
<1>3. ASSUME NEW v \in Versions, v # version
      PROVE  /\ partial'[v] = partial[v] /\ release'[v] = release[v]
             /\ v \in config => v \in config'
  BY <1>3 DEF Stage, Download, VerifyChecksum, ClearPartial, Extract, RemoveOld, RenamePartial, CarryEnvFile,
         BackupDb, RunMigrations, OnlyFiles, fileVars, TypeInv, FileTypeOK
<1> HIDE DEF version
<1>4. \A p \in Requests : /\ Open(p)' = Open(p) /\ Staging(p)' = Staging(p)
                          /\ (at'[p] \in SwapPc) = (at[p] \in SwapPc)
  <2>1. \A p \in Requests : Staging(p) => Open(p) /\ at[p] \notin SwapPc
    BY DEF Staging, Open, StagePc, SwapPc
  <2>2. \A p \in Requests : Staging(p)' => Open(p)' /\ at'[p] \notin SwapPc
    BY DEF Staging, Open, StagePc, SwapPc
  <2> QED
    BY <1>1, <2>1, <2>2 DEF Staging, Open
<1>5. Known'
  BY <1>1, <1>2, <1>4 DEF BundleInv, Known, Shared
<1>6. Ready'
  <2> SUFFICES ASSUME NEW v \in Versions \ disturbed', Wanted(v)'
               PROVE  /\ \A p \in Requests : Staging(p)' => flow'[p].version # v
                      /\ install' = "aapanel" => Complete(v)' /\ v \in migrated'
    BY DEF Ready
  <2>1. Wanted(v) /\ v \notin disturbed
    BY <1>1, <1>2, <1>4 DEF Wanted
  <2>2. /\ \A p \in Requests : Staging(p) => flow[p].version # v
        /\ install = "aapanel" => Complete(v) /\ v \in migrated
    BY <2>1 DEF BundleInv, Ready
  <2>3. v # version
    BY <1>1, <2>2 DEF version
  <2> QED
    BY <1>1, <1>2, <1>3, <1>4, <2>2, <2>3 DEF Complete
<1>7. ASSUME NEW p \in Requests \ {q} PROVE Prepared(p)'
  <2> SUFFICES ASSUME Open(p), ~Shared(p) PROVE Prepared(p)'
    BY <1>1, <1>4 DEF Prepared, Shared
  <2>1. flow[p].version \in Versions /\ flow[p].version # version
    BY <1>1, <1>4 DEF BundleInv, Known, Shared, version, TypeInv, RequestsAimed, Staging, Open, StagePc
  <2>2. Prepared(p)
    BY DEF BundleInv
  <2> QED
    BY <1>1, <1>2, <1>3, <2>1, <2>2 DEF Prepared, Shared, Open
<1>8. Prepared(q)'
  <2> SUFFICES ASSUME ~Shared(q)
               PROVE  /\ at'[q] \in {"remove", "rename"} => partial'[version] = "full"
                      /\ at'[q] \in {"carry", "backup", "migrate", "mark"} => release'[version] = "full"
                      /\ at'[q] \in {"backup", "migrate", "mark"} => version \in config' \cup disturbed'
                      /\ at'[q] = "mark" => version \in migrated'
    BY <1>1 DEF Prepared, Shared, version
  <2>1. Prepared(q) /\ Open(q) /\ version \in Versions
    BY <1>1 DEF BundleInv, TypeInv, RequestsAimed, Staging, Open, StagePc, version
  <2>2. /\ at[q] \in {"remove", "rename"} => partial[version] = "full"
        /\ at[q] \in {"carry", "backup", "migrate", "mark"} => release[version] = "full"
        /\ at[q] \in {"backup", "migrate", "mark"} => version \in config \cup disturbed
    BY <2>1 DEF Prepared, version
  <2> USE DEF Goes, TypeInv, RequestTypeOK, FileTypeOK
  <2>3. CASE Download(q) \/ VerifyChecksum(q) \/ ClearPartial(q)
    BY <2>3 DEF Download, VerifyChecksum, ClearPartial
  <2>4. CASE Extract(q)
    BY <2>1, <2>4 DEF Extract, Left, version
  <2>5. CASE RemoveOld(q)
    BY <2>2, <2>5 DEF RemoveOld
  <2>6. CASE RenamePartial(q)
    BY <2>1, <2>2, <2>6 DEF RenamePartial, version
  <2>7. CASE CarryEnvFile(q)
    BY <2>2, <2>7 DEF CarryEnvFile, version
  <2>8. CASE BackupDb(q)
    BY <2>2, <2>8 DEF BackupDb, fileVars
  <2>9. CASE RunMigrations(q)
    BY <2>2, <2>9 DEF RunMigrations, fileVars, version
  <2> QED
    BY <2>3, <2>4, <2>5, <2>6, <2>7, <2>8, <2>9 DEF Stage
<1>9. ASSUME NEW p \in Requests PROVE Swapped(p)'
  <2>1. CASE p = q
    BY <1>1, <2>1 DEF Swapped, Staging, StagePc
  <2>2. CASE p # q
    BY <1>1, <2>2 DEF BundleInv, Swapped, Open
  <2> QED
    BY <2>1, <2>2
<1> QED
  BY <1>5, <1>6, <1>7, <1>8, <1>9 DEF BundleInv

\* The marker goes to a version that is ready, or was disturbed.
LEMMA MarkBundle ==
    ASSUME TypeInv, BundleInv, NEW q \in Requests, MarkStaged(q)
    PROVE  BundleInv'
<1> DEFINE version == flow[q].version
<1>1. /\ at'[q] = "idle" /\ flow'[q] = NoFlow
      /\ \A p \in Requests \ {q} : at'[p] = at[p] /\ flow'[p] = flow[p]
  BY AnswersType DEF MarkStaged, TypeInv, Phases
<1>2. ~Open(q)' /\ ~Staging(q)' /\ at'[q] \notin SwapPc
  BY <1>1 DEF Open, Staging, StagePc, SwapPc
<1>3. /\ UNCHANGED <<migrated, install, running, partial, release, config, link, page>>
      /\ settings'.staged = version /\ settings'.previous = settings.previous
      /\ at[q] = "mark" /\ Staging(q) /\ Open(q)
      /\ disturbed' = IF Shared(q) \/ version \notin config THEN disturbed
                      ELSE disturbed \ {version}
  BY DEF MarkStaged, SetStagedVersion, webVars, TypeInv, RowTypeOK, Row, Staging, StagePc, Open
<1>4. \A p \in Requests \ {q} : Open(p) => /\ flow[p].version \in flow[q].beside
                                           /\ flow[p].beside # {}
  BY <1>3 DEF BundleInv, Known
<1>5. ~Shared(q) => \A p \in Requests \ {q} : Open(p) => flow[p].version # version
  BY <1>4 DEF Shared
<1>6. Shared(q) => version \in disturbed /\ disturbed' = disturbed
  BY <1>3 DEF BundleInv, Known
<1>7. ~Shared(q) => /\ release[version] = "full" /\ version \in migrated
                    /\ version \in config \cup disturbed
  <2>1. Prepared(q)
    BY DEF BundleInv
  <2> QED
    BY <1>3, <2>1 DEF Prepared
<1> HIDE DEF version
<1>8. Known'
  <2>1. ASSUME NEW p \in Requests, NEW s \in Requests, Open(p)', Open(s)', p # s
        PROVE  flow'[p].version \in flow'[s].beside
    BY <1>1, <1>2, <2>1 DEF BundleInv, Known, Open
  <2>2. ASSUME NEW p \in Requests, Staging(p)', Shared(p)'
        PROVE  flow'[p].version \in disturbed'
    <3>1. p # q /\ Staging(p) /\ Shared(p) /\ Open(p) /\ flow'[p] = flow[p]
      BY <1>1, <1>2, <2>2 DEF Staging, Shared, Open, StagePc
    <3>2. flow[p].version \in disturbed
      BY <3>1 DEF BundleInv, Known
    <3> QED
      BY <1>3, <1>5, <3>1, <3>2
  <2> QED
    BY <2>1, <2>2 DEF Known
<1>9. Ready'
  <2> SUFFICES ASSUME NEW v \in Versions \ disturbed', Wanted(v)'
               PROVE  /\ \A p \in Requests : Staging(p)' => flow'[p].version # v
                      /\ install' = "aapanel" => Complete(v)' /\ v \in migrated'
    BY DEF Ready
  <2>1. \A p \in Requests : Staging(p)' => p # q /\ Staging(p) /\ Open(p) /\ flow'[p] = flow[p]
    BY <1>1, <1>2 DEF Staging, Open, StagePc
  <2>2. CASE v = version
    <3>1. ~Shared(q) /\ version \in config
      BY <1>3, <1>6, <1>7, <2>2
    <3> QED
      BY <1>3, <1>5, <1>7, <2>1, <2>2, <3>1 DEF Complete
  <2>3. CASE v # version
    <3>1. Wanted(v)
      BY <1>1, <1>2, <1>3, <2>3 DEF Wanted
    <3>2. v \notin disturbed
      BY <1>3, <2>3
    <3> QED
      BY <1>3, <2>1, <3>1, <3>2 DEF BundleInv, Ready, Complete
  <2> QED
    BY <2>2, <2>3
<1>10. ASSUME NEW p \in Requests PROVE Prepared(p)' /\ Swapped(p)'
  <2>1. CASE ~Open(p)'
    BY <2>1 DEF Prepared, Swapped
  <2>2. CASE Open(p)'
    <3>1. p # q /\ at'[p] = at[p] /\ flow'[p] = flow[p] /\ Open(p)
      BY <1>1, <1>2, <2>2 DEF Open
    <3>2. Prepared(p)'
      <4>1. Prepared(p)
        BY DEF BundleInv
      <4>2. flow[p].version \in disturbed => flow[p].version \in disturbed'
        BY <1>3, <1>5, <3>1
      <4> QED
        BY <1>3, <3>1, <4>1, <4>2 DEF Prepared, Shared, Open
    <3>3. Swapped(p)'
      <4>1. Swapped(p) /\ flow[p].beside # {}
        BY <1>4, <3>1 DEF BundleInv
      <4> QED
        BY <1>3, <3>1, <4>1 DEF Swapped
    <3> QED
      BY <3>2, <3>3
  <2> QED
    BY <2>1, <2>2
<1> QED
  BY <1>8, <1>9, <1>10 DEF BundleInv

\* A step of an activation: it links and records what was wanted before.
LEMMA SwapBundle ==
    ASSUME TypeInv, BundleInv, NEW q \in Requests, install = "aapanel",
           SwapAndRestart(q) \/ RequestFails(q)
    PROVE  BundleInv'
<1>1. CASE Restart(q)
  BY <1>1, BootBundle DEF Restart, rowVars, fileVars
<1>2. CASE RequestFails(q) \/ (Locate(q) /\ release[flow[q].version] = "none")
  BY <1>2, AnswerBundle DEF RequestFails, Locate, rowVars, webVars, fileVars, Phases
<1>3. CASE SwapSymlink(q) \/ RecordActivation(q) \/ (Locate(q) /\ release[flow[q].version] # "none")
  <2>1. /\ at[q] \in SwapPc /\ at'[q] \in SwapPc /\ Open(q) /\ Open(q)'
        /\ \A p \in Requests \ {q} : at'[p] = at[p] /\ flow'[p] = flow[p]
        /\ flow'[q].version = flow[q].version /\ flow'[q].beside = flow[q].beside
        /\ flow'[q].before \in {flow[q].before, link}
    BY <1>3 DEF SwapSymlink, RecordActivation, Locate, Goes, OnlyFiles, TypeInv, RequestTypeOK,
           FlowRecord, SwapPc, Open
  <2>2. UNCHANGED <<migrated, install, running, partial, release, config, disturbed, page>>
    BY <1>3 DEF SwapSymlink, RecordActivation, Locate, OnlyFiles, rowVars, webVars, fileVars, tabVars
  <2>3. link' \in {link, flow[q].version}
    BY <1>3 DEF SwapSymlink, RecordActivation, Locate, fileVars
  <2>4. \/ settings' = settings
        \/ RecordActivation(q) /\ settings'.staged = NoVersion /\ settings'.previous = flow[q].before
    BY <1>3 DEF SwapSymlink, RecordActivation, Activation, Locate, OnlyFiles, rowVars, TypeInv, RowTypeOK, Row
  <2>5. RecordActivation(q) => settings'.previous # NoVersion
    <3>1. RecordActivation(q) => flow[q].before \in Versions
      BY DEF RecordActivation, Goes, TypeInv, RequestsAimed, SwapPc
    <3> QED
      BY <3>1, SelfUpdateAssumption
      DEF RecordActivation, Activation, TypeInv, RowTypeOK, Row, SelfUpdateAssumption
  <2>6. \A p \in Requests : /\ Open(p)' = Open(p) /\ Staging(p)' = Staging(p)
                            /\ (at'[p] \in SwapPc) = (at[p] \in SwapPc)
                            /\ flow'[p].version = flow[p].version /\ flow'[p].beside = flow[p].beside
    BY <2>1 DEF Open, Staging, StagePc, SwapPc
  <2>7. Known'
    BY <2>2, <2>6 DEF BundleInv, Known, Shared
  <2>8. Ready'
    <3>1. ASSUME NEW v \in Versions, Wanted(v)' PROVE Wanted(v)
      <4>1. v # NoVersion
        BY SelfUpdateAssumption DEF SelfUpdateAssumption
      <4>2. CASE v \in {settings'.staged, settings'.previous, link', running'}
        BY <2>1, <2>2, <2>3, <2>4, <4>1, <4>2 DEF Wanted
      <4>3. CASE \E a \in Admins : v = page'[a].row.previous
        BY <2>2, <4>3 DEF Wanted
      <4>4. ASSUME NEW p \in Requests, at'[p] \in SwapPc, v \in {flow'[p].version, flow'[p].before}
            PROVE  Wanted(v)
        <5>1. at[p] \in SwapPc
          BY <2>6, <4>4
        <5>2. v \in {flow[p].version, flow[p].before, link}
          BY <2>1, <4>4
        <5> QED
          BY <5>1, <5>2 DEF Wanted
      <4> QED
        BY <3>1, <4>2, <4>3, <4>4 DEF Wanted
    <3> QED
      BY <2>2, <2>6, <3>1 DEF BundleInv, Ready, Complete
  <2>9. ASSUME NEW p \in Requests PROVE Prepared(p)'
    <3>1. CASE p = q
      BY <2>1, <3>1 DEF Prepared, SwapPc
    <3>2. CASE p # q
      BY <2>1, <2>2, <3>2 DEF BundleInv, Prepared, Shared, Open
    <3> QED
      BY <3>1, <3>2
  <2>10. ASSUME NEW p \in Requests PROVE Swapped(p)'
    <3>1. CASE p # q
      <4>1. Open(p) => flow[p].beside # {}
        BY <2>1, <3>1 DEF BundleInv, Known
      <4> QED
        BY <2>1, <2>4, <2>5, <3>1, <4>1 DEF BundleInv, Swapped, Open
    <3>2. CASE p = q /\ SwapSymlink(q)
      BY <2>1, <3>2 DEF SwapSymlink, Goes, Swapped, TypeInv, RequestTypeOK
    <3>3. CASE p = q /\ RecordActivation(q)
      <4>1. Swapped(q) /\ at[q] = "record" /\ UNCHANGED <<link, flow>>
        BY <3>3 DEF BundleInv, RecordActivation, Goes, fileVars
      <4> QED
        BY <2>1, <2>4, <2>5, <3>3, <4>1 DEF RecordActivation, Activation, Swapped, TypeInv, RowTypeOK, Row
    <3>4. CASE p = q /\ Locate(q) /\ release[flow[q].version] # "none"
      BY <3>4 DEF Locate, Goes, Swapped, TypeInv, RequestTypeOK
    <3> QED
      BY <1>3, <3>1, <3>2, <3>3, <3>4
  <2> QED
    BY <2>7, <2>8, <2>9, <2>10 DEF BundleInv
<1> QED
  BY <1>1, <1>2, <1>3 DEF SwapAndRestart

\* Every step keeps what is wanted ready, or has disturbed it.
LEMMA BundleStep ==
    ASSUME TypeInv, OneWay, BundleInv, [Next]_vars
    PROVE  BundleInv'
<1>1. OneWay' /\ install' = install
  BY OneWayStep, RowsGrow
<1>2. CASE install = "git"
  BY <1>1, <1>2, CheckoutBundle
<1>3. CASE install = "aapanel"
  <2>1. ASSUME NEW q \in Requests, RequestStep(q)
        PROVE  BundleInv'
    BY <1>3, <2>1, StageBundle, MarkBundle, SwapBundle DEF RequestStep
  <2>2. ASSUME NEW a \in Admins, NEW q \in Requests, StageBegins(a, q) \/ Activate(a, q) \/ Rollback(a, q)
        PROVE  BundleInv'
    BY <2>2, StageBeginsBundle, SwapBeginsBundle
  <2>3. ASSUME NEW r \in Runners, RunnerStep(r) \/ RunnerKilled(r)
        PROVE  FALSE
    BY <1>3, <2>3 DEF OneWay, Live, RunnerStep, RunnerKilled, RunnerStarts, RunnerReads, Checkout,
         Install, Migrate, Build, RecordHistory, RunnerRestarts, RunnerFinishes, RunnerFails, Step
  <2>4. ASSUME NEW a \in Admins, NEW r \in Runners, GitUpdate(a, r) \/ GitRollback(a, r)
        PROVE  FALSE
    BY <1>3, <2>4 DEF GitUpdate, GitRollback, Offered
  <2>5. CASE Reboot
    BY <1>3, <2>5, BootBundle DEF Reboot, rowVars, fileVars
  <2>6. CASE SaveSettings
    BY <2>6, QuietBundle DEF SaveSettings, SaveRow, webVars, fileVars, requestVars, TypeInv, RowTypeOK, Row
  <2>7. CASE LockAges \/ UNCHANGED vars \/ \E a \in Admins : WaitEnds(a)
    BY <2>7, QuietBundle DEF LockAges, WaitEnds, vars, rowVars, webVars, fileVars, requestVars, tabVars
  <2>8. ASSUME NEW a \in Admins, ViewStatus(a) \/ AnswerLost(a)
        PROVE  BundleInv'
    <3>1. Leaves(a) /\ UNCHANGED <<settings, migrated, webVars, fileVars, at>>
      BY <2>8 DEF ViewStatus, AnswerLost, rowVars
    <3>2. \A q \in Requests : /\ flow'[q].version = flow[q].version
                              /\ flow'[q].before = flow[q].before
                              /\ flow'[q].beside = flow[q].beside
      BY <3>1, LeavesType DEF TypeInv
    <3>3. \A b \in Admins : page'[b].row.previous \in {page[b].row.previous, settings.previous}
      BY <2>8 DEF ViewStatus, AnswerLost, TypeInv, TabTypeOK
    <3> QED
      BY <3>1, <3>2, <3>3, QuietBundle DEF webVars, fileVars
  <2> QED
    BY <2>1, <2>2, <2>3, <2>4, <2>5, <2>6, <2>7, <2>8 DEF Next
<1> QED
  BY <1>2, <1>3, SelfUpdateAssumption DEF TypeInv, WebTypeOK, SelfUpdateAssumption

\* What is offered for activation is whole, configured and migrated, whichever stage(),
\* activation and rollback overlap, from any number of tabs, and whatever fails or is
\* killed; except for a version that was staged again while it was in use.
THEOREM StagedReady == Spec => []StagedIsReady
<1>1. TypeInv /\ OneWay /\ BundleInv => StagedIsReady
  <2> SUFFICES ASSUME TypeInv, OneWay, BundleInv, settings.staged # NoVersion,
                      settings.staged \notin disturbed
               PROVE  Complete(settings.staged) /\ settings.staged \in migrated
    BY DEF StagedIsReady
  <2>1. install = "aapanel"
    BY SelfUpdateAssumption DEF OneWay, TypeInv, WebTypeOK, SelfUpdateAssumption
  <2>2. settings.staged \in Versions /\ Wanted(settings.staged)
    BY DEF TypeInv, RowTypeOK, Row, VersionOrNone, Wanted
  <2> QED
    BY <2>1, <2>2 DEF BundleInv, Ready
<1>2. TypeInv /\ OneWay /\ [Next]_vars => OneWay'
  BY OneWayStep
<1>3. TypeInv /\ OneWay /\ BundleInv /\ [Next]_vars => BundleInv'
  BY BundleStep
<1> QED
  BY <1>1, <1>2, <1>3, TypeInit, TypeStep, OneWayInit, BundleInit, PTL DEF Spec

\* What the page says of an update is so: what it offers is ready, and the steps it
\* ticks off are done, as long as no runner outlives its lock.
THEOREM PageIsRight ==
    ASSUME RunsWithinTTL
    PROVE  Spec => []ShownIsTrue
<1>1. StagedIsReady /\ ChecklistIsTrue => ShownIsTrue
  BY DEF ShownIsTrue
<1> QED
  BY <1>1, StagedReady, ChecklistTrue, PTL

\* Only its restart takes a runner from there to its end, and that boots the tree.
LEMMA RunnerRestartIsRight ==
    ASSUME TypeInv, OneWay, CheckInv, [Next]_vars, NEW r \in Runners,
           runner[r].at = "restart", runner'[r].at = "finish"
    PROVE  /\ running' = runner[r].target /\ runner[r].target \in migrated
           /\ settings.previous # NoVersion
<1>1. RunnerRestarts(r)
  <2>1. PICK s \in Runners : RunnerStep(s) \/ RunnerKilled(s)
    <3>1. runner' # runner
      OBVIOUS
    <3>2. ASSUME NEW a \in Admins, NEW s \in Runners, GitUpdate(a, s) \/ GitRollback(a, s)
          PROVE  FALSE
      <4>1. \/ runner' = runner
            \/ runner'[s].at = "start" /\ \A o \in Runners \ {s} : runner'[o] = runner[o]
        BY <3>2 DEF GitUpdate, GitRollback, LaunchGit, Spawn, Off, TypeInv, GitTypeOK
      <4> QED
        BY <4>1
    <3>3. ~ UNCHANGED gitVars /\ ~LockAges /\ ~ UNCHANGED vars
      BY <3>1 DEF gitVars, LockAges, vars
    <3> QED
      BY <3>2, <3>3, RequestsLeaveGitAlone DEF Next
  <2>2. s = r
    BY <2>1 DEF RunnerStep, RunnerKilled, RunnerStarts, RunnerReads, Checkout, Install, Migrate, Build,
         RecordHistory, RunnerRestarts, RunnerFinishes, RunnerFails, Step, TypeInv, GitTypeOK
  <2> QED
    BY <2>1, <2>2 DEF RunnerStep, RunnerKilled, RunnerStarts, RunnerReads, Checkout, Install, Migrate,
         Build, RecordHistory, RunnerFinishes, RunnerFails, Step, Off, TypeInv, GitTypeOK
<1>2. Reached(r)
  BY DEF CheckInv
<1>3. install = "git"
  BY SelfUpdateAssumption DEF OneWay, Live, TypeInv, WebTypeOK, SelfUpdateAssumption
<1> QED
  BY <1>1, <1>2, <1>3, BootsTheTree DEF RunnerRestarts, Reached

\* Only its restart ends a request that has come to it, unless something fails or dies,
\* and that boots what is linked.
LEMMA RequestRestartIsRight ==
    ASSUME TypeInv, OneWay, BundleInv, [Next]_vars, NEW q \in Requests,
           at[q] = "restart", at'[q] = "idle", faults' = faults
    PROVE  /\ link \notin disturbed => running' = link /\ link \in migrated
           /\ settings.previous # NoVersion
           /\ flow[q].beside = {} => link = flow[q].version /\ settings.staged = NoVersion
<1>1. install = "aapanel"
  BY SelfUpdateAssumption DEF OneWay, Open, TypeInv, WebTypeOK, SelfUpdateAssumption
<1>2. ~Fault
  BY SelfUpdateAssumption DEF Fault, TypeInv, BoundTypeOK, SelfUpdateAssumption
<1>3. PICK p \in Requests : Restart(p)
  <2>1. at' # at
    OBVIOUS
  <2>2. ASSUME NEW r \in Runners, RunnerStep(r) \/ RunnerKilled(r)
        PROVE  FALSE
    BY <1>1, <2>2 DEF OneWay, Live, RunnerStep, RunnerKilled, RunnerStarts, RunnerReads, Checkout,
         Install, Migrate, Build, RecordHistory, RunnerRestarts, RunnerFinishes, RunnerFails, Step
  <2>3. ASSUME NEW a \in Admins, NEW r \in Runners, GitUpdate(a, r) \/ GitRollback(a, r)
        PROVE  FALSE
    BY <1>1, <2>3 DEF GitUpdate, GitRollback, Offered
  <2>4. ASSUME NEW a \in Admins, NEW p \in Requests, StageBegins(a, p) \/ Activate(a, p) \/ Rollback(a, p)
        PROVE  FALSE
    BY <2>4 DEF StageBegins, Activate, Rollback, Begins, FreeRequest, Open, TypeInv, RequestTypeOK
  <2>5. ~Reboot /\ ~SaveSettings /\ ~LockAges /\ ~ UNCHANGED vars
    BY <1>2, <2>1 DEF Reboot, SaveSettings, LockAges, vars, requestVars
  <2>6. ASSUME NEW a \in Admins, ViewStatus(a) \/ AnswerLost(a) \/ WaitEnds(a)
        PROVE  FALSE
    BY <2>1, <2>6 DEF ViewStatus, AnswerLost, WaitEnds, requestVars
  <2>7. PICK p \in Requests : RequestStep(p)
    BY <2>2, <2>3, <2>4, <2>5, <2>6 DEF Next
  <2>8. ~Stage(p) /\ ~Locate(p) /\ ~SwapSymlink(p) /\ ~RecordActivation(p)
    BY DEF Stage, Download, VerifyChecksum, ClearPartial, Extract, RemoveOld, RenamePartial,
         CarryEnvFile, BackupDb, RunMigrations, MarkStaged, Locate, SwapSymlink, RecordActivation,
         Goes, Answers, TypeInv, RequestTypeOK
  <2>9. ~RequestFails(p)
    <3>1. RequestFails(p) => p = q
      BY DEF RequestFails, Answers, TypeInv, RequestTypeOK
    <3> QED
      BY <1>2, <3>1 DEF RequestFails, Thwarted
  <2> QED
    BY <2>7, <2>8, <2>9 DEF RequestStep, SwapAndRestart
<1>4. link \notin disturbed => Complete(link) /\ link \in migrated
  BY <1>1 DEF BundleInv, Ready, Wanted, TypeInv, FileTypeOK
<1>5. link \notin disturbed => running' = link
  BY <1>1, <1>3, <1>4 DEF Restart, Boot
<1>6. Swapped(q) /\ Open(q)
  BY DEF BundleInv, Open
<1> QED
  BY <1>4, <1>5, <1>6 DEF Swapped

\* Every restart that an update asks for boots what it is to boot, in either layout and
\* whichever requests overlap, as long as no runner outlives its lock.
THEOREM RestartsAreConsistent ==
    ASSUME RunsWithinTTL
    PROVE  Spec => RestartIsConsistent
<1> DEFINE
      Right ==
        /\ \A r \in Runners : runner[r].at = "restart" /\ runner'[r].at = "finish" =>
             /\ running' = runner[r].target /\ runner[r].target \in migrated
             /\ settings.previous # NoVersion
        /\ \A q \in Requests : at[q] = "restart" /\ at'[q] = "idle" /\ faults' = faults =>
             /\ link \notin disturbed => running' = link /\ link \in migrated
             /\ settings.previous # NoVersion
             /\ flow[q].beside = {} => link = flow[q].version /\ settings.staged = NoVersion
<1>1. TypeInv /\ OneWay /\ CheckInv /\ BundleInv /\ [Next]_vars => [Right]_vars
  BY RunnerRestartIsRight, RequestRestartIsRight
<1>2. TypeInv /\ LockInv /\ [Next]_vars => LockInv'
  BY LockStep
<1>3. TypeInv /\ OneWay /\ [Next]_vars => OneWay'
  BY OneWayStep
<1>4. TypeInv /\ LockInv /\ OneWay /\ CheckInv /\ [Next]_vars => CheckInv'
  BY CheckStep
<1>5. TypeInv /\ OneWay /\ BundleInv /\ [Next]_vars => BundleInv'
  BY BundleStep
<1>6. [][Right]_vars => RestartIsConsistent
  BY DEF RestartIsConsistent
<1> HIDE DEF Right
<1> QED
  BY <1>1, <1>2, <1>3, <1>4, <1>5, <1>6, TypeInit, TypeStep, LockInit, OneWayInit, CheckInit,
     BundleInit, PTL DEF Spec

=============================================================================
