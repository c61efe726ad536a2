---------------------------- MODULE Views_proofs ----------------------------
(***************************************************************************)
(* Proofs about Lists and Views, for any panel, items, terms, page limit,  *)
(* requests, views and number of faults: what the actions of a page do to  *)
(* a panel and to its journal, that a list without a notice is whole, and  *)
(* that a view belongs to its opening and never goes back.                 *)
(*                                                                         *)
(* A behaviour is about a list or about a view.  WorkInv is about the      *)
(* action under way, ListInv about the list and its requests, ViewInv      *)
(* about the view and its loads.                                           *)
(***************************************************************************)
EXTENDS Views, FiniteSetTheorems, SequenceTheorems, TLAPS

-----------------------------------------------------------------------------
(* The action under way: how far it is.                                    *)

\* What is left to do of an action that writes its line first, of one that reads the
\* state of a task first, and of any other.
SwornTodo == {<<"begin", "ask", "finish">>, <<"ask", "finish">>, <<"finish">>, <<>>}
SwitchTodo == {<<"read", "ask", "record">>, <<"ask", "record">>, <<"record">>, <<>>}
PlainTodo == {<<"ask", "record">>, <<"record">>, <<>>}
TodoOf(op) ==
    IF op \in Irreversible THEN SwornTodo ELSE IF section = "cron" THEN SwitchTodo ELSE PlainTodo

\* The first step of each list and the rest of it.
LEMMA TodoSteps ==
    /\ Head(<<"begin", "ask", "finish">>) = "begin"
    /\ Tail(<<"begin", "ask", "finish">>) = <<"ask", "finish">>
    /\ Head(<<"ask", "finish">>) = "ask" /\ Tail(<<"ask", "finish">>) = <<"finish">>
    /\ Head(<<"finish">>) = "finish" /\ Tail(<<"finish">>) = <<>>
    /\ Head(<<"read", "ask", "record">>) = "read"
    /\ Tail(<<"read", "ask", "record">>) = <<"ask", "record">>
    /\ Head(<<"ask", "record">>) = "ask" /\ Tail(<<"ask", "record">>) = <<"record">>
    /\ Head(<<"record">>) = "record" /\ Tail(<<"record">>) = <<>>
OBVIOUS

\* No two of these lists are the same.
LEMMA TodosDiffer ==
    /\ <<"begin", "ask", "finish">> \notin {<<"ask", "finish">>, <<"finish">>, <<>>} \cup SwitchTodo
    /\ <<"ask", "finish">> \notin {<<"finish">>, <<>>} \cup SwitchTodo
    /\ <<"finish">> \notin {<<>>} \cup SwitchTodo
    /\ <<"read", "ask", "record">> \notin {<<"ask", "record">>, <<"record">>, <<>>}
    /\ <<"ask", "record">> \notin {<<"record">>, <<>>}
    /\ <<"record">> # <<>>
BY DEF SwitchTodo

\* Which steps an action has.
LEMMA StepsAre ==
    ASSUME section \in Sections, NEW op \in OpsIn[section]
    PROVE  /\ section \in {"cron", "ftp", "databases", "projects"}
           /\ StepsOf(op) = IF op \in Irreversible THEN <<"begin", "ask", "finish">>
                            ELSE IF section = "cron" THEN <<"read", "ask", "record">>
                            ELSE <<"ask", "record">>
<1>1. section \in {"projects", "databases", "sites", "cron", "ftp", "firewall"}
  BY PanelWorkAssumption
<1>2. section = "cron" => op \in {"run", "enable", "disable", "delete"}
  BY DEF OpsIn
<1>3. section = "ftp" => op \in {"create", "password", "enable", "disable", "delete"}
  BY DEF OpsIn
<1>4. section = "databases" => op \in {"create", "delete"}
  BY DEF OpsIn
<1>5. section = "projects" => op \in {"create", "modify", "delete", "start", "stop", "restart"}
  BY DEF OpsIn
<1>6. section \notin {"sites", "firewall"}
  BY DEF OpsIn
<1>7. section \in {"cron", "ftp", "databases", "projects"}
  BY <1>1, <1>6
<1>8. CASE section = "cron"
  BY <1>2, <1>8 DEF StepsOf, Irreversible, RunCronTaskAction, DeleteCronTaskAction, SetCronTaskEnabledAction
<1>9. CASE section = "ftp"
  BY <1>3, <1>9 DEF StepsOf, Irreversible, CreateFtpUserAction, SetFtpUserPasswordAction,
                    DeleteFtpUserAction, SetFtpUserEnabledAction
<1>10. CASE section = "databases"
  BY <1>4, <1>10 DEF StepsOf, Irreversible, CreateDatabaseAction, DeleteDatabaseAction
<1>11. CASE section = "projects"
  BY <1>5, <1>11 DEF StepsOf, Irreversible, CreateProjectAction, ModifyProjectAction, DeleteProjectAction,
                     ProjectControlAction
<1> QED
  BY <1>7, <1>8, <1>9, <1>10, <1>11

-----------------------------------------------------------------------------
(* What the panel holds, and the action under way.                         *)

PanelTyped == have \in [Items -> State] /\ era \in 0 .. MaxChanges + 1

WorkRec == [op : OpsIn[section], item : Items, term : Terms, todo : SwornTodo \cup SwitchTodo,
            touched : BOOLEAN, result : {"ok", "error"}]

\* The request that changes something is still to be made.
AskAhead == work.todo \in {<<"begin", "ask", "finish">>, <<"ask", "finish">>,
                           <<"read", "ask", "record">>, <<"ask", "record">>}

\* An action belongs to a list; it is at one of its steps, and began while the bound
\* on changes left room for its own.
WorkTyped ==
    work # None =>
        /\ section \in Sections
        /\ work \in WorkRec /\ work.todo \in TodoOf(work.op)
        /\ AskAhead => era <= MaxChanges

\* A switch that has gone well and that nobody disturbed: a task has been read and is not
\* as asked, or the item has become what was asked for.
SwitchSound ==
    work # None /\ Asked(work.op) # None /\ work.result = "ok" /\ ~work.touched =>
        /\ section = "cron" /\ work.todo = <<"ask", "record">> =>
            have[work.item] \in {"off", "on"} \ {Asked(work.op)}
        /\ work.todo \in {<<"record">>, <<>>} => have[work.item] = Asked(work.op)

\* The lines of the journal and what has been done are those of the action under way; one
\* that cannot be undone has its line before it is done.
Sworn ==
    /\ work.todo \in {<<"ask", "finish">>, <<"finish">>} => Line("started") \in journal
    /\ work.todo \in {<<"begin", "ask", "finish">>, <<"ask", "finish">>} => acted = {}
    /\ work.result = "ok" /\ work.todo \in {<<"finish">>, <<>>} =>
        [op |-> work.op, item |-> work.item] \in acted
    /\ acted # {} => journal # {}
    /\ \A line \in journal :
        line.result = "ok" => [op |-> work.op, item |-> work.item] \in acted
LinesSound ==
    section \in Sections =>
        /\ work = None => journal = {} /\ acted = {}
        /\ work # None =>
            /\ \A line \in journal : line.op = work.op /\ line.item = work.item
            /\ \A done \in acted : done = [op |-> work.op, item |-> work.item]
            /\ IF work.op \in Irreversible THEN Sworn ELSE acted = {}

\* In a view the only lines are those of files that are being read.
ReadsSound ==
    section \in Views =>
        /\ work = None
        /\ \A done \in acted : done.op = "read" /\ ReadLine(done.item) \in journal
        /\ \A line \in journal : line = ReadLine(line.item)

WorkInv == PanelTyped /\ WorkTyped /\ SwitchSound /\ LinesSound /\ ReadsSound

\* The sections are lists, the others views.
LEMMA ListsAreNoViews == Sections \cap Views = {}
  BY PanelWorkAssumption, ViewsAssumption

\* What a request does to the panel once it reaches it.
LEMMA WhatIsPerformed ==
    ASSUME PanelTyped, section \in Sections, NEW op \in OpsIn[section], NEW i \in Items, Performs(op, i)
    PROVE  /\ have' \in [Items -> State] /\ era' \in {era, era + 1}
           /\ era' = era => have' = have
           /\ Asked(op) # None =>
                IF section = "cron" THEN have'[i] = OnOff(i) ELSE have'[i] = Asked(op)
<1>1. \A state \in State : Becomes(i, state) =>
          /\ have' \in [Items -> State] /\ era' \in {era, era + 1}
          /\ era' = era => have' = have
          /\ have'[i] = state
  <2> SUFFICES ASSUME NEW state \in State, Becomes(i, state)
               PROVE  /\ have' \in [Items -> State] /\ era' \in {era, era + 1}
                      /\ era' = era => have' = have
                      /\ have'[i] = state
    OBVIOUS
  <2>1. have \in [Items -> State] /\ era \in Nat
    BY PanelWorkAssumption DEF PanelTyped
  <2>2. have' \in [Items -> State] /\ have'[i] = state /\ era' \in {era, era + 1}
    BY <2>1 DEF Becomes
  <2>3. ASSUME era' = era PROVE have' = have
    <3>1. have[i] = state
      BY <2>1, <2>3 DEF Becomes
    <3> QED
      BY <2>1, <3>1 DEF Becomes
  <2> QED
    BY <2>2, <2>3
<1>2. Keeps => have' \in [Items -> State] /\ era' = era /\ have' = have
  BY DEF Keeps, panel, PanelTyped
<1>3. section \in {"cron", "ftp", "databases", "projects"}
  BY StepsAre
<1>4. /\ {"gone", "off", "on"} \subseteq State /\ OnOff(i) \in State
  BY DEF State, OnOff
<1>5. CASE section = "cron"
  <2>1. op \in {"run", "enable", "disable", "delete"}
    BY <1>5 DEF OpsIn
  <2>2. CASE op = "run"
    BY <1>2, <1>5, <2>2 DEF Performs, RunCronTask, Asked
  <2>3. CASE op = "delete"
    <3>1. Becomes(i, "gone")
      BY <1>5, <2>3 DEF Performs, DeleteCronTask
    <3> QED
      BY <1>1, <1>4, <2>3, <3>1 DEF Asked
  <2>4. CASE op \in {"enable", "disable"}
    <3>1. Becomes(i, OnOff(i))
      BY <1>5, <2>4 DEF Performs, ToggleCronTask
    <3> QED
      BY <1>1, <1>4, <1>5, <3>1
  <2> QED
    BY <2>1, <2>2, <2>3, <2>4
<1>6. CASE section = "ftp"
  <2>1. op \in {"create", "password", "enable", "disable", "delete"}
    BY <1>6 DEF OpsIn
  <2>2. CASE op = "password"
    BY <1>2, <1>6, <2>2 DEF Performs, SetFtpUserPassword, Asked
  <2>3. CASE op \in {"create", "delete"}
    <3>1. Becomes(i, "on") \/ Becomes(i, "gone")
      BY <1>6, <2>3 DEF Performs, CreateFtpUser, DeleteFtpUser
    <3> QED
      BY <1>1, <1>4, <2>3, <3>1 DEF Asked
  <2>4. CASE op \in {"enable", "disable"}
    <3>1. Becomes(i, IF op = "enable" THEN "on" ELSE "off")
      BY <1>6, <2>4 DEF Performs, SetFtpUserEnabled
    <3> QED
      BY <1>1, <1>4, <1>6, <2>4, <3>1 DEF Asked
  <2> QED
    BY <2>1, <2>2, <2>3, <2>4
<1>7. CASE section = "databases"
  <2>1. op \in {"create", "delete"}
    BY <1>7 DEF OpsIn
  <2>2. Becomes(i, "on") \/ Becomes(i, "gone")
    BY <1>7, <2>1 DEF Performs, CreateDatabase, DeleteDatabase
  <2> QED
    BY <1>1, <1>4, <2>1, <2>2 DEF Asked
<1>8. CASE section = "projects"
  <2>1. op \in {"create", "modify", "delete", "start", "stop", "restart"}
    BY <1>8 DEF OpsIn
  <2>2. CASE op = "create"
    <3>1. \E state \in {"on", "off"} : Becomes(i, state)
      BY <1>8, <2>2 DEF Performs, CreateProject
    <3> QED
      BY <1>1, <1>4, <2>2, <3>1 DEF Asked
  <2>3. CASE op = "modify"
    BY <1>2, <1>8, <2>3 DEF Performs, ModifyProject, Asked
  <2>4. CASE op = "delete"
    <3>1. Becomes(i, "gone")
      BY <1>8, <2>4 DEF Performs, DeleteProject, BatchOperation
    <3> QED
      BY <1>1, <1>4, <2>4, <3>1 DEF Asked
  <2>5. CASE op = "stop"
    <3>1. Becomes(i, "off")
      BY <1>8, <2>5 DEF Performs, BatchOperation
    <3> QED
      BY <1>1, <1>4, <1>8, <2>5, <3>1 DEF Asked
  <2>6. CASE op \in {"start", "restart"}
    <3>1. Becomes(i, "on")
      BY <1>8, <2>6 DEF Performs, BatchOperation
    <3> QED
      BY <1>1, <1>4, <1>8, <2>6, <3>1 DEF Asked
  <2> QED
    BY <2>1, <2>2, <2>3, <2>4, <2>5, <2>6
<1> QED
  BY <1>3, <1>5, <1>6, <1>7, <1>8

\* Where an action is when it takes a step, and where the step leads.
LEMMA AtStep ==
    ASSUME WorkTyped, NEW step, Doing(step)
    PROVE  /\ work # None /\ section \in Sections
           /\ Onward = [work EXCEPT !.todo = Tail(work.todo)] /\ Tail(work.todo) \in TodoOf(work.op)
           /\ step = "begin" => /\ work.todo = <<"begin", "ask", "finish">> /\ work.op \in Irreversible
                                /\ Tail(work.todo) = <<"ask", "finish">>
           /\ step = "read" => /\ work.todo = <<"read", "ask", "record">> /\ section = "cron"
                               /\ work.op \notin Irreversible /\ Tail(work.todo) = <<"ask", "record">>
           /\ step = "ask" =>
                \/ /\ work.todo = <<"ask", "finish">> /\ Tail(work.todo) = <<"finish">>
                   /\ work.op \in Irreversible
                \/ /\ work.todo = <<"ask", "record">> /\ Tail(work.todo) = <<"record">>
                   /\ work.op \notin Irreversible
           /\ step = "record" => /\ work.todo = <<"record">> /\ Tail(work.todo) = <<>>
                                 /\ work.op \notin Irreversible
           /\ step = "finish" => /\ work.todo = <<"finish">> /\ Tail(work.todo) = <<>>
                                 /\ work.op \in Irreversible
<1>1. work # None /\ section \in Sections /\ Head(work.todo) = step /\ work.todo # <<>>
      /\ work.todo \in TodoOf(work.op)
  BY DEF Doing, WorkTyped
<1>2. CASE work.op \in Irreversible
  <2>1. work.todo \in {<<"begin", "ask", "finish">>, <<"ask", "finish">>, <<"finish">>}
    BY <1>1, <1>2 DEF TodoOf, SwornTodo
  <2> QED
    BY <1>1, <1>2, <2>1, TodoSteps DEF TodoOf, SwornTodo, Onward
<1>3. CASE work.op \notin Irreversible /\ section = "cron"
  <2>1. work.todo \in {<<"read", "ask", "record">>, <<"ask", "record">>, <<"record">>}
    BY <1>1, <1>3 DEF TodoOf, SwitchTodo
  <2> QED
    BY <1>1, <1>3, <2>1, TodoSteps DEF TodoOf, SwitchTodo, Onward
<1>4. CASE work.op \notin Irreversible /\ section # "cron"
  <2>1. work.todo \in {<<"ask", "record">>, <<"record">>}
    BY <1>1, <1>4 DEF TodoOf, PlainTodo
  <2> QED
    BY <1>1, <1>4, <2>1, TodoSteps DEF TodoOf, PlainTodo, Onward
<1> QED
  BY <1>2, <1>3, <1>4

\* The fields of the action under way, and what a step makes of them.
Became(w, todo, touched, result) ==
    /\ w \in WorkRec /\ w.op = work.op /\ w.item = work.item /\ w.term = work.term
    /\ w.todo = todo /\ w.touched = touched /\ w.result = result

\* An action that goes on to the rest of its steps is otherwise the same.
LEMMA TodoSet ==
    ASSUME NEW w \in WorkRec, NEW todo \in SwornTodo \cup SwitchTodo
    PROVE  LET v == [w EXCEPT !.todo = todo] IN
           /\ v \in WorkRec /\ v.op = w.op /\ v.item = w.item /\ v.term = w.term
           /\ v.todo = todo /\ v.touched = w.touched /\ v.result = w.result
BY DEF WorkRec
\* An action that has learnt how its request went is otherwise the same.
LEMMA ResultSet ==
    ASSUME NEW w \in WorkRec, NEW result \in {"ok", "error"}
    PROVE  LET v == [w EXCEPT !.result = result] IN
           /\ v \in WorkRec /\ v.op = w.op /\ v.item = w.item /\ v.term = w.term
           /\ v.todo = w.todo /\ v.touched = w.touched /\ v.result = result
BY DEF WorkRec
\* An action that has reached the panel is otherwise the same.
LEMMA TouchedSet ==
    ASSUME NEW w \in WorkRec, NEW touched \in BOOLEAN
    PROVE  LET v == [w EXCEPT !.touched = touched] IN
           /\ v \in WorkRec /\ v.op = w.op /\ v.item = w.item /\ v.term = w.term
           /\ v.todo = w.todo /\ v.touched = touched /\ v.result = w.result
BY DEF WorkRec

\* What the operators of PanelWork make of the action under way.
LEMMA WorkFields ==
    ASSUME WorkTyped, work # None
    PROVE  /\ Became(work, work.todo, work.touched, work.result)
           /\ Became([work EXCEPT !.touched = TRUE], work.todo, TRUE, work.result)
           /\ \A todo \in SwornTodo \cup SwitchTodo, touched \in BOOLEAN :
                Became([work EXCEPT !.todo = todo, !.touched = touched], todo, touched, work.result)
<1>1. work \in WorkRec /\ <<>> \in SwornTodo \cup SwitchTodo
  BY DEF WorkTyped, SwornTodo
<1>2. Became(work, work.todo, work.touched, work.result)
  BY <1>1 DEF Became
<1>3. Became([work EXCEPT !.touched = TRUE], work.todo, TRUE, work.result)
  BY <1>1, TouchedSet DEF Became
<1>4. ASSUME NEW todo \in SwornTodo \cup SwitchTodo, NEW touched \in BOOLEAN
      PROVE  Became([work EXCEPT !.todo = todo, !.touched = touched], todo, touched, work.result)
  <2>1. PICK w : w = [work EXCEPT !.todo = todo]
    OBVIOUS
  <2>2. w \in WorkRec /\ w.op = work.op /\ w.item = work.item /\ w.term = work.term /\ w.todo = todo
        /\ w.result = work.result
    BY <1>1, <2>1, TodoSet
  <2>3. Became([w EXCEPT !.touched = touched], todo, touched, work.result)
    BY <2>2, TouchedSet DEF Became
  <2> QED
    BY <2>1, <2>3
<1> QED
  BY <1>2, <1>3, <1>4, Zenon

\* An action that ends for want of an answer.
LEMMA EndFields ==
    ASSUME WorkTyped, work # None, EndsWith("error")
    PROVE  Became(work', <<>>, work.touched, "error")
<1>0. work \in WorkRec /\ <<>> \in SwornTodo \cup SwitchTodo
  BY DEF WorkTyped, SwornTodo
<1>1. PICK w : w = [work EXCEPT !.todo = <<>>]
  OBVIOUS
<1>2. w \in WorkRec /\ w.op = work.op /\ w.item = work.item /\ w.term = work.term /\ w.todo = <<>>
      /\ w.touched = work.touched
  BY <1>0, <1>1, TodoSet
<1>3. Became([w EXCEPT !.result = "error"], <<>>, work.touched, "error")
  BY <1>2, ResultSet DEF Became
<1> QED
  BY <1>1, <1>3 DEF EndsWith

\* What a step makes of it.
LEMMA StepFields ==
    ASSUME WorkTyped, NEW step, Doing(step)
    PROVE  LET rest == Tail(work.todo) IN
           /\ rest \in SwornTodo \cup SwitchTodo
           /\ Became(Onward, rest, work.touched, work.result)
           /\ Became(Fails, rest, work.touched, "error")
           /\ \A touched \in BOOLEAN :
                Became([Onward EXCEPT !.touched = touched], rest, touched, work.result)
           /\ Became([Fails EXCEPT !.todo = <<"record">>], <<"record">>, work.touched, "error")
<1>1. PICK rest : rest = Tail(work.todo)
  OBVIOUS
<1>2. work \in WorkRec /\ rest \in SwornTodo \cup SwitchTodo /\ <<"record">> \in SwornTodo \cup SwitchTodo
  BY <1>1, AtStep DEF WorkTyped, TodoOf, PlainTodo, SwitchTodo
<1>3. PICK w : w = [work EXCEPT !.todo = rest]
  OBVIOUS
<1>4. Became(w, rest, work.touched, work.result) /\ w = Onward
  BY <1>1, <1>2, <1>3, TodoSet DEF Became, Onward
<1>5. PICK f : f = [w EXCEPT !.result = "error"]
  OBVIOUS
<1>6. Became(f, rest, work.touched, "error") /\ f = Fails
  BY <1>4, <1>5, ResultSet DEF Became, Fails
<1>7. Became([f EXCEPT !.todo = <<"record">>], <<"record">>, work.touched, "error")
  BY <1>2, <1>6, TodoSet DEF Became
<1>8. \A touched \in BOOLEAN : Became([w EXCEPT !.touched = touched], rest, touched, work.result)
  BY <1>4, TouchedSet DEF Became
<1> QED
  BY <1>1, <1>2, <1>4, <1>6, <1>7, <1>8

\* A task is not mistaken for none.
LEMMA TasksAre == section \in Sections => WorkRec \subseteq Task /\ None \notin WorkRec
<1>1. SwornTodo \cup SwitchTodo \subseteq Seq({"begin", "read", "ask", "finish", "record"})
  BY DEF SwornTodo, SwitchTodo
<1>2. section \in Sections => OpsIn[section] \subseteq UNION {OpsIn[s] : s \in Sections}
  OBVIOUS
<1> QED
  BY <1>1, <1>2, TaskAssumption DEF Task, WorkRec

\* An action that goes on is one of the list, on the same item.
LEMMA WorkGoesOn ==
    ASSUME WorkTyped, work # None, section' = section, NEW todo \in TodoOf(work.op),
           NEW touched \in BOOLEAN, NEW result \in {"ok", "error"},
           Became(work', todo, touched, result),
           todo \in {<<"begin", "ask", "finish">>, <<"ask", "finish">>,
                     <<"read", "ask", "record">>, <<"ask", "record">>} => era' <= MaxChanges
    PROVE  /\ WorkTyped' /\ ReadsSound' /\ section \in Sections /\ work' # None
           /\ work'.op = work.op /\ work'.item = work.item /\ work'.todo = todo
           /\ work'.touched = touched /\ work'.result = result
<1>1. section \in Sections
  BY DEF WorkTyped
<1>2. work'.op = work.op /\ work'.item = work.item /\ work'.term = work.term /\ work'.todo = todo
      /\ work'.touched = touched /\ work'.result = result
  BY DEF Became
<1>3. todo \in TodoOf(work.op)'
  BY <1>2 DEF TodoOf, Irreversible
<1>4. work' \in WorkRec'
  BY DEF Became, WorkRec
<1>5. WorkTyped'
  BY <1>1, <1>2, <1>3, <1>4 DEF WorkTyped, AskAhead
<1>6. ReadsSound'
  BY <1>1, ListsAreNoViews DEF ReadsSound
<1>7. work' # None
  <2>1. WorkRec' = WorkRec
    BY DEF WorkRec
  <2> QED
    BY <1>1, <1>4, <2>1, TasksAre
<1> QED
  BY <1>1, <1>2, <1>5, <1>6, <1>7

-----------------------------------------------------------------------------
(* The steps of an action keep WorkInv.                                    *)

\* An action begins, or is refused before it does anything.
LEMMA StartKeeps ==
    ASSUME WorkInv, section' = section, section \in Sections, NEW op \in OpsIn[section],
           NEW i \in Items, NEW term \in Terms, StartWork(op, i, term)
    PROVE  WorkInv'
<1>1. PICK steps \in {StepsOf(op), <<>>} :
          work' = [op |-> op, item |-> i, term |-> term, todo |-> steps, touched |-> FALSE,
                   result |-> IF steps = <<>> THEN "error" ELSE "ok"]
  BY DEF StartWork
<1>2. work = None /\ era <= MaxChanges /\ UNCHANGED <<have, era, journal, acted>>
  BY DEF StartWork, panel
<1>3. work'.op = op /\ work'.item = i /\ work'.todo = steps /\ work'.touched = FALSE
      /\ work'.result = IF steps = <<>> THEN "error" ELSE "ok"
  BY <1>1
<1>4. steps \in {<<"begin", "ask", "finish">>, <<"read", "ask", "record">>, <<"ask", "record">>, <<>>}
      /\ (section # "cron" => steps # <<"read", "ask", "record">>)
      /\ (section = "cron" => steps # <<"ask", "record">>)
      /\ steps \in TodoOf(op) \cap (SwornTodo \cup SwitchTodo)
  <2>1. steps \in {<<"begin", "ask", "finish">>, <<"read", "ask", "record">>, <<"ask", "record">>, <<>>}
        /\ (section # "cron" => steps # <<"read", "ask", "record">>)
        /\ (section = "cron" => steps # <<"ask", "record">>)
    BY <1>1, StepsAre, TodosDiffer DEF SwitchTodo
  <2>2. steps \in TodoOf(op)
    BY <1>1, StepsAre DEF TodoOf, SwornTodo, SwitchTodo, PlainTodo
  <2>3. TodoOf(op) \subseteq SwornTodo \cup SwitchTodo
    BY DEF TodoOf, PlainTodo, SwitchTodo
  <2> QED
    BY <2>1, <2>2, <2>3
<1>5. WorkTyped'
  <2>1. work' \in WorkRec'
    BY <1>1, <1>4 DEF WorkRec
  <2>2. work'.todo \in TodoOf(work.op)'
    BY <1>3, <1>4 DEF TodoOf, Irreversible
  <2> QED
    BY <1>2, <2>1, <2>2 DEF WorkTyped
<1>6. SwitchSound'
  BY <1>3, <1>4, TodosDiffer DEF SwitchSound
<1>7. LinesSound'
  <2>1. journal' = {} /\ acted' = {}
    BY <1>2 DEF WorkInv, LinesSound
  <2>2. Sworn'
    BY <1>3, <1>4, <2>1, TodosDiffer DEF Sworn
  <2> QED
    BY <2>1, <2>2 DEF LinesSound
<1>8. ReadsSound' /\ PanelTyped'
  BY <1>2, ListsAreNoViews DEF ReadsSound, PanelTyped, WorkInv
<1> QED
  BY <1>5, <1>6, <1>7, <1>8 DEF WorkInv

\* What is known of the lines of an action under way.
LEMMA Lines ==
    ASSUME WorkInv, work # None
    PROVE  /\ section \in Sections
           /\ \A line \in journal : line.op = work.op /\ line.item = work.item
           /\ \A done \in acted : done = [op |-> work.op, item |-> work.item]
           /\ work.op \in Irreversible => Sworn
           /\ work.op \notin Irreversible => acted = {}
BY DEF WorkInv, WorkTyped, LinesSound

\* The line of an action that cannot be undone is written, or nothing is done.
LEMMA BeginKeeps ==
    ASSUME WorkInv, section' = section, BeginAudit
    PROVE  WorkInv'
<1>1. Doing("begin") /\ UNCHANGED <<have, era, acted>> /\ WorkTyped
  BY DEF BeginAudit, panel, WorkInv
<1>2. /\ work # None /\ work.todo = <<"begin", "ask", "finish">> /\ work.op \in Irreversible
      /\ Tail(work.todo) = <<"ask", "finish">> /\ Tail(work.todo) \in TodoOf(work.op)
  BY <1>1, AtStep
<1>3. /\ acted = {} /\ era <= MaxChanges /\ work.touched \in BOOLEAN /\ work.result \in {"ok", "error"}
      /\ <<>> \in TodoOf(work.op)
  BY <1>1, <1>2, Lines DEF Sworn, WorkTyped, WorkRec, AskAhead, TodoOf, SwornTodo
<1>4. CASE journal' = journal \cup {Line("started")} /\ work' = Onward
  <2>1. Became(work', <<"ask", "finish">>, work.touched, work.result)
    BY <1>1, <1>2, <1>4, StepFields
  <2>2. /\ WorkTyped' /\ ReadsSound' /\ work' # None /\ work'.op = work.op /\ work'.item = work.item
        /\ work'.todo = <<"ask", "finish">> /\ work'.result = work.result
    BY <1>1, <1>2, <1>3, <2>1, WorkGoesOn
  <2>3. Asked(work'.op) = None
    BY <1>2, <2>2 DEF Asked, Irreversible
  <2>4. Line("started")' = Line("started") /\ Line("started").op = work.op
        /\ Line("started").item = work.item /\ Line("started").result = "started"
    BY <2>2 DEF Line
  <2>5. Sworn'
    <3>1. \A line \in journal' : line.result # "ok"
      BY <1>2, <1>3, <1>4, <2>4, Lines DEF Sworn
    <3> QED
      BY <1>1, <1>3, <1>4, <2>2, <2>4, <3>1, TodosDiffer DEF Sworn
  <2>6. LinesSound'
    BY <1>1, <1>2, <1>3, <1>4, <2>2, <2>4, <2>5, Lines DEF LinesSound
  <2> QED
    BY <1>1, <2>2, <2>3, <2>6 DEF WorkInv, PanelTyped, SwitchSound
<1>5. CASE EndsWith("error") /\ UNCHANGED journal
  <2>1. Became(work', <<>>, work.touched, "error")
    BY <1>1, <1>2, <1>5, EndFields
  <2>2. /\ WorkTyped' /\ ReadsSound' /\ work' # None /\ work'.op = work.op /\ work'.item = work.item
        /\ work'.todo = <<>> /\ work'.result = "error"
    BY <1>1, <1>2, <1>3, <2>1, WorkGoesOn, TodosDiffer DEF SwitchTodo
  <2>3. Sworn'
    BY <1>1, <1>2, <1>3, <1>5, <2>2, Lines, TodosDiffer DEF Sworn
  <2>4. LinesSound'
    BY <1>1, <1>2, <1>3, <1>5, <2>2, <2>3, Lines DEF LinesSound
  <2> QED
    BY <1>1, <2>2, <2>4 DEF WorkInv, PanelTyped, SwitchSound
<1> QED
  BY <1>4, <1>5 DEF BeginAudit

\* The state of a task is read again before it is switched.
LEMMA ReadKeeps ==
    ASSUME WorkInv, section' = section, ReadTask
    PROVE  WorkInv'
<1>1. Doing("read") /\ UNCHANGED <<have, era, journal, acted>> /\ WorkTyped
  BY DEF ReadTask, panel, WorkInv
<1>2. /\ work # None /\ work.todo = <<"read", "ask", "record">> /\ section = "cron"
      /\ work.op \notin Irreversible /\ Tail(work.todo) = <<"ask", "record">>
      /\ Tail(work.todo) \in TodoOf(work.op) /\ <<"record">> \in TodoOf(work.op)
      /\ <<"record">> \in SwornTodo \cup SwitchTodo
  BY <1>1, AtStep DEF TodoOf, SwitchTodo
<1>3. /\ acted = {} /\ era <= MaxChanges /\ work.touched \in BOOLEAN /\ work.result \in {"ok", "error"}
      /\ work.item \in Items
  BY <1>1, <1>2, Lines DEF WorkTyped, WorkRec, AskAhead
<1>4. ASSUME NEW todo \in TodoOf(work.op), NEW touched \in BOOLEAN, NEW result \in {"ok", "error"},
             Became(work', todo, touched, result),
             result = "ok" /\ ~touched /\ Asked(work.op) # None =>
                /\ todo = <<"ask", "record">> => have[work.item] \in {"off", "on"} \ {Asked(work.op)}
                /\ todo \in {<<"record">>, <<>>} => have[work.item] = Asked(work.op)
      PROVE  WorkInv'
  <2>1. /\ WorkTyped' /\ ReadsSound' /\ work' # None /\ work'.op = work.op /\ work'.item = work.item
        /\ work'.todo = todo /\ work'.touched = touched /\ work'.result = result
    BY <1>1, <1>2, <1>3, <1>4, WorkGoesOn
  <2>2. LinesSound'
    BY <1>1, <1>2, <1>3, <2>1, Lines DEF LinesSound
  <2>3. Asked(work.op)' = Asked(work.op)
    BY <2>1 DEF Asked
  <2>4. SwitchSound'
    BY <1>1, <1>4, <2>1, <2>3 DEF SwitchSound
  <2> QED
    BY <1>1, <2>1, <2>2, <2>4 DEF WorkInv, PanelTyped
<1>5. CASE work.item \in There /\ have[work.item] # Asked(work.op) /\ work' = [Onward EXCEPT !.touched = FALSE]
  <2>1. Became(work', <<"ask", "record">>, FALSE, work.result)
    BY <1>1, <1>2, <1>5, StepFields
  <2>2. have[work.item] \in {"off", "on"}
    BY <1>3, <1>5 DEF There, State, WorkInv, PanelTyped
  <2> QED
    BY <1>2, <1>3, <1>4, <1>5, <2>1, <2>2, TodosDiffer
<1>6. CASE have[work.item] = Asked(work.op) /\ work' = [work EXCEPT !.todo = <<"record">>, !.touched = FALSE]
  <2>1. Became(work', <<"record">>, FALSE, work.result)
    <3>1. PICK todo \in SwornTodo \cup SwitchTodo, touched \in BOOLEAN : todo = <<"record">> /\ touched = FALSE
      BY <1>2
    <3>2. work' = [work EXCEPT !.todo = todo, !.touched = touched]
      BY <1>6, <3>1
    <3>3. Became([work EXCEPT !.todo = todo, !.touched = touched], todo, touched, work.result)
      BY <1>1, <1>2, WorkFields, Zenon
    <3> QED
      BY <3>1, <3>2, <3>3
  <2> QED
    BY <1>2, <1>3, <1>4, <1>6, <2>1, TodosDiffer
<1>7. CASE work' = [Fails EXCEPT !.todo = <<"record">>]
  <2>1. Became(work', <<"record">>, work.touched, "error")
    BY <1>1, <1>7, StepFields
  <2> QED
    BY <1>2, <1>3, <1>4, <2>1
<1> QED
  BY <1>5, <1>6, <1>7 DEF ReadTask

\* The request that changes something: it takes effect or not, and its answer may be
\* lost.
LEMMA AskKeeps ==
    ASSUME WorkInv, section' = section, Ask
    PROVE  WorkInv'
<1>1. Doing("ask") /\ UNCHANGED journal /\ WorkTyped /\ PanelTyped
  BY DEF Ask, WorkInv
<1>2. PICK rest : rest = Tail(work.todo)
  OBVIOUS
<1>3. /\ work # None /\ section \in Sections /\ rest \in TodoOf(work.op)
      /\ \/ work.todo = <<"ask", "finish">> /\ rest = <<"finish">> /\ work.op \in Irreversible
         \/ work.todo = <<"ask", "record">> /\ rest = <<"record">> /\ work.op \notin Irreversible
  BY <1>1, <1>2, AtStep
<1>4. /\ work.touched \in BOOLEAN /\ work.result \in {"ok", "error"} /\ work.item \in Items
      /\ work.op \in OpsIn[section] /\ acted = {} /\ era <= MaxChanges /\ era \in Nat
  <2>1. work \in WorkRec /\ era <= MaxChanges
    BY <1>1, <1>3 DEF WorkTyped, AskAhead
  <2>2. era \in Nat
    BY <1>1, PanelWorkAssumption DEF PanelTyped
  <2>3. acted = {}
    BY <1>3, Lines DEF Sworn
  <2> QED
    BY <2>1, <2>2, <2>3 DEF WorkRec
<1>5. rest \notin {<<"begin", "ask", "finish">>, <<"ask", "finish">>,
                   <<"read", "ask", "record">>, <<"ask", "record">>}
  BY <1>3, TodosDiffer DEF SwitchTodo
<1>6. PICK touched \in BOOLEAN : touched = (section = "cron" /\ work.touched)
  BY <1>4
<1>7. work' \in {[Onward EXCEPT !.touched = touched], Fails}
  BY <1>6 DEF Ask, Onward
<1>8. ASSUME NEW t \in BOOLEAN, NEW result \in {"ok", "error"}, Became(work', rest, t, result),
             have' \in [Items -> State], era' \in {era, era + 1},
             result = "ok" => [op |-> work.op, item |-> work.item] \in acted' \/ work.op \notin Irreversible,
             result = "ok" /\ ~t /\ Asked(work.op) # None => have'[work.item] = Asked(work.op),
             acted' \subseteq IF work.op \in Irreversible THEN {[op |-> work.op, item |-> work.item]} ELSE {}
      PROVE  WorkInv'
  <2>1. /\ WorkTyped' /\ ReadsSound' /\ work' # None /\ work'.op = work.op /\ work'.item = work.item
        /\ work'.todo = rest /\ work'.touched = t /\ work'.result = result
    BY <1>1, <1>3, <1>5, <1>8, WorkGoesOn
  <2>2. PanelTyped'
    <3>1. era' \in 0 .. MaxChanges + 1
      BY <1>4, <1>8, PanelWorkAssumption
    <3> QED
      BY <1>8, <3>1 DEF PanelTyped
  <2>3. SwitchSound'
    <3>1. Asked(work.op)' = Asked(work.op)
      BY <2>1 DEF Asked
    <3>2. rest # <<"ask", "record">>
      BY <1>5
    <3> QED
      BY <1>8, <2>1, <3>1, <3>2 DEF SwitchSound
  <2>4. LinesSound'
    <3>1. \A line \in journal' : line.op = work'.op /\ line.item = work'.item
      BY <1>1, <1>3, <2>1, Lines
    <3>2. \A done \in acted' : done = [op |-> work'.op, item |-> work'.item]
      BY <1>8, <2>1
    <3>3. CASE work.op \in Irreversible
      <4>1. Sworn /\ rest = <<"finish">> /\ work.todo = <<"ask", "finish">>
        BY <1>3, <3>3, Lines
      <4>2. Line("started")' = Line("started") /\ Line("started") \in journal
        BY <2>1, <4>1 DEF Line, Sworn
      <4>3. \A line \in journal : line.result # "ok"
        BY <1>4, <4>1 DEF Sworn
      <4>4. Sworn'
        BY <1>1, <1>8, <2>1, <3>3, <4>1, <4>2, <4>3, TodosDiffer DEF Sworn
      <4> QED
        BY <2>1, <3>1, <3>2, <3>3, <4>4 DEF LinesSound
    <3>4. CASE work.op \notin Irreversible
      <4>1. acted' = {}
        BY <1>8, <3>4
      <4> QED
        BY <2>1, <3>1, <3>4, <4>1 DEF LinesSound
    <3> QED
      BY <3>3, <3>4
  <2> QED
    BY <2>1, <2>2, <2>3, <2>4 DEF WorkInv
<1>9. Became([Onward EXCEPT !.touched = touched], rest, touched, work.result) /\ Became(Fails, rest, work.touched, "error")
  BY <1>1, <1>2, StepFields, Zenon
<1>10. PICK done : done = IF work.op \in Irreversible THEN {[op |-> work.op, item |-> work.item]} ELSE {}
  OBVIOUS
<1>11. CASE /\ Performs(work.op, work.item) /\ acted' = acted \cup done
            /\ work' \in {[Onward EXCEPT !.touched = touched], Fails}
  <2>1. /\ have' \in [Items -> State] /\ era' \in {era, era + 1}
        /\ Asked(work.op) # None =>
             IF section = "cron" THEN have'[work.item] = OnOff(work.item)
             ELSE have'[work.item] = Asked(work.op)
    BY <1>1, <1>3, <1>4, <1>11, WhatIsPerformed
  <2>2. acted' = done
    BY <1>4, <1>11
  <2>3. CASE work' = Fails
    <3>1. Became(work', rest, work.touched, "error")
      BY <1>9, <2>3
    <3> QED
      BY <1>4, <1>8, <1>10, <2>1, <2>2, <3>1
  <2>4. CASE work' = [Onward EXCEPT !.touched = touched]
    <3>1. Became(work', rest, touched, work.result)
      BY <1>9, <2>4
    <3>2. ASSUME work.result = "ok", ~touched, Asked(work.op) # None
          PROVE  have'[work.item] = Asked(work.op)
      <4>1. CASE section # "cron"
        BY <2>1, <3>2, <4>1
      <4>2. CASE section = "cron"
        <5>1. ~work.touched /\ work.op \notin Irreversible
          BY <1>6, <3>2, <4>2 DEF Asked, Irreversible
        <5>2. have[work.item] \in {"off", "on"} \ {Asked(work.op)}
          BY <1>3, <3>2, <4>2, <5>1 DEF WorkInv, SwitchSound
        <5>3. work.op \in {"run", "enable", "disable", "delete"}
          BY <1>3, <1>4, <4>2 DEF OpsIn
        <5>4. Asked(work.op) \in {"on", "off"}
          BY <5>1, <5>3 DEF Asked, Irreversible
        <5> QED
          BY <2>1, <3>2, <4>2, <5>2, <5>4 DEF OnOff
      <4> QED
        BY <4>1, <4>2
    <3> QED
      BY <1>4, <1>6, <1>8, <1>10, <2>1, <2>2, <3>1, <3>2
  <2> QED
    BY <1>11, <2>3, <2>4
<1>12. CASE Keeps /\ UNCHANGED acted /\ work' = Fails
  <2>1. have' \in [Items -> State] /\ era' = era
    BY <1>1, <1>12 DEF Keeps, panel, PanelTyped
  <2>2. Became(work', rest, work.touched, "error") /\ acted' = {}
    BY <1>4, <1>9, <1>12
  <2> QED
    BY <1>4, <1>8, <2>1, <2>2
<1> QED
  <2>1. \/ /\ Performs(work.op, work.item) /\ acted' = acted \cup done
           /\ work' \in {[Onward EXCEPT !.touched = touched], Fails}
        \/ Keeps /\ UNCHANGED acted /\ work' = Fails
    BY <1>7, <1>10 DEF Ask
  <2> QED
    BY <1>11, <1>12, <2>1

\* The outcome is written afterwards, if it can be.
LEMMA RecordKeeps ==
    ASSUME WorkInv, section' = section, RecordOutcome
    PROVE  WorkInv'
<1>1. Doing("record") /\ UNCHANGED <<have, era, acted>> /\ WorkTyped
  BY DEF RecordOutcome, panel, WorkInv
<1>2. /\ work # None /\ work.todo = <<"record">> /\ Tail(work.todo) = <<>>
      /\ work.op \notin Irreversible /\ Tail(work.todo) \in TodoOf(work.op)
  BY <1>1, AtStep
<1>3. work.touched \in BOOLEAN /\ work.result \in {"ok", "error"} /\ acted = {}
  BY <1>1, <1>2, Lines DEF WorkTyped, WorkRec
<1>4. Became(work', <<>>, work.touched, work.result)
  BY <1>1, <1>2, StepFields DEF RecordOutcome
<1>5. /\ WorkTyped' /\ ReadsSound' /\ work' # None /\ work'.op = work.op /\ work'.item = work.item
      /\ work'.todo = <<>> /\ work'.touched = work.touched /\ work'.result = work.result
  BY <1>1, <1>2, <1>3, <1>4, WorkGoesOn, TodosDiffer DEF SwitchTodo
<1>6. \A line \in journal' : line.op = work.op /\ line.item = work.item
  <2>1. journal' = journal \cup {Line(work.result)} \/ journal' = journal
    BY DEF RecordOutcome
  <2>2. Line(work.result).op = work.op /\ Line(work.result).item = work.item
    BY DEF Line
  <2> QED
    BY <1>2, <2>1, <2>2, Lines
<1>7. LinesSound'
  BY <1>1, <1>2, <1>3, <1>5, <1>6 DEF LinesSound
<1>8. SwitchSound'
  <2>1. Asked(work.op)' = Asked(work.op)
    BY <1>5 DEF Asked
  <2> QED
    BY <1>1, <1>2, <1>5, <2>1, TodosDiffer DEF SwitchSound, WorkInv
<1> QED
  BY <1>1, <1>5, <1>7, <1>8 DEF WorkInv, PanelTyped

\* The line that was written first is finished, if it can be.
LEMMA FinishKeeps ==
    ASSUME WorkInv, section' = section, FinishAudit
    PROVE  WorkInv'
<1>1. Doing("finish") /\ UNCHANGED <<have, era, acted>> /\ WorkTyped
  BY DEF FinishAudit, panel, WorkInv
<1>2. /\ work # None /\ work.todo = <<"finish">> /\ Tail(work.todo) = <<>>
      /\ work.op \in Irreversible /\ Tail(work.todo) \in TodoOf(work.op)
  BY <1>1, AtStep
<1>3. work.touched \in BOOLEAN /\ work.result \in {"ok", "error"} /\ Sworn
  BY <1>1, <1>2, Lines DEF WorkTyped, WorkRec
<1>4. Became(work', <<>>, work.touched, work.result)
  BY <1>1, <1>2, StepFields DEF FinishAudit
<1>5. /\ WorkTyped' /\ ReadsSound' /\ work' # None /\ work'.op = work.op /\ work'.item = work.item
      /\ work'.todo = <<>> /\ work'.touched = work.touched /\ work'.result = work.result
  BY <1>1, <1>2, <1>3, <1>4, WorkGoesOn, TodosDiffer DEF SwitchTodo
<1>6. /\ \A line \in journal' : line.op = work.op /\ line.item = work.item
      /\ \A line \in journal' : line.result = "ok" => [op |-> work.op, item |-> work.item] \in acted
      /\ journal' # {}
  <2>1. CASE journal' = (journal \ {Line("started")}) \cup {Line(work.result)}
    <3>1. Line(work.result).op = work.op /\ Line(work.result).item = work.item
          /\ Line(work.result).result = work.result
      BY DEF Line
    <3>2. work.result = "ok" => [op |-> work.op, item |-> work.item] \in acted
      BY <1>2, <1>3 DEF Sworn
    <3> QED
      BY <1>2, <1>3, <2>1, <3>1, <3>2, Lines DEF Sworn
  <2>2. CASE UNCHANGED journal
    BY <1>2, <1>3, <2>2, Lines DEF Sworn
  <2> QED
    BY <2>1, <2>2 DEF FinishAudit
<1>7. Sworn'
  <2>1. work.result = "ok" => [op |-> work.op, item |-> work.item] \in acted
    BY <1>2, <1>3 DEF Sworn
  <2> QED
    BY <1>1, <1>5, <1>6, <2>1, TodosDiffer DEF Sworn
<1>8. LinesSound'
  BY <1>1, <1>2, <1>5, <1>6, <1>7, Lines DEF LinesSound
<1>9. SwitchSound'
  BY <1>2, <1>5 DEF SwitchSound, Asked, Irreversible
<1> QED
  BY <1>1, <1>5, <1>8, <1>9 DEF WorkInv, PanelTyped

\* The process exits in the middle: what was written and done remains.
LEMMA ExitKeeps ==
    ASSUME WorkInv, section' = section, Exit
    PROVE  WorkInv'
<1>1. work # None /\ UNCHANGED <<have, era, journal, acted>> /\ WorkTyped /\ EndsWith("error")
  BY DEF Exit, panel, WorkInv
<1>2. Became(work', <<>>, work.touched, "error")
  BY <1>1, EndFields
<1>3. work.touched \in BOOLEAN /\ work.todo \in TodoOf(work.op) /\ <<>> \in TodoOf(work.op)
  BY <1>1 DEF WorkTyped, WorkRec, TodoOf, SwornTodo, SwitchTodo, PlainTodo
<1>4. /\ WorkTyped' /\ ReadsSound' /\ work' # None /\ work'.op = work.op /\ work'.item = work.item
      /\ work'.todo = <<>> /\ work'.result = "error"
  BY <1>1, <1>2, <1>3, WorkGoesOn, TodosDiffer DEF SwitchTodo
<1>5. work.op \in Irreversible => Sworn'
  BY <1>1, <1>4, Lines, TodosDiffer DEF Sworn
<1>6. LinesSound'
  BY <1>1, <1>4, <1>5, Lines DEF LinesSound
<1> QED
  BY <1>1, <1>4, <1>6 DEF WorkInv, PanelTyped, SwitchSound

\* Whoever called has the answer.
LEMMA EndKeeps ==
    ASSUME WorkInv, section' = section, EndWork, UNCHANGED panel
    PROVE  WorkInv'
BY DEF WorkInv, EndWork, panel, PanelTyped, WorkTyped, SwitchSound, LinesSound, ReadsSound

\* Somebody else changes an item: an action on it is told apart from then on.
LEMMA OthersKeep ==
    ASSUME WorkInv, section' = section, OthersChange
    PROVE  WorkInv'
<1>1. PICK i \in Changing, state \in State :
        /\ state # have[i]
        /\ Becomes(i, state)
        /\ work' = IF work = None \/ work.item # i \/ Asked(work.op) = None THEN work
                   ELSE [work EXCEPT !.touched = TRUE]
  BY DEF OthersChange
<1>2. /\ have \in [Items -> State] /\ era \in Nat /\ era < MaxChanges /\ i \in Items
      /\ UNCHANGED <<journal, acted>> /\ WorkTyped
  BY PanelWorkAssumption DEF OthersChange, WorkInv, PanelTyped
<1>3. have' \in [Items -> State] /\ era' = era + 1 /\ \A k \in Items \ {i} : have'[k] = have[k]
  BY <1>1, <1>2 DEF Becomes
<1>4. PanelTyped' /\ era' <= MaxChanges
  BY <1>2, <1>3, PanelWorkAssumption DEF PanelTyped
<1>5. CASE work = None
  <2>1. work' = None
    BY <1>1, <1>5
  <2> QED
    BY <1>2, <1>4, <1>5, <2>1 DEF WorkInv, WorkTyped, SwitchSound, LinesSound, ReadsSound
<1>6. ASSUME work # None, NEW touched \in BOOLEAN, Became(work', work.todo, touched, work.result),
             touched \/ Asked(work.op) = None \/ (have'[work.item] = have[work.item] /\ touched = work.touched)
      PROVE  WorkInv'
  <2>1. work.todo \in TodoOf(work.op) /\ work.result \in {"ok", "error"}
    BY <1>2, <1>6 DEF WorkTyped, WorkRec
  <2>2. /\ WorkTyped' /\ ReadsSound' /\ work' # None /\ work'.op = work.op /\ work'.item = work.item
        /\ work'.todo = work.todo /\ work'.touched = touched /\ work'.result = work.result
    BY <1>2, <1>4, <1>6, <2>1, WorkGoesOn
  <2>3. Asked(work.op)' = Asked(work.op)
    BY <2>2 DEF Asked
  <2>4. SwitchSound'
    BY <1>6, <2>2, <2>3 DEF SwitchSound, WorkInv
  <2>5. work.op \in Irreversible => Sworn'
    <3>1. Line("started")' = Line("started")
      BY <2>2 DEF Line
    <3> QED
      BY <1>2, <1>6, <2>2, <3>1, Lines DEF Sworn
  <2>6. LinesSound'
    BY <1>2, <1>6, <2>2, <2>5, Lines DEF LinesSound
  <2> QED
    BY <1>4, <2>2, <2>4, <2>6 DEF WorkInv
<1>7. CASE work # None /\ (work.item # i \/ Asked(work.op) = None)
  <2>0. work' = work /\ work.touched \in BOOLEAN /\ work.item \in Items
    BY <1>1, <1>2, <1>7 DEF WorkTyped, WorkRec
  <2>1. Became(work', work.todo, work.touched, work.result)
    <3>1. Became(work, work.todo, work.touched, work.result)
      BY <1>2, <1>7, WorkFields, Zenon
    <3> QED
      BY <2>0, <3>1 DEF Became
  <2> QED
    BY <1>3, <1>6, <1>7, <2>0, <2>1
<1>8. CASE work # None /\ work.item = i /\ Asked(work.op) # None
  <2>1. Became(work', work.todo, TRUE, work.result)
    <3>1. work' = [work EXCEPT !.touched = TRUE]
      BY <1>1, <1>8
    <3>2. Became([work EXCEPT !.touched = TRUE], work.todo, TRUE, work.result)
      BY <1>2, <1>8, WorkFields, Zenon
    <3> QED
      BY <3>1, <3>2 DEF Became
  <2> QED
    BY <1>6, <1>8, <2>1
<1> QED
  BY <1>5, <1>7, <1>8

-----------------------------------------------------------------------------
(* The dialogs, from which the actions start.                              *)

\* What a dialog can be about: an operation of the section, or a card with a switch.
OpsOffered ==
    {None} \cup OpsIn[section] \cup (IF section \in {"cron", "ftp"} THEN {"toggle"} ELSE {})
DialogTyped ==
    dialog # None => section \in Sections /\ DOMAIN dialog = {"item", "op"} /\ dialog.op \in OpsOffered
RowThere == dialog # None /\ dialog.item # None => dialog.item \in DOMAIN Rows
DialogInv == DialogTyped /\ RowThere

\* What each section offers is among its operations.
LEMMA Offers ==
    ASSUME section \in Sections
    PROVE  /\ section = "cron" => {"run", "toggle", "delete", "enable", "disable"} \subseteq OpsOffered
           /\ section = "ftp" => {"toggle", "password", "delete", "create"} \subseteq OpsOffered
           /\ section = "databases" => {"create", "delete"} \subseteq OpsOffered
           /\ section = "projects" => {"create", "modify", "delete"} \subseteq OpsOffered
           /\ section \in {"cron", "ftp"} => {"enable", "disable"} \subseteq OpsIn[section]
           /\ section = "projects" => {"start", "stop", "restart"} \subseteq OpsIn[section]
BY DEF OpsOffered, OpsIn

\* A dialog that is opened belongs to a row that is shown.
LEMMA OpenKeeps ==
    ASSUME section \in Sections, UNCHANGED <<section, list>>, NEW op \in OpsOffered,
           NEW i, i = None \/ i \in DOMAIN Rows, Open(i, op)
    PROVE  DialogInv'
<1>1. dialog' = [item |-> i, op |-> op]
  BY DEF Open
<1>2. OpsOffered' = OpsOffered /\ Rows' = Rows
  BY DEF OpsOffered, Rows
<1>3. DOMAIN dialog' = {"item", "op"} /\ dialog'.item = i /\ dialog'.op = op
  BY <1>1
<1> QED
  BY <1>2, <1>3 DEF DialogInv, DialogTyped, RowThere

\* A dialog goes on to one of its operations, back to its card, or away.
LEMMA TurnsKeep ==
    ASSUME DialogInv, UNCHANGED <<section, list>>,
           \/ dialog' = None
           \/ dialog # None /\ \E op \in OpsOffered : dialog' = [dialog EXCEPT !.op = op]
    PROVE  DialogInv'
<1>1. OpsOffered' = OpsOffered /\ Rows' = Rows
  BY DEF OpsOffered, Rows
<1>2. CASE dialog' = None
  BY <1>2 DEF DialogInv, DialogTyped, RowThere
<1>3. ASSUME dialog # None, NEW op \in OpsOffered, dialog' = [dialog EXCEPT !.op = op]
      PROVE  DialogInv'
  <2>1. section \in Sections /\ DOMAIN dialog = {"item", "op"}
    BY <1>3 DEF DialogInv, DialogTyped
  <2>2. DOMAIN dialog' = {"item", "op"} /\ dialog'.item = dialog.item /\ dialog'.op = op
    BY <1>3, <2>1
  <2> QED
    BY <1>1, <1>3, <2>1, <2>2 DEF DialogInv, DialogTyped, RowThere
<1> QED
  BY <1>2, <1>3

\* What is opened and chosen in the dialogs keeps them about rows on screen.
LEMMA DialogsKeep ==
    ASSUME DialogInv, section \in Sections, Dialogs
    PROVE  DialogInv'
<1>1. Leaf /\ UNCHANGED <<section, list>>
  BY DEF Dialogs, fixed
<1>2. None \in OpsOffered
  BY DEF OpsOffered
<1>3. ASSUME CloseDialog PROVE DialogInv'
  BY <1>1, <1>3, TurnsKeep DEF CloseDialog
<1>4. ASSUME NEW op \in OpsOffered, Choose(op), dialog # None PROVE DialogInv'
  BY <1>1, <1>4, TurnsKeep DEF Choose
<1>5. ASSUME BackToCard PROVE DialogInv'
  BY <1>1, <1>2, <1>5, TurnsKeep DEF BackToCard
<1>6. ASSUME Form, "create" \in OpsOffered PROVE DialogInv'
  BY <1>1, <1>6, OpenKeeps DEF Form
<1>7. ASSUME NEW i \in DOMAIN Rows, NEW op \in OpsOffered, Open(i, op) PROVE DialogInv'
  BY <1>1, <1>7, OpenKeeps
<1>8. CASE section = "cron"
  <2>1. CronTable \/ CronTaskDialog
    BY <1>1, <1>8 DEF Leaf
  <2>2. "run" \in OpsOffered /\ "toggle" \in OpsOffered /\ "delete" \in OpsOffered
    BY <1>8, Offers
  <2> QED
    BY <1>2, <1>3, <1>4, <1>5, <1>7, <2>1, <2>2 DEF CronTable, CronTaskDialog
<1>9. CASE section = "ftp"
  <2>1. FtpTable \/ FtpUserDialog \/ FtpFormDialog
    BY <1>1, <1>9 DEF Leaf
  <2>2. "create" \in OpsOffered /\ "toggle" \in OpsOffered /\ "password" \in OpsOffered /\ "delete" \in OpsOffered
    BY <1>9, Offers
  <2> QED
    BY <1>2, <1>3, <1>4, <1>5, <1>6, <1>7, <2>1, <2>2 DEF FtpTable, FtpUserDialog, FtpFormDialog
<1>10. CASE section = "databases"
  <2>1. DatabasesTable \/ DatabaseDeleteDialog \/ DatabaseFormDialog
    BY <1>1, <1>10 DEF Leaf
  <2>2. "create" \in OpsOffered /\ "delete" \in OpsOffered
    BY <1>10, Offers
  <2> QED
    BY <1>3, <1>6, <1>7, <2>1, <2>2 DEF DatabasesTable, DatabaseDeleteDialog, DatabaseFormDialog
<1>11. CASE section = "projects"
  <2>1. ProjectsTable \/ ProjectDeleteDialog \/ ProjectFormDialog
    BY <1>1, <1>11 DEF Leaf
  <2>2. "create" \in OpsOffered /\ "modify" \in OpsOffered /\ "delete" \in OpsOffered
    BY <1>11, Offers
  <2> QED
    BY <1>3, <1>6, <1>7, <2>1, <2>2 DEF ProjectsTable, ProjectDeleteDialog, ProjectFormDialog
<1> QED
  BY <1>1, <1>8, <1>9, <1>10, <1>11 DEF Leaf

\* The button that confirms, and those in the row of a project, ask for an operation of
\* the section.
LEMMA ConfirmKeeps ==
    ASSUME WorkInv, DialogTyped, box \in Terms, section \in Sections, Confirm \/ RunOp
    PROVE  WorkInv'
<1>1. section' = section /\ Changing \subseteq Items
  BY PanelWorkAssumption DEF Confirm, RunOp, fixed
<1>2. CASE Confirm
  <2>0. PICK op : op = (IF dialog.op = "toggle" THEN Turn(dialog.item) ELSE dialog.op)
    OBVIOUS
  <2>1. PICK i \in Changing : StartWork(op, i, box)
    BY <1>2, <2>0 DEF Confirm
  <2>2. dialog # None /\ dialog.op # None /\ dialog.op \in OpsOffered
    BY <1>2 DEF Confirm, DialogTyped
  <2>3. op \in OpsIn[section]
    <3>1. CASE dialog.op = "toggle"
      <4>1. op \in {"enable", "disable"}
        BY <2>0, <3>1 DEF Turn
      <4>2. section \in {"cron", "ftp"} \/ "toggle" \in OpsIn[section]
        BY <2>2, <3>1 DEF OpsOffered
      <4>3. "toggle" \notin OpsIn[section]
        BY PanelWorkAssumption DEF OpsIn
      <4> QED
        BY <4>1, <4>2, <4>3, Offers
    <3>2. CASE dialog.op # "toggle"
      BY <2>0, <2>2, <3>2 DEF OpsOffered
    <3> QED
      BY <3>1, <3>2
  <2> QED
    BY <1>1, <2>1, <2>3, StartKeeps
<1>3. CASE RunOp
  <2>1. PICK i \in Changing, op \in {"start", "stop", "restart"} : StartWork(op, i, box)
    BY <1>3 DEF RunOp
  <2>2. op \in OpsIn[section]
    BY <1>3, <2>1, Offers DEF RunOp
  <2> QED
    BY <1>1, <2>1, <2>2, StartKeeps
<1> QED
  BY <1>2, <1>3

-----------------------------------------------------------------------------
(* What a view does to the journal, and the page as a whole.               *)

\* A line of a file that is read is of that read only.
LEMMA ReturnKeepsLines ==
    ASSUME WorkInv, section \in Views, NEW c \in Calls, NEW next, Return(c, next)
    PROVE  WorkInv'
<1>1. /\ UNCHANGED <<section, have, era, work>>
      /\ journal' = {line \in journal : line.item # c} /\ acted' = {done \in acted : done.item # c}
  BY DEF Return, fixed, panel
<1>2. ReadsSound'
  <2>1. \A i : ReadLine(i).item = i
    BY DEF ReadLine
  <2>2. \A i : ReadLine(i)' = ReadLine(i)
    BY DEF ReadLine
  <2> QED
    BY <1>1, <2>1, <2>2 DEF WorkInv, ReadsSound
<1> QED
  BY <1>1, <1>2, ListsAreNoViews DEF WorkInv, PanelTyped, WorkTyped, SwitchSound, LinesSound, ReadsSound

\* In a view no action is under way, and what is read has its line.
LEMMA ViewKeepsWork ==
    ASSUME WorkInv, OfView
    PROVE  WorkInv'
<1>1. section \in Views /\ section \notin Sections /\ work = None
  BY ListsAreNoViews DEF OfView, WorkInv, ReadsSound
<1>2. ASSUME UNCHANGED <<section, work>>, PanelTyped', ReadsSound' PROVE WorkInv'
  BY <1>1, <1>2 DEF WorkInv, WorkTyped, SwitchSound, LinesSound
<1>3. ASSUME UNCHANGED vars PROVE WorkInv'
  BY <1>2, <1>3 DEF vars, fixed, panel, actions, WorkInv, PanelTyped, ReadsSound
<1>4. ASSUME ContentChanges PROVE WorkInv'
  <2>1. UNCHANGED <<section, have, work, journal, acted>> /\ era < MaxChanges /\ era' = era + 1
    BY <1>4 DEF ContentChanges, fixed, actions
  <2> QED
    BY <1>2, <2>1, PanelWorkAssumption DEF WorkInv, PanelTyped, ReadsSound
<1>5. ASSUME NEW c \in Calls, BeginRead(c) PROVE WorkInv'
  <2>1. UNCHANGED <<section, have, era, work, acted>> /\ journal' = journal \cup {ReadLine(c)}
    BY <1>5 DEF BeginRead, fixed, panel
  <2>2. ReadLine(c).item = c
    BY DEF ReadLine
  <2> QED
    BY <1>2, <2>1, <2>2 DEF WorkInv, PanelTyped, ReadsSound
<1>6. ASSUME NEW c \in Calls, ReadPart(c) PROVE WorkInv'
  <2>1. UNCHANGED <<section, have, era, work, journal>>
    BY <1>6 DEF ReadPart, fixed, panel
  <2>2. acted' = acted \/ (acted' = acted \cup {[op |-> "read", item |-> c]} /\ ReadLine(c) \in journal)
    BY <1>6 DEF ReadPart, MayAsk
  <2> QED
    BY <1>2, <2>1, <2>2 DEF WorkInv, PanelTyped, ReadsSound
<1>7. ASSUME NEW c \in Calls, Reply(c) \/ Refuse(c) PROVE WorkInv'
  BY <1>1, <1>7, ReturnKeepsLines DEF Reply, Refuse
<1> QED
  BY <1>3, <1>4, <1>5, <1>6, <1>7 DEF OfView, User, ViewTick, Replies, Lapses

\* A list, its requests and its dialogs leave the panel and the action alone.
LEMMA ListKeepsWork ==
    ASSUME WorkInv, DialogTyped, box \in Terms, OfList
    PROVE  WorkInv'
<1>1. section \in Sections /\ Next
  BY DEF OfList
<1>2. ASSUME UNCHANGED <<section, panel, actions>> PROVE WorkInv'
  <2>1. UNCHANGED <<section, have, era, work, journal, acted>>
    BY <1>2 DEF panel, actions
  <2>2. WorkTyped'
    BY <2>1 DEF WorkInv, WorkTyped, WorkRec, TodoOf, AskAhead
  <2>3. SwitchSound'
    BY <2>1 DEF WorkInv, SwitchSound, Asked
  <2>4. LinesSound'
    BY <2>1 DEF WorkInv, LinesSound, Sworn, Line
  <2>5. PanelTyped' /\ ReadsSound'
    BY <2>1 DEF WorkInv, PanelTyped, ReadsSound
  <2> QED
    BY <2>2, <2>3, <2>4, <2>5 DEF WorkInv
<1>3. CASE Type \/ Pause \/ Refresh \/ ReloadIfIdle
  BY <1>2, <1>3 DEF Type, Pause, Refresh, ReloadIfIdle, fixed
<1>4. ASSUME NEW r \in Requests, Reading(r) PROVE WorkInv'
  BY <1>2, <1>4 DEF Reading, AskSource, Answer, CallFails, Land, fixed
<1>5. CASE Dialogs
  BY <1>2, <1>5 DEF Dialogs, fixed
<1>6. CASE Confirm \/ RunOp
  BY <1>1, <1>6, ConfirmKeeps
<1>7. CASE Settle
  BY <1>7, EndKeeps DEF Settle, fixed
<1>8. CASE Acting
  <2>1. section' = section
    BY <1>8 DEF Acting, Elsewhere, fixed
  <2> QED
    BY <1>8, <2>1, BeginKeeps, ReadKeeps, AskKeeps, RecordKeeps, FinishKeeps, ExitKeeps, OthersKeep
       DEF Acting, WorkStep
<1> QED
  BY <1>1, <1>3, <1>4, <1>5, <1>6, <1>7, <1>8 DEF Next

-----------------------------------------------------------------------------
(* What a source sends, and what an answer is made of.                     *)

FoundIn(source, term) == {i \in Found(term) : SourceOf(i) = source}

\* Every item belongs to a source that is asked.
LEMMA SourcesCover == section \in Sections => \A i \in Items : SourceOf(i) \in Sources
BY DEF SourceOf, Sources

\* What a term finds is finite and on the panel.
LEMMA FoundIsFinite ==
    ASSUME NEW source, NEW term
    PROVE  FoundIn(source, term) \subseteq Items /\ IsFiniteSet(FoundIn(source, term))
           /\ Cardinality(FoundIn(source, term)) \in Nat
<1>1. FoundIn(source, term) \subseteq Items
  BY DEF FoundIn, Found, There
<1> QED
  BY <1>1, PanelWorkAssumption, FS_Subset, FS_CardinalityType

\* A page that holds all it may is the whole, unless it says that there is more; an
\* empty one is always the whole.
LEMMA PageIs ==
    ASSUME PanelTyped, NEW source, NEW term, NEW p \in PagesOf(source, term)
    PROVE  /\ p \in Page /\ DOMAIN p.rows \subseteq FoundIn(source, term)
           /\ \A i \in DOMAIN p.rows : p.rows[i] = have[i]
           /\ section = "cron" \/ ~DescribePage(p) => DOMAIN p.rows = FoundIn(source, term)
           /\ DOMAIN p.rows = {} => FoundIn(source, term) = {}
<1>1. PICK found : found = FoundIn(source, term)
  OBVIOUS
<1>2. PICK rows \in SUBSET found :
        /\ p = [rows |-> [i \in rows |-> have[i]], total |-> IF readable THEN Cardinality(found) ELSE None]
        /\ IF section = "cron" THEN rows = found
           ELSE Cardinality(rows) = Limit \/ (rows = found /\ Cardinality(found) < Limit)
  BY <1>1 DEF PagesOf, FoundIn
<1>3. found \subseteq Items /\ IsFiniteSet(found) /\ Cardinality(found) \in Nat
  BY <1>1, FoundIsFinite
<1>4. /\ IsFiniteSet(rows) /\ Cardinality(rows) \in Nat /\ Cardinality(rows) <= Cardinality(found)
      /\ Cardinality(rows) = Cardinality(found) => rows = found
  BY <1>3, FS_Subset, FS_CardinalityType
<1>5. p.rows = [i \in rows |-> have[i]] /\ p.total = IF readable THEN Cardinality(found) ELSE None
  BY <1>2
<1>6. DOMAIN p.rows = rows /\ \A i \in rows : p.rows[i] = have[i]
  BY <1>5
<1>7. p \in Page
  <2>1. rows \in SUBSET Items /\ p.rows \in [rows -> State]
    BY <1>3, <1>5 DEF PanelTyped
  <2>2. p.rows \in UNION {[shown -> State] : shown \in SUBSET Items}
    BY <2>1
  <2>3. p.total \in Nat \cup {None}
    BY <1>3, <1>5
  <2>4. p = [rows |-> p.rows, total |-> p.total]
    BY <1>2
  <2> QED
    BY <2>2, <2>3, <2>4 DEF Page
<1>8. ASSUME section # "cron", ~DescribePage(p) PROVE rows = found
  <2>1. Shown(p) = Cardinality(rows)
    BY <1>6 DEF Shown
  <2>2. CASE p.total # None
    <3>1. ~(Cardinality(found) > Cardinality(rows))
      BY <1>5, <1>8, <2>1, <2>2 DEF DescribePage
    <3> QED
      BY <1>3, <1>4, <3>1
  <2>3. CASE p.total = None
    <3>1. ~(Cardinality(rows) >= Limit)
      BY <1>8, <2>1, <2>3 DEF DescribePage
    <3>2. Cardinality(rows) # Limit
      BY <1>4, <3>1, PanelWorkAssumption
    <3> QED
      BY <1>2, <1>8, <3>2
  <2> QED
    BY <2>2, <2>3
<1>9. ASSUME rows = {} PROVE found = {}
  <2>1. Cardinality(rows) = 0 /\ Limit # 0
    BY <1>9, FS_EmptySet, PanelWorkAssumption
  <2> QED
    BY <1>2, <1>9, <2>1
<1> QED
  BY <1>1, <1>2, <1>6, <1>7, <1>8, <1>9

\* What each action makes of what its sources sent.
LEMMA AnswerIs ==
    ASSUME section \in Sections, NEW got, DOMAIN got = Sources, NEW a, a = ListAction(got),
           NEW whole, whole = Partial(got)
    PROVE  /\ ~a.ok => a.rows = <<>>
           /\ a.ok => a.rows = whole.rows
           /\ a.ok /\ a.failed = {} => whole.failed = {}
           /\ a.ok /\ section # "cron" => a.cut = whole.cut
           /\ a.ok \in BOOLEAN
<1>1. DOMAIN whole = {"ok", "rows", "failed", "cut"} /\ whole.ok = TRUE
  BY DEF Partial
<1>2. section \in {"projects", "databases", "sites", "cron", "ftp", "firewall"}
  BY PanelWorkAssumption
<1>3. CASE section = "projects"
  <2>1. Sources = {"projects"}
    BY <1>3 DEF Sources
  <2>2. CASE got["projects"] = Refused
    <3>1. a = [Refusal EXCEPT !.failed = {}]
      BY <1>3, <2>2 DEF ListAction, ListNodeProjectsAction, ListProjects
    <3> QED
      BY <3>1 DEF Refusal
  <2>3. CASE got["projects"] # Refused
    <3>1. a = [whole EXCEPT !.failed = {}]
      BY <1>3, <2>3 DEF ListAction, ListNodeProjectsAction, ListProjects
    <3>2. whole.failed = {}
      BY <2>1, <2>3 DEF Partial
    <3>3. a.ok = TRUE /\ a.rows = whole.rows /\ a.cut = whole.cut
      BY <1>1, <3>1
    <3> QED
      BY <3>2, <3>3
  <2> QED
    BY <2>2, <2>3
<1>4. CASE section = "cron"
  <2>1. a = [whole EXCEPT !.cut = {}]
    BY <1>4 DEF ListAction, ListCronTasksAction, ListCronTasks
  <2>2. a.ok = TRUE /\ a.rows = whole.rows /\ a.failed = whole.failed
    BY <1>1, <2>1
  <2> QED
    BY <1>4, <2>2
<1>5. CASE section \in {"databases", "sites", "ftp", "firewall"}
  <2>1. a = whole
    BY <1>5 DEF ListAction, ListDatabasesAction, ListSitesAction, ListFtpUsersAction, ListFirewallRulesAction,
                ListDatabases, ListSites, ListFtpUsers, ListFirewallRules
  <2> QED
    BY <1>1, <2>1
<1> QED
  BY <1>2, <1>3, <1>4, <1>5

\* The sources that answered, and what came from them.
LEMMA RowsAre ==
    ASSUME NEW got, DOMAIN got = Sources, NEW whole, whole = Partial(got)
    PROVE  /\ whole.failed = {} => \A s \in Sources : got[s] # Refused
           /\ \A s \in Sources : got[s] # Refused /\ DescribePage(got[s]) => s \in whole.cut
           /\ \A i : i \in DOMAIN whole.rows <=>
                        \E s \in Sources : got[s] # Refused /\ i \in DOMAIN got[s].rows
           /\ \A i \in DOMAIN whole.rows : whole.rows[i] = got[SourceOf(i)].rows[i]
<1>1. PICK answered : answered = {s \in Sources : got[s] # Refused}
  OBVIOUS
<1>2. whole = [ok |-> TRUE,
               rows |-> [i \in UNION {DOMAIN got[s].rows : s \in answered} |-> got[SourceOf(i)].rows[i]],
               failed |-> Sources \ answered, cut |-> {s \in answered : DescribePage(got[s])}]
  BY <1>1 DEF Partial
<1>3. whole.rows = [i \in UNION {DOMAIN got[s].rows : s \in answered} |-> got[SourceOf(i)].rows[i]]
  BY <1>2
<1>4. whole.failed = Sources \ answered /\ whole.cut = {s \in answered : DescribePage(got[s])}
  BY <1>2
<1>6. \A i : i \in DOMAIN whole.rows <=> \E s \in answered : i \in DOMAIN got[s].rows
  BY <1>3
<1>7. \A i \in DOMAIN whole.rows : whole.rows[i] = got[SourceOf(i)].rows[i]
  BY <1>3
<1> QED
  BY <1>1, <1>4, <1>6, <1>7

\* The rows of a complete answer are items.
LEMMA RowsWithin ==
    ASSUME section \in Sections, NEW got \in [Sources -> Page \cup {Refused}]
    PROVE  LET a == ListAction(got) IN
           /\ a.ok => DOMAIN a.rows \subseteq Items
           /\ ~a.ok => a.rows = <<>>
<1>1. PICK a, whole : a = ListAction(got) /\ whole = Partial(got)
  OBVIOUS
<1>2. DOMAIN got = Sources
  OBVIOUS
<1>3. \A s \in Sources : got[s] # Refused => DOMAIN got[s].rows \subseteq Items
  BY DEF Page
<1>4. DOMAIN whole.rows \subseteq Items
  <2>1. \A i : i \in DOMAIN whole.rows <=> \E s \in Sources : got[s] # Refused /\ i \in DOMAIN got[s].rows
    BY <1>1, <1>2, RowsAre
  <2> QED
    BY <1>3, <2>1
<1> QED
  BY <1>1, <1>2, <1>4, AnswerIs

\* An answer put together from pages of the panel as it is: without a failed and a cut
\* source it is all the term finds, and if it has no rows there is nothing to find.
LEMMA WholeAnswer ==
    ASSUME section \in Sections, PanelTyped, NEW term \in Terms, NEW got, DOMAIN got = Sources,
           \A s \in Sources : got[s] = Refused \/ got[s] \in PagesOf(s, term),
           NEW a, a = ListAction(got), a.ok, a.failed = {}
    PROVE  /\ a.cut = {} => a.rows = [i \in Found(term) |-> have[i]]
           /\ DOMAIN a.rows = {} => Found(term) = {}
<1>1. PICK whole : whole = Partial(got)
  OBVIOUS
<1>2. a.rows = whole.rows /\ whole.failed = {} /\ (section # "cron" => a.cut = whole.cut)
  BY <1>1, AnswerIs
<1>3. \A s \in Sources : got[s] # Refused /\ got[s] \in PagesOf(s, term)
  <2>1. whole.failed = {} => \A s \in Sources : got[s] # Refused
    BY <1>1, RowsAre
  <2> QED
    BY <1>2, <2>1, Zenon
<1>4. \A s \in Sources :
        /\ DOMAIN got[s].rows \subseteq FoundIn(s, term)
        /\ \A i \in DOMAIN got[s].rows : got[s].rows[i] = have[i]
        /\ section = "cron" \/ ~DescribePage(got[s]) => DOMAIN got[s].rows = FoundIn(s, term)
        /\ DOMAIN got[s].rows = {} => FoundIn(s, term) = {}
  BY <1>3, PageIs
<1>5. \A i : i \in DOMAIN a.rows <=> \E s \in Sources : i \in DOMAIN got[s].rows
  <2>1. \A i : i \in DOMAIN whole.rows <=> \E s \in Sources : got[s] # Refused /\ i \in DOMAIN got[s].rows
    BY <1>1, RowsAre
  <2> QED
    BY <1>2, <1>3, <2>1
<1>6. \A i \in Found(term) : SourceOf(i) \in Sources /\ i \in FoundIn(SourceOf(i), term)
  BY SourcesCover DEF Found, There, FoundIn
<1>7. \A s, i : i \in FoundIn(s, term) => i \in Found(term) /\ SourceOf(i) = s
  BY DEF FoundIn
<1>8. ASSUME a.cut = {} PROVE a.rows = [i \in Found(term) |-> have[i]]
  <2>1. \A s \in Sources : section = "cron" \/ ~DescribePage(got[s])
    <3>1. \A s \in Sources : got[s] # Refused /\ DescribePage(got[s]) => s \in whole.cut
      BY <1>1, RowsAre
    <3> QED
      BY <1>2, <1>3, <1>8, <3>1
  <2>2. \A s \in Sources : DOMAIN got[s].rows = FoundIn(s, term)
    BY <1>4, <2>1
  <2>3. DOMAIN a.rows = Found(term)
    <3>1. \A i : i \in DOMAIN a.rows <=> \E s \in Sources : i \in FoundIn(s, term)
      BY <1>5, <2>2
    <3>2. \A i : i \in DOMAIN a.rows <=> i \in Found(term)
      BY <1>6, <1>7, <3>1
    <3> QED
      BY <3>2
  <2>4. ASSUME NEW i \in Found(term) PROVE a.rows[i] = have[i]
    <3>1. a.rows[i] = got[SourceOf(i)].rows[i]
      <4>1. \A k \in DOMAIN whole.rows : whole.rows[k] = got[SourceOf(k)].rows[k]
        BY <1>1, RowsAre
      <4> QED
        BY <1>2, <2>3, <4>1
    <3> QED
      BY <1>4, <1>6, <2>2, <3>1
  <2>5. a.rows = [i \in DOMAIN a.rows |-> a.rows[i]]
    <3>1. whole.rows = [i \in DOMAIN whole.rows |-> whole.rows[i]]
      BY <1>1 DEF Partial
    <3> QED
      BY <1>2, <3>1
  <2> QED
    BY <2>3, <2>4, <2>5
<1>9. ASSUME DOMAIN a.rows = {} PROVE Found(term) = {}
  BY <1>4, <1>5, <1>6, <1>9
<1> QED
  BY <1>8, <1>9

-----------------------------------------------------------------------------
(* The list, its requests and its dialogs.                                 *)

RequestRec == [term : Terms, got : [Sources -> Page \cup {None, Refused}], current : BOOLEAN]

\* A request that is current has only pages of the panel as it is.
UpToDate(q) ==
    q.current => \A s \in Sources : q.got[s] \in {None, Refused} \cup PagesOf(s, q.term)
RequestsInv ==
    /\ request \in [Requests -> RequestRec \cup {None}]
    /\ \A r \in Requests : request[r] # None => UpToDate(request[r])
    /\ newest # None => newest \in Requests /\ request[newest] # None

\* An answer has items for its rows, and says of the panel what NothingIsMissing asks.
AnswerFits(a) == IF a.ok THEN DOMAIN a.rows \subseteq Items ELSE a.rows = <<>>
Tells(a, term) ==
    a.ok /\ a.failed = {} =>
        /\ a.cut = {} => a.rows = [i \in Found(term) |-> have[i]]
        /\ DOMAIN a.rows = {} => Found(term) = {}

\* The list is an answer to its term, as long as it is current.
ListTyped ==
    /\ DOMAIN list = {"answer", "term", "stale", "current"} /\ list.term \in Terms
    /\ list.stale => list.answer.ok
    /\ AnswerFits(list.answer)

ListInv == box \in Terms /\ RequestsInv /\ ListTyped /\ NothingIsMissing /\ DialogInv

\* A request is not mistaken for none.
LEMMA RequestsAre == section \in Sections => None \notin RequestRec
<1>1. section \in Sections => Sources \in SUBSET ({"mysql", "pgsql"} \cup Sections)
  BY DEF Sources
<1>2. section \in Sections => RequestRec \subseteq Request
  BY <1>1 DEF RequestRec, Request
<1> QED
  BY <1>2, RequestAssumption

\* What makes a page one that a source may send.
IsPage(p, s, term) ==
    \E rows \in SUBSET FoundIn(s, term) :
        /\ p = [rows |-> [i \in rows |-> have[i]],
                total |-> IF readable THEN Cardinality(FoundIn(s, term)) ELSE None]
        /\ IF section = "cron" THEN rows = FoundIn(s, term)
           ELSE \/ Cardinality(rows) = Limit
                \/ rows = FoundIn(s, term) /\ Cardinality(FoundIn(s, term)) < Limit

\* What a source may send depends on the panel alone.
LEMMA PagesStay ==
    ASSUME UNCHANGED <<section, readable, have>>
    PROVE  /\ Sources' = Sources
           /\ \A s, term : PagesOf(s, term)' = PagesOf(s, term)
           /\ \A term : Found(term)' = Found(term)
           /\ \A got : ListAction(got)' = ListAction(got)
<1>1. Sources' = Sources /\ \A i : SourceOf(i)' = SourceOf(i)
  BY DEF Sources, SourceOf
<1>2. \A term : Found(term)' = Found(term)
  BY DEF Found, There
<1>3. \A s, term : PagesOf(s, term)' = PagesOf(s, term)
  <2> SUFFICES ASSUME NEW s, NEW term PROVE PagesOf(s, term)' = PagesOf(s, term)
    OBVIOUS
  <2>1. FoundIn(s, term)' = FoundIn(s, term)
    BY <1>1, <1>2 DEF FoundIn
  <2>2. \A p : IsPage(p, s, term)' <=> IsPage(p, s, term)
    BY <2>1 DEF IsPage
  <2>3. \A p : p \in PagesOf(s, term) <=> IsPage(p, s, term)
    BY DEF PagesOf, IsPage, FoundIn
  <2>4. \A p : p \in PagesOf(s, term)' <=> IsPage(p, s, term)'
    BY DEF PagesOf, IsPage, FoundIn
  <2> QED
    BY <2>2, <2>3, <2>4
<1>4. \A got : Partial(got)' = Partial(got)
  BY <1>1 DEF Partial
<1>5. \A got : ListAction(got)' = ListAction(got)
  BY <1>4 DEF ListAction, ListNodeProjectsAction, ListDatabasesAction, ListSitesAction, ListCronTasksAction,
              ListFtpUsersAction, ListFirewallRulesAction, ListProjects, ListDatabases, ListSites,
              ListCronTasks, ListFtpUsers, ListFirewallRules
<1> QED
  BY <1>1, <1>2, <1>3, <1>5

\* What NothingIsMissing asks of the list.
LEMMA MissingMeans == NothingIsMissing <=> (list.current => Tells(list.answer, list.term))
BY DEF NothingIsMissing, Tells, ListIntegrityNotice, NoneSaid, Rows

\* What is left alone stays as it is.
LEMMA Stays ==
    ASSUME ListInv, UNCHANGED <<section, readable, have>>
    PROVE  /\ UNCHANGED <<request, newest>> => RequestsInv'
           /\ UNCHANGED list => ListTyped' /\ NothingIsMissing'
           /\ UNCHANGED <<list, dialog>> => DialogInv'
<1>1. ASSUME UNCHANGED <<request, newest>> PROVE RequestsInv'
  <2>1. RequestRec' = RequestRec
    BY PagesStay DEF RequestRec
  <2>2. \A q : UpToDate(q)' = UpToDate(q)
    BY PagesStay DEF UpToDate
  <2> QED
    BY <1>1, <2>1, <2>2 DEF ListInv, RequestsInv
<1>2. ASSUME UNCHANGED list PROVE ListTyped' /\ NothingIsMissing'
  <2>1. \A term : Found(term)' = Found(term)
    BY PagesStay
  <2>2. NothingIsMissing'
    BY <1>2, <2>1 DEF ListInv, NothingIsMissing, ListIntegrityNotice, NoneSaid, Rows
  <2> QED
    BY <1>2, <2>2 DEF ListInv, ListTyped, AnswerFits
<1>3. ASSUME UNCHANGED <<list, dialog>> PROVE DialogInv'
  BY <1>3 DEF ListInv, DialogInv, DialogTyped, RowThere, OpsOffered, Rows
<1> QED
  BY <1>1, <1>2, <1>3

\* A request that is put, or put back, where it belongs.
LEMMA PutKeeps ==
    ASSUME RequestsInv, UNCHANGED <<section, readable, have>>, NEW r \in Requests, NEW q,
           q \in RequestRec /\ UpToDate(q) /\ q # None, request' = [request EXCEPT ![r] = q],
           newest' \in {newest, r}
    PROVE  RequestsInv'
<1>1. RequestRec' = RequestRec
  BY PagesStay DEF RequestRec
<1>2. \A x : UpToDate(x)' = UpToDate(x)
  BY PagesStay DEF UpToDate
<1>3. request' \in [Requests -> RequestRec \cup {None}]
  BY DEF RequestsInv
<1>4. \A s \in Requests : request'[s] = IF s = r THEN q ELSE request[s]
  BY DEF RequestsInv
<1>5. newest' # None => newest' \in Requests /\ request'[newest'] # None
  BY <1>4 DEF RequestsInv
<1>6. \A s \in Requests : request'[s] # None => UpToDate(request'[s])
  BY <1>4 DEF RequestsInv
<1> QED
  BY <1>1, <1>2, <1>3, <1>5, <1>6 DEF RequestsInv

\* A new request has nothing yet.
LEMMA RunKeeps ==
    ASSUME RequestsInv, section \in Sections, UNCHANGED <<section, readable, have>>,
           NEW term \in Terms, Run(term)
    PROVE  RequestsInv'
<1>1. PICK q : q = [term |-> term, got |-> Unanswered, current |-> TRUE]
  OBVIOUS
<1>2. PICK r \in Requests : request' = [request EXCEPT ![r] = q] /\ newest' = r
  BY <1>1 DEF Run
<1>3. q.term = term /\ q.got = Unanswered /\ q.current = TRUE
  BY <1>1
<1>4. Unanswered \in [Sources -> Page \cup {None, Refused}] /\ \A s \in Sources : Unanswered[s] = None
  BY DEF Unanswered
<1>5. q \in RequestRec
  BY <1>1, <1>4 DEF RequestRec
<1>6. UpToDate(q)
  BY <1>3, <1>4 DEF UpToDate
<1> QED
  BY <1>2, <1>5, <1>6, RequestsAre, PutKeeps

\* A source sends a page, or does not answer.
LEMMA AskSourceKeeps ==
    ASSUME RequestsInv, section \in Sections, PanelTyped, NEW r \in Requests, AskSource(r)
    PROVE  RequestsInv'
<1>0. PICK s \in Sources : \E x \in PagesOf(s, request[r].term) \cup {Refused} :
        request' = [request EXCEPT ![r].got[s] = x]
  BY DEF AskSource
<1>1. PICK p \in PagesOf(s, request[r].term) \cup {Refused} : request' = [request EXCEPT ![r].got[s] = p]
  BY <1>0
<1>2. UNCHANGED <<section, readable, have, newest>> /\ request[r] # None
  BY DEF AskSource, fixed, panel
<1>3. PICK was, got : was = request[r] /\ got = [was.got EXCEPT ![s] = p]
  OBVIOUS
<1>4. was \in RequestRec /\ UpToDate(was)
  BY <1>2, <1>3 DEF RequestsInv
<1>5. was.term \in Terms /\ was.got \in [Sources -> Page \cup {None, Refused}] /\ was.current \in BOOLEAN
      /\ p \in Page \cup {Refused}
  BY <1>1, <1>3, <1>4, PageIs DEF RequestRec
<1>6. got \in [Sources -> Page \cup {None, Refused}] /\ \A x \in Sources : got[x] = IF x = s THEN p ELSE was.got[x]
  BY <1>3, <1>5
<1>7. PICK q : q = [was EXCEPT !.got = got]
  OBVIOUS
<1>8. q \in RequestRec /\ q.term = was.term /\ q.got = got /\ q.current = was.current
  BY <1>4, <1>6, <1>7 DEF RequestRec
<1>9. UpToDate(q)
  BY <1>1, <1>3, <1>4, <1>6, <1>8 DEF UpToDate
<1>10. request' = [request EXCEPT ![r] = q]
  BY <1>1, <1>3, <1>7 DEF RequestsInv
<1> QED
  BY <1>2, <1>8, <1>9, <1>10, RequestsAre, PutKeeps

\* A request that returns leaves room for another.
LEMMA GoneKeeps ==
    ASSUME RequestsInv, section \in Sections, UNCHANGED <<section, readable, have>>,
           NEW r \in Requests, request' = [request EXCEPT ![r] = None],
           newest' = None \/ (newest' = newest /\ r # newest)
    PROVE  RequestsInv'
<1>1. RequestRec' = RequestRec
  BY PagesStay DEF RequestRec
<1>2. \A x : UpToDate(x)' = UpToDate(x)
  BY PagesStay DEF UpToDate
<1>3. request' \in [Requests -> RequestRec \cup {None}]
  BY DEF RequestsInv
<1>4. \A s \in Requests : request'[s] = IF s = r THEN None ELSE request[s]
  BY DEF RequestsInv
<1>5. newest' # None => newest' \in Requests /\ request'[newest'] # None
  BY <1>4 DEF RequestsInv
<1>6. \A s \in Requests : request'[s] # None => UpToDate(request'[s])
  BY <1>4 DEF RequestsInv
<1> QED
  BY <1>1, <1>2, <1>3, <1>5, <1>6 DEF RequestsInv

\* An answer that may paint replaces the list, unless it is a refusal and there is data:
\* that stays as it is.  A dialog goes with its row.
LEMMA PaintKeeps ==
    ASSUME ListInv, section \in Sections, UNCHANGED <<section, readable, have>>,
           NEW next, NEW term \in Terms, NEW current,
           AnswerFits(next), current => Tells(next, term), Paint(next, term, current)
    PROVE  ListTyped' /\ NothingIsMissing' /\ DialogInv'
<1>1. /\ list' = SettleRefresh(next, term, current) /\ dialog' = DialogAfter(list'.answer)
      /\ ListTyped /\ NothingIsMissing /\ DialogInv
  BY DEF Paint, ListInv
<1>2. \/ /\ list' = [answer |-> next, term |-> term, stale |-> FALSE, current |-> current]
      \/ list.answer.ok /\ list' = [list EXCEPT !.stale = TRUE]
  BY <1>1 DEF SettleRefresh
<1>3. ListTyped' /\ (list'.current => Tells(list'.answer, list'.term)) /\ AnswerFits(list'.answer)
  <2>1. CASE list' = [answer |-> next, term |-> term, stale |-> FALSE, current |-> current]
    <3>1. /\ DOMAIN list' = {"answer", "term", "stale", "current"} /\ list'.answer = next /\ list'.term = term
          /\ list'.stale = FALSE /\ list'.current = current
      BY <2>1
    <3> QED
      BY <3>1 DEF ListTyped, AnswerFits
  <2>2. CASE list.answer.ok /\ list' = [list EXCEPT !.stale = TRUE]
    <3>1. /\ DOMAIN list' = DOMAIN list /\ list'.answer = list.answer /\ list'.term = list.term
          /\ list'.current = list.current /\ DOMAIN list = {"answer", "term", "stale", "current"}
      BY <1>1, <2>2 DEF ListTyped
    <3>2. list.current => Tells(list.answer, list.term)
      BY <1>1, MissingMeans
    <3> QED
      BY <1>1, <2>2, <3>1, <3>2 DEF ListTyped, AnswerFits
  <2> QED
    BY <1>2, <2>1, <2>2
<1>4. NothingIsMissing'
  <2>1. \A t : Found(t)' = Found(t)
    BY PagesStay
  <2>2. Rows' = IF list'.answer.ok THEN list'.answer.rows ELSE <<>>
    BY DEF Rows
  <2> QED
    BY <1>3, <2>1, <2>2 DEF NothingIsMissing, Tells, ListIntegrityNotice, NoneSaid
<1>5. DialogInv'
  <2>1. Rows' = list'.answer.rows
    BY <1>3 DEF Rows, AnswerFits
  <2>2. OpsOffered' = OpsOffered
    BY DEF OpsOffered
  <2>3. dialog' = None \/ (dialog' = dialog /\ (dialog # None /\ dialog.item # None => dialog.item \in DOMAIN list'.answer.rows))
    BY <1>1 DEF DialogAfter
  <2>4. DialogTyped'
    BY <1>1, <2>2, <2>3 DEF DialogTyped, DialogInv
  <2>5. RowThere'
    BY <2>1, <2>3 DEF RowThere
  <2> QED
    BY <2>4, <2>5 DEF DialogInv
<1> QED
  BY <1>3, <1>4, <1>5

\* A request that is complete answers with all its term finds, as far as it says so.
LEMMA AnswerTells ==
    ASSUME ListInv, section \in Sections, PanelTyped, NEW r \in Requests, Complete(r),
           NEW a, a = ListAction(request[r].got)
    PROVE  /\ request[r].term \in Terms /\ AnswerFits(a)
           /\ request[r].current => Tells(a, request[r].term)
<1>1. PICK q, got, term : q = request[r] /\ got = q.got /\ term = q.term
  OBVIOUS
<1>2. q \in RequestRec /\ UpToDate(q) /\ \A s \in Sources : got[s] # None
  BY <1>1 DEF ListInv, RequestsInv, Complete
<1>3. term \in Terms /\ got \in [Sources -> Page \cup {None, Refused}]
  BY <1>1, <1>2 DEF RequestRec
<1>4. got \in [Sources -> Page \cup {Refused}]
  BY <1>2, <1>3
<1>5. AnswerFits(a)
  BY <1>1, <1>4, RowsWithin DEF AnswerFits
<1>6. ASSUME q.current PROVE Tells(a, term)
  <2>1. \A s \in Sources : got[s] = Refused \/ got[s] \in PagesOf(s, term)
    BY <1>1, <1>2, <1>6 DEF UpToDate
  <2>2. DOMAIN got = Sources
    BY <1>3
  <2>3. ASSUME a.ok, a.failed = {}
        PROVE  /\ a.cut = {} => a.rows = [i \in Found(term) |-> have[i]]
               /\ DOMAIN a.rows = {} => Found(term) = {}
    BY <1>1, <1>3, <2>1, <2>2, <2>3, WholeAnswer
  <2> QED
    BY <2>3 DEF Tells
<1> QED
  BY <1>1, <1>3, <1>5, <1>6

\* An answer that may not paint changes nothing that is shown.
LEMMA LandKeeps ==
    ASSUME ListInv, section \in Sections, NEW r \in Requests, request[r] # None, UNCHANGED have,
           NEW next, AnswerFits(next), request[r].current => Tells(next, request[r].term), Land(r, next)
    PROVE  ListInv'
<1>1. UNCHANGED <<section, readable, have, box>> /\ request' = [request EXCEPT ![r] = None]
  BY DEF Land, fixed
<1>2. request[r].term \in Terms /\ RequestsInv /\ box' \in Terms
  BY <1>1 DEF ListInv, RequestsInv, RequestRec
<1>3. CASE r = newest
  <2>1. Paint(next, request[r].term, request[r].current)
    BY <1>3 DEF Land
  <2>2. RequestsInv'
    BY <1>1, <1>2, <2>1, GoneKeeps DEF Paint
  <2>3. ListTyped' /\ NothingIsMissing' /\ DialogInv'
    BY <1>1, <1>2, <2>1, PaintKeeps
  <2> QED
    BY <1>2, <2>2, <2>3 DEF ListInv
<1>4. CASE r # newest
  <2>1. UNCHANGED <<list, dialog, newest>>
    BY <1>4 DEF Land
  <2>2. RequestsInv'
    BY <1>1, <1>2, <1>4, <2>1, GoneKeeps
  <2> QED
    BY <1>1, <1>2, <2>1, <2>2, Stays DEF ListInv
<1> QED
  BY <1>3, <1>4

\* What a dialog does when its action is done.
LEMMA DoneKeeps ==
    ASSUME DialogInv, UNCHANGED <<section, list>>, dialog' = DialogDone
    PROVE  DialogInv'
<1>1. \/ dialog' = dialog \/ dialog' = None
      \/ dialog # None /\ dialog' = [dialog EXCEPT !.op = None]
  BY DEF DialogDone, Own, CronTaskDialogDone, FtpUserDialogDone
<1>2. None \in OpsOffered
  BY DEF OpsOffered
<1>3. CASE dialog' = dialog
  BY <1>3 DEF DialogInv, DialogTyped, RowThere, OpsOffered, Rows
<1> QED
  BY <1>1, <1>2, <1>3, TurnsKeep

\* The panel has changed exactly if its count of changes has.
LEMMA AgeTells ==
    ASSUME WorkInv, WorkStep \/ Exit \/ OthersChange, era' = era
    PROVE  have' = have
<1>1. CASE BeginAudit \/ ReadTask \/ RecordOutcome \/ FinishAudit \/ Exit
  BY <1>1 DEF BeginAudit, ReadTask, RecordOutcome, FinishAudit, Exit, panel
<1>2. CASE Ask
  <2>1. work # None /\ (Performs(work.op, work.item) \/ Keeps)
    BY <1>2 DEF Ask, Doing
  <2>2. work.op \in OpsIn[section] /\ work.item \in Items /\ section \in Sections
    BY <2>1 DEF WorkInv, WorkTyped, WorkRec
  <2>3. CASE Keeps
    BY <2>3 DEF Keeps, panel
  <2>4. CASE Performs(work.op, work.item)
    BY <2>2, <2>4, WhatIsPerformed DEF WorkInv
  <2> QED
    BY <2>1, <2>3, <2>4
<1>3. CASE OthersChange
  <2>1. era \in Nat
    BY PanelWorkAssumption DEF WorkInv, PanelTyped
  <2>2. era' = era + 1
    BY <1>3 DEF OthersChange, Becomes
  <2> QED
    BY <2>1, <2>2
<1> QED
  BY <1>1, <1>2, <1>3 DEF WorkStep

\* What was asked for before the panel changed is not current any more.
LEMMA AgedKeeps ==
    ASSUME ListInv, section \in Sections, UNCHANGED <<fixed, box, typing, newest, dialog>>, Aged,
           era' = era => have' = have
    PROVE  ListInv'
<1>1. UNCHANGED <<section, readable>> /\ box' \in Terms
  BY DEF fixed, ListInv
<1>2. CASE era' = era
  BY <1>1, <1>2, Stays DEF Aged, ListInv
<1>3. CASE era' # era
  <2>1. /\ request' = [r \in Requests |-> IF request[r] = None THEN None ELSE [request[r] EXCEPT !.current = FALSE]]
        /\ list' = [list EXCEPT !.current = FALSE]
    BY <1>3 DEF Aged
  <2>2. RequestRec' = RequestRec
    BY <1>1 DEF RequestRec, Sources
  <2>3. \A q \in RequestRec : [q EXCEPT !.current = FALSE] \in RequestRec /\ ~[q EXCEPT !.current = FALSE].current
    BY DEF RequestRec
  <2>4. \A r \in Requests :
          /\ request'[r] \in RequestRec \cup {None}
          /\ request'[r] # None => request[r] # None /\ ~request'[r].current
          /\ request[r] # None => request'[r] \in RequestRec
    BY <2>1, <2>3 DEF ListInv, RequestsInv
  <2>5. request' \in [Requests -> RequestRec \cup {None}]
    BY <2>1, <2>4
  <2>6. newest' # None => newest' \in Requests /\ request'[newest'] # None
    BY <2>4, RequestsAre DEF ListInv, RequestsInv
  <2>7. RequestsInv'
    BY <2>2, <2>4, <2>5, <2>6 DEF RequestsInv, UpToDate
  <2>8. /\ DOMAIN list' = {"answer", "term", "stale", "current"} /\ list'.answer = list.answer
        /\ list'.term = list.term /\ list'.stale = list.stale /\ list'.current = FALSE /\ ListTyped
    BY <2>1 DEF ListInv, ListTyped
  <2>9. ListTyped' /\ NothingIsMissing'
    BY <2>8 DEF ListTyped, NothingIsMissing, AnswerFits
  <2>10. DialogInv'
    <3>1. Rows' = Rows
      BY <2>8 DEF Rows
    <3> QED
      BY <1>1, <3>1 DEF ListInv, DialogInv, DialogTyped, RowThere, OpsOffered
  <2> QED
    BY <1>1, <2>7, <2>9, <2>10 DEF ListInv
<1> QED
  BY <1>2, <1>3

\* Every step of a list keeps ListInv.
LEMMA ListKeepsList ==
    ASSUME ListInv, WorkInv, OfList
    PROVE  ListInv'
<1>1. section \in Sections /\ Next /\ PanelTyped /\ box \in Terms
  BY DEF OfList, WorkInv, ListInv
<1>2. ASSUME UNCHANGED <<section, readable, have, request, newest, list, dialog>>, box' \in Terms PROVE ListInv'
  BY <1>2, Stays DEF ListInv
<1>3. ASSUME UNCHANGED <<section, readable, have, box, list, dialog>>, NEW term \in Terms, Run(term) PROVE ListInv'
  BY <1>1, <1>3, Stays, RunKeeps DEF ListInv
<1>4. CASE Type
  BY <1>2, <1>4 DEF Type, fixed, panel
<1>5. CASE Pause
  BY <1>1, <1>3, <1>5 DEF Pause, fixed, panel
<1>6. CASE Refresh
  BY <1>1, <1>3, <1>6 DEF Refresh, fixed, panel
<1>7. CASE ReloadIfIdle
  BY <1>1, <1>3, <1>7 DEF ReloadIfIdle, fixed, panel
<1>8. ASSUME NEW r \in Requests, AskSource(r) PROVE ListInv'
  <2>1. UNCHANGED <<section, readable, have, box, newest, list, dialog>>
    BY <1>8 DEF AskSource, fixed, panel
  <2>2. RequestsInv'
    BY <1>1, <1>8, AskSourceKeeps DEF ListInv
  <2> QED
    BY <1>1, <2>1, <2>2, Stays DEF ListInv
<1>9. ASSUME NEW r \in Requests, Answer(r) PROVE ListInv'
  <2>1. PICK a : a = ListAction(request[r].got)
    OBVIOUS
  <2>2. Complete(r) /\ Land(r, a) /\ UNCHANGED have
    BY <1>9, <2>1 DEF Answer, Land, panel
  <2>3. request[r] # None
    BY <2>2 DEF Complete
  <2> QED
    BY <1>1, <2>1, <2>2, <2>3, AnswerTells, LandKeeps
<1>10. ASSUME NEW r \in Requests, CallFails(r) PROVE ListInv'
  <2>1. Land(r, Refusal) /\ request[r] # None /\ UNCHANGED have
    BY <1>10 DEF CallFails, Land, panel
  <2>2. AnswerFits(Refusal) /\ \A term : Tells(Refusal, term)
    BY DEF AnswerFits, Tells, Refusal
  <2> QED
    BY <1>1, <2>1, <2>2, LandKeeps
<1>11. CASE Dialogs
  <2>1. UNCHANGED <<section, readable, have, box, request, newest, list>> /\ DialogInv'
    BY <1>1, <1>11, DialogsKeep DEF Dialogs, fixed, panel, ListInv
  <2> QED
    BY <1>1, <2>1, Stays DEF ListInv
<1>12. CASE Confirm \/ RunOp
  BY <1>1, <1>2, <1>12 DEF Confirm, RunOp, StartWork, fixed, panel, screen
<1>13. CASE Settle
  <2>1. UNCHANGED <<section, readable, have, box, list>> /\ work # None
    BY <1>13 DEF Settle, Answered, fixed, panel
  <2>2. work.term \in Terms
    BY <2>1 DEF WorkInv, WorkTyped, WorkRec
  <2>3. DialogInv'
    BY <1>13, <2>1, DoneKeeps, Stays DEF Settle, ListInv
  <2>4. RequestsInv'
    BY <1>1, <1>13, <2>1, <2>2, RunKeeps, Stays DEF Settle, ListInv
  <2> QED
    BY <1>1, <2>1, <2>3, <2>4, Stays DEF ListInv
<1>14. CASE Acting
  <2>1. era' = era => have' = have
    BY <1>14, AgeTells DEF Acting
  <2> QED
    BY <1>1, <1>14, <2>1, AgedKeeps DEF Acting, Elsewhere
<1> QED
  BY <1>1, <1>4, <1>5, <1>6, <1>7, <1>8, <1>9, <1>10, <1>11, <1>12, <1>13, <1>14 DEF Next, Reading

\* A view has no list.
LEMMA ViewKeepsList ==
    ASSUME ListInv, OfView
    PROVE  ListInv'
<1>1. UNCHANGED <<section, readable, have, screen>>
  BY DEF OfView, User, ViewTick, ContentChanges, Replies, Lapses, BeginRead, ReadPart, Reply, Refuse, Return,
         vars, fixed, panel
<1>2. UNCHANGED <<box, request, newest, list, dialog>>
  BY <1>1 DEF screen
<1> QED
  BY <1>1, <1>2, Stays DEF ListInv

-----------------------------------------------------------------------------
(* What the properties say of a list and of its actions.                   *)

\* A page starts with what was read while it was rendered.
LEMMA Starts == PageInit => WorkInv /\ ListInv
<1> SUFFICES ASSUME PageInit PROVE WorkInv /\ ListInv
  OBVIOUS
<1>1. /\ work = None /\ journal = {} /\ acted = {} /\ era = 0 /\ box = All /\ newest = None /\ dialog = None
      /\ request = [r \in Requests |-> None]
  BY DEF PageInit, ViewInit, Init
<1>2. have \in [Items -> State]
  BY DEF PageInit, ViewInit, Init, State
<1>3. WorkInv
  BY <1>1, <1>2, PanelWorkAssumption DEF WorkInv, PanelTyped, WorkTyped, SwitchSound, LinesSound, ReadsSound
<1>4. box \in Terms /\ RequestsInv /\ DialogInv
  BY <1>1, ListsAssumption DEF RequestsInv, DialogInv, DialogTyped, RowThere
<1>5. CASE ViewInit
  <2>1. list = [answer |-> Refusal, term |-> All, stale |-> FALSE, current |-> FALSE]
    BY <1>5 DEF ViewInit
  <2>2. /\ DOMAIN list = {"answer", "term", "stale", "current"} /\ list.answer = Refusal /\ list.term = All
        /\ list.stale = FALSE /\ list.current = FALSE
    BY <2>1
  <2>3. ListTyped /\ NothingIsMissing
    BY <2>2, ListsAssumption DEF ListTyped, AnswerFits, NothingIsMissing, Refusal
  <2> QED
    BY <1>3, <1>4, <2>3 DEF ListInv
<1>6. CASE Init
  <2>1. section \in Sections
    BY <1>6 DEF Init
  <2>2. PICK got \in [Sources -> UNION {PagesOf(s, All) : s \in Sources}] :
          /\ \A s \in Sources : got[s] \in PagesOf(s, All)
          /\ list = [answer |-> ListAction(got), term |-> All, stale |-> FALSE, current |-> TRUE]
    BY <1>6 DEF Init
  <2>3. PICK a : a = ListAction(got)
    OBVIOUS
  <2>4. /\ DOMAIN list = {"answer", "term", "stale", "current"} /\ list.answer = a /\ list.term = All
        /\ list.stale = FALSE /\ list.current = TRUE
    BY <2>2, <2>3
  <2>5. DOMAIN got = Sources
    BY <2>2
  <2>6. \A s \in Sources : got[s] \in Page
    BY <1>3, <2>2, PageIs DEF WorkInv
  <2>7. got \in [Sources -> Page \cup {Refused}]
    BY <2>2, <2>6
  <2>8. AnswerFits(a)
    BY <2>1, <2>3, <2>7, RowsWithin DEF AnswerFits
  <2>9. Tells(a, All)
    <3>1. ASSUME a.ok, a.failed = {}
          PROVE  /\ a.cut = {} => a.rows = [i \in Found(All) |-> have[i]]
                 /\ DOMAIN a.rows = {} => Found(All) = {}
      BY <1>3, <2>1, <2>2, <2>3, <2>5, <3>1, ListsAssumption, WholeAnswer DEF WorkInv
    <3> QED
      BY <3>1 DEF Tells
  <2>10. ListTyped /\ NothingIsMissing
    BY <2>4, <2>8, <2>9, ListsAssumption, MissingMeans DEF ListTyped
  <2> QED
    BY <1>3, <1>4, <2>10 DEF ListInv
<1> QED
  BY <1>5, <1>6 DEF PageInit

\* Every step of a page keeps both.
LEMMA StepsKeep == WorkInv /\ ListInv /\ [PageNext]_pageVars => (WorkInv /\ ListInv)'
<1> SUFFICES ASSUME WorkInv, ListInv, [PageNext]_pageVars PROVE WorkInv' /\ ListInv'
  OBVIOUS
<1>1. CASE OfList
  BY <1>1, ListKeepsWork, ListKeepsList DEF ListInv, DialogInv
<1>2. CASE OfView
  BY <1>2, ViewKeepsWork, ViewKeepsList
<1>3. CASE UNCHANGED pageVars
  <2>1. UNCHANGED <<section, readable, have, era, work, journal, acted, box, request, newest, list, dialog>>
    BY <1>3 DEF pageVars, vars, fixed, panel, actions, screen
  <2>2. WorkTyped'
    BY <2>1 DEF WorkInv, WorkTyped, WorkRec, TodoOf, AskAhead
  <2>3. SwitchSound'
    BY <2>1 DEF WorkInv, SwitchSound, Asked
  <2>4. LinesSound'
    BY <2>1 DEF WorkInv, LinesSound, Sworn, Line
  <2>5. PanelTyped' /\ ReadsSound'
    BY <2>1 DEF WorkInv, PanelTyped, ReadsSound
  <2>6. ListInv'
    BY <2>1, Stays DEF ListInv
  <2> QED
    BY <2>2, <2>3, <2>4, <2>5, <2>6 DEF WorkInv
<1> QED
  BY <1>1, <1>2, <1>3 DEF PageNext

\* The ends of a list of steps.
LEMMA EndsOf ==
    ASSUME NEW S, NEW s \in Seq(S), s # <<>>, Tail(s) # <<>>
    PROVE  /\ s = SubSeq(s, 1, Len(s)) /\ Tail(s) = SubSeq(s, 2, Len(s))
           /\ Tail(Tail(s)) = SubSeq(s, 3, Len(s)) /\ <<>> = SubSeq(s, Len(s) + 1, Len(s))
           /\ {1, 2, 3, Len(s) + 1} \subseteq 1 .. Len(s) + 1
<1>1. Len(s) \in Nat \ {0} /\ Len(Tail(s)) = Len(s) - 1
  OBVIOUS
<1>2. Len(s) >= 2
  BY <1>1
<1>3. s = SubSeq(s, 1, Len(s)) /\ Tail(s) = SubSeq(s, 2, Len(s))
  BY SubSeqFull, TailIsSubSeq
<1>4. Tail(Tail(s)) = SubSeq(s, 3, Len(s))
  BY <1>2, <1>3, HeadTailOfSubSeq
<1>5. <<>> = SubSeq(s, Len(s) + 1, Len(s))
  BY <1>1, SubSeqEmpty
<1> QED
  BY <1>1, <1>2, <1>3, <1>4, <1>5

\* The steps left of an action are the end of those it has.
LEMMA StepsLeft ==
    ASSUME WorkInv, work # None
    PROVE  \E n \in 0 .. Len(StepsOf(work.op)) :
             work.todo = SubSeq(StepsOf(work.op), n + 1, Len(StepsOf(work.op)))
<1>1. section \in Sections /\ work.op \in OpsIn[section] /\ work.todo \in TodoOf(work.op)
  BY DEF WorkInv, WorkTyped, WorkRec
<1>2. PICK s, todo : s = StepsOf(work.op) /\ todo = work.todo
  OBVIOUS
<1> DEFINE Step == {"begin", "read", "ask", "finish", "record"}
<1>3. /\ s \in {<<"begin", "ask", "finish">>, <<"read", "ask", "record">>, <<"ask", "record">>}
      /\ todo \in {s, Tail(s), Tail(Tail(s)), <<>>}
  <2>1. CASE work.op \in Irreversible
    BY <1>1, <1>2, <2>1, StepsAre, TodoSteps DEF TodoOf, SwornTodo
  <2>2. CASE work.op \notin Irreversible /\ section = "cron"
    BY <1>1, <1>2, <2>2, StepsAre, TodoSteps DEF TodoOf, SwitchTodo
  <2>3. CASE work.op \notin Irreversible /\ section # "cron"
    BY <1>1, <1>2, <2>3, StepsAre, TodoSteps DEF TodoOf, PlainTodo
  <2> QED
    BY <2>1, <2>2, <2>3
<1>4. s \in Seq(Step) /\ s # <<>> /\ Tail(s) # <<>>
  <2>1. /\ <<"begin", "ask", "finish">> \in Seq(Step) /\ <<"read", "ask", "record">> \in Seq(Step)
        /\ <<"ask", "record">> \in Seq(Step)
    OBVIOUS
  <2>2. /\ <<"begin", "ask", "finish">> # <<>> /\ <<"read", "ask", "record">> # <<>>
        /\ <<"ask", "record">> # <<>> /\ <<"ask", "finish">> # <<>> /\ <<"record">> # <<>>
    OBVIOUS
  <2> QED
    BY <1>3, <2>1, <2>2, TodoSteps, Zenon
<1>5. PICK m \in 1 .. Len(s) + 1 : todo = SubSeq(s, m, Len(s))
  <2>1. /\ s = SubSeq(s, 1, Len(s)) /\ Tail(s) = SubSeq(s, 2, Len(s))
        /\ Tail(Tail(s)) = SubSeq(s, 3, Len(s)) /\ <<>> = SubSeq(s, Len(s) + 1, Len(s))
        /\ {1, 2, 3, Len(s) + 1} \subseteq 1 .. Len(s) + 1
    BY <1>4, EndsOf
  <2>2. /\ 1 \in 1 .. Len(s) + 1 /\ 2 \in 1 .. Len(s) + 1 /\ 3 \in 1 .. Len(s) + 1
        /\ Len(s) + 1 \in 1 .. Len(s) + 1
    BY <2>1
  <2>3. todo = s \/ todo = Tail(s) \/ todo = Tail(Tail(s)) \/ todo = <<>>
    BY <1>3
  <2> QED
    BY <2>1, <2>2, <2>3, Zenon
<1>6. PICK n : n = m - 1
  OBVIOUS
<1>7. n \in 0 .. Len(s) /\ n + 1 = m
  BY <1>4, <1>6
<1> QED
  BY <1>2, <1>5, <1>7, Zenon

\* A page is about one section for as long as it is open.
LEMMA SectionStays == [PageNext]_pageVars => UNCHANGED fixed
<1>1. OfList => UNCHANGED fixed
  BY DEF OfList, Next, Type, Pause, Refresh, ReloadIfIdle, Reading, AskSource, Answer, CallFails, Land, Dialogs,
         Confirm, RunOp, Settle, Acting, Elsewhere
<1>2. OfView => UNCHANGED fixed
  BY DEF OfView, User, ViewTick, ContentChanges, Replies, Lapses, BeginRead, ReadPart, Reply, Refuse, Return, vars
<1> QED
  BY <1>1, <1>2 DEF PageNext, pageVars, vars

\* The invariants of a page, on which its theorems rest.
PageInv == WorkInv /\ ListInv /\ section \in Sections \cup Views

\* Panel, action, lists and dialogs are sound in every reachable state.
LEMMA PageInvariant == Spec => []PageInv
<1>1. PageInit => PageInv
  BY Starts DEF PageInv, PageInit, ViewInit, Init
<1>2. PageInv /\ [PageNext]_pageVars => PageInv'
  BY StepsKeep, SectionStays DEF PageInv, fixed
<1> QED
  BY <1>1, <1>2, PTL DEF Spec

\* The types of a list: a row that a dialog is about is on screen, the newest request is
\* out, an action has only the rest of its steps before it.
THEOREM ListTypes == Spec => []ListsTypeOK
<1>1. PageInv => ListsTypeOK
  <2> SUFFICES ASSUME WorkInv, ListInv PROVE ListsTypeOK
    BY DEF PageInv
  <2>1. /\ have \in [Items -> State] /\ era \in 0 .. MaxChanges + 1
        /\ box \in Terms /\ list.term \in Terms /\ (list.stale => list.answer.ok)
    BY DEF WorkInv, PanelTyped, ListInv, ListTyped
  <2>2. DOMAIN Rows \subseteq Items
    BY DEF ListInv, ListTyped, AnswerFits, Rows
  <2>3. newest # None => request[newest] # None
    BY DEF ListInv, RequestsInv
  <2>4. dialog # None /\ dialog.item # None => dialog.item \in DOMAIN Rows
    BY DEF ListInv, DialogInv, RowThere
  <2>5. work # None => \E n \in 0 .. Len(StepsOf(work.op)) :
          work.todo = SubSeq(StepsOf(work.op), n + 1, Len(StepsOf(work.op)))
    BY StepsLeft
  <2> QED
    BY <2>1, <2>2, <2>3, <2>4, <2>5, Zenon DEF ListsTypeOK
<1> QED
  BY <1>1, PageInvariant, PTL

\* A list without a notice shows all that its term finds while the panel is as it was, and
\* one that says there is nothing is right, however the requests overtake one another
\* (useSearchableList, describePage).
THEOREM ListsAreWhole == Spec => []NothingIsMissing
<1>1. PageInv => NothingIsMissing
  BY DEF PageInv, ListInv
<1> QED
  BY <1>1, PageInvariant, PTL

\* Who is told that a task or an account is on, or off, is told the truth, however old the
\* row was (setCronTaskEnabled reads the state again before it turns it).
THEOREM SwitchesAreTrue == Spec => []SwitchedAsAsked
<1>1. PageInv => SwitchedAsAsked
  BY DEF PageInv, WorkInv, SwitchSound, SwitchedAsAsked, Answered
<1> QED
  BY <1>1, PageInvariant, PTL

\* What cannot be undone is in the journal before it happens, whatever fails, and a line
\* that says "ok" is true (beginAudit, finish).
THEOREM NothingUnwritten == Spec => []IrreversibleIsJournalled
<1>1. PageInv => IrreversibleIsJournalled
  <2> SUFFICES ASSUME WorkInv, section \in Sections \cup Views PROVE IrreversibleIsJournalled
    BY DEF PageInv
  <2>1. CASE section \in Views
    <3>1. /\ \A done \in acted : done.op = "read" /\ ReadLine(done.item) \in journal
          /\ \A line \in journal : line = ReadLine(line.item)
      BY <2>1 DEF WorkInv, ReadsSound
    <3>2. \A i : ReadLine(i).op = "read" /\ ReadLine(i).item = i /\ ReadLine(i).result = "started"
      BY DEF ReadLine
    <3>3. \A line \in journal : line.result = "started"
      BY <3>1, <3>2, Zenon
    <3> QED
      BY <3>1, <3>2, <3>3 DEF IrreversibleIsJournalled
  <2>2. CASE section \in Sections /\ work = None
    BY <2>2 DEF WorkInv, LinesSound, IrreversibleIsJournalled
  <2>3. CASE work # None
    <3>1. /\ \A line \in journal : line.op = work.op /\ line.item = work.item
          /\ \A done \in acted : done.op = work.op /\ done.item = work.item
      BY <2>3, Lines
    <3>2. acted # {} => journal # {}
      BY <2>3, Lines DEF Sworn
    <3>3. \A line \in journal : line.result = "ok" /\ line.op \in Irreversible =>
            [op |-> line.op, item |-> line.item] \in acted
      BY <2>3, <3>1, Lines DEF Sworn
    <3> QED
      BY <3>1, <3>2, <3>3 DEF IrreversibleIsJournalled
  <2> QED
    BY <2>1, <2>2, <2>3
<1> QED
  BY <1>1, PageInvariant, PTL

-----------------------------------------------------------------------------
(* The views, and what is loaded for them.                                 *)

\* The views whose loads are numbered, and those that wait for the last to return.
Numbered == section \in {"logs", "file"}
Awaited == section \in {"site", "sitelog", "metrics", "rules"}

LoadRec == [of : {None}, got : [Asks.parts -> Nat \cup {None, Lost}], button : BOOLEAN, old : BOOLEAN]
ShownRec == [of : {None}, got : [Asks.parts -> Nat \cup {Lost}], old : BOOLEAN]
ViewRec == [open : BOOLEAN, live : BOOLEAN, path : {None}, shown : ShownRec \cup {None}, failed : BOOLEAN]

\* A part was read when the panel was as it had been until then.
Dated(got) == \A p \in Asks.parts : got[p] \in (0 .. era) \cup {None, Lost}
\* What has been read by now is no older than what is shown.
NotBefore(was, now) ==
    \A p \in Asks.parts : now[p] \in {None, Lost} \/ was[p] = Lost \/ now[p] >= was[p]

\* Where loads are awaited there is one at a time; the poll of the summary goes by the flag.
LoadsInv ==
    /\ call \in [Calls -> LoadRec \cup {None}]
    /\ \A c \in Calls : call[c] # None => Dated(call[c].got)
    /\ Awaited => \A c, d \in Calls : call[c] # None /\ call[d] # None => c = d
    /\ section = "metrics" /\ Loading => busy

\* The load that may paint has nothing older than what is shown, ...
Wants(c) == call[c] # None /\ Paints(c)
ShownInv ==
    /\ view \in ViewRec
    /\ view.shown # None =>
        /\ Dated(view.shown.got)
        /\ \A c \in Calls : Wants(c) => NotBefore(view.shown.got, call[c].got)

\* ... and in an open view it is of this opening; a closed file is forgotten.
OpeningInv ==
    Numbered =>
        /\ view.open => /\ \A c \in Calls : Wants(c) => ~call[c].old
                        /\ view.shown # None => ~view.shown.old
        /\ section = "file" /\ ~view.open => view.shown = None /\ latest = None

ViewInv == Numbered \/ Awaited => LoadsInv /\ ShownInv /\ OpeningInv

\* What a step does to what is shown.
Onwards == view.shown # None /\ view'.shown # None => Forward(view.shown.got, view'.shown.got)

\* What is not replaced has not gone back.
LEMMA SameIsOnwards ==
    ASSUME ShownInv, view'.shown = None \/ (view.shown # None => view'.shown.got = view.shown.got)
    PROVE  Onwards
<1>1. view.shown # None => view.shown \in ShownRec
  BY DEF ShownInv, ViewRec
<1>2. view.shown # None => \A p \in Asks.parts : view.shown.got[p] \in Nat \cup {Lost}
  BY <1>1 DEF ShownRec
<1> QED
  BY <1>2 DEF Onwards, Forward

\* A new load has read nothing yet, and is the only one that may paint.
LEMMA LoadKeeps ==
    ASSUME Numbered \/ Awaited, LoadsInv, UNCHANGED <<section, era>>, NEW button \in BOOLEAN,
           Load(None, button), Awaited => ~Loading
    PROVE  /\ LoadsInv'
           /\ \A d \in Calls : Wants(d)' =>
                (\A p \in Asks.parts : call'[d].got[p] = None) /\ ~call'[d].old
<1>1. PICK q : q = [of |-> None, got |-> Unread, button |-> button, old |-> FALSE]
  OBVIOUS
<1>2. PICK c \in Calls : call' = [call EXCEPT ![c] = q] /\ latest' = c /\ busy' = TRUE
  BY <1>1 DEF Load
<1>3. q.got = Unread /\ q.old = FALSE
  BY <1>1
<1>4. Unread \in [Asks.parts -> Nat \cup {None, Lost}] /\ \A p \in Asks.parts : Unread[p] = None
  BY DEF Unread
<1>5. q \in LoadRec
  BY <1>1, <1>4 DEF LoadRec
<1>6. Asks' = Asks /\ LoadRec' = LoadRec
  BY DEF Asks, LoadRec
<1>7. call' \in [Calls -> LoadRec \cup {None}] /\ \A d \in Calls : call'[d] = IF d = c THEN q ELSE call[d]
  BY <1>2, <1>5 DEF LoadsInv
<1>8. \A d \in Calls : call'[d] # None => Dated(call[d].got)'
  <2>1. \A d \in Calls : d # c /\ call'[d] # None => Dated(call[d].got)'
    BY <1>6, <1>7 DEF LoadsInv, Dated
  <2>2. Dated(call[c].got)'
    BY <1>3, <1>4, <1>6, <1>7 DEF Dated
  <2> QED
    BY <2>1, <2>2
<1>9. Awaited => \A d \in Calls : d # c => call'[d] = None
  BY <1>7 DEF Loading
<1>10. LoadsInv'
  BY <1>2, <1>6, <1>7, <1>8, <1>9 DEF LoadsInv, Awaited
<1>11. \A d \in Calls : Wants(d)' => d = c
  BY <1>2, <1>9 DEF Wants, Paints, Numbered
<1> QED
  BY <1>3, <1>4, <1>7, <1>10, <1>11

\* A view that loads shows what it showed, or nothing; one whose loads are numbered is
\* open then, and if it was not before it shows nothing yet.
LEMMA LoadingKeeps ==
    ASSUME Numbered \/ Awaited, LoadsInv, ShownInv, UNCHANGED <<section, era>>, NEW button \in BOOLEAN,
           Load(None, button), Awaited => ~Loading,
           view' \in ViewRec, view'.shown \in {view.shown, None},
           Numbered => view'.open /\ (view'.shown = None \/ (view.open /\ OpeningInv))
    PROVE  ViewInv' /\ Onwards
<1>1. /\ LoadsInv'
      /\ \A d \in Calls : Wants(d)' => (\A p \in Asks.parts : call'[d].got[p] = None) /\ ~call'[d].old
  BY LoadKeeps
<1>2. Asks' = Asks /\ ViewRec' = ViewRec /\ Numbered' = Numbered
  BY DEF Asks, ViewRec, ShownRec, Numbered
<1>3. \A d \in Calls : Wants(d)' => NotBefore(view.shown.got, call[d].got)'
  BY <1>1, <1>2 DEF NotBefore
<1>4. view'.shown # None => view'.shown = view.shown /\ Dated(view.shown.got)'
  BY <1>2 DEF ShownInv, Dated
<1>5. ShownInv'
  BY <1>2, <1>3, <1>4 DEF ShownInv
<1>6. OpeningInv'
  BY <1>1, <1>2, <1>4 DEF OpeningInv
<1> QED
  BY <1>1, <1>5, <1>6, SameIsOnwards DEF ViewInv

\* A view that is looked at otherwise keeps its loads and what it shows.
LEMMA IdleKeeps ==
    ASSUME Numbered \/ Awaited, LoadsInv, ShownInv, OpeningInv, UNCHANGED <<section, era>>, Idle,
           view' \in ViewRec, view'.shown = view.shown, Numbered => view'.open = view.open
    PROVE  ViewInv' /\ Onwards
<1>1. UNCHANGED <<call, latest, busy>>
  BY DEF Idle
<1>2. Asks' = Asks /\ ViewRec' = ViewRec /\ LoadRec' = LoadRec /\ Numbered' = Numbered /\ Awaited' = Awaited
  BY DEF Asks, ViewRec, ShownRec, LoadRec, Numbered, Awaited
<1>3. /\ \A got : Dated(got)' <=> Dated(got)
      /\ \A c : Wants(c)' <=> Wants(c)
  BY <1>1, <1>2 DEF Dated, Wants, Paints
<1>4. LoadsInv'
  BY <1>1, <1>2, <1>3 DEF LoadsInv, Loading
<1>5. ShownInv'
  BY <1>1, <1>2, <1>3 DEF ShownInv, NotBefore
<1>6. OpeningInv'
  BY <1>1, <1>2, <1>3 DEF OpeningInv
<1> QED
  BY <1>4, <1>5, <1>6, SameIsOnwards DEF ViewInv

\* What is out or shown when a view is closed is of an earlier opening from then on.
LEMMA ClosingKeeps ==
    ASSUME Numbered \/ Awaited, LoadsInv, ShownInv, UNCHANGED <<section, era>>,
           NEW v \in ViewRec, NEW current, Closes(v, current), current \in {latest, None},
           v.shown \in {view.shown, None}, section = "file" => v.shown = None /\ current = None
    PROVE  ViewInv' /\ Onwards
<1>1. /\ view' = [v EXCEPT !.open = FALSE, !.shown = IF v.shown = None THEN None ELSE [v.shown EXCEPT !.old = TRUE]]
      /\ call' = [c \in Calls |-> IF call[c] = None THEN None ELSE [call[c] EXCEPT !.old = TRUE]]
      /\ latest' = current /\ busy' = busy
  BY DEF Closes, ViewRec
<1>2. Asks' = Asks /\ ViewRec' = ViewRec /\ LoadRec' = LoadRec /\ Numbered' = Numbered /\ Awaited' = Awaited
  BY DEF Asks, ViewRec, ShownRec, LoadRec, Numbered, Awaited
<1>3. PICK was : was = IF v.shown = None THEN None ELSE [v.shown EXCEPT !.old = TRUE]
  OBVIOUS
<1>4. /\ was \in ShownRec \cup {None}
      /\ was # None => view.shown # None /\ was.got = view.shown.got
      /\ section = "file" => was = None
  <2>1. CASE v.shown = None
    BY <1>3, <2>1
  <2>2. CASE v.shown # None
    <3>1. v.shown \in ShownRec /\ v.shown = view.shown
      BY <2>2 DEF ViewRec
    <3> QED
      BY <1>3, <2>2, <3>1 DEF ShownRec
  <2> QED
    BY <2>1, <2>2
<1>5. view' \in ViewRec /\ view'.open = FALSE /\ view'.shown = was
  BY <1>1, <1>3, <1>4 DEF ViewRec
<1>6. \A q \in LoadRec : [q EXCEPT !.old = TRUE] \in LoadRec /\ [q EXCEPT !.old = TRUE].got = q.got
  BY DEF LoadRec
<1>7. \A c \in Calls :
        /\ call'[c] \in LoadRec \cup {None}
        /\ call'[c] # None => call[c] # None /\ call'[c].got = call[c].got
  BY <1>1, <1>6 DEF LoadsInv
<1>8. call' \in [Calls -> LoadRec \cup {None}]
  BY <1>1, <1>7
<1>9. \A got : Dated(got)' <=> Dated(got)
  BY <1>2 DEF Dated
<1>10. LoadsInv'
  <2>1. \A c \in Calls : call'[c] # None => Dated(call[c].got)'
    BY <1>7, <1>9 DEF LoadsInv
  <2>2. Awaited => \A c, d \in Calls : call'[c] # None /\ call'[d] # None => c = d
    BY <1>7 DEF LoadsInv
  <2>3. section = "metrics" /\ Loading' => busy
    BY <1>7 DEF LoadsInv, Loading
  <2> QED
    BY <1>1, <1>2, <1>8, <2>1, <2>2, <2>3 DEF LoadsInv
<1>11. ShownInv'
  <2>1. ASSUME was # None, NEW c \in Calls, Wants(c)' PROVE NotBefore(was.got, call'[c].got)
    <3>1. call[c] # None /\ call'[c].got = call[c].got
      BY <1>7, <2>1 DEF Wants
    <3>2. Wants(c)
      BY <1>1, <1>4, <2>1, <3>1, ViewsAssumption DEF Wants, Paints
    <3> QED
      BY <1>4, <2>1, <3>1, <3>2 DEF ShownInv
  <2>2. was # None => Dated(was.got)'
    BY <1>4, <1>9 DEF ShownInv
  <2>3. \A x, y : NotBefore(x, y)' <=> NotBefore(x, y)
    BY <1>2 DEF NotBefore
  <2> QED
    BY <1>2, <1>5, <2>1, <2>2, <2>3 DEF ShownInv
<1>12. OpeningInv'
  BY <1>1, <1>4, <1>5 DEF OpeningInv
<1>13. Onwards
  BY <1>4, <1>5, SameIsOnwards
<1> QED
  BY <1>10, <1>11, <1>12, <1>13 DEF ViewInv

\* A part is read from the panel as it is, which is no older than what is shown.
LEMMA PartKeeps ==
    ASSUME Numbered \/ Awaited, PanelTyped, LoadsInv, ShownInv, OpeningInv, NEW c \in Calls, ReadPart(c)
    PROVE  ViewInv' /\ Onwards
<1>1. UNCHANGED <<section, era, view, latest, busy>> /\ call[c] # None
  BY DEF ReadPart, fixed, panel
<1>2. PICK p \in Asks.parts : call' = [call EXCEPT ![c].got[p] = era] \/ call' = [call EXCEPT ![c].got[p] = Lost]
  BY DEF ReadPart
<1>3. PICK read \in {era, Lost} : call' = [call EXCEPT ![c].got[p] = read]
  BY <1>2
<1>4. PICK was, got : was = call[c] /\ got = [was.got EXCEPT ![p] = read]
  OBVIOUS
<1>5. era \in Nat
  BY PanelWorkAssumption DEF PanelTyped
<1>6. was \in LoadRec /\ was.got \in [Asks.parts -> Nat \cup {None, Lost}]
  BY <1>1, <1>4 DEF LoadsInv, LoadRec
<1>7. /\ got \in [Asks.parts -> Nat \cup {None, Lost}]
      /\ \A x \in Asks.parts : got[x] = IF x = p THEN read ELSE was.got[x]
  BY <1>3, <1>4, <1>5, <1>6
<1>8. PICK q : q = [was EXCEPT !.got = got]
  OBVIOUS
<1>9. q \in LoadRec /\ q.got = got /\ q.old = was.old
  BY <1>6, <1>7, <1>8 DEF LoadRec
<1>10. call' = [call EXCEPT ![c] = q]
  BY <1>3, <1>4, <1>8 DEF LoadsInv
<1>11. call' \in [Calls -> LoadRec \cup {None}] /\ \A d \in Calls : call'[d] = IF d = c THEN q ELSE call[d]
  BY <1>9, <1>10 DEF LoadsInv
<1>12. Asks' = Asks /\ ViewRec' = ViewRec /\ LoadRec' = LoadRec /\ Numbered' = Numbered /\ Awaited' = Awaited
  BY <1>1 DEF Asks, ViewRec, ShownRec, LoadRec, Numbered, Awaited
<1>13. /\ \A x : Dated(x)' <=> Dated(x)
       /\ \A x, y : NotBefore(x, y)' <=> NotBefore(x, y)
  BY <1>1, <1>12 DEF Dated, NotBefore
<1>14. \A d \in Calls : call'[d] # None => call[d] # None /\ (Wants(d)' => Wants(d))
  BY <1>1, <1>11 DEF Wants, Paints
<1>15. Dated(got)
  <2>1. Dated(was.got)
    BY <1>1, <1>4 DEF LoadsInv
  <2>2. read \in (0 .. era) \cup {None, Lost}
    BY <1>3, <1>5
  <2> QED
    BY <1>7, <2>1, <2>2 DEF Dated
<1>16. LoadsInv'
  <2>1. \A d \in Calls : call'[d] # None => Dated(call'[d].got)
    BY <1>9, <1>11, <1>15 DEF LoadsInv
  <2>2. Awaited => \A d, e \in Calls : call'[d] # None /\ call'[e] # None => d = e
    BY <1>14 DEF LoadsInv
  <2>3. section = "metrics" /\ Loading' => busy
    BY <1>14 DEF LoadsInv, Loading
  <2> QED
    BY <1>1, <1>11, <1>12, <1>13, <2>1, <2>2, <2>3 DEF LoadsInv
<1>17. ASSUME view.shown # None, NEW d \in Calls, Wants(d)' PROVE NotBefore(view.shown.got, call'[d].got)
  <2>1. call[d] # None /\ Wants(d)
    BY <1>14, <1>17 DEF Wants
  <2>2. Dated(view.shown.got) /\ NotBefore(view.shown.got, call[d].got)
    BY <1>17, <2>1 DEF ShownInv
  <2>3. view.shown.got \in [Asks.parts -> Nat \cup {Lost}]
    BY <1>17 DEF ShownInv, ViewRec, ShownRec
  <2>4. CASE d # c
    BY <1>11, <2>2, <2>4
  <2>5. CASE d = c
    <3>1. NotBefore(view.shown.got, was.got) /\ call'[d].got = got
      BY <1>4, <1>9, <1>11, <2>2, <2>5
    <3>2. read = Lost \/ view.shown.got[p] = Lost \/ read >= view.shown.got[p]
      <4>1. view.shown.got[p] \in (0 .. era) \cup {None, Lost} /\ view.shown.got[p] \in Nat \cup {Lost}
        BY <2>2, <2>3 DEF Dated
      <4> QED
        BY <1>3, <1>5, <4>1, PanelWorkAssumption
    <3> QED
      BY <1>7, <3>1, <3>2 DEF NotBefore
  <2> QED
    BY <2>4, <2>5
<1>18. ShownInv'
  BY <1>1, <1>12, <1>13, <1>17 DEF ShownInv
<1>19. OpeningInv'
  <2>1. \A d \in Calls : call'[d] # None => call'[d].old = call[d].old
    BY <1>4, <1>9, <1>11
  <2> QED
    BY <1>1, <1>12, <1>14, <2>1 DEF OpeningInv, Wants
<1> QED
  BY <1>1, <1>16, <1>18, <1>19, SameIsOnwards DEF ViewInv

\* A load that returns paints, if it may: what it brings is no older than what was shown.
LEMMA ReturnKeeps ==
    ASSUME Numbered \/ Awaited, LoadsInv, ShownInv, OpeningInv, NEW c \in Calls, call[c] # None,
           NEW next \in ViewRec, Return(c, next), next.open = view.open,
           NEW q, q = call[c],
           \/ next.shown = view.shown
           \/ next.shown = None
           \/ next.shown.got = q.got /\ next.shown.old = q.old /\ \A p \in Asks.parts : q.got[p] # None
    PROVE  ViewInv' /\ Onwards
<1>1. /\ UNCHANGED <<section, era>> /\ view' = IF Paints(c) THEN next ELSE view
      /\ call' = [call EXCEPT ![c] = None] /\ latest' = (IF latest = c THEN None ELSE latest) /\ busy' = FALSE
  BY DEF Return, fixed, panel
<1>2. call' \in [Calls -> LoadRec \cup {None}] /\ \A d \in Calls : call'[d] = IF d = c THEN None ELSE call[d]
  BY <1>1 DEF LoadsInv
<1>3. Asks' = Asks /\ ViewRec' = ViewRec /\ LoadRec' = LoadRec /\ Numbered' = Numbered /\ Awaited' = Awaited
  BY <1>1 DEF Asks, ViewRec, ShownRec, LoadRec, Numbered, Awaited
<1>4. /\ \A x : Dated(x)' <=> Dated(x)
      /\ \A x, y : NotBefore(x, y)' <=> NotBefore(x, y)
  BY <1>1, <1>3 DEF Dated, NotBefore
<1>5. \A d \in Calls : call'[d] # None => d # c /\ call'[d] = call[d] /\ call[d] # None
  BY <1>2
<1>6. \A d \in Calls : Wants(d)' => Wants(d) /\ call'[d] = call[d] /\ d # c
  BY <1>1, <1>5, ViewsAssumption DEF Wants, Paints
\* Nothing else may paint after it: the other loads are overtaken, or there are none.
<1>7. Paints(c) => \A d \in Calls : ~Wants(d)'
  <2>1. CASE Awaited
    BY <1>5, <2>1 DEF LoadsInv, Wants
  <2>2. CASE Numbered
    BY <1>1, <1>6, <2>2 DEF Wants, Paints, Numbered
  <2> QED
    BY <2>1, <2>2
<1>8. LoadsInv'
  <2>1. \A d \in Calls : call'[d] # None => Dated(call'[d].got)
    BY <1>5 DEF LoadsInv
  <2>2. Awaited => \A d, e \in Calls : call'[d] # None /\ call'[e] # None => d = e
    BY <1>5 DEF LoadsInv
  <2>3. section = "metrics" => ~Loading'
    BY <1>5 DEF LoadsInv, Loading, Awaited
  <2> QED
    BY <1>1, <1>2, <1>3, <1>4, <2>1, <2>2, <2>3 DEF LoadsInv
<1>9. q \in LoadRec /\ Dated(q.got)
  BY DEF LoadsInv
<1>10. ShownInv'
  <2>1. view' \in ViewRec
    BY <1>1 DEF ShownInv
  <2>2. view'.shown # None => Dated(view'.shown.got)
    BY <1>1, <1>9 DEF ShownInv
  <2>3. ASSUME view'.shown # None, NEW d \in Calls, Wants(d)' PROVE NotBefore(view'.shown.got, call'[d].got)
    BY <1>1, <1>6, <1>7, <2>3 DEF ShownInv
  <2> QED
    BY <1>3, <1>4, <2>1, <2>2, <2>3 DEF ShownInv
<1>11. Paints(c) => Wants(c)
  BY DEF Wants
<1>12. OpeningInv'
  <2>1. ASSUME Numbered, view'.open
        PROVE  (\A d \in Calls : Wants(d)' => ~call'[d].old) /\ (view'.shown # None => ~view'.shown.old)
    BY <1>1, <1>6, <1>11, <2>1 DEF OpeningInv
  <2>2. ASSUME section = "file", ~view'.open PROVE view'.shown = None /\ latest' = None
    <3>1. ~view.open /\ Numbered
      BY <1>1, <2>2 DEF Numbered
    <3>2. view.shown = None /\ latest = None
      BY <2>2, <3>1 DEF OpeningInv
    <3>3. ~Paints(c)
      BY <2>2, <3>2, ViewsAssumption DEF Paints
    <3> QED
      BY <1>1, <3>2, <3>3
  <2> QED
    BY <1>1, <1>3, <2>1, <2>2 DEF OpeningInv
<1>13. Onwards
  <2>1. CASE view' = view
    BY <2>1, SameIsOnwards
  <2>2. CASE next.shown \in {view.shown, None} /\ view' = next
    BY <2>2, SameIsOnwards
  <2>3. CASE /\ Paints(c) /\ view' = next /\ next.shown.got = q.got
             /\ \A p \in Asks.parts : q.got[p] # None
    <3>1. view.shown # None => NotBefore(view.shown.got, q.got)
      BY <1>11, <2>3 DEF ShownInv
    <3> QED
      BY <2>3, <3>1 DEF Onwards, NotBefore, Forward
  <2> QED
    BY <1>1, <2>1, <2>2, <2>3
<1> QED
  BY <1>8, <1>10, <1>12, <1>13 DEF ViewInv

\* An answer, and a refusal.
LEMMA ReplyKeeps ==
    ASSUME Numbered \/ Awaited, LoadsInv, ShownInv, OpeningInv, NEW c \in Calls, Reply(c) \/ Refuse(c)
    PROVE  ViewInv' /\ Onwards
<1>1. PICK q : q = call[c]
  OBVIOUS
<1>2. call[c] # None /\ q \in LoadRec
  BY <1>1 DEF Reply, Refuse, LoadsInv
<1>3. view \in ViewRec /\ section # "folders"
  BY DEF ShownInv, Numbered, Awaited
<1>4. CASE Reply(c)
  <2>1. Return(c, Fulfil(c)) /\ \A p \in Asks.parts : q.got[p] # None
    BY <1>1, <1>4 DEF Reply, Whole
  <2>2. PICK shown : shown = [of |-> q.of, got |-> q.got, old |-> q.old]
    OBVIOUS
  <2>3. shown \in ShownRec /\ shown.got = q.got /\ shown.old = q.old
    <3>1. q.of = None /\ q.old \in BOOLEAN /\ q.got \in [Asks.parts -> Nat \cup {Lost}]
      BY <1>2, <2>1 DEF LoadRec
    <3> QED
      BY <2>2, <3>1 DEF ShownRec
  <2>4. PICK next : next = [view EXCEPT !.shown = shown, !.failed = FALSE, !.path = view.path]
    OBVIOUS
  <2>5. next = Fulfil(c)
    BY <1>1, <1>3, <2>2, <2>4 DEF Fulfil
  <2>6. next \in ViewRec /\ next.shown = shown /\ next.open = view.open
    BY <1>3, <2>3, <2>4 DEF ViewRec
  <2> QED
    BY <1>1, <1>2, <2>1, <2>3, <2>5, <2>6, ReturnKeeps
<1>5. CASE Refuse(c)
  <2>1. PICK next : next = Fail
    OBVIOUS
  <2>2. next \in ViewRec /\ next.shown \in {view.shown, None} /\ next.open = view.open
    BY <1>3, <2>1 DEF ViewRec, Fail
  <2>3. Return(c, next)
    BY <1>5, <2>1 DEF Refuse
  <2> QED
    BY <1>1, <1>2, <2>2, <2>3, ReturnKeeps
<1> QED
  BY <1>4, <1>5

\* What the user and the polls do to a view.
LEMMA UserKeeps ==
    ASSUME Numbered \/ Awaited, LoadsInv, ShownInv, OpeningInv, UNCHANGED <<section, era>>, User \/ ViewTick
    PROVE  ViewInv' /\ Onwards
<1>1. view \in ViewRec
  BY DEF ShownInv
<1>2. /\ Blank \in ViewRec /\ Blank.shown = None
      /\ \A v \in ViewRec : /\ [v EXCEPT !.open = TRUE] \in ViewRec
                            /\ [v EXCEPT !.open = TRUE].open /\ [v EXCEPT !.open = TRUE].shown = v.shown
  BY DEF Blank, ViewRec
<1>3. \A b \in BOOLEAN : /\ [view EXCEPT !.live = b] \in ViewRec
                         /\ [view EXCEPT !.live = b].open = view.open
                         /\ [view EXCEPT !.live = b].shown = view.shown
  BY <1>1 DEF ViewRec
<1>4. [view EXCEPT !.shown = None, !.failed = FALSE] \in ViewRec
      /\ [view EXCEPT !.shown = None, !.failed = FALSE].shown = None
  BY <1>1 DEF ViewRec
\* A view is opened and loads at once, ...
<1>5. ASSUME NEW v \in ViewRec, Opens(v), NEW button \in BOOLEAN, Load(None, button), Awaited => ~Loading,
             v.shown = None \/ (v.shown = view.shown /\ Awaited)
      PROVE  ViewInv' /\ Onwards
  <2>1. view' \in ViewRec /\ view'.open /\ view'.shown = v.shown
    BY <1>2, <1>5 DEF Opens
  <2>2. Awaited => ~Numbered
    BY DEF Awaited, Numbered
  <2> QED
    BY <1>5, <2>1, <2>2, LoadingKeeps
\* ... or without loading, ...
<1>6. ASSUME Opens(view), Idle, Awaited PROVE ViewInv' /\ Onwards
  <2>1. view' \in ViewRec /\ view'.shown = view.shown
    BY <1>1, <1>2, <1>6 DEF Opens
  <2>2. ~Numbered
    BY <1>6 DEF Awaited, Numbered
  <2> QED
    BY <1>6, <2>1, <2>2, IdleKeeps
\* ... and one that is open loads again.
<1>7. ASSUME view' = view, NEW button \in BOOLEAN, Load(None, button), Awaited => ~Loading, Numbered => view.open
      PROVE  ViewInv' /\ Onwards
  BY <1>1, <1>7, LoadingKeeps
<1>8. CASE section = "logs"
  <2>1. /\ ~Awaited /\ section # "file"
        /\ ProjectLogsDialog \/ LogsTick
    BY <1>8 DEF User, ViewTick, Awaited
  <2>2. CASE Opens(Blank) /\ Load(None, TRUE)
    BY <1>2, <1>5, <2>1, <2>2
  <2>3. CASE Closes([view EXCEPT !.live = FALSE], latest)
    BY <1>3, <2>1, <2>3, ClosingKeeps
  <2>4. CASE Again /\ Load(None, TRUE)
    BY <1>7, <2>1, <2>4 DEF Again
  <2>5. CASE view.open /\ view' = [view EXCEPT !.live = TRUE] /\ Load(None, FALSE)
    <3>1. view' \in ViewRec /\ view'.open /\ view'.shown = view.shown
      BY <1>3, <2>5
    <3> QED
      BY <2>1, <2>5, <3>1, LoadingKeeps
  <2>6. CASE view.open /\ view' = [view EXCEPT !.live = FALSE] /\ Idle
    <3>1. view' \in ViewRec /\ view'.open = view.open /\ view'.shown = view.shown
      BY <1>3, <2>6
    <3> QED
      BY <2>6, <3>1, IdleKeeps
  <2>7. CASE LogsTick
    BY <1>7, <2>1, <2>7 DEF LogsTick
  <2> QED
    BY <2>1, <2>2, <2>3, <2>4, <2>5, <2>6, <2>7 DEF ProjectLogsDialog
<1>9. CASE section = "file"
  <2>1. ~Awaited /\ FileViewDialog
    BY <1>9 DEF User, ViewTick, Awaited
  <2>2. CASE Opens(view) /\ Load(None, TRUE)
    <3>1. view.shown = None
      BY <1>9, <2>2 DEF OpeningInv, Numbered, Opens
    <3> QED
      BY <1>1, <1>5, <2>1, <2>2, <3>1
  <2>3. CASE FileForgotten
    BY <1>4, <2>3, ClosingKeeps DEF FileForgotten
  <2>4. CASE Again /\ Load(None, TRUE)
    BY <1>7, <2>1, <2>4 DEF Again
  <2> QED
    BY <2>1, <2>2, <2>3, <2>4, Zenon DEF FileViewDialog
<1>10. CASE section \in {"site", "sitelog"}
  <2>1. Awaited /\ ~Numbered /\ section # "file"
    BY <1>10 DEF Awaited, Numbered
  <2>2. SiteDetailDialog \/ SiteLog
    BY <1>10 DEF User, ViewTick
  <2>3. CASE Opens(view) /\ ~Loading /\ Load(None, TRUE)
    BY <1>1, <1>5, <2>1, <2>3
  <2>4. CASE Opens(view) /\ Idle
    BY <1>6, <2>1, <2>4
  <2>5. CASE Closes(view, latest)
    BY <1>1, <2>1, <2>5, ClosingKeeps
  <2>6. CASE Again /\ ~Loading /\ Load(None, TRUE)
    BY <1>7, <2>1, <2>6 DEF Again
  <2> QED
    BY <2>2, <2>3, <2>4, <2>5, <2>6 DEF SiteDetailDialog, SiteLog
<1>11. CASE section = "metrics"
  <2>1. Awaited /\ ~Numbered /\ (HandleRetry \/ OverviewTick)
    BY <1>11 DEF User, ViewTick, Awaited, Numbered
  <2>2. ~busy /\ view' = view /\ Load(None, FALSE)
    BY <2>1 DEF HandleRetry, OverviewTick
  <2>3. ~Loading
    BY <1>11, <2>2 DEF LoadsInv
  <2> QED
    BY <1>7, <2>1, <2>2, <2>3
<1>12. CASE section = "rules"
  <2>1. ~Numbered /\ RefreshAll
    BY <1>12 DEF User, ViewTick, Numbered
  <2> QED
    BY <1>7, <2>1 DEF RefreshAll, Again
<1> QED
  BY <1>8, <1>9, <1>10, <1>11, <1>12 DEF Numbered, Awaited

\* Every step of a page keeps what its views show in order.
LEMMA ViewsKeep ==
    ASSUME PageInv, ViewInv, [PageNext]_pageVars
    PROVE  ViewInv' /\ (Numbered \/ Awaited => Onwards)
<1>1. section' = section /\ PanelTyped
  BY SectionStays DEF fixed, PageInv, WorkInv
<1>2. CASE ~(Numbered \/ Awaited)
  BY <1>1, <1>2 DEF ViewInv, Numbered, Awaited
<1> SUFFICES ASSUME Numbered \/ Awaited PROVE ViewInv' /\ Onwards
  BY <1>2
<1>3. LoadsInv /\ ShownInv /\ OpeningInv /\ section \notin Sections
  BY PanelWorkAssumption DEF ViewInv, Numbered, Awaited
<1>4. view \in ViewRec
  BY <1>3 DEF ShownInv
<1>5. ASSUME UNCHANGED <<era, viewing>> PROVE ViewInv' /\ Onwards
  BY <1>1, <1>3, <1>4, <1>5, IdleKeeps DEF viewing, Idle
<1>6. CASE UNCHANGED pageVars
  BY <1>5, <1>6 DEF pageVars, vars, panel
<1>7. CASE ContentChanges
  <2>1. UNCHANGED <<view, call, latest, busy>> /\ era' = era + 1 /\ era \in Nat
    BY <1>1, <1>7, PanelWorkAssumption DEF ContentChanges, viewing, PanelTyped
  <2>2. Asks' = Asks /\ ViewRec' = ViewRec /\ LoadRec' = LoadRec /\ Numbered' = Numbered /\ Awaited' = Awaited
    BY <1>1 DEF Asks, ViewRec, ShownRec, LoadRec, Numbered, Awaited
  <2>3. \A n \in 0 .. era : n \in 0 .. era'
    BY <2>1
  <2>4. \A got : Dated(got) => Dated(got)'
    BY <2>2, <2>3 DEF Dated
  <2>5. \A c : Wants(c)' <=> Wants(c)
    BY <1>1, <2>1 DEF Wants, Paints
  <2>6. LoadsInv'
    BY <1>1, <1>3, <2>1, <2>2, <2>4 DEF LoadsInv, Loading
  <2>7. ShownInv'
    BY <1>3, <2>1, <2>2, <2>4, <2>5 DEF ShownInv, NotBefore
  <2>8. OpeningInv'
    BY <1>1, <1>3, <2>1, <2>2, <2>5 DEF OpeningInv
  <2> QED
    BY <1>3, <2>1, <2>6, <2>7, <2>8, SameIsOnwards DEF ViewInv
<1>8. CASE User \/ ViewTick
  <2>1. era' = era
    BY <1>8 DEF User, ViewTick, vars, panel
  <2> QED
    BY <1>1, <1>3, <1>8, <2>1, UserKeeps
<1>9. ASSUME NEW c \in Calls, BeginRead(c) PROVE ViewInv' /\ Onwards
  BY <1>5, <1>9 DEF BeginRead, panel
<1>10. ASSUME NEW c \in Calls, ReadPart(c) PROVE ViewInv' /\ Onwards
  BY <1>1, <1>3, <1>10, PartKeeps
<1>11. ASSUME NEW c \in Calls, Reply(c) \/ Refuse(c) PROVE ViewInv' /\ Onwards
  BY <1>3, <1>11, ReplyKeeps
<1> QED
  BY <1>3, <1>6, <1>7, <1>8, <1>9, <1>10, <1>11 DEF PageNext, OfList, OfView, Replies, Lapses

\* A view starts closed, or with what the page was rendered with.
LEMMA ViewStarts == PageInit => ViewInv
<1> SUFFICES ASSUME PageInit, Numbered \/ Awaited PROVE LoadsInv /\ ShownInv /\ OpeningInv
  BY DEF ViewInv
<1>1. section \notin Sections
  BY PanelWorkAssumption DEF Numbered, Awaited
<1>2. ViewInit
  BY <1>1 DEF PageInit, Init
<1>3. call = [c \in Calls |-> None] /\ latest = None /\ busy = FALSE /\ era = 0
  BY <1>2 DEF ViewInit
<1>4. LoadsInv
  BY <1>3 DEF LoadsInv, Loading
<1>5. \A c \in Calls : ~Wants(c)
  BY <1>3 DEF Wants
<1>6. PICK arrived \in {None, [of |-> None, got |-> [p \in Asks.parts |-> 0], old |-> FALSE]} :
        view = IF section \in {"metrics", "rules"}
               THEN [Blank EXCEPT !.open = TRUE, !.shown = arrived, !.failed = arrived = None]
               ELSE Blank
  BY <1>2 DEF ViewInit
<1>7. arrived = None \/ (arrived \in ShownRec /\ \A p \in Asks.parts : arrived.got[p] = 0)
  <2>1. PICK got : got = [p \in Asks.parts |-> 0]
    OBVIOUS
  <2>2. got \in [Asks.parts -> Nat \cup {Lost}] /\ \A p \in Asks.parts : got[p] = 0
    BY <2>1
  <2>3. CASE arrived = [of |-> None, got |-> got, old |-> FALSE]
    BY <2>2, <2>3 DEF ShownRec
  <2> QED
    BY <1>6, <2>1, <2>3
<1>8. CASE section \in {"metrics", "rules"}
  <2>0. PICK failed : failed = (arrived = None)
    OBVIOUS
  <2>1. failed \in BOOLEAN /\ view = [Blank EXCEPT !.open = TRUE, !.shown = arrived, !.failed = failed]
    BY <1>6, <1>8, <2>0
  <2>2. view \in ViewRec /\ view.shown = arrived
    BY <1>7, <2>1 DEF ViewRec, Blank
  <2>3. ~Numbered
    BY <1>8 DEF Numbered
  <2> QED
    BY <1>3, <1>4, <1>5, <1>7, <2>2, <2>3 DEF ShownInv, Dated, OpeningInv
<1>9. CASE section \notin {"metrics", "rules"}
  <2>1. view \in ViewRec /\ view.shown = None /\ view.open = FALSE
    BY <1>6, <1>9 DEF ViewRec, Blank
  <2> QED
    BY <1>3, <1>4, <1>5, <2>1 DEF ShownInv, OpeningInv
<1> QED
  BY <1>8, <1>9

\* The views are sound in every reachable state, over a sound page.
LEMMA ViewInvariant == Spec => [](PageInv /\ ViewInv)
<1>1. PageInit => ViewInv
  BY ViewStarts
<1>2. PageInv /\ ViewInv /\ [PageNext]_pageVars => ViewInv'
  BY ViewsKeep
<1> QED
  BY <1>1, <1>2, PageInvariant, PTL DEF Spec

\* A log or a file that is open shows nothing that was asked for before it was opened
\* (ProjectLogsDialog and FileViewDialog number their loads).
THEOREM ViewsAreOfTheirOpening == Spec => []ViewIsOfThisOpening
<1>1. ViewInv => ViewIsOfThisOpening
  BY DEF ViewInv, OpeningInv, Numbered, ViewIsOfThisOpening
<1> QED
  BY <1>1, ViewInvariant, PTL

\* A view that numbers its loads, or waits for them, never goes back to what its panel
\* said before, in whatever order the parts and the answers arrive.
THEOREM ViewsGoForward == Spec => ViewNeverGoesBack
<1>1. PageInv /\ ViewInv /\ [PageNext]_pageVars =>
        [/\ section \in {"logs", "file", "site", "sitelog", "metrics", "rules"}
         /\ view.shown # None /\ view'.shown # None
         => Forward(view.shown.got, view'.shown.got)]_pageVars
  BY ViewsKeep DEF Numbered, Awaited, Onwards
<1> QED
  BY <1>1, ViewInvariant, PTL DEF Spec, ViewNeverGoesBack

=============================================================================
