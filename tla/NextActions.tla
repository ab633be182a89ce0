----------------------------- MODULE NextActions -----------------------------
(***************************************************************************)
(* The next action a deal shows beside the tasks it is taken from:         *)
(* createTask, updateTask and syncDealNextAction of the sales service.     *)
(*                                                                         *)
(* A task is written first; then, in statements of their own, the open     *)
(* tasks of the deal are listed and the nearest dated one is written to    *)
(* the deal.  A request that writes a task lists that task's deal only.    *)
(*                                                                         *)
(* Abstracted: wording (a next action is a task and a day), checks of the  *)
(* company, contact and ban, which refuse before anything is written       *)
(* (the ban itself is in ProposalDrafts), versions of tasks (RowSaves).    *)
(***************************************************************************)
EXTENDS Naturals

CONSTANTS Clerks,    \* requests
          Tasks,     \* tasks there may be
          Cards,     \* deals
          Dates,     \* when a task may be due: instants, positive numbers
          Day,       \* of an instant: its day in UTC, which is all a deal shows of it
          Nobody,    \* no deal, no task
          MaxChanges \* bound: writes of tasks and deals by hand

VARIABLES tasks,     \* rows of sales_tasks
          nextAction, \* of each deal: the task shown and its day
          syncing,   \* of each request: the deal it is to bring up to date, or Nobody
          listed,    \* of each request: what it found to write there
          place,     \* of each request: where it is
          changes,
          fresh, astray \* history: see below

vars == <<tasks, nextAction, syncing, listed, place, changes, fresh, astray>>

Undated == 0
Missing == [deal |-> Nobody, due |-> Undated, status |-> "missing"]
Task == [deal : Cards \cup {Nobody}, due : Dates \cup {Undated},
         status : {"missing", "open", "done", "cancelled"}]
Nothing == <<Nobody, Undated>>
Days == {Day[i] : i \in Dates}

Init == /\ tasks = [t \in Tasks |-> Missing]
        /\ nextAction = [d \in Cards |-> Nothing]
        /\ syncing = [c \in Clerks |-> Nobody]
        /\ listed = [c \in Clerks |-> Nothing]
        /\ place = [c \in Clerks |-> "idle"]
        /\ changes = 0
        /\ fresh = {}
        /\ astray = {}

-----------------------------------------------------------------------------
(* nextActionFromOpenTasks: the open dated task of the deal due first; of  *)
(* two due at once, either.                                                *)

(* Seeded defect: a task that is done still counts. *)
dated_AnyStatus(d) == {t \in Tasks : tasks[t].deal = d /\ tasks[t].due # Undated}

dated(d) == {t \in Tasks : tasks[t].deal = d /\ tasks[t].status = "open" /\ tasks[t].due # Undated}

nearest(d) == IF dated(d) = {} THEN {Nothing}
              ELSE {<<t, Day[tasks[t].due]>> :
                      t \in {u \in dated(d) : \A v \in dated(d) : tasks[u].due <= tasks[v].due}}

(* History.  A listing is fresh until another write of a task touches its  *)
(* deal.  A deal is astray when what it shows may be out of date for a     *)
(* reason the code leaves room for: a listing that was not fresh was       *)
(* written, a task was taken away from it, it was edited by hand, or a     *)
(* request died before it brought the deal up to date.                     *)
touch(ds) == fresh' = {c \in fresh : syncing[c] \notin ds}

goTo(c, where) == place' = [place EXCEPT ![c] = where]
leave(c) == /\ goTo(c, "idle")
            /\ syncing' = [syncing EXCEPT ![c] = Nobody]
            /\ listed' = [listed EXCEPT ![c] = Nothing]

change == changes < MaxChanges /\ changes' = changes + 1

(* createSalesTask; a task without a deal has nothing to bring up to date. *)
createTask(c, t) ==
  /\ place[c] = "idle" /\ tasks[t].status = "missing" /\ change
  /\ \E d \in Cards \cup {Nobody}, due \in Dates \cup {Undated} :
       /\ tasks' = [tasks EXCEPT ![t] = [deal |-> d, due |-> due, status |-> "open"]]
       /\ syncing' = [syncing EXCEPT ![c] = d]
       /\ goTo(c, IF d = Nobody THEN "idle" ELSE "list")
       /\ touch({d})
  /\ UNCHANGED <<nextAction, listed, astray>>

(* updateSalesTask: one update of any of the fields.                       *)
updateTask(c, t) ==
  /\ place[c] = "idle" /\ tasks[t].status # "missing" /\ change
  /\ \E d \in Cards \cup {Nobody}, due \in Dates \cup {Undated}, s \in {"open", "done", "cancelled"} :
       /\ tasks' = [tasks EXCEPT ![t] = [deal |-> d, due |-> due, status |-> s]]
       /\ astray' = IF d = tasks[t].deal THEN astray ELSE astray \cup ({tasks[t].deal} \ {Nobody})
       /\ touch({d, tasks[t].deal})
  /\ syncing' = [syncing EXCEPT ![c] = t] /\ goTo(c, "reread")
  /\ UNCHANGED <<nextAction, listed>>

(* The task is read back, and whatever deal it is in by now is listed.     *)
readBack(c) ==
  /\ place[c] = "reread"
  /\ LET d == tasks[syncing[c]].deal
     IN IF d = Nobody THEN leave(c)
        ELSE goTo(c, "list") /\ syncing' = [syncing EXCEPT ![c] = d] /\ UNCHANGED listed
  /\ UNCHANGED <<tasks, nextAction, changes, fresh, astray>>

(* listOpenTasksForDeal.                                                   *)
list(c) ==
  /\ place[c] = "list" /\ goTo(c, "write")
  /\ \E n \in nearest(syncing[c]) : listed' = [listed EXCEPT ![c] = n]
  /\ fresh' = fresh \cup {c}
  /\ UNCHANGED <<tasks, nextAction, syncing, changes, astray>>

(* setDealNextActionSummary: whatever was listed is written.               *)
write(c) ==
  /\ place[c] = "write" /\ leave(c)
  /\ nextAction' = [nextAction EXCEPT ![syncing[c]] = listed[c]]
  /\ astray' = IF c \in fresh THEN astray \ {syncing[c]} ELSE astray \cup {syncing[c]}
  /\ fresh' = fresh \ {c}
  /\ UNCHANGED <<tasks, changes>>

(* The next action is a field of the deal's own form too (updateDeal).     *)
editDeal(d) ==
  /\ change
  /\ \E n \in {Nothing} \cup (Tasks \X Days) : nextAction' = [nextAction EXCEPT ![d] = n]
  /\ astray' = astray \cup {d}
  /\ UNCHANGED <<tasks, syncing, listed, place, fresh>>

die(c) ==
  /\ place[c] # "idle" /\ leave(c)
  /\ fresh' = fresh \ {c}
  /\ astray' = astray \cup
       ((IF place[c] = "reread" THEN {tasks[syncing[c]].deal} ELSE {syncing[c]}) \ {Nobody})
  /\ UNCHANGED <<tasks, nextAction, changes>>

Next == \/ \E c \in Clerks, t \in Tasks : createTask(c, t) \/ updateTask(c, t)
        \/ \E c \in Clerks : readBack(c) \/ list(c) \/ write(c) \/ die(c)
        \/ \E d \in Cards : editDeal(d)

Spec == Init /\ [][Next]_vars

-----------------------------------------------------------------------------
TypeOK == /\ tasks \in [Tasks -> Task]
          /\ nextAction \in [Cards -> (Tasks \X Days) \cup {Nothing}]
          /\ place \in [Clerks -> {"idle", "reread", "list", "write"}]
          /\ syncing \in [Clerks -> Cards \cup Tasks \cup {Nobody}]
          /\ \A c \in Clerks : /\ place[c] = "idle" => syncing[c] = Nobody
                               /\ place[c] = "reread" => syncing[c] \in Tasks
                               /\ place[c] \in {"list", "write"} => syncing[c] \in Cards
          /\ listed \in [Clerks -> (Tasks \X Days) \cup {Nothing}]
          /\ changes \in 0 .. MaxChanges
          /\ fresh \subseteq {c \in Clerks : place[c] = "write"} /\ astray \subseteq Cards

settled(d) == \A c \in Clerks : IF place[c] = "reread" THEN tasks[syncing[c]].deal # d ELSE syncing[c] # d

waiting(t, d) == tasks[t].deal = d /\ tasks[t].status = "open" /\ tasks[t].due # Undated

(* "The summary does not part from the nearest open task": once no request *)
(* is under way for a deal, it shows an open task of its own with its true *)
(* day and no other of its tasks is due earlier, or nothing when it has    *)
(* none; save for deals astray.                                            *)
SummaryFollowsTasks ==
  \A d \in Cards : settled(d) /\ d \notin astray =>
    IF nextAction[d] = Nothing THEN \A t \in Tasks : ~waiting(t, d)
    ELSE LET shown == nextAction[d][1]
         IN /\ waiting(shown, d) /\ Day[tasks[shown].due] = nextAction[d][2]
            /\ \A t \in Tasks : waiting(t, d) => tasks[shown].due <= tasks[t].due
=============================================================================
