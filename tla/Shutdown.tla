------------------------------- MODULE Shutdown -------------------------------
(***************************************************************************)
(* The end of the API process: on a signal the server takes no more        *)
(* requests and is given a grace period; what is left of it goes to the    *)
(* background tasks that requests deferred; then the database is left.     *)
(*                                                                         *)
(* A request cut off by force is a connection closed: its handler goes on  *)
(* and may defer tasks still.  A task past its own limit is told to abort  *)
(* and is waited for until it settles.                                     *)
(***************************************************************************)
EXTENDS FiniteSets

CONSTANTS Handlers,  \* requests
          Deferred   \* background tasks there may be

VARIABLES phase,     \* of the process: "serving", "stopping", "closing" or "closed"
          handler,   \* of each request: "none", "open", "cut" or "done"
          work,      \* of each background task: "none", "pending", "aborting" or "settled"
          overdue    \* the grace period is over

vars == <<phase, handler, work, overdue>>

Init == /\ phase = "serving" /\ overdue = FALSE
        /\ handler = [h \in Handlers |-> "none"]
        /\ work = [d \in Deferred |-> "none"]

-----------------------------------------------------------------------------
inFlight == {h \in Handlers : handler[h] = "open"}
pending == {d \in Deferred : work[d] \in {"pending", "aborting"}}

(* Requests and tasks, which may take for ever. *)
accept(h) == /\ phase = "serving" /\ handler[h] = "none"
             /\ handler' = [handler EXCEPT ![h] = "open"]
             /\ UNCHANGED <<phase, work, overdue>>

defer(h, d) == /\ handler[h] \in {"open", "cut"} /\ work[d] = "none"
               /\ work' = [work EXCEPT ![d] = "pending"]
               /\ UNCHANGED <<phase, handler, overdue>>

respond(h) == /\ handler[h] \in {"open", "cut"}
              /\ handler' = [handler EXCEPT ![h] = "done"]
              /\ UNCHANGED <<phase, work, overdue>>

(* A failure of a task is reported and settles it too. *)
settle(d) == /\ d \in pending
             /\ work' = [work EXCEPT ![d] = "settled"]
             /\ UNCHANGED <<phase, handler, overdue>>

(* Its own limit passes: the task is aborted, not forgotten. *)
abort(d) == /\ work[d] = "pending"
            /\ work' = [work EXCEPT ![d] = "aborting"]
            /\ UNCHANGED <<phase, handler, overdue>>

-----------------------------------------------------------------------------
(* SIGINT or SIGTERM; a second one is ignored. *)
shutdown == phase = "serving" /\ phase' = "stopping" /\ UNCHANGED <<handler, work, overdue>>

(* The one deadline of both stages passes. *)
deadline == /\ phase \in {"stopping", "closing"} /\ ~overdue
            /\ overdue' = TRUE
            /\ UNCHANGED <<phase, handler, work>>

(* Seeded defect: the server is waited for without a limit. *)
stopServer_Patient == /\ phase = "stopping" /\ inFlight = {}
                      /\ phase' = "closing" /\ UNCHANGED <<handler, work, overdue>>

(* stopServerGracefully: every request has ended, or the rest is cut off.  *)
stopServer ==
  /\ phase = "stopping" /\ phase' = "closing"
  /\ \/ inFlight = {} /\ UNCHANGED handler
     \/ /\ overdue
        /\ handler' = [h \in Handlers |-> IF h \in inFlight THEN "cut" ELSE handler[h]]
  /\ UNCHANGED <<work, overdue>>

(* Seeded defect: the database is left as soon as the server has stopped.  *)
close_Undrained == /\ phase = "closing" /\ phase' = "closed"
                   /\ UNCHANGED <<handler, work, overdue>>

(* drain, closeBackendRuntime: every task has settled, or the deadline     *)
(* aborts the rest.                                                        *)
close ==
  /\ phase = "closing" /\ phase' = "closed"
  /\ \/ pending = {} /\ UNCHANGED work
     \/ /\ overdue
        /\ work' = [d \in Deferred |-> IF d \in pending THEN "aborting" ELSE work[d]]
  /\ UNCHANGED <<handler, overdue>>

(* A timer fires and a promise is taken up; whether a request or a task    *)
(* ever ends is theirs to say.                                             *)
Fairness == WF_vars(deadline) /\ WF_vars(stopServer) /\ WF_vars(close)

Next == \/ \E h \in Handlers : \/ accept(h) \/ respond(h)
                               \/ \E d \in Deferred : defer(h, d)
        \/ \E d \in Deferred : settle(d) \/ abort(d)
        \/ shutdown \/ deadline \/ stopServer \/ close

Spec == Init /\ [][Next]_vars /\ Fairness

-----------------------------------------------------------------------------
TypeOK == /\ phase \in {"serving", "stopping", "closing", "closed"} /\ overdue \in BOOLEAN
          /\ handler \in [Handlers -> {"none", "open", "cut", "done"}]
          /\ work \in [Deferred -> {"none", "pending", "aborting", "settled"}]

(* The API drains accepted tasks before it ends: within the grace period   *)
(* no request is cut off and no task is left, so what a response promised  *)
(* to do afterwards is done.                                               *)
NothingIsCutShort ==
  phase = "closed" => /\ inFlight = {}
                      /\ ~overdue => pending = {} /\ \A h \in Handlers : handler[h] # "cut"

(* A shutdown ends, although requests and tasks may hang for ever.         *)
ShutdownEnds == phase = "stopping" ~> phase = "closed"
=============================================================================
