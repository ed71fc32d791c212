---------------------------- MODULE GatewayLife ----------------------------
(***************************************************************************)
(* A gateway process from its claim to its exit (gateway.ts), and the web  *)
(* inspector it runs as a child (gateway/web-sidecar.ts).                  *)
(*                                                                         *)
(* The child is started first and again whenever it ends, after a delay.   *)
(* The process answers signals only once its backlogs are drained; before  *)
(* that a signal ends it at once, as an error of its start does.  At       *)
(* shutdown the child is asked to end and killed after two seconds.        *)
(***************************************************************************)
EXTENDS Naturals

CONSTANTS
    MaxRuns,    \* bound on gateway processes, one after the other
    MaxChildren \* bound on children

VARIABLES
    gateway,    \* where the process is in its life
    run,        \* which process it is
    child,      \* the manager's child, 0 when it has none
    timer,      \* a restart is scheduled
    stopping,   \* the manager was told to stop
    victim,     \* the child the manager waits for at shutdown
    status,     \* what the manager reports
    kids,       \* the state of every child
    parent,     \* the process that started it
    heard,      \* children whose end the manager was told of
    abrupt      \* processes that ended without their shutdown

vars == <<gateway, run, child, timer, stopping, victim, status, kids, parent,
          heard, abrupt>>

Children == 1..MaxChildren

Unborn == {k \in Children : kids[k] = "unborn"}

Alive == {k \in Children : kids[k] = "alive"}

Init == /\ gateway = "off" /\ run = 0
        /\ child = 0 /\ timer = FALSE /\ stopping = FALSE /\ victim = 0
        /\ status = "stopped"
        /\ kids = [k \in Children |-> "unborn"] /\ parent = [k \in Children |-> 0]
        /\ heard = {} /\ abrupt = {}

(***************************************************************************)
(* The manager of the child                                                *)
(***************************************************************************)

\* A failure is counted and a restart scheduled, in place of any other.
Failed == status' = "failed" /\ timer' = TRUE

\* Starting a child: an error is a failure at once, or told later as the
\* child's end.
SpawnChild(process) ==
    \/ /\ Failed /\ child' = 0 /\ UNCHANGED <<kids, parent>>
    \/ \E k \in Unborn :
          /\ \A j \in Unborn : k <= j
          /\ child' = k /\ timer' = FALSE /\ status' = "starting"
          /\ parent' = [parent EXCEPT ![k] = process]
          /\ \E state \in {"alive", "dead"} : kids' = [kids EXCEPT ![k] = state]

Spawned ==
    /\ gateway # "off" /\ child \in Alive /\ status = "starting" /\ ~stopping
    /\ status' = "running"
    /\ UNCHANGED <<gateway, run, child, timer, stopping, victim, kids, parent,
                   heard, abrupt>>

\* mutant: an error and an exit of the same child are both taken as its end
ToldAnyTime(k) == kids[k] = "dead" /\ parent[k] = run

\* Its error or its exit, whichever comes first.
Told(k) == kids[k] = "dead" /\ parent[k] = run /\ k \notin heard

Ended(k) ==
    /\ gateway # "off" /\ Told(k)
    /\ heard' = heard \cup {k}
    /\ child' = IF child = k THEN 0 ELSE child
    /\ IF stopping THEN UNCHANGED <<status, timer>> ELSE Failed
    /\ UNCHANGED <<gateway, run, stopping, victim, kids, parent, abrupt>>

Restart ==
    /\ gateway # "off" /\ timer
    /\ SpawnChild(run)
    /\ UNCHANGED <<gateway, run, stopping, victim, heard, abrupt>>

\* A child ends by itself: a port in use, an error, a broken pipe.
Dies(k) ==
    /\ k \in Alive
    /\ kids' = [kids EXCEPT ![k] = "dead"]
    /\ UNCHANGED <<gateway, run, child, timer, stopping, victim, status, parent,
                   heard, abrupt>>

(***************************************************************************)
(* The process                                                             *)
(***************************************************************************)

Start ==
    /\ gateway = "off" /\ run < MaxRuns
    /\ gateway' = "starting" /\ run' = run + 1
    /\ SpawnChild(run + 1)
    /\ stopping' = FALSE /\ victim' = 0
    /\ UNCHANGED <<heard, abrupt>>

\* Agents are loaded, then surfaces started and both backlogs drained.
Ready ==
    /\ gateway \in {"starting", "draining"}
    /\ gateway' = IF gateway = "starting" THEN "draining" ELSE "running"
    /\ UNCHANGED <<run, child, timer, stopping, victim, status, kids, parent,
                   heard, abrupt>>

Signal ==
    /\ gateway = "running"
    /\ gateway' = "stopping"
    /\ UNCHANGED <<run, child, timer, stopping, victim, status, kids, parent,
                   heard, abrupt>>

\* A signal or an error before the handlers are installed, an error in the
\* shutdown, or a kill: the process is gone and its child is on its own.
Gone ==
    /\ gateway # "off"
    /\ gateway' = "off" /\ abrupt' = abrupt \cup {run}
    /\ child' = 0 /\ timer' = FALSE /\ victim' = 0
    /\ UNCHANGED <<run, stopping, status, kids, parent, heard>>

\* mutant: the child is forgotten without being ended
StopForgets ==
    /\ gateway = "stopping"
    /\ stopping' = TRUE /\ timer' = FALSE /\ child' = 0 /\ victim' = 0
    /\ gateway' = "terminating"
    /\ UNCHANGED <<run, status, kids, parent, heard, abrupt>>

\* Surfaces, outbox and deliveries have stopped; now the child.
StopChild ==
    /\ gateway = "stopping"
    /\ stopping' = TRUE /\ timer' = FALSE /\ child' = 0 /\ victim' = child
    /\ gateway' = "terminating"
    /\ UNCHANGED <<run, status, kids, parent, heard, abrupt>>

\* It ended, or the two seconds are over and it is killed.
Terminated ==
    /\ gateway = "terminating"
    /\ kids' = [k \in Children |-> IF k = victim THEN "dead" ELSE kids[k]]
    /\ gateway' = "exiting" /\ status' = "stopped" /\ victim' = 0
    /\ UNCHANGED <<run, child, timer, stopping, parent, heard, abrupt>>

Exit ==
    /\ gateway = "exiting"
    /\ gateway' = "off"
    /\ UNCHANGED <<run, child, timer, stopping, victim, status, kids, parent,
                   heard, abrupt>>

Next ==
    \/ Start \/ Ready \/ Signal \/ Gone \/ StopChild \/ Terminated \/ Exit
    \/ Spawned \/ Restart
    \/ \E k \in Children : Ended(k) \/ Dies(k)

Spec == Init /\ [][Next]_vars

(***************************************************************************)
(* Properties                                                              *)
(***************************************************************************)

\* A gateway has at most one living inspector at a time, in whatever order
\* failures are told and restarts fire.
OneInspector == \A j, k \in Alive : parent[j] = run /\ parent[k] = run => j = k

\* An inspector outlives its gateway only when that ended without its
\* shutdown.
OrphansExcused ==
    \A k \in Alive : parent[k] \in abrupt \/ (parent[k] = run /\ gateway # "off")
=============================================================================
