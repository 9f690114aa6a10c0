----------------------------- MODULE MultiSocket -----------------------------
(***************************************************************************)
(* MultiSocketSubscriber (client/subscriber.py): one EventSubscriber per   *)
(* hub socket under a glob, kept in line with the directory by a rescan    *)
(* loop.                                                                   *)
(*                                                                         *)
(* A reconcile pass starts the missing children in parallel, waits for all *)
(* of them, then stops the surplus ones in parallel and waits again.       *)
(* stop() may cancel it in either wait.  A child is followed from the      *)
(* start of its connection to the end of its stop(), which first settles   *)
(* the child's background tasks (draining), then closes its client         *)
(* (closing).  A live child redials by itself and never dies on its own.   *)
(***************************************************************************)
EXTENDS Integers, FiniteSets

CONSTANTS
  Paths,      \* hub sockets the glob can match
  Gens,       \* numbers that tell the children of one path apart
  None,
  Busy,       \* may a child have background tasks to settle when it is stopped?
  MaxChanges  \* bound: changes of the directory, and starts

ASSUME MultiAssumption ==
  /\ Gens \subseteq Nat /\ Gens # {} /\ None \notin Gens
  /\ Busy \in BOOLEAN /\ MaxChanges \in Nat

Children == Paths \X Gens

VARIABLES
  owner,     \* start() and stop(): new, starting, running, stopping, stopped
  loop,      \* _rescan_task: none, sleeping, reconciling
  stage,     \* the reconcile pass: idle, adding, removing
  surplus,   \* its to_remove, computed when the pass began
  tracked,   \* _subscribers
  child,     \* each child: none, starting, live, draining, closing
  files,     \* what the glob matches
  listening, \* the sockets a hub answers on
  changes

worldVars == <<files, listening, changes>>
vars == <<owner, loop, stage, surplus, tracked, child, files, listening, changes>>

-----------------------------------------------------------------------------
(* Helpers *)

Put(f, k, v) == [f EXCEPT ![k] = v]

In(state) == {i \in Children : child[i] = state}
Leaving == In("draining") \cup In("closing")

Tracked == {p \in Paths : tracked[p] # None}

\* A number no child of the path uses any more.
Fresh(p) == CHOOSE g \in Gens : child[<<p, g>>] = "none"

\* How a child's stop() may begin.
Stopping == IF Busy THEN {"draining", "closing"} ELSE {"closing"}

\* The slice of _reconcile up to its first await.
Reconcile ==
  LET toAdd == files \ Tracked
  IN  /\ surplus' = Tracked \ files
      /\ child' = [i \in Children |->
                     IF i[1] \in toAdd /\ i[2] = Fresh(i[1]) THEN "starting" ELSE child[i]]
      /\ stage' = "adding"

-----------------------------------------------------------------------------
Init ==
  /\ owner = "new" /\ loop = "none" /\ stage = "idle" /\ surplus = {}
  /\ tracked = [p \in Paths |-> None]
  /\ child = [i \in Children |-> "none"]
  /\ files \in SUBSET Paths /\ listening \in SUBSET files
  /\ changes = 0

(* start() *)

\* A second start() while the rescan loop lives does nothing.
Start ==
  /\ owner \in {"new", "stopped"}
  /\ changes < MaxChanges /\ changes' = changes + 1
  /\ owner' = "starting"
  /\ Reconcile
  /\ UNCHANGED <<loop, tracked, files, listening>>

(* _rescan_loop, _reconcile, _add_socket, _remove_socket *)

Rescan ==
  /\ loop = "sleeping"
  /\ loop' = "reconciling"
  /\ Reconcile
  /\ UNCHANGED <<owner, tracked, worldVars>>

AddSucceedsUntracked(i) ==  \* mutant
  /\ child[i] = "starting" /\ i[1] \in listening
  /\ child' = Put(child, i, "live")
  /\ UNCHANGED <<owner, loop, stage, surplus, tracked, worldVars>>

AddSucceeds(i) ==
  /\ child[i] = "starting" /\ i[1] \in listening
  /\ child' = Put(child, i, "live")
  /\ tracked' = Put(tracked, i[1], i[2])
  /\ UNCHANGED <<owner, loop, stage, surplus, worldVars>>

AddFailsTracked(i) ==  \* mutant
  /\ child[i] = "starting" /\ i[1] \notin listening
  /\ child' = Put(child, i, "none")
  /\ tracked' = Put(tracked, i[1], i[2])
  /\ UNCHANGED <<owner, loop, stage, surplus, worldVars>>

AddFailsForGood(i) ==  \* mutant: the exception ends the rescan loop
  /\ child[i] = "starting" /\ i[1] \notin listening
  /\ child' = Put(child, i, "none")
  /\ loop' = "none" /\ stage' = "idle"
  /\ UNCHANGED <<owner, surplus, tracked, worldVars>>

\* Logged and skipped; the half-started child is stopped on the spot.
AddFails(i) ==
  /\ child[i] = "starting" /\ i[1] \notin listening
  /\ child' = Put(child, i, "none")
  /\ UNCHANGED <<owner, loop, stage, surplus, tracked, worldVars>>

\* Every child has started or failed: forget the surplus ones and stop them.
RemoveBegins ==
  /\ stage = "adding" /\ In("starting") = {}
  /\ stage' = "removing"
  /\ tracked' = [p \in Paths |-> IF p \in surplus THEN None ELSE tracked[p]]
  /\ \E how \in [surplus -> Stopping] :
       child' = [i \in Children |-> IF i[1] \in surplus /\ tracked[i[1]] = i[2]
                                    THEN how[i[1]] ELSE child[i]]
  /\ UNCHANGED <<owner, loop, surplus, worldVars>>

\* The child's own stop() goes on, for a reconcile pass or for stop() below.
ChildStops(i) ==
  /\ i \in Leaving
  /\ child' = Put(child, i, IF child[i] = "draining" THEN "closing" ELSE "none")
  /\ UNCHANGED <<owner, loop, stage, surplus, tracked, worldVars>>

\* The pass is over; start() returns, or the loop sleeps again.
ReconcileEnds ==
  /\ stage = "removing" /\ Leaving = {}
  /\ stage' = "idle" /\ surplus' = {}
  /\ owner' = IF owner = "starting" THEN "running" ELSE owner
  /\ loop' = "sleeping"
  /\ UNCHANGED <<tracked, child, worldVars>>

(* stop(), after start() has returned *)

StopKeepingHalfStarted ==  \* mutant: cancellation does not roll a connect back
  /\ owner = "running"
  /\ owner' = "stopping"
  /\ loop' = "none" /\ stage' = "idle" /\ surplus' = {}
  /\ child' = [i \in Children |-> IF child[i] = "starting" THEN "live" ELSE child[i]]
  /\ UNCHANGED <<tracked, worldVars>>

\* Cancelling the loop cancels the children's start() and stop() it was waiting
\* for: a connect is rolled back; a child that was settling its tasks never gets
\* to close its client; one that was closing it suppresses the cancellation.
Stop ==
  /\ owner = "running"
  /\ owner' = "stopping"
  /\ loop' = "none" /\ stage' = "idle" /\ surplus' = {}
  /\ child' = [i \in Children |-> CASE child[i] = "starting" -> "none"
                                    [] child[i] = "draining" -> "live"
                                    [] OTHER -> child[i]]
  /\ UNCHANGED <<tracked, worldVars>>

StopChildren ==
  /\ owner = "stopping" /\ Leaving = {} /\ Tracked # {}
  /\ tracked' = [p \in Paths |-> None]
  /\ \E how \in [Tracked -> Stopping] :
       child' = [i \in Children |-> IF tracked[i[1]] = i[2] THEN how[i[1]] ELSE child[i]]
  /\ UNCHANGED <<owner, loop, stage, surplus, worldVars>>

StopEnds ==
  /\ owner = "stopping" /\ Leaving = {} /\ Tracked = {}
  /\ owner' = "stopped"
  /\ UNCHANGED <<loop, stage, surplus, tracked, child, worldVars>>

(* The supervisors *)

Appear(p) ==
  /\ p \notin listening
  /\ changes < MaxChanges /\ changes' = changes + 1
  /\ files' = files \cup {p}
  /\ listening' \in {listening, listening \cup {p}}
  /\ UNCHANGED <<owner, loop, stage, surplus, tracked, child>>

Vanish(p) ==
  /\ p \in files
  /\ changes < MaxChanges /\ changes' = changes + 1
  /\ files' \in {files, files \ {p}}
  /\ listening' = listening \ {p}
  /\ UNCHANGED <<owner, loop, stage, surplus, tracked, child>>

-----------------------------------------------------------------------------
ChildStep(i) == AddSucceeds(i) \/ AddFails(i) \/ ChildStops(i)

Pass == Rescan \/ RemoveBegins \/ ReconcileEnds

Stopped == StopChildren \/ StopEnds

Next ==
  \/ Start \/ Pass \/ Stop \/ Stopped
  \/ \E i \in Children : ChildStep(i)
  \/ \E p \in Paths : Appear(p) \/ Vanish(p)

Spec == Init /\ [][Next]_vars

\* The event loop goes on, the rescan timer fires, a connect is answered.
FairSpec ==
  Spec /\ WF_vars(Pass) /\ WF_vars(Stopped) /\ \A i \in Children : WF_vars(ChildStep(i))

-----------------------------------------------------------------------------
(* Properties *)

\* Every variable keeps its type, and a tracked child is one that started.
TypeOK ==
  /\ owner \in {"new", "starting", "running", "stopping", "stopped"}
  /\ loop \in {"none", "sleeping", "reconciling"}
  /\ stage \in {"idle", "adding", "removing"}
  /\ surplus \subseteq Paths
  /\ tracked \in [Paths -> Gens \cup {None}]
  /\ child \in [Children -> {"none", "starting", "live", "draining", "closing"}]
  /\ listening \subseteq files /\ files \subseteq Paths
  /\ \A p \in Tracked : child[<<p, tracked[p]>>] = "live"

\* Every event is rendered once: no two children are connected to the same
\* socket, however it vanishes and comes back while one starts or stops, and where
\* the owner's stop() cancels a pass; of children without background tasks (~Busy).
OneChildPerSocket ==
  \A i, j \in Children : i[1] = j[1] /\ child[i] # "none" /\ child[j] # "none" => i = j

\* stop() "cancels the rescan loop and stops every child subscriber": when it
\* returns no child is left connected.
StopLeavesNothing == owner = "stopped" => \A i \in Children : child[i] = "none"

\* The subscriber follows the directory: a hub that stays is joined, even if it
\* refused at first, and a socket that is gone for good is let go.
Converges ==
  \A p \in Paths :
    /\ <>[](owner = "running" /\ p \in listening) => <>[](p \in Tracked)
    /\ <>[](owner = "running" /\ p \notin files) => <>[](p \notin Tracked)

=============================================================================
