--------------------------- MODULE MultiSocketProofs ---------------------------
(***************************************************************************)
(* The children of the multi-socket subscriber, for any number of sockets  *)
(* and directory changes.  What stop() leaves behind is proved for         *)
(* children without background tasks only: with them it is false, as the   *)
(* run multi_leak shows.                                                   *)
(***************************************************************************)
EXTENDS MultiSocket, TLAPS

\* A child is a socket and a number.
LEMMA ChildIsPair ==
  ASSUME NEW i \in Children
  PROVE  \E p \in Paths, g \in Gens : i = <<p, g>>
<1>1. i[1] \in Paths /\ i[2] \in Gens /\ i = <<i[1], i[2]>>
  BY DEF Children
<1>. QED  BY <1>1

\* Nothing has started.
LEMMA InitType == Init => TypeOK
  BY MultiAssumption DEF MultiAssumption, Init, TypeOK, Tracked, Children

\* A reconcile pass only starts children of sockets that are not tracked.
LEMMA ReconcileType ==
  ASSUME TypeOK, Reconcile, UNCHANGED tracked
  PROVE  /\ surplus' \subseteq Paths /\ stage' = "adding"
         /\ child' \in [Children -> {"none", "starting", "live", "draining", "closing"}]
         /\ \A p \in Tracked' : child'[<<p, tracked'[p]>>] = "live"
  BY MultiAssumption DEF MultiAssumption, TypeOK, Reconcile, Tracked, Children

\* Every step keeps the types, and a tracked child is live until it is untracked.
LEMMA TypeStep == TypeOK /\ [Next]_vars => TypeOK'
<1>. SUFFICES ASSUME TypeOK, [Next]_vars PROVE TypeOK'
  OBVIOUS
<1>. USE MultiAssumption DEF MultiAssumption, worldVars
<1>1. CASE Start \/ Rescan
  <2>1. Reconcile /\ UNCHANGED <<tracked, files, listening>>
    BY <1>1 DEF Start, Rescan
  <2>2. /\ surplus' \subseteq Paths /\ stage' = "adding"
        /\ child' \in [Children -> {"none", "starting", "live", "draining", "closing"}]
        /\ \A p \in Tracked' : child'[<<p, tracked'[p]>>] = "live"
    BY <2>1, ReconcileType
  <2>3. /\ owner' \in {"new", "starting", "running", "stopping", "stopped"}
        /\ loop' \in {"none", "sleeping", "reconciling"}
    BY <1>1 DEF Start, Rescan, TypeOK
  <2>. QED  BY <2>1, <2>2, <2>3 DEF TypeOK
<1>2. ASSUME NEW i \in Children, AddSucceeds(i) PROVE TypeOK'
  <2>1. PICK p \in Paths, g \in Gens : i = <<p, g>>
    BY ChildIsPair
  <2>2. tracked' = [tracked EXCEPT ![p] = g] /\ child' = [child EXCEPT ![i] = "live"]
        /\ child[i] = "starting"
    BY <1>2, <2>1 DEF AddSucceeds, Put
  <2>3. tracked' \in [Paths -> Gens \cup {None}]
        /\ child' \in [Children -> {"none", "starting", "live", "draining", "closing"}]
    BY <2>2 DEF TypeOK
  <2>4. \A q \in Tracked' : child'[<<q, tracked'[q]>>] = "live"
    BY <2>1, <2>2 DEF TypeOK, Tracked, Children
  <2>. QED  BY <1>2, <2>3, <2>4 DEF AddSucceeds, TypeOK
<1>3. ASSUME NEW i \in Children, AddFails(i) \/ ChildStops(i) PROVE TypeOK'
  <2>1. child[i] # "live" /\ UNCHANGED <<owner, loop, stage, surplus, tracked, files, listening>>
    BY <1>3 DEF AddFails, ChildStops, Leaving, In
  <2>2. \E v \in {"none", "closing"} : child' = [child EXCEPT ![i] = v]
    BY <1>3 DEF AddFails, ChildStops, Put
  <2>. QED  BY <2>1, <2>2 DEF TypeOK, Tracked, Children
<1>4. CASE RemoveBegins
  <2>1. PICK how \in [surplus -> Stopping] :
          child' = [i \in Children |-> IF i[1] \in surplus /\ tracked[i[1]] = i[2]
                                       THEN how[i[1]] ELSE child[i]]
    BY <1>4 DEF RemoveBegins
  <2>2. /\ UNCHANGED <<owner, loop, surplus, files, listening>> /\ stage' = "removing"
        /\ tracked' = [p \in Paths |-> IF p \in surplus THEN None ELSE tracked[p]]
    BY <1>4 DEF RemoveBegins
  <2>3. tracked' \in [Paths -> Gens \cup {None}]
        /\ child' \in [Children -> {"none", "starting", "live", "draining", "closing"}]
    BY <2>1, <2>2 DEF TypeOK, Stopping, Children
  <2>4. \A q \in Tracked' : child'[<<q, tracked'[q]>>] = "live"
    BY <2>1, <2>2 DEF TypeOK, Tracked, Children
  <2>. QED  BY <2>2, <2>3, <2>4 DEF TypeOK
<1>5. CASE ReconcileEnds
  BY <1>5 DEF ReconcileEnds, TypeOK, Tracked
<1>6. CASE Stop
  BY <1>6 DEF Stop, TypeOK, Tracked, Children
<1>7. CASE StopChildren
  <2>1. PICK how \in [Tracked -> Stopping] :
          child' = [i \in Children |-> IF tracked[i[1]] = i[2] THEN how[i[1]] ELSE child[i]]
    BY <1>7 DEF StopChildren
  <2>2. /\ UNCHANGED <<owner, loop, stage, surplus, files, listening>>
        /\ tracked' = [p \in Paths |-> None]
    BY <1>7 DEF StopChildren
  <2>3. child' \in [Children -> {"none", "starting", "live", "draining", "closing"}]
    BY <2>1 DEF TypeOK, Tracked, Stopping, Children
  <2>. QED  BY <2>2, <2>3 DEF TypeOK, Tracked
<1>8. CASE StopEnds \/ UNCHANGED vars
  BY <1>8 DEF StopEnds, vars, TypeOK, Tracked
<1>9. CASE \E p \in Paths : Appear(p) \/ Vanish(p)
  BY <1>9 DEF Appear, Vanish, TypeOK, Tracked
<1>. QED
  BY <1>1, <1>2, <1>3, <1>4, <1>5, <1>6, <1>7, <1>8, <1>9
  DEF Next, Pass, Stopped, ChildStep

\* Every reachable state is well typed, with or without background tasks: a
\* tracked child is one that has started and is not being stopped.
THEOREM MultiTypeCorrect == Spec => []TypeOK
  BY InitType, TypeStep, PTL DEF Spec

-----------------------------------------------------------------------------
(* One child per socket, and none after stop() *)

\* One pass at a time: start()'s own, or the rescan loop's.
OnePass ==
  /\ owner \in {"new", "stopping", "stopped"} => loop = "none" /\ stage = "idle"
  /\ owner = "starting" => loop = "none" /\ stage # "idle"
  /\ owner = "running" => (loop = "reconciling" <=> stage # "idle") /\ loop # "none"

\* Who a child is alive for: the pass that starts it, the map it is tracked in,
\* or the pass or the stop() that closes it.
Owned ==
  /\ \A i \in Children : child[i] = "starting" => stage = "adding" /\ i[1] \notin Tracked
  /\ \A i \in Children : child[i] = "live" => tracked[i[1]] = i[2]
  /\ \A i \in Children : child[i] = "closing" => stage = "removing" \/ owner = "stopping"
  /\ \A i \in Children : child[i] # "draining"
  /\ owner = "stopped" => Tracked = {}

IInv == ~Busy /\ TypeOK /\ OnePass /\ Owned /\ OneChildPerSocket

\* Nothing has started.
LEMMA InitInv == ~Busy /\ Init => IInv
  BY InitType DEF Init, IInv, OnePass, Owned, OneChildPerSocket, Tracked

\* Before a pass every child is live and tracked, so the pass starts the only
\* child of each socket.
LEMMA ReconcileStep ==
  ASSUME IInv, Reconcile, UNCHANGED tracked, stage = "idle", owner # "stopping", owner' # "stopped"
  PROVE  Owned' /\ OneChildPerSocket'
<1>. USE MultiAssumption DEF MultiAssumption, IInv
<1>1. \A i \in Children : child[i] \in {"none", "live"}
  BY DEF Owned, TypeOK
<1>2. \A i \in Children : child[i] # "none" => i[1] \in Tracked /\ tracked[i[1]] = i[2]
  BY <1>1 DEF Owned, Tracked, Children
<1>3. /\ stage' = "adding" /\ Tracked' = Tracked
      /\ \A i \in Children :
           child'[i] = IF i[1] \in files \ Tracked /\ i[2] = Fresh(i[1])
                       THEN "starting" ELSE child[i]
  BY DEF Reconcile, Tracked
<1>4. Owned'
  BY <1>1, <1>2, <1>3 DEF Owned
<1>5. ASSUME NEW i \in Children, NEW j \in Children, i[1] = j[1],
             child'[i] # "none", child'[j] # "none"
      PROVE  i = j
  <2>1. CASE i[1] \in Tracked
    BY <1>3, <1>5, <2>1 DEF OneChildPerSocket
  <2>2. CASE i[1] \notin Tracked
    <3>1. i[2] = Fresh(i[1]) /\ j[2] = Fresh(j[1])
      BY <1>2, <1>3, <1>5, <2>2
    <3>. QED  BY <1>5, <3>1 DEF Children
  <2>. QED  BY <2>1, <2>2
<1>. QED  BY <1>4, <1>5 DEF OneChildPerSocket

\* Children that only move on or end stay one per socket.
LEMMA FewerChildren ==
  ASSUME OneChildPerSocket, \A i \in Children : child'[i] # "none" => child[i] # "none"
  PROVE  OneChildPerSocket'
  BY DEF OneChildPerSocket

\* A child starts, fails or ends.
LEMMA ChildStepInv == ASSUME IInv, NEW i \in Children, ChildStep(i) PROVE IInv'
<1>. USE MultiAssumption DEF MultiAssumption, IInv
<1>0. TypeOK'
  BY TypeStep DEF Next
<1>1. UNCHANGED <<owner, loop, stage, surplus>> /\ OnePass'
  BY DEF ChildStep, AddSucceeds, AddFails, ChildStops, OnePass
<1>2. CASE AddSucceeds(i)
  <2>1. PICK p \in Paths, g \in Gens : i = <<p, g>>
    BY ChildIsPair
  <2>2. /\ tracked' = [tracked EXCEPT ![p] = g] /\ child' = [child EXCEPT ![i] = "live"]
        /\ child[i] = "starting"
    BY <1>2, <2>1 DEF AddSucceeds, Put
  <2>3. OneChildPerSocket'
    BY <2>2, FewerChildren DEF TypeOK
  <2>4. \A j \in Children : child[j] # "none" /\ j # i => j[1] # p
    BY <2>1, <2>2 DEF OneChildPerSocket
  <2>5. \A q \in Paths : q # p => tracked'[q] = tracked[q]
    BY <2>2 DEF TypeOK
  <2>6. \A j \in Children : j[1] \in Paths /\ (j # i => child'[j] = child[j])
    BY <2>2 DEF TypeOK, Children
  <2>7. stage = "adding" /\ owner # "stopped"
    BY <2>2 DEF Owned, OnePass
  <2>8. Owned'
    BY <1>1, <2>1, <2>2, <2>4, <2>5, <2>6, <2>7 DEF Owned, TypeOK, Tracked
  <2>. QED  BY <1>0, <1>1, <2>3, <2>8
<1>3. CASE AddFails(i) \/ ChildStops(i)
  <2>1. UNCHANGED tracked /\ child' = [child EXCEPT ![i] = "none"]
    BY <1>3 DEF AddFails, ChildStops, Leaving, In, Owned, Put
  <2>2. \A j \in Children : child'[j] = child[j] \/ child'[j] = "none"
    BY <2>1 DEF TypeOK
  <2>3. OneChildPerSocket'
    BY <2>2, FewerChildren
  <2>4. Owned'
    BY <1>1, <2>1, <2>2 DEF Owned, Tracked
  <2>. QED  BY <1>0, <1>1, <2>3, <2>4
<1>. QED  BY <1>2, <1>3 DEF ChildStep

\* A pass of start() or of the rescan loop begins, turns or ends.
LEMMA PassStep == ASSUME IInv, Start \/ Pass PROVE IInv'
<1>. USE MultiAssumption DEF MultiAssumption, IInv
<1>0. TypeOK'
  BY TypeStep DEF Next
<1>1. CASE Start \/ Rescan
  <2>1. /\ Reconcile /\ UNCHANGED tracked /\ stage = "idle" /\ stage' = "adding"
        /\ owner # "stopping" /\ owner' # "stopped" /\ OnePass'
    BY <1>1 DEF Start, Rescan, Reconcile, OnePass, TypeOK
  <2>. QED  BY <1>0, <2>1, ReconcileStep
<1>2. CASE RemoveBegins
  <2>1. PICK how \in [surplus -> Stopping] :
          child' = [i \in Children |-> IF i[1] \in surplus /\ tracked[i[1]] = i[2]
                                       THEN how[i[1]] ELSE child[i]]
    BY <1>2 DEF RemoveBegins
  <2>2. /\ UNCHANGED <<owner, loop, surplus>> /\ stage = "adding" /\ stage' = "removing"
        /\ tracked' = [p \in Paths |-> IF p \in surplus THEN None ELSE tracked[p]]
        /\ \A i \in Children : child[i] # "starting"
    BY <1>2 DEF RemoveBegins, In
  <2>3. OnePass' /\ owner # "stopped"
    BY <2>2 DEF OnePass, TypeOK
  <2>4. ASSUME NEW i \in Children
        PROVE  \/ /\ i[1] \in surplus /\ tracked[i[1]] = i[2]
                  /\ child[i] = "live" /\ child'[i] = "closing"
               \/ child'[i] = child[i] /\ ~(i[1] \in surplus /\ tracked[i[1]] = i[2])
    BY <2>1 DEF Stopping, TypeOK, Tracked, Children
  <2>5. OneChildPerSocket'
    BY <2>4, FewerChildren
  <2>6. Owned'
    BY <2>2, <2>3, <2>4 DEF Owned, Children, TypeOK
  <2>. QED  BY <1>0, <2>3, <2>5, <2>6
<1>3. CASE ReconcileEnds
  <2>1. /\ UNCHANGED <<tracked, child>> /\ stage = "removing" /\ stage' = "idle"
        /\ owner' = (IF owner = "starting" THEN "running" ELSE owner) /\ loop' = "sleeping"
        /\ \A i \in Children : child[i] # "closing"
    BY <1>3 DEF ReconcileEnds, Leaving, In
  <2>2. OnePass' /\ owner' # "stopped"
    BY <2>1 DEF OnePass, TypeOK
  <2>. QED  BY <1>0, <2>1, <2>2 DEF Owned, OneChildPerSocket, Tracked
<1>. QED  BY <1>1, <1>2, <1>3 DEF Pass

\* stop() rolls a pass back and closes what is tracked.
LEMMA StopStep == ASSUME IInv, Stop \/ Stopped PROVE IInv'
<1>. USE MultiAssumption DEF MultiAssumption, IInv
<1>0. TypeOK'
  BY TypeStep DEF Next
<1>1. CASE Stop
  <2>1. /\ UNCHANGED tracked /\ owner' = "stopping" /\ loop' = "none" /\ stage' = "idle"
        /\ \A i \in Children : child'[i] = IF child[i] = "starting" THEN "none" ELSE child[i]
    BY <1>1 DEF Stop, Owned
  <2>2. OneChildPerSocket'
    BY <2>1, FewerChildren
  <2>. QED  BY <1>0, <2>1, <2>2 DEF OnePass, Owned, Tracked
<1>2. CASE StopChildren
  <2>1. PICK how \in [Tracked -> Stopping] :
          child' = [i \in Children |-> IF tracked[i[1]] = i[2] THEN how[i[1]] ELSE child[i]]
    BY <1>2 DEF StopChildren
  <2>2. /\ UNCHANGED <<owner, loop, stage>> /\ owner = "stopping"
        /\ tracked' = [p \in Paths |-> None]
    BY <1>2 DEF StopChildren
  <2>3. ASSUME NEW i \in Children
        PROVE  \/ child[i] = "live" /\ child'[i] = "closing"
               \/ child'[i] = child[i] /\ child[i] # "live"
    BY <2>1 DEF Stopping, Owned, TypeOK, Tracked, Children
  <2>4. OneChildPerSocket'
    BY <2>3, FewerChildren
  <2>5. Owned'
    BY <2>2, <2>3 DEF Owned, OnePass, Tracked
  <2>6. OnePass'
    BY <2>2 DEF OnePass
  <2>. QED  BY <1>0, <2>4, <2>5, <2>6
<1>3. CASE StopEnds
  <2>1. /\ UNCHANGED <<loop, stage, tracked, child>> /\ owner = "stopping" /\ owner' = "stopped"
        /\ Tracked = {} /\ \A i \in Children : child[i] # "closing"
    BY <1>3 DEF StopEnds, Leaving, In
  <2>. QED  BY <1>0, <2>1 DEF OnePass, Owned, OneChildPerSocket, Tracked
<1>. QED  BY <1>1, <1>2, <1>3 DEF Stopped

\* Every step keeps the invariant.
LEMMA StepInv == IInv /\ [Next]_vars => IInv'
<1>1. IInv /\ UNCHANGED vars => IInv'
  BY DEF vars, IInv, TypeOK, OnePass, Owned, OneChildPerSocket, Tracked
<1>2. ASSUME IInv, NEW p \in Paths, Appear(p) \/ Vanish(p) PROVE IInv'
  <2>1. UNCHANGED <<owner, loop, stage, surplus, tracked, child>>
    BY <1>2 DEF Appear, Vanish
  <2>2. TypeOK'
    BY <1>2, TypeStep DEF IInv, Next
  <2>. QED  BY <1>2, <2>1, <2>2 DEF IInv, OnePass, Owned, OneChildPerSocket, Tracked
<1>. QED
  BY <1>1, <1>2, ChildStepInv, PassStep, StopStep DEF Next

\* The invariant holds in every reachable state.
LEMMA Invariance == ~Busy /\ Spec => []IInv
<1>1. ~Busy /\ Init => IInv
  BY InitInv
<1>. QED  BY <1>1, StepInv, PTL DEF Spec

\* However a socket vanishes and comes back, and wherever stop() cuts into a pass,
\* no two children are connected to it.
THEOREM OneChildHolds == ~Busy /\ Spec => []OneChildPerSocket
<1>1. IInv => OneChildPerSocket
  BY DEF IInv
<1>. QED  BY <1>1, Invariance, PTL

\* stop() leaves no child connected, not one that a cancelled pass had begun to
\* start or to stop.
THEOREM StopLeavesNoChild == ~Busy /\ Spec => []StopLeavesNothing
<1>1. ASSUME IInv, owner = "stopped", NEW i \in Children
      PROVE  child[i] = "none"
  <2>1. tracked[i[1]] = None /\ i[2] # None
    BY <1>1, MultiAssumption DEF MultiAssumption, IInv, Owned, Tracked, Children
  <2>. QED  BY <1>1, <2>1 DEF IInv, TypeOK, OnePass, Owned
<1>2. IInv => StopLeavesNothing
  BY <1>1 DEF StopLeavesNothing
<1>. QED  BY <1>2, Invariance, PTL

=============================================================================
