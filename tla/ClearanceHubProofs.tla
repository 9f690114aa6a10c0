------------------------- MODULE ClearanceHubProofs -------------------------
(***************************************************************************)
(* Theorems about ClearanceHub, for every set of keys, requests, targets,  *)
(* callers and subscribers, every queue depth, TTL and bound.              *)
(***************************************************************************)
EXTENDS ClearanceHub, TLAPS

-----------------------------------------------------------------------------
(* Lemmas about the helpers *)

\* Every key is stamped to a key.
LEMMA StampedIsKey == ASSUME NEW key \in Keys PROVE Stamped(key) \in Keys
  BY HubAssumption DEF HubAssumption, Stamped

\* Dropping bindings leaves a map of the same type.
LEMMA WithoutType ==
  ASSUME NEW S, NEW f \in [Requests -> S \cup {None}], NEW R
  PROVE  Without(f, R) \in [Requests -> S \cup {None}]
  BY DEF Without

\* Pushing an event on a queue of events gives a queue of events.
LEMMA PushType ==
  ASSUME NEW q \in Seq(Event), NEW e \in Event
  PROVE  Push(q, e) \in Seq(Event)
  <1>1. CASE Len(q) = QueueDepth
    <2>1. q # <<>>
      BY <1>1, HubAssumption DEF HubAssumption
    <2>2. Tail(q) \in Seq(Event)
      BY <2>1
    <2> QED
      BY <1>1, <2>2 DEF Push
  <1>2. CASE Len(q) # QueueDepth
    BY <1>2 DEF Push
  <1> QED
    BY <1>1, <1>2

\* Fanning an event out keeps the queues well typed and moves the count on.
LEMMA FanOutType ==
  ASSUME TypeOK,
         NEW type \in LifecycleTypes \cup {"connection_blocked", "verdict_applied"},
         NEW container \in Keys, NEW id \in Requests \cup {EmptyId},
         NEW ok \in BOOLEAN \cup {None},
         FanOut(type, container, id, ok)
  PROVE  /\ count' = count + 1 /\ count' \in Nat
         /\ queue' \in [Subscribers -> Seq(Event)]
  <1> DEFINE e == [n |-> count + 1, type |-> type, container |-> container,
                   id |-> id, ok |-> ok]
  <1>1. count' = count + 1 /\ count' \in Nat
    BY DEF FanOut, TypeOK
  <1>2. e \in Event
    BY DEF Event, TypeOK
  <1>3. \A s \in Subscribers : queue[s] \in Seq(Event) /\ Push(queue[s], e) \in Seq(Event)
    BY <1>2, PushType DEF TypeOK
  <1>4. queue' = [s \in Subscribers |->
                    IF s \in Attached THEN Push(queue[s], e) ELSE queue[s]]
    BY DEF FanOut
  <1> QED
    BY <1>1, <1>3, <1>4

\* Recording when a binding was put in the map leaves it a binding of the same
\* triple and event.
LEMMA PutType ==
  ASSUME NEW b \in Binding, NEW e \in Nat, NEW t \in Nat
  PROVE  LET p == [b EXCEPT !.put = [event |-> e, at |-> t]]
         IN  /\ p \in Binding /\ p.n = b.n
             /\ p.put.event = e /\ p.put.at = t
             /\ p.container = b.container /\ p.target = b.target
  BY DEF Binding

\* What a failed verdict puts back: the binding it took and its timestamp.
LEMMA FailedPutsBack ==
  ASSUME TypeOK, NEW c \in Callers, VerdictFailed(c)
  PROVE  /\ call[c] \in Suspended /\ call[c].id \in Requests
         /\ ts' = [ts EXCEPT ![call[c].id] = call[c].ts] /\ call[c].ts \in Nat
         /\ \E p \in Binding :
              /\ live' = [live EXCEPT ![call[c].id] = p]
              /\ p.n = call[c].held.n /\ p.put.event = count + 1 /\ p.put.at = now
              /\ p.container = call[c].held.container /\ p.target = call[c].held.target
  <1>1. call[c] \in Suspended
    BY DEF VerdictFailed, Announce, TypeOK
  <1>2. call[c].id \in Requests /\ call[c].held \in Binding /\ call[c].ts \in Nat
    BY <1>1 DEF Suspended
  <1>3. PICK b \in Binding : b = call[c].held
    BY <1>2
  <1> DEFINE p == [b EXCEPT !.put = [event |-> count + 1, at |-> now]]
  <1>4. count + 1 \in Nat /\ now \in Nat
    BY DEF TypeOK
  <1>5. /\ p \in Binding /\ p.n = b.n /\ p.put.event = count + 1 /\ p.put.at = now
        /\ p.container = b.container /\ p.target = b.target
    BY <1>4, PutType
  <1>6. live' = [live EXCEPT ![call[c].id] = p]
    BY <1>3 DEF VerdictFailed, Announce, PutBack
  <1>7. ts' = [ts EXCEPT ![call[c].id] = call[c].ts]
    BY DEF VerdictFailed, Announce, PutBack
  <1> HIDE DEF p
  <1> QED
    BY <1>1, <1>2, <1>3, <1>5, <1>6, <1>7

-----------------------------------------------------------------------------
(* Type correctness *)

\* A step from a well-typed state leads to one.  The timestamp a verdict takes
\* with it is a number because the two dictionaries are in lockstep.
LEMMA TypeStep == TypeOK /\ Lockstep /\ [Next]_vars => TypeOK'
  <1> SUFFICES ASSUME TypeOK, Lockstep, [Next]_vars PROVE TypeOK'
    OBVIOUS
  <1> USE HubAssumption DEF HubAssumption
  <1>1. CASE StartIngester
    <2>1. SeededMutes \subseteq Keys
      BY DEF SeededMutes, MuteKey
    <2> QED
      BY <1>1, <2>1 DEF StartIngester, TypeOK, Phases
  <1>2. CASE BindSucceeds
    BY <1>2 DEF BindSucceeds, TypeOK, Phases
  <1>3. CASE BindFails
    BY <1>3 DEF BindFails, TypeOK, Phases
  <1>4. CASE StopServer
    BY <1>4 DEF StopServer, TypeOK, Phases
  <1>5. CASE StopIngester
    BY <1>5 DEF StopIngester, TypeOK, Phases
  <1>6. CASE StopClears
    <2>1. live' \in [Requests -> Binding \cup {None}] /\ ts' \in [Requests -> Nat \cup {None}]
      BY <1>6, WithoutType DEF StopClears, TypeOK
    <2> QED
      BY <1>6, <2>1 DEF StopClears, TypeOK, Phases
  <1>7. CASE Exit
    BY <1>7 DEF Exit, TypeOK, Phases
  <1>8. ASSUME NEW key \in Keys, NEW id \in Requests \cup {EmptyId}, NEW target \in Targets,
               RelayBlocked(key, id, target)
        PROVE  TypeOK'
    <2>1. Stamped(key) \in Keys
      BY StampedIsKey
    <2>2. count' \in Nat /\ queue' \in [Subscribers -> Seq(Event)]
      BY <1>8, <2>1, FanOutType DEF RelayBlocked
    <2>3. live' \in [Requests -> Binding \cup {None}]
      <3> DEFINE new == [container |-> Stamped(key), target |-> target, n |-> count + 1,
                         put |-> [event |-> count + 1, at |-> now]]
      <3>1. new \in Binding
        BY <2>1 DEF TypeOK, Binding
      <3>2. live' = live \/ live' = [live EXCEPT ![id] = new]
        BY <1>8 DEF RelayBlocked
      <3> HIDE DEF new
      <3>3. live \in [Requests -> Binding \cup {None}]
        BY DEF TypeOK
      <3>4. [live EXCEPT ![id] = new] \in [Requests -> Binding \cup {None}]
        BY <3>1, <3>3
      <3> QED
        BY <3>2, <3>3, <3>4
    <2>4. ts' \in [Requests -> Nat \cup {None}]
      <3>1. ts' = ts \/ ts' = [ts EXCEPT ![id] = now]
        BY <1>8 DEF RelayBlocked
      <3>2. now \in Nat /\ ts \in [Requests -> Nat \cup {None}]
        BY DEF TypeOK
      <3> QED
        BY <3>1, <3>2
    <2>5. offered' \subseteq Prompt
      BY <1>8, <2>1 DEF RelayBlocked, TypeOK, Prompt
    <2> QED
      BY <1>8, <2>2, <2>3, <2>4, <2>5 DEF RelayBlocked, TypeOK, callVars, timeVars
  <1>9. ASSUME NEW key \in Keys, NEW type \in LifecycleTypes, RelayLifecycle(type, key)
        PROVE  TypeOK'
    <2>1. Stamped(key) \in Keys
      BY StampedIsKey
    <2>2. count' = count + 1 /\ count' \in Nat /\ queue' \in [Subscribers -> Seq(Event)]
      BY <1>9, <2>1, FanOutType DEF RelayLifecycle
    <2>3. live' \in [Requests -> Binding \cup {None}] /\ ts' \in [Requests -> Nat \cup {None}]
      <3>1. CASE type \in Retiring
        BY <1>9, <3>1 DEF RelayLifecycle, TypeOK, Without
      <3>2. CASE type \notin Retiring
        BY <1>9, <3>2 DEF RelayLifecycle, TypeOK
      <3> QED
        BY <3>1, <3>2
    <2>4. lastEnd' \in [Keys -> Nat] /\ muted' \subseteq Keys
      BY <1>9, <2>1, <2>2 DEF RelayLifecycle, TypeOK
    <2> QED
      BY <1>9, <2>2, <2>3, <2>4 DEF RelayLifecycle, TypeOK, callVars, timeVars
  <1>10. CASE Tick
    BY <1>10 DEF Tick, TypeOK
  <1>11. CASE Cleanup
    <2>1. live' \in [Requests -> Binding \cup {None}] /\ ts' \in [Requests -> Nat \cup {None}]
      BY <1>11, WithoutType DEF Cleanup, TypeOK
    <2> QED
      BY <1>11, <2>1 DEF Cleanup, TypeOK
  <1>12. ASSUME NEW s \in Subscribers, Stream(s) PROVE TypeOK'
    <2>1. CASE Subscribe(s)
      BY <2>1 DEF Subscribe, TypeOK, hubVars, callVars, timeVars
    <2>2. CASE Deliver(s)
      <3>1. queue[s] \in Seq(Event) /\ queue[s] # <<>>
        BY <2>2 DEF Deliver, TypeOK
      <3>2. Tail(queue[s]) \in Seq(Event) /\ Head(queue[s]) \in Event
        BY <3>1
      <3>3. Head(queue[s]).n \in Nat
        BY <3>2 DEF Event
      <3> QED
        BY <2>2, <3>2, <3>3 DEF Deliver, TypeOK, hubVars, callVars, timeVars
    <2>3. CASE Disconnect(s)
      BY <2>3 DEF Disconnect, TypeOK, hubVars, callVars, timeVars
    <2>4. CASE CloseGenerator(s)
      BY <2>4 DEF CloseGenerator, TypeOK, hubVars, callVars, timeVars
    <2> QED
      BY <1>12, <2>1, <2>2, <2>3, <2>4 DEF Stream
  <1>13. ASSUME NEW c \in Callers, NEW id \in Requests, RefuseUnknown(c, id)
         PROVE  TypeOK'
    BY <1>13 DEF RefuseUnknown, Pop, TypeOK, callVars, timeVars, fanVars
  <1>14. ASSUME NEW c \in Callers, NEW id \in Requests, NEW container \in Keys,
                NEW target \in Targets, RefuseMismatch(c, id, container, target)
         PROVE  TypeOK'
    BY <1>14 DEF RefuseMismatch, Stamp, TypeOK, callVars, timeVars, fanVars
  <1>15. ASSUME NEW c \in Callers, NEW id \in Requests, NEW container \in Keys,
                NEW target \in Targets, VerdictBegin(c, id, container, target)
         PROVE  TypeOK'
    <2>1. live[id] \in Binding /\ ts[id] \in Nat
      BY <1>15 DEF VerdictBegin, Pop, TypeOK, Lockstep
    <2>2. [id |-> id, container |-> container, target |-> target,
           held |-> live[id], ts |-> ts[id]] \in Suspended
      BY <2>1 DEF Suspended
    <2> QED
      BY <1>15, <2>2 DEF VerdictBegin, Pop, TypeOK, timeVars, fanVars
  <1>16. ASSUME NEW c \in Callers, VerdictApplied(c) PROVE TypeOK'
    <2>1. call[c] \in Suspended
      BY <1>16 DEF VerdictApplied, Consume, Announce, TypeOK
    <2>2. call[c].container \in Keys /\ call[c].id \in Requests /\ call[c].held.n \in Nat
      BY <2>1 DEF Suspended, Binding
    <2>3. count' \in Nat /\ queue' \in [Subscribers -> Seq(Event)]
      BY <1>16, <2>2, FanOutType DEF VerdictApplied, Consume, Announce
    <2> QED
      BY <1>16, <2>2, <2>3 DEF VerdictApplied, Consume, Announce, TypeOK, hubVars, timeVars
  <1>17. ASSUME NEW c \in Callers, VerdictFailed(c) PROVE TypeOK'
    <2>1. call[c] \in Suspended
      BY <1>17 DEF VerdictFailed, Announce, TypeOK
    <2>2. /\ call[c].container \in Keys /\ call[c].id \in Requests
          /\ call[c].held \in Binding /\ call[c].ts \in Nat
      BY <2>1 DEF Suspended
    <2>3. count' \in Nat /\ queue' \in [Subscribers -> Seq(Event)]
      BY <1>17, <2>2, FanOutType DEF VerdictFailed, Announce
    <2>4. live' \in [Requests -> Binding \cup {None}] /\ ts' \in [Requests -> Nat \cup {None}]
      <3>1. PICK p \in Binding : live' = [live EXCEPT ![call[c].id] = p]
        BY <1>17, FailedPutsBack
      <3>2. call[c].ts \in Nat /\ ts' = [ts EXCEPT ![call[c].id] = call[c].ts]
        BY <1>17, FailedPutsBack
      <3> QED
        BY <3>1, <3>2 DEF TypeOK
    <2> QED
      BY <1>17, <2>3, <2>4 DEF VerdictFailed, Announce, TypeOK, timeVars
  <1>18. ASSUME NEW key \in Keys, NEW on \in BOOLEAN, SetMute(key, on) PROVE TypeOK'
    BY <1>18 DEF SetMute, MuteKey, TypeOK, callVars, timeVars, fanVars
  <1>19. CASE UNCHANGED vars
    BY <1>19 DEF vars, TypeOK
  <1> QED
    BY <1>1, <1>2, <1>3, <1>4, <1>5, <1>6, <1>7, <1>8, <1>9, <1>10, <1>11, <1>12,
       <1>13, <1>14, <1>15, <1>16, <1>17, <1>18, <1>19
    DEF Next, Lifecycle, Relay, Verdict, VerdictEnd

\* A step keeps the two dictionaries in lockstep.
LEMMA LockstepStep == TypeOK /\ Lockstep /\ [Next]_vars => Lockstep'
  <1> SUFFICES ASSUME TypeOK, Lockstep, [Next]_vars PROVE Lockstep'
    OBVIOUS
  <1> USE HubAssumption DEF HubAssumption
  <1>1. CASE UNCHANGED <<live, ts>>
    BY <1>1 DEF Lockstep
  <1>2. CASE StopClears
    BY <1>2 DEF StopClears, Lockstep, Without
  <1>3. CASE Exit
    BY <1>3 DEF Exit, Lockstep
  <1>4. ASSUME NEW key \in Keys, NEW id \in Requests \cup {EmptyId}, NEW target \in Targets,
               RelayBlocked(key, id, target)
        PROVE  Lockstep'
    <2>1. CASE id = EmptyId
      BY <1>4, <2>1 DEF RelayBlocked, Lockstep
    <2>2. CASE id # EmptyId
      <3> DEFINE b == [container |-> Stamped(key), target |-> target, n |-> count + 1,
                       put |-> [event |-> count + 1, at |-> now]]
      <3>1. b \in Binding
        BY StampedIsKey DEF TypeOK, Binding
      <3>2. live' = [live EXCEPT ![id] = b] /\ ts' = [ts EXCEPT ![id] = now]
        BY <1>4, <2>2 DEF RelayBlocked
      <3>3. b # None /\ now # None
        BY <3>1 DEF TypeOK
      <3> HIDE DEF b
      <3> QED
        BY <3>2, <3>3 DEF Lockstep, TypeOK
    <2> QED
      BY <2>1, <2>2
  <1>5. ASSUME NEW key \in Keys, NEW type \in LifecycleTypes, RelayLifecycle(type, key)
        PROVE  Lockstep'
    BY <1>5 DEF RelayLifecycle, Lockstep, Without
  <1>6. CASE Cleanup
    BY <1>6 DEF Cleanup, Lockstep, Without
  <1>7. ASSUME NEW c \in Callers, NEW id \in Requests, RefuseUnknown(c, id)
        PROVE  Lockstep'
    BY <1>7 DEF RefuseUnknown, Pop, Lockstep, TypeOK
  <1>8. ASSUME NEW c \in Callers, NEW id \in Requests, NEW container \in Keys,
               NEW target \in Targets, RefuseMismatch(c, id, container, target)
        PROVE  Lockstep'
    BY <1>8 DEF RefuseMismatch, Stamp, Lockstep, TypeOK
  <1>9. ASSUME NEW c \in Callers, NEW id \in Requests, NEW container \in Keys,
               NEW target \in Targets, VerdictBegin(c, id, container, target)
        PROVE  Lockstep'
    BY <1>9 DEF VerdictBegin, Pop, Lockstep, TypeOK
  <1>10. ASSUME NEW c \in Callers, VerdictFailed(c) PROVE Lockstep'
    <2>1. PICK p \in Binding : live' = [live EXCEPT ![call[c].id] = p]
      BY <1>10, FailedPutsBack
    <2>2. /\ call[c].id \in Requests /\ call[c].ts \in Nat
          /\ ts' = [ts EXCEPT ![call[c].id] = call[c].ts]
      BY <1>10, FailedPutsBack
    <2> QED
      BY <2>1, <2>2 DEF Lockstep, TypeOK
  <1> QED
    BY <1>1, <1>2, <1>3, <1>4, <1>5, <1>6, <1>7, <1>8, <1>9, <1>10
    DEF Next, Lifecycle, Relay, Stream, Verdict, VerdictEnd, vars, hubVars,
        StartIngester, BindSucceeds, BindFails, StopServer, StopIngester, Tick,
        Subscribe, Deliver, Disconnect, CloseGenerator, VerdictApplied, Consume, Announce, SetMute

\* Every reachable state is well typed and its dictionaries are in lockstep,
\* whatever the bounds: no entry of _live_verdicts escapes expiry for want of
\* a timestamp, and no timestamp is left behind.
THEOREM LockstepHolds == Spec => [](TypeOK /\ Lockstep)
  <1>1. Init => TypeOK /\ Lockstep
    BY HubAssumption DEF HubAssumption, Init, TypeOK, Lockstep, Phases
  <1> QED
    BY <1>1, TypeStep, LockstepStep, PTL DEF Spec

\* Every reachable state is well typed.
THEOREM TypeCorrect == Spec => []TypeOK
  BY LockstepHolds, PTL

-----------------------------------------------------------------------------
(* Verdict authorisation *)

\* Announcements are numbered, so a number names one prompt.
OffersDistinct == \A p, q \in offered : p.n = q.n => p = q

\* Nothing is offered or granted under a number still to be given.
NumbersPast == /\ \A p \in offered : p.n <= count
               /\ \A n \in granted : n <= count

\* A single-container hub binds no other container.
Confined == Own # None => \A r \in Requests : live[r] # None => live[r].container = Own

\* A suspended verdict holds the binding its arguments cite.
HeldMatches ==
  \A c \in InFlight : /\ call[c].held.container = call[c].container
                      /\ call[c].held.target = call[c].target

\* The inductive invariant behind AnsweredOnce.
AuthzParts == /\ OffersDistinct /\ NumbersPast /\ Confined /\ HeldMatches
              /\ BindingsAreOffers /\ VerdictsCiteOffers /\ AnsweredOnce

AuthzInv == TypeOK /\ Lockstep /\ AuthzParts

\* Bindings may be dropped and events fanned out at any time without harm.
LEMMA ShrinkStep ==
  ASSUME AuthzInv,
         \A r \in Requests : live'[r] # None => live'[r] = live[r] /\ ts'[r] = ts[r],
         call' = call, granted' = granted, offered' = offered, count' >= count,
         count' \in Nat
  PROVE  AuthzParts'
  <1> USE DEF AuthzInv, AuthzParts
  <1>1. OffersDistinct' /\ HeldMatches' /\ VerdictsCiteOffers'
    BY DEF OffersDistinct, HeldMatches, VerdictsCiteOffers, InFlight, PromptIn
  <1>2. NumbersPast'
    <2>1. \A p \in offered : p.n \in Nat
      BY DEF TypeOK, Prompt
    <2> QED
      BY <2>1 DEF NumbersPast, TypeOK
  <1>3. Confined'
    BY DEF Confined
  <1>4. BindingsAreOffers'
    BY DEF BindingsAreOffers, PromptOf
  <1>5. AnsweredOnce'
    BY DEF AnsweredOnce, InFlight
  <1> QED
    BY <1>1, <1>2, <1>3, <1>4, <1>5

\* A new prompt gets a number nobody holds and displaces the old binding, if
\* any, under its id.
LEMMA RelayBlockedStep ==
  ASSUME AuthzInv, NEW key \in Keys, NEW id \in Requests, NEW target \in Targets,
         RelayBlocked(key, id, target)
  PROVE  AuthzParts'
  <1> USE HubAssumption DEF HubAssumption, AuthzInv, AuthzParts
  <1> DEFINE b == [container |-> Stamped(key), target |-> target, n |-> count + 1,
                   put |-> [event |-> count + 1, at |-> now]]
             o == [n |-> count + 1, id |-> id, container |-> Stamped(key),
                   target |-> target, at |-> now]
  <1>1. b \in Binding /\ o \in Prompt
    BY StampedIsKey DEF TypeOK, Binding, Prompt
  <1>2. /\ live' = [live EXCEPT ![id] = b] /\ ts' = [ts EXCEPT ![id] = now]
        /\ offered' = offered \cup {o} /\ call' = call /\ granted' = granted
        /\ count' = count + 1
    BY DEF RelayBlocked, FanOut, callVars
  <1>3. b.n = count + 1 /\ o.n = count + 1 /\ b.container = Stamped(key) /\ b # None
    BY <1>1
  <1>4. \A r \in Requests : live'[r] = IF r = id THEN b ELSE live[r]
    BY <1>2 DEF TypeOK
  <1>5. \A r \in Requests : r # id => PromptOf(r)' = PromptOf(r)
    BY <1>2, <1>4 DEF PromptOf, TypeOK
  <1>6. PromptOf(id)' = o
    BY <1>2, <1>4 DEF PromptOf, TypeOK
  <1>7. \A p \in offered : p.n \in Nat /\ p.n <= count
    BY DEF NumbersPast, TypeOK, Prompt
  <1>8. \A r \in Requests : live[r] # None => live[r].n <= count
    BY <1>7 DEF BindingsAreOffers, PromptOf
  <1>9. \A c \in InFlight : call[c].held.n <= count
    BY <1>7 DEF VerdictsCiteOffers, PromptIn
  <1>10. OffersDistinct'
    BY <1>2, <1>3, <1>7 DEF OffersDistinct, TypeOK
  <1>11. NumbersPast'
    BY <1>2, <1>3, <1>7 DEF NumbersPast, TypeOK
  <1>12. Confined'
    BY <1>3, <1>4 DEF Confined, Stamped
  <1>13. HeldMatches' /\ VerdictsCiteOffers'
    BY <1>2 DEF HeldMatches, VerdictsCiteOffers, InFlight, PromptIn
  <1>14. BindingsAreOffers'
    BY <1>2, <1>4, <1>5, <1>6 DEF BindingsAreOffers
  <1>15. AnsweredOnce'
    <2>1. count + 1 \notin granted
      BY DEF NumbersPast, TypeOK
    <2>2. \A c \in InFlight : call[c].held.n # count + 1
      BY <1>9 DEF TypeOK
    <2> QED
      BY <1>2, <1>3, <1>4, <2>1, <2>2 DEF AnsweredOnce, InFlight
  <1> QED
    BY <1>10, <1>11, <1>12, <1>13, <1>14, <1>15

\* Taking a binding to the shield takes it out of the map in the same stretch.
LEMMA VerdictBeginStep ==
  ASSUME AuthzInv, NEW c \in Callers, NEW id \in Requests, NEW container \in Keys,
         NEW target \in Targets, VerdictBegin(c, id, container, target)
  PROVE  AuthzParts'
  <1> USE HubAssumption DEF HubAssumption, AuthzInv, AuthzParts
  <1> DEFINE v == [id |-> id, container |-> container, target |-> target,
                   held |-> live[id], ts |-> ts[id]]
  <1>1. live[id] \in Binding /\ ts[id] \in Nat
    BY DEF VerdictBegin, Pop, TypeOK, Lockstep
  <1>2. /\ live[id] # None /\ call[c] = None
        /\ live[id].container = container /\ live[id].target = target
    BY DEF VerdictBegin, Pop, Matches
  <1>3. v \in Suspended /\ v # None
    BY <1>1 DEF Suspended
  <1>4. /\ call' = [call EXCEPT ![c] = v] /\ live' = [live EXCEPT ![id] = None]
        /\ ts' = [ts EXCEPT ![id] = None] /\ granted' = granted /\ offered' = offered
        /\ count' = count
    BY DEF VerdictBegin, Pop, fanVars
  <1>5. \A d \in Callers : call'[d] = IF d = c THEN v ELSE call[d]
    BY <1>4 DEF TypeOK
  <1>6. \A r \in Requests : live'[r] = IF r = id THEN None ELSE live[r]
    BY <1>4 DEF TypeOK
  <1>7. \A r \in Requests : r # id => ts'[r] = ts[r]
    BY <1>4 DEF TypeOK
  <1>8. PromptOf(id) \in offered
    BY <1>2 DEF BindingsAreOffers
  <1>9. PromptIn(c)' = PromptOf(id)
    BY <1>2, <1>5 DEF PromptIn, PromptOf
  <1>10. InFlight' = InFlight \cup {c} /\ c \notin InFlight /\ InFlight \subseteq Callers
    BY <1>2, <1>3, <1>5 DEF InFlight
  <1>11. OffersDistinct' /\ NumbersPast' /\ Confined'
    BY <1>4, <1>6 DEF OffersDistinct, NumbersPast, Confined
  <1>12. HeldMatches'
    BY <1>2, <1>5, <1>10 DEF HeldMatches
  <1>13. BindingsAreOffers'
    BY <1>4, <1>6, <1>7 DEF BindingsAreOffers, PromptOf
  <1>14. VerdictsCiteOffers'
    <2>1. \A d \in InFlight : PromptIn(d)' = PromptIn(d)
      BY <1>5, <1>10 DEF PromptIn
    <2>2. Own # None => container = Own
      BY <1>2 DEF Confined
    <2> QED
      BY <1>4, <1>5, <1>8, <1>9, <1>10, <2>1, <2>2 DEF VerdictsCiteOffers
  <1>15. AnsweredOnce'
    <2>1. \A r \in Requests : live[r] # None /\ r # id => live[r].n # live[id].n
      <3> TAKE r \in Requests
      <3> HAVE live[r] # None /\ r # id
      <3>1. PromptOf(r) \in offered /\ PromptOf(r).id = r /\ PromptOf(r).n = live[r].n
        BY DEF BindingsAreOffers, PromptOf
      <3>2. PromptOf(id).id = id /\ PromptOf(id).n = live[id].n
        BY DEF PromptOf
      <3> QED
        BY <1>8, <3>1, <3>2 DEF OffersDistinct
    <2> QED
      BY <1>2, <1>4, <1>5, <1>6, <1>10, <2>1 DEF AnsweredOnce
  <1> QED
    BY <1>11, <1>12, <1>13, <1>14, <1>15

\* An accepted verdict settles the prompt for good.
LEMMA VerdictAppliedStep ==
  ASSUME AuthzInv, NEW c \in Callers, VerdictApplied(c)
  PROVE  AuthzParts'
  <1> USE HubAssumption DEF HubAssumption, AuthzInv, AuthzParts
  <1>1. /\ c \in InFlight /\ call' = [call EXCEPT ![c] = None]
        /\ granted' = granted \cup {call[c].held.n}
        /\ live' = live /\ ts' = ts /\ offered' = offered /\ count' = count + 1
    BY DEF VerdictApplied, Consume, Announce, InFlight, FanOut, hubVars
  <1>2. InFlight' = InFlight \ {c} /\ \A d \in InFlight' : call'[d] = call[d]
    BY <1>1 DEF InFlight, TypeOK
  <1>3. PromptIn(c) \in offered /\ PromptIn(c).n = call[c].held.n
    BY <1>1 DEF VerdictsCiteOffers, PromptIn
  <1>4. \A p \in offered : p.n \in Nat
    BY DEF TypeOK, Prompt
  <1>5. OffersDistinct' /\ Confined' /\ HeldMatches' /\ BindingsAreOffers'
    BY <1>1, <1>2 DEF OffersDistinct, Confined, HeldMatches, BindingsAreOffers, PromptOf
  <1>6. NumbersPast'
    BY <1>1, <1>3, <1>4 DEF NumbersPast, TypeOK
  <1>7. VerdictsCiteOffers'
    BY <1>1, <1>2 DEF VerdictsCiteOffers, PromptIn
  <1>8. AnsweredOnce'
    BY <1>1, <1>2 DEF AnsweredOnce
  <1> QED
    BY <1>5, <1>6, <1>7, <1>8

\* A failed verdict hands back exactly what it took, and lets go of it.
LEMMA VerdictFailedStep ==
  ASSUME AuthzInv, NEW c \in Callers, VerdictFailed(c)
  PROVE  AuthzParts'
  <1> USE HubAssumption DEF HubAssumption, AuthzInv, AuthzParts
  <1>0. PICK id \in Requests : id = call[c].id
    BY FailedPutsBack
  <1>1. PICK p \in Binding :
          /\ live' = [live EXCEPT ![id] = p]
          /\ p.n = call[c].held.n
          /\ p.container = call[c].held.container /\ p.target = call[c].held.target
    BY <1>0, FailedPutsBack
  <1>2. ts' = [ts EXCEPT ![id] = call[c].ts]
    BY <1>0, FailedPutsBack
  <1>3. /\ c \in InFlight /\ call' = [call EXCEPT ![c] = None]
        /\ granted' = granted /\ offered' = offered /\ count' = count + 1
    BY DEF VerdictFailed, Announce, InFlight, FanOut
  <1>4. InFlight' = InFlight \ {c} /\ \A d \in InFlight' : call'[d] = call[d]
    BY <1>3 DEF InFlight, TypeOK
  <1>5. \A r \in Requests : /\ live'[r] = IF r = id THEN p ELSE live[r]
                            /\ ts'[r] = IF r = id THEN call[c].ts ELSE ts[r]
    BY <1>1, <1>2 DEF TypeOK
  <1>6. p.container = call[c].container /\ p.target = call[c].target
    BY <1>1, <1>3 DEF HeldMatches
  <1>7. PromptOf(id)' = PromptIn(c)
    BY <1>0, <1>1, <1>5, <1>6 DEF PromptOf, PromptIn
  <1>8. \A r \in Requests : r # id => PromptOf(r)' = PromptOf(r)
    BY <1>5 DEF PromptOf
  <1>9. OffersDistinct' /\ HeldMatches'
    BY <1>3, <1>4 DEF OffersDistinct, HeldMatches
  <1>10. NumbersPast'
    <2>1. \A q \in offered : q.n \in Nat
      BY DEF TypeOK, Prompt
    <2> QED
      BY <1>3, <2>1 DEF NumbersPast, TypeOK
  <1>11. Confined'
    BY <1>3, <1>5, <1>6 DEF Confined, VerdictsCiteOffers
  <1>12. BindingsAreOffers'
    BY <1>3, <1>5, <1>7, <1>8 DEF BindingsAreOffers, VerdictsCiteOffers
  <1>13. VerdictsCiteOffers'
    BY <1>3, <1>4 DEF VerdictsCiteOffers, PromptIn
  <1>14. AnsweredOnce'
    BY <1>1, <1>3, <1>4, <1>5 DEF AnsweredOnce
  <1> QED
    BY <1>9, <1>10, <1>11, <1>12, <1>13, <1>14

\* The authorisation invariant is inductive.
LEMMA AuthzStep == AuthzInv /\ [Next]_vars => AuthzParts'
  <1> SUFFICES ASSUME AuthzInv, [Next]_vars PROVE AuthzParts'
    OBVIOUS
  <1>0. count \in Nat
    BY DEF AuthzInv, TypeOK
  <1>1. CASE UNCHANGED <<live, ts, call, granted, offered, count>>
    BY <1>0, <1>1, ShrinkStep
  <1>2. CASE StopClears
    BY <1>0, <1>2, ShrinkStep DEF StopClears, Without
  <1>3. CASE Exit
    BY <1>3 DEF Exit, AuthzParts, OffersDistinct, NumbersPast, Confined, HeldMatches,
       BindingsAreOffers, VerdictsCiteOffers, AnsweredOnce, InFlight
  <1>4. ASSUME NEW key \in Keys, NEW id \in Requests \cup {EmptyId}, NEW target \in Targets,
               RelayBlocked(key, id, target)
        PROVE  AuthzParts'
    <2>1. CASE id = EmptyId
      BY <1>0, <1>4, <2>1, ShrinkStep DEF RelayBlocked, FanOut, callVars
    <2>2. CASE id # EmptyId
      BY <1>4, <2>2, RelayBlockedStep
    <2> QED
      BY <2>1, <2>2
  <1>5. ASSUME NEW key \in Keys, NEW type \in LifecycleTypes, RelayLifecycle(type, key)
        PROVE  AuthzParts'
    <2>1. \A r \in Requests : live'[r] # None => live'[r] = live[r] /\ ts'[r] = ts[r]
      BY <1>5 DEF RelayLifecycle, Without
    <2>2. /\ call' = call /\ granted' = granted /\ offered' = offered
          /\ count' = count + 1
      BY <1>5 DEF RelayLifecycle, FanOut, callVars
    <2> QED
      BY <1>0, <2>1, <2>2, ShrinkStep
  <1>6. CASE Cleanup
    BY <1>0, <1>6, ShrinkStep DEF Cleanup, Without
  <1>7. ASSUME NEW c \in Callers, NEW id \in Requests, RefuseUnknown(c, id)
        PROVE  AuthzParts'
    BY <1>0, <1>7, ShrinkStep DEF RefuseUnknown, Pop, AuthzInv, TypeOK, callVars, fanVars
  <1>8. ASSUME NEW c \in Callers, NEW id \in Requests, NEW container \in Keys,
               NEW target \in Targets, RefuseMismatch(c, id, container, target)
        PROVE  AuthzParts'
    BY <1>0, <1>8, ShrinkStep DEF RefuseMismatch, Stamp, AuthzInv, TypeOK, callVars, fanVars
  <1>9. ASSUME NEW c \in Callers, NEW id \in Requests, NEW container \in Keys,
               NEW target \in Targets, VerdictBegin(c, id, container, target)
        PROVE  AuthzParts'
    BY <1>9, VerdictBeginStep
  <1>10. ASSUME NEW c \in Callers, VerdictApplied(c) PROVE AuthzParts'
    BY <1>10, VerdictAppliedStep
  <1>11. ASSUME NEW c \in Callers, VerdictFailed(c) PROVE AuthzParts'
    BY <1>11, VerdictFailedStep
  <1> QED
    BY <1>1, <1>2, <1>3, <1>4, <1>5, <1>6, <1>7, <1>8, <1>9, <1>10, <1>11
    DEF Next, Lifecycle, Relay, Stream, Verdict, VerdictEnd, vars, hubVars, callVars,
        StartIngester, BindSucceeds, BindFails, StopServer, StopIngester, Tick,
        Subscribe, Deliver, Disconnect, CloseGenerator, SetMute, fanVars

\* The inductive invariant holds in every reachable state.
LEMMA AuthzInvariant == Spec => []AuthzInv
  <1>1. Init => AuthzParts
    BY DEF Init, AuthzParts, OffersDistinct, NumbersPast, Confined, HeldMatches,
       BindingsAreOffers, VerdictsCiteOffers, AnsweredOnce, InFlight
  <1>2. TypeOK /\ Lockstep /\ AuthzParts /\ [Next]_vars => AuthzParts'
    BY AuthzStep DEF AuthzInv
  <1> QED
    BY <1>1, <1>2, LockstepHolds, PTL DEF Spec, AuthzInv

\* However many clients answer a prompt and however often verdicts fail, one
\* shield run at a time works on it and none after one succeeded.
THEOREM PromptsAnsweredOnce == Spec => []AnsweredOnce
  <1>1. AuthzInv => AnsweredOnce
    BY DEF AuthzInv, AuthzParts
  <1> QED
    BY <1>1, AuthzInvariant, PTL

\* The shield runs only on triples this hub announced, in its own container.
THEOREM OnlyOffersReachShield == Spec => []VerdictsCiteOffers
  <1>1. AuthzInv => VerdictsCiteOffers
    BY DEF AuthzInv, AuthzParts
  <1> QED
    BY <1>1, AuthzInvariant, PTL

\* Refusals, failures and retries never alter a binding's triple or the time
\* its expiry counts from.
THEOREM BindingsStayOffers == Spec => []BindingsAreOffers
  <1>1. AuthzInv => BindingsAreOffers
    BY DEF AuthzInv, AuthzParts
  <1> QED
    BY <1>1, AuthzInvariant, PTL

-----------------------------------------------------------------------------
(* Refinement of ClearanceAuthz *)

\* A hub that has bound nothing has asked nothing.
LEMMA RefinesInit == Init => Authz!Init
  BY DEF Init, Authz!Init, Authz!Idle, Open, Running, Settled

\* Bindings that are dropped are prompts that are withdrawn.
LEMMA WithdrawStep ==
  ASSUME \A r \in Requests : live'[r] # None => live'[r] = live[r] /\ ts'[r] = ts[r],
         call' = call, granted' = granted, offered' = offered
  PROVE  Authz!Withdraw
  <1>1. Open' \subseteq Open
    BY DEF Open, PromptOf
  <1>2. Running' = Running
    BY DEF Running, PromptIn
  <1>3. Settled' = Settled
    BY DEF Settled
  <1> QED
    BY <1>1, <1>2, <1>3 DEF Authz!Withdraw

\* A binding made is a prompt asked, in place of the one under the same id.
LEMMA AskStep ==
  ASSUME AuthzInv, NEW key \in Keys, NEW id \in Requests, NEW target \in Targets,
         RelayBlocked(key, id, target)
  PROVE  Authz!Next
  <1> USE HubAssumption DEF HubAssumption, AuthzInv, AuthzParts
  <1> DEFINE b == [container |-> Stamped(key), target |-> target, n |-> count + 1,
                   put |-> [event |-> count + 1, at |-> now]]
             o == [n |-> count + 1, id |-> id, container |-> Stamped(key),
                   target |-> target, at |-> now]
  <1>1. b \in Binding /\ b # None
    BY StampedIsKey DEF TypeOK, Binding
  <1>2. /\ live' = [live EXCEPT ![id] = b] /\ ts' = [ts EXCEPT ![id] = now]
        /\ offered' = offered \cup {o} /\ call' = call /\ granted' = granted
    BY DEF RelayBlocked, callVars
  <1>3. o \notin offered /\ o.n \notin granted
    BY DEF NumbersPast, TypeOK
  <1>4. PromptOf(id)' = o /\ \A r \in Requests : r # id => PromptOf(r)' = PromptOf(r)
    BY <1>2 DEF PromptOf, TypeOK
  <1>5. \A r \in Requests : live'[r] # None <=> r = id \/ live[r] # None
    BY <1>1, <1>2 DEF TypeOK
  <1> HIDE DEF b, o
  <1>6. o \in Open' /\ Open' \subseteq Open \cup {o}
    BY <1>4, <1>5 DEF Open
  <1>7. Running' = Running
    BY <1>2 DEF Running, PromptIn
  <1>8. Settled' = Settled
    BY <1>2, <1>3 DEF Settled
  <1>9. Authz!Ask(o)
    BY <1>2, <1>6, <1>7, <1>8 DEF Authz!Ask
  <1> QED
    BY <1>2, <1>3, <1>9 DEF Authz!Next

\* A verdict that goes to the shield takes its prompt with it.
LEMMA RunStep ==
  ASSUME AuthzInv, NEW c \in Callers, NEW id \in Requests, NEW container \in Keys,
         NEW target \in Targets, VerdictBegin(c, id, container, target)
  PROVE  Authz!Run(c)
  <1> USE HubAssumption DEF HubAssumption, AuthzInv, AuthzParts
  <1> DEFINE v == [id |-> id, container |-> container, target |-> target,
                   held |-> live[id], ts |-> ts[id]]
  <1>1. /\ live[id] # None /\ call[c] = None
        /\ live[id].container = container /\ live[id].target = target
    BY DEF VerdictBegin, Matches
  <1>2. v # None
    BY <1>1 DEF Lockstep, TypeOK, Suspended
  <1>3. /\ call' = [call EXCEPT ![c] = v] /\ live' = [live EXCEPT ![id] = None]
        /\ ts' = [ts EXCEPT ![id] = None] /\ granted' = granted /\ offered' = offered
    BY DEF VerdictBegin, Pop
  <1>4. \A d \in Callers : call'[d] = IF d = c THEN v ELSE call[d]
    BY <1>3 DEF TypeOK
  <1>5. PromptIn(c)' = PromptOf(id)
    BY <1>1, <1>4 DEF PromptIn, PromptOf
  <1>6. \A d \in Callers : d # c => PromptIn(d)' = PromptIn(d)
    BY <1>4 DEF PromptIn
  <1> HIDE DEF v
  <1>7. Running[c] = None /\ Running' = [Running EXCEPT ![c] = PromptOf(id)]
    BY <1>1, <1>2, <1>4, <1>5, <1>6 DEF Running
  <1>8. \A r \in Requests : PromptOf(r).id = r
    BY DEF PromptOf
  <1>9. \A r \in Requests : r # id => PromptOf(r)' = PromptOf(r) /\ live'[r] = live[r]
    BY <1>3 DEF PromptOf, TypeOK
  <1>10. live'[id] = None
    BY <1>3 DEF TypeOK
  <1>11. PromptOf(id) \in Open /\ Open' = Open \ {PromptOf(id)}
    BY <1>1, <1>8, <1>9, <1>10 DEF Open
  <1>12. Settled' = Settled
    BY <1>3 DEF Settled
  <1> QED
    BY <1>3, <1>7, <1>11, <1>12 DEF Authz!Run

\* A caller whose verdict is suspended runs a prompt.
LEMMA SuspendedRuns ==
  ASSUME AuthzInv, NEW c \in InFlight
  PROVE  Running[c] = PromptIn(c) /\ Running[c] # None
  BY PromptAssumption
  DEF PromptAssumption, AuthzInv, AuthzParts, VerdictsCiteOffers, TypeOK, InFlight, Running

\* A verdict the shield accepted settles the prompt it ran, and no other.
LEMMA SucceedStep ==
  ASSUME AuthzInv, NEW c \in Callers, VerdictApplied(c)
  PROVE  Authz!Succeed(c)
  <1> USE DEF AuthzInv, AuthzParts
  <1>1. /\ c \in InFlight /\ call' = [call EXCEPT ![c] = None]
        /\ granted' = granted \cup {call[c].held.n}
        /\ live' = live /\ ts' = ts /\ offered' = offered
    BY DEF VerdictApplied, Consume, InFlight
  <1>2. Running[c] = PromptIn(c) /\ Running[c] # None
    BY <1>1, SuspendedRuns
  <1>3. PromptIn(c) \in offered /\ PromptIn(c).n = call[c].held.n
    BY <1>1 DEF VerdictsCiteOffers, PromptIn
  <1>4. Running' = [Running EXCEPT ![c] = None]
    BY <1>1 DEF Running, PromptIn, TypeOK
  <1>5. \A p \in offered : p.n = call[c].held.n <=> p = PromptIn(c)
    BY <1>3 DEF OffersDistinct
  <1>6. Settled' = Settled \cup {PromptIn(c)}
    BY <1>1, <1>3, <1>5 DEF Settled
  <1>7. Open' = Open
    BY <1>1 DEF Open, PromptOf
  <1> QED
    BY <1>1, <1>2, <1>4, <1>6, <1>7 DEF Authz!Succeed

\* A failed verdict opens its prompt again, in place of the one under the same id.
LEMMA FailStep ==
  ASSUME AuthzInv, NEW c \in Callers, VerdictFailed(c)
  PROVE  Authz!Fail(c)
  <1> USE HubAssumption DEF HubAssumption, AuthzInv, AuthzParts
  <1>0. PICK id \in Requests : id = call[c].id
    BY FailedPutsBack
  <1>1. PICK p \in Binding :
          /\ live' = [live EXCEPT ![id] = p]
          /\ p.n = call[c].held.n
          /\ p.container = call[c].held.container /\ p.target = call[c].held.target
    BY <1>0, FailedPutsBack
  <1>2. /\ ts' = [ts EXCEPT ![id] = call[c].ts]
        /\ c \in InFlight /\ call' = [call EXCEPT ![c] = None]
        /\ granted' = granted /\ offered' = offered
    BY <1>0, FailedPutsBack DEF VerdictFailed, InFlight
  <1>3. \A r \in Requests : /\ live'[r] = IF r = id THEN p ELSE live[r]
                            /\ ts'[r] = IF r = id THEN call[c].ts ELSE ts[r]
    BY <1>1, <1>2 DEF TypeOK
  <1>4. p.container = call[c].container /\ p.target = call[c].target
    BY <1>1, <1>2 DEF HeldMatches
  <1>5. PromptOf(id)' = PromptIn(c)
    BY <1>0, <1>1, <1>3, <1>4 DEF PromptOf, PromptIn
  <1>6. \A r \in Requests : r # id => PromptOf(r)' = PromptOf(r)
    BY <1>3 DEF PromptOf
  <1>7. Running[c] = PromptIn(c) /\ Running[c] # None
    BY <1>2, SuspendedRuns
  <1>8. PromptIn(c) \in Open' /\ Open' \subseteq Open \cup {PromptIn(c)}
    BY <1>3, <1>5, <1>6 DEF Open
  <1>9. Running' = [Running EXCEPT ![c] = None]
    BY <1>2 DEF Running, PromptIn, TypeOK
  <1>10. Settled' = Settled
    BY <1>2 DEF Settled
  <1> QED
    BY <1>2, <1>7, <1>8, <1>9, <1>10 DEF Authz!Fail

\* A hub that starts anew has forgotten everything.
LEMMA RestartStep == Exit => Authz!Restart
  BY DEF Exit, Authz!Restart, Authz!Idle, Open, Running, Settled

\* Every step of the hub is a step of the abstract specification, or none.
LEMMA RefinesStep == AuthzInv /\ [Next]_vars => [Authz!Next]_(Authz!avars)
  <1> SUFFICES ASSUME AuthzInv, [Next]_vars PROVE Authz!Next
    OBVIOUS
  <1>1. CASE UNCHANGED <<live, ts, call, granted, offered>>
    BY <1>1, WithdrawStep DEF Authz!Next
  <1>2. CASE StopClears \/ Cleanup
    BY <1>2, WithdrawStep DEF StopClears, Cleanup, Without, Authz!Next
  <1>3. CASE Exit
    BY <1>3, RestartStep DEF Authz!Next
  <1>4. ASSUME NEW key \in Keys, NEW id \in Requests \cup {EmptyId}, NEW target \in Targets,
               RelayBlocked(key, id, target)
        PROVE  Authz!Next
    <2>1. CASE id = EmptyId
      BY <1>4, <2>1, WithdrawStep DEF RelayBlocked, callVars, Authz!Next
    <2>2. CASE id # EmptyId
      BY <1>4, <2>2, AskStep
    <2> QED
      BY <2>1, <2>2
  <1>5. ASSUME NEW key \in Keys, NEW type \in LifecycleTypes, RelayLifecycle(type, key)
        PROVE  Authz!Next
    BY <1>5, WithdrawStep DEF RelayLifecycle, Without, callVars, Authz!Next
  <1>6. ASSUME NEW c \in Callers, NEW id \in Requests, RefuseUnknown(c, id)
        PROVE  Authz!Next
    BY <1>6, WithdrawStep DEF RefuseUnknown, Pop, AuthzInv, TypeOK, callVars, Authz!Next
  <1>7. ASSUME NEW c \in Callers, NEW id \in Requests, NEW container \in Keys,
               NEW target \in Targets, RefuseMismatch(c, id, container, target)
        PROVE  Authz!Next
    BY <1>7, WithdrawStep DEF RefuseMismatch, Stamp, AuthzInv, TypeOK, callVars, Authz!Next
  <1>8. ASSUME NEW c \in Callers, NEW id \in Requests, NEW container \in Keys,
               NEW target \in Targets, VerdictBegin(c, id, container, target)
        PROVE  Authz!Next
    BY <1>8, RunStep DEF Authz!Next
  <1>9. ASSUME NEW c \in Callers, VerdictEnd(c) PROVE Authz!Next
    BY <1>9, SucceedStep, FailStep DEF VerdictEnd, Authz!Next
  <1> QED
    BY <1>1, <1>2, <1>3, <1>4, <1>5, <1>6, <1>7, <1>8, <1>9
    DEF Next, Lifecycle, Relay, Stream, Verdict, vars, hubVars, callVars,
        StartIngester, BindSucceeds, BindFails, StopServer, StopIngester, Tick,
        Subscribe, Deliver, Disconnect, CloseGenerator, SetMute, fanVars

\* The dictionaries, timestamps and suspended calls implement ClearanceAuthz: a
\* prompt is asked once, run by one caller at a time, opened again only by a
\* failure and never after a success.
THEOREM HubImplementsAuthz == Spec => ImplementsAuthz
  BY RefinesInit, RefinesStep, AuthzInvariant, PTL DEF Spec, ImplementsAuthz, Authz!Spec

-----------------------------------------------------------------------------
(* Purges *)

\* No lifecycle event is numbered past the count.
EndsPast == \A k \in Keys : lastEnd[k] <= count

PurgeParts == EndsPast /\ PurgeIsComplete

\* Dropping bindings cannot break a purge.
LEMMA PurgeShrinkStep ==
  ASSUME TypeOK, PurgeParts,
         \A r \in Requests : live'[r] # None => live'[r] = live[r],
         lastEnd' = lastEnd, count' >= count, count' \in Nat
  PROVE  PurgeParts'
  <1>1. EndsPast'
    BY DEF PurgeParts, EndsPast, TypeOK
  <1>2. PurgeIsComplete'
    BY DEF PurgeParts, PurgeIsComplete
  <1> QED
    BY <1>1, <1>2 DEF PurgeParts

\* Putting a binding in the map numbers it past every lifecycle event.
LEMMA PurgePutStep ==
  ASSUME TypeOK, PurgeParts, NEW r \in Requests, NEW b \in Binding,
         live' = [live EXCEPT ![r] = b], b.put.event = count + 1,
         lastEnd' = lastEnd, count' = count + 1
  PROVE  PurgeParts'
  <1>1. EndsPast'
    BY DEF PurgeParts, EndsPast, TypeOK
  <1>2. ASSUME NEW q \in Requests, live'[q] # None
        PROVE  live'[q].put.event > lastEnd[live'[q].container]
    <2>1. CASE q = r
      <3>1. live'[q] = b /\ b.container \in Keys
        BY <2>1 DEF TypeOK, Binding
      <3>2. lastEnd[b.container] \in Nat /\ lastEnd[b.container] <= count /\ count \in Nat
        BY <3>1 DEF TypeOK, PurgeParts, EndsPast
      <3> QED
        BY <3>1, <3>2
    <2>2. CASE q # r
      BY <1>2, <2>2 DEF TypeOK, PurgeParts, PurgeIsComplete
    <2> QED
      BY <2>1, <2>2
  <1> QED
    BY <1>1, <1>2 DEF PurgeParts, PurgeIsComplete

\* A lifecycle event that ends a container's prompts drops its bindings in the
\* same stretch.
LEMMA PurgeEndStep ==
  ASSUME TypeOK, PurgeParts, NEW key \in Keys, NEW type \in LifecycleTypes,
         RelayLifecycle(type, key)
  PROVE  PurgeParts'
  <1>1. count' = count + 1 /\ count \in Nat /\ Stamped(key) \in Keys
    BY StampedIsKey DEF RelayLifecycle, FanOut, TypeOK
  <1>2. CASE type \notin Endings
    <2>1. \A r \in Requests : live'[r] # None => live'[r] = live[r]
      BY DEF RelayLifecycle, Without
    <2> QED
      BY <1>1, <1>2, <2>1, PurgeShrinkStep DEF RelayLifecycle
  <1>3. CASE type \in Endings
    <2>1. lastEnd' = [lastEnd EXCEPT ![Stamped(key)] = count + 1]
      BY <1>3 DEF RelayLifecycle
    <2>2. EndsPast'
      BY <1>1, <2>1 DEF PurgeParts, EndsPast, TypeOK
    <2>3. live' = Without(live, RetiredBy(Stamped(key)))
      BY <1>3 DEF RelayLifecycle, Endings, Retiring, LifecycleTypes
    <2>4. ASSUME NEW r \in Requests, live'[r] # None
          PROVE  live'[r].put.event > lastEnd'[live'[r].container]
      <3>1. live'[r] = live[r] /\ live[r].container # Stamped(key)
        BY <2>3, <2>4 DEF Without, RetiredBy
      <3>2. live[r].container \in Keys
        BY <2>4, <3>1 DEF TypeOK, Binding
      <3> QED
        BY <2>1, <2>4, <3>1, <3>2 DEF PurgeParts, PurgeIsComplete, TypeOK
    <2> QED
      BY <2>2, <2>4 DEF PurgeParts, PurgeIsComplete
  <1> QED
    BY <1>2, <1>3

\* The purge invariant is inductive.
LEMMA PurgeStep == TypeOK /\ PurgeParts /\ [Next]_vars => PurgeParts'
  <1> SUFFICES ASSUME TypeOK, PurgeParts, [Next]_vars PROVE PurgeParts'
    OBVIOUS
  <1>0. count \in Nat
    BY DEF TypeOK
  <1>1. CASE UNCHANGED <<live, lastEnd, count>>
    BY <1>0, <1>1, PurgeShrinkStep
  <1>2. CASE StopClears
    BY <1>0, <1>2, PurgeShrinkStep DEF StopClears, Without
  <1>3. CASE Exit
    BY <1>3 DEF Exit, PurgeParts, EndsPast, PurgeIsComplete
  <1>4. ASSUME NEW key \in Keys, NEW id \in Requests \cup {EmptyId}, NEW target \in Targets,
               RelayBlocked(key, id, target)
        PROVE  PurgeParts'
    <2>1. lastEnd' = lastEnd /\ count' = count + 1
      BY <1>4 DEF RelayBlocked, FanOut
    <2>2. CASE id = EmptyId
      BY <1>0, <1>4, <2>1, <2>2, PurgeShrinkStep DEF RelayBlocked
    <2>3. CASE id # EmptyId
      <3> DEFINE b == [container |-> Stamped(key), target |-> target, n |-> count + 1,
                       put |-> [event |-> count + 1, at |-> now]]
      <3>1. b \in Binding /\ b.put.event = count + 1
        BY StampedIsKey DEF TypeOK, Binding
      <3>2. id \in Requests /\ live' = [live EXCEPT ![id] = b]
        BY <1>4, <2>3 DEF RelayBlocked
      <3> HIDE DEF b
      <3> QED
        BY <2>1, <3>1, <3>2, PurgePutStep
    <2> QED
      BY <2>2, <2>3
  <1>5. ASSUME NEW key \in Keys, NEW type \in LifecycleTypes, RelayLifecycle(type, key)
        PROVE  PurgeParts'
    BY <1>5, PurgeEndStep
  <1>6. CASE Cleanup
    BY <1>0, <1>6, PurgeShrinkStep DEF Cleanup, Without
  <1>7. ASSUME NEW c \in Callers, NEW id \in Requests,
               \/ RefuseUnknown(c, id)
               \/ \E container \in Keys, target \in Targets :
                    VerdictBegin(c, id, container, target)
        PROVE  PurgeParts'
    BY <1>0, <1>7, PurgeShrinkStep DEF RefuseUnknown, VerdictBegin, Pop, TypeOK, fanVars
  <1>8. ASSUME NEW c \in Callers, NEW id \in Requests, NEW container \in Keys,
               NEW target \in Targets, RefuseMismatch(c, id, container, target)
        PROVE  PurgeParts'
    BY <1>0, <1>8, PurgeShrinkStep DEF RefuseMismatch, fanVars
  <1>9. ASSUME NEW c \in Callers, VerdictApplied(c) PROVE PurgeParts'
    BY <1>0, <1>9, PurgeShrinkStep DEF VerdictApplied, Consume, Announce, FanOut
  <1>10. ASSUME NEW c \in Callers, VerdictFailed(c) PROVE PurgeParts'
    <2>1. PICK b \in Binding : live' = [live EXCEPT ![call[c].id] = b] /\ b.put.event = count + 1
      BY <1>10, FailedPutsBack
    <2>2. call[c].id \in Requests
      BY <1>10, FailedPutsBack
    <2>3. lastEnd' = lastEnd /\ count' = count + 1
      BY <1>10 DEF VerdictFailed, Announce, FanOut
    <2> QED
      BY <2>1, <2>2, <2>3, PurgePutStep
  <1> QED
    BY <1>1, <1>2, <1>3, <1>4, <1>5, <1>6, <1>7, <1>8, <1>9, <1>10
    DEF Next, Lifecycle, Relay, Stream, Verdict, VerdictEnd, vars, hubVars,
        StartIngester, BindSucceeds, BindFails, StopServer, StopIngester, Tick,
        Subscribe, Deliver, Disconnect, CloseGenerator, SetMute, fanVars

\* A shield drop or a container exit leaves no binding of the container that was
\* in the map before it, whatever other containers and verdicts do.
THEOREM PurgesAreComplete == Spec => []PurgeIsComplete
  <1>1. Init => PurgeParts
    BY DEF Init, PurgeParts, EndsPast, PurgeIsComplete
  <1>2. PurgeParts => PurgeIsComplete
    BY DEF PurgeParts
  <1> QED
    BY <1>1, <1>2, TypeCorrect, PurgeStep, PTL DEF Spec

-----------------------------------------------------------------------------
(* Expiry *)

\* The clock starts with the bind, and never runs past the next cleanup.
Woken == /\ phase \in {"down", "ingesting"} => now = 0
         /\ cleanupAt # None =>
              /\ TTL \in Nat
              /\ cleanupAt - Interval <= now /\ now <= cleanupAt

\* What was in the map at the last cleanup was no older than the TTL then.
Swept ==
  \A r \in Requests :
    cleanupAt # None /\ live[r] # None /\ live[r].put.at < cleanupAt - Interval
      => (cleanupAt - Interval) - ts[r] <= TTL

ExpiryParts == Woken /\ Swept

\* Dropping bindings between two cleanups cannot make an old one.
LEMMA ExpiryShrinkStep ==
  ASSUME TypeOK, ExpiryParts, phase' \in {"down", "ingesting"} => phase \in {"down", "ingesting"},
         \A r \in Requests : live'[r] # None => live'[r] = live[r] /\ ts'[r] = ts[r],
         now' = now, cleanupAt' \in {cleanupAt, None}
  PROVE  ExpiryParts'
  BY DEF ExpiryParts, Woken, Swept

\* A binding put in the map now was not there at the last cleanup.
LEMMA ExpiryPutStep ==
  ASSUME TypeOK, ExpiryParts, NEW r \in Requests, NEW b \in Binding,
         live' = [live EXCEPT ![r] = b], b.put.at = now,
         \A q \in Requests : q # r => ts'[q] = ts[q],
         phase' = phase, now' = now, cleanupAt' = cleanupAt
  PROVE  ExpiryParts'
  <1> USE HubAssumption DEF HubAssumption
  <1>1. Woken'
    BY DEF ExpiryParts, Woken
  <1>2. ASSUME NEW q \in Requests, cleanupAt # None, live'[q] # None,
               live'[q].put.at < cleanupAt - Interval
        PROVE  (cleanupAt - Interval) - ts'[q] <= TTL
    <2>1. q # r
      BY <1>2 DEF ExpiryParts, Woken, TypeOK
    <2>2. live'[q] = live[q] /\ ts'[q] = ts[q]
      BY <2>1 DEF TypeOK
    <2> QED
      BY <1>2, <2>2 DEF ExpiryParts, Swept
  <1> QED
    BY <1>1, <1>2 DEF ExpiryParts, Swept

\* The cleanup leaves nothing older than the TTL.
LEMMA ExpiryCleanupStep ==
  ASSUME TypeOK, Lockstep, ExpiryParts, Cleanup
  PROVE  ExpiryParts'
  <1> USE HubAssumption DEF HubAssumption
  <1>1. /\ cleanupAt = now /\ cleanupAt # None /\ now \in Nat
        /\ cleanupAt' = now + Interval /\ now' = now /\ phase' = phase
    BY DEF Cleanup, TypeOK
  <1>2. Woken'
    BY <1>1 DEF ExpiryParts, Woken
  <1>3. ASSUME NEW r \in Requests, live'[r] # None
        PROVE  now - ts'[r] <= TTL
    <2>1. r \notin Expired /\ live[r] # None /\ ts'[r] = ts[r]
      BY <1>3 DEF Cleanup, Without
    <2>2. ts[r] \in Nat /\ ts[r] # None
      BY <2>1 DEF Lockstep, TypeOK
    <2>3. TTL \in Nat
      BY <1>1 DEF ExpiryParts, Woken
    <2> QED
      BY <1>1, <2>1, <2>2, <2>3 DEF Expired
  <1>4. cleanupAt' - Interval = now
    BY <1>1
  <1> QED
    BY <1>2, <1>3, <1>4 DEF ExpiryParts, Swept

\* The expiry invariant is inductive.
LEMMA ExpiryStep == TypeOK /\ Lockstep /\ ExpiryParts /\ [Next]_vars => ExpiryParts'
  <1> SUFFICES ASSUME TypeOK, Lockstep, ExpiryParts, [Next]_vars PROVE ExpiryParts'
    OBVIOUS
  <1> USE HubAssumption DEF HubAssumption
  <1>1. CASE UNCHANGED <<phase, live, ts, now, cleanupAt>>
    BY <1>1, ExpiryShrinkStep
  <1>2. CASE StartIngester
    BY <1>2 DEF StartIngester, ExpiryParts, Woken, Swept
  <1>3. CASE BindSucceeds
    <2>1. now = 0 /\ now' = 0 /\ phase' = "up" /\ live' = live
      BY <1>3 DEF BindSucceeds, ExpiryParts, Woken
    <2>2. cleanupAt' # None => TTL \in Nat /\ cleanupAt' = Interval
      BY <1>3, <2>1 DEF BindSucceeds
    <2>3. \A r \in Requests : live[r] # None => live[r].put.at \in Nat
      BY DEF TypeOK, Binding
    <2> QED
      BY <2>1, <2>2, <2>3 DEF ExpiryParts, Woken, Swept
  <1>4. CASE BindFails \/ StopServer \/ StopIngester
    BY <1>4, ExpiryShrinkStep DEF BindFails, StopServer, StopIngester
  <1>5. CASE StopClears
    BY <1>5, ExpiryShrinkStep DEF StopClears, Without
  <1>6. CASE Exit
    BY <1>6 DEF Exit, ExpiryParts, Woken, Swept
  <1>7. ASSUME NEW key \in Keys, NEW id \in Requests \cup {EmptyId}, NEW target \in Targets,
               RelayBlocked(key, id, target)
        PROVE  ExpiryParts'
    <2>1. phase' = phase /\ now' = now /\ cleanupAt' = cleanupAt
      BY <1>7 DEF RelayBlocked, timeVars
    <2>2. CASE id = EmptyId
      BY <1>7, <2>1, <2>2, ExpiryShrinkStep DEF RelayBlocked
    <2>3. CASE id # EmptyId
      <3> DEFINE b == [container |-> Stamped(key), target |-> target, n |-> count + 1,
                       put |-> [event |-> count + 1, at |-> now]]
      <3>1. b \in Binding /\ b.put.at = now
        BY StampedIsKey DEF TypeOK, Binding
      <3>2. id \in Requests /\ live' = [live EXCEPT ![id] = b] /\ ts' = [ts EXCEPT ![id] = now]
        BY <1>7, <2>3 DEF RelayBlocked
      <3> HIDE DEF b
      <3>3. \A q \in Requests : q # id => ts'[q] = ts[q]
        BY <3>2 DEF TypeOK
      <3> QED
        BY <2>1, <3>1, <3>2, <3>3, ExpiryPutStep
    <2> QED
      BY <2>2, <2>3
  <1>8. ASSUME NEW key \in Keys, NEW type \in LifecycleTypes, RelayLifecycle(type, key)
        PROVE  ExpiryParts'
    BY <1>8, ExpiryShrinkStep DEF RelayLifecycle, Without, timeVars
  <1>9. CASE Tick
    <2>1. /\ now' = now + 1 /\ now \in Nat /\ phase \notin {"down", "ingesting"}
          /\ UNCHANGED <<phase, live, ts, cleanupAt>>
          /\ cleanupAt # None => now < cleanupAt /\ cleanupAt \in Nat
      BY <1>9 DEF Tick, TypeOK
    <2> QED
      BY <2>1 DEF ExpiryParts, Woken, Swept
  <1>10. CASE Cleanup
    BY <1>10, ExpiryCleanupStep
  <1>11. ASSUME NEW c \in Callers, NEW id \in Requests,
               \/ RefuseUnknown(c, id)
               \/ \E container \in Keys, target \in Targets :
                    VerdictBegin(c, id, container, target)
        PROVE  ExpiryParts'
    BY <1>11, ExpiryShrinkStep DEF RefuseUnknown, VerdictBegin, Pop, TypeOK, timeVars
  <1>12. ASSUME NEW c \in Callers, NEW id \in Requests, NEW container \in Keys,
               NEW target \in Targets, RefuseMismatch(c, id, container, target)
        PROVE  ExpiryParts'
    BY <1>12, ExpiryShrinkStep DEF RefuseMismatch, Stamp, TypeOK, timeVars
  <1>13. ASSUME NEW c \in Callers, VerdictFailed(c) PROVE ExpiryParts'
    <2>1. PICK b \in Binding : live' = [live EXCEPT ![call[c].id] = b] /\ b.put.at = now
      BY <1>13, FailedPutsBack
    <2>2. call[c].id \in Requests /\ ts' = [ts EXCEPT ![call[c].id] = call[c].ts]
      BY <1>13, FailedPutsBack
    <2>3. phase' = phase /\ now' = now /\ cleanupAt' = cleanupAt
      BY <1>13 DEF VerdictFailed, timeVars
    <2>4. \A q \in Requests : q # call[c].id => ts'[q] = ts[q]
      BY <2>2 DEF TypeOK
    <2> QED
      BY <2>1, <2>2, <2>3, <2>4, ExpiryPutStep
  <1> QED
    BY <1>1, <1>2, <1>3, <1>4, <1>5, <1>6, <1>7, <1>8, <1>9, <1>10, <1>11, <1>12, <1>13
    DEF Next, Lifecycle, Relay, Stream, Verdict, VerdictEnd, vars, hubVars, timeVars,
        Subscribe, Deliver, Disconnect, CloseGenerator, VerdictApplied, Consume, SetMute

\* The timestamp of a binding is the time of the announcement that made it.
LEMMA BornWhenStamped ==
  ASSUME AuthzInv, NEW r \in Requests, live[r] # None
  PROVE  BornAt(live[r].n) = ts[r]
  <1>1. PromptOf(r) \in offered /\ PromptOf(r).n = live[r].n /\ PromptOf(r).at = ts[r]
    BY DEF AuthzInv, AuthzParts, BindingsAreOffers, PromptOf
  <1>2. \A p \in offered : p.n = live[r].n => p = PromptOf(r)
    BY <1>1 DEF AuthzInv, AuthzParts, OffersDistinct
  <1>3. (CHOOSE p \in offered : p.n = live[r].n) = PromptOf(r)
    BY <1>1, <1>2
  <1> QED
    BY <1>1, <1>3 DEF BornAt

\* No binding that has been in the map for a cleanup interval outlives its TTL
\* by more than that interval, counted from its announcement, whatever verdicts
\* were refused or failed on it meanwhile.
THEOREM ExpiryHolds == Spec => []ExpiryBound
  <1>1. Init => ExpiryParts
    BY DEF Init, ExpiryParts, Woken, Swept
  <1>2. AuthzInv /\ ExpiryParts => ExpiryBound
    <2> SUFFICES ASSUME AuthzInv, ExpiryParts, NEW r \in Requests,
                        live[r] # None, cleanupAt # None, now - live[r].put.at > Interval
                 PROVE  now - BornAt(live[r].n) <= TTL + Interval
      BY DEF ExpiryBound
    <2> USE HubAssumption DEF HubAssumption
    <2>1. live[r].put.at \in Nat /\ ts[r] \in Nat /\ now \in Nat /\ cleanupAt \in Nat
      BY DEF AuthzInv, TypeOK, Lockstep, Binding
    <2>2. TTL \in Nat /\ cleanupAt - Interval <= now /\ now <= cleanupAt
      BY DEF ExpiryParts, Woken
    <2>3. live[r].put.at < cleanupAt - Interval
      BY <2>1, <2>2
    <2>4. (cleanupAt - Interval) - ts[r] <= TTL
      BY <2>3 DEF ExpiryParts, Swept
    <2>5. now - ts[r] <= TTL + Interval
      BY <2>1, <2>2, <2>4
    <2> QED
      BY <2>5, BornWhenStamped
  <1>3. AuthzInv => TypeOK /\ Lockstep
    BY DEF AuthzInv
  <1> QED
    BY <1>1, <1>2, <1>3, AuthzInvariant, ExpiryStep, PTL DEF Spec

-----------------------------------------------------------------------------
(* What a subscriber's queue holds: lemmas about queues *)

\* The tail of a queue is the queue without its first event.
LEMMA TailEvents ==
  ASSUME NEW q \in Seq(Event), q # <<>>
  PROVE  /\ Tail(q) \in Seq(Event) /\ Len(Tail(q)) = Len(q) - 1
         /\ \A i \in DOMAIN Tail(q) : i + 1 \in DOMAIN q /\ Tail(q)[i] = q[i + 1]
         /\ 1 \in DOMAIN q /\ Head(q) = q[1] /\ Len(q) \in Nat
  OBVIOUS

\* An index counted from the end of one queue and of another.
LEMMA Shift ==
  ASSUME NEW k \in Int, NEW a \in Int, NEW b \in Int, NEW i \in Int
  PROVE  k - a + (i + a + 1 - b) = (k + 1) - b + i
  OBVIOUS

\* A pushed queue holds the new event last and otherwise only events it held,
\* in their order: all of them, or all but the first of a full queue.
LEMMA PushEvents ==
  ASSUME NEW q \in Seq(Event), NEW e \in Event
  PROVE  /\ Len(q) \in Nat /\ Len(Push(q, e)) \in Nat
         /\ Len(Push(q, e)) = IF Len(q) = QueueDepth THEN QueueDepth ELSE Len(q) + 1
         /\ \A i \in DOMAIN Push(q, e) :
              LET j == i + Len(q) + 1 - Len(Push(q, e)) IN
              \/ i = Len(Push(q, e)) /\ Push(q, e)[i] = e
              \/ i \in 1..(Len(Push(q, e)) - 1) /\ j \in DOMAIN q /\ Push(q, e)[i] = q[j]
  <1> USE HubAssumption DEF HubAssumption
  <1>1. CASE Len(q) = QueueDepth
    <2>1. q # <<>>
      BY <1>1
    <2>2. PICK t \in Seq(Event) : t = Tail(q)
      BY <2>1, TailEvents
    <2>3. Len(t) = QueueDepth - 1 /\ \A i \in DOMAIN t : i + 1 \in DOMAIN q /\ t[i] = q[i + 1]
      BY <1>1, <2>1, <2>2, TailEvents
    <2>4. Push(q, e) = Append(t, e)
      BY <1>1, <2>2 DEF Push
    <2>5. Len(Push(q, e)) = QueueDepth
      BY <2>3, <2>4
    <2>6. \A i \in 1..QueueDepth : Push(q, e)[i] = IF i = QueueDepth THEN e ELSE t[i]
      BY <2>3, <2>4
    <2>7. DOMAIN Push(q, e) = 1..QueueDepth /\ DOMAIN t = 1..(QueueDepth - 1)
      BY <2>3, <2>4
    <2> QED
      BY <1>1, <2>3, <2>5, <2>6, <2>7
  <1>2. CASE Len(q) # QueueDepth
    BY <1>2 DEF Push
  <1> QED
    BY <1>1, <1>2

-----------------------------------------------------------------------------
(* What enters a queue *)

\* An event this step may announce: numbered next, under the hub's own key if
\* it has one, and no prompt of a muted container.
Announceable(e) ==
  /\ e.n = count + 1
  /\ Own # None => e.container = Own
  /\ e.type = "connection_blocked" => e.container \notin muted

\* Queues keep what they have and receive only events this step may announce.
OnlyAnnounced ==
  \A s \in Subscribers : \A i \in DOMAIN queue'[s] :
    \/ count' >= count /\ \E j \in DOMAIN queue[s] : queue'[s][i] = queue[s][j]
    \/ count' = count + 1 /\ Announceable(queue'[s][i])

\* Fanning an announceable event out puts nothing else in a queue.
LEMMA FanOutAnnounces ==
  ASSUME TypeOK,
         NEW type \in LifecycleTypes \cup {"connection_blocked", "verdict_applied"},
         NEW container \in Keys, NEW id \in Requests \cup {EmptyId},
         NEW ok \in BOOLEAN \cup {None},
         FanOut(type, container, id, ok),
         Own # None => container = Own,
         type = "connection_blocked" => container \notin muted
  PROVE  OnlyAnnounced
  <1> DEFINE e == [n |-> count + 1, type |-> type, container |-> container,
                   id |-> id, ok |-> ok]
  <1>1. e \in Event /\ Announceable(e)
    BY DEF Event, TypeOK, Announceable
  <1>2. count' = count + 1 /\ count \in Nat
    BY DEF FanOut, TypeOK
  <1>3. \A s \in Subscribers :
          queue'[s] = IF s \in Attached THEN Push(queue[s], e) ELSE queue[s]
    BY DEF FanOut
  <1> HIDE DEF e
  <1>4. ASSUME NEW s \in Subscribers, NEW i \in DOMAIN queue'[s]
        PROVE  \/ \E j \in DOMAIN queue[s] : queue'[s][i] = queue[s][j]
               \/ queue'[s][i] = e
    <2>1. queue[s] \in Seq(Event)
      BY DEF TypeOK
    <2>2. CASE s \in Attached
      BY <1>1, <1>3, <1>4, <2>1, <2>2, PushEvents
    <2>3. CASE s \notin Attached
      BY <1>3, <1>4, <2>3
    <2> QED
      BY <2>2, <2>3
  <1> QED
    BY <1>1, <1>2, <1>4 DEF OnlyAnnounced

\* An event this hub stamps carries its own key.
LEMMA StampedIsOwn ==
  ASSUME NEW key \in Keys PROVE Own # None => Stamped(key) = Own
  BY DEF Stamped

\* No step puts anything else in a queue.
LEMMA StepAnnounces == AuthzInv /\ [Next]_vars => OnlyAnnounced
  <1> SUFFICES ASSUME AuthzInv, [Next]_vars PROVE OnlyAnnounced
    OBVIOUS
  <1>0. TypeOK /\ count \in Nat /\ VerdictsCiteOffers
    BY DEF AuthzInv, AuthzParts, TypeOK
  <1>1. CASE UNCHANGED <<queue, count>>
    BY <1>0, <1>1 DEF OnlyAnnounced
  <1>2. CASE StopClears \/ Exit
    BY <1>2 DEF StopClears, Exit, OnlyAnnounced
  <1>3. ASSUME NEW key \in Keys, NEW id \in Requests \cup {EmptyId}, NEW target \in Targets,
               RelayBlocked(key, id, target)
        PROVE  OnlyAnnounced
    BY <1>0, <1>3, StampedIsKey, StampedIsOwn, FanOutAnnounces DEF RelayBlocked
  <1>4. ASSUME NEW key \in Keys, NEW type \in LifecycleTypes, RelayLifecycle(type, key)
        PROVE  OnlyAnnounced
    <2>1. type # "connection_blocked"
      BY DEF LifecycleTypes
    <2> QED
      BY <1>0, <1>4, <2>1, StampedIsKey, StampedIsOwn, FanOutAnnounces DEF RelayLifecycle
  <1>5. ASSUME NEW s \in Subscribers, Stream(s) PROVE OnlyAnnounced
    <2>1. ASSUME NEW r \in Subscribers, NEW i \in DOMAIN queue'[r]
          PROVE  \E j \in DOMAIN queue[r] : queue'[r][i] = queue[r][j]
      <3>1. CASE Deliver(s)
        <4>1. queue[s] \in Seq(Event) /\ queue[s] # <<>> /\ queue' = [queue EXCEPT ![s] = Tail(@)]
          BY <1>0, <3>1 DEF Deliver, TypeOK
        <4> QED
          BY <1>0, <2>1, <4>1, TailEvents DEF TypeOK
      <3>2. CASE Subscribe(s) \/ Disconnect(s) \/ CloseGenerator(s)
        BY <1>0, <2>1, <3>2 DEF Subscribe, Disconnect, CloseGenerator, TypeOK
      <3> QED
        BY <1>5, <3>1, <3>2 DEF Stream
    <2>2. count' = count
      BY <1>5 DEF Stream, Subscribe, Deliver, Disconnect, CloseGenerator
    <2> QED
      BY <1>0, <2>1, <2>2 DEF OnlyAnnounced
  <1>6. ASSUME NEW c \in Callers, VerdictEnd(c) PROVE OnlyAnnounced
    <2>1. c \in InFlight /\ call[c] \in Suspended
      BY <1>0, <1>6 DEF VerdictEnd, VerdictApplied, VerdictFailed, InFlight, TypeOK
    <2>2. call[c].container \in Keys /\ call[c].id \in Requests
      BY <2>1 DEF Suspended
    <2>3. Own # None => call[c].container = Own
      BY <1>0, <2>1 DEF VerdictsCiteOffers
    <2>4. \E ok \in BOOLEAN : FanOut("verdict_applied", call[c].container, call[c].id, ok)
      BY <1>6 DEF VerdictEnd, VerdictApplied, VerdictFailed, Announce
    <2> QED
      BY <1>0, <2>2, <2>3, <2>4, FanOutAnnounces
  <1> QED
    BY <1>1, <1>2, <1>3, <1>4, <1>5, <1>6
    DEF Next, Lifecycle, Relay, Verdict, vars, callVars, fanVars,
        StartIngester, BindSucceeds, BindFails, StopServer, StopIngester, Tick, Cleanup,
        RefuseUnknown, RefuseMismatch, VerdictBegin, SetMute

-----------------------------------------------------------------------------
(* One key, and silence while muted *)

\* Nothing in a queue is numbered past the count.
NotAhead == \A s \in Subscribers : \A i \in DOMAIN queue[s] : queue[s][i].n <= count

IdentityInv == AuthzInv /\ NotAhead /\ SingleIdentity

\* A hub for one container mutes no other key.
LEMMA MutesOwn ==
  ASSUME SingleIdentity, [Next]_vars, Own # None PROVE muted' \subseteq {Own}
  <1> USE DEF SingleIdentity
  <1>1. CASE StartIngester
    BY <1>1 DEF StartIngester, SeededMutes, MuteKey
  <1>2. CASE Exit
    BY <1>2 DEF Exit
  <1>3. CASE Relay
    BY <1>3 DEF Relay, RelayBlocked, RelayLifecycle
  <1>4. ASSUME NEW key \in Keys, NEW on \in BOOLEAN, SetMute(key, on)
        PROVE  muted' \subseteq {Own}
    <2>1. MuteKey(key) = Own
      BY <1>4 DEF SetMute, MuteKey
    <2> QED
      BY <1>4, <2>1 DEF SetMute
  <1>5. CASE UNCHANGED muted
    BY <1>5
  <1>6. CASE Lifecycle
    BY <1>1, <1>2, <1>5, <1>6
    DEF Lifecycle, BindSucceeds, BindFails, StopServer, StopIngester, StopClears
  <1>7. ASSUME NEW s \in Subscribers, Stream(s) PROVE muted' \subseteq {Own}
    BY <1>5, <1>7 DEF Stream, Subscribe, Deliver, Disconnect, CloseGenerator, hubVars
  <1>8. ASSUME NEW c \in Callers, Verdict(c) PROVE muted' \subseteq {Own}
    BY <1>5, <1>8 DEF Verdict, VerdictEnd, RefuseUnknown, RefuseMismatch,
                      VerdictBegin, VerdictApplied, VerdictFailed
  <1> QED
    BY <1>3, <1>4, <1>5, <1>6, <1>7, <1>8 DEF Next, vars, hubVars, Tick, Cleanup

\* The invariant is inductive.
LEMMA IdentityStep == IdentityInv /\ AuthzInv' /\ [Next]_vars => IdentityInv'
  <1> SUFFICES ASSUME IdentityInv, AuthzInv', [Next]_vars PROVE IdentityInv'
    OBVIOUS
  <1> USE DEF IdentityInv
  <1>1. OnlyAnnounced
    BY StepAnnounces
  <1>2. NotAhead'
    <2> SUFFICES ASSUME NEW s \in Subscribers, NEW i \in DOMAIN queue'[s]
                 PROVE  queue'[s][i].n <= count'
      BY DEF NotAhead
    <2>1. count \in Nat /\ count' \in Nat /\ queue[s] \in Seq(Event)
      BY DEF AuthzInv, TypeOK
    <2>2. CASE count' >= count /\ \E j \in DOMAIN queue[s] : queue'[s][i] = queue[s][j]
      <3>1. PICK j \in DOMAIN queue[s] : queue'[s][i] = queue[s][j]
        BY <2>2
      <3>2. queue[s][j] \in Event
        BY <2>1, <3>1
      <3>3. queue[s][j].n \in Nat /\ queue[s][j].n <= count
        BY <3>2 DEF Event, NotAhead
      <3> QED
        BY <2>1, <2>2, <3>1, <3>3
    <2>3. CASE count' = count + 1 /\ Announceable(queue'[s][i])
      BY <2>1, <2>3 DEF Announceable
    <2> QED
      BY <1>1, <2>2, <2>3 DEF OnlyAnnounced
  <1>3. SingleIdentity'
    <2> SUFFICES ASSUME Own # None PROVE SingleIdentity'
      BY DEF SingleIdentity
    <2>1. muted' \subseteq {Own}
      BY MutesOwn
    <2>2. \A r \in Requests : live'[r] # None => live'[r].container = Own
      BY DEF AuthzInv, AuthzParts, Confined
    <2>3. \A s \in Subscribers : \A i \in DOMAIN queue'[s] : queue'[s][i].container = Own
      BY <1>1 DEF OnlyAnnounced, SingleIdentity, Announceable
    <2> QED
      BY <2>1, <2>2, <2>3 DEF SingleIdentity
  <1> QED
    BY <1>2, <1>3

LEMMA IdentityInvariant == Spec => []IdentityInv
  <1>1. Init /\ AuthzInv => IdentityInv
    BY DEF Init, IdentityInv, NotAhead, SingleIdentity
  <1> QED
    BY <1>1, AuthzInvariant, IdentityStep, PTL DEF Spec

\* A hub for one container mutes, binds and announces under that one key only,
\* whatever keys producers and callers use.
THEOREM OneIdentityHolds == Spec => []SingleIdentity
  BY IdentityInvariant, PTL DEF IdentityInv

\* No step announces a prompt of a muted container.
THEOREM MutedStaysSilent == Spec => MutedIsSilent
  <1> DEFINE Silent ==
        \A s \in Subscribers : \A i \in DOMAIN queue'[s] :
          queue'[s][i].n > count /\ queue'[s][i].type = "connection_blocked"
            => /\ queue'[s][i].container \notin muted
               /\ Own # None => muted = {}
  <1>1. IdentityInv /\ [Next]_vars => Silent
    <2> SUFFICES ASSUME IdentityInv, [Next]_vars,
                        NEW s \in Subscribers, NEW i \in DOMAIN queue'[s],
                        queue'[s][i].n > count, queue'[s][i].type = "connection_blocked"
                 PROVE  /\ queue'[s][i].container \notin muted
                        /\ Own # None => muted = {}
      OBVIOUS
    <2>1. count \in Nat /\ queue[s] \in Seq(Event)
      BY DEF IdentityInv, AuthzInv, TypeOK
    <2>2. \A j \in DOMAIN queue[s] : queue[s][j].n \in Nat /\ queue[s][j].n <= count
      <3>1. \A j \in DOMAIN queue[s] : queue[s][j] \in Event
        BY <2>1
      <3> QED
        BY <3>1 DEF Event, IdentityInv, NotAhead
    <2>3. \A j \in DOMAIN queue[s] : queue'[s][i] # queue[s][j]
      BY <2>1, <2>2
    <2>4. Announceable(queue'[s][i])
      BY <2>3, StepAnnounces DEF IdentityInv, OnlyAnnounced
    <2>5. queue'[s][i].container \notin muted
      BY <2>4 DEF Announceable
    <2>6. Own # None => Own \notin muted /\ muted \subseteq {Own}
      BY <2>4, <2>5 DEF Announceable, IdentityInv, SingleIdentity
    <2> QED
      BY <2>5, <2>6
  <1>2. Spec => [][Silent]_vars
    BY <1>1, IdentityInvariant, PTL DEF Spec
  <1> QED
    BY <1>2 DEF MutedIsSilent

-----------------------------------------------------------------------------
(* The backlog *)

\* What Backlog says of one queue q of a stream of k events, g of them had.
Newest(q, k, g) ==
  /\ \A i \in DOMAIN q : q[i].n = k - Len(q) + i
  /\ \/ Len(q) = k - g
     \/ Len(q) = QueueDepth /\ k - g > QueueDepth

\* A push leaves the newest events, overflow or not.
LEMMA PushKeepsNewest ==
  ASSUME NEW q \in Seq(Event), NEW k \in Nat, NEW g \in Nat, NEW e \in Event,
         e.n = k + 1, Newest(q, k, g)
  PROVE  Newest(Push(q, e), k + 1, g)
  <1>0. QueueDepth \in Nat \ {0}
    BY HubAssumption DEF HubAssumption
  <1>1. PICK p \in Seq(Event) : p = Push(q, e)
    BY PushType
  <1>2. /\ Len(q) \in Nat /\ Len(p) \in Nat /\ DOMAIN p = 1..Len(p)
        /\ Len(p) = IF Len(q) = QueueDepth THEN QueueDepth ELSE Len(q) + 1
    BY <1>1, PushEvents
  <1>3. ASSUME NEW i \in DOMAIN p
        PROVE  p[i].n = (k + 1) - Len(p) + i
    <2>1. PICK j : j = i + Len(q) + 1 - Len(p)
      OBVIOUS
    <2>2. \/ i = Len(p) /\ p[i] = e
          \/ j \in DOMAIN q /\ p[i] = q[j]
      BY <1>1, <1>3, <2>1, PushEvents
    <2>3. CASE i = Len(p) /\ p[i] = e
      <3>1. p[i].n = k + 1
        BY <2>3
      <3>2. Len(p) \in Nat
        BY <1>2
      <3>3. k + 1 = (k + 1) - Len(p) + Len(p)
        BY <3>2
      <3> QED
        BY <2>3, <3>1, <3>3, Zenon
    <2>4. CASE j \in DOMAIN q /\ p[i] = q[j]
      <3>1. p[i].n = k - Len(q) + j
        BY <2>4 DEF Newest
      <3>2. PICK a \in Int : a = Len(q)
        BY <1>2
      <3>3. PICK b \in Int : b = Len(p)
        BY <1>2
      <3>4. i \in Int /\ j = i + a + 1 - b
        BY <1>2, <1>3, <2>1, <3>2, <3>3
      <3>5. k - a + j = (k + 1) - b + i
        BY <3>4, Shift
      <3> QED
        BY <3>1, <3>2, <3>3, <3>5
    <2> QED
      BY <2>2, <2>3, <2>4
  <1>4. \/ Len(p) = (k + 1) - g
        \/ Len(p) = QueueDepth /\ (k + 1) - g > QueueDepth
    <2>1. \/ Len(q) = k - g
          \/ Len(q) = QueueDepth /\ k - g > QueueDepth
      BY DEF Newest
    <2> QED
      BY <1>2, <2>1
  <1> QED
    BY <1>1, <1>3, <1>4 DEF Newest

\* A delivery leaves the newest events, all but the one delivered.
LEMMA TailKeepsNewest ==
  ASSUME NEW q \in Seq(Event), q # <<>>, NEW k \in Nat, NEW g \in Nat, Newest(q, k, g)
  PROVE  Newest(Tail(q), k, Head(q).n)
  <1>1. PICK t \in Seq(Event) : t = Tail(q)
    BY TailEvents
  <1>2. /\ Len(t) = Len(q) - 1 /\ Len(q) \in Nat
        /\ \A i \in DOMAIN t : i + 1 \in DOMAIN q /\ t[i] = q[i + 1]
        /\ 1 \in DOMAIN q /\ Head(q) = q[1]
    BY <1>1, TailEvents
  <1>3. Head(q).n = k - Len(q) + 1
    BY <1>2 DEF Newest
  <1>4. ASSUME NEW i \in DOMAIN t PROVE t[i].n = k - Len(t) + i
    <2>1. t[i].n = k - Len(q) + (i + 1)
      BY <1>2 DEF Newest
    <2>2. i \in Nat /\ Len(q) \in Nat /\ Len(t) = Len(q) - 1
      BY <1>2
    <2> QED
      BY <2>1, <2>2
  <1> QED
    BY <1>1, <1>2, <1>3, <1>4, SMTT(30) DEF Newest

\* Fanning out keeps every backlog.
LEMMA BacklogFanOut ==
  ASSUME TypeOK, Backlog, subscriber' = subscriber, got' = got,
         NEW type \in LifecycleTypes \cup {"connection_blocked", "verdict_applied"},
         NEW container \in Keys, NEW id \in Requests \cup {EmptyId},
         NEW ok \in BOOLEAN \cup {None},
         FanOut(type, container, id, ok)
  PROVE  Backlog'
  <1> DEFINE e == [n |-> count + 1, type |-> type, container |-> container,
                   id |-> id, ok |-> ok]
  <1>1. e \in Event /\ e.n = count + 1
    BY DEF Event, TypeOK
  <1>2. count' = count + 1 /\ Attached' = Attached
    BY DEF FanOut, Attached
  <1>3. \A s \in Attached : queue'[s] = Push(queue[s], e)
    BY DEF FanOut, Attached
  <1>4. ASSUME NEW s \in Attached PROVE Newest(queue'[s], count', got'[s])
    <2>1. queue[s] \in Seq(Event) /\ count \in Nat /\ got[s] \in Nat
      BY DEF TypeOK, Attached
    <2>2. Newest(queue[s], count, got[s])
      BY DEF Backlog, Newest
    <2> HIDE DEF e
    <2> QED
      BY <1>1, <1>2, <1>3, <2>1, <2>2, PushKeepsNewest
  <1> QED
    BY <1>2, <1>4 DEF Backlog, Newest

\* Every step keeps every backlog.
LEMMA BacklogStep == TypeOK /\ Backlog /\ [Next]_vars => Backlog'
  <1> SUFFICES ASSUME TypeOK, Backlog, [Next]_vars PROVE Backlog'
    OBVIOUS
  <1>1. CASE UNCHANGED <<subscriber, queue, count, got>>
    BY <1>1 DEF Backlog, Attached
  <1>2. CASE StopServer
    BY <1>2 DEF StopServer, Backlog, Attached, TypeOK
  <1>3. CASE StopClears \/ Exit
    BY <1>3 DEF StopClears, Exit, Backlog, Attached
  <1>4. ASSUME NEW key \in Keys, NEW id \in Requests \cup {EmptyId}, NEW target \in Targets,
               RelayBlocked(key, id, target)
        PROVE  Backlog'
    BY <1>4, StampedIsKey, BacklogFanOut DEF RelayBlocked
  <1>5. ASSUME NEW key \in Keys, NEW type \in LifecycleTypes, RelayLifecycle(type, key)
        PROVE  Backlog'
    BY <1>5, StampedIsKey, BacklogFanOut DEF RelayLifecycle
  <1>6. ASSUME NEW s \in Subscribers, Stream(s) PROVE Backlog'
    <2>0. /\ queue[s] \in Seq(Event) /\ count \in Nat /\ got[s] \in Nat /\ count' = count
          /\ \A r \in Subscribers : r # s =>
               subscriber'[r] = subscriber[r] /\ queue'[r] = queue[r] /\ got'[r] = got[r]
      BY <1>6 DEF TypeOK, Stream, Subscribe, Deliver, Disconnect, CloseGenerator
    <2>1. ASSUME s \in Attached' PROVE Newest(queue'[s], count', got'[s])
      <3>1. CASE Subscribe(s)
        <4>1. queue'[s] = <<>> /\ got'[s] = count
          BY <3>1 DEF Subscribe, TypeOK
        <4> QED
          BY <2>0, <4>1 DEF Newest
      <3>2. CASE Deliver(s)
        <4>1. /\ queue[s] # <<>> /\ queue'[s] = Tail(queue[s]) /\ got'[s] = Head(queue[s]).n
              /\ s \in Attached
          BY <3>2 DEF Deliver, TypeOK, Attached
        <4>2. Newest(queue[s], count, got[s])
          BY <4>1 DEF Backlog, Newest
        <4> QED
          BY <2>0, <4>1, <4>2, TailKeepsNewest
      <3>3. CASE Disconnect(s)
        BY <2>0, <3>3 DEF Disconnect, Backlog, Newest, Attached
      <3>4. CASE CloseGenerator(s)
        BY <2>1, <3>4 DEF CloseGenerator, Attached, TypeOK
      <3> QED
        BY <1>6, <3>1, <3>2, <3>3, <3>4 DEF Stream
    <2>2. ASSUME NEW r \in Attached', r # s PROVE Newest(queue'[r], count', got'[r])
      BY <2>0, <2>2 DEF Attached, Backlog, Newest
    <2> QED
      BY <2>1, <2>2 DEF Backlog, Newest
  <1>7. ASSUME NEW c \in Callers, VerdictEnd(c) PROVE Backlog'
    <2>1. call[c] \in Suspended
      BY <1>7 DEF VerdictEnd, VerdictApplied, VerdictFailed, TypeOK
    <2>2. call[c].container \in Keys /\ call[c].id \in Requests
      BY <2>1 DEF Suspended
    <2>3. /\ subscriber' = subscriber /\ got' = got
          /\ \E ok \in BOOLEAN : FanOut("verdict_applied", call[c].container, call[c].id, ok)
      BY <1>7 DEF VerdictEnd, VerdictApplied, VerdictFailed, Announce
    <2> QED
      BY <2>2, <2>3, BacklogFanOut
  <1> QED
    BY <1>1, <1>2, <1>3, <1>4, <1>5, <1>6, <1>7
    DEF Next, Lifecycle, Relay, Verdict, vars, callVars, fanVars,
        StartIngester, BindSucceeds, BindFails, StopIngester, Tick, Cleanup,
        RefuseUnknown, RefuseMismatch, VerdictBegin, SetMute

\* Every attached queue holds the newest events of the stream without a gap, and
\* all its subscriber has not had unless it is full, for every queue depth.
THEOREM BacklogHolds == Spec => []Backlog
  <1>1. Init => Backlog
    BY DEF Init, Backlog, Attached
  <1> QED
    BY <1>1, TypeCorrect, BacklogStep, PTL DEF Spec

=============================================================================
