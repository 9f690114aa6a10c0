----------------------- MODULE ClearanceRoundTripProofs -----------------------
(***************************************************************************)
(* What the hub and the terminal tool keep true together, for every set of *)
(* keys, requests, targets, callers and subscribers.                       *)
(*                                                                         *)
(* The property holds of the behaviours in which the hub drops no event of *)
(* the tool's while the tool is connected (Fits): an outcome that is       *)
(* dropped leaves a prompt nobody can answer.                              *)
(***************************************************************************)
EXTENDS ClearanceRoundTrip, TLAPS

-----------------------------------------------------------------------------
(* The inductive invariant *)

\* The prompts announced under one id are of one container and one target, which
\* is what the reader's ids are assumed to be; their numbers tell them apart.
Offers ==
  /\ offered \subseteq Hub!Prompt
  /\ \A p \in offered : p.n <= count /\ Hub!Stamped(p.container) = p.container
  /\ \A p, q \in offered : p.n = q.n => p = q
  /\ \A p, q \in offered :
       p.id = q.id => p.container = q.container /\ p.target = q.target

\* A prompt was announced under this id, for this container and target.
Offered(id, container, target) ==
  \E p \in offered : p.id = id /\ p.container = container /\ p.target = target

\* The same, at this time.
OfferedAt(id, container, target, at) ==
  \E p \in offered : /\ p.id = id /\ p.container = container
                     /\ p.target = target /\ p.at = at

\* What the map holds, what a suspended verdict holds, what the queue announces
\* and what the tool shows all stem from an announced prompt.
Bound ==
  \A r \in Requests : live[r] # None =>
    OfferedAt(r, live[r].container, live[r].target, ts[r])

Held ==
  \A c \in Callers : call[c] # None =>
    /\ call[c].container = call[c].held.container
    /\ OfferedAt(call[c].id, call[c].held.container, call[c].held.target, call[c].ts)

Queued ==
  \A i \in DOMAIN queue[Screen] : queue[Screen][i].type = "connection_blocked" =>
    \E p \in offered : /\ p.n = queue[Screen][i].n /\ p.id = queue[Screen][i].id
                       /\ p.container = queue[Screen][i].container

Listed ==
  \A r \in Requests : pending[r] # None =>
    Offered(r, pending[r].container, pending[r].target)

Types ==
  /\ subscriber \in [Subscribers -> {"absent", "open", "gone"}]
  /\ queue \in [Subscribers -> Seq(Hub!Event)]
  /\ live \in [Requests -> Hub!Binding \cup {None}]
  /\ ts \in [Requests -> Nat \cup {None}]
  /\ call \in [Callers -> Hub!Suspended \cup {None}]
  /\ now \in Nat /\ count \in Nat
  /\ cleanupAt \in Nat \cup {None} /\ (cleanupAt # None => TTL # None)
  /\ pending \in [Requests -> Shown \cup {None}] /\ nextId \in Nat
  /\ sending \subseteq Term!Verdict
  /\ callbacks \in [Term!Nids -> Term!Verdict \cup {None}]

\* A verdict on r is under way.
Busy(r) == \E c \in Callers : call[c] # None /\ call[c].id = r

\* The tool has still to handle an event that ends its prompt for r.
Ending(e, r, container) ==
  \/ e.type = "verdict_applied" /\ e.id = r
  \/ e.type \in Purging /\ e.container = container

EndedAfter(i, r, container) ==
  \E j \in DOMAIN queue[Screen] : j > i /\ Ending(queue[Screen][j], r, container)

\* The hub would still take a verdict on r, or has not settled one, or nobody is
\* told that it would not.
Answered(r) == live[r] # None \/ Lapsed(r) \/ Busy(r)

\* While the tool is connected, what it shows or is about to show can be
\* answered, or an event to come ends it, or a purge under way does.
Alive ==
  subscriber[Screen] = "open" =>
    /\ \A r \in Requests : pending[r] # None /\ r \notin stale =>
         \/ Answered(r) \/ pending[r].container \in purges
         \/ EndedAfter(0, r, pending[r].container)
    /\ \A i \in DOMAIN queue[Screen] : queue[Screen][i].type = "connection_blocked" =>
         LET e == queue[Screen][i] IN Answered(e.id) \/ EndedAfter(i, e.id, e.container)

\* What a disconnected tool shows, it has shown since before the break.
Kept ==
  subscriber[Screen] # "open" => \A r \in Requests : pending[r] # None => r \in stale

RoundInv == Types /\ Offers /\ Bound /\ Held /\ Queued /\ Listed /\ Alive /\ Kept

\* The premise: while the tool is connected no event is fanned out over a full
\* queue of its own.
Fits ==
  subscriber[Screen] = "open" /\ count' # count => Len(queue[Screen]) < QueueDepth

-----------------------------------------------------------------------------
(* Fanning out *)

\* What is fanned out comes last in a connected tool's queue; a queue holds
\* nothing but what it held and that.
LEMMA FanOutQueue ==
  ASSUME Types, Fits, NEW e \in Hub!Event, e.n = count + 1,
         Hub!FanOut(e.type, e.container, e.id, e.ok)
  PROVE  /\ count' = count + 1 /\ count' \in Nat
         /\ queue' \in [Subscribers -> Seq(Hub!Event)]
         /\ subscriber[Screen] = "open" => queue'[Screen] = Append(queue[Screen], e)
         /\ \A i \in DOMAIN queue'[Screen] :
              queue'[Screen][i] = e \/ \E j \in DOMAIN queue[Screen] :
                                         queue'[Screen][i] = queue[Screen][j]
  <1>1. count' = count + 1 /\ count' \in Nat
    BY DEF Hub!FanOut, Types
  <1>2. e = [n |-> count + 1, type |-> e.type, container |-> e.container,
             id |-> e.id, ok |-> e.ok]
    BY DEF Hub!Event
  <1>3. queue' = [s \in Subscribers |-> IF s \in Hub!Attached
                                        THEN Hub!Push(queue[s], e) ELSE queue[s]]
    BY <1>2 DEF Hub!FanOut
  <1>4. ASSUME NEW q \in Seq(Hub!Event)
        PROVE  /\ Hub!Push(q, e) \in Seq(Hub!Event)
               /\ Len(q) < QueueDepth => Hub!Push(q, e) = Append(q, e)
               /\ \A i \in DOMAIN Hub!Push(q, e) :
                    Hub!Push(q, e)[i] = e \/ \E j \in DOMAIN q : Hub!Push(q, e)[i] = q[j]
    <2>1. CASE Len(q) = QueueDepth
      <3>1. PICK m \in Nat : m = Len(q) /\ m > 0
        BY <2>1, RoundTripAssumption DEF RoundTripAssumption
      <3>2. /\ Tail(q) \in Seq(Hub!Event) /\ Len(Tail(q)) = m - 1
            /\ \A i \in 1..(m - 1) : Tail(q)[i] = q[i + 1]
        BY <3>1
      <3>3. Hub!Push(q, e) = Append(Tail(q), e)
        BY <2>1 DEF Hub!Push
      <3> QED
        BY <2>1, <3>1, <3>2, <3>3
    <2>2. CASE Len(q) # QueueDepth
      BY <2>2 DEF Hub!Push
    <2> QED
      BY <2>1, <2>2
  <1>5. queue[Screen] \in Seq(Hub!Event) /\ Screen \in Subscribers
    BY RoundTripAssumption DEF RoundTripAssumption, Types
  <1>6. queue' \in [Subscribers -> Seq(Hub!Event)]
    BY <1>3, <1>4 DEF Types
  <1>7. subscriber[Screen] = "open" => queue'[Screen] = Append(queue[Screen], e)
    BY <1>1, <1>3, <1>4, <1>5 DEF Fits, Hub!Attached, Types
  <1>8. \A i \in DOMAIN queue'[Screen] :
          queue'[Screen][i] = e \/ \E j \in DOMAIN queue[Screen] :
                                     queue'[Screen][i] = queue[Screen][j]
    BY <1>3, <1>4, <1>5
  <1> QED
    BY <1>1, <1>6, <1>7, <1>8

\* An event to come that ends a prompt still comes when another is queued behind it.
LEMMA AppendEnds ==
  ASSUME Types, NEW e, queue'[Screen] = Append(queue[Screen], e),
         NEW i \in 0..Len(queue[Screen]), NEW r, NEW k,
         EndedAfter(i, r, k) \/ Ending(e, r, k)
  PROVE  EndedAfter(i, r, k)'
  <1> DEFINE q == queue[Screen]
  <1>1. PICK m \in Nat : m = Len(q) /\ DOMAIN q = 1..m
    BY RoundTripAssumption DEF RoundTripAssumption, Types
  <1>2. /\ DOMAIN Append(q, e) = 1..(m + 1) /\ Append(q, e)[m + 1] = e
        /\ \A j \in 1..m : Append(q, e)[j] = q[j]
    BY <1>1, RoundTripAssumption DEF RoundTripAssumption, Types
  <1> QED
    BY <1>1, <1>2 DEF EndedAfter

\* Time and further prompts do not make a lapsed request current.
LEMMA LapsedStays ==
  ASSUME Types, Offers, NEW r, Lapsed(r), offered \subseteq offered', now' \in Nat, now' >= now
  PROVE  Lapsed(r)'
  <1>1. PICK p \in offered : p.id = r /\ now - p.at > TTL
    BY DEF Lapsed
  <1>2. p.at \in Nat /\ TTL \in Nat
    BY RoundTripAssumption DEF RoundTripAssumption, Lapsed, Offers, Hub!Prompt
  <1>3. now' - p.at > TTL
    BY <1>1, <1>2 DEF Types
  <1> QED
    BY <1>1, <1>3 DEF Lapsed

\* A step that sends nothing and settles nothing keeps every prompt answerable.
LEMMA QuietAlive ==
  ASSUME RoundInv, UNCHANGED <<subscriber, queue, pending, purges, stale>>,
         \A r \in Requests : Answered(r) => Answered(r)'
  PROVE  Alive' /\ Kept'
  <1>1. Kept'
    BY DEF RoundInv, Kept
  <1>2. \A i \in DOMAIN queue[Screen] :
          queue[Screen][i].type = "connection_blocked" => queue[Screen][i].id \in Requests
    BY DEF RoundInv, Queued, Offers, Hub!Prompt
  <1>3. \A i, r, k : EndedAfter(i, r, k)' <=> EndedAfter(i, r, k)
    BY DEF EndedAfter
  <1>4. Alive'
    BY <1>2, <1>3 DEF RoundInv, Alive
  <1> QED
    BY <1>1, <1>4

\* So does one that sends an event, when each request it settles is one the event
\* ends, and one the event announces can be answered.
LEMMA FannedAlive ==
  ASSUME RoundInv, Fits, NEW e \in Hub!Event, e.n = count + 1,
         Hub!FanOut(e.type, e.container, e.id, e.ok),
         UNCHANGED <<subscriber, pending, purges, stale>>,
         e.type = "connection_blocked" => Answered(e.id)',
         \A p \in offered : Answered(p.id) => \/ Answered(p.id)'
                                              \/ Ending(e, p.id, p.container)
  PROVE  Alive' /\ Kept'
  <1>1. Kept'
    BY DEF RoundInv, Kept
  <1>2. SUFFICES ASSUME subscriber[Screen] = "open" PROVE Alive'
    BY <1>1 DEF Alive
  <1> DEFINE q == queue[Screen]
  <1>3. queue'[Screen] = Append(q, e)
    BY <1>2, FanOutQueue DEF RoundInv
  <1>4. PICK m \in Nat : m = Len(q) /\ DOMAIN q = 1..m
    BY RoundTripAssumption DEF RoundTripAssumption, RoundInv, Types
  <1>5. /\ DOMAIN Append(q, e) = 1..(m + 1) /\ Append(q, e)[m + 1] = e
        /\ \A j \in 1..m : Append(q, e)[j] = q[j]
    BY <1>4, RoundTripAssumption DEF RoundTripAssumption, RoundInv, Types
  <1>6. ASSUME NEW i \in 0..m, NEW p \in offered,
               Answered(p.id) \/ EndedAfter(i, p.id, p.container)
        PROVE  Answered(p.id)' \/ EndedAfter(i, p.id, p.container)'
    BY <1>3, <1>4, <1>6, AppendEnds DEF RoundInv
  <1>7. ASSUME NEW r \in Requests, pending[r] # None, r \notin stale
        PROVE  \/ Answered(r)' \/ pending[r].container \in purges
               \/ EndedAfter(0, r, pending[r].container)'
    <2>1. PICK p \in offered : p.id = r /\ p.container = pending[r].container
      BY <1>7 DEF RoundInv, Listed, Offered
    <2> QED
      BY <1>2, <1>6, <1>7, <2>1 DEF RoundInv, Alive
  <1>8. ASSUME NEW i \in 1..m, q[i].type = "connection_blocked", NEW r, NEW k,
               r = q[i].id, k = q[i].container
        PROVE  Answered(r)' \/ EndedAfter(i, r, k)'
    <2>1. PICK p \in offered : p.id = r /\ p.container = k
      BY <1>4, <1>8 DEF RoundInv, Queued
    <2>2. Answered(r) \/ EndedAfter(i, r, k)
      BY <1>2, <1>4, <1>8 DEF RoundInv, Alive
    <2> QED
      BY <1>6, <2>1, <2>2
  <1>9. ASSUME NEW i \in DOMAIN queue'[Screen], queue'[Screen][i].type = "connection_blocked",
               NEW r, NEW k, r = queue'[Screen][i].id, k = queue'[Screen][i].container
        PROVE  Answered(r)' \/ EndedAfter(i, r, k)'
    <2>1. CASE i = m + 1
      BY <1>3, <1>5, <1>9, <2>1
    <2>2. CASE i # m + 1
      BY <1>3, <1>5, <1>8, <1>9, <2>2
    <2> QED
      BY <2>1, <2>2
  <1> QED
    BY <1>7, <1>9 DEF Alive

-----------------------------------------------------------------------------
(* The hub's steps *)

\* A prompt that was announced stays announced.
LEMMA OfferedStays ==
  ASSUME offered \subseteq offered', NEW id, NEW k, NEW t
  PROVE  /\ Offered(id, k, t) => Offered(id, k, t)'
         /\ \A at : OfferedAt(id, k, t, at) => OfferedAt(id, k, t, at)'
  BY DEF Offered, OfferedAt

\* Stamping is done once: a stamped key is stamped to itself.
LEMMA StampedTwice ==
  ASSUME NEW key \in Keys
  PROVE  Hub!Stamped(key) \in Keys /\ Hub!Stamped(Hub!Stamped(key)) = Hub!Stamped(key)
  BY RoundTripAssumption DEF RoundTripAssumption, Hub!Stamped

\* What a fanned out event leaves of the parts about the queue and the offers,
\* when the prompt it announces, if any, is offered with it.
LEMMA FannedRest ==
  ASSUME RoundInv, Fits, NEW e \in Hub!Event, e.n = count + 1,
         Hub!FanOut(e.type, e.container, e.id, e.ok),
         offered \subseteq offered', UNCHANGED <<pending>>,
         e.type = "connection_blocked" =>
           \E p \in offered' : p.n = e.n /\ p.id = e.id /\ p.container = e.container
  PROVE  Queued' /\ Listed'
  <1>1. Queued'
    <2> SUFFICES ASSUME NEW i \in DOMAIN queue'[Screen],
                        queue'[Screen][i].type = "connection_blocked"
                 PROVE  \E p \in offered' : /\ p.n = queue'[Screen][i].n
                                            /\ p.id = queue'[Screen][i].id
                                            /\ p.container = queue'[Screen][i].container
      BY DEF Queued
    <2> QED
      BY FanOutQueue DEF RoundInv, Queued
  <1>2. Listed'
    BY OfferedStays DEF RoundInv, Listed
  <1> QED
    BY <1>1, <1>2

\* A prompt of the reader's is bound and announced in one step.
LEMMA RelayBlockedStep ==
  ASSUME RoundInv, Fits, UNCHANGED <<termVars, stale>>,
         NEW key \in Keys, NEW id \in Requests, NEW target \in Targets,
         \A p \in offered : p.id = id => p.container = key /\ p.target = target,
         Hub!RelayBlocked(key, id, target)
  PROVE  RoundInv'
  <1> DEFINE k == Hub!Stamped(key)
  <1>1. k \in Keys /\ Hub!Stamped(k) = k
    BY StampedTwice
  <1> DEFINE event == [n |-> count + 1, type |-> "connection_blocked", container |-> k,
                       id |-> id, ok |-> None]
             prompt == [n |-> count + 1, id |-> id, container |-> k,
                        target |-> target, at |-> now]
             binding == [container |-> k, target |-> target, n |-> count + 1,
                         put |-> [event |-> count + 1, at |-> now]]
  <1>typed. event \in Hub!Event /\ prompt \in Hub!Prompt /\ binding \in Hub!Binding
    BY <1>1 DEF Hub!Event, Hub!Prompt, Hub!Binding, RoundInv, Types
  <1>2. PICK e \in Hub!Event, p \in Hub!Prompt, b \in Hub!Binding :
          e = event /\ p = prompt /\ b = binding
    BY <1>typed, Zenon
  <1>3. /\ id # EmptyId /\ e.ok = None
        /\ e.type = "connection_blocked" /\ e.container = k /\ e.id = id
    BY <1>2, RoundTripAssumption DEF RoundTripAssumption
  <1>4. /\ live' = [live EXCEPT ![id] = b] /\ ts' = [ts EXCEPT ![id] = now]
        /\ offered' = offered \cup {p} /\ Hub!FanOut(e.type, e.container, e.id, e.ok)
        /\ UNCHANGED <<subscriber, call, now, cleanupAt>>
    BY <1>2, <1>3 DEF Hub!RelayBlocked, Hub!callVars, Hub!timeVars
  <1>5. UNCHANGED <<pending, purges, sending, nextId, callbacks, stale>>
    BY DEF termVars
  <1>6. /\ e.n = count + 1 /\ e.id = id /\ e.container = k /\ e.type = "connection_blocked"
        /\ p.n = count + 1 /\ p.id = id /\ p.container = k /\ p.target = target /\ p.at = now
        /\ b.container = k /\ b.target = target
    BY <1>2
  <1>7. /\ count' = count + 1 /\ count' \in Nat
        /\ queue' \in [Subscribers -> Seq(Hub!Event)]
    BY <1>2, <1>4, <1>6, FanOutQueue DEF RoundInv
  <1>8. Types'
    BY <1>2, <1>4, <1>5, <1>7 DEF RoundInv, Types
  <1>9. Offers'
    <2>1. \A q \in offered : q.id = id => q.container = k /\ q.target = target
      <3> SUFFICES ASSUME NEW q \in offered, q.id = id
                   PROVE  q.container = k /\ q.target = target
        OBVIOUS
      <3>1. q.container = key /\ q.target = target /\ Hub!Stamped(q.container) = q.container
        BY DEF RoundInv, Offers
      <3> QED
        BY <3>1
    <2>2. \A q \in offered : q.n \in Nat /\ q.n <= count /\ q.n < count + 1 /\ q.n <= count + 1
      BY DEF RoundInv, Offers, Hub!Prompt, Types
    <2> HIDE DEF k
    <2> QED
      BY <1>1, <1>2, <1>4, <1>6, <1>7, <2>1, <2>2 DEF RoundInv, Offers
  <1>10. Bound'
    <2> SUFFICES ASSUME NEW r \in Requests, live'[r] # None
                 PROVE  \E q \in offered' :
                          /\ q.id = r /\ q.container = live'[r].container
                          /\ q.target = live'[r].target /\ q.at = ts'[r]
      BY DEF Bound, OfferedAt
    <2>1. CASE r = id
      BY <1>4, <1>6, <2>1 DEF RoundInv, Types
    <2>2. CASE r # id
      BY <1>4, <2>2 DEF OfferedAt, RoundInv, Types, Bound
    <2> QED
      BY <2>1, <2>2
  <1>11. Held'
    BY <1>4, OfferedStays DEF RoundInv, Held
  <1>12. Queued' /\ Listed'
    BY <1>2, <1>4, <1>5, <1>6, FannedRest
  <1>13. \A r \in Requests : Answered(r) => Answered(r)'
    <2> SUFFICES ASSUME NEW r \in Requests, Answered(r) PROVE Answered(r)'
      OBVIOUS
    <2>1. CASE live[r] # None
      BY <1>2, <1>4, <2>1, RoundTripAssumption DEF RoundTripAssumption, Answered, RoundInv, Types
    <2>2. CASE Lapsed(r)
      BY <1>4, <2>2, LapsedStays DEF Answered, RoundInv, Types
    <2>3. CASE Busy(r)
      BY <1>4, <2>3 DEF Answered, Busy
    <2> QED
      BY <2>1, <2>2, <2>3 DEF Answered
  <1>14. Answered(e.id)'
    BY <1>2, <1>4, <1>6, RoundTripAssumption DEF RoundTripAssumption, Answered, RoundInv, Types
  <1>15. Alive' /\ Kept'
    <2>1. \A q \in offered : q.id \in Requests
      BY DEF RoundInv, Offers, Hub!Prompt
    <2> QED
      BY <1>2, <1>4, <1>5, <1>6, <1>13, <1>14, <2>1, FannedAlive
  <1> QED
    BY <1>8, <1>9, <1>10, <1>11, <1>12, <1>15 DEF RoundInv

\* Dropping bindings leaves the others as they were announced.
LEMMA ShrinkBound ==
  ASSUME Bound, UNCHANGED offered,
         \A r \in Requests : live'[r] = None \/ (live'[r] = live[r] /\ ts'[r] = ts[r])
  PROVE  Bound'
  <1> SUFFICES ASSUME NEW r \in Requests, live'[r] # None
               PROVE  \E q \in offered' :
                        /\ q.id = r /\ q.container = live'[r].container
                        /\ q.target = live'[r].target /\ q.at = ts'[r]
    BY DEF Bound, OfferedAt
  <1> QED
    BY DEF Bound, OfferedAt

\* A lifecycle event that retires bindings tells the tool to purge their prompts.
LEMMA RelayLifecycleStep ==
  ASSUME RoundInv, Fits, UNCHANGED <<termVars, stale>>,
         NEW key \in Keys, NEW type \in Changes, Hub!RelayLifecycle(type, key)
  PROVE  RoundInv'
  <1> DEFINE k == Hub!Stamped(key)
             event == [n |-> count + 1, type |-> type, container |-> k,
                       id |-> EmptyId, ok |-> None]
  <1>1. k \in Keys
    BY StampedTwice
  <1>2. type \in Hub!LifecycleTypes /\ event \in Hub!Event
    BY <1>1, RoundTripAssumption DEF RoundTripAssumption, Hub!Event, RoundInv, Types
  <1>3. PICK e \in Hub!Event : e = event
    BY <1>2
  <1>4. /\ e.n = count + 1 /\ e.type = type /\ e.container = k
        /\ e.id = EmptyId /\ e.ok = None /\ e.type # "connection_blocked"
    BY <1>2, <1>3 DEF Hub!LifecycleTypes
  <1>5. /\ \/ type \in Purging /\ live' = Hub!Without(live, Hub!RetiredBy(k))
                              /\ ts' = Hub!Without(ts, Hub!RetiredBy(k))
           \/ live' = live /\ ts' = ts
        /\ Hub!FanOut(e.type, e.container, e.id, e.ok)
        /\ UNCHANGED <<subscriber, call, now, cleanupAt, offered>>
    BY <1>4 DEF Hub!RelayLifecycle, Hub!callVars, Hub!timeVars, Hub!Retiring, Purging
  <1>6. UNCHANGED <<pending, purges, sending, nextId, callbacks, stale>>
    BY DEF termVars
  <1>7. /\ count' = count + 1 /\ count' \in Nat
        /\ queue' \in [Subscribers -> Seq(Hub!Event)]
    BY <1>4, <1>5, FanOutQueue DEF RoundInv
  <1>8. /\ live' \in [Requests -> Hub!Binding \cup {None}]
        /\ ts' \in [Requests -> Nat \cup {None}]
        /\ \A r \in Requests :
             live'[r] = None \/ (live'[r] = live[r] /\ ts'[r] = ts[r])
        /\ \A r \in Requests : live[r] # None /\ live'[r] = None =>
             type \in Purging /\ live[r].container = k
    <2>1. CASE live' = live /\ ts' = ts
      BY <2>1 DEF RoundInv, Types
    <2>2. CASE /\ type \in Purging /\ live' = Hub!Without(live, Hub!RetiredBy(k))
               /\ ts' = Hub!Without(ts, Hub!RetiredBy(k))
      <3>1. \A r \in Requests : r \in Hub!RetiredBy(k) => live[r].container = k
        BY DEF Hub!RetiredBy
      <3>2. live \in [Requests -> Hub!Binding \cup {None}] /\ ts \in [Requests -> Nat \cup {None}]
        BY DEF RoundInv, Types
      <3>3. /\ live' \in [Requests -> Hub!Binding \cup {None}]
            /\ \A r \in Requests : live'[r] = IF r \in Hub!RetiredBy(k) THEN None ELSE live[r]
        BY <2>2, <3>2 DEF Hub!Without
      <3>4. /\ ts' \in [Requests -> Nat \cup {None}]
            /\ \A r \in Requests : ts'[r] = IF r \in Hub!RetiredBy(k) THEN None ELSE ts[r]
        BY <2>2, <3>2 DEF Hub!Without
      <3> QED
        BY <2>2, <3>1, <3>3, <3>4
    <2> QED
      BY <1>5, <2>1, <2>2
  <1>9. Types'
    BY <1>5, <1>6, <1>7, <1>8 DEF RoundInv, Types
  <1>10. Offers'
    <2>1. \A q \in offered : q.n \in Nat /\ q.n <= count + 1
      BY DEF RoundInv, Offers, Hub!Prompt, Types
    <2> QED
      BY <1>5, <1>7, <2>1 DEF RoundInv, Offers
  <1>11. Bound' /\ Held'
    <2>1. Bound'
      BY <1>5, <1>8, ShrinkBound DEF RoundInv
    <2>2. Held'
      BY <1>5, OfferedStays DEF RoundInv, Held
    <2> QED
      BY <2>1, <2>2
  <1>12. Queued' /\ Listed'
    BY <1>4, <1>5, <1>6, FannedRest
  <1>13. \A p \in offered : Answered(p.id) => \/ Answered(p.id)'
                                              \/ Ending(e, p.id, p.container)
    <2> SUFFICES ASSUME NEW p \in offered, Answered(p.id)
                 PROVE  Answered(p.id)' \/ Ending(e, p.id, p.container)
      OBVIOUS
    <2>1. p.id \in Requests
      BY DEF RoundInv, Offers, Hub!Prompt
    <2>2. CASE live[p.id] # None
      <3>1. live[p.id].container = p.container
        BY <2>1, <2>2 DEF RoundInv, Bound, OfferedAt, Offers
      <3> QED
        BY <1>4, <1>8, <2>1, <2>2, <3>1 DEF Answered, Ending
    <2>3. CASE Lapsed(p.id)
      BY <1>5, <2>3, LapsedStays DEF Answered, RoundInv, Types
    <2>4. CASE Busy(p.id)
      BY <1>5, <2>4 DEF Answered, Busy
    <2> QED
      BY <2>2, <2>3, <2>4 DEF Answered
  <1>14. Alive' /\ Kept'
    BY <1>4, <1>5, <1>6, <1>13, FannedAlive
  <1> QED
    BY <1>9, <1>10, <1>11, <1>12, <1>14 DEF RoundInv

\* Both ends of a verdict announce its outcome; a failed one is put back.
LEMMA VerdictEndStep ==
  ASSUME RoundInv, Fits, UNCHANGED <<termVars, stale>>,
         NEW c \in Callers, Hub!VerdictEnd(c)
  PROVE  RoundInv'
  <1>1. call[c] # None /\ call[c] \in Hub!Suspended
    BY DEF Hub!VerdictEnd, Hub!VerdictApplied, Hub!VerdictFailed, RoundInv, Types
  <1>2. PICK id \in Requests, k \in Keys, b \in Hub!Binding, at \in Nat :
          id = call[c].id /\ k = call[c].container /\ b = call[c].held /\ at = call[c].ts
    BY <1>1 DEF Hub!Suspended
  <1>3. PICK ok \in BOOLEAN :
          /\ Hub!FanOut("verdict_applied", k, id, ok)
          /\ \/ live' = live /\ ts' = ts
             \/ /\ live' = [live EXCEPT ![id] =
                              [b EXCEPT !.put = [event |-> count + 1, at |-> now]]]
                /\ ts' = [ts EXCEPT ![id] = at]
          /\ call' = [call EXCEPT ![c] = None]
          /\ UNCHANGED <<subscriber, now, cleanupAt, offered>>
    BY <1>2 DEF Hub!VerdictEnd, Hub!VerdictApplied, Hub!VerdictFailed, Hub!Consume,
                Hub!PutBack, Hub!Announce, Hub!timeVars
  <1> DEFINE event == [n |-> count + 1, type |-> "verdict_applied", container |-> k,
                       id |-> id, ok |-> ok]
  <1>4. event \in Hub!Event
    BY DEF Hub!Event, RoundInv, Types
  <1>5. PICK e \in Hub!Event : e = event
    BY <1>4
  <1>6. /\ e.n = count + 1 /\ e.type = "verdict_applied" /\ e.container = k
        /\ e.id = id /\ e.ok = ok
    BY <1>5
  <1>7. Hub!FanOut(e.type, e.container, e.id, e.ok)
    BY <1>3, <1>6
  <1>8. PICK new \in Hub!Binding :
          /\ new = [b EXCEPT !.put = [event |-> count + 1, at |-> now]]
          /\ new.container = b.container /\ new.target = b.target
    <2> DEFINE put == [b EXCEPT !.put = [event |-> count + 1, at |-> now]]
    <2>1. count + 1 \in Nat /\ now \in Nat
      BY DEF RoundInv, Types
    <2>2. /\ put \in Hub!Binding /\ put.container = b.container /\ put.target = b.target
      BY <2>1 DEF Hub!Binding
    <2> QED
      BY <2>2, Zenon
  <1>9. UNCHANGED <<pending, purges, sending, nextId, callbacks, stale>>
    BY DEF termVars
  <1>10. /\ count' = count + 1 /\ count' \in Nat
         /\ queue' \in [Subscribers -> Seq(Hub!Event)]
    BY <1>6, <1>7, FanOutQueue DEF RoundInv
  <1>11. Types'
    <2>1. live' \in [Requests -> Hub!Binding \cup {None}] /\ ts' \in [Requests -> Nat \cup {None}]
      BY <1>3, <1>8 DEF RoundInv, Types
    <2>2. call' \in [Callers -> Hub!Suspended \cup {None}]
      BY <1>3 DEF RoundInv, Types
    <2> QED
      BY <1>3, <1>9, <1>10, <2>1, <2>2 DEF RoundInv, Types
  <1>12. Offers'
    <2>1. \A q \in offered : q.n \in Nat /\ q.n <= count + 1
      BY DEF RoundInv, Offers, Hub!Prompt, Types
    <2> QED
      BY <1>3, <1>10, <2>1 DEF RoundInv, Offers
  <1>13. Bound'
    <2> SUFFICES ASSUME NEW r \in Requests, live'[r] # None
                 PROVE  \E q \in offered' :
                          /\ q.id = r /\ q.container = live'[r].container
                          /\ q.target = live'[r].target /\ q.at = ts'[r]
      BY DEF Bound, OfferedAt
    <2>1. CASE live'[r] = live[r] /\ ts'[r] = ts[r]
      BY <1>3, <2>1 DEF RoundInv, Bound, OfferedAt
    <2>2. CASE r = id /\ live'[r] = new /\ ts'[r] = at
      BY <1>1, <1>2, <1>3, <1>8, <2>2 DEF RoundInv, Held, OfferedAt
    <2> QED
      BY <1>3, <1>8, <2>1, <2>2 DEF RoundInv, Types
  <1>14. Held'
    <2> SUFFICES ASSUME NEW d \in Callers, call'[d] # None
                 PROVE  /\ call'[d].container = call'[d].held.container
                        /\ \E q \in offered' :
                             /\ q.id = call'[d].id /\ q.container = call'[d].held.container
                             /\ q.target = call'[d].held.target /\ q.at = call'[d].ts
      BY DEF Held, OfferedAt
    <2>1. call'[d] = call[d]
      BY <1>3 DEF RoundInv, Types
    <2> QED
      BY <1>3, <2>1 DEF RoundInv, Held, OfferedAt
  <1>15. Queued' /\ Listed'
    BY <1>3, <1>6, <1>7, <1>9, FannedRest
  <1>16. \A p \in offered : Answered(p.id) => \/ Answered(p.id)'
                                              \/ Ending(e, p.id, p.container)
    <2> SUFFICES ASSUME NEW p \in offered, Answered(p.id), p.id # id
                 PROVE  Answered(p.id)'
      BY <1>6 DEF Ending
    <2>1. p.id \in Requests
      BY DEF RoundInv, Offers, Hub!Prompt
    <2>2. CASE live[p.id] # None
      BY <1>3, <2>1, <2>2 DEF Answered, RoundInv, Types
    <2>3. CASE Lapsed(p.id)
      BY <1>3, <2>3, LapsedStays DEF Answered, RoundInv, Types
    <2>4. CASE Busy(p.id)
      <3>1. PICK d \in Callers : call[d] # None /\ call[d].id = p.id
        BY <2>4 DEF Busy
      <3>2. call'[d] = call[d]
        BY <1>2, <1>3, <3>1 DEF RoundInv, Types
      <3> QED
        BY <3>1, <3>2 DEF Answered, Busy
    <2> QED
      BY <2>2, <2>3, <2>4 DEF Answered
  <1>17. Alive' /\ Kept'
    BY <1>3, <1>6, <1>7, <1>9, <1>16, FannedAlive
  <1> QED
    BY <1>11, <1>12, <1>13, <1>14, <1>15, <1>17 DEF RoundInv

\* What does not touch the offers, the calls, the queue and the tool keeps the
\* parts about them.
LEMMA SameParts ==
  ASSUME RoundInv, UNCHANGED <<queue, count, offered, call, pending>>
  PROVE  Offers' /\ Held' /\ Queued' /\ Listed'
  <1>1. Offers'
    BY DEF RoundInv, Offers
  <1>2. Held'
    BY DEF RoundInv, Held, OfferedAt
  <1>3. Queued'
    BY DEF RoundInv, Queued
  <1>4. Listed'
    BY DEF RoundInv, Listed, Offered
  <1> QED
    BY <1>1, <1>2, <1>3, <1>4

\* Starting, and the clock.
LEMMA ClockStep ==
  ASSUME RoundInv, UNCHANGED <<termVars, stale>>,
         Hub!StartIngester \/ Hub!BindSucceeds \/ Hub!Tick
  PROVE  RoundInv'
  <1>1. /\ UNCHANGED <<subscriber, queue, live, ts, call, count, offered>>
        /\ now' \in Nat /\ now' >= now
        /\ cleanupAt' \in Nat \cup {None} /\ (cleanupAt' # None => TTL # None)
    BY RoundTripAssumption
       DEF RoundTripAssumption, Hub!StartIngester, Hub!BindSucceeds, Hub!Tick, RoundInv, Types
  <1>2. UNCHANGED <<pending, purges, sending, nextId, callbacks, stale>>
    BY DEF termVars
  <1>3. Types'
    BY <1>1, <1>2 DEF RoundInv, Types
  <1>4. Bound' /\ Offers' /\ Held' /\ Queued' /\ Listed'
    BY <1>1, <1>2, ShrinkBound, SameParts DEF RoundInv
  <1>5. \A r \in Requests : Answered(r) => Answered(r)'
    <2> SUFFICES ASSUME NEW r \in Requests, Answered(r) PROVE Answered(r)'
      OBVIOUS
    <2>1. Lapsed(r) => Lapsed(r)'
      BY <1>1, LapsedStays DEF RoundInv
    <2> QED
      BY <1>1, <2>1 DEF Answered, Busy
  <1>6. Alive' /\ Kept'
    BY <1>1, <1>2, <1>5, QuietAlive
  <1> QED
    BY <1>3, <1>4, <1>6 DEF RoundInv

\* What the cleanup drops has lapsed.
LEMMA CleanupStep ==
  ASSUME RoundInv, UNCHANGED <<termVars, stale>>, Hub!Cleanup
  PROVE  RoundInv'
  <1>1. /\ live' = [r \in Requests |-> IF r \in Hub!Expired THEN None ELSE live[r]]
        /\ ts' = [r \in Requests |-> IF r \in Hub!Expired THEN None ELSE ts[r]]
        /\ cleanupAt = now /\ cleanupAt' = now + Interval
        /\ UNCHANGED <<subscriber, queue, call, now, count, offered>>
    BY DEF Hub!Cleanup, Hub!Without
  <1>2. UNCHANGED <<pending, purges, sending, nextId, callbacks, stale>>
    BY DEF termVars
  <1>3. now \in Nat /\ TTL # None /\ Interval \in Nat
    BY <1>1, RoundTripAssumption DEF RoundTripAssumption, RoundInv, Types
  <1>4. Types'
    BY <1>1, <1>2, <1>3 DEF RoundInv, Types
  <1>5. Bound' /\ Offers' /\ Held' /\ Queued' /\ Listed'
    BY <1>1, <1>2, ShrinkBound, SameParts DEF RoundInv
  <1>6. \A r \in Requests : Answered(r) => Answered(r)'
    <2> SUFFICES ASSUME NEW r \in Requests, Answered(r) PROVE Answered(r)'
      OBVIOUS
    <2>1. Lapsed(r) => Lapsed(r)'
      BY <1>1 DEF Lapsed
    <2>2. Busy(r) => Busy(r)'
      BY <1>1 DEF Busy
    <2>3. live[r] # None /\ live'[r] = None => Lapsed(r)
      BY <1>1, <1>3 DEF Lapsed, Hub!Expired, RoundInv, Bound, OfferedAt
    <2> QED
      BY <2>1, <2>2, <2>3 DEF Answered
  <1>7. Alive' /\ Kept'
    BY <1>1, <1>2, <1>6, QuietAlive
  <1> QED
    BY <1>4, <1>5, <1>7 DEF RoundInv

\* A refused verdict leaves the map as it was; one that is begun takes the binding
\* into the call.
LEMMA VerdictStartStep ==
  ASSUME RoundInv, UNCHANGED <<pending, purges, nextId, callbacks, stale>>,
         sending' \subseteq sending,
         NEW c \in Callers, NEW id \in Requests, NEW k \in Keys, NEW t \in Targets,
         \/ Hub!RefuseUnknown(c, id) \/ Hub!RefuseMismatch(c, id, k, t)
         \/ Hub!VerdictBegin(c, id, k, t)
  PROVE  RoundInv'
  <1>1. /\ UNCHANGED <<subscriber, queue, now, cleanupAt, count, offered>>
        /\ \/ /\ live' = [live EXCEPT ![id] = None] /\ ts' = [ts EXCEPT ![id] = None]
              /\ call' = call /\ live[id] = None
           \/ live' = live /\ ts' = ts /\ call' = call
           \/ /\ live' = [live EXCEPT ![id] = None] /\ ts' = [ts EXCEPT ![id] = None]
              /\ call[c] = None /\ live[id] # None
              /\ live[id].container = k /\ live[id].target = t
              /\ call' = [call EXCEPT ![c] = [id |-> id, container |-> k, target |-> t,
                                             held |-> live[id], ts |-> ts[id]]]
    BY DEF Hub!RefuseUnknown, Hub!RefuseMismatch, Hub!VerdictBegin, Hub!Pop, Hub!Stamp,
           Hub!Matches, Hub!fanVars, Hub!callVars, Hub!timeVars, RoundInv, Types
  <1>2. /\ live' \in [Requests -> Hub!Binding \cup {None}]
        /\ ts' \in [Requests -> Nat \cup {None}]
        /\ \A r \in Requests :
             live'[r] = None \/ (live'[r] = live[r] /\ ts'[r] = ts[r])
    BY <1>1 DEF RoundInv, Types
  <1>3. ASSUME live[id] # None, live[id].container = k, live[id].target = t
        PROVE  [id |-> id, container |-> k, target |-> t, held |-> live[id], ts |-> ts[id]]
                 \in Hub!Suspended
    <2>1. live[id] \in Hub!Binding
      BY <1>3 DEF RoundInv, Types
    <2>2. ts[id] \in Nat
      BY <1>3 DEF RoundInv, Bound, OfferedAt, Offers, Hub!Prompt
    <2> QED
      BY <2>1, <2>2 DEF Hub!Suspended
  <1>4. call' \in [Callers -> Hub!Suspended \cup {None}]
    BY <1>1, <1>3 DEF RoundInv, Types
  <1>5. Types'
    BY <1>1, <1>2, <1>4 DEF RoundInv, Types
  <1>6. Offers' /\ Queued' /\ Listed'
    BY <1>1 DEF RoundInv, Offers, Queued, Listed, Offered
  <1>7. Bound'
    BY <1>1, <1>2, ShrinkBound DEF RoundInv
  <1>8. Held'
    <2> SUFFICES ASSUME NEW d \in Callers, call'[d] # None
                 PROVE  /\ call'[d].container = call'[d].held.container
                        /\ \E q \in offered' :
                             /\ q.id = call'[d].id /\ q.container = call'[d].held.container
                             /\ q.target = call'[d].held.target /\ q.at = call'[d].ts
      BY DEF Held, OfferedAt
    <2>1. CASE call'[d] = call[d]
      BY <1>1, <2>1 DEF RoundInv, Held, OfferedAt
    <2>2. CASE /\ live[id] # None /\ live[id].container = k
               /\ call'[d] = [id |-> id, container |-> k, target |-> t,
                              held |-> live[id], ts |-> ts[id]]
      BY <1>1, <2>2 DEF RoundInv, Bound, OfferedAt
    <2> QED
      BY <1>1, <2>1, <2>2 DEF RoundInv, Types
  <1>9. \A r \in Requests : Answered(r) => Answered(r)'
    <2> SUFFICES ASSUME NEW r \in Requests, Answered(r) PROVE Answered(r)'
      OBVIOUS
    <2>1. Lapsed(r) => Lapsed(r)'
      BY <1>1 DEF Lapsed
    <2>2. Busy(r) => Busy(r)'
      <3> SUFFICES ASSUME NEW d \in Callers, call[d] # None, call[d].id = r
                   PROVE  Busy(r)'
        BY DEF Busy
      <3>1. call'[d] = call[d]
        BY <1>1 DEF RoundInv, Types
      <3> QED
        BY <3>1 DEF Busy
    <2>3. live[r] # None /\ live'[r] = None => Busy(r)'
      <3> SUFFICES ASSUME live[r] # None, live'[r] = None PROVE Busy(r)'
        OBVIOUS
      <3>1. /\ r = id /\ call'[c] = [id |-> id, container |-> k, target |-> t,
                                      held |-> live[id], ts |-> ts[id]]
            /\ live[id] # None /\ live[id].container = k /\ live[id].target = t
        BY <1>1 DEF RoundInv, Types
      <3>2. call'[c] \in Hub!Suspended /\ call'[c].id = r
        BY <1>3, <3>1
      <3> QED
        BY <3>2, RoundTripAssumption DEF RoundTripAssumption, Busy
    <2> QED
      BY <2>1, <2>2, <2>3 DEF Answered
  <1>10. Alive' /\ Kept'
    BY <1>1, <1>9, QuietAlive
  <1> QED
    BY <1>5, <1>6, <1>7, <1>8, <1>10 DEF RoundInv

\* A tool that connects starts with an empty queue; all it still shows is stale,
\* as is all it shows when the stream breaks.
LEMMA ConnectionStep ==
  ASSUME RoundInv,
         \/ /\ Hub!Subscribe(Screen) \/ Hub!CloseGenerator(Screen)
            /\ UNCHANGED <<termVars, stale>>
         \/ StreamBreaks
  PROVE  RoundInv'
  <1>1. Screen \in Subscribers
    BY RoundTripAssumption DEF RoundTripAssumption
  <1>2. /\ UNCHANGED <<live, ts, call, now, cleanupAt, count, offered>>
        /\ UNCHANGED <<pending, purges, sending, nextId, callbacks>>
        /\ \/ /\ subscriber[Screen] # "open" /\ queue' = [queue EXCEPT ![Screen] = <<>>]
              /\ subscriber' = [subscriber EXCEPT ![Screen] = "open"] /\ stale' = stale
           \/ /\ subscriber[Screen] # "open" /\ queue' = [queue EXCEPT ![Screen] = <<>>]
              /\ subscriber' = [subscriber EXCEPT ![Screen] = "absent"] /\ stale' = stale
           \/ /\ queue' = queue /\ subscriber' = [subscriber EXCEPT ![Screen] = "gone"]
              /\ stale' = {r \in Requests : pending[r] # None}
    BY DEF StreamBreaks, Hub!Subscribe, Hub!CloseGenerator, Hub!Disconnect, Hub!hubVars,
           Hub!callVars, Hub!timeVars, termVars
  <1>3. Types'
    <2>1. queue' \in [Subscribers -> Seq(Hub!Event)]
      <3>1. <<>> \in Seq(Hub!Event) /\ queue \in [Subscribers -> Seq(Hub!Event)]
        BY DEF RoundInv, Types
      <3> QED
        BY <1>2, <3>1
    <2> QED
      BY <1>1, <1>2, <2>1 DEF RoundInv, Types
  <1>4. Offers' /\ Bound' /\ Held' /\ Listed'
    <2>1. Offers' /\ Listed'
      BY <1>2 DEF RoundInv, Offers, Listed, Offered
    <2>2. Bound'
      BY <1>2, ShrinkBound DEF RoundInv
    <2>3. Held'
      BY <1>2 DEF RoundInv, Held, OfferedAt
    <2> QED
      BY <2>1, <2>2, <2>3
  <1>5. queue'[Screen] = queue[Screen] \/ queue'[Screen] = <<>>
    BY <1>1, <1>2 DEF RoundInv, Types
  <1>6. Queued'
    BY <1>2, <1>5 DEF RoundInv, Queued
  <1>7. Alive' /\ Kept'
    <2>1. CASE subscriber'[Screen] # "open"
      BY <1>1, <1>2, <2>1 DEF RoundInv, Types, Alive, Kept
    <2>2. CASE subscriber'[Screen] = "open"
      <3>1. subscriber[Screen] # "open" /\ queue'[Screen] = <<>> /\ stale' = stale
        BY <1>1, <1>2, <2>2 DEF RoundInv, Types
      <3>2. \A r \in Requests : pending'[r] # None => r \in stale'
        BY <1>2, <3>1 DEF RoundInv, Kept
      <3> QED
        BY <2>2, <3>1, <3>2 DEF Alive, Kept
    <2> QED
      BY <2>1, <2>2
  <1> QED
    BY <1>3, <1>4, <1>6, <1>7 DEF RoundInv

-----------------------------------------------------------------------------
(* The tool's steps *)

\* What is handled leaves the queue; what came behind it stays in order.
LEMMA TailEnds ==
  ASSUME Types, queue[Screen] # <<>>, queue'[Screen] = Tail(queue[Screen])
  PROVE  /\ DOMAIN queue'[Screen] = {i \in Nat : i > 0 /\ i + 1 \in DOMAIN queue[Screen]}
         /\ \A i \in DOMAIN queue'[Screen] : queue'[Screen][i] = queue[Screen][i + 1]
         /\ 1 \in DOMAIN queue[Screen] /\ Head(queue[Screen]) = queue[Screen][1]
         /\ \A r, k : \A i \in Nat :
              EndedAfter(i, r, k) => \/ EndedAfter(IF i = 0 THEN 0 ELSE i - 1, r, k)'
                                     \/ i = 0 /\ Ending(Head(queue[Screen]), r, k)
  <1> DEFINE q == queue[Screen]
  <1>1. q \in Seq(Hub!Event)
    BY RoundTripAssumption DEF RoundTripAssumption, Types
  <1>2. PICK m \in Nat : m = Len(q) /\ DOMAIN q = 1..m /\ m > 0
    BY <1>1
  <1>3. /\ DOMAIN Tail(q) = 1..(m - 1) /\ \A i \in 1..(m - 1) : Tail(q)[i] = q[i + 1]
        /\ Head(q) = q[1]
    BY <1>1, <1>2
  <1>4. ASSUME NEW i \in Nat, NEW r, NEW k, EndedAfter(i, r, k)
        PROVE  \/ EndedAfter(IF i = 0 THEN 0 ELSE i - 1, r, k)'
               \/ i = 0 /\ Ending(Head(q), r, k)
    <2>1. PICK j \in 1..m : j > i /\ Ending(q[j], r, k)
      BY <1>2, <1>4 DEF EndedAfter
    <2>2. CASE j = 1
      BY <1>3, <2>1, <2>2
    <2>3. CASE j > 1
      <3>1. /\ j - 1 \in 1..(m - 1) /\ q[j] = Tail(q)[j - 1]
            /\ j - 1 > (IF i = 0 THEN 0 ELSE i - 1)
        BY <1>3, <2>1, <2>3
      <3> QED
        BY <1>3, <2>1, <3>1 DEF EndedAfter
    <2> QED
      BY <2>1, <2>2, <2>3
  <1>5. /\ DOMAIN queue'[Screen] = {i \in Nat : i > 0 /\ i + 1 \in DOMAIN q}
        /\ \A i \in DOMAIN queue'[Screen] : queue'[Screen][i] = q[i + 1]
        /\ 1 \in DOMAIN q /\ Head(q) = q[1]
    BY <1>2, <1>3
  <1> QED
    BY <1>4, <1>5

\* What handling a blocked connection, an outcome or an ending leaves of what the
\* tool shows.
LEMMA HandleShows ==
  ASSUME RoundInv, NEW e, e \in Hub!Event, Handle(e),
         e.type = "connection_blocked" =>
           \E p \in offered : p.n = e.n /\ p.id = e.id /\ p.container = e.container
  PROVE  /\ pending' \in [Requests -> Shown \cup {None}] /\ nextId' \in Nat
         /\ sending' = sending /\ callbacks' \in [Term!Nids -> Term!Verdict \cup {None}]
         /\ purges' = IF e.type \in Purging THEN purges \cup {e.container} ELSE purges
         /\ \A r \in Requests : pending'[r] # None =>
              \/ pending'[r] = pending[r] /\ ~(e.type = "verdict_applied" /\ e.id = r)
              \/ /\ e.type = "connection_blocked" /\ e.id = r
                 /\ pending'[r].container = e.container
                 /\ Offered(r, pending'[r].container, pending'[r].target)
  <1>1. CASE e.type = "connection_blocked"
    <2>1. PICK p \in offered : p.n = e.n /\ p.id = e.id /\ p.container = e.container
      BY <1>1
    <2>2. Announced(e) = p
      BY <2>1 DEF Announced, RoundInv, Offers
    <2>3. /\ p.id \in Requests /\ p.container \in Keys /\ p.target \in Targets
      BY DEF RoundInv, Offers, Hub!Prompt
    <2>4. Term!Blocked(e.container, Announced(e).target, e.id)
      BY <1>1 DEF Handle, Purging
    <2> DEFINE prior == Term!LiveBlockOn(p.container, p.target)
               nid == IF prior = None THEN nextId ELSE pending[prior].nid
    <2>5. prior # None => prior \in Requests /\ pending[prior] # None
      BY DEF Term!LiveBlockOn
    <2>6. nid \in Nat /\ nextId' \in Nat
      <3>1. nid \in Nat
        BY <2>5 DEF RoundInv, Types, Shown
      <3>2. nextId' = nextId + 1 \/ nextId' = nextId
        BY <2>4 DEF Term!Blocked
      <3> QED
        BY <3>1, <3>2 DEF RoundInv, Types
    <2> DEFINE record == [nid |-> nid, container |-> p.container, target |-> p.target]
    <2>typed. record \in Shown /\ record.container = p.container /\ record.target = p.target
      BY <2>3, <2>6 DEF Shown
    <2>7. PICK shown \in Shown : /\ shown = record
                                 /\ shown.container = p.container /\ shown.target = p.target
      BY <2>typed, Zenon
    <2>8. [container |-> p.container, target |-> p.target, id |-> p.id] \in Term!Verdict
      BY <2>3 DEF Term!Verdict
    <2>9. /\ purges' = purges /\ sending' = sending
          /\ callbacks' = [callbacks EXCEPT ![nid] = [container |-> p.container,
                                                     target |-> p.target, id |-> p.id]]
          /\ \/ pending' = [pending EXCEPT ![p.id] = shown]
             \/ /\ prior \in Requests
                /\ pending' = [[pending EXCEPT ![prior] = None] EXCEPT ![p.id] = shown]
      <3>1. /\ purges' = purges /\ sending' = sending
            /\ callbacks' = [callbacks EXCEPT ![nid] = [container |-> p.container,
                                                       target |-> p.target, id |-> p.id]]
            /\ pending' = [(IF prior = None THEN pending ELSE [pending EXCEPT ![prior] = None])
                             EXCEPT ![p.id] = shown]
        BY <2>1, <2>2, <2>4, <2>7 DEF Term!Blocked, Term!Put
      <3> HIDE DEF nid, prior
      <3> QED
        BY <2>5, <3>1
    <2> HIDE DEF nid, prior
    <2>10. /\ pending' \in [Requests -> Shown \cup {None}]
           /\ callbacks' \in [Term!Nids -> Term!Verdict \cup {None}]
           /\ \A r \in Requests : r # p.id => pending'[r] \in {pending[r], None}
           /\ pending'[p.id] = shown
      BY <2>3, <2>8, <2>9 DEF RoundInv, Types
    <2>11. e.type \notin Purging
      BY <1>1 DEF Purging
    <2>12. Offered(p.id, shown.container, shown.target)
      BY <2>7 DEF Offered
    <2> QED
      BY <1>1, <2>1, <2>6, <2>7, <2>9, <2>10, <2>11, <2>12
  <1>2. CASE e.type = "verdict_applied" /\ pending[e.id] # None
    <2>1. Term!VerdictApplied(e.id)
      BY <1>2 DEF Handle, Purging
    <2>2. e.type \notin Purging /\ e.type # "connection_blocked"
      BY <1>2 DEF Purging
    <2>3. /\ pending' = [pending EXCEPT ![e.id] = None]
          /\ UNCHANGED <<purges, sending, nextId, callbacks>>
      BY <2>1 DEF Term!VerdictApplied, Term!Put
    <2>4. \A r \in Requests : pending'[r] # None => pending'[r] = pending[r] /\ e.id # r
      BY <2>3 DEF RoundInv, Types
    <2> QED
      BY <2>2, <2>3, <2>4 DEF RoundInv, Types
  <1>3. CASE e.type \in Purging
    <2>1. Term!Ends(e.container)
      BY <1>3 DEF Handle, Purging
    <2>2. e.type # "verdict_applied"
      BY <1>3 DEF Purging
    <2> QED
      BY <1>3, <2>1, <2>2 DEF Term!Ends, RoundInv, Types
  <1>4. CASE /\ e.type # "connection_blocked" /\ e.type \notin Purging
             /\ ~(e.type = "verdict_applied" /\ pending[e.id] # None)
    <2>1. UNCHANGED termVars
      BY <1>4 DEF Handle
    <2> QED
      BY <1>4, <2>1 DEF termVars, RoundInv, Types
  <1> QED
    BY <1>1, <1>2, <1>3, <1>4

\* The tool handles an event: a blocked connection it lists can be answered or
\* is ended behind it, an outcome ends its prompt, an ending purges.
LEMMA ReceiveStep ==
  ASSUME RoundInv, Receive
  PROVE  RoundInv'
  <1> DEFINE q == queue[Screen]
  <1>1. /\ subscriber[Screen] = "open" /\ q # <<>> /\ queue' = [queue EXCEPT ![Screen] = Tail(q)]
        /\ UNCHANGED <<subscriber, live, ts, call, now, cleanupAt, count, offered>>
        /\ Handle(Head(q))
        /\ stale' = IF Head(q).type = "connection_blocked" THEN stale \ {Head(q).id} ELSE stale
    BY DEF Receive, Hub!Deliver, Hub!hubVars, Hub!callVars, Hub!timeVars
  <1>2. Screen \in Subscribers /\ q \in Seq(Hub!Event)
    BY RoundTripAssumption DEF RoundTripAssumption, RoundInv, Types
  <1>3. queue'[Screen] = Tail(q) /\ queue' \in [Subscribers -> Seq(Hub!Event)]
    <2>1. Tail(q) \in Seq(Hub!Event)
      BY <1>1, <1>2
    <2> QED
      BY <1>1, <1>2, <2>1 DEF RoundInv, Types
  <1>4. PICK e \in Hub!Event : e = Head(q)
    BY <1>1, <1>2
  <1>5. /\ 1 \in DOMAIN q /\ q[1] = e
        /\ DOMAIN queue'[Screen] = {i \in Nat : i > 0 /\ i + 1 \in DOMAIN q}
        /\ \A i \in DOMAIN queue'[Screen] : queue'[Screen][i] = q[i + 1]
    BY <1>1, <1>3, <1>4, TailEnds DEF RoundInv
  <1>6. ASSUME NEW i \in Nat, NEW r, NEW k, EndedAfter(i, r, k)
        PROVE  \/ EndedAfter(IF i = 0 THEN 0 ELSE i - 1, r, k)'
               \/ i = 0 /\ Ending(e, r, k)
    BY <1>1, <1>3, <1>4, <1>6, TailEnds DEF RoundInv
  <1>7. e.type = "connection_blocked" =>
          \E p \in offered : p.n = e.n /\ p.id = e.id /\ p.container = e.container
    BY <1>5 DEF RoundInv, Queued
  <1>8. /\ pending' \in [Requests -> Shown \cup {None}] /\ nextId' \in Nat
        /\ sending' = sending /\ callbacks' \in [Term!Nids -> Term!Verdict \cup {None}]
        /\ purges' = IF e.type \in Purging THEN purges \cup {e.container} ELSE purges
        /\ \A r \in Requests : pending'[r] # None =>
             \/ pending'[r] = pending[r] /\ ~(e.type = "verdict_applied" /\ e.id = r)
             \/ /\ e.type = "connection_blocked" /\ e.id = r
                /\ pending'[r].container = e.container
                /\ Offered(r, pending'[r].container, pending'[r].target)
    BY <1>1, <1>4, <1>7, HandleShows
  <1>9. Types'
    BY <1>1, <1>3, <1>8 DEF RoundInv, Types
  <1>10. Offers' /\ Bound' /\ Held'
    <2>1. Offers'
      BY <1>1 DEF RoundInv, Offers
    <2>2. Bound'
      BY <1>1, ShrinkBound DEF RoundInv
    <2>3. Held'
      BY <1>1 DEF RoundInv, Held, OfferedAt
    <2> QED
      BY <2>1, <2>2, <2>3
  <1>11. Queued'
    BY <1>1, <1>5 DEF RoundInv, Queued
  <1>12. Listed'
    BY <1>1, <1>8 DEF RoundInv, Listed, Offered
  <1>13. \A r : Answered(r) => Answered(r)'
    BY <1>1 DEF Answered, Lapsed, Busy
  <1>14. ASSUME NEW i \in DOMAIN q, i > 1, q[i].type = "connection_blocked",
                NEW r, NEW k, r = q[i].id, k = q[i].container
         PROVE  Answered(r)' \/ EndedAfter(i - 1, r, k)'
    <2>1. Answered(r) \/ EndedAfter(i, r, k)
      BY <1>1, <1>14 DEF RoundInv, Alive
    <2>2. i \in Nat /\ i # 0
      BY <1>2, <1>14
    <2> QED
      BY <1>6, <1>13, <2>1, <2>2
  <1>15. ASSUME e.type = "connection_blocked", NEW r, NEW k, r = e.id, k = e.container
         PROVE  Answered(r)' \/ EndedAfter(0, r, k)'
    <2>1. Answered(r) \/ EndedAfter(1, r, k)
      BY <1>1, <1>5, <1>15 DEF RoundInv, Alive
    <2> QED
      BY <1>6, <1>13, <2>1
  <1>16. ASSUME NEW r \in Requests, pending'[r] # None, r \notin stale', NEW k,
                k = pending'[r].container
         PROVE  Answered(r)' \/ k \in purges' \/ EndedAfter(0, r, k)'
    <2>1. CASE e.type = "connection_blocked" /\ e.id = r /\ k = e.container
      BY <1>15, <2>1
    <2>2. CASE pending'[r] = pending[r] /\ ~(e.type = "verdict_applied" /\ e.id = r)
      <3>1. CASE r \in stale
        <4>1. e.type = "connection_blocked" /\ e.id = r
          BY <1>1, <1>4, <1>16, <3>1
        <4>2. pending[r].container = e.container
          BY <1>7, <1>16, <2>2, <4>1 DEF RoundInv, Listed, Offered, Offers
        <4> QED
          BY <1>15, <1>16, <2>2, <4>1, <4>2
      <3>2. CASE r \notin stale
        <4>1. Answered(r) \/ k \in purges \/ EndedAfter(0, r, k)
          BY <1>1, <1>16, <2>2, <3>2 DEF RoundInv, Alive
        <4>2. Ending(e, r, k) => k \in purges'
          BY <1>8, <2>2 DEF Ending
        <4>3. purges \subseteq purges'
          BY <1>8
        <4> QED
          BY <1>6, <1>13, <4>1, <4>2, <4>3
      <3> QED
        BY <3>1, <3>2
    <2> QED
      BY <1>8, <1>16, <2>1, <2>2
  <1>17. Alive' /\ Kept'
    <2>1. Kept'
      BY <1>1 DEF Kept
    <2>2. ASSUME NEW i \in DOMAIN queue'[Screen], queue'[Screen][i].type = "connection_blocked",
                 NEW r, NEW k, r = queue'[Screen][i].id, k = queue'[Screen][i].container
          PROVE  Answered(r)' \/ EndedAfter(i, r, k)'
      <3>1. i \in Nat /\ i > 0 /\ i + 1 \in DOMAIN q /\ queue'[Screen][i] = q[i + 1]
        BY <1>5
      <3>2. i + 1 > 1 /\ (i + 1) - 1 = i
        BY <3>1
      <3> QED
        BY <1>14, <2>2, <3>1, <3>2
    <2> QED
      BY <1>16, <2>1, <2>2 DEF Alive
  <1> QED
    BY <1>9, <1>10, <1>11, <1>12, <1>17 DEF RoundInv

\* The tool purges a container, or the operator answers.
LEMMA ToolStep ==
  ASSUME RoundInv, ToolAlone
  PROVE  RoundInv'
  <1>1. /\ UNCHANGED <<subscriber, queue, live, ts, call, now, cleanupAt, count, offered>>
        /\ stale' = stale
    BY DEF ToolAlone, hubVars
  <1>2. /\ pending' \in [Requests -> Shown \cup {None}] /\ nextId' = nextId
        /\ sending' \subseteq Term!Verdict
        /\ callbacks' \in [Term!Nids -> Term!Verdict \cup {None}]
        /\ \A r \in Requests : pending'[r] # None =>
             pending'[r] = pending[r] /\ (pending[r].container \in purges =>
                                           pending[r].container \in purges')
    <2>1. CASE \E k \in Keys : Term!Purge(k)
      <3>1. PICK k \in Keys : Term!Purge(k)
        BY <2>1
      <3>2. /\ purges' = purges \ {k} /\ nextId' = nextId /\ sending' = sending
            /\ pending' = [r \in Requests |->
                  IF pending[r] # None /\ pending[r].container = k THEN None ELSE pending[r]]
        BY <3>1 DEF Term!Purge
      <3>3. callbacks' \in [Term!Nids -> Term!Verdict \cup {None}]
        BY <3>1 DEF Term!Purge, RoundInv, Types
      <3> QED
        BY <3>2, <3>3 DEF RoundInv, Types
    <2>2. CASE \E n \in Term!Nids : Term!Answer(n)
      BY <2>2 DEF Term!Answer, Term!Put, RoundInv, Types
    <2> QED
      BY <2>1, <2>2 DEF ToolAlone
  <1>3. Types'
    BY <1>1, <1>2 DEF RoundInv, Types
  <1>4. Offers' /\ Bound' /\ Held' /\ Queued' /\ Listed'
    <2>1. Offers' /\ Queued'
      BY <1>1 DEF RoundInv, Offers, Queued
    <2>2. Bound'
      BY <1>1, ShrinkBound DEF RoundInv
    <2>3. Held'
      BY <1>1 DEF RoundInv, Held, OfferedAt
    <2>4. Listed'
      BY <1>1, <1>2 DEF RoundInv, Listed, Offered
    <2> QED
      BY <2>1, <2>2, <2>3, <2>4
  <1>5. Alive' /\ Kept'
    <2>1. \A r : Answered(r) => Answered(r)'
      BY <1>1 DEF Answered, Lapsed, Busy
    <2>2. \A i, r, k : EndedAfter(i, r, k) => EndedAfter(i, r, k)'
      BY <1>1 DEF EndedAfter
    <2>3. ASSUME NEW r \in Requests, pending'[r] # None, r \notin stale',
                 subscriber'[Screen] = "open", NEW k, k = pending'[r].container
          PROVE  Answered(r)' \/ k \in purges' \/ EndedAfter(0, r, k)'
      <3>1. Answered(r) \/ k \in purges \/ EndedAfter(0, r, k)
        BY <1>1, <1>2, <2>3 DEF RoundInv, Alive
      <3> QED
        BY <1>2, <2>1, <2>2, <2>3, <3>1
    <2>4. ASSUME NEW i \in DOMAIN queue'[Screen], queue'[Screen][i].type = "connection_blocked",
                 subscriber'[Screen] = "open",
                 NEW r, NEW k, r = queue'[Screen][i].id, k = queue'[Screen][i].container
          PROVE  Answered(r)' \/ EndedAfter(i, r, k)'
      <3>1. Answered(r) \/ EndedAfter(i, r, k)
        BY <1>1, <2>4 DEF RoundInv, Alive
      <3> QED
        BY <2>1, <2>2, <3>1
    <2>5. Kept'
      BY <1>1, <1>2 DEF RoundInv, Kept
    <2> QED
      BY <2>3, <2>4, <2>5 DEF Alive
  <1> QED
    BY <1>3, <1>4, <1>5 DEF RoundInv

-----------------------------------------------------------------------------
(* The theorem *)

LEMMA RoundInit == Init => RoundInv
  <1> SUFFICES ASSUME Init PROVE RoundInv
    OBVIOUS
  <1> USE RoundTripAssumption DEF RoundTripAssumption
  <1>1. Types
    <2>1. queue \in [Subscribers -> Seq(Hub!Event)]
      <3>1. <<>> \in Seq(Hub!Event)
        OBVIOUS
      <3> QED
        BY <3>1 DEF Init, Hub!Init
    <2> QED
      BY <2>1 DEF Init, Hub!Init, Term!Init, Types
  <1>2. Offers /\ Bound /\ Held /\ Listed
    BY DEF Init, Hub!Init, Term!Init, Offers, Bound, Held, Listed
  <1>3. queue[Screen] = <<>> /\ subscriber[Screen] # "open"
    BY DEF Init, Hub!Init
  <1>4. Queued /\ Alive /\ Kept
    BY <1>3 DEF Init, Term!Init, Queued, Alive, Kept
  <1> QED
    BY <1>1, <1>2, <1>4 DEF RoundInv

\* Every joint step and every step of one component keeps the invariant.
LEMMA RoundStep == RoundInv /\ [Next]_vars /\ [Fits]_vars => RoundInv'
  <1> SUFFICES ASSUME RoundInv, [Next]_vars, [Fits]_vars PROVE RoundInv'
    OBVIOUS
  <1>1. CASE UNCHANGED vars
    <2>1. UNCHANGED <<subscriber, queue, live, ts, call, now, cleanupAt, count, offered,
                      pending, purges, sending, nextId, callbacks, stale>>
      BY <1>1 DEF vars, hubVars, termVars
    <2>2. Types'
      BY <2>1 DEF RoundInv, Types
    <2>3. Bound' /\ Offers' /\ Held' /\ Queued' /\ Listed'
      BY <2>1, ShrinkBound, SameParts DEF RoundInv
    <2>4. Alive' /\ Kept'
      <3>1. \A r \in Requests : Answered(r) => Answered(r)'
        BY <2>1 DEF Answered, Lapsed, Busy
      <3> QED
        BY <2>1, <3>1, QuietAlive
    <2> QED
      BY <2>2, <2>3, <2>4 DEF RoundInv
  <1>2. ASSUME Fits, Next PROVE RoundInv'
    <2>1. CASE Receive
      BY <2>1, ReceiveStep
    <2>2. CASE SendVerdict
      <3>1. PICK v \in sending : /\ Term!Send(v) /\ UNCHANGED stale
                                 /\ \/ Hub!RefuseUnknown(Tool, v.id)
                                    \/ Hub!RefuseMismatch(Tool, v.id, v.container, v.target)
                                    \/ Hub!VerdictBegin(Tool, v.id, v.container, v.target)
        BY <2>2 DEF SendVerdict
      <3>2. v.id \in Requests /\ v.container \in Keys /\ v.target \in Targets /\ Tool \in Callers
        BY RoundTripAssumption DEF RoundTripAssumption, RoundInv, Types, Term!Verdict
      <3>3. /\ UNCHANGED <<pending, purges, nextId, callbacks, stale>>
            /\ sending' \subseteq sending
        BY <3>1 DEF Term!Send
      <3> QED
        BY <3>1, <3>2, <3>3, VerdictStartStep
    <2>3. CASE StreamBreaks
      BY <2>3, ConnectionStep
    <2>4. CASE HubAlone
      <3>1. UNCHANGED <<termVars, stale>>
        BY <2>4 DEF HubAlone
      <3>2. CASE Hub!StartIngester \/ Hub!BindSucceeds \/ Hub!Tick
        BY <3>1, <3>2, ClockStep
      <3>3. CASE Hub!Cleanup
        BY <3>1, <3>3, CleanupStep
      <3>4. CASE Hub!Subscribe(Screen) \/ Hub!CloseGenerator(Screen)
        BY <3>1, <3>4, ConnectionStep
      <3>5. CASE \E c \in Callers : Hub!VerdictEnd(c)
        BY <1>2, <3>1, <3>5, VerdictEndStep
      <3> QED
        BY <2>4, <3>2, <3>3, <3>4, <3>5 DEF HubAlone
    <2>5. CASE Reader
      <3>1. UNCHANGED <<termVars, stale>>
        BY <2>5 DEF Reader
      <3>2. ASSUME NEW key \in Keys, NEW id \in Requests, NEW target \in Targets,
                   \A p \in offered : p.id = id => p.container = key /\ p.target = target,
                   Hub!RelayBlocked(key, id, target)
            PROVE  RoundInv'
        BY <1>2, <3>1, <3>2, RelayBlockedStep
      <3>3. ASSUME NEW key \in Keys, NEW type \in Changes, Hub!RelayLifecycle(type, key)
            PROVE  RoundInv'
        BY <1>2, <3>1, <3>3, RelayLifecycleStep
      <3> QED
        BY <2>5, <3>2, <3>3 DEF Reader
    <2>6. CASE OtherAnswers
      <3>1. /\ UNCHANGED <<pending, purges, nextId, callbacks, stale>>
            /\ sending' \subseteq sending
        BY <2>6 DEF OtherAnswers, termVars
      <3>2. PICK c \in Callers, p \in offered :
              Hub!RefuseUnknown(c, p.id) \/ Hub!VerdictBegin(c, p.id, p.container, p.target)
        BY <2>6 DEF OtherAnswers
      <3>3. p.id \in Requests /\ p.container \in Keys /\ p.target \in Targets
        BY DEF RoundInv, Offers, Hub!Prompt
      <3> QED
        BY <3>1, <3>2, <3>3, VerdictStartStep
    <2>7. CASE ToolAlone
      BY <2>7, ToolStep
    <2> QED
      BY <1>2, <2>1, <2>2, <2>3, <2>4, <2>5, <2>6, <2>7 DEF Next
  <1> QED
    BY <1>1, <1>2

\* Once all is handled, a shown request is bound to what the tool would send.
LEMMA RoundImplies == RoundInv => OpenMeansAnswerable
  <1> SUFFICES ASSUME RoundInv, NEW r \in Requests, pending[r] # None, Settled(r), ~Lapsed(r)
               PROVE  live[r] # None /\ Hub!Matches(r, pending[r].container, pending[r].target)
    BY DEF OpenMeansAnswerable
  <1>1. ~EndedAfter(0, r, pending[r].container)
    BY DEF Settled, EndedAfter
  <1>2. live[r] # None
    BY <1>1 DEF Settled, RoundInv, Alive, Answered, Busy, Hub!InFlight
  <1>3. Hub!Matches(r, pending[r].container, pending[r].target)
    BY <1>2 DEF Hub!Matches, RoundInv, Bound, OfferedAt, Listed, Offered, Offers
  <1> QED
    BY <1>2, <1>3

\* Whoever answers, whatever fails, expires or is retired, and however often the
\* stream breaks: once the tool has handled all it was sent, the hub would accept
\* a verdict on every request the tool shows, with the container and target it
\* would send, unless the binding has lapsed or the stream broke since.  The
\* premise is that no event of the tool's is dropped while it is connected.
THEOREM OpenIsAnswerable == Spec /\ [][Fits]_vars => []OpenMeansAnswerable
  <1>1. Init => RoundInv
    BY RoundInit
  <1>2. RoundInv /\ [Next]_vars /\ [Fits]_vars => RoundInv'
    BY RoundStep
  <1>3. RoundInv => OpenMeansAnswerable
    BY RoundImplies
  <1> QED
    BY <1>1, <1>2, <1>3, PTL DEF Spec

=============================================================================
