---------------------------- MODULE ClearanceHub ----------------------------
(***************************************************************************)
(* The clearance hub, hub/server.py: one asyncio process that binds every  *)
(* blocked connection it announces, fans every event out to bounded        *)
(* per-subscriber queues, and lets a Verdict call reach the shield only    *)
(* when it cites a bound (container, request_id, dest) triple.             *)
(*                                                                         *)
(* asyncio runs one coroutine at a time and switches only at an await, so  *)
(* one action is one stretch of code between awaits.  The single await     *)
(* inside _apply_verdict splits a verdict into VerdictBegin and            *)
(* VerdictApplied / VerdictFailed; what the coroutine remembers across it  *)
(* is the record call[c].                                                  *)
(*                                                                         *)
(* History the code does not keep, and never tests here: count, the number *)
(* of events fanned out; offered, the prompts bound so far; granted, the   *)
(* prompts the shield accepted a verdict on; lastEnd; got; and the       *)
(* fields n and put of a binding.                                          *)
(***************************************************************************)
EXTENDS Integers, Sequences, FiniteSets

CONSTANTS
  Keys,         \* container keys producers and callers may use
  Own,          \* the one container this hub serves, or None (multi-container)
  Aliases,      \* other keys of Own
  LaunchMuted,  \* keys muted by the launch default
  Requests,     \* request ids, all truthy
  EmptyId,      \* the empty request id
  Targets,      \* "domain or dest" strings
  Callers,      \* connections that call Verdict
  Subscribers,  \* connections that call Subscribe
  QueueDepth,   \* _SUBSCRIBER_QUEUE_DEPTH
  TTL,          \* pending-verdict TTL, or None (no expiry)
  Interval,     \* _VERDICT_CLEANUP_INTERVAL
  None,         \* Python's None
  MaxEvents,    \* bound: events fanned out in one life of the hub
  MaxNow        \* bound: clock ticks in one life of the hub

Phases == {"down", "ingesting", "up", "closing", "draining", "stopped", "failed"}

LifecycleTypes == {"container_started", "container_exited", "shield_up",
                   "shield_down", "shield_disengaged"}

RetiringButDisengaged == {"shield_down", "container_exited"}  \* mutant

\* The events that retire bindings.
Retiring == {"shield_down", "shield_disengaged", "container_exited"}

\* The events after which no earlier prompt of the container has a point.
Endings == LifecycleTypes \ {"container_started", "shield_up"}

Binding == [container : Keys, target : Targets,
            n : Nat, put : [event : Nat, at : Nat]]

Prompt == [n : Nat, id : Requests, container : Keys,
           target : Targets, at : Nat]

Suspended == [id : Requests, container : Keys, target : Targets,
              held : Binding, ts : Nat]

Event == [n : Nat, type : LifecycleTypes \cup {"connection_blocked", "verdict_applied"},
          container : Keys, id : Requests \cup {EmptyId},
          ok : BOOLEAN \cup {None}]

ASSUME HubAssumption ==
  /\ Own \in Keys \cup {None}
  /\ Aliases \subseteq Keys /\ LaunchMuted \subseteq Keys
  /\ Own = None => Aliases = {}
  /\ None \notin Keys /\ None \notin Targets /\ None \notin Nat
  /\ None \notin Binding /\ None \notin Suspended
  /\ EmptyId \notin Requests
  /\ QueueDepth \in Nat \ {0} /\ Interval \in Nat \ {0}
  /\ TTL \in Nat \cup {None}
  /\ MaxEvents \in Nat /\ MaxNow \in Nat

\* What the refinement mapping needs: no prompt is mistaken for none.
ASSUME PromptAssumption == None \notin Prompt

VARIABLES
  phase,      \* where start() and stop() stand
  subscriber, \* state of each subscriber's connection
  queue,      \* the subscriber's asyncio.Queue
  live,       \* _live_verdicts
  ts,         \* _live_verdicts_ts
  muted,      \* _muted
  call,       \* what a Verdict coroutine suspended in apply() remembers
  now,        \* time.monotonic()
  cleanupAt,  \* when _cleanup_loop next wakes, or None while there is no task
  count, offered, granted, lastEnd, got  \* history

hubVars   == <<live, ts, muted>>
callVars  == <<call, granted>>
timeVars  == <<now, cleanupAt>>
fanVars   == <<queue, count>>
vars == <<phase, subscriber, queue, live, ts, muted, call, now, cleanupAt,
          count, offered, granted, lastEnd, got>>

-----------------------------------------------------------------------------
(* Helpers *)

StampedAsSent(key) == key  \* mutant

\* The key an event carries once the hub has stamped it.
Stamped(key) == IF Own = None THEN key ELSE Own

MuteKeyAsGiven(key) ==  \* mutant: an alias is accepted but not resolved
  IF Own = None \/ key \in Aliases \cup {Own} THEN key ELSE None

\* The key a mute is filed under; None stands for UnknownContainer.
MuteKey(key) ==
  IF Own = None THEN key
  ELSE IF key \in Aliases \cup {Own} THEN Own ELSE None

SeededUnchecked == {MuteKey(key) : key \in LaunchMuted}  \* mutant

SeededMutes == {MuteKey(key) : key \in LaunchMuted} \ {None}

PushDroppingNewest(q, e) ==  \* mutant
  IF Len(q) = QueueDepth THEN q ELSE Append(q, e)

\* put_nowait after dropping the oldest event of a full queue.
Push(q, e) == Append(IF Len(q) = QueueDepth THEN Tail(q) ELSE q, e)

Ingesting == phase \in {"ingesting", "up", "closing"}
Serving == phase = "up"

\* The set self._subscribers: a queue stays in it until its generator is closed.
Attached == {s \in Subscribers : subscriber[s] # "absent"}

FanOut(type, container, id, ok) ==
  /\ count' = count + 1
  /\ queue' = [s \in Subscribers |->
                 IF s \in Attached
                 THEN Push(queue[s], [n |-> count + 1, type |-> type,
                                      container |-> container, id |-> id, ok |-> ok])
                 ELSE queue[s]]

\* Room keeps one event in reserve for every verdict in flight.
InFlight == {c \in Callers : call[c] # None}
Room == count + Cardinality(InFlight) < MaxEvents

Without(f, R) == [r \in Requests |-> IF r \in R THEN None ELSE f[r]]

\* Requests whose bindings a lifecycle event of this container retires.
RetiredBy(container) ==
  {r \in Requests : live[r] # None /\ live[r].container = container}

\* Requests the cleanup finds older than the TTL.
Expired == {r \in Requests : ts[r] # None /\ now - ts[r] > TTL}

PutBackUnstamped(r, binding, stamp, eventNo) ==  \* mutant
  /\ live' = [live EXCEPT ![r] = [binding EXCEPT !.put = [event |-> eventNo, at |-> now]]]
  /\ UNCHANGED ts

PutBackRestamped(r, binding, stamp, eventNo) ==  \* mutant
  /\ live' = [live EXCEPT ![r] = [binding EXCEPT !.put = [event |-> eventNo, at |-> now]]]
  /\ ts' = [ts EXCEPT ![r] = now]

\* Put a popped binding back as it was: the triple and its first timestamp.
PutBack(r, binding, stamp, eventNo) ==
  /\ live' = [live EXCEPT ![r] = [binding EXCEPT !.put = [event |-> eventNo, at |-> now]]]
  /\ ts' = [ts EXCEPT ![r] = stamp]

StampNow(id) == now  \* mutant

\* The timestamp a refused verdict puts back.
Stamp(id) == ts[id]

PopNothing(id) == UNCHANGED <<live, ts>>  \* mutant

\* Every verdict first takes the entry out of both dictionaries.
Pop(id) ==
  /\ live' = [live EXCEPT ![id] = None]
  /\ ts' = [ts EXCEPT ![id] = None]

ConsumePuttingBack(c) ==  \* mutant
  PutBack(call[c].id, call[c].held, call[c].ts, count + 1)

\* An accepted verdict's entry is not put back.
Consume(c) == UNCHANGED <<live, ts>>

AnnounceSuccess(c, ok) ==  \* mutant
  IF ok THEN FanOut("verdict_applied", call[c].container, call[c].id, ok)
        ELSE UNCHANGED fanVars

\* The outcome goes to every subscriber.
Announce(c, ok) == FanOut("verdict_applied", call[c].container, call[c].id, ok)

MatchesTarget(id, container, target) == live[id].target = target  \* mutant

Matches(id, container, target) ==
  live[id].container = container /\ live[id].target = target

-----------------------------------------------------------------------------
(* Lifecycle *)

Init ==
  /\ phase = "down" /\ muted = {}
  /\ subscriber = [s \in Subscribers |-> "absent"]
  /\ queue = [s \in Subscribers |-> <<>>]
  /\ live = [r \in Requests |-> None]
  /\ ts = [r \in Requests |-> None]
  /\ call = [c \in Callers |-> None]
  /\ now = 0 /\ cleanupAt = None
  /\ count = 0 /\ offered = {} /\ granted = {}
  /\ lastEnd = [k \in Keys |-> 0]
  /\ got = [s \in Subscribers |-> 0]

\* The process constructs the hub, which seeds the mutes, and start() has
\* brought the ingester up: reader events flow before the varlink bind.
StartIngester ==
  /\ phase = "down"
  /\ phase' = "ingesting" /\ muted' = SeededMutes
  /\ UNCHANGED <<subscriber, queue, live, ts, call, now, cleanupAt, count,
                 offered, granted, lastEnd, got>>

\* The varlink socket is bound; the cleanup task exists only with a TTL.
BindSucceeds ==
  /\ phase = "ingesting"
  /\ phase' = "up"
  /\ cleanupAt' = IF TTL = None THEN None ELSE now + Interval
  /\ UNCHANGED <<subscriber, queue, live, ts, muted, call, now, count,
                 offered, granted, lastEnd, got>>

\* bind_hardened raised: the ingester is stopped and start() fails.
BindFails ==
  /\ phase = "ingesting"
  /\ phase' = "failed"
  /\ UNCHANGED <<subscriber, queue, live, ts, muted, call, now, cleanupAt,
                 count, offered, granted, lastEnd, got>>

\* stop(): the varlink server is closed and every client connection with it.
\* The ingester still runs while wait_closed() is awaited.
StopServer ==
  /\ phase = "up"
  /\ phase' = "closing"
  /\ subscriber' = [s \in Subscribers |->
                      IF subscriber[s] = "absent" THEN "absent" ELSE "gone"]
  /\ UNCHANGED <<queue, live, ts, muted, call, now, cleanupAt, count,
                 offered, granted, lastEnd, got>>

StopIngester ==
  /\ phase = "closing"
  /\ phase' = "draining"
  /\ UNCHANGED <<subscriber, queue, live, ts, muted, call, now, cleanupAt,
                 count, offered, granted, lastEnd, got>>

\* The verdict client is closed, the cleanup task cancelled and the maps
\* cleared; a verdict coroutine still suspended is left to finish.
StopClears ==
  /\ phase = "draining"
  /\ phase' = "stopped"
  /\ cleanupAt' = None
  /\ subscriber' = [s \in Subscribers |-> "absent"]
  /\ queue' = [s \in Subscribers |-> <<>>]
  /\ live' = Without(live, Requests)
  /\ ts' = Without(ts, Requests)
  /\ got' = [s \in Subscribers |-> 0]
  /\ UNCHANGED <<muted, call, now, count, offered, granted, lastEnd>>

\* The process ends, by a crash or after stop(): nothing is persisted, and a
\* coroutine suspended in apply() is cancelled with it.
Exit ==
  /\ phase # "down"
  /\ phase' = "down" /\ muted' = {}
  /\ subscriber' = [s \in Subscribers |-> "absent"]
  /\ queue' = [s \in Subscribers |-> <<>>]
  /\ live' = [r \in Requests |-> None]
  /\ ts' = [r \in Requests |-> None]
  /\ call' = [c \in Callers |-> None]
  /\ now' = 0 /\ cleanupAt' = None
  /\ count' = 0 /\ offered' = {} /\ granted' = {}
  /\ lastEnd' = [k \in Keys |-> 0]
  /\ got' = [s \in Subscribers |-> 0]

-----------------------------------------------------------------------------
(* Reader ingestion: _relay_reader_event never awaits *)

\* "pending": bound unless the id is empty, then fanned out.  A muted
\* container's prompt is dropped before both.
RelayBlocked(key, id, target) ==
  LET container == Stamped(key) IN
  /\ Ingesting /\ Room
  /\ container \notin muted
  /\ IF id = EmptyId THEN UNCHANGED <<live, ts, offered>>
     ELSE /\ live' = [live EXCEPT ![id] =
                        [container |-> container, target |-> target,
                         n |-> count + 1, put |-> [event |-> count + 1, at |-> now]]]
          /\ ts' = [ts EXCEPT ![id] = now]
          /\ offered' = offered \cup
               {[n |-> count + 1, id |-> id, container |-> container,
                 target |-> target, at |-> now]}
  /\ FanOut("connection_blocked", container, id, None)
  /\ UNCHANGED <<phase, subscriber, muted, callVars, timeVars, lastEnd, got>>

\* Every other known type is fanned out; the retiring ones first drop the
\* container's bindings, and container_exited its mute.
RelayLifecycle(type, key) ==
  LET container == Stamped(key) IN
  /\ Ingesting /\ Room
  /\ IF type \in Retiring
     THEN /\ live' = Without(live, RetiredBy(container))
          /\ ts' = Without(ts, RetiredBy(container))
     ELSE UNCHANGED <<live, ts>>
  /\ lastEnd' = IF type \in Endings
                  THEN [lastEnd EXCEPT ![container] = count + 1] ELSE lastEnd
  /\ muted' = IF type = "container_exited" THEN muted \ {container} ELSE muted
  /\ FanOut(type, container, EmptyId, None)
  /\ UNCHANGED <<phase, subscriber, callVars, timeVars, offered, got>>

-----------------------------------------------------------------------------
(* Expiry *)

\* The clock.  The cleanup task is woken on time, and the bind takes no time
\* on a clock whose unit is minutes.
Tick ==
  /\ phase \notin {"down", "ingesting", "failed"} /\ now < MaxNow
  /\ cleanupAt # None => now < cleanupAt
  /\ now' = now + 1
  /\ UNCHANGED <<phase, subscriber, queue, live, ts, muted, call, cleanupAt,
                 count, offered, granted, lastEnd, got>>

Cleanup ==
  /\ cleanupAt = now
  /\ live' = Without(live, Expired)
  /\ ts' = Without(ts, Expired)
  /\ cleanupAt' = now + Interval
  /\ UNCHANGED <<phase, subscriber, queue, muted, call, now, count, offered,
                 granted, lastEnd, got>>

-----------------------------------------------------------------------------
(* Subscriptions *)

Subscribe(s) ==
  /\ Serving /\ subscriber[s] = "absent"
  /\ subscriber' = [subscriber EXCEPT ![s] = "open"]
  /\ queue' = [queue EXCEPT ![s] = <<>>]
  /\ got' = [got EXCEPT ![s] = count]
  /\ UNCHANGED <<phase, hubVars, callVars, timeVars, count, offered, lastEnd>>

\* queue.get() returns and the yielded event is sent to the client.
Deliver(s) ==
  /\ subscriber[s] = "open" /\ queue[s] # <<>>
  /\ queue' = [queue EXCEPT ![s] = Tail(@)]
  /\ got' = [got EXCEPT ![s] = Head(queue[s]).n]
  /\ UNCHANGED <<phase, subscriber, hubVars, callVars, timeVars, count,
                 offered, lastEnd>>

\* The client goes away; the generator learns of it at its next send.
Disconnect(s) ==
  /\ subscriber[s] = "open"
  /\ subscriber' = [subscriber EXCEPT ![s] = "gone"]
  /\ UNCHANGED <<phase, queue, hubVars, callVars, timeVars, count, offered,
                 lastEnd, got>>

\* The send fails and aclose() runs the generator's finally block.
CloseGenerator(s) ==
  /\ subscriber[s] = "gone" /\ queue[s] # <<>>
  /\ subscriber' = [subscriber EXCEPT ![s] = "absent"]
  /\ queue' = [queue EXCEPT ![s] = <<>>]
  /\ got' = [got EXCEPT ![s] = 0]
  /\ UNCHANGED <<phase, hubVars, callVars, timeVars, count, offered, lastEnd>>

-----------------------------------------------------------------------------
(* Verdicts.  Allow and deny take the same path, so the action is left out;  *)
(* InvalidAction is refused before any state is read, and is no step.       *)

\* UnknownRequest: both pops find nothing.
RefuseUnknown(c, id) ==
  /\ Serving /\ call[c] = None
  /\ live[id] = None
  /\ Pop(id)
  /\ UNCHANGED <<phase, subscriber, muted, callVars, timeVars, fanVars,
                 offered, lastEnd, got>>

\* VerdictTupleMismatch: the popped entry goes back where it was, with no
\* await between the two.
RefuseMismatch(c, id, container, target) ==
  /\ Serving /\ call[c] = None
  /\ live[id] # None /\ ~Matches(id, container, target)
  /\ live' = live
  /\ ts' = [ts EXCEPT ![id] = Stamp(id)]
  /\ UNCHANGED <<phase, subscriber, muted, callVars, timeVars, fanVars,
                 offered, lastEnd, got>>

\* The triple matches: the entry is popped and the helper is awaited.
VerdictBegin(c, id, container, target) ==
  /\ Serving /\ Room /\ call[c] = None
  /\ live[id] # None /\ Matches(id, container, target)
  /\ call' = [call EXCEPT ![c] =
                [id |-> id, container |-> container, target |-> target,
                 held |-> live[id], ts |-> ts[id]]]
  /\ Pop(id)
  /\ UNCHANGED <<phase, subscriber, muted, granted, timeVars, fanVars,
                 offered, lastEnd, got>>

\* apply() returned ok: the entry stays consumed.
VerdictApplied(c) ==
  /\ call[c] # None
  /\ granted' = granted \cup {call[c].held.n}
  /\ Consume(c)
  /\ Announce(c, TRUE)
  /\ call' = [call EXCEPT ![c] = None]
  /\ UNCHANGED <<phase, subscriber, muted, timeVars, offered, lastEnd, got>>

\* apply() returned not ok: the entry is restored over whatever the map holds
\* by now, and the outcome is fanned out in the same stretch.
VerdictFailed(c) ==
  /\ call[c] # None
  /\ PutBack(call[c].id, call[c].held, call[c].ts, count + 1)
  /\ Announce(c, FALSE)
  /\ call' = [call EXCEPT ![c] = None]
  /\ UNCHANGED <<phase, subscriber, muted, granted, timeVars, offered,
                 lastEnd, got>>

-----------------------------------------------------------------------------
(* Mutes *)

\* SetMute for a key this hub serves; any other key is UnknownContainer.
SetMute(key, on) ==
  /\ Serving /\ MuteKey(key) # None
  /\ muted' = IF on THEN muted \cup {MuteKey(key)} ELSE muted \ {MuteKey(key)}
  /\ UNCHANGED <<phase, subscriber, live, ts, callVars, timeVars, fanVars,
                 offered, lastEnd, got>>

-----------------------------------------------------------------------------

Lifecycle == \/ StartIngester \/ BindSucceeds \/ BindFails
             \/ StopServer \/ StopIngester \/ StopClears \/ Exit

Relay ==
  \E key \in Keys :
    \/ \E id \in Requests \cup {EmptyId}, target \in Targets :
         RelayBlocked(key, id, target)
    \/ \E type \in LifecycleTypes : RelayLifecycle(type, key)

Stream(s) == Subscribe(s) \/ Deliver(s) \/ Disconnect(s) \/ CloseGenerator(s)

VerdictEnd(c) == VerdictApplied(c) \/ VerdictFailed(c)

Verdict(c) ==
  \/ \E id \in Requests :
       \/ RefuseUnknown(c, id)
       \/ \E container \in Keys, target \in Targets :
            \/ RefuseMismatch(c, id, container, target)
            \/ VerdictBegin(c, id, container, target)
  \/ VerdictEnd(c)

Next ==
  \/ Lifecycle \/ Relay \/ Tick \/ Cleanup
  \/ \E s \in Subscribers : Stream(s)
  \/ \E c \in Callers : Verdict(c)
  \/ \E key \in Keys, on \in BOOLEAN : SetMute(key, on)

Spec == Init /\ [][Next]_vars

\* asyncio runs every ready coroutine, so a reader of a non-empty queue is
\* served; the helper answers or its connection breaks, so apply() returns, on the
\* assumption of VerdictPath!FairSpec about the pipe of a killed shield.
\* Nobody is obliged to connect, call, emit, stop or crash.
Fairness == /\ \A s \in Subscribers : WF_vars(Deliver(s))
            /\ \A c \in Callers : WF_vars(VerdictEnd(c))

FairSpec == Spec /\ Fairness

-----------------------------------------------------------------------------
(* What the hub implements *)

PromptOf(r) == [n |-> live[r].n, id |-> r, container |-> live[r].container,
                target |-> live[r].target, at |-> ts[r]]

PromptIn(c) == [n |-> call[c].held.n, id |-> call[c].id,
                container |-> call[c].container, target |-> call[c].target,
                at |-> call[c].ts]

Open == {PromptOf(r) : r \in {x \in Requests : live[x] # None}}

Running == [c \in Callers |-> IF call[c] = None THEN None ELSE PromptIn(c)]

Settled == {p \in offered : p.n \in granted}

Authz == INSTANCE ClearanceAuthz WITH
  asked <- offered, open <- Open, running <- Running, settled <- Settled

\* The bindings and the suspended verdict calls implement ClearanceAuthz.
ImplementsAuthz == Authz!Spec

-----------------------------------------------------------------------------
(* Properties *)

TypeOK ==
  /\ phase \in Phases
  /\ subscriber \in [Subscribers -> {"absent", "open", "gone"}]
  /\ queue \in [Subscribers -> Seq(Event)]
  /\ live \in [Requests -> Binding \cup {None}]
  /\ ts \in [Requests -> Nat \cup {None}]
  /\ muted \subseteq Keys
  /\ call \in [Callers -> Suspended \cup {None}]
  /\ now \in Nat /\ cleanupAt \in Nat \cup {None}
  /\ count \in Nat /\ offered \subseteq Prompt /\ granted \subseteq Nat
  /\ lastEnd \in [Keys -> Nat] /\ got \in [Subscribers -> Nat]

\* A binding has a timestamp exactly while it is in the map, whichever of the
\* six places that touch the two dictionaries ran last: a binding without one
\* would never expire.
Lockstep == \A r \in Requests : live[r] = None <=> ts[r] = None

\* What the map holds was announced as it stands, and its timestamp is still
\* the time of the announcement, after any number of refusals and retries.
BindingsAreOffers ==
  \A r \in Requests : live[r] # None => PromptOf(r) \in offered

\* The shield is only ever run on a (container, request_id, dest) triple this
\* life of the hub announced, and never outside the hub's own container.
VerdictsCiteOffers ==
  \A c \in InFlight :
    /\ PromptIn(c) \in offered
    /\ Own # None => call[c].container = Own

\* However many clients answer a prompt, and however often a failed verdict is
\* retried, one shield run at a time works on it, and none after one succeeded.
AnsweredOnce ==
  /\ \A c, d \in InFlight : c # d => call[c].held.n # call[d].held.n
  /\ \A c \in InFlight, r \in Requests :
       live[r] # None => live[r].n # call[c].held.n
  /\ \A c \in InFlight : call[c].held.n \notin granted
  /\ \A r \in Requests : live[r] # None => live[r].n \notin granted

\* A shield drop or a container exit retires every binding of the container
\* that is in the map then: one found there later was put there later.
PurgeIsComplete ==
  \A r \in Requests : live[r] # None =>
    live[r].put.event > lastEnd[live[r].container]

\* hub/server.py:15-16, "The triple is recorded at emit time and dropped on
\* verdict or lifecycle change": no binding outlives a lifecycle event of its
\* container that came after its announcement.
DroppedOnLifecycleChange ==
  \A r \in Requests : live[r] # None =>
    live[r].n > lastEnd[live[r].container]

BornAt(n) == (CHOOSE p \in offered : p.n = n).at

\* A binding that has been in the map for a whole cleanup interval is no older
\* than the TTL and that interval, counted from its announcement: neither a
\* refused nor a failed verdict extends its life.
ExpiryBound ==
  \A r \in Requests :
    live[r] # None /\ cleanupAt # None /\ now - live[r].put.at > Interval
      => now - BornAt(live[r].n) <= TTL + Interval

\* A hub for one container knows it by one key everywhere, whatever key the
\* producers used.
SingleIdentity ==
  Own # None =>
    /\ muted \subseteq {Own}
    /\ \A r \in Requests : live[r] # None => live[r].container = Own
    /\ \A s \in Subscribers : \A i \in DOMAIN queue[s] : queue[s][i].container = Own

\* While a container is muted no prompt for it is announced, even one that
\* could not be answered; a single-container hub muted under any of its keys
\* announces none at all.
MutedIsSilent ==
  [][\A s \in Subscribers : \A i \in DOMAIN queue'[s] :
       queue'[s][i].n > count /\ queue'[s][i].type = "connection_blocked"
         => /\ queue'[s][i].container \notin muted
            /\ Own # None => muted = {}]_vars

\* A queue holds the newest events of the stream, in order and without a gap,
\* and it holds all the subscriber has not had, up to its depth: an event is
\* lost only to overflow, and only the oldest.
Backlog ==
  \A s \in Attached :
    /\ \A i \in DOMAIN queue[s] : queue[s][i].n = count - Len(queue[s]) + i
    /\ \/ Len(queue[s]) = count - got[s]
       \/ Len(queue[s]) = QueueDepth /\ count - got[s] > QueueDepth

\* A subscriber that stays connected gets past the outcome of every verdict
\* that was in flight: it is announced, for success and failure alike, and the
\* queue is drained.
OutcomeReaches ==
  \A c \in Callers, s \in Subscribers : \A k \in 0..MaxEvents :
    (call[c] # None /\ subscriber[s] = "open" /\ count = k)
      ~> (subscriber[s] # "open" \/ got[s] > k)
=============================================================================
