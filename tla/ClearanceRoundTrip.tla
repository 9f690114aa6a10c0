-------------------------- MODULE ClearanceRoundTrip --------------------------
(***************************************************************************)
(* The hub and one terminal tool together: a blocked connection is bound   *)
(* and announced by the hub, listed by the tool, answered by the operator, *)
(* sent back as a verdict, and settled by the outcome event, while another *)
(* client answers the same prompts, the shield changes state, bindings     *)
(* expire and the tool's stream breaks.                                    *)
(*                                                                         *)
(* Both components are instantiated as they stand.  A joint action is the  *)
(* sending of an event and its handler, or the sending of a verdict and    *)
(* the hub's first slice on it: what lies between is a socket that keeps   *)
(* order.  The verdict the tool sends waits for the one before it, as both *)
(* use one varlink connection.                                             *)
(*                                                                         *)
(* That the reader gives each blocked connection an id of its own is       *)
(* assumed here (ClearanceHub does not).  stale is history.                *)
(***************************************************************************)
EXTENDS Integers, Sequences, FiniteSets

CONSTANTS
  Keys, Own, Aliases, LaunchMuted, Requests, EmptyId, Targets, Callers,
  Subscribers, QueueDepth, TTL, Interval, None, MaxEvents, MaxNow,
  Screen,  \* the subscriber whose events the terminal tool shows
  Tool,    \* the caller that is the terminal tool's call connection
  Changes  \* bound: lifecycle events the reader reports

VARIABLES
  phase, subscriber, queue, live, ts, muted, call, now, cleanupAt,
  count, offered, granted, lastEnd, got,
  pending, purges, sending, nextId, callbacks, listed, sent, events,
  stale  \* requests shown since before the stream last broke

hubVars  == <<phase, subscriber, queue, live, ts, muted, call, now, cleanupAt,
              count, offered, granted, lastEnd, got>>
termVars == <<pending, purges, sending, nextId, callbacks, listed, sent, events>>
vars == <<hubVars, termVars, stale>>

Hub  == INSTANCE ClearanceHub
Term == INSTANCE TerminalClearance WITH Containers <- Keys

\* What the subscriber keeps of a request it shows.
Shown == [nid : Nat, container : Keys, target : Targets]

\* The hub's own assumptions, as far as they matter here, and that the tool is
\* one of its clients; None is no request and no record.
ASSUME RoundTripAssumption ==
  /\ Tool \in Callers /\ Screen \in Subscribers
  /\ Own \in Keys \cup {None} /\ Changes \subseteq Hub!LifecycleTypes
  /\ None \notin Keys \cup Requests /\ None \notin Nat
  /\ None \notin Hub!Binding /\ None \notin Hub!Suspended /\ None \notin Shown
  /\ EmptyId \notin Requests
  /\ QueueDepth \in Nat \ {0} /\ Interval \in Nat \ {0}
  /\ TTL \in Nat \cup {None}

-----------------------------------------------------------------------------
(* Bounds: events are kept in reserve for every verdict that may follow.    *)

Answerable == {n \in Term!Nids : callbacks[n] # None}

Undelivered == {i \in DOMAIN queue[Screen] : queue[Screen][i].type = "connection_blocked"}

Spare(k) ==
  count + k + Cardinality(Hub!InFlight) + Cardinality(sending)
            + Cardinality(Answerable) + Cardinality(Undelivered) <= MaxEvents

-----------------------------------------------------------------------------
(* Joint actions *)

\* The prompt an event announced: the event carries what was bound with it.
Announced(e) == CHOOSE p \in offered : p.n = e.n

PurgingButDisengaged == {"shield_down", "container_exited"}  \* mutant

\* The events on which the subscriber purges a container's prompts.
Purging == {"shield_down", "shield_disengaged", "container_exited"}

\* The tool handles the event it receives; what it only prints changes nothing.
Handle(e) ==
  CASE e.type = "connection_blocked" -> Term!Blocked(e.container, Announced(e).target, e.id)
    [] e.type = "verdict_applied" /\ pending[e.id] # None -> Term!VerdictApplied(e.id)
    [] e.type \in Purging -> Term!Ends(e.container)
    [] OTHER -> UNCHANGED termVars

Receive ==
  /\ Hub!Deliver(Screen)
  /\ Handle(Head(queue[Screen]))
  /\ stale' = IF Head(queue[Screen]).type = "connection_blocked"
              THEN stale \ {Head(queue[Screen]).id} ELSE stale

\* The tool's verdict reaches the hub, which refuses it or calls the helper.
SendVerdict ==
  \E v \in sending :
    /\ Term!Send(v)
    /\ \/ Hub!RefuseUnknown(Tool, v.id)
       \/ Hub!RefuseMismatch(Tool, v.id, v.container, v.target)
       \/ Hub!VerdictBegin(Tool, v.id, v.container, v.target)
    /\ UNCHANGED stale

\* The stream breaks: the tool keeps what it lists, and what is announced until
\* it has subscribed again never reaches it.
StreamBreaks ==
  /\ Hub!Disconnect(Screen)
  /\ stale' = {r \in Requests : pending[r] # None}
  /\ UNCHANGED termVars

-----------------------------------------------------------------------------
(* Actions of one component *)

HubAlone ==
  /\ \/ Hub!StartIngester \/ Hub!BindSucceeds
     \/ Hub!Tick \/ Hub!Cleanup
     \/ Hub!Subscribe(Screen) \/ Hub!CloseGenerator(Screen)
     \/ \E c \in Callers : Hub!VerdictEnd(c)
  /\ UNCHANGED <<termVars, stale>>

Reader ==
  /\ \/ /\ Spare(2)
        /\ \E key \in Keys, id \in Requests, target \in Targets :
             /\ \A p \in offered : p.id = id => p.container = key /\ p.target = target
             /\ Hub!RelayBlocked(key, id, target)
     \/ /\ Spare(1)
        /\ \E key \in Keys, type \in Changes : Hub!RelayLifecycle(type, key)
  /\ UNCHANGED <<termVars, stale>>

\* Another client answers what the hub announced.
OtherAnswers ==
  /\ Spare(1)
  /\ \E c \in Callers \ {Tool}, p \in offered :
       \/ Hub!RefuseUnknown(c, p.id)
       \/ Hub!VerdictBegin(c, p.id, p.container, p.target)
  /\ UNCHANGED <<termVars, stale>>

ToolAlone ==
  /\ \/ \E k \in Keys : Term!Purge(k)
     \/ \E n \in Term!Nids : Term!Answer(n)
  /\ UNCHANGED <<hubVars, stale>>

-----------------------------------------------------------------------------
Init == Hub!Init /\ Term!Init /\ stale = {}

Next == Receive \/ SendVerdict \/ StreamBreaks \/ HubAlone \/ Reader
        \/ OtherAnswers \/ ToolAlone

Spec == Init /\ [][Next]_vars

\* Both event loops run what is ready, sockets deliver, the helper answers.
\* The reader, the operator and the other client owe nothing.
FairSpec ==
  /\ Spec
  /\ WF_vars(Receive) /\ WF_vars(SendVerdict)
  /\ \A c \in Callers : WF_vars(Hub!VerdictEnd(c) /\ UNCHANGED <<termVars, stale>>)
  /\ \A k \in Keys : WF_vars(Term!Purge(k) /\ UNCHANGED <<hubVars, stale>>)

-----------------------------------------------------------------------------
(* Properties *)

\* The binding of a request may have expired, which nobody is told.
Lapsed(r) == TTL # None /\ \E p \in offered : p.id = r /\ now - p.at > TTL

\* The tool has handled all it was sent, and no verdict on r is under way.
Settled(r) ==
  /\ subscriber[Screen] = "open" /\ queue[Screen] = <<>>
  /\ purges = {} /\ r \notin stale
  /\ \A c \in Hub!InFlight : call[c].id # r

\* What the tool takes for an open request the hub would still accept a verdict
\* on, with the very container and target the tool would send: once all has been
\* handled, no prompt is left for a binding that was used or retired.
OpenMeansAnswerable ==
  \A r \in Requests : pending[r] # None /\ Settled(r) /\ ~Lapsed(r) =>
    live[r] # None /\ Hub!Matches(r, pending[r].container, pending[r].target)

\* An answer comes to an end the operator can see: whichever of two clients wins,
\* whether the shield accepts, fails or is retired meanwhile, the request leaves
\* the open ones, unless the stream breaks or the binding expires first.
AnswersSettle ==
  \A r \in Requests :
    (\E v \in sending : v.id = r)
      ~> (pending[r] = None \/ subscriber[Screen] # "open" \/ r \in stale \/ Lapsed(r))

=============================================================================
