-------------------------- MODULE TerminalClearance --------------------------
(***************************************************************************)
(* The terminal tool (cli/terminal_clearance.py): an EventSubscriber over  *)
(* a CallbackNotifier (notifications/callback.py), whose hook keeps the    *)
(* list of requests the operator can answer by number.                     *)
(*                                                                         *)
(* No call to this notifier suspends, so every handler runs in one slice   *)
(* and is one action; the purge of a container and the sending of a        *)
(* verdict are background tasks.  Popups without buttons that replace      *)
(* nothing are only printed and are left out.  sent and events are history.*)
(***************************************************************************)
EXTENDS Integers, FiniteSets

CONSTANTS
  Containers, Targets, Requests, None,
  MaxEvents  \* bound: hub events handled

VARIABLES
  pending,   \* EventSubscriber._pending
  purges,    \* containers whose purge task has still to run
  sending,   \* verdicts whose task has still to run
  nextId,    \* CallbackNotifier._next_id
  callbacks, \* CallbackNotifier._callbacks
  listed,    \* _TerminalClearance._pending
  sent, events

vars == <<pending, purges, sending, nextId, callbacks, listed, sent, events>>

Nids == 1..MaxEvents
Verdict == [container : Containers, target : Targets, id : Requests]

Put(f, k, v) == [f EXCEPT ![k] = v]

\* The pending block to reuse.
LiveBlockOn(container, target) ==
  LET Q == {r \in Requests : pending[r] # None /\ pending[r].container = container
                                               /\ pending[r].target = target}
  IN  IF Q = {} THEN None ELSE CHOOSE r \in Q : TRUE

\* notify() and the terminal's hook: whatever replaces a listed prompt takes it
\* off the list; otherwise a popup with buttons goes on it.
Notify(nid, replaces, buttons) ==
  listed' = IF replaces /\ nid \in listed THEN listed \ {nid}
            ELSE IF buttons THEN listed \cup {nid} ELSE listed

-----------------------------------------------------------------------------
Init ==
  /\ pending = [r \in Requests |-> None]
  /\ purges = {} /\ sending = {}
  /\ nextId = 1
  /\ callbacks = [n \in Nids |-> None]
  /\ listed = {}
  /\ sent = {} /\ events = 0

Blocked(container, target, id) ==
  /\ events < MaxEvents /\ events' = events + 1
  /\ pending[id] # None => pending[id].container = container /\ pending[id].target = target
  /\ LET prior == LiveBlockOn(container, target)
         nid   == IF prior = None THEN nextId ELSE pending[prior].nid
         kept  == IF prior = None THEN pending ELSE Put(pending, prior, None)
     IN  /\ nextId' = IF prior = None THEN nextId + 1 ELSE nextId
         /\ Notify(nid, prior # None, TRUE)
         /\ pending' = Put(kept, id, [nid |-> nid, container |-> container, target |-> target])
         /\ callbacks' = Put(callbacks, nid, [container |-> container, target |-> target, id |-> id])
  /\ UNCHANGED <<purges, sending, sent>>

VerdictApplied(id) ==
  /\ events < MaxEvents /\ events' = events + 1
  /\ pending[id] # None
  /\ pending' = Put(pending, id, None)
  /\ Notify(pending[id].nid, TRUE, FALSE)
  /\ UNCHANGED <<purges, sending, nextId, callbacks, sent>>

\* shield_down, shield_disengaged or container_exited.
Ends(container) ==
  /\ events < MaxEvents /\ events' = events + 1
  /\ purges' = purges \cup {container}
  /\ UNCHANGED <<pending, sending, nextId, callbacks, listed, sent>>

\* close() tells the notifier, which does not tell the terminal.
Purge(container) ==
  /\ container \in purges
  /\ purges' = purges \ {container}
  /\ LET stale == {r \in Requests : pending[r] # None /\ pending[r].container = container}
     IN  /\ pending' = [r \in Requests |-> IF r \in stale THEN None ELSE pending[r]]
         /\ callbacks' = [n \in Nids |-> IF \E r \in stale : pending[r].nid = n
                                         THEN None ELSE callbacks[n]]
  /\ UNCHANGED <<sending, nextId, listed, sent, events>>

\* "a <N>" or "d <N>": invoke_action pops the callback.
Answer(nid) ==
  /\ nid \in listed
  /\ callbacks[nid] # None
  /\ sending' = sending \cup {callbacks[nid]}
  /\ callbacks' = Put(callbacks, nid, None)
  /\ UNCHANGED <<pending, purges, nextId, listed, sent, events>>

Send(verdict) ==
  /\ verdict \in sending
  /\ sending' = sending \ {verdict}
  /\ sent' = sent \cup {verdict}
  /\ UNCHANGED <<pending, purges, nextId, callbacks, listed, events>>

Next ==
  \/ \E c \in Containers, t \in Targets, r \in Requests : Blocked(c, t, r)
  \/ \E r \in Requests : VerdictApplied(r)
  \/ \E c \in Containers : Ends(c) \/ Purge(c)
  \/ \E n \in Nids : Answer(n)
  \/ \E v \in Verdict : Send(v)

Spec == Init /\ [][Next]_vars

-----------------------------------------------------------------------------
\* "A live prompt for the same (container, target) is reused, and the verdict
\* routes to the latest request_id" (_handle_connection_blocked): a request the
\* subscriber holds open can be answered in the terminal.
OpenRequestIsListed ==
  \A r \in Requests : pending[r] # None => pending[r].nid \in listed

=============================================================================
