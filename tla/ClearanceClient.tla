--------------------------- MODULE ClearanceClient ---------------------------
(***************************************************************************)
(* The hub's client (client/client.py): two connections, one for the event *)
(* stream and one for calls, opened one after the other and dropped        *)
(* together; a stream task that hands each event to a callback and, when   *)
(* the stream ends, backs off and dials again until stop(); the calls      *)
(* verdict, set_mute and mutes on the second connection; and the one-shot  *)
(* helpers, which make a call on a connection of their own.                *)
(*                                                                         *)
(* One action is a slice between awaits of the stream task, of a call, or  *)
(* of the owner's start() and stop().  A hub that goes away loses every    *)
(* connection; one may also break alone.  Sockets are numbered so that one *)
(* the client forgot about can be told from one it holds.  A reply on the  *)
(* stream is an event or one the loop cannot use: an error reply, one that *)
(* does not convert or has no event in it, or the stream's last.  Time is  *)
(* the back-off itself.  faults is a bound; alone is history.              *)
(***************************************************************************)
EXTENDS Integers, FiniteSets

CONSTANTS
  None,
  Sockets,     \* socket numbers, reused once closed
  MaxBackoff,  \* _MAX_RECONNECT_BACKOFF_S
  MaxFaults    \* bound: times the hub goes away or a connection breaks

ASSUME ClientAssumption ==
  /\ Sockets \subseteq Nat /\ IsFiniteSet(Sockets) /\ None \notin Sockets
  /\ MaxBackoff \in Nat \ {0} /\ MaxFaults \in Nat

VARIABLES
  owner,    \* start() and stop(): new, starting, refused, running, stopping, stopped
  task,     \* _run_stream: none, streaming, handling, waiting, dialling, ended
  sub, rpc, \* _sub_transport, _rpc_transport
  wire,     \* each socket: free, open, lost
  inbound,  \* the reply the stream has yet to read: none, event, unusable
  backoff,  \* backoff
  poke,     \* _reconnect_poke is set
  hub,      \* is a hub listening?
  call,     \* the socket a call waits on, or None
  shot,     \* the socket of a one-shot helper, or None
  alone,    \* the call connection broke by itself
  faults

linkVars == <<sub, rpc, wire, inbound>>
loopVars == <<backoff, poke>>
callVars == <<call, shot>>
pastVars == <<alone, faults>>
restVars == <<hub, call, shot, alone, faults>>
vars == <<owner, task, sub, rpc, wire, inbound, backoff, poke, hub, call, shot,
          alone, faults>>

Healthy == {"streaming", "handling"}

-----------------------------------------------------------------------------
(* Helpers *)

Put(f, k, v) == [f EXCEPT ![k] = v]

\* A call that has yet to notice that its socket was closed still names it.
Free == {k \in Sockets : wire[k] = "free" /\ k # call}

\* _close_transports
CloseTransports ==
  /\ sub' = None /\ rpc' = None /\ inbound' = "none"
  /\ wire' = [k \in Sockets |-> IF k \in {sub, rpc} THEN "free" ELSE wire[k]]

\* _connect, first await: the subscription socket opens.
OpenSub ==
  /\ hub /\ sub = None
  /\ \E k \in Free : sub' = k /\ wire' = Put(wire, k, "open")
  /\ UNCHANGED <<rpc, inbound>>

\* _connect, second await: the call socket opens.
OpenRpc ==
  /\ hub /\ sub # None
  /\ \E k \in Free : rpc' = k /\ wire' = Put(wire, k, "open")
  /\ alone' = FALSE
  /\ UNCHANGED <<sub, inbound>>

DialFailsKeeping ==  \* mutant: no rollback of the first socket
  /\ ~hub
  /\ sub' = None /\ rpc' = None /\ UNCHANGED <<wire, inbound>>

\* Either await raises; _connect rolls back.
DialFails ==
  /\ ~hub
  /\ CloseTransports

-----------------------------------------------------------------------------
Init ==
  /\ owner = "new" /\ task = "none"
  /\ sub = None /\ rpc = None /\ wire = [k \in Sockets |-> "free"]
  /\ inbound = "none"
  /\ backoff = 1 /\ poke = FALSE
  /\ hub \in BOOLEAN
  /\ call = None /\ shot = None
  /\ alone = FALSE /\ faults = 0

(* start() *)

Start ==
  /\ owner = "new"
  /\ owner' = "starting"
  /\ UNCHANGED <<task, linkVars, loopVars, restVars>>

StartOpensSub ==
  /\ owner = "starting" /\ OpenSub
  /\ UNCHANGED <<owner, task, loopVars, restVars>>

StartConnects ==
  /\ owner = "starting" /\ OpenRpc
  /\ owner' = "running" /\ task' = "streaming"
  /\ UNCHANGED <<loopVars, hub, callVars, faults>>

StartRefused ==
  /\ owner = "starting" /\ DialFails
  /\ owner' = "refused"
  /\ UNCHANGED <<task, loopVars, restVars>>

(* _run_stream *)

EventArrives ==
  /\ task = "streaming" /\ inbound = "event"
  /\ task' = "handling" /\ inbound' = "none"
  /\ UNCHANGED <<owner, sub, rpc, wire, loopVars, restVars>>

EventHandledOrElse ==  \* mutant: a callback that raises ends the stream
  /\ task = "handling"
  /\ \/ task' = "streaming" /\ UNCHANGED linkVars
     \/ task' = "waiting" /\ CloseTransports
  /\ UNCHANGED <<owner, loopVars, restVars>>

\* The callback returns or raises: either way the stream goes on.
EventHandled ==
  /\ task = "handling"
  /\ task' = "streaming"
  /\ UNCHANGED <<owner, linkVars, loopVars, restVars>>

\* Its connection is lost, or the next reply ends the loop or raises in it.
StreamOver == wire[sub] = "lost" \/ inbound = "unusable"

\* Both connections are dropped, open or not, and the back-off begins.
StreamEnds ==
  /\ task = "streaming" /\ StreamOver
  /\ CloseTransports
  /\ task' = "waiting"
  /\ UNCHANGED <<owner, loopVars, restVars>>

BackoffUncapped ==  \* mutant
  /\ task = "waiting" /\ ~poke
  /\ task' = "dialling"
  /\ backoff' = 2 * backoff
  /\ UNCHANGED <<owner, linkVars, poke, restVars>>

BackoffExpires ==
  /\ task = "waiting" /\ ~poke
  /\ task' = "dialling"
  /\ backoff' = IF 2 * backoff < MaxBackoff THEN 2 * backoff ELSE MaxBackoff
  /\ UNCHANGED <<owner, linkVars, poke, restVars>>

\* wait() returns at once when the event is set already.
BackoffPoked ==
  /\ task = "waiting" /\ poke
  /\ task' = "dialling"
  /\ poke' = FALSE /\ backoff' = 1
  /\ UNCHANGED <<owner, linkVars, restVars>>

RedialOpensSub ==
  /\ task = "dialling" /\ OpenSub
  /\ UNCHANGED <<owner, task, loopVars, restVars>>

ReconnectStream ==  \* mutant: only the stream is dialled again
  /\ task = "dialling" /\ sub # None
  /\ task' = "streaming" /\ backoff' = 1
  /\ UNCHANGED <<owner, linkVars, poke, restVars>>

Reconnect ==
  /\ task = "dialling" /\ OpenRpc
  /\ task' = "streaming" /\ backoff' = 1
  /\ UNCHANGED <<owner, poke, hub, callVars, faults>>

RedialFailsForGood ==  \* mutant: a refused connection ends the loop
  /\ task = "dialling" /\ DialFails
  /\ task' = "ended"
  /\ UNCHANGED <<owner, loopVars, restVars>>

\* With no proxy the next pass raises at once and backs off again.
RedialFails ==
  /\ task = "dialling" /\ DialFails
  /\ task' = "waiting"
  /\ UNCHANGED <<owner, loopVars, restVars>>

(* poke_reconnect() and stop() *)

Poke ==
  /\ poke' = TRUE
  /\ UNCHANGED <<owner, task, linkVars, backoff, restVars>>

\* After start() has returned or raised.
Stop ==
  /\ owner \in {"running", "refused"}
  /\ owner' = "stopping"
  /\ UNCHANGED <<task, linkVars, loopVars, restVars>>

StopForgetsTask ==  \* mutant: the transports are not closed
  /\ owner = "stopping"
  /\ owner' = "stopped" /\ task' = "ended"
  /\ UNCHANGED <<linkVars, loopVars, restVars>>

\* The task has taken its cancellation, in whatever await it was.
StopEnds ==
  /\ owner = "stopping"
  /\ owner' = "stopped" /\ task' = "ended"
  /\ CloseTransports
  /\ UNCHANGED <<loopVars, restVars>>

(* verdict(), set_mute() and mutes(): one at a time here.  Without a proxy they *)
(* say so at once, which is no step.                                           *)

CallSent ==
  /\ call = None /\ rpc # None
  /\ call' = rpc
  /\ UNCHANGED <<owner, task, linkVars, loopVars, hub, shot, pastVars>>

\* The socket is lost or was closed under the call: verdict() raises, the mute
\* calls return None; neither touches the connections.
CallBreaks ==
  /\ call # None /\ wire[call] # "open"
  /\ call' = None
  /\ UNCHANGED <<owner, task, linkVars, loopVars, hub, shot, pastVars>>

\* A reply or a refusal.
CallReturns ==
  /\ call # None /\ wire[call] = "open"
  /\ call' = None
  /\ UNCHANGED <<owner, task, linkVars, loopVars, hub, shot, pastVars>>

(* set_container_mute() and container_mutes() *)

ShotDials ==
  /\ hub /\ shot = None
  /\ \E k \in Free : shot' = k /\ wire' = Put(wire, k, "open")
  /\ UNCHANGED <<owner, task, sub, rpc, inbound, loopVars, hub, call, pastVars>>

\* A reply, a refusal, a lost connection or the caller's timeout: _one_shot
\* closes the connection however the call ends.
ShotEnds ==
  /\ shot # None
  /\ shot' = None /\ wire' = Put(wire, shot, "free")
  /\ UNCHANGED <<owner, task, sub, rpc, inbound, loopVars, hub, call, pastVars>>

(* The hub *)

\* What comes on an open stream next.
Replies ==
  /\ task \in Healthy /\ wire[sub] = "open" /\ inbound = "none"
  /\ inbound' \in {"event", "unusable"}
  /\ UNCHANGED <<owner, task, sub, rpc, wire, loopVars, restVars>>

HubGoes ==
  /\ hub /\ faults < MaxFaults
  /\ hub' = FALSE /\ faults' = faults + 1
  /\ wire' = [k \in Sockets |-> IF wire[k] = "open" THEN "lost" ELSE wire[k]]
  /\ UNCHANGED <<owner, task, sub, rpc, inbound, loopVars, callVars, alone>>

HubComes ==
  /\ ~hub
  /\ hub' = TRUE
  /\ UNCHANGED <<owner, task, linkVars, loopVars, callVars, pastVars>>

\* One connection breaks while the hub and the others live on.
ConnectionBreaks(k) ==
  /\ wire[k] = "open" /\ faults < MaxFaults
  /\ wire' = Put(wire, k, "lost") /\ faults' = faults + 1
  /\ alone' = (alone \/ k = rpc)
  /\ UNCHANGED <<owner, task, sub, rpc, inbound, loopVars, hub, callVars>>

-----------------------------------------------------------------------------
Dialling == StartOpensSub \/ StartConnects \/ StartRefused
            \/ RedialOpensSub \/ Reconnect \/ RedialFails

Streaming == EventArrives \/ EventHandled \/ StreamEnds \/ BackoffExpires \/ BackoffPoked

CallEnds == CallBreaks \/ CallReturns

Hub == Replies \/ HubGoes \/ HubComes \/ \E k \in Sockets : ConnectionBreaks(k)

Next == Start \/ Dialling \/ Streaming \/ Poke \/ Stop \/ StopEnds
        \/ CallSent \/ CallEnds \/ ShotDials \/ ShotEnds \/ Hub

Spec == Init /\ [][Next]_vars

\* The event loop resumes what can go on, timers fire, the kernel answers a
\* connect.  That events come, calls are answered, pokes, stops and restarts of the
\* hub is not assumed.
FairSpec == Spec /\ WF_vars(Dialling) /\ WF_vars(Streaming) /\ WF_vars(StopEnds)

-----------------------------------------------------------------------------
(* Properties *)

\* Every variable keeps its type; the back-off stays within its cap.
TypeOK ==
  /\ owner \in {"new", "starting", "refused", "running", "stopping", "stopped"}
  /\ task \in Healthy \cup {"none", "waiting", "dialling", "ended"}
  /\ sub \in Sockets \cup {None} /\ rpc \in Sockets \cup {None}
  /\ wire \in [Sockets -> {"free", "open", "lost"}]
  /\ inbound \in {"none", "event", "unusable"}
  /\ backoff \in 1..MaxBackoff
  /\ poke \in BOOLEAN /\ hub \in BOOLEAN
  /\ call \in Sockets \cup {None} /\ shot \in Sockets \cup {None}
  /\ alone \in BOOLEAN /\ faults \in 0..MaxFaults

\* "A partial failure doesn't leak a live socket" (_connect): whatever fails and
\* whenever the hub comes and goes, each socket that is not closed is one the
\* client still holds.
NoSocketLeaks == \A k \in Sockets : wire[k] # "free" => k \in {sub, rpc, shot}

\* stop() leaves nothing behind: no socket, and a stream task that has ended.
StoppedIsClosed ==
  owner = "stopped" => task = "ended" /\ \A k \in Sockets \ {shot} : wire[k] = "free"

\* A streaming client hangs up on a live connection, and so loses events or the
\* answer to a call, only to stop or because its stream is over, lost or at a reply
\* that cannot be used: not because a callback raised, a poke came or a call failed.
HangsUpOnlyWithCause ==
  [][\A k \in {sub, rpc} \ {None} :
       task \in Healthy /\ wire[k] = "open" /\ k \notin {sub', rpc'}
         => owner' = "stopped" \/ StreamOver]_vars

\* Consumers survive a restart of the hub (start()): if the hub is up for good,
\* a started client streams again, however many outages and refusals came first.
Reconnects ==
  <>[]hub => []<>(owner = "running" => task \in Healthy)

\* As long as events stream in, they can be answered: the call connection is up
\* with the stream through any sequence of outages, refusals and redials, unless
\* it broke by itself, and then nothing redials it before the stream breaks.
StreamingMeansCallable ==
  task \in Healthy /\ wire[sub] = "open" /\ ~alone => rpc # None /\ wire[rpc] = "open"

=============================================================================
