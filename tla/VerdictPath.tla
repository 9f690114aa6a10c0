----------------------------- MODULE VerdictPath -----------------------------
(***************************************************************************)
(* How one authorised verdict reaches terok-shield: VerdictClient.apply in *)
(* the hub (verdict/client.py), which shares one lazily opened connection  *)
(* among all callers and retries once, and run_shield in the verdict       *)
(* helper (verdict/server.py), which runs the shield under a timeout and   *)
(* answers.  This is what the hub's model takes as one await.              *)
(*                                                                         *)
(* One action of the client is a slice between awaits.  The helper process *)
(* may crash, stop and start again; the shield it spawned then lives on or *)
(* dies, and so may act after its caller was told that it had failed.      *)
(* Connections are numbered as they are opened.  acts, accepted and        *)
(* outages are history.                                                    *)
(***************************************************************************)
EXTENDS Integers, FiniteSets

CONSTANTS
  Callers,     \* verdicts applied through one VerdictClient
  None,
  MaxLinks,    \* bound: connections opened
  MaxOutages   \* bound: crashes and stops of the helper, stops of the client

ASSUME PathAssumption ==
  /\ None \notin Callers /\ None \notin 1..MaxLinks
  /\ None \notin {"ok", "failed", "unreachable"}
  /\ MaxLinks \in Nat /\ MaxOutages \in Nat

Links == 1..MaxLinks
Attempts == {1, 2}

VARIABLES
  at,       \* where each apply() stands
  attempt,  \* its loop variable
  on,       \* the connection its Apply call went out on
  result,   \* what it returned: ok, failed (the helper said so), unreachable
  conn,     \* _transport and _proxy, always set and dropped together
  lock,     \* holder of _connect_lock
  link,     \* state of each connection: unused, open, lost (by the helper), closed (by us)
  helper,   \* up, stopping, down
  serving,  \* the helper's Apply handlers still waiting for their shield
  shield,   \* each attempt's terok-shield process and its stderr pipe
  acts, accepted, outages  \* history

clientVars == <<at, attempt, on, result, conn, lock>>
helperVars == <<helper, serving>>
pastVars   == <<acts, accepted, outages>>
vars == <<at, attempt, on, result, conn, lock, link, helper, serving, shield,
          acts, accepted, outages>>

Stages == {"idle", "waiting", "connecting", "calling", "done"}
Handlers == Callers \X Attempts

-----------------------------------------------------------------------------
(* Helpers *)

Put(f, k, v) == [f EXCEPT ![k] = v]

Waiting == {c \in Callers : at[c] = "waiting"}
NextLink == 1 + Cardinality({k \in Links : link[k] # "unused"})

\* The slice of apply() that wants a connection and finds none: asyncio's lock
\* goes to the caller at once only if it is free and nobody queues for it.
Acquire(c, holder) ==
  IF holder = None /\ Waiting \ {c} = {}
  THEN lock' = c /\ at' = Put(at, c, "connecting")
  ELSE lock' = holder /\ at' = Put(at, c, "waiting")

\* _disconnect: drop the cached connection, whoever it belongs to.
Disconnect ==
  link' = IF conn # None /\ link[conn] \in {"open", "lost"}
          THEN Put(link, conn, "closed") ELSE link

FailedHolding(c, holder) ==  \* mutant: a refused connect keeps the lock
  /\ conn' = None
  /\ Disconnect
  /\ IF attempt[c] = 1
     THEN /\ attempt' = Put(attempt, c, 2)
          /\ Acquire(c, lock)
          /\ UNCHANGED result
     ELSE /\ at' = Put(at, c, "done") /\ result' = Put(result, c, "unreachable")
          /\ UNCHANGED <<lock, attempt>>

FailedUncounted(c, holder) ==  \* mutant: no bound on the attempts
  /\ conn' = None
  /\ Disconnect
  /\ attempt' = Put(attempt, c, attempt[c] + 1)
  /\ Acquire(c, holder)
  /\ UNCHANGED result

\* The except branch of apply(): disconnect, then the second attempt or give up.
Failed(c, holder) ==
  /\ conn' = None
  /\ Disconnect
  /\ IF attempt[c] = 1
     THEN /\ attempt' = Put(attempt, c, 2)
          /\ Acquire(c, holder)
          /\ UNCHANGED result
     ELSE /\ at' = Put(at, c, "done") /\ result' = Put(result, c, "unreachable")
          /\ lock' = holder
          /\ UNCHANGED attempt

-----------------------------------------------------------------------------
Init ==
  /\ at = [c \in Callers |-> "idle"]
  /\ attempt = [c \in Callers |-> 1]
  /\ on = [c \in Callers |-> None]
  /\ result = [c \in Callers |-> None]
  /\ conn = None /\ lock = None
  /\ link = [k \in Links |-> "unused"]
  /\ helper = "up"
  /\ serving = {}
  /\ shield = [h \in Handlers |-> "none"]
  /\ acts = [c \in Callers |-> 0]
  /\ accepted = {} /\ outages = 0

(* VerdictClient *)

\* apply(): with a connection cached the call goes out in the same slice.
Apply(c) ==
  /\ at[c] = "idle"
  /\ IF conn # None
     THEN /\ at' = Put(at, c, "calling") /\ on' = Put(on, c, conn)
          /\ UNCHANGED lock
     ELSE Acquire(c, lock) /\ UNCHANGED on
  /\ UNCHANGED <<attempt, result, conn, link, helperVars, shield, pastVars>>

LockGrantedUnchecked(c) ==  \* mutant: no second look at _proxy
  /\ at[c] = "waiting" /\ lock = None
  /\ lock' = c /\ at' = Put(at, c, "connecting")
  /\ UNCHANGED <<on, attempt, result, conn, link, helperVars, shield, pastVars>>

\* The lock comes to a waiter, which looks again before it connects.
LockGranted(c) ==
  /\ at[c] = "waiting" /\ lock = None
  /\ IF conn # None
     THEN /\ at' = Put(at, c, "calling") /\ on' = Put(on, c, conn)
          /\ UNCHANGED lock
     ELSE /\ lock' = c /\ at' = Put(at, c, "connecting")
          /\ UNCHANGED on
  /\ UNCHANGED <<attempt, result, conn, link, helperVars, shield, pastVars>>

Connected(c) ==
  /\ at[c] = "connecting"
  /\ helper = "up"
  /\ NextLink \in Links
  /\ conn' = NextLink /\ link' = Put(link, NextLink, "open")
  /\ lock' = None
  /\ at' = Put(at, c, "calling") /\ on' = Put(on, c, NextLink)
  /\ UNCHANGED <<attempt, result, helperVars, shield, pastVars>>

ConnectRefused(c) ==
  /\ at[c] = "connecting"
  /\ helper # "up"
  /\ Failed(c, None)
  /\ UNCHANGED <<on, helperVars, shield, pastVars>>

\* A call on a dead connection fails, however late its coroutine hears of it.
CallLost(c) ==
  /\ at[c] = "calling" /\ link[on[c]] \in {"lost", "closed"}
  /\ Failed(c, lock)
  /\ UNCHANGED <<on, helperVars, shield, pastVars>>

\* stop(): the hub shuts down and drops the connection under whoever uses it;
\* that apply() then reconnects like after any other loss.
ClientStops ==
  /\ conn # None
  /\ outages < MaxOutages
  /\ outages' = outages + 1
  /\ conn' = None
  /\ Disconnect
  /\ UNCHANGED <<at, attempt, on, result, lock, helperVars, shield, acts, accepted>>

-----------------------------------------------------------------------------
(* The helper and the shield *)

AnswerRetried(c, a, verdict) ==  \* mutant: ok = False is tried again
  /\ serving' = serving \ {<<c, a>>}
  /\ IF at[c] = "calling" /\ attempt[c] = a /\ link[on[c]] = "open"
     THEN IF a = 1 /\ verdict = "failed"
          THEN attempt' = Put(attempt, c, 2) /\ UNCHANGED <<at, result>>
          ELSE at' = Put(at, c, "done") /\ result' = Put(result, c, verdict)
               /\ UNCHANGED attempt
     ELSE UNCHANGED <<at, attempt, result>>
  /\ UNCHANGED <<on, conn, lock>>

\* The answer reaches the caller only over the connection it called on.
Answer(c, a, verdict) ==
  /\ serving' = serving \ {<<c, a>>}
  /\ IF at[c] = "calling" /\ attempt[c] = a /\ link[on[c]] = "open"
     THEN at' = Put(at, c, "done") /\ result' = Put(result, c, verdict)
     ELSE UNCHANGED <<at, result>>
  /\ UNCHANGED <<attempt, on, conn, lock>>

\* The helper takes the call and spawns the shield.
Spawn(c) ==
  /\ at[c] = "calling" /\ link[on[c]] = "open" /\ helper = "up"
  /\ <<c, attempt[c]>> \notin accepted
  /\ accepted' = accepted \cup {<<c, attempt[c]>>}
  /\ serving' = serving \cup {<<c, attempt[c]>>}
  /\ shield' = Put(shield, <<c, attempt[c]>>, "running")
  /\ UNCHANGED <<clientVars, link, helper, acts, outages>>

\* No binary, or it cannot be started.
SpawnFails(c) ==
  /\ at[c] = "calling" /\ link[on[c]] = "open" /\ helper = "up"
  /\ <<c, attempt[c]>> \notin accepted
  /\ accepted' = accepted \cup {<<c, attempt[c]>>}
  /\ Answer(c, attempt[c], "failed")
  /\ UNCHANGED <<link, helper, shield, acts, outages>>

\* The firewall changes; the process has still to exit.
ShieldActs(c, a) ==
  /\ shield[<<c, a>>] = "running"
  /\ shield' = Put(shield, <<c, a>>, "acted")
  /\ acts' = Put(acts, c, acts[c] + 1)
  /\ UNCHANGED <<clientVars, link, helperVars, accepted, outages>>

ShieldExitsUnchecked(c, a) ==  \* mutant: the exit status is ignored
  /\ shield[<<c, a>>] \in {"running", "acted"}
  /\ shield' = Put(shield, <<c, a>>, "gone")
  /\ IF <<c, a>> \in serving
     THEN Answer(c, a, "ok")
     ELSE UNCHANGED <<clientVars, serving>>
  /\ UNCHANGED <<link, helper, acts, accepted, outages>>

\* It exits, with status 0 only if it did what it was asked.
ShieldExits(c, a) ==
  /\ shield[<<c, a>>] \in {"running", "acted"}
  /\ shield' = Put(shield, <<c, a>>, "gone")
  /\ IF <<c, a>> \in serving
     THEN Answer(c, a, IF shield[<<c, a>>] = "acted" THEN "ok" ELSE "failed")
     ELSE UNCHANGED <<clientVars, serving>>
  /\ UNCHANGED <<link, helper, acts, accepted, outages>>

\* wait_for gives up after _SHIELD_CLI_TIMEOUT_S and kills it, done or not.  The
\* caller is told nothing yet.
ShieldTimesOut(c, a) ==
  /\ <<c, a>> \in serving /\ shield[<<c, a>>] \in {"running", "acted"}
  /\ shield' = Put(shield, <<c, a>>, "killed")
  /\ UNCHANGED <<clientVars, link, helperVars, pastVars>>

\* Only a second communicate(), which is not timed, lets run_shield answer: it
\* reads stderr until everyone who holds the pipe has closed it, a child that the
\* shield left behind included.
ShieldReaped(c, a) ==
  /\ <<c, a>> \in serving /\ shield[<<c, a>>] = "killed"
  /\ shield' = Put(shield, <<c, a>>, "gone")
  /\ Answer(c, a, "failed")
  /\ UNCHANGED <<link, helper, acts, accepted, outages>>

\* Every connection goes, with the process or by close_clients().
DropLinks == link' = [k \in Links |-> IF link[k] = "open" THEN "lost" ELSE link[k]]

\* A shield the helper waited for may live on without it, and act; one that has
\* acted or was killed can do nothing more.
OrphanShields ==
  \E dies \in SUBSET serving :
    /\ \A h \in serving : shield[h] # "running" => h \in dies
    /\ shield' = [h \in Handlers |-> IF h \in dies THEN "gone" ELSE shield[h]]

HelperCrashes ==
  /\ helper \in {"up", "stopping"}
  /\ outages < MaxOutages
  /\ outages' = outages + 1
  /\ helper' = "down"
  /\ DropLinks
  /\ serving' = {} /\ OrphanShields
  /\ UNCHANGED <<clientVars, acts, accepted>>

\* stop(): close the listener and the clients' connections ...
HelperStops ==
  /\ helper = "up"
  /\ outages < MaxOutages
  /\ outages' = outages + 1
  /\ helper' = "stopping"
  /\ DropLinks
  /\ UNCHANGED <<clientVars, serving, shield, acts, accepted>>

\* ... wait for the handlers for a second at most, and exit.
HelperExits ==
  /\ helper = "stopping"
  /\ helper' = "down"
  /\ serving' = {} /\ OrphanShields
  /\ UNCHANGED <<clientVars, link, pastVars>>

HelperStarts ==
  /\ helper = "down"
  /\ helper' = "up"
  /\ UNCHANGED <<clientVars, link, serving, shield, pastVars>>

-----------------------------------------------------------------------------
Client(c) == LockGranted(c) \/ Connected(c) \/ ConnectRefused(c) \/ CallLost(c)

Answering(c) == Spawn(c) \/ SpawnFails(c)
                \/ \E a \in Attempts : ShieldExits(c, a) \/ ShieldTimesOut(c, a)

PipeCloses(c) == \E a \in Attempts : ShieldReaped(c, a)

Acting(c) == \E a \in Attempts : ShieldActs(c, a)

Outage == HelperCrashes \/ HelperStops \/ HelperExits \/ HelperStarts

Next ==
  \/ \E c \in Callers : Apply(c) \/ Client(c) \/ Answering(c) \/ PipeCloses(c) \/ Acting(c)
  \/ Outage \/ ClientStops

Spec == Init /\ [][Next]_vars

\* The event loops of the hub and of the helper run what is ready, and the
\* timeout of run_shield fires.  Nothing makes a shield act, a helper start or the
\* pipe of a killed shield close.
Fairness ==
  \A c \in Callers :
    /\ WF_vars(Client(c))
    /\ WF_vars(Answering(c))

\* What the code counts on besides: a killed shield leaves no child behind that
\* keeps its stderr open.
FairSpec == Spec /\ Fairness /\ \A c \in Callers : WF_vars(PipeCloses(c))

-----------------------------------------------------------------------------
(* Properties *)

\* Every variable keeps its type.
TypeOK ==
  /\ at \in [Callers -> Stages]
  /\ attempt \in [Callers -> Attempts]
  /\ on \in [Callers -> Links \cup {None}]
  /\ result \in [Callers -> {None, "ok", "failed", "unreachable"}]
  /\ conn \in Links \cup {None}
  /\ lock \in Callers \cup {None}
  /\ link \in [Links -> {"unused", "open", "lost", "closed"}]
  /\ helper \in {"up", "stopping", "down"}
  /\ serving \subseteq Handlers
  /\ shield \in [Handlers -> {"none", "running", "acted", "killed", "gone"}]
  /\ acts \in [Callers -> 0..2]
  /\ accepted \subseteq Handlers
  /\ outages \in 0..MaxOutages
  /\ \A c \in Callers : at[c] = "calling" => on[c] # None

\* The hub tells everyone "Allowed" only when it is: apply() returns ok only if
\* the shield really did act for this verdict, whatever happened to the first
\* attempt, its connection and its process.
OkMeansApplied == \A c \in Callers : result[c] = "ok" => acts[c] > 0

\* A verdict acts on the firewall twice only on a second attempt, and only after
\* an outage or a shutdown could have broken the first one's connection: a
\* refusal or a timeout that was reported is not retried behind the operator's
\* back.
TwiceOnlyAfterLoss ==
  \A c \in Callers : acts[c] = 2 => attempt[c] = 2 /\ outages > 0

\* The reconnect lock "keeps two callers from racing into the helper socket
\* together": at most one connection is open, and it is the cached one.
OneConnection == \A k \in Links : link[k] = "open" => conn = k

\* The hub waits for apply() without a timeout of its own: every apply() returns,
\* if the stderr of a killed shield is closed at last.
ApplyReturns == \A c \in Callers : at[c] # "idle" ~> at[c] = "done"

=============================================================================
