--------------------------- MODULE EventSubscriber ---------------------------
(***************************************************************************)
(* The desktop renderer: EventSubscriber (client/subscriber.py) over the   *)
(* D-Bus notifier (notifications/desktop.py).  Hub events arrive one at a  *)
(* time; block and verdict events are handled inside the stream task,      *)
(* which takes no other event until they are done, while lifecycle events  *)
(* and clicks start background tasks.  Every notify and close is a call to *)
(* the notification daemon whose reply comes back after an await.          *)
(*                                                                         *)
(* One action is one slice of a coroutine between awaits.  A job is what a *)
(* coroutine does when it runs next: ready holds the jobs the event loop   *)
(* will run, in order; bus the calls the daemon has still to answer, each  *)
(* with the job that awaits its reply; inbox the replies and signals the   *)
(* daemon has sent.  A D-Bus connection delivers in order both ways.       *)
(*                                                                         *)
(* The daemon, the user and the hub are the environment.  Popups that no   *)
(* state refers to (the shield_up and container_* confirmations) are left  *)
(* out, and so is the text of every popup.  announced, ended, shield,      *)
(* recorded, sent and events are history.                                  *)
(***************************************************************************)
EXTENDS Integers, Sequences, FiniteSets

CONSTANTS
  Containers, Targets, Requests,
  Enabled,    \* enabled_categories
  Fallible,   \* kinds of popup the daemon may refuse to post
  None,
  MaxEvents,  \* bound: hub events handled
  MaxClicks   \* bound: verdict buttons clicked

ASSUME SubscriberAssumption ==
  /\ Enabled \subseteq {"blocked", "verdict", "shield_down"}
  /\ Fallible \subseteq {"prompt", "outcome", "alert"}
  /\ MaxEvents \in Nat /\ MaxClicks \in Nat

VARIABLES
  phase,     \* running, then the stages of stop(): draining, closing, stopped
  handling,  \* is the stream task inside a handler?
  pending,   \* _pending
  down,      \* _shield_down_notifs
  ready, bus, inbox,
  callbacks, \* DbusNotifier._callbacks
  screen,    \* the popup the daemon shows under each id
  fresh,     \* the daemon's next id
  announced, ended, shield, recorded, sent, events, clicks  \* history

loopVars  == <<ready, bus, inbox>>
stateVars == <<pending, down, callbacks>>
userVars  == <<screen, fresh>>
pastVars  == <<announced, ended, shield, recorded, events>>
vars == <<phase, handling, pending, down, ready, bus, inbox, callbacks,
          screen, fresh, announced, ended, shield, recorded, sent, events, clicks>>

Nids == 1..MaxEvents

Subject == [container : Containers, target : Targets]
Pending == [nid : Nids, container : Containers, target : Targets]

\* What a popup shows; at is the number of the event it was posted for.
Face == [kind : {"prompt", "outcome", "alert"}, container : Containers,
         target : Targets \cup {None}, at : 1..MaxEvents]

\* What a button does: the arguments of the verdict it sends.
Click == [container : Containers, target : Targets, id : Requests]

\* A request not announced yet is not mistaken for one that is, and nothing else
\* that None stands for the lack of is mistaken for it.
ASSUME SubjectAssumption == None \notin Subject

ASSUME NoneAssumption ==
  /\ None \notin Requests \cup Nids \cup Pending
  /\ \A rest \in SUBSET [id : Requests, nid : Nids] : rest # None

Jobs ==
  [do : {"prompted"}, container : Containers, target : Targets, id : Requests,
   prior : Requests \cup {None}]
  \cup [do : {"reported", "nothing"}]
  \cup [do : {"purge"}, container : Containers, exited : BOOLEAN,
        rest : {None} \cup SUBSET [id : Requests, nid : Nids]]
  \cup [do : {"alert"}, container : Containers, at : 1..MaxEvents]
  \cup [do : {"alerted", "retract"}, container : Containers]
  \cup [do : {"send"}, click : Click, shown : Subject]

Nothing == [do |-> "nothing"]

\* Jobs of the stream task; every other job is a task of its own in _tasks.
Inline(job) == job.do \in {"prompted", "reported"}

Task(job) == job.do \notin {"prompted", "reported", "nothing"}

-----------------------------------------------------------------------------
(* Helpers *)

Put(f, k, v) == [f EXCEPT ![k] = v]

\* asyncio's create_task: the new coroutine runs after those already ready.
Dispatched(jobs) == ready \o [i \in DOMAIN jobs |-> [job |-> jobs[i], nid |-> None, ok |-> TRUE]]

Notify(replaces, face, then) ==
  bus' = Append(bus, [op |-> "notify", nid |-> replaces, face |-> face, then |-> then])

\* close(): the callback goes at once, the call to the daemon follows.
Close(nid, then) ==
  /\ callbacks' = Put(callbacks, nid, None)
  /\ bus' = Append(bus, [op |-> "close", nid |-> nid, face |-> None, then |-> then])

OnTarget(container, target) ==
  {r \in Requests : pending[r] # None /\ pending[r].container = container
                                      /\ pending[r].target = target}

LiveBlockOnTarget(container, target) ==  \* mutant
  LET Q == {r \in Requests : pending[r] # None /\ pending[r].target = target}
  IN  IF Q = {} THEN None ELSE CHOOSE r \in Q : TRUE

LiveBlockIgnored(container, target) == None  \* mutant

\* The pending block to reuse.
LiveBlockOn(container, target) ==
  IF OnTarget(container, target) = {} THEN None
  ELSE CHOOSE r \in OnTarget(container, target) : TRUE

\* The jobs somewhere between their start and their end.
Underway(P(_)) ==
  \/ \E i \in DOMAIN ready : P(ready[i].job)
  \/ \E i \in DOMAIN bus : P(bus[i].then)
  \/ \E i \in DOMAIN inbox : inbox[i].kind = "reply" /\ P(inbox[i].then)

\* A cancelled coroutine ends when it is next resumed; the calls it made stay on
\* the bus, unawaited.
Cancel(P(_)) ==
  LET Forget(m) == IF P(m.then) THEN [m EXCEPT !.then = Nothing] ELSE m
  IN  /\ ready' = [i \in DOMAIN ready |->
                     IF P(ready[i].job) THEN [ready[i] EXCEPT !.job = Nothing] ELSE ready[i]]
      /\ bus' = [i \in DOMAIN bus |-> Forget(bus[i])]
      /\ inbox' = [i \in DOMAIN inbox |->
                     IF inbox[i].kind = "reply" THEN Forget(inbox[i]) ELSE inbox[i]]

\* Everything has been handled and answered.
Quiet == ~handling /\ ready = <<>> /\ bus = <<>> /\ inbox = <<>>

-----------------------------------------------------------------------------
Init ==
  /\ phase = "running" /\ handling = FALSE
  /\ pending = [r \in Requests |-> None]
  /\ down = [c \in Containers |-> None]
  /\ ready = <<>> /\ bus = <<>> /\ inbox = <<>>
  /\ callbacks = [n \in Nids |-> None]
  /\ screen = [n \in Nids |-> None]
  /\ fresh = 1
  /\ announced = [r \in Requests |-> None]
  /\ ended = [c \in Containers |-> 0]
  /\ shield = [c \in Containers |-> "up"]
  /\ recorded = [c \in Containers |-> None]
  /\ sent = {} /\ events = 0 /\ clicks = 0

(* _on_event: the stream task takes the next event *)

Listening == phase \in {"running", "draining"} /\ ~handling /\ events < MaxEvents

\* A request id names one blocked connection, however often it is announced.
Blocked(container, target, id) ==
  /\ Listening
  /\ "blocked" \in Enabled
  /\ announced[id] \in {None, [container |-> container, target |-> target]}
  /\ LET prior == LiveBlockOn(container, target)
     IN  Notify(IF prior = None THEN None ELSE pending[prior].nid,
                [kind |-> "prompt", container |-> container, target |-> target,
                 at |-> events + 1],
                [do |-> "prompted", container |-> container, target |-> target,
                 id |-> id, prior |-> prior])
  /\ handling' = TRUE
  /\ events' = events + 1
  /\ announced' = Put(announced, id, [container |-> container, target |-> target])
  /\ UNCHANGED <<phase, stateVars, ready, inbox, userVars, ended, shield, recorded, sent, clicks>>

FilePromptThenPop(job, nid) ==  \* mutant
  /\ pending' = LET filed == Put(pending, job.id, [nid |-> nid, container |-> job.container,
                                                   target |-> job.target])
                IN  IF job.prior = None THEN filed ELSE Put(filed, job.prior, None)
  /\ callbacks' = Put(callbacks, nid, [container |-> job.container,
                                       target |-> job.target, id |-> job.id])

\* The block handler's second slice, once the daemon has answered.
FilePrompt(job, nid) ==
  /\ pending' = LET kept == IF job.prior = None THEN pending
                            ELSE Put(pending, job.prior, None)
                IN  Put(kept, job.id, [nid |-> nid, container |-> job.container,
                                       target |-> job.target])
  /\ callbacks' = Put(callbacks, nid, [container |-> job.container,
                                       target |-> job.target, id |-> job.id])

\* Nothing is pending under an id this subscriber never prompted for.
VerdictApplied(id) ==
  /\ Listening
  /\ pending[id] # None
  /\ pending' = Put(pending, id, None)
  /\ events' = events + 1
  /\ IF "verdict" \in Enabled
     THEN /\ Notify(pending[id].nid,
                    [kind |-> "outcome", container |-> pending[id].container,
                     target |-> pending[id].target, at |-> events + 1],
                    [do |-> "reported"])
          /\ handling' = TRUE
     ELSE UNCHANGED <<bus, handling>>
  /\ UNCHANGED <<phase, down, callbacks, ready, inbox, userVars, announced,
                 ended, shield, recorded, sent, clicks>>

\* shield_down and shield_disengaged alike.
ShieldDown(container) ==
  /\ Listening
  /\ events' = events + 1
  /\ ready' = Dispatched(
       <<[do |-> "purge", container |-> container, exited |-> FALSE, rest |-> None]>>
       \o IF "shield_down" \in Enabled
          THEN <<[do |-> "alert", container |-> container, at |-> events + 1]>>
          ELSE <<>>)
  /\ ended' = Put(ended, container, events + 1)
  /\ shield' = Put(shield, container, "down")
  /\ UNCHANGED <<phase, handling, stateVars, bus, inbox, userVars, announced,
                 recorded, sent, clicks>>

ShieldUpGated(container) ==  \* mutant: nothing is closed unless shield_up popups are on
  /\ Listening
  /\ events' = events + 1
  /\ shield' = Put(shield, container, "up")
  /\ recorded' = Put(recorded, container, IF Quiet THEN down[container] ELSE None)
  /\ UNCHANGED <<phase, handling, stateVars, loopVars, userVars, announced, ended, sent, clicks>>

ShieldUp(container) ==
  /\ Listening
  /\ events' = events + 1
  /\ ready' = Dispatched(<<[do |-> "retract", container |-> container]>>)
  /\ shield' = Put(shield, container, "up")
  /\ recorded' = Put(recorded, container, IF Quiet THEN down[container] ELSE None)
  /\ UNCHANGED <<phase, handling, stateVars, bus, inbox, userVars, announced, ended, sent, clicks>>

ContainerExited(container) ==
  /\ Listening
  /\ events' = events + 1
  /\ ready' = Dispatched(
       <<[do |-> "purge", container |-> container, exited |-> TRUE, rest |-> None]>>)
  /\ ended' = Put(ended, container, events + 1)
  /\ UNCHANGED <<phase, handling, stateVars, bus, inbox, userVars, announced, shield,
                 recorded, sent, clicks>>

-----------------------------------------------------------------------------
(* The event loop runs the next job.  A refused call makes it raise. *)

Running(what) == ready # <<>> /\ Head(ready).job.do = what
Job == Head(ready).job

RunPromptedRegardless ==  \* mutant: a refusal is swallowed
  /\ Running("prompted")
  /\ handling' = FALSE
  /\ FilePrompt(Job, Head(ready).nid)
  /\ ready' = Tail(ready)
  /\ UNCHANGED <<phase, down, bus, inbox, userVars, pastVars, sent, clicks>>

RunPrompted ==
  /\ Running("prompted")
  /\ handling' = FALSE
  /\ IF Head(ready).ok THEN FilePrompt(Job, Head(ready).nid)
                       ELSE UNCHANGED <<pending, callbacks>>
  /\ ready' = Tail(ready)
  /\ UNCHANGED <<phase, down, bus, inbox, userVars, pastVars, sent, clicks>>

RunReported ==
  /\ Running("reported")
  /\ handling' = FALSE
  /\ ready' = Tail(ready)
  /\ UNCHANGED <<phase, stateVars, bus, inbox, userVars, pastVars, sent, clicks>>

SnapshotOfOne(container) ==  \* mutant
  LET S == {r \in Requests : pending[r] # None /\ pending[r].container = container}
  IN  IF S = {} THEN {} ELSE {LET r == CHOOSE r \in S : TRUE IN [id |-> r, nid |-> pending[r].nid]}

\* What the purge of a container finds when it starts.
Snapshot(container) ==
  {[id |-> r, nid |-> pending[r].nid] :
     r \in {q \in Requests : pending[q] # None /\ pending[q].container = container}}

\* Pop one stale record and close its popup; then, if the container exited,
\* the same for its shield-down alert.
RunPurge ==
  /\ Running("purge")
  /\ LET rest == IF Job.rest = None THEN Snapshot(Job.container) ELSE Job.rest
     IN  \/ \E stale \in rest :
              /\ pending' = Put(pending, stale.id, None)
              /\ Close(stale.nid, [Job EXCEPT !.rest = rest \ {stale}])
              /\ UNCHANGED down
         \/ /\ rest = {} /\ Job.exited /\ down[Job.container] # None
            /\ Close(down[Job.container], Nothing)
            /\ down' = Put(down, Job.container, None)
            /\ UNCHANGED pending
         \/ /\ rest = {} /\ ~(Job.exited /\ down[Job.container] # None)
            /\ UNCHANGED <<stateVars, bus>>
  /\ ready' = Tail(ready)
  /\ UNCHANGED <<phase, handling, inbox, userVars, pastVars, sent, clicks>>

RunAlert ==
  /\ Running("alert")
  /\ Notify(down[Job.container],
            [kind |-> "alert", container |-> Job.container, target |-> None, at |-> Job.at],
            [do |-> "alerted", container |-> Job.container])
  /\ ready' = Tail(ready)
  /\ UNCHANGED <<phase, handling, stateVars, inbox, userVars, pastVars, sent, clicks>>

RunAlerted ==
  /\ Running("alerted")
  /\ down' = IF Head(ready).ok THEN Put(down, Job.container, Head(ready).nid) ELSE down
  /\ ready' = Tail(ready)
  /\ UNCHANGED <<phase, handling, pending, callbacks, bus, inbox, userVars, pastVars, sent, clicks>>

RunRetract ==
  /\ Running("retract")
  /\ IF down[Job.container] # None
     THEN /\ Close(down[Job.container], Nothing)
          /\ down' = Put(down, Job.container, None)
     ELSE UNCHANGED <<callbacks, bus, down>>
  /\ ready' = Tail(ready)
  /\ UNCHANGED <<phase, handling, pending, inbox, userVars, pastVars, sent, clicks>>

\* CancelledError is all a cancelled coroutine is resumed with.
RunCancelled ==
  /\ Running("nothing")
  /\ ready' = Tail(ready)
  /\ UNCHANGED <<phase, handling, stateVars, bus, inbox, userVars, pastVars, sent, clicks>>

\* The client sends the verdict; what comes back is only logged.
RunSend ==
  /\ Running("send")
  /\ sent' = sent \cup {[click |-> Job.click, shown |-> Job.shown]}
  /\ ready' = Tail(ready)
  /\ UNCHANGED <<phase, handling, stateVars, bus, inbox, userVars, pastVars, clicks>>

-----------------------------------------------------------------------------
(* What the D-Bus connection brings, in order *)

ReceiveReply ==
  /\ inbox # <<>> /\ Head(inbox).kind = "reply"
  /\ inbox' = Tail(inbox)
  /\ ready' = IF Head(inbox).then = Nothing THEN ready
              ELSE Append(ready, [job |-> Head(inbox).then, nid |-> Head(inbox).nid,
                                  ok |-> Head(inbox).ok])
  /\ UNCHANGED <<phase, handling, stateVars, bus, userVars, pastVars, sent, clicks>>

\* A click whose callback is not there (yet, or any more) is dropped.
ReceiveAction ==
  /\ inbox # <<>> /\ Head(inbox).kind = "action"
  /\ inbox' = Tail(inbox)
  /\ ready' = IF callbacks[Head(inbox).nid] = None THEN ready
              ELSE Dispatched(<<[do |-> "send", click |-> callbacks[Head(inbox).nid],
                                 shown |-> Head(inbox).shown]>>)
  /\ UNCHANGED <<phase, handling, stateVars, bus, userVars, pastVars, sent, clicks>>

ReceiveClosed ==
  /\ inbox # <<>> /\ Head(inbox).kind = "closed"
  /\ inbox' = Tail(inbox)
  /\ callbacks' = Put(callbacks, Head(inbox).nid, None)
  /\ UNCHANGED <<phase, handling, pending, down, ready, bus, userVars, pastVars, sent, clicks>>

-----------------------------------------------------------------------------
(* The notification daemon and the user *)

Reply(nid, ok) == [kind |-> "reply", then |-> Head(bus).then, nid |-> nid, ok |-> ok]

DaemonPosts ==
  /\ bus # <<>> /\ Head(bus).op = "notify"
  /\ LET nid == IF Head(bus).nid = None THEN fresh ELSE Head(bus).nid
     IN  /\ screen' = Put(screen, nid, Head(bus).face)
         /\ inbox' = Append(inbox, Reply(nid, TRUE))
  /\ fresh' = IF Head(bus).nid = None THEN fresh + 1 ELSE fresh
  /\ bus' = Tail(bus)
  /\ UNCHANGED <<phase, handling, stateVars, ready, pastVars, sent, clicks>>

DaemonRefuses ==
  /\ bus # <<>> /\ Head(bus).op = "notify"
  /\ Head(bus).face.kind \in Fallible
  /\ inbox' = Append(inbox, Reply(None, FALSE))
  /\ bus' = Tail(bus)
  /\ UNCHANGED <<phase, handling, stateVars, ready, userVars, pastVars, sent, clicks>>

\* Every caller of close() treats an error reply like any other.
DaemonCloses ==
  /\ bus # <<>> /\ Head(bus).op = "close"
  /\ LET nid == Head(bus).nid
     IN  /\ screen' = Put(screen, nid, None)
         /\ inbox' = inbox \o (IF screen[nid] = None THEN <<>>
                               ELSE <<[kind |-> "closed", nid |-> nid]>>)
                           \o <<Reply(nid, TRUE)>>
  /\ bus' = Tail(bus)
  /\ UNCHANGED <<phase, handling, stateVars, ready, fresh, pastVars, sent, clicks>>

\* The prompt is resident: a click does not take it off the screen.
UserClicks(nid) ==
  /\ clicks < MaxClicks
  /\ screen[nid] # None /\ screen[nid].kind = "prompt"
  /\ inbox' = Append(inbox, [kind |-> "action", nid |-> nid,
                             shown |-> [container |-> screen[nid].container,
                                        target |-> screen[nid].target]])
  /\ clicks' = clicks + 1
  /\ UNCHANGED <<phase, handling, stateVars, ready, bus, userVars, pastVars, sent>>

\* The user dismisses a popup, or the daemon lets it expire.
PopupGoes(nid) ==
  /\ screen[nid] # None
  /\ screen' = Put(screen, nid, None)
  /\ inbox' = Append(inbox, [kind |-> "closed", nid |-> nid])
  /\ UNCHANGED <<phase, handling, stateVars, ready, bus, fresh, pastVars, sent, clicks>>

-----------------------------------------------------------------------------
(* stop() *)

\* Cancel every task; with none there is nothing to wait for.
StopBegins ==
  /\ phase = "running"
  /\ Cancel(Task)
  /\ phase' = IF Underway(Task) THEN "draining" ELSE "closing"
  /\ UNCHANGED <<handling, stateVars, userVars, pastVars, sent, clicks>>

\* The gather is over: _tasks.clear(), then client.stop() cancels the stream.
StopClosesClient ==
  /\ phase = "draining"
  /\ phase' = "closing"
  /\ UNCHANGED <<handling, stateVars, loopVars, userVars, pastVars, sent, clicks>>

StopEnds ==
  /\ phase = "closing"
  /\ phase' = "stopped"
  /\ Cancel(Inline)
  /\ handling' = FALSE
  /\ pending' = [r \in Requests |-> None]
  /\ down' = [c \in Containers |-> None]
  /\ UNCHANGED <<callbacks, userVars, pastVars, sent, clicks>>

-----------------------------------------------------------------------------
HubEvent ==
  \/ \E c \in Containers, t \in Targets, r \in Requests : Blocked(c, t, r)
  \/ \E r \in Requests : VerdictApplied(r)
  \/ \E c \in Containers : ShieldDown(c) \/ ShieldUp(c) \/ ContainerExited(c)

Loop == RunPrompted \/ RunReported \/ RunPurge \/ RunAlert \/ RunAlerted
        \/ RunRetract \/ RunSend \/ RunCancelled
        \/ ReceiveReply \/ ReceiveAction \/ ReceiveClosed

Outside == \/ DaemonPosts \/ DaemonRefuses \/ DaemonCloses
           \/ \E n \in Nids : UserClicks(n) \/ PopupGoes(n)

Stop == StopBegins \/ StopClosesClient \/ StopEnds

Next == HubEvent \/ Loop \/ Outside \/ Stop

Spec == Init /\ [][Next]_vars

-----------------------------------------------------------------------------
(* Properties *)

PromptsShown == {n \in Nids : screen[n] # None /\ screen[n].kind = "prompt"}

\* Every variable keeps its type.
TypeOK ==
  /\ phase \in {"running", "draining", "closing", "stopped"}
  /\ handling \in BOOLEAN
  /\ pending \in [Requests -> Pending \cup {None}]
  /\ down \in [Containers -> Nids \cup {None}]
  /\ \A i \in DOMAIN ready : /\ ready[i].job \in Jobs
                             /\ ready[i].nid \in Nids \cup {None}
                             /\ ready[i].ok \in BOOLEAN
  /\ \A i \in DOMAIN bus : /\ bus[i].then \in Jobs
                           /\ bus[i].op = "notify" => bus[i].face \in Face
                           /\ bus[i].op = "close" => bus[i].nid \in Nids
  /\ \A i \in DOMAIN inbox :
       /\ inbox[i].kind \in {"reply", "action", "closed"}
       /\ inbox[i].kind = "reply" => inbox[i].then \in Jobs
       /\ inbox[i].kind = "action" => inbox[i].shown \in Subject
  /\ callbacks \in [Nids -> Click \cup {None}]
  /\ screen \in [Nids -> Face \cup {None}]
  /\ fresh \in 1..MaxEvents + 1
  /\ announced \in [Requests -> Subject \cup {None}]
  /\ ended \in [Containers -> 0..MaxEvents]

\* One decision, one target, one popup (_handle_connection_blocked): while block
\* events, purges and verdicts interleave, the screen never shows two prompts
\* about the same target of the same container.  Within the bounds of the run, and
\* always while no request is announced again that a purge has still to come to;
\* three purges that overlap may lose the record of such a prompt (README, finding
\* 8), and the target's next block then adds a second one.
OnePopupPerTarget ==
  \A m, n \in PromptsShown :
    screen[m].container = screen[n].container /\ screen[m].target = screen[n].target
      => m = n

\* A click decides what it was made on: the verdict sent for it names the
\* container and target the popup showed, even when the popup is replaced, or
\* its callback is, between the click and the signal; and it cites a request
\* the hub announced for that target.
ClicksMeanWhatTheyShow ==
  \A v \in sent :
    /\ v.click.container = v.shown.container
    /\ v.click.target = v.shown.target
    /\ announced[v.click.id] = v.shown

\* Once everything has settled, each prompt still on screen has a record, so
\* that a lifecycle event can still close it (the comment in
\* _handle_connection_blocked).  A refused repost of a prompt changes nothing.
\* The same overlap of three purges is the exception.
NoPromptLeftBehind ==
  Quiet /\ phase = "running" =>
    \A n \in PromptsShown : \E r \in Requests : pending[r] # None /\ pending[r].nid = n

\* Once everything has settled, no prompt outlives its container's shield or the
\* container itself: whatever was on screen when shield_down, shield_disengaged
\* or container_exited came in is gone.
EndedPromptsGo ==
  Quiet /\ phase = "running" =>
    \A n \in PromptsShown : screen[n].at > ended[screen[n].container]

\* Closing a stale alert is a security cleanup that no category switches off
\* (the comment in _on_event): when shield_up comes in on a settled screen, the
\* alert on record is gone once everything has settled again.
RecordedAlertGoes ==
  Quiet /\ phase = "running" =>
    \A c \in Containers : shield[c] = "up" /\ recorded[c] # None =>
      screen[recorded[c]] = None \/ screen[recorded[c]].kind # "alert"

\* A "Shield DOWN" popup never stays once the shield is back (the comment on
\* _shield_down_notifs): when everything has settled and the container's last
\* shield event was shield_up, no alert of the container is on screen.
NoStaleAlert ==
  Quiet /\ phase = "running" =>
    \A n \in Nids : screen[n] # None /\ screen[n].kind = "alert"
                      => shield[screen[n].container] = "down"

=============================================================================
