# terok-clearance in TLA+

terok-clearance asks the operator of a sandboxed container whether a blocked
outbound connection may go through, and carries the answer to the firewall
(`terok-shield`). This directory models the parts of it that run concurrently,
checks them with TLC and proves their safety properties, without any bound, with
TLAPS. Paths below are relative to `src/src/terok_clearance/`.

## The system

    shield reader --JSON lines--> EventIngester --> ClearanceHub --varlink stream--> ClearanceClient
                                                     |    ^                               |
                                    VerdictClient <--+    +---- Verdict, SetMute ---------+
                                         |                                                |
                       VerdictServer, terok-shield          EventSubscriber --> DbusNotifier / CallbackNotifier
                                                            (one per hub socket: MultiSocketSubscriber)

| Component | State it keeps | Operations | What is hard | What makes it correct |
|---|---|---|---|---|
| Hub, `hub/server.py` | bindings `_live_verdicts` and their timestamps, mutes, one bounded queue per subscriber, cleanup task, phase of start and stop | relay a reader event, Subscribe, Verdict, SetMute, Mutes, expiry, start, stop | a verdict is suspended while everything else goes on; two dictionaries; many keys for one container; overflow; half-started and half-stopped hubs | only offered triples reach the shield, once; bindings end with the shield, the container or the TTL; every outcome is announced; only oldest events are lost; muted means silent |
| Ingester, `hub/ingester.py` | listener, set of handler tasks | start, stop, accept, dispatch a line | a handler exists before it has run; stop() cancels, then waits for the server | nothing a reader wrote is lost when it leaves, up to a line that raises; nothing after stop; stop returns |
| Verdict client and helper, `verdict/` | one cached connection with a lock; the helper's handlers and shield processes | apply, disconnect, stop; Apply, start, stop | retry, shared connection, timeout, crash of the helper while a shield runs | ok means applied; acts twice only through the retry; one connection; apply returns |
| Subscriber, `client/subscriber.py` | pending prompts, shield-down alerts, background tasks | one handler per event type, clicks, stop | every popup call awaits the daemon while tasks, clicks and dismissals go on | one popup per target; clicks mean what they show; nothing stale stays |
| Multi-socket subscriber, same file | children by socket path, rescan task | start, rescan, add, remove, stop, mute calls | directory changes and cancellation in the middle of a pass | one child per socket; converges; nothing left after stop |
| Client, `client/client.py` | two connections, stream task, back-off, poke event | start, stop, stream, reconnect, poke, verdict and mute calls | outages at any await | no leaked socket; reconnects; hangs up only with a cause; what streams can be answered |
| Notifiers, `notifications/` | callbacks by popup id; the session-bus connection and its lock | connect, disconnect, notify, on_action, close, signals | signals race replies; many coroutines connect at once and are cancelled | one bus, none leaked; the rest inside the subscriber's properties |
| Terminal tool, `cli/terminal_clearance.py` | list of requests by number | a, d, l, q | its list shadows the subscriber's table | an open request can be answered, and an answer settles it |
| Events, sanitiser, socket helpers | none | pure functions, bind | characters and permissions | (not modelled beyond what the hub needs) |
| CLI, runtime, factory | none | argument parsing, logging, signal wait | nothing concurrent | (not modelled) |

The hazards of this code, each at its line and with the properties that watch
it, are listed in `PROJECT.json`. The recurring ones are state read before an
await and used after it, and clean-up that a cancellation or an outage cuts
short.

## How the code is modelled

All of it is asyncio: one coroutine runs at a time and gives up control only at
an `await`. So **one action is one stretch of code between awaits**, with
everything that stretch does; what a suspended coroutine remembers is a record
in a variable. Ids, targets and container keys are model values, already past
the sanitiser; text, icons, logging and layout are left out. Every model has
history variables, named in its header, which no guard reads except to bound a
run or to say that an id names one connection.

### ClearanceHub, ClearanceAuthz

`live`, `ts`, `muted`, `queue` are the hub's `_live_verdicts`,
`_live_verdicts_ts`, `_muted` and the subscribers' queues; `call[c]` is a
`_apply_verdict` coroutine waiting for `VerdictClient.apply`. `VerdictBegin` is
the code up to that await, `VerdictApplied` and `VerdictFailed` the code after
it; `RefuseUnknown` and `RefuseMismatch` have no await. `Pop` is what every
verdict does first, `PutBack` the restore, `Announce` the outcome event.
`RelayBlocked` and `RelayLifecycle` are `_relay_reader_event` with
`_update_live_verdicts` and `_fan_out`; `Cleanup` is one round of
`_cleanup_loop`. `start` is `StartIngester` then `BindSucceeds` or `BindFails`;
`stop` is `StopServer`, `StopIngester`, `StopClears`, with reader events
possible until the ingester is stopped. `Exit` is a crash or the end of the
process, from any phase; the next process starts with nothing, since nothing is
persisted.

Abstractions: allow and deny take the same path, so the action is left out;
unknown event types, malformed events, `InvalidAction` and a muted prompt change
nothing and are no step. A verdict in flight when the server closes is left to
finish, as in `stop()`; `apply()` answers or fails but does not raise, which
VerdictPath shows. The connection of a client that went away stays attached
until the next send fails. The clock counts units of the cleanup interval, the
cleanup task wakes on time, and binding takes no time.

`ClearanceAuthz` is what the hub promises about verdicts: a prompt is asked, is
open, is run by one caller at a time, is settled by a success and reopened by a
failure; open prompts may be withdrawn at any time. `ImplementsAuthz` is the
refinement: open prompts are the bindings with their timestamps, running ones
the suspended calls.

### EventSubscriber

`pending` and `down` are `_pending` and `_shield_down_notifs`, `callbacks` the
notifier's table. A *job* is what a coroutine does when it runs next: `ready` is
the event loop's queue of jobs, `bus` the calls the notification daemon has to
answer, each with the job waiting for the reply, `inbox` the replies and signals
on their way back. A D-Bus connection keeps the order in both directions, and
this order matters: a reply and the signals around it are handled as the daemon
sent them. `connection_blocked` and `verdict_applied` are handled inside the
stream task (`handling`), which takes no other event until they are done; the
other events and clicks start tasks. `RunPurge` closes one popup per run, as
`_purge_container` awaits in its loop. The daemon may refuse the kinds of popup
in `Fallible`, the user may click and dismiss at any time. `stop()` is
`StopBegins` (cancel the tasks), `StopClosesClient`, `StopEnds`. `Cancel` leaves
a cancelled coroutine's calls on the bus, unawaited; one that was about to run
keeps its place in `ready` and ends there (`RunCancelled`).

Assumptions: the notifier is connected before the subscriber starts (the factory
does so); an error reply to Notify means that nothing was posted; a request id
names one container and target. Confirmations that nothing refers to again are
left out.

### VerdictPath

`at`, `attempt` and `on` are where each `apply()` stands, its loop variable and
the connection its call went out on; `conn` is `_transport` with `_proxy`, which
the code always changes together; `lock` is `_connect_lock`. `Failed` is the
except branch, up to and including the next attempt's first await. On the
helper's side `serving` holds the Apply handlers, `shield` the processes they
spawned; a shield can act and then be killed by the timeout, fail, or outlive
the helper. The timeout is two steps: `ShieldTimesOut` kills the shield, and
`ShieldReaped` answers once the second `communicate()`, which is not timed, has
seen the end of its stderr. `HelperCrashes`, `HelperStops`, `HelperExits`, `HelperStarts` are
the helper's life; `ClientStops` is `VerdictClient.stop`. A call over a
connection that was lost or closed fails at some later time, perhaps after
another caller has opened a new one. Error replies of the varlink layer itself
are left out: the helper's handler returns a pair in every case.

### ClearanceClient

`sub` and `rpc` are the two connections, opened one after the other and dropped
together; sockets are numbered, so that one the client no longer knows about is
still seen. `inbound` is the reply the stream has yet to read: an event, or one
that the loop cannot use (an error reply, one that does not convert or carries
no event, the stream's last), on which it leaves the loop and closes both
connections, the live ones included (`StreamEnds`). `task` is where `_run_stream` stands, `owner` where the owner's
`start` and `stop` do. A poke is the event `_reconnect_poke`. The hub loses all
connections when it goes; one connection may also break alone. `call` is a
`verdict`, `set_mute` or `mutes` call in flight (one at a time: they share
nothing but the connection), which the stream task may close under it; `shot` is
a one-shot helper with a connection of its own. What a call returns is not
distinguished, only that it returns. A `stop()` during `start()` is not
modelled.

### EventIngester

`conn[c]` is a connection from its acceptance, when asyncio's server begins to
count it, to its loss. `FirstSlice` is the handler's code up to its first read,
which puts it in `_clients` or, for a foreign uid, ends it; `ReadLine` reads one
line and hands it to the hub, whose sink does not suspend; `Finish` is the
`finally` block. `Stop`, `HandlersEnd` and `StopEnds` are `stop()` between its
awaits. What a line says is reduced to what becomes of it: an event; junk that
`_dispatch` drops (`DropJunk`: not JSON, or no object); or one on which
`readline` or `json.loads` raises something that `_dispatch` does not catch, and
which ends the handler (`LineRaises`: longer than the reader's limit, not UTF-8,
nested too deep, a number too long).

### DesktopNotifier

The connection of the D-Bus notifier only; its popups are EventSubscriber's.
`at[t]` is where coroutine t stands in `connect()` or in its call to the daemon,
`lock` holds the task in `_connect_lock`, `conn` is `_conn`, `dialled` the local
`bus` of the handshake under way. A new caller takes a free lock only if nobody
waits for it, as in asyncio; which waiter gets it is left open. A task may be
cancelled in every await. Cancellation inside `MessageBus.connect()` itself is
the library's to clean up.

### ClearanceRoundTrip

The hub and one terminal tool, instantiated as they stand, `Hub` and `Term`. The
tool is one of the hub's subscribers (`Screen`) and one of its callers (`Tool`).
`Receive` is the hub's sending of an event together with the tool's handler,
`SendVerdict` the tool's background task together with the hub's first slice on
the verdict; the second client, the reader, expiry and the suspended verdicts
are the hub's own actions, the purge and the operator the tool's. `StreamBreaks`
loses the tool's subscription, and with it whatever is announced before it
subscribes again. Assumed: the reader gives each blocked connection an id of its
own, which is not empty. Left to the hub's own runs: a failed start, stop and
crash of the hub, overflow of the queue, mutes.

### MultiSocket

`tracked` is `_subscribers`, `child[<<p, g>>]` follows each child from the start
of its connection to the end of its own `stop()`, also after it has left the
table. `Reconcile` is the synchronous head of `_reconcile`; `AddSucceeds`,
`AddFails`, `RemoveBegins`, `ChildStops` are the coroutines it gathers. `Stop`
cancels the pass wherever it is: a connecting child is rolled back, a child that
is closing its client finishes, a child that is still settling its tasks is cut
off. `Busy` says whether children have tasks to settle. The mute calls only read
the table. A `stop()` during `start()` is not modelled.

### TerminalClearance

The subscriber over the CallbackNotifier, whose calls never suspend: each
handler is one action, the purge and the sending of a verdict are tasks.
`listed` is the terminal's own `_pending`.

## What the runs check

| Run | Module, instance | Shows |
|---|---|---|
| `hub_authz` | ClearanceHub; 2 keys, 2 requests, 2 callers, 5 events | `Lockstep`, `VerdictsCiteOffers`, `AnsweredOnce`, `PurgeIsComplete` and the refinement `ImplementsAuthz` |
| `hub_single` | ClearanceHub for one container; 3 keys, one an alias, one foreign; TTL 1, clock to 4, queue of 2, 3 events | `TypeOK`, `BindingsAreOffers`, `SingleIdentity`, `ExpiryBound`, `Backlog`, `MutedIsSilent`, `OutcomeReaches` |
| `hub_restored` | ClearanceHub; 1 of each, 4 events | finding: `DroppedOnLifecycleChange` is violated |
| `sub_popups` | EventSubscriber; 2 containers, 2 targets, 3 requests, 3 events, 1 click, all categories, fallible prompts and alerts | `TypeOK`, `OnePopupPerTarget`, `NoPromptLeftBehind`, `EndedPromptsGo`, `ClicksMeanWhatTheyShow`, `RecordedAlertGoes` |
| `sub_stale` | EventSubscriber; 1 of each | finding: `NoStaleAlert` is violated |
| `path_apply` | VerdictPath; 2 callers, 4 connections, 2 outages | `TypeOK`, `OkMeansApplied`, `TwiceOnlyAfterLoss`, `OneConnection`, `ApplyReturns` |
| `client_stream` | ClearanceClient; 4 sockets, back-off cap 10, 3 faults | `TypeOK`, `NoSocketLeaks`, `StoppedIsClosed`, `HangsUpOnlyWithCause`, `StreamingMeansCallable`, `Reconnects` |
| `multi_scan` | MultiSocket; 3 paths, 5 changes, no busy children | `TypeOK`, `OneChildPerSocket`, `StopLeavesNothing`, `Converges` |
| `multi_leak` | MultiSocket; 2 paths, busy children | finding: `StopLeavesNothing` is violated |
| `term_repeat` | TerminalClearance; 1 target, 2 requests | finding: `OpenRequestIsListed` is violated |
| `ing_stop` | EventIngester; 3 connections, 1 foreign, 2 unread lines each | `TypeOK`, `NothingLostOnHangUp`, `SilentAfterStop`, `StopReturns` |
| `round_trip` | ClearanceRoundTrip; 1 key, 2 requests, 2 targets, 2 callers, TTL 0, clock to 1, 4 events | `OpenMeansAnswerable`, `AnswersSettle` |

Every property is stated above its definition in words. Each one a run checks is
also broken by a mutation of the code's model, defined just before the operator
it mutates and marked `mutant`; those operators are used nowhere else.

`OpenMeansAnswerable` and `AnswersSettle` are what the system is for, seen from
the operator: a request the tool takes for open is one the hub would accept a
verdict on, as soon as the tool has handled what it was sent; and an answer,
whoever wins, ends in a request that is settled. Both are true only up to two
gaps of the design, which they name: a binding that expired (`Lapsed`), because
expiry is announced to nobody, and a prompt shown before a break of the stream
(`stale`), because the hub replays nothing. The converse, that what the hub
would accept is open on a screen, is false by design: a failed verdict restores
the binding, and the popup that replaced the prompt has no buttons; a repeated
block replaces the prompt but not the older binding.

### The findings

1. A failed verdict restores its binding even if the container's shield went
   down or the container exited during the await (`hub/server.py:633`). What
   does hold, and is checked, is `PurgeIsComplete`: a purge removes all that is
   in the map at that moment.
2. A shield_up that overtakes the reply to the alert of shield_down leaves the
   alert on the screen (`client/subscriber.py:584, 594`). An alert that was on
   record when shield_up came does go (`RecordedAlertGoes`).
3. Stopping the multi-socket subscriber in the middle of a removal leaves the
   removed child connected (`client/subscriber.py:904-908`).
4. The terminal takes a repeated block for an outcome and drops it from its list
   (`cli/terminal_clearance.py:42`).
5. The ingester's `stop()` cancels the handlers in `_clients`, and a handler
   accepted just before is not yet in it: `wait_closed()` then waits for that
   reader to hang up (`hub/ingester.py:97-104`), and the hub's `stop()` with it.
   `StopReturns` therefore has the premise that no such reader stays; without it
   TLC finds accept, stop, first slice, and a handler nobody cancels.
6. A poke of a healthy client is not a no-op: it cuts short the next back-off,
   however much later (`client/client.py:220`, against the docstring at 216). In
   the model it is the step `BackoffPoked`; its harm is one early dial, and no
   run is spent on it.
7. The subscriber's `stop()` cancels its tasks before it closes the client, not
   after, as its docstring says (`client/subscriber.py:306, 314-320`): an event
   handled meanwhile starts a task that outlives it. In the model it is a
   lifecycle event after `StopBegins`; no run is spent on it.
8. `OnePopupPerTarget`, `NoPromptLeftBehind` and `EndedPromptsGo` hold in the
   bounds of `sub_popups`, not for every number of events. `_purge_container`
   pops by request id, from a snapshot taken before its awaits
   (`client/subscriber.py:549-551`). With three prompts of a container pending
   and three purges under way, the first to have started reaches the third
   prompt last; if that request has been announced again by then, the purge pops
   the new record and closes the popup of the old one. The new prompt stays
   without a record, no later purge finds it, and the next block of its target
   adds a second one, against "one decision, one target, one popup"
   (`client/subscriber.py:417-420`). Two purges are not enough: the reply that
   lets the first go on comes before the reply to the new prompt. The shortest
   path known has 42 steps and 8 events, out of reach of a search over all
   interleavings; it was found by hand while looking for an inductive invariant
   and confirmed by driving the model along it. It needs a request id announced
   more than once, which the source does not exclude. The theorems about prompts
   exclude just such an announcement (`Unlisted`).
9. One bad line ends a reader's handler. `_dispatch` catches
   `json.JSONDecodeError` only (`hub/ingester.py:139`); a line that is not UTF-8
   raises `UnicodeDecodeError`, an overlong one `ValueError`, and the reader's
   later events are lost, against "until the peer disconnects"
   (`hub/ingester.py:112`) and "one bad line from a rogue reader mustn't kill
   the ingester" (`hub/server.py:446-447`): the other readers do go on.
   `NothingLostOnHangUp` holds up to such a line; without the exception for
   `cut` TLC finds it violated. No run is spent on it.
10. A shield run is not "bounded by `_SHIELD_CLI_TIMEOUT_S`"
    (`verdict/server.py:69`): after the kill the helper waits, without a
    timeout, for the end of the shield's stderr (93), which a child of the
    shield may hold open. The hub's `apply()` waits with it. `ApplyReturns`
    holds on the assumption that the pipe is closed at last; with `Fairness`
    alone TLC finds it violated. No run is spent on it.

### Bounds

Every counter a run could drive for ever has a named bound: `MaxEvents` and
`MaxNow` (hub, subscriber, terminal), `MaxClicks`, `MaxLinks` and `MaxOutages`,
`MaxFaults`, `MaxLines`, `MaxChanges`, `Gens`. In the hub `Room` keeps one event
in reserve for every verdict in flight, so that the bound never blocks an
outcome. The bounds are chosen by the longest story that matters: two prompts, a
lifecycle event, two outcomes (5 events, and 4 in the round trip, where `Spare`
keeps one in reserve for every verdict that may still be sent); an overflow of a
queue of two (3 events); a binding refused at its last moment and cleaned up one
interval later (clock to 4); a retry of both callers and an outage during each
(2 outages, 4 connections); block, re-block, and a purge or a verdict (3 events
over two containers and two targets; one container with two targets and four
events, 8 million states, was also checked by hand, as was the round trip with
five events and one target; finding 8 is what these bounds do not reach); three
connections so that one is read, one cancelled and one unseen when the ingester
stops; four sockets, two of the client, one closed under a call and one of a
one-shot call. `MaxLinks` is never the reason a connection cannot be opened for
good: `ApplyReturns` would fail.

Deadlock is checked for the hub, which can always exit. The other models stop
when their bounds are used up and everything has settled or been stopped, so
there it is switched off.

Symmetry is used for interchangeable keys and callers, requests, targets and
containers, and never in a run that checks liveness.

### Fairness

Only what asyncio and the kernel do of themselves is assumed: a ready coroutine
runs, a timer fires, a connect is answered. In the hub: a reader of a non-empty
queue gets its event, and a suspended verdict ends - which `ApplyReturns` shows
of the path below it. In VerdictPath: the event loops of both processes, the
exit or the timeout of the shield (`Fairness`); not that a shield acts, nor
that a helper starts. `FairSpec` adds the one assumption about the world below,
that the stderr of a killed shield is closed at last (finding 10). In the
client: dialling and streaming go on, `stop()` finishes; not that replies come,
calls are answered, or the hub stays up, which is a premise of `Reconnects`. In
the ingester:
handlers and `stop()` go on; no reader has to write or to leave. In the round
trip: events are delivered and handled, a sent verdict arrives, a suspended one
ends, purges run; the operator and the other client owe nothing. In MultiSocket:
the passes and the children go on; that a hub stays is a premise of `Converges`.
Weak fairness is enough everywhere, because none of these steps is disabled and
enabled again for ever by others.

## What is proved

The proofs need no bound and no instance: they hold for every value of the
constants that satisfies the assumptions of the module. Each goes by an
invariant that every action keeps, with one lemma per action or group of
actions.

| Theorems | Property | Module |
|---|---|---|
| `LockstepHolds`, `TypeCorrect` | `Lockstep`, `TypeOK` | ClearanceHubProofs |
| `PromptsAnsweredOnce`, `OnlyOffersReachShield`, `BindingsStayOffers` | `AnsweredOnce`, `VerdictsCiteOffers`, `BindingsAreOffers` | ClearanceHubProofs |
| `HubImplementsAuthz` | `ImplementsAuthz`, the refinement | ClearanceHubProofs |
| `PurgesAreComplete`, `ExpiryHolds` | `PurgeIsComplete`, `ExpiryBound` | ClearanceHubProofs |
| `OneIdentityHolds`, `MutedStaysSilent`, `BacklogHolds` | `SingleIdentity`, `MutedIsSilent`, `Backlog` | ClearanceHubProofs |
| `IngesterTypeCorrect`, `HangUpLosesNothing`, `StopSilences` | `TypeOK`, `NothingLostOnHangUp`, `SilentAfterStop` | EventIngesterProofs |
| `SubscriberTypeCorrect`, `ClicksAreHonest`, `RecordedAlertsGo` | `TypeOK`, `ClicksMeanWhatTheyShow`, `RecordedAlertGoes` | EventSubscriberProofs |
| `OnePopupHolds`, `NoneLeftBehind`, `EndedPromptsLeave` | `OnePopupPerTarget`, `NoPromptLeftBehind`, `EndedPromptsGo`, with premises | EventSubscriberProofs |
| `OpenIsAnswerable` | `OpenMeansAnswerable`, with a premise | ClearanceRoundTripProofs |
| `PathTypeCorrect`, `OkIsApplied`, `OneConnectionHolds`, `TwiceIsAfterLoss` | `TypeOK`, `OkMeansApplied`, `OneConnection`, `TwiceOnlyAfterLoss` | VerdictPathProofs |
| `ClientTypeCorrect`, `NoSocketIsForgotten`, `StopCloses`, `StreamIsCallable`, `HangUpsHaveCause` | `TypeOK`, `NoSocketLeaks`, `StoppedIsClosed`, `StreamingMeansCallable`, `HangsUpOnlyWithCause` | ClearanceClientProofs |
| `MultiTypeCorrect`, `OneChildHolds`, `StopLeavesNoChild` | `TypeOK`, `OneChildPerSocket`, `StopLeavesNothing` | MultiSocketProofs |
| `OneBusHolds`, `NoBusIsLost` | one bus, none leaked (no run) | DesktopNotifierProofs |

The assumptions are the named ones of the modules: bounds and sizes are numbers,
subsets are subsets, and None is none of the values it stands beside
(`HubAssumption`, `PromptAssumption`, `SubscriberAssumption`,
`SubjectAssumption`, `NoneAssumption`, `RoundTripAssumption`, `PathAssumption`,
`ClientAssumption`, `IngesterAssumption`, `MultiAssumption`). Six theorems have
premises of their own, explained below: the three about prompts, the one of the
round trip, and two about MultiSocket. Each premise excludes something that does
falsify the property. Every safety property a passing run checks is stated by
one of these theorems.

### The hub

The types and the lockstep of the two dictionaries are inductive only together.
A verdict takes the timestamp of its binding along, and only the lockstep says
that it is a number rather than None; and only then does a failed verdict put
back a pair.

The properties of verdicts follow from `AuthzInv`, which adds to types and
lockstep: a prompt number names one prompt (`OffersDistinct`) and none offered
or granted is above `count` (`NumbersPast`), so a new one is new; a
single-container hub binds nothing else (`Confined`); a suspended call's
arguments are those of the binding it holds (`HeldMatches`); and the three
properties themselves, which need each other: `VerdictBegin` makes a call out of
a binding, `VerdictFailed` a binding out of a call. There is one lemma per
action that moves a binding and one, `ShrinkStep`, for all that only drop some.

The refinement uses `AuthzInv` and goes action by action: a block is Ask, a
verdict is Run, then Succeed or Fail, a crash is Restart; expiry, purges, the
end of `stop()`, and all steps that leave bindings and calls alone, are Withdraw
of some prompts or of none. Ask and Fail may take the open prompt whose place
the new one has: the two dictionaries have one slot per request id. What the
proof rests on is that a prompt number names one prompt.

`PurgesAreComplete` adds that no lifecycle event is numbered past `count`
(`EndsPast`): whatever is put in the map, a new prompt or a failed verdict's, is
numbered past them all. `ExpiryHolds` adds that the clock never runs past the
next cleanup (`Woken`) and that what was in the map at the last cleanup was no
older than the TTL then (`Swept`); `BindingsAreOffers` turns the timestamp into
the time of the announcement.

For the queues, `BacklogHolds` is inductive with the types: `Push` keeps a queue
the newest events without a gap, whether it drops one or not. `OneIdentityHolds`
adds that no queue holds an event numbered past `count`; `MutedStaysSilent`
needs of it that the mutes of such a hub are under its own key only.

### The ingester

`IInv` says that `_clients` is exactly the running handlers and that after
`stop()` the server counts no connection, so no handler is left to relay
anything. `LedgerInv`, for the lines, says that a connection owes the hub as
many events as its buffer holds (`Ledger`) until its handler ends, that a
handler that ended by itself owes none unless a line raised in it (`Paid`), and
that only `stop()` cancels (`UpCancelsNone`). `HangUpLosesNothing` excepts what
follows a line that raises: finding 9 is that such lines exist.

### The subscriber

`ClicksAreHonest` is about three parties, none of which sees the others' state:
the popup on the screen, the callback the notifier holds for its id, and calls,
replies and signals on their way. `Agreement` says that whatever speaks of a
popup id - a record, a callback, the screen, a repost on the bus, a reply, a
click, the handler about to resume - names the same container and target, and
that nothing speaks of an id the daemon has not given out. So ids never change
hands: the code reuses a popup for its own target only, and that is what the
proof depends on. `Cited` says that whoever will send a verdict, or make the
callback that does, cites a request announced for its target; it is why the
cancelled jobs of `stop()` must be forgotten and not run.

`SubscriberTypeCorrect` is not a formality, since the daemon's ids are bounded
by `MaxEvents`. `Ledger` says that each popup still to be posted stands for an
event of its own, and that no more ids have been given out than there are events
whose popup was posted or dropped; a purge, a repost and a refusal give out
none.

`RecordedAlertsGo` is about an alert on record when shield_up comes in on a
settled screen. `NoneRaised` says that until the next shield_down nothing is
under way that could post an alert of the container or record one;
`AlertsAgree`, like `Agreement`, that an alert's id is never one of another
container's; and `Withdrawn` that the alert is gone, or closed by a call on the
bus, or still on record with the task ahead that will close it. A purge may take
the record first, which is as good: it closes the popup too.

The three theorems about prompts share one invariant, `PromptsInv`. It follows a
prompt from the call that posts it to the call that ends it, through three
queues whose order matters.

- *Who is about.* The stream task has one call, one reply or one resumed handler
  at a time (`OneInline`), so one prompt is on its way (`PromptOnce`), and its
  container has not ended since it was called (`PromptCalled`).
- *The records.* A target has one record (`Unique`), which is of a request
  announced for it (`PendingBacked`); a purge that has listed a record names its
  popup rightly (`ListsTrue`). While a block handler waits, its target has no
  record but the one it found, which keeps its popup, and no purge lists its
  request with another popup (`Flight`).
- *The screen.* A prompt shown has a record, or a reply on its way that will
  give it one, or a call on the bus that ends it (`Accounted`). Before a prompt
  is posted, every other prompt of its target is ended by a call ahead of it on
  the bus (`KilledBefore`): this is where the order of the D-Bus connection
  counts. A prompt whose container has ended is ended by a call on the bus, or a
  purge under way will come to it (`Doomed`).

`OnePopupPerTarget` is then inductive; the other two follow from `Accounted` and
`Doomed` when the queues are empty. The premises:

- `"verdict" \in Enabled`. With that category off the code drops the record and
  leaves the prompt on the screen, without any record.
- `"outcome" \notin Fallible`. A refused outcome popup leaves it there too.
- `Unlisted`: the hub does not announce a request while a purge under way still
  lists its record. Without it `ListsTrue` is lost, which is finding 8. It holds
  in particular when the hub announces each request once. It is more than is
  needed: `sub_popups` runs without it, and within its bounds nothing happens.

Each premise is about the surroundings; the handlers, the purges, the clicks,
dismissals, refused prompts and alerts, and `stop()` are all there. The
invariant was checked by TLC before it was proved, under `Unlisted`, with one
container, two targets, two requests and five events (2.8 million states).

### The other components

VerdictPath: the lock is held exactly while connecting, and nobody connects
while there is a connection (`Locked`); without an outage or a shutdown no
connection goes and nobody is on a second attempt (`LossMeansOutage`); each
attempt spawns at most one shield, which acts at most once and not after it was
killed (`OneActPerAttempt`).

ClearanceClient: `Control` says which connections exist where the task and the
owner stand, `Sound` that the sockets in use are exactly the two connections and
a one-shot call's, all different, `LostTogether` that the call connection is
lost only alone or with the stream's. `HangUpsHaveCause` needs `Control`: nobody
dials, and so nobody rolls back a dial, while the task streams.

MultiSocket: the types hold always. `OneChildHolds` and `StopLeavesNoChild` have
the premise `~Busy`, that children have no background tasks when they are
stopped; without it both are false, `StopLeavesNothing` by the run `multi_leak`.
The invariant says that one pass runs at a time, start()'s own or the rescan
loop's (`OnePass`), and that every child alive belongs to the table, to that
pass or to stop() (`Owned`).

DesktopNotifier: the lock is held exactly through the handshake and by one task
(`Locked`), and nobody shakes hands while there is a connection (`Held`), which
is what the second look at `_conn` gives. This module is small enough that the
proof stands in for a run: three tasks and two buses, 533 states, were checked
by hand before it.

ClearanceRoundTrip: `Alive` says of each request the tool shows, or is about to
be shown, that the hub holds its binding, or has a verdict on it under way, or
let it lapse, or that an event further down the tool's queue ends it, or a purge
in the tool; `Offers`, `Bound`, `Held`, `Queued` and `Listed` that the map, the
suspended verdicts, the queue and the tool's records stem from one announcement,
so that they agree on container and target; `Kept` that what a disconnected tool
shows dates from before the break. A step of the hub takes a binding away only
together with an event behind the prompt in the queue: that is what the proof
goes by, action by action. The premise `Fits` is that no event is fanned out
over the connected tool's full queue. It is needed: with a queue of one, TLC
finds a shield_disengaged that is dropped for the event after it, and a prompt
nobody can answer. `Backlog` says what the hub does instead: it drops the oldest
events, and nothing tells the tool.

### What is only model-checked

- All liveness (`OutcomeReaches`, `ApplyReturns`, `Reconnects`,
  `StopReturns`, `AnswersSettle`, `Converges`): out of the prover's reach.
- The prompts where `Unlisted` does not hold and fewer than three purges overlap
  (finding 8): true in the bounds of `sub_popups`, and by the argument given
  there in general, but not proved.
- The round trip where the tool's queue overflows: the run's queue is long
  enough for its events.

Nothing here is defined by recursion.

## What is not modelled

Sanitising and escaping character by character, TTL parsing, socket modes, JSON
and peer credentials, the check of a D-Bus signal's sender, icons and wording,
the command line, logging: text and I/O, which the properties do not tell apart.
The notifier factory is one choice at start-up. The terminal tool's shutdown and
the thread that reads its standard input. The composition of several hubs and
several subscribers over one desktop notifier: the subscriber's D-Bus model
alone has a million states at three events, and MultiSocket takes a child as a
whole.

## Order of the work, and what comes next

1. Done first: the hub and its abstract specification, since the other parts
   exist for it; then the subscriber, the verdict path, the client, the
   multi-socket subscriber and the terminal; the first proofs.
2. Done next: the ingester as a component of its own; the client's calls, with
   one connection lost alone; the D-Bus connection with its proof; hub and
   terminal tool composed.
3. Done next: the proofs of the hub's remaining safety properties and of its
   refinement, of the ingester, the verdict path, the client, the multi-socket
   subscriber, and of the subscriber's types and clicks.
4. Done last: the remaining safety properties, the subscriber's prompts and
   alerts and the round trip. What could come next: the prompts under the weaker
   premise that no three purges of one container overlap; a round trip with the
   desktop subscriber in the terminal tool's place.
