--------------------------- MODULE DesktopNotifier ---------------------------
(***************************************************************************)
(* The session-bus connection of the desktop notifier                      *)
(* (notifications/desktop.py), which every coroutine that posts a popup    *)
(* opens on demand: connect() with its lock and its two looks at _conn,    *)
(* one attempt per candidate uid, the roll-back of a handshake that fails  *)
(* or is cancelled, and disconnect(), which does not take the lock.        *)
(*                                                                         *)
(* One action is a slice of a coroutine between awaits.  What the popups   *)
(* are, their callbacks and signals are EventSubscriber's.  _conn, the     *)
(* lock's holder and the bus of a handshake are sets of at most one.       *)
(***************************************************************************)
EXTENDS Integers

CONSTANTS
  Tasks,  \* coroutines that post popups, or connect ahead of them
  Buses,  \* MessageBus objects, reused once disconnected
  Uids    \* candidate uids to authenticate as, one or two

VARIABLES
  at,      \* each task: idle, queued, dialling, matching, calling
  lock,    \* the holder of _connect_lock
  conn,    \* the bus in _conn
  dialled, \* the bus of the handshake under way, a local of connect()
  bus,     \* each bus: free, up, lost
  tries    \* candidate uids left to try

vars == <<at, lock, conn, dialled, bus, tries>>

Put(f, k, v) == [f EXCEPT ![k] = v]

Queued == {t \in Tasks : at[t] = "queued"}

\* bus.disconnect()
Drop(buses) == bus' = [b \in Buses |-> IF b \in buses THEN "free" ELSE bus[b]]

-----------------------------------------------------------------------------
Init ==
  /\ at = [t \in Tasks |-> "idle"]
  /\ lock = {} /\ conn = {} /\ dialled = {}
  /\ bus = [b \in Buses |-> "free"]
  /\ tries = 0

\* The first look finds a connection: the call to the daemon goes out on it.
Notify(t) ==
  /\ at[t] = "idle" /\ conn # {}
  /\ at' = Put(at, t, "calling")
  /\ UNCHANGED <<lock, conn, dialled, bus, tries>>

\* asyncio's lock is taken at once only if nobody waits for it.
Enqueue(t) ==
  /\ at[t] = "idle" /\ conn = {}
  /\ lock # {} \/ Queued # {}
  /\ at' = Put(at, t, "queued")
  /\ UNCHANGED <<lock, conn, dialled, bus, tries>>

Dial(t) ==
  /\ lock' = {t} /\ tries' = Uids
  /\ at' = Put(at, t, "dialling")
  /\ UNCHANGED <<conn, dialled, bus>>

LockTaken(t) ==
  /\ at[t] = "idle" /\ conn = {}
  /\ lock = {} /\ Queued = {}
  /\ Dial(t)

\* The second look: the holder before may have connected.
LockGranted(t) ==
  /\ at[t] = "queued" /\ lock = {}
  /\ \/ conn = {} /\ Dial(t)
     \/ conn # {} /\ at' = Put(at, t, "calling") /\ UNCHANGED <<lock, conn, dialled, bus, tries>>

\* connect() raises, and the lock is released.
Raise(t) ==
  /\ lock' = lock \ {t} /\ dialled' = {}
  /\ Drop(dialled)
  /\ at' = Put(at, t, "idle")
  /\ UNCHANGED <<conn, tries>>

\* A uid is refused: the next one, or the last error.
DialFails(t) ==
  /\ at[t] = "dialling"
  /\ \/ /\ tries > 1 /\ tries' = tries - 1
        /\ UNCHANGED <<at, lock, conn, dialled, bus>>
     \/ tries <= 1 /\ Raise(t)

DialSucceeds(t) ==
  /\ at[t] = "dialling"
  /\ \E b \in Buses : bus[b] = "free" /\ bus' = Put(bus, b, "up") /\ dialled' = {b}
  /\ at' = Put(at, t, "matching")
  /\ UNCHANGED <<lock, conn, tries>>

\* AddMatch is answered, with an error or not.
MatchAnswered(t) ==
  /\ at[t] = "matching"
  /\ conn' = dialled /\ dialled' = {}
  /\ lock' = lock \ {t}
  /\ at' = Put(at, t, "calling")
  /\ UNCHANGED <<bus, tries>>

\* The handshake raises: the bus was lost under it.
MatchFails(t) == at[t] = "matching" /\ Raise(t)

\* Notify or CloseNotification is answered, or fails.
Answered(t) ==
  /\ at[t] = "calling"
  /\ at' = Put(at, t, "idle")
  /\ UNCHANGED <<lock, conn, dialled, bus, tries>>

\* A task is cancelled in whatever await it is.
Cancelled(t) ==
  \/ at[t] \in {"dialling", "matching"} /\ Raise(t)
  \/ /\ at[t] = "queued"
     /\ at' = Put(at, t, "idle")
     /\ UNCHANGED <<lock, conn, dialled, bus, tries>>

\* Only what _conn holds is torn down; a handshake under way goes on.
Disconnect ==
  /\ conn # {}
  /\ Drop(conn)
  /\ conn' = {}
  /\ UNCHANGED <<at, lock, dialled, tries>>

\* The bus daemon goes away: nobody clears _conn.
BusLost(b) ==
  /\ bus[b] = "up"
  /\ bus' = Put(bus, b, "lost")
  /\ UNCHANGED <<at, lock, conn, dialled, tries>>

-----------------------------------------------------------------------------
Caller(t) == Notify(t) \/ Enqueue(t) \/ LockTaken(t) \/ LockGranted(t) \/ DialFails(t)
             \/ DialSucceeds(t) \/ MatchAnswered(t) \/ MatchFails(t)
             \/ Answered(t) \/ Cancelled(t)

Next == Disconnect \/ (\E t \in Tasks : Caller(t)) \/ (\E b \in Buses : BusLost(b))

Spec == Init /\ [][Next]_vars

-----------------------------------------------------------------------------
(* Properties *)

\* "Exactly one MessageBus is ever created for this notifier" (connect()): at no
\* time are two buses open, whoever races, fails, is cancelled or disconnects.
OneBus == \A a, b \in Buses : bus[a] # "free" /\ bus[b] # "free" => a = b

\* A handshake that fails or is cancelled "doesn't leak the already-connected
\* bus": a bus that is open is the notifier's or that of the task in the lock.
NoBusLeaks ==
  \A b \in Buses : bus[b] # "free" =>
    b \in conn \/ (b \in dialled /\ \E t \in lock : at[t] = "matching")

=============================================================================
