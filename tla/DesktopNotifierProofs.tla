------------------------ MODULE DesktopNotifierProofs ------------------------
(***************************************************************************)
(* One bus at a time, for any number of callers, buses and candidate uids. *)
(***************************************************************************)
EXTENDS DesktopNotifier, TLAPS

\* The tasks inside the lock.
Shaking == {t \in Tasks : at[t] \in {"dialling", "matching"}}

Types ==
  /\ at \in [Tasks -> {"idle", "queued", "dialling", "matching", "calling"}]
  /\ bus \in [Buses -> {"free", "up", "lost"}]
  /\ conn \subseteq Buses /\ dialled \subseteq Buses

\* The lock is held through the handshake and by one task.
Locked == lock = Shaking /\ \A s, t \in lock : s = t

\* What is open is held, the handshake's bus by the one task that matches, and
\* nobody shakes hands while there is a connection: the second look sees to it.
Held ==
  /\ {b \in Buses : bus[b] # "free"} = conn \cup dialled
  /\ \A a, b \in conn \cup dialled : a = b
  /\ lock # {} => conn = {}
  /\ dialled # {} <=> \E t \in Tasks : at[t] = "matching"

IInv == Types /\ Locked /\ Held

\* Nothing is open and nobody has begun.
LEMMA InitInv == Init => IInv
  BY DEF Init, IInv, Types, Locked, Held, Shaking

\* connect() raising restores what was there before it took the lock.
LEMMA RaiseStep ==
  ASSUME IInv, NEW t \in Tasks, at[t] \in {"dialling", "matching"}, Raise(t)
  PROVE  IInv'
<1>1. Types'
  BY DEF IInv, Types, Raise, Drop, Put
<1>2. lock = {t} /\ Shaking = {t} /\ conn = {} /\ conn' = {}
  BY DEF IInv, Locked, Held, Shaking, Raise
<1>3. lock' = {} /\ dialled' = {}
  BY <1>2 DEF Raise
<1>4. Shaking' = {}
  BY <1>2 DEF IInv, Types, Raise, Put, Shaking
<1>5. \A b \in Buses : bus'[b] = "free"
  BY <1>2 DEF IInv, Types, Held, Raise, Drop
<1>. QED  BY <1>1, <1>2, <1>3, <1>4, <1>5 DEF IInv, Locked, Held, Shaking

\* A task that takes the lock finds no connection and no handshake.
LEMMA DialStep ==
  ASSUME IInv, NEW t \in Tasks, at[t] \in {"idle", "queued"}, lock = {}, conn = {}, Dial(t)
  PROVE  IInv'
<1>1. Types'
  BY DEF IInv, Types, Dial, Put
<1>2. Shaking = {} /\ dialled = {}
  BY DEF IInv, Locked, Held, Shaking
<1>3. Shaking' = {t} /\ lock' = {t}
  BY <1>2 DEF IInv, Types, Dial, Put, Shaking
<1>4. ~ \E s \in Tasks : at'[s] = "matching"
  BY <1>2 DEF IInv, Types, Dial, Put, Shaking
<1>. QED  BY <1>1, <1>2, <1>3, <1>4 DEF IInv, Locked, Held, Dial

\* A task outside the lock that moves to another place outside it.
LEMMA OutsideStep ==
  ASSUME IInv, NEW t \in Tasks, at[t] \in {"idle", "queued", "calling"},
         NEW p \in {"idle", "queued", "calling"}, at' = Put(at, t, p),
         UNCHANGED <<lock, conn, dialled, bus, tries>>
  PROVE  IInv'
<1>1. Types'
  BY DEF IInv, Types, Put
<1>2. Shaking' = Shaking
  BY DEF IInv, Types, Put, Shaking
<1>3. (\E s \in Tasks : at'[s] = "matching") <=> (\E s \in Tasks : at[s] = "matching")
  BY DEF IInv, Types, Put
<1>. QED  BY <1>1, <1>2, <1>3 DEF IInv, Locked, Held

\* The two steps inside the lock that open a bus and hand it over.
LEMMA HandshakeStep ==
  ASSUME IInv, NEW t \in Tasks, DialSucceeds(t) \/ MatchAnswered(t)
  PROVE  IInv'
<1>1. lock = {t} /\ Shaking = {t} /\ conn = {}
  BY DEF IInv, Locked, Held, Shaking, DialSucceeds, MatchAnswered
<1>2. CASE DialSucceeds(t)
  <2>1. PICK b \in Buses : bus[b] = "free" /\ bus' = Put(bus, b, "up") /\ dialled' = {b}
    BY <1>2 DEF DialSucceeds
  <2>2. Types'
    BY <1>2, <2>1 DEF IInv, Types, DialSucceeds, Put
  <2>3. Shaking' = {t} /\ at'[t] = "matching"
    BY <1>1, <1>2 DEF IInv, Types, DialSucceeds, Put, Shaking
  <2>4. dialled = {}
    BY <1>1, <1>2 DEF IInv, Held, DialSucceeds, Shaking
  <2>5. {a \in Buses : bus'[a] # "free"} = {b}
    BY <1>1, <2>1, <2>4 DEF IInv, Types, Held, Put
  <2>. QED  BY <1>1, <1>2, <2>1, <2>2, <2>3, <2>5 DEF IInv, Locked, Held, DialSucceeds
<1>3. CASE MatchAnswered(t)
  <2>1. Types'
    BY <1>3 DEF IInv, Types, MatchAnswered, Put
  <2>2. Shaking' = {} /\ lock' = {}
    BY <1>1, <1>3 DEF IInv, Types, MatchAnswered, Put, Shaking
  <2>3. conn' \cup dialled' = conn \cup dialled
    BY <1>1, <1>3 DEF MatchAnswered
  <2>. QED  BY <1>3, <2>1, <2>2, <2>3 DEF IInv, Locked, Held, MatchAnswered, Shaking
<1>. QED  BY <1>2, <1>3

\* Every step keeps the invariant.
LEMMA StepInv == IInv /\ [Next]_vars => IInv'
<1>. SUFFICES ASSUME IInv, [Next]_vars PROVE IInv'
  OBVIOUS
<1>1. ASSUME NEW t \in Tasks, Caller(t) PROVE IInv'
  <2>1. CASE Notify(t) \/ Enqueue(t) \/ Answered(t)
    BY <2>1, OutsideStep DEF Notify, Enqueue, Answered
  <2>2. CASE LockTaken(t) \/ LockGranted(t)
    BY <2>2, DialStep, OutsideStep DEF LockTaken, LockGranted
  <2>3. CASE DialFails(t)
    <3>1. CASE UNCHANGED <<at, lock, conn, dialled, bus>>
      BY <3>1 DEF IInv, Types, Locked, Held, Shaking
    <3>. QED  BY <2>3, <3>1, RaiseStep DEF DialFails
  <2>4. CASE DialSucceeds(t) \/ MatchAnswered(t)
    BY <2>4, HandshakeStep
  <2>5. CASE MatchFails(t) \/ Cancelled(t)
    BY <2>5, RaiseStep, OutsideStep DEF MatchFails, Cancelled
  <2>. QED  BY <1>1, <2>1, <2>2, <2>3, <2>4, <2>5 DEF Caller
<1>2. CASE Disconnect
  <2>1. Types'
    BY <1>2 DEF IInv, Types, Disconnect, Drop
  <2>2. lock = {} /\ dialled = {}
    BY <1>2 DEF IInv, Locked, Held, Disconnect, Shaking
  <2>3. \A b \in Buses : bus'[b] = "free"
    BY <1>2, <2>2 DEF IInv, Types, Held, Disconnect, Drop
  <2>. QED  BY <1>2, <2>1, <2>2, <2>3 DEF IInv, Locked, Held, Disconnect, Shaking
<1>3. ASSUME NEW b \in Buses, BusLost(b) PROVE IInv'
  <2>1. {a \in Buses : bus'[a] # "free"} = {a \in Buses : bus[a] # "free"}
    BY <1>3 DEF IInv, Types, BusLost, Put
  <2>. QED  BY <1>3, <2>1 DEF IInv, Types, Locked, Held, BusLost, Put, Shaking
<1>4. CASE UNCHANGED vars
  BY <1>4 DEF vars, IInv, Types, Locked, Held, Shaking
<1>. QED  BY <1>1, <1>2, <1>3, <1>4 DEF Next

-----------------------------------------------------------------------------
\* However many coroutines post their first popup together, at most one bus is
\* open at any time.
THEOREM OneBusHolds == Spec => []OneBus
<1>1. IInv => OneBus
  BY DEF IInv, Held, OneBus
<1>. QED  BY <1>1, InitInv, StepInv, PTL DEF Spec

\* And none is left open by a handshake that failed or was cancelled.
THEOREM NoBusIsLost == Spec => []NoBusLeaks
<1>1. IInv => NoBusLeaks
  BY DEF IInv, Locked, Held, Shaking, NoBusLeaks
<1>. QED  BY <1>1, InitInv, StepInv, PTL DEF Spec

=============================================================================
