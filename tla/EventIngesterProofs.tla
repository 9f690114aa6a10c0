------------------------- MODULE EventIngesterProofs -------------------------
(***************************************************************************)
(* What the ingester and its stop() promise, for any number of connections *)
(* and any number of unread lines.                                         *)
(***************************************************************************)
EXTENDS EventIngester, FiniteSetTheorems, TLAPS

Types ==
  /\ conn \in [Conns -> {"none", "accepted", "handled", "finishing", "lost"}]
  /\ owed \in [Conns -> Int]

\* _clients is exactly the handlers that have begun and not ended: nobody is
\* cancelled who has ended, and no running handler is missed.
ClientsAreHandled == clients = {c \in Conns : conn[c] = "handled"}

\* After stop() the server counts no connection.
StoppedIsIdle == owner = "stopped" => ServerIdle

IInv == Types /\ ClientsAreHandled /\ StoppedIsIdle

\* No connection has been made.
LEMMA InitInv == Init => IInv
  BY DEF Init, IInv, Types, ClientsAreHandled, StoppedIsIdle

\* The finally block takes a handler off the set, whether or not it was on it.
LEMMA FinishStep ==
  ASSUME Types, ClientsAreHandled, NEW c \in Conns, Finish(c)
  PROVE  /\ conn' \in [Conns -> {"none", "accepted", "handled", "finishing", "lost"}]
         /\ ClientsAreHandled'
  BY DEF Types, ClientsAreHandled, Finish, Put

\* A reader or a handler moves; after stop() no handler is left to move.
LEMMA ConnectionStep ==
  ASSUME IInv, NEW c \in Conns, Reader(c) \/ Handler(c)
  PROVE  IInv' /\ (owner = "stopped" => UNCHANGED conn /\ \A d \in Conns : owed'[d] >= owed[d])
<1>1. owner' = owner
  BY DEF Reader, Accept, HangUp, Write, Handler, FirstSlice, ReadLine, LineRaises,
         EndOfFile, Cancelled, Lost
<1>2. CASE Reader(c)
  <2>1. Types' /\ \A d \in Conns : owed'[d] >= owed[d]
    BY <1>2 DEF IInv, Types, Reader, Accept, HangUp, Write, Put
  <2>2. ClientsAreHandled'
    BY <1>2 DEF IInv, Types, ClientsAreHandled, Reader, Accept, HangUp, Write, Put
  <2>3. owner = "stopped" => UNCHANGED conn
    BY <1>2 DEF Reader, Accept, HangUp, Write
  <2>. QED  BY <1>1, <2>1, <2>2, <2>3 DEF IInv, StoppedIsIdle, ServerIdle
<1>3. CASE Handler(c)
  <2>1. conn[c] \in {"accepted", "handled", "finishing"}
    BY <1>3 DEF Handler, FirstSlice, ReadLine, Reading, LineRaises, EndOfFile, Cancelled, Lost
  <2>2. owner # "stopped"
    BY <2>1 DEF IInv, StoppedIsIdle, ServerIdle
  <2>3. CASE Finish(c) /\ UNCHANGED owed
    BY <1>1, <2>2, <2>3, FinishStep DEF IInv, Types, StoppedIsIdle
  <2>4. CASE FirstSlice(c)
    <3>1. CASE ~Finish(c)
      BY <1>1, <2>2, <2>4, <3>1
      DEF FirstSlice, IInv, Types, ClientsAreHandled, StoppedIsIdle, Put
    <3>. QED  BY <2>3, <2>4, <3>1 DEF FirstSlice
  <2>5. CASE ReadLine(c)
    BY <1>1, <2>2, <2>5
    DEF ReadLine, DropJunk, RelayLine, IInv, Types, ClientsAreHandled, StoppedIsIdle, Put
  <2>6. CASE Lost(c)
    BY <1>1, <2>2, <2>6 DEF Lost, IInv, Types, ClientsAreHandled, StoppedIsIdle, Put
  <2>7. CASE LineRaises(c) \/ EndOfFile(c) \/ Cancelled(c)
    BY <2>3, <2>7 DEF LineRaises, EndOfFile, Cancelled
  <2>. QED  BY <1>3, <2>2, <2>4, <2>5, <2>6, <2>7 DEF Handler
<1>. QED  BY <1>2, <1>3

\* stop() itself relays nothing, and returns only to an idle server.
LEMMA StopStep ==
  ASSUME IInv, Stop \/ Stopping
  PROVE  IInv' /\ UNCHANGED owed
<1>1. UNCHANGED <<conn, clients, owed>>
  BY DEF Stop, Stopping, HandlersEnd, StopEnds
<1>2. owner' = "stopped" => ServerIdle
  BY DEF Stop, Stopping, HandlersEnd, StopEnds
<1>. QED  BY <1>1, <1>2 DEF IInv, Types, ClientsAreHandled, StoppedIsIdle, ServerIdle

\* Every step keeps the invariant, and after stop() takes nothing to the hub.
LEMMA StepInv ==
  IInv /\ [Next]_vars
    => IInv' /\ [owner = "stopped" => \A c \in Conns : owed'[c] >= owed[c]]_vars
<1>. SUFFICES ASSUME IInv, [Next]_vars
     PROVE IInv' /\ [owner = "stopped" => \A c \in Conns : owed'[c] >= owed[c]]_vars
  OBVIOUS
<1>1. CASE \E c \in Conns : Reader(c) \/ Handler(c)
  BY <1>1, ConnectionStep
<1>2. CASE Stop \/ Stopping
  BY <1>2, StopStep DEF IInv, Types
<1>3. CASE UNCHANGED vars
  BY <1>3 DEF vars, IInv, Types, ClientsAreHandled, StoppedIsIdle, ServerIdle
<1>. QED  BY <1>1, <1>2, <1>3 DEF Next

-----------------------------------------------------------------------------
\* Once stop() has returned the hub hears nothing more from any reader, also not
\* through a handler that stop() had not seen.
THEOREM StopSilences == Spec => SilentAfterStop
  BY InitInv, StepInv, PTL DEF Spec, SilentAfterStop

-----------------------------------------------------------------------------
(* Counting the events among unread lines *)

EventsIn(q) == {i \in 1..Len(q) : q[i] = "event"}

Events(q) == Cardinality(EventsIn(q))

\* There are at most as many events as lines, and none in an empty buffer.
LEMMA EventsBound ==
  ASSUME NEW q \in Seq(Lines)
  PROVE  /\ IsFiniteSet(EventsIn(q)) /\ Events(q) \in 0..Len(q)
         /\ q = <<>> => Events(q) = 0
<1>1. Len(q) \in Nat
  OBVIOUS
<1>2. IsFiniteSet(1..Len(q)) /\ Cardinality(1..Len(q)) = Len(q)
  BY <1>1, FS_Interval
<1>3. EventsIn(q) \in SUBSET (1..Len(q))
  BY DEF EventsIn
<1>4. IsFiniteSet(EventsIn(q)) /\ Events(q) <= Len(q)
  BY <1>2, <1>3, FS_Subset DEF Events
<1>5. Events(q) \in Nat
  BY <1>4, FS_CardinalityType DEF Events
<1>6. q = <<>> => EventsIn(q) = {}
  BY DEF EventsIn
<1>. QED  BY <1>1, <1>4, <1>5, <1>6, FS_EmptySet DEF Events

\* A line written counts if it is an event.
LEMMA EventsAppend ==
  ASSUME NEW q \in Seq(Lines), NEW line \in Lines
  PROVE  /\ Append(q, line) \in Seq(Lines) /\ Len(Append(q, line)) = Len(q) + 1
         /\ Events(Append(q, line)) = IF line = "event" THEN Events(q) + 1 ELSE Events(q)
<1>1. IsFiniteSet(EventsIn(q))
  BY EventsBound
<1>2. Len(q) \in Nat /\ Len(q) + 1 \notin EventsIn(q)
  BY DEF EventsIn
<1>3. EventsIn(Append(q, line))
        = IF line = "event" THEN EventsIn(q) \cup {Len(q) + 1} ELSE EventsIn(q)
  BY <1>2 DEF EventsIn
<1>4. Cardinality(EventsIn(q) \cup {Len(q) + 1}) = Cardinality(EventsIn(q)) + 1
  BY <1>1, <1>2, FS_AddElement
<1>5. Append(q, line) \in Seq(Lines) /\ Len(Append(q, line)) = Len(q) + 1
  OBVIOUS
<1>. QED  BY <1>3, <1>4, <1>5 DEF Events

\* A line read no longer counts.
LEMMA EventsTail ==
  ASSUME NEW q \in Seq(Lines), q # <<>>
  PROVE  /\ Tail(q) \in Seq(Lines) /\ Head(q) \in Lines
         /\ Events(Tail(q)) = IF Head(q) = "event" THEN Events(q) - 1 ELSE Events(q)
<1>0. Tail(q) \in Seq(Lines)
  OBVIOUS
<1>1. PICK t \in Seq(Lines) : t = Tail(q)
  BY <1>0
<1>2. /\ Len(q) \in Nat /\ Len(q) > 0 /\ Len(t) = Len(q) - 1
      /\ \A i \in 1..Len(t) : t[i] = q[i + 1]
      /\ Head(q) = q[1] /\ q[1] \in Lines
  BY <1>1
<1>. DEFINE later == EventsIn(q) \ {1}
            shift == [i \in EventsIn(t) |-> i + 1]
<1>3. shift \in [EventsIn(t) -> later]
  BY <1>2 DEF EventsIn
<1>4. \A i, j \in EventsIn(t) : shift[i] = shift[j] => i = j
  BY DEF EventsIn
<1>5. \A j \in later : j - 1 \in EventsIn(t) /\ shift[j - 1] = j
  BY <1>2 DEF EventsIn
<1>6. shift \in Bijection(EventsIn(t), later)
  BY <1>3, <1>4, <1>5 DEF Bijection, Injection, IsInjective, Surjection
<1>7. Cardinality(later) = Cardinality(EventsIn(t))
  BY <1>6, EventsBound, FS_Bijection DEF ExistsBijection
<1>8. Cardinality(later)
        = IF 1 \in EventsIn(q) THEN Cardinality(EventsIn(q)) - 1 ELSE Cardinality(EventsIn(q))
  BY EventsBound, FS_RemoveElement
<1>9. 1 \in EventsIn(q) <=> Head(q) = "event"
  BY <1>2 DEF EventsIn
<1>. QED  BY <1>1, <1>2, <1>7, <1>8, <1>9 DEF Events

-----------------------------------------------------------------------------
(* What the hub is still owed *)

\* Until its handler ends, a connection owes the hub the events in its buffer.
Ledger ==
  \A c \in Conns : conn[c] \in {"none", "accepted", "handled"} => owed[c] = Events(unread[c])

\* A handler that ended by itself, and not because a line raised in it, left none.
Paid ==
  \A c \in Conns \ Foreign :
    conn[c] \in {"finishing", "lost"} /\ c \notin snapshot \cup cut => owed[c] = 0

\* Only stop() cancels.
UpCancelsNone == owner = "up" => snapshot = {}

\* The inductive invariant behind NothingLostOnHangUp.
LedgerInv == TypeOK /\ Ledger /\ Paid /\ UpCancelsNone

\* A finally block that keeps owed leaves Paid true if its own connection is.
LEMMA FinishLedger ==
  ASSUME LedgerInv, NEW c \in Conns, Finish(c), UNCHANGED <<owner, snapshot, owed, unseen>>,
         cut \subseteq cut', cut' \subseteq Conns,
         c \in Foreign \cup snapshot \cup cut' \/ owed[c] = 0
  PROVE  LedgerInv'
<1>. USE DEF LedgerInv
<1>1. /\ conn' = [conn EXCEPT ![c] = "finishing"] /\ unread' = [unread EXCEPT ![c] = <<>>]
      /\ peer' = peer \ {c} /\ clients' = clients \ {c}
  BY DEF Finish, Put
<1>2. TypeOK'
  BY <1>1 DEF TypeOK
<1>3. Ledger'
  BY <1>1 DEF Ledger, TypeOK
<1>4. Paid'
  BY <1>1 DEF Paid, TypeOK
<1>5. UpCancelsNone'
  BY DEF UpCancelsNone
<1>. QED  BY <1>2, <1>3, <1>4, <1>5

\* What a reader does keeps the ledger.
LEMMA ReaderLedger ==
  ASSUME LedgerInv, NEW c \in Conns, Reader(c) PROVE LedgerInv'
<1>. USE IngesterAssumption DEF IngesterAssumption, LedgerInv
<1>1. CASE Accept(c)
  <2>1. conn' = [conn EXCEPT ![c] = "accepted"] /\ conn[c] = "none" /\ peer' = peer \cup {c}
    BY <1>1 DEF Accept, Put
  <2>2. UNCHANGED <<owner, unread, clients, snapshot, owed, cut, unseen>>
    BY <1>1 DEF Accept
  <2>. QED  BY <2>1, <2>2 DEF TypeOK, Ledger, Paid, UpCancelsNone
<1>2. CASE HangUp(c)
  BY <1>2 DEF HangUp, TypeOK, Ledger, Paid, UpCancelsNone
<1>3. ASSUME NEW line \in Lines, Write(c, line) PROVE LedgerInv'
  <2>1. /\ unread[c] \in Seq(Lines) /\ Len(unread[c]) < MaxLines
        /\ conn[c] \in {"accepted", "handled"} /\ owed[c] = Events(unread[c])
    BY <1>3 DEF Write, TypeOK, Ledger
  <2>2. PICK q \in Seq(Lines) : q = Append(unread[c], line)
    BY <2>1, EventsAppend
  <2>3. /\ Len(q) <= MaxLines /\ Events(q) \in 0..MaxLines
        /\ Events(q) = IF line = "event" THEN owed[c] + 1 ELSE owed[c]
    <3>1. Len(q) = Len(unread[c]) + 1
          /\ Events(q) = IF line = "event" THEN Events(unread[c]) + 1 ELSE Events(unread[c])
      BY <2>1, <2>2, EventsAppend
    <3>2. Events(q) \in 0..Len(q)
      BY EventsBound
    <3>. QED  BY <2>1, <3>1, <3>2
  <2>4. unread' = [unread EXCEPT ![c] = q] /\ owed' = [owed EXCEPT ![c] = Events(q)]
    BY <1>3, <2>2, <2>3 DEF Write, Put, TypeOK
  <2>5. UNCHANGED <<owner, conn, peer, clients, snapshot, cut, unseen>>
    BY <1>3 DEF Write
  <2>. QED  BY <2>1, <2>3, <2>4, <2>5 DEF TypeOK, Ledger, Paid, UpCancelsNone
<1>. QED  BY <1>1, <1>2, <1>3 DEF Reader

\* What a handler does keeps the ledger.
LEMMA HandlerLedger ==
  ASSUME LedgerInv, NEW c \in Conns, Handler(c) PROVE LedgerInv'
<1>. USE IngesterAssumption DEF IngesterAssumption, LedgerInv
<1>1. CASE FirstSlice(c)
  <2>1. CASE c \in Foreign
    <3>1. Finish(c) /\ UNCHANGED <<owner, snapshot, owed, cut, unseen>>
      BY <1>1, <2>1 DEF FirstSlice
    <3>. QED  BY <2>1, <3>1, FinishLedger DEF TypeOK
  <2>2. CASE c \notin Foreign
    <3>1. /\ conn' = [conn EXCEPT ![c] = "handled"] /\ conn[c] = "accepted"
          /\ clients' = clients \cup {c}
          /\ UNCHANGED <<owner, peer, unread, snapshot, owed, cut, unseen>>
      BY <1>1, <2>2 DEF FirstSlice, Put
    <3>. QED  BY <3>1 DEF TypeOK, Ledger, Paid, UpCancelsNone
  <2>. QED  BY <2>1, <2>2
<1>2. CASE ReadLine(c)
  <2>1. /\ unread[c] \in Seq(Lines) /\ unread[c] # <<>> /\ conn[c] = "handled"
        /\ owed[c] = Events(unread[c])
    BY <1>2 DEF ReadLine, Reading, TypeOK, Ledger
  <2>2. PICK q \in Seq(Lines) : q = Tail(unread[c])
    BY <2>1, EventsTail
  <2>3. /\ Events(q) = IF Head(unread[c]) = "event" THEN owed[c] - 1 ELSE owed[c]
        /\ Events(q) \in Nat /\ owed[c] \in 0..MaxLines
    <3>1. Events(q) = IF Head(unread[c]) = "event" THEN Events(unread[c]) - 1
                      ELSE Events(unread[c])
      BY <2>1, <2>2, EventsTail
    <3>2. Events(q) \in 0..Len(q) /\ Len(q) \in Nat
      BY EventsBound
    <3>. QED  BY <2>1, <3>1, <3>2 DEF TypeOK
  <2>4. unread' = [unread EXCEPT ![c] = q] /\ owed' = [owed EXCEPT ![c] = Events(q)]
    BY <1>2, <2>2, <2>3 DEF ReadLine, DropJunk, RelayLine, Put, TypeOK
  <2>5. Events(q) \in 0..MaxLines
    BY <2>3
  <2>6. UNCHANGED <<owner, conn, peer, clients, snapshot, cut, unseen>>
    BY <1>2 DEF ReadLine, DropJunk, RelayLine
  <2>. QED  BY <2>1, <2>4, <2>5, <2>6 DEF TypeOK, Ledger, Paid, UpCancelsNone
<1>3. CASE LineRaises(c)
  <2>1. Finish(c) /\ cut' = cut \cup {c} /\ UNCHANGED <<owner, snapshot, owed, unseen>>
    BY <1>3 DEF LineRaises
  <2>. QED  BY <2>1, FinishLedger DEF TypeOK
<1>4. CASE EndOfFile(c)
  <2>1. Finish(c) /\ UNCHANGED <<owner, snapshot, owed, cut, unseen>>
    BY <1>4 DEF EndOfFile
  <2>2. owed[c] = 0
    BY <1>4, EventsBound DEF EndOfFile, Reading, Ledger, TypeOK
  <2>. QED  BY <2>1, <2>2, FinishLedger DEF TypeOK
<1>5. CASE Cancelled(c)
  <2>1. Finish(c) /\ c \in snapshot /\ UNCHANGED <<owner, snapshot, owed, cut, unseen>>
    BY <1>5 DEF Cancelled
  <2>. QED  BY <2>1, FinishLedger DEF TypeOK
<1>6. CASE Lost(c)
  <2>1. conn[c] = "finishing" /\ conn' = [conn EXCEPT ![c] = "lost"]
    BY <1>6 DEF Lost, Put
  <2>2. UNCHANGED <<owner, peer, unread, clients, snapshot, owed, cut, unseen>>
    BY <1>6 DEF Lost
  <2>. QED  BY <2>1, <2>2 DEF TypeOK, Ledger, Paid, UpCancelsNone
<1>. QED  BY <1>1, <1>2, <1>3, <1>4, <1>5, <1>6 DEF Handler

\* The ledger is inductive: stop() only adds to those that may owe.
LEMMA LedgerStep == LedgerInv /\ [Next]_vars => LedgerInv'
<1>. SUFFICES ASSUME LedgerInv, [Next]_vars PROVE LedgerInv'
  OBVIOUS
<1>. USE DEF LedgerInv
<1>1. CASE Stop
  <2>1. /\ owner = "up" /\ owner' = "cancelling" /\ snapshot' = clients
        /\ unseen' = {c \in Conns : conn[c] = "accepted"}
        /\ UNCHANGED <<conn, peer, unread, clients, owed, cut>>
    BY <1>1 DEF Stop, CancelHandlers
  <2>. QED  BY <2>1 DEF TypeOK, Ledger, Paid, UpCancelsNone
<1>2. CASE Stopping
  <2>1. /\ owner' \in {"closing", "stopped"}
        /\ UNCHANGED <<conn, peer, unread, clients, snapshot, owed, cut, unseen>>
    BY <1>2 DEF Stopping, HandlersEnd, StopEnds
  <2>. QED  BY <2>1 DEF TypeOK, Ledger, Paid, UpCancelsNone
<1>3. CASE UNCHANGED vars
  BY <1>3 DEF vars, TypeOK, Ledger, Paid, UpCancelsNone
<1>. QED  BY <1>1, <1>2, <1>3, ReaderLedger, HandlerLedger DEF Next

LEMMA LedgerInvariant == Spec => []LedgerInv
<1>1. Init => LedgerInv
  <2>1. ASSUME Init PROVE TypeOK
    BY <2>1, IngesterAssumption DEF IngesterAssumption, Init, TypeOK
  <2>2. ASSUME Init PROVE Ledger
    <3>1. <<>> \in Seq(Lines)
      OBVIOUS
    <3>2. Events(<<>>) = 0
      BY <3>1, EventsBound
    <3>. QED  BY <2>2, <3>2 DEF Init, Ledger
  <2>. QED  BY <2>1, <2>2 DEF Init, LedgerInv, Paid, UpCancelsNone
<1>. QED  BY <1>1, LedgerStep, PTL DEF Spec

\* _clients is exactly the handlers that have begun and not ended, only a
\* connection with a handler has a reader, and no count leaves its bound.
THEOREM IngesterTypeCorrect == Spec => []TypeOK
  BY LedgerInvariant, PTL DEF LedgerInv

\* Whatever a reader wrote before it hung up reaches the hub, event by event,
\* unless its connection was cancelled by stop(), refused for its uid or cut by a
\* line that raised in its handler: one too long, or one json.loads fails on with
\* an error other than JSONDecodeError.
THEOREM HangUpLosesNothing == Spec => []NothingLostOnHangUp
<1>1. LedgerInv => NothingLostOnHangUp
  BY DEF LedgerInv, Paid, NothingLostOnHangUp
<1>. QED  BY <1>1, LedgerInvariant, PTL

=============================================================================
