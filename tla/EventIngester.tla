---------------------------- MODULE EventIngester ----------------------------
(***************************************************************************)
(* The reader socket of the hub (hub/ingester.py): one handler task per    *)
(* accepted connection, which forwards each line to the hub, and a stop()  *)
(* that cancels the handlers and waits for the server to close.            *)
(*                                                                         *)
(* One action is a slice of a handler or of stop() between awaits.  The    *)
(* hub's sink never suspends, so a line is read and relayed in one slice.  *)
(* asyncio's server counts a connection from its acceptance until it is    *)
(* lost, while the handler enters _clients in its own first slice.  A line *)
(* is what it does: an event; junk that is dropped, as blank lines, what   *)
(* raises JSONDecodeError and what is no object are; or a fatal one, which *)
(* raises anything else: bytes that do not decode (UnicodeDecodeError), a  *)
(* number or a nesting json.loads gives up on, or a line too long for the  *)
(* stream reader.  owed, cut and unseen are history.                       *)
(***************************************************************************)
EXTENDS Integers, Sequences, FiniteSets

CONSTANTS
  Conns,     \* connections readers make
  Foreign,   \* those whose peer runs under another uid
  MaxLines   \* bound: lines unread on one connection

ASSUME IngesterAssumption == Foreign \subseteq Conns /\ MaxLines \in Nat

VARIABLES
  owner,    \* start() and stop(): up, cancelling, closing, stopped
  conn,     \* each connection: none, accepted, handled, finishing, lost
  peer,     \* connections whose reader has not hung up
  unread,   \* lines written and not yet read
  clients,  \* _clients
  snapshot, \* the tasks stop() cancelled and awaits
  owed,     \* events written and not relayed to the hub
  cut,      \* connections ended by a line that raised in their handler
  unseen    \* connections accepted when stop() began, whose handlers had not run

vars == <<owner, conn, peer, unread, clients, snapshot, owed, cut, unseen>>

Lines == {"event", "junk", "fatal"}

Put(f, k, v) == [f EXCEPT ![k] = v]

-----------------------------------------------------------------------------
Init ==
  /\ owner = "up"
  /\ conn = [c \in Conns |-> "none"]
  /\ peer = {} /\ clients = {} /\ snapshot = {}
  /\ unread = [c \in Conns |-> <<>>]
  /\ owed = [c \in Conns |-> 0]
  /\ cut = {} /\ unseen = {}

(* Readers *)

\* The event loop accepts: the server counts the connection, the handler's task
\* exists and has not run.
Accept(c) ==
  /\ owner = "up" /\ conn[c] = "none"
  /\ conn' = Put(conn, c, "accepted")
  /\ peer' = peer \cup {c}
  /\ UNCHANGED <<owner, unread, clients, snapshot, owed, cut, unseen>>

Write(c, line) ==
  /\ c \in peer
  /\ Len(unread[c]) < MaxLines
  /\ unread' = Put(unread, c, Append(unread[c], line))
  /\ owed' = IF line = "event" THEN Put(owed, c, owed[c] + 1) ELSE owed
  /\ UNCHANGED <<owner, conn, peer, clients, snapshot, cut, unseen>>

HangUp(c) ==
  /\ c \in peer
  /\ peer' = peer \ {c}
  /\ UNCHANGED <<owner, conn, unread, clients, snapshot, owed, cut, unseen>>

(* _handle_client *)

FinishListed(c) ==  \* mutant: the task stays in the set
  /\ peer' = peer \ {c}
  /\ conn' = Put(conn, c, "finishing")
  /\ unread' = Put(unread, c, <<>>)
  /\ UNCHANGED clients

\* The finally block: off the set, and the writer closed; what was not read is
\* dropped, and the peer, if it is still there, hung up on.
Finish(c) ==
  /\ peer' = peer \ {c}
  /\ conn' = Put(conn, c, "finishing")
  /\ clients' = clients \ {c}
  /\ unread' = Put(unread, c, <<>>)

FirstSlice(c) ==
  /\ conn[c] = "accepted"
  /\ IF c \in Foreign THEN Finish(c)
     ELSE /\ conn' = Put(conn, c, "handled") /\ clients' = clients \cup {c}
          /\ UNCHANGED <<peer, unread>>
  /\ UNCHANGED <<owner, snapshot, owed, cut, unseen>>

Reading(c) == conn[c] = "handled" /\ c \notin snapshot

JunkFinishes(c) ==  \* mutant: a line that is no event ends its connection
  /\ Head(unread[c]) = "junk"
  /\ Finish(c)
  /\ UNCHANGED owed

\* _dispatch drops what it can tell is no event.
DropJunk(c) ==
  /\ Head(unread[c]) = "junk"
  /\ unread' = Put(unread, c, Tail(unread[c]))
  /\ UNCHANGED <<conn, peer, clients, owed, unseen>>

RelayLine(c) ==
  /\ Head(unread[c]) = "event"
  /\ unread' = Put(unread, c, Tail(unread[c]))
  /\ owed' = Put(owed, c, owed[c] - 1)
  /\ UNCHANGED <<conn, peer, clients>>

ReadLine(c) ==
  /\ Reading(c) /\ unread[c] # <<>>
  /\ DropJunk(c) \/ RelayLine(c)
  /\ UNCHANGED <<owner, snapshot, cut, unseen>>

\* readline() raises on a line over its limit, and _dispatch catches only
\* JSONDecodeError: either error leaves the loop and drops what is still unread.
LineRaises(c) ==
  /\ Reading(c) /\ unread[c] # <<>> /\ Head(unread[c]) = "fatal"
  /\ Finish(c)
  /\ cut' = cut \cup {c}
  /\ UNCHANGED <<owner, snapshot, owed, unseen>>

EndOfFile(c) ==
  /\ Reading(c) /\ unread[c] = <<>> /\ c \notin peer
  /\ Finish(c)
  /\ UNCHANGED <<owner, snapshot, owed, cut, unseen>>

Cancelled(c) ==
  /\ conn[c] = "handled" /\ c \in snapshot
  /\ Finish(c)
  /\ UNCHANGED <<owner, snapshot, owed, cut, unseen>>

\* writer.wait_closed() returns: the server no longer counts the connection.
Lost(c) ==
  /\ conn[c] = "finishing"
  /\ conn' = Put(conn, c, "lost")
  /\ UNCHANGED <<owner, peer, unread, clients, snapshot, owed, cut, unseen>>

(* stop() *)

CancelLater ==  \* mutant: the handlers are left for after wait_closed()
  snapshot' = {}

\* The handlers known now are cancelled.
CancelHandlers == snapshot' = clients

Stop ==
  /\ owner = "up"
  /\ owner' = "cancelling"
  /\ CancelHandlers
  /\ unseen' = {c \in Conns : conn[c] = "accepted"}
  /\ UNCHANGED <<conn, peer, unread, clients, owed, cut>>

HandlersEnd ==
  /\ owner = "cancelling"
  /\ \A c \in snapshot : conn[c] = "lost"
  /\ owner' = "closing"
  /\ UNCHANGED <<conn, peer, unread, clients, snapshot, owed, cut, unseen>>

NoHandlers == clients = {}  \* mutant: the handlers are waited for, not the server

\* The server counts no connection.
ServerIdle == \A c \in Conns : conn[c] \in {"none", "lost"}

\* wait_closed() returns and the socket is unlinked.
StopEnds ==
  /\ owner = "closing" /\ ServerIdle
  /\ owner' = "stopped"
  /\ UNCHANGED <<conn, peer, unread, clients, snapshot, owed, cut, unseen>>

-----------------------------------------------------------------------------
Handler(c) == FirstSlice(c) \/ ReadLine(c) \/ LineRaises(c) \/ EndOfFile(c)
              \/ Cancelled(c) \/ Lost(c)

Reader(c) == Accept(c) \/ HangUp(c) \/ \E line \in Lines : Write(c, line)

Stopping == HandlersEnd \/ StopEnds

Next == Stop \/ Stopping \/ \E c \in Conns : Reader(c) \/ Handler(c)

Spec == Init /\ [][Next]_vars

\* The event loop runs what is ready.  No reader has to write or to hang up.
FairSpec == Spec /\ WF_vars(Stopping) /\ \A c \in Conns : WF_vars(Handler(c))

-----------------------------------------------------------------------------
(* Properties *)

\* The sets the code keeps and the life of each connection agree: _clients holds
\* exactly the handlers that have begun and not ended, in spite of cancellation,
\* refusal, end of file and errors.
TypeOK ==
  /\ owner \in {"up", "cancelling", "closing", "stopped"}
  /\ conn \in [Conns -> {"none", "accepted", "handled", "finishing", "lost"}]
  /\ peer \subseteq {c \in Conns : conn[c] \in {"accepted", "handled"}}
  /\ snapshot \subseteq Conns
  /\ clients = {c \in Conns : conn[c] = "handled"}
  /\ unread \in [Conns -> Seq(Lines)]
  /\ owed \in [Conns -> 0..MaxLines]
  /\ cut \subseteq Conns /\ unseen \subseteq Conns

\* A reader may write its events and leave before its handler has run at all:
\* whatever junk came between them, all of them reach the hub unless stop() cut
\* the connection, the uid is foreign or a line raised in the handler, which costs
\* the reader that line and all after it.
NothingLostOnHangUp ==
  \A c \in Conns \ Foreign :
    conn[c] = "lost" /\ c \notin snapshot \cup cut => owed[c] = 0

\* Once stop() has returned the hub hears nothing more, not even from a handler
\* that stop() had not seen.
SilentAfterStop == [][owner = "stopped" => \A c \in Conns : owed'[c] >= owed[c]]_vars

\* stop() returns, cancelling the readers it knows of, if in the end no reader it
\* does not know of stays connected: it depends on the peers only for connections
\* accepted so late that their handlers had not run.
StopReturns ==
  <>[](peer \cap unseen = {})
    => (owner = "cancelling" ~> owner = "stopped")

=============================================================================
