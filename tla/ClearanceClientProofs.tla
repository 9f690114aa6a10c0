------------------------- MODULE ClearanceClientProofs -------------------------
(***************************************************************************)
(* The client's sockets, for any number of sockets, any back-off cap and   *)
(* any number of faults.                                                   *)
(***************************************************************************)
EXTENDS ClearanceClient, TLAPS

\* What start(), stop() and the stream task are doing says which connections
\* they hold.
Control ==
  /\ owner \in {"new", "starting", "refused"} => task = "none"
  /\ owner = "stopped" <=> task = "ended"
  /\ owner = "running" => task \in Healthy \cup {"waiting", "dialling"}
  /\ task \in Healthy => sub # None /\ rpc # None
  /\ task = "dialling" \/ owner = "starting" => rpc = None
  /\ owner \in {"new", "refused", "stopped"} \/ task = "waiting"
       \/ (owner = "stopping" /\ task = "none")
     => sub = None /\ rpc = None

\* The three holders hold sockets of their own, and exactly the sockets in use.
Sound ==
  /\ \A k \in Sockets : wire[k] # "free" <=> k \in {sub, rpc, shot}
  /\ sub # None => sub # rpc /\ sub # shot
  /\ rpc # None => rpc # shot

\* The call connection is lost only alone or after the stream's.
LostTogether ==
  rpc # None /\ wire[rpc] = "lost" => alone \/ (sub # None /\ wire[sub] = "lost")

IInv == TypeOK /\ Control /\ Sound /\ LostTogether

\* Nothing is open.
LEMMA InitInv == Init => IInv
<1>. SUFFICES ASSUME Init PROVE IInv
  OBVIOUS
<1>. USE ClientAssumption DEF ClientAssumption
<1>1. TypeOK
  <2>1. poke \in BOOLEAN /\ hub \in BOOLEAN /\ alone \in BOOLEAN
    BY Zenon DEF Init
  <2>2. backoff \in 1..MaxBackoff /\ faults \in 0..MaxFaults
    BY DEF Init
  <2>. QED  BY <2>1, <2>2 DEF Init, TypeOK, Healthy
<1>2. Control
  BY DEF Init, Control, Healthy
<1>3. Sound /\ LostTogether
  BY DEF Init, Sound, LostTogether
<1>. QED  BY <1>1, <1>2, <1>3 DEF IInv

\* Closing both connections frees their sockets and no other.
LEMMA CloseStep ==
  ASSUME IInv, CloseTransports, UNCHANGED shot
  PROVE  /\ sub' = None /\ rpc' = None /\ inbound' = "none"
         /\ wire' \in [Sockets -> {"free", "open", "lost"}]
         /\ Sound' /\ LostTogether'
  BY ClientAssumption
  DEF ClientAssumption, IInv, TypeOK, Sound, LostTogether, CloseTransports

\* A new stream connection takes a free socket.
LEMMA OpenSubStep ==
  ASSUME IInv, OpenSub, UNCHANGED <<shot, alone>>, rpc = None
  PROVE  /\ sub' \in Sockets /\ rpc' = None /\ UNCHANGED inbound
         /\ wire' \in [Sockets -> {"free", "open", "lost"}]
         /\ Sound' /\ LostTogether'
  BY ClientAssumption
  DEF ClientAssumption, IInv, TypeOK, Sound, LostTogether, OpenSub, Free, Put

\* A new call connection takes a free socket, and is not lost.
LEMMA OpenRpcStep ==
  ASSUME IInv, OpenRpc, UNCHANGED shot, rpc = None
  PROVE  /\ sub' = sub /\ sub # None /\ rpc' \in Sockets /\ alone' = FALSE
         /\ UNCHANGED inbound
         /\ wire' \in [Sockets -> {"free", "open", "lost"}]
         /\ Sound' /\ LostTogether'
  BY ClientAssumption
  DEF ClientAssumption, IInv, TypeOK, Sound, LostTogether, OpenRpc, Free, Put

-----------------------------------------------------------------------------
\* A dial, by start() or by the stream task.
LEMMA DiallingStep == ASSUME IInv, Dialling PROVE IInv'
<1>. USE ClientAssumption DEF ClientAssumption, IInv
<1>1. CASE StartOpensSub \/ RedialOpensSub
  <2>1. OpenSub /\ UNCHANGED <<owner, task, backoff, poke, hub, call, shot, alone, faults>>
    BY <1>1 DEF StartOpensSub, RedialOpensSub, loopVars, restVars
  <2>2. rpc = None /\ (owner = "starting" \/ task = "dialling")
    BY <1>1 DEF StartOpensSub, RedialOpensSub, Control
  <2>3. /\ sub' \in Sockets /\ rpc' = None /\ UNCHANGED inbound
        /\ wire' \in [Sockets -> {"free", "open", "lost"}]
        /\ Sound' /\ LostTogether'
    BY <2>1, <2>2, OpenSubStep
  <2>4. TypeOK'
    BY <2>1, <2>3 DEF TypeOK
  <2>5. Control'
    BY <2>1, <2>2, <2>3 DEF Control, Healthy
  <2>. QED  BY <2>3, <2>4, <2>5
<1>2. CASE StartConnects \/ Reconnect
  <2>1. OpenRpc /\ rpc = None /\ UNCHANGED <<poke, hub, call, shot, faults>>
    BY <1>2 DEF StartConnects, Reconnect, loopVars, callVars, Control
  <2>2. /\ task' = "streaming" /\ owner' \in {"running", "stopping"}
        /\ backoff' \in 1..MaxBackoff
    BY <1>2 DEF StartConnects, Reconnect, loopVars, Control, Healthy, TypeOK
  <2>3. /\ sub' = sub /\ sub # None /\ rpc' \in Sockets /\ alone' = FALSE
        /\ UNCHANGED inbound
        /\ wire' \in [Sockets -> {"free", "open", "lost"}]
        /\ Sound' /\ LostTogether'
    BY <2>1, OpenRpcStep
  <2>4. TypeOK'
    BY <2>1, <2>2, <2>3 DEF TypeOK, Healthy
  <2>5. Control'
    BY <2>2, <2>3 DEF Control, Healthy
  <2>. QED  BY <2>3, <2>4, <2>5
<1>3. CASE StartRefused \/ RedialFails
  <2>1. CloseTransports /\ UNCHANGED <<backoff, poke, hub, call, shot, alone, faults>>
    BY <1>3 DEF StartRefused, RedialFails, DialFails, loopVars, restVars
  <2>2. /\ sub' = None /\ rpc' = None /\ inbound' = "none"
        /\ wire' \in [Sockets -> {"free", "open", "lost"}]
        /\ Sound' /\ LostTogether'
    BY <2>1, CloseStep
  <2>3. TypeOK'
    BY <1>3, <2>1, <2>2 DEF StartRefused, RedialFails, TypeOK
  <2>4. Control'
    BY <1>3, <2>2 DEF StartRefused, RedialFails, Control, Healthy
  <2>. QED  BY <2>2, <2>3, <2>4
<1>. QED  BY <1>1, <1>2, <1>3 DEF Dialling

\* The stream task's other slices.
LEMMA StreamingStep == ASSUME IInv, Streaming PROVE IInv'
<1>. USE ClientAssumption DEF ClientAssumption, IInv
<1>1. CASE StreamEnds
  <2>1. CloseTransports /\ UNCHANGED <<owner, backoff, poke, hub, call, shot, alone, faults>>
        /\ task = "streaming" /\ task' = "waiting"
    BY <1>1 DEF StreamEnds, loopVars, restVars
  <2>2. /\ sub' = None /\ rpc' = None /\ inbound' = "none"
        /\ wire' \in [Sockets -> {"free", "open", "lost"}]
        /\ Sound' /\ LostTogether'
    BY <2>1, CloseStep
  <2>3. TypeOK'
    BY <2>1, <2>2 DEF TypeOK
  <2>4. Control'
    BY <2>1, <2>2 DEF Control, Healthy, TypeOK
  <2>. QED  BY <2>2, <2>3, <2>4
<1>2. CASE EventArrives \/ EventHandled \/ BackoffExpires \/ BackoffPoked
  <2>1. UNCHANGED <<owner, sub, rpc, wire, hub, call, shot, alone, faults>>
    BY <1>2 DEF EventArrives, EventHandled, BackoffExpires, BackoffPoked, linkVars, restVars
  <2>2. Sound' /\ LostTogether'
    BY <2>1 DEF Sound, LostTogether
  <2>3. TypeOK'
    <3>0. inbound' \in {"none", "event", "unusable"}
      BY <1>2 DEF EventArrives, EventHandled, BackoffExpires, BackoffPoked,
                  linkVars, TypeOK
    <3>1. /\ task' \in Healthy \cup {"none", "waiting", "dialling", "ended"}
          /\ poke' \in BOOLEAN
      BY <1>2 DEF EventArrives, EventHandled, BackoffExpires, BackoffPoked,
                  loopVars, TypeOK, Healthy
    <3>2. backoff' \in 1..MaxBackoff
      BY <1>2 DEF EventArrives, EventHandled, BackoffExpires, BackoffPoked, loopVars, TypeOK
    <3>. QED  BY <2>1, <3>0, <3>1, <3>2 DEF TypeOK
  <2>4. Control'
    BY <1>2, <2>1 DEF EventArrives, EventHandled, BackoffExpires, BackoffPoked,
                      Control, Healthy, TypeOK
  <2>. QED  BY <2>2, <2>3, <2>4
<1>. QED  BY <1>1, <1>2 DEF Streaming

\* The owner starts, pokes and stops.
LEMMA OwnerStep == ASSUME IInv, Start \/ Poke \/ Stop \/ StopEnds PROVE IInv'
<1>. USE ClientAssumption DEF ClientAssumption, IInv
<1>1. CASE StopEnds
  <2>1. CloseTransports /\ UNCHANGED <<backoff, poke, hub, call, shot, alone, faults>>
        /\ owner' = "stopped" /\ task' = "ended"
    BY <1>1 DEF StopEnds, loopVars, restVars
  <2>2. /\ sub' = None /\ rpc' = None /\ inbound' = "none"
        /\ wire' \in [Sockets -> {"free", "open", "lost"}]
        /\ Sound' /\ LostTogether'
    BY <2>1, CloseStep
  <2>3. TypeOK'
    BY <2>1, <2>2 DEF TypeOK
  <2>4. Control'
    BY <2>1, <2>2 DEF Control, Healthy
  <2>. QED  BY <2>2, <2>3, <2>4
<1>2. CASE Start \/ Poke \/ Stop
  <2>1. UNCHANGED <<task, sub, rpc, wire, inbound, backoff, hub, call, shot, alone, faults>>
    BY <1>2 DEF Start, Poke, Stop, linkVars, loopVars, restVars
  <2>2. Sound' /\ LostTogether'
    BY <2>1 DEF Sound, LostTogether
  <2>3. TypeOK'
    <3>1. owner' \in {"new", "starting", "refused", "running", "stopping", "stopped"}
      BY <1>2 DEF Start, Poke, Stop, TypeOK
    <3>2. poke' \in BOOLEAN
      BY <1>2 DEF Start, Poke, Stop, loopVars, TypeOK
    <3>. QED  BY <2>1, <3>1, <3>2 DEF TypeOK
  <2>4. Control'
    BY <1>2, <2>1 DEF Start, Poke, Stop, Control, Healthy
  <2>. QED  BY <2>2, <2>3, <2>4
<1>. QED  BY <1>1, <1>2

\* Calls and one-shot helpers leave the client's own connections alone.
LEMMA CallStep == ASSUME IInv, CallSent \/ CallEnds \/ ShotDials \/ ShotEnds PROVE IInv'
<1>. USE ClientAssumption DEF ClientAssumption, IInv
<1>1. UNCHANGED <<owner, task, sub, rpc, inbound, backoff, poke, hub, alone, faults>>
  BY DEF CallSent, CallEnds, CallBreaks, CallReturns, ShotDials, ShotEnds,
         linkVars, loopVars, pastVars
<1>2. Control'
  BY <1>1 DEF Control
<1>3. CASE CallSent \/ CallEnds
  <2>1. UNCHANGED <<wire, shot>> /\ call' \in Sockets \cup {None}
    BY <1>3 DEF CallSent, CallEnds, CallBreaks, CallReturns, linkVars, TypeOK
  <2>2. TypeOK' /\ Sound' /\ LostTogether'
    BY <1>1, <2>1 DEF TypeOK, Sound, LostTogether
  <2>. QED  BY <1>2, <2>2
<1>4. CASE ShotDials
  <2>1. PICK k \in Free : shot' = k /\ wire' = Put(wire, k, "open")
    BY <1>4 DEF ShotDials
  <2>2. UNCHANGED call /\ shot = None /\ k \in Sockets /\ k \notin {sub, rpc}
    BY <1>4, <2>1 DEF ShotDials, Free, Sound
  <2>3. TypeOK' /\ Sound' /\ LostTogether'
    BY <1>1, <2>1, <2>2 DEF TypeOK, Sound, LostTogether, Put
  <2>. QED  BY <1>2, <2>3
<1>5. CASE ShotEnds
  <2>1. /\ shot' = None /\ wire' = Put(wire, shot, "free") /\ UNCHANGED call
        /\ shot \in Sockets /\ shot \notin {sub, rpc}
    BY <1>5 DEF ShotEnds, TypeOK, Sound
  <2>2. TypeOK' /\ Sound' /\ LostTogether'
    BY <1>1, <2>1 DEF TypeOK, Sound, LostTogether, Put
  <2>. QED  BY <1>2, <2>2
<1>. QED  BY <1>3, <1>4, <1>5

\* A reply changes no connection; a fault loses sockets but frees none.
LEMMA HubStep == ASSUME IInv, Hub PROVE IInv'
<1>. USE ClientAssumption DEF ClientAssumption, IInv
<1>1. UNCHANGED <<owner, task, sub, rpc, backoff, poke, call, shot>>
  BY DEF Hub, Replies, HubGoes, HubComes, ConnectionBreaks, linkVars, loopVars, restVars, callVars
<1>2. Control'
  BY <1>1 DEF Control
<1>3. TypeOK'
  <2>0. hub' \in BOOLEAN
    BY Zenon DEF Hub, Replies, HubGoes, HubComes, ConnectionBreaks, restVars, TypeOK
  <2>1. faults' \in 0..MaxFaults
    BY DEF Hub, Replies, HubGoes, HubComes, ConnectionBreaks, pastVars, restVars, TypeOK
  <2>2. wire' \in [Sockets -> {"free", "open", "lost"}]
    <3>1. CASE HubGoes
      BY <3>1 DEF HubGoes, TypeOK
    <3>2. CASE HubComes
      BY <3>2 DEF HubComes, linkVars, TypeOK
    <3>3. CASE \E k \in Sockets : ConnectionBreaks(k)
      BY <3>3 DEF ConnectionBreaks, TypeOK, Put
    <3>4. CASE Replies
      BY <3>4 DEF Replies, TypeOK
    <3>. QED  BY <3>1, <3>2, <3>3, <3>4 DEF Hub
  <2>3. alone' \in BOOLEAN
    <3>1. CASE UNCHANGED alone
      BY <3>1 DEF TypeOK
    <3>2. CASE \E k \in Sockets : alone' = (alone \/ k = rpc)
      BY <3>2
    <3>. QED  BY <3>1, <3>2 DEF Hub, Replies, HubGoes, HubComes, ConnectionBreaks, pastVars, restVars
  <2>4. inbound' \in {"none", "event", "unusable"}
    BY DEF Hub, Replies, HubGoes, HubComes, ConnectionBreaks, linkVars, TypeOK
  <2>. QED  BY <1>1, <2>0, <2>1, <2>2, <2>3, <2>4 DEF TypeOK
<1>4. Sound'
  BY <1>1 DEF Hub, Replies, HubGoes, HubComes, ConnectionBreaks, linkVars, TypeOK, Sound, Put
<1>5. LostTogether'
  BY <1>1 DEF Hub, Replies, HubGoes, HubComes, ConnectionBreaks, linkVars, pastVars, restVars, TypeOK, Sound,
              Control, LostTogether, Put
<1>. QED  BY <1>2, <1>3, <1>4, <1>5

-----------------------------------------------------------------------------
\* Every step keeps the invariant.
LEMMA StepInv == IInv /\ [Next]_vars => IInv'
<1>1. IInv /\ UNCHANGED vars => IInv'
  BY DEF vars, IInv, TypeOK, Control, Sound, LostTogether
<1>. QED
  BY <1>1, DiallingStep, StreamingStep, OwnerStep, CallStep, HubStep DEF Next

\* The invariant holds in every reachable state.
LEMMA Invariance == Spec => []IInv
  BY InitInv, StepInv, PTL DEF Spec

\* Every reachable state is well typed: the back-off stays within its cap.
THEOREM ClientTypeCorrect == Spec => []TypeOK
<1>1. IInv => TypeOK
  BY DEF IInv
<1>. QED  BY <1>1, Invariance, PTL

\* Whatever dial fails and whenever the hub goes, the client forgets no socket
\* that is not closed.
THEOREM NoSocketIsForgotten == Spec => []NoSocketLeaks
<1>1. IInv => NoSocketLeaks
  BY DEF IInv, Sound, NoSocketLeaks
<1>. QED  BY <1>1, Invariance, PTL

\* When stop() has returned the stream task has ended and both connections are
\* closed, wherever in a dial, a back-off or a callback it was cancelled.
THEOREM StopCloses == Spec => []StoppedIsClosed
<1>1. IInv => StoppedIsClosed
  BY ClientAssumption DEF ClientAssumption, IInv, Control, Sound, StoppedIsClosed, TypeOK
<1>. QED  BY <1>1, Invariance, PTL

\* A stream that is up can be answered, unless the call connection broke by itself.
THEOREM StreamIsCallable == Spec => []StreamingMeansCallable
<1>1. ASSUME IInv, task \in Healthy, wire[sub] = "open", ~alone
      PROVE  rpc # None /\ wire[rpc] = "open"
  <2>1. rpc # None
    BY <1>1 DEF IInv, Control
  <2>2. rpc \in Sockets /\ wire[rpc] \in {"open", "lost"}
    BY <1>1, <2>1 DEF IInv, TypeOK, Sound
  <2>. QED  BY <1>1, <2>1, <2>2 DEF IInv, LostTogether
<1>2. IInv => StreamingMeansCallable
  BY <1>1 DEF StreamingMeansCallable
<1>. QED  BY <1>2, Invariance, PTL

\* A step that lets go of a live connection of a streaming client is the end of
\* stop() or of a stream that was over.
LEMMA HangUpStep ==
  IInv /\ [Next]_vars =>
    [\A k \in {sub, rpc} \ {None} :
       task \in Healthy /\ wire[k] = "open" /\ k \notin {sub', rpc'}
         => owner' = "stopped" \/ StreamOver]_vars
<1>. SUFFICES ASSUME IInv, Next, task \in Healthy, <<sub', rpc'>> # <<sub, rpc>>
     PROVE  owner' = "stopped" \/ StreamOver
  BY DEF vars
<1>1. ~Dialling
  BY DEF IInv, Control, Healthy, Dialling, StartOpensSub, StartConnects, StartRefused,
         RedialOpensSub, Reconnect, RedialFails, OpenSub, OpenRpc
<1>2. CASE Streaming
  BY <1>2 DEF Streaming, EventArrives, EventHandled, StreamEnds, BackoffExpires,
              BackoffPoked, linkVars
<1>. QED
  BY <1>1, <1>2
  DEF Next, Start, Poke, Stop, StopEnds, CallSent, CallEnds, CallBreaks, CallReturns,
      ShotDials, ShotEnds, Hub, Replies, HubGoes, HubComes, ConnectionBreaks, linkVars

\* A streaming client lets go of a live connection only to stop or because its
\* stream is over, lost or at a reply it cannot use: a callback that raises, a poke,
\* a redial in progress or a failing call never costs it one.
THEOREM HangUpsHaveCause == Spec => HangsUpOnlyWithCause
  BY Invariance, HangUpStep, PTL DEF Spec, HangsUpOnlyWithCause

=============================================================================
