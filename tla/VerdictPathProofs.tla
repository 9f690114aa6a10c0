-------------------------- MODULE VerdictPathProofs --------------------------
(***************************************************************************)
(* What one verdict does on its way to the shield, for any number of       *)
(* callers, connections and outages.                                       *)
(***************************************************************************)
EXTENDS VerdictPath, TLAPS

\* The caller that dials holds the lock, and while it does no connection is
\* cached: who gets the lock looks again, and only the holder can fill the cache.
Locked ==
  /\ \A c \in Callers : at[c] = "connecting" <=> lock = c
  /\ lock # None => conn = None

\* Connections go, helpers are away and second attempts are made only after an
\* outage or a shutdown.
LossMeansOutage ==
  \/ outages > 0
  \/ /\ helper = "up"
     /\ \A k \in Links : link[k] \in {"unused", "open"}
     /\ \A c \in Callers : attempt[c] = 1

\* 1 once the attempt's shield can act no more.
Spent(c, a) == IF shield[<<c, a>>] \in {"acted", "killed", "gone"} THEN 1 ELSE 0

\* Each attempt spawns at most one shield, and that acts at most once.
OneActPerAttempt ==
  /\ serving \subseteq accepted
  /\ \A h \in Handlers : shield[h] # "none" => h \in accepted
  /\ \A c \in Callers : <<c, 2>> \in accepted => attempt[c] = 2
  /\ \A c \in Callers : acts[c] <= Spent(c, 1) + Spent(c, 2)
  /\ \A c \in Callers, a \in Attempts : shield[<<c, a>>] = "acted" => acts[c] > 0

IInv == TypeOK /\ Locked /\ OneConnection /\ LossMeansOutage
        /\ OneActPerAttempt /\ OkMeansApplied

\* Nothing has been opened, spawned or lost.
LEMMA InitInv == Init => IInv
<1>. SUFFICES ASSUME Init PROVE IInv
  OBVIOUS
<1>. USE PathAssumption DEF PathAssumption
<1>1. TypeOK
  BY DEF Init, TypeOK, Stages, Attempts, Handlers
<1>2. Locked /\ OneConnection /\ LossMeansOutage /\ OkMeansApplied
  BY DEF Init, Locked, OneConnection, LossMeansOutage, OkMeansApplied
<1>3. OneActPerAttempt
  BY DEF Init, OneActPerAttempt, Handlers, Attempts, Spent
<1>. QED  BY <1>1, <1>2, <1>3 DEF IInv

-----------------------------------------------------------------------------
(* The client *)

\* The shield's side of the invariant does not look at the client, but for the
\* attempts, which only go up, and for the results.
LEMMA ShieldUntouched ==
  ASSUME IInv, UNCHANGED <<serving, shield, acts, accepted>>,
         \A c \in Callers : attempt[c] = 2 => attempt'[c] = 2,
         \A c \in Callers : result'[c] = "ok" => result[c] = "ok"
  PROVE  OneActPerAttempt' /\ OkMeansApplied'
<1>1. \A c \in Callers, a \in Attempts : Spent(c, a)' = Spent(c, a)
  BY DEF Spent
<1>2. OneActPerAttempt'
  BY <1>1 DEF IInv, OneActPerAttempt, Attempts
<1>. QED  BY <1>2 DEF IInv, OkMeansApplied

\* Asking for the lock keeps the dialler and the holder the same, when nothing is
\* cached and the lock is held by the dialler or by nobody.
LEMMA AcquireStep ==
  ASSUME TypeOK, NEW c \in Callers, NEW holder \in Callers \cup {None},
         \A d \in Callers : d # c => (at[d] = "connecting" <=> holder = d),
         holder # c, Acquire(c, holder)
  PROVE  /\ at' \in [Callers -> Stages] /\ lock' \in Callers \cup {None}
         /\ \A d \in Callers : at'[d] = "connecting" <=> lock' = d
         /\ at'[c] # "calling" /\ \A d \in Callers : d # c => at'[d] = at[d]
<1>. USE PathAssumption DEF PathAssumption
<1>1. at \in [Callers -> Stages]
  BY DEF TypeOK
<1>2. CASE lock' = c /\ at' = Put(at, c, "connecting") /\ holder = None
  BY <1>1, <1>2 DEF Put, Stages
<1>3. CASE lock' = holder /\ at' = Put(at, c, "waiting")
  BY <1>1, <1>3 DEF Put, Stages
<1>. QED  BY <1>2, <1>3 DEF Acquire

\* A lost call or a refused connect drops what is cached and lets go of the lock
\* if it held it.
LEMMA FailedStep ==
  ASSUME IInv, NEW c \in Callers, NEW holder \in Callers \cup {None},
         \A d \in Callers : d # c => (at[d] = "connecting" <=> holder = d),
         holder # c, Failed(c, holder), outages > 0,
         UNCHANGED <<on, helperVars, shield, pastVars>>
  PROVE  IInv'
<1>. USE PathAssumption DEF PathAssumption, IInv
<1>1. UNCHANGED <<on, helper, serving, shield, acts, accepted, outages>>
  BY DEF helperVars, pastVars
<1>2. conn' = None /\ link' \in [Links -> {"unused", "open", "lost", "closed"}]
  BY DEF Failed, Disconnect, TypeOK, Put
<1>3. OneConnection'
  BY <1>2 DEF OneConnection, Failed, Disconnect, TypeOK, Put
<1>4. /\ at' \in [Callers -> Stages] /\ lock' \in Callers \cup {None}
      /\ \A d \in Callers : at'[d] = "connecting" <=> lock' = d
      /\ at'[c] # "calling" /\ \A d \in Callers : d # c => at'[d] = at[d]
  <2>1. CASE attempt[c] = 1
    BY <2>1, AcquireStep DEF Failed
  <2>2. CASE attempt[c] # 1
    <3>1. at' = Put(at, c, "done") /\ lock' = holder
      BY <2>2 DEF Failed
    <3>. QED  BY <3>1 DEF TypeOK, Put, Stages
  <2>. QED  BY <2>1, <2>2
<1>5. /\ attempt' \in [Callers -> Attempts]
      /\ result' \in [Callers -> {None, "ok", "failed", "unreachable"}]
  BY DEF Failed, TypeOK, Attempts, Put
<1>6. TypeOK'
  BY <1>1, <1>2, <1>4, <1>5 DEF TypeOK
<1>7. Locked' /\ LossMeansOutage'
  BY <1>1, <1>2, <1>4 DEF Locked, LossMeansOutage
<1>8. /\ \A d \in Callers : attempt[d] = 2 => attempt'[d] = 2
      /\ \A d \in Callers : result'[d] = "ok" => result[d] = "ok"
  BY DEF Failed, TypeOK, Attempts, Put
<1>9. OneActPerAttempt' /\ OkMeansApplied'
  BY <1>1, <1>8, ShieldUntouched
<1>. QED  BY <1>3, <1>6, <1>7, <1>9

\* A slice of apply() that loses nothing: it begins, gets the lock or connects.
LEMMA ClientStep ==
  ASSUME IInv, NEW c \in Callers, Apply(c) \/ LockGranted(c) \/ Connected(c)
  PROVE  IInv'
<1>. USE PathAssumption DEF PathAssumption, IInv
<1>1. UNCHANGED <<attempt, result, helper, serving, shield, acts, accepted, outages>>
  BY DEF Apply, LockGranted, Connected, helperVars, pastVars
<1>2. OneActPerAttempt' /\ OkMeansApplied'
  BY <1>1, ShieldUntouched
<1>3. CASE Apply(c) /\ conn = None
  <2>1. UNCHANGED <<on, conn, link>> /\ Acquire(c, lock) /\ lock # c
    BY <1>3 DEF Apply, Locked
  <2>2. /\ at' \in [Callers -> Stages] /\ lock' \in Callers \cup {None}
        /\ \A d \in Callers : at'[d] = "connecting" <=> lock' = d
        /\ at'[c] # "calling" /\ \A d \in Callers : d # c => at'[d] = at[d]
    BY <2>1, AcquireStep DEF TypeOK, Locked
  <2>3. TypeOK'
    BY <1>1, <2>1, <2>2 DEF TypeOK
  <2>4. Locked' /\ OneConnection' /\ LossMeansOutage'
    BY <1>1, <1>3, <2>1, <2>2 DEF Locked, OneConnection, LossMeansOutage
  <2>. QED  BY <1>2, <2>3, <2>4
<1>4. CASE (Apply(c) \/ LockGranted(c)) /\ conn # None
  <2>1. /\ UNCHANGED <<conn, link, lock>> /\ at[c] \in {"idle", "waiting"}
        /\ at' = Put(at, c, "calling") /\ on' = Put(on, c, conn)
    BY <1>4 DEF Apply, LockGranted
  <2>2. TypeOK'
    BY <1>1, <1>4, <2>1 DEF TypeOK, Put, Stages
  <2>3. Locked' /\ OneConnection' /\ LossMeansOutage'
    BY <1>1, <2>1 DEF TypeOK, Put, Locked, OneConnection, LossMeansOutage
  <2>. QED  BY <1>2, <2>2, <2>3
<1>5. CASE LockGranted(c) /\ conn = None
  <2>1. /\ UNCHANGED <<conn, link, on>> /\ lock = None
        /\ at' = Put(at, c, "connecting") /\ lock' = c
    BY <1>5 DEF LockGranted
  <2>2. TypeOK'
    BY <1>1, <2>1 DEF TypeOK, Put, Stages
  <2>3. Locked' /\ OneConnection' /\ LossMeansOutage'
    BY <1>1, <1>5, <2>1 DEF TypeOK, Put, Locked, OneConnection, LossMeansOutage
  <2>. QED  BY <1>2, <2>2, <2>3
<1>6. CASE Connected(c)
  <2>1. PICK k \in Links : k = NextLink
    BY <1>6 DEF Connected
  <2>2. /\ conn' = k /\ link' = Put(link, k, "open") /\ lock' = None
        /\ at' = Put(at, c, "calling") /\ on' = Put(on, c, k)
    BY <1>6, <2>1 DEF Connected
  <2>3. lock = c /\ conn = None
    BY <1>6 DEF Connected, Locked
  <2>4. TypeOK'
    BY <1>1, <2>2 DEF TypeOK, Put, Stages, Links
  <2>5. OneConnection'
    BY <2>2, <2>3 DEF TypeOK, Put, OneConnection, Links
  <2>6. Locked' /\ LossMeansOutage'
    BY <1>1, <2>2, <2>3 DEF TypeOK, Put, Locked, LossMeansOutage
  <2>. QED  BY <1>2, <2>4, <2>5, <2>6
<1>. QED  BY <1>3, <1>4, <1>5, <1>6

\* A call whose connection is gone, or a refused connect, follows an outage.
LEMMA LossStep ==
  ASSUME IInv, NEW c \in Callers, CallLost(c) \/ ConnectRefused(c)
  PROVE  IInv'
<1>. USE PathAssumption DEF PathAssumption, IInv
<1>1. CASE ConnectRefused(c)
  <2>1. outages > 0 /\ lock = c
    BY <1>1 DEF ConnectRefused, LossMeansOutage, Locked
  <2>2. \A d \in Callers : d # c => (at[d] = "connecting" <=> None = d)
    BY <2>1 DEF Locked
  <2>. QED  BY <1>1, <2>1, <2>2, FailedStep DEF ConnectRefused
<1>2. CASE CallLost(c)
  <2>1. on[c] \in Links /\ lock # c /\ lock \in Callers \cup {None}
    BY <1>2 DEF CallLost, TypeOK, Locked
  <2>2. outages > 0
    BY <1>2, <2>1 DEF CallLost, LossMeansOutage
  <2>3. \A d \in Callers : d # c => (at[d] = "connecting" <=> lock = d)
    BY DEF Locked
  <2>. QED  BY <1>2, <2>1, <2>2, <2>3, FailedStep DEF CallLost
<1>. QED  BY <1>1, <1>2

\* stop() of the client counts as an outage.
LEMMA ClientStopsStep == ASSUME IInv, ClientStops PROVE IInv'
<1>. USE PathAssumption DEF PathAssumption, IInv
<1>1. /\ UNCHANGED <<at, attempt, on, result, lock, helper, serving, shield, acts, accepted>>
      /\ conn' = None /\ outages' = outages + 1 /\ outages < MaxOutages
  BY DEF ClientStops, helperVars
<1>2. link' \in [Links -> {"unused", "open", "lost", "closed"}] /\ OneConnection'
  BY DEF ClientStops, Disconnect, TypeOK, Put, OneConnection
<1>3. OneActPerAttempt' /\ OkMeansApplied'
  BY <1>1, ShieldUntouched
<1>4. outages' \in 0..MaxOutages /\ outages' > 0
  BY <1>1 DEF TypeOK
<1>5. TypeOK' /\ Locked' /\ LossMeansOutage'
  BY <1>1, <1>2, <1>4 DEF TypeOK, Locked, LossMeansOutage
<1>. QED  BY <1>2, <1>3, <1>5

-----------------------------------------------------------------------------
(* The helper and the shield *)

\* An answer ends at most the call it is for.
LEMMA AnswerStep ==
  ASSUME IInv, NEW c \in Callers, NEW a \in Attempts, NEW verdict \in {"ok", "failed"},
         Answer(c, a, verdict)
  PROVE  /\ UNCHANGED <<attempt, on, conn, lock>> /\ serving' \subseteq serving
         /\ at' \in [Callers -> Stages]
         /\ result' \in [Callers -> {None, "ok", "failed", "unreachable"}]
         /\ \A d \in Callers : at'[d] = at[d] \/ (at[d] = "calling" /\ at'[d] = "done")
         /\ \A d \in Callers : result'[d] = "ok" =>
              result[d] = "ok" \/ (d = c /\ verdict = "ok")
<1>1. UNCHANGED <<attempt, on, conn, lock>> /\ serving' \subseteq serving
  BY DEF Answer
<1>2. CASE at' = Put(at, c, "done") /\ result' = Put(result, c, verdict) /\ at[c] = "calling"
  BY <1>1, <1>2 DEF IInv, TypeOK, Put, Stages
<1>3. CASE UNCHANGED <<at, result>>
  BY <1>1, <1>3 DEF IInv, TypeOK
<1>. QED  BY <1>2, <1>3 DEF Answer

\* The client's side of the invariant does not mind an answer.
LEMMA ClientUntouched ==
  ASSUME IInv, UNCHANGED <<attempt, conn, lock, link, helper, outages>>,
         \A d \in Callers : at'[d] = at[d] \/ (at[d] = "calling" /\ at'[d] = "done")
  PROVE  Locked' /\ OneConnection' /\ LossMeansOutage'
<1>1. Locked'
  BY DEF IInv, Locked
<1>. QED  BY <1>1 DEF IInv, OneConnection, LossMeansOutage

\* The helper takes a call once.
LEMMA SpawnStep ==
  ASSUME IInv, NEW c \in Callers, Spawn(c)
  PROVE  IInv'
<1>. USE PathAssumption DEF PathAssumption, IInv
<1>1. PICK a \in Attempts : a = attempt[c]
  BY DEF TypeOK
<1>2. /\ UNCHANGED <<at, attempt, on, result, conn, lock, link, helper, acts, outages>>
      /\ <<c, a>> \in Handlers /\ <<c, a>> \notin accepted
      /\ accepted' = accepted \cup {<<c, a>>} /\ serving' = serving \cup {<<c, a>>}
      /\ shield' = Put(shield, <<c, a>>, "running")
  BY <1>1 DEF Spawn, clientVars, Handlers
<1>3. TypeOK'
  BY <1>2 DEF TypeOK, Put
<1>4. shield[<<c, a>>] = "none"
  BY <1>2 DEF OneActPerAttempt
<1>5. \A d \in Callers, b \in Attempts : Spent(d, b)' = Spent(d, b)
  BY <1>2, <1>4 DEF Spent, TypeOK, Put, Handlers
<1>6. OneActPerAttempt'
  BY <1>1, <1>2, <1>5 DEF OneActPerAttempt, TypeOK, Put, Handlers, Attempts
<1>7. Locked' /\ OneConnection' /\ LossMeansOutage' /\ OkMeansApplied'
  BY <1>2, ClientUntouched DEF OkMeansApplied
<1>. QED  BY <1>3, <1>6, <1>7

\* No shield was spawned, and the caller is told so.
LEMMA SpawnFailsStep ==
  ASSUME IInv, NEW c \in Callers, SpawnFails(c)
  PROVE  IInv'
<1>. USE PathAssumption DEF PathAssumption, IInv
<1>1. PICK a \in Attempts : a = attempt[c]
  BY DEF TypeOK
<1>2. /\ UNCHANGED <<link, helper, shield, acts, outages>>
      /\ accepted' = accepted \cup {<<c, a>>} /\ <<c, a>> \in Handlers
      /\ Answer(c, a, "failed")
  BY <1>1 DEF SpawnFails, Handlers
<1>3. /\ UNCHANGED <<attempt, on, conn, lock>> /\ serving' \subseteq serving
      /\ at' \in [Callers -> Stages]
      /\ result' \in [Callers -> {None, "ok", "failed", "unreachable"}]
      /\ \A d \in Callers : at'[d] = at[d] \/ (at[d] = "calling" /\ at'[d] = "done")
      /\ \A d \in Callers : result'[d] = "ok" => result[d] = "ok"
  BY <1>2, AnswerStep
<1>4. TypeOK'
  BY <1>2, <1>3 DEF TypeOK
<1>5. \A d \in Callers, b \in Attempts : Spent(d, b)' = Spent(d, b)
  BY <1>2 DEF Spent
<1>6. OneActPerAttempt' /\ OkMeansApplied'
  BY <1>1, <1>2, <1>3, <1>5 DEF OneActPerAttempt, OkMeansApplied, Attempts
<1>7. Locked' /\ OneConnection' /\ LossMeansOutage'
  BY <1>2, <1>3, ClientUntouched
<1>. QED  BY <1>4, <1>6, <1>7

\* A running shield acts once.
LEMMA ShieldActsStep ==
  ASSUME IInv, NEW c \in Callers, NEW a \in Attempts, ShieldActs(c, a)
  PROVE  IInv'
<1>. USE PathAssumption DEF PathAssumption, IInv
<1>1. /\ UNCHANGED <<at, attempt, on, result, conn, lock, link, helper, serving, accepted, outages>>
      /\ <<c, a>> \in Handlers /\ shield[<<c, a>>] = "running"
      /\ shield' = Put(shield, <<c, a>>, "acted") /\ acts' = Put(acts, c, acts[c] + 1)
  BY DEF ShieldActs, clientVars, helperVars, Handlers
<1>2. \A d \in Callers, b \in Attempts :
        Spent(d, b)' = IF d = c /\ b = a THEN 1 ELSE Spent(d, b)
  BY <1>1 DEF Spent, TypeOK, Put, Handlers
<1>3. Spent(c, a) = 0 /\ \A d \in Callers, b \in Attempts : Spent(d, b) \in {0, 1}
  BY <1>1 DEF Spent
<1>4. \A d \in Callers : acts[d] \in 0..2 /\ acts'[d] = IF d = c THEN acts[d] + 1 ELSE acts[d]
  BY <1>1 DEF TypeOK, Put
<1>5. \A d \in Callers : acts'[d] <= Spent(d, 1)' + Spent(d, 2)'
  BY <1>2, <1>3, <1>4 DEF OneActPerAttempt, Attempts
<1>6. \A d \in Callers : acts'[d] \in 0..2
  BY <1>2, <1>3, <1>4, <1>5 DEF Attempts
<1>7. TypeOK'
  BY <1>1, <1>6 DEF TypeOK, Put
<1>8. OneActPerAttempt'
  <2>1. \A h \in Handlers : shield'[h] = IF h = <<c, a>> THEN "acted" ELSE shield[h]
    BY <1>1 DEF TypeOK, Put
  <2>2. \A h \in Handlers : shield'[h] # "none" => h \in accepted'
    BY <1>1, <2>1 DEF OneActPerAttempt
  <2>3. ASSUME NEW d \in Callers, NEW b \in Attempts, shield'[<<d, b>>] = "acted"
        PROVE  acts'[d] > 0
    <3>1. CASE d = c
      BY <1>4, <3>1
    <3>2. CASE d # c
      <4>1. <<d, b>> \in Handlers /\ <<d, b>> # <<c, a>>
        BY <3>2 DEF Handlers
      <4>2. shield[<<d, b>>] = "acted"
        BY <2>1, <2>3, <4>1
      <4>. QED  BY <1>4, <3>2, <4>2 DEF OneActPerAttempt
    <3>. QED  BY <3>1, <3>2
  <2>. QED  BY <1>1, <1>5, <2>2, <2>3 DEF OneActPerAttempt
<1>9. Locked' /\ OneConnection' /\ LossMeansOutage' /\ OkMeansApplied'
  BY <1>1, <1>4, ClientUntouched DEF OkMeansApplied
<1>. QED  BY <1>7, <1>8, <1>9

\* A shield that is killed or gone acts no more; only one that acted is reported ok.
LEMMA ShieldEndsStep ==
  ASSUME IInv, NEW c \in Callers, NEW a \in Attempts,
         ShieldExits(c, a) \/ ShieldTimesOut(c, a) \/ ShieldReaped(c, a)
  PROVE  IInv'
<1>. USE PathAssumption DEF PathAssumption, IInv
<1>1. /\ UNCHANGED <<link, helper, acts, accepted, outages>>
      /\ <<c, a>> \in Handlers /\ <<c, a>> \in accepted
      /\ shield' \in {Put(shield, <<c, a>>, e) : e \in {"killed", "gone"}}
  BY DEF ShieldExits, ShieldTimesOut, ShieldReaped, Handlers, OneActPerAttempt,
         clientVars, helperVars, pastVars
<1>2. /\ UNCHANGED <<attempt, on, conn, lock>> /\ serving' \subseteq serving
      /\ at' \in [Callers -> Stages]
      /\ result' \in [Callers -> {None, "ok", "failed", "unreachable"}]
      /\ \A d \in Callers : at'[d] = at[d] \/ (at[d] = "calling" /\ at'[d] = "done")
      /\ \A d \in Callers : result'[d] = "ok" => result[d] = "ok" \/ acts[d] > 0
  <2>1. CASE Answer(c, a, "failed")
    BY <2>1, AnswerStep
  <2>2. CASE Answer(c, a, "ok") /\ shield[<<c, a>>] = "acted"
    BY <2>2, AnswerStep DEF OneActPerAttempt
  <2>3. CASE UNCHANGED <<clientVars, serving>>
    BY <2>3 DEF clientVars, TypeOK
  <2>. QED  BY <2>1, <2>2, <2>3 DEF ShieldExits, ShieldTimesOut, ShieldReaped, helperVars
<1>3. TypeOK'
  BY <1>1, <1>2 DEF TypeOK, Put
<1>4. \A d \in Callers, b \in Attempts :
        Spent(d, b) \in {0, 1} /\ Spent(d, b)' \in {0, 1} /\ Spent(d, b)' >= Spent(d, b)
  BY <1>1 DEF Spent, TypeOK, Put, Handlers
<1>5. \A d \in Callers : acts'[d] <= Spent(d, 1)' + Spent(d, 2)'
  <2>. TAKE d \in Callers
  <2>1. acts[d] \in Nat /\ acts[d] <= Spent(d, 1) + Spent(d, 2) /\ acts'[d] = acts[d]
    BY <1>1 DEF OneActPerAttempt, TypeOK
  <2>2. Spent(d, 1)' >= Spent(d, 1) /\ Spent(d, 2)' >= Spent(d, 2)
        /\ Spent(d, 1) \in {0, 1} /\ Spent(d, 2) \in {0, 1}
        /\ Spent(d, 1)' \in {0, 1} /\ Spent(d, 2)' \in {0, 1}
    BY <1>4 DEF Attempts
  <2>. QED  BY <2>1, <2>2
<1>6. OneActPerAttempt'
  <2>1. \A h \in Handlers : shield'[h] \in {"killed", "gone"} \/ shield'[h] = shield[h]
    BY <1>1 DEF TypeOK, Put
  <2>2. \A h \in Handlers : shield'[h] # "none" => h \in accepted'
    BY <1>1 DEF OneActPerAttempt, TypeOK, Put
  <2>3. ASSUME NEW d \in Callers, NEW b \in Attempts, shield'[<<d, b>>] = "acted"
        PROVE  acts'[d] > 0
    <3>1. <<d, b>> \in Handlers
      BY DEF Handlers
    <3>2. shield[<<d, b>>] = "acted"
      BY <2>1, <2>3, <3>1
    <3>. QED  BY <1>1, <3>2 DEF OneActPerAttempt
  <2>. QED  BY <1>1, <1>2, <1>5, <2>2, <2>3 DEF OneActPerAttempt
<1>7. Locked' /\ OneConnection' /\ LossMeansOutage' /\ OkMeansApplied'
  BY <1>1, <1>2, ClientUntouched DEF OkMeansApplied
<1>. QED  BY <1>3, <1>6, <1>7

\* The helper goes, comes back or is asked to stop: links and shields only die.
LEMMA OutageStep == ASSUME IInv, Outage PROVE IInv'
<1>. USE PathAssumption DEF PathAssumption, IInv
<1>1. UNCHANGED <<at, attempt, on, result, conn, lock, acts, accepted>>
  BY DEF Outage, HelperCrashes, HelperStops, HelperExits, HelperStarts, clientVars, pastVars
<1>2. /\ helper' \in {"up", "stopping", "down"}
      /\ serving' \subseteq serving
      /\ outages' \in 0..MaxOutages /\ outages' >= outages
      /\ outages' > 0 \/ UNCHANGED <<helper, link>>
  BY DEF Outage, HelperCrashes, HelperStops, HelperExits, HelperStarts, TypeOK,
         helperVars, pastVars, LossMeansOutage
<1>3. /\ link' \in [Links -> {"unused", "open", "lost", "closed"}]
      /\ \A k \in Links : link'[k] = "open" => link[k] = "open"
  BY DEF Outage, HelperCrashes, HelperStops, HelperExits, HelperStarts, DropLinks, TypeOK
<1>4. /\ shield' \in [Handlers -> {"none", "running", "acted", "killed", "gone"}]
      /\ \A h \in Handlers : shield'[h] = shield[h] \/ (shield'[h] = "gone" /\ h \in serving)
  <2>1. CASE UNCHANGED shield
    BY <2>1 DEF TypeOK
  <2>2. CASE HelperCrashes \/ HelperExits
    BY <2>2 DEF HelperCrashes, HelperExits, OrphanShields, TypeOK
  <2>. QED  BY <2>1, <2>2 DEF Outage, HelperStops, HelperStarts
<1>5. TypeOK'
  BY <1>1, <1>2, <1>3, <1>4 DEF TypeOK
<1>6. Locked' /\ OneConnection' /\ LossMeansOutage' /\ OkMeansApplied'
  BY <1>1, <1>2, <1>3 DEF Locked, OneConnection, LossMeansOutage, OkMeansApplied, TypeOK
<1>7. \A c \in Callers, a \in Attempts :
        Spent(c, a) \in {0, 1} /\ Spent(c, a)' \in {0, 1} /\ Spent(c, a)' >= Spent(c, a)
  BY <1>4 DEF Spent, Handlers
<1>8. \A c \in Callers : acts'[c] <= Spent(c, 1)' + Spent(c, 2)'
  BY <1>1, <1>7 DEF OneActPerAttempt, TypeOK, Attempts
<1>9. OneActPerAttempt'
  BY <1>1, <1>2, <1>4, <1>8 DEF OneActPerAttempt, Handlers
<1>. QED  BY <1>5, <1>6, <1>9

-----------------------------------------------------------------------------
\* Every step keeps the invariant.
LEMMA StepInv == IInv /\ [Next]_vars => IInv'
<1>. SUFFICES ASSUME IInv, [Next]_vars PROVE IInv'
  OBVIOUS
<1>1. ASSUME NEW c \in Callers, Apply(c) \/ Client(c) PROVE IInv'
  BY <1>1, ClientStep, LossStep DEF Client
<1>2. ASSUME NEW c \in Callers, Answering(c) PROVE IInv'
  BY <1>2, SpawnStep, SpawnFailsStep, ShieldEndsStep DEF Answering
<1>3. ASSUME NEW c \in Callers, PipeCloses(c) PROVE IInv'
  BY <1>3, ShieldEndsStep DEF PipeCloses
<1>4. ASSUME NEW c \in Callers, Acting(c) PROVE IInv'
  BY <1>4, ShieldActsStep DEF Acting
<1>5. CASE Outage
  BY <1>5, OutageStep
<1>6. CASE ClientStops
  BY <1>6, ClientStopsStep
<1>7. CASE UNCHANGED vars
  BY <1>7 DEF vars, IInv, TypeOK, Locked, OneConnection, LossMeansOutage,
              OneActPerAttempt, Spent, OkMeansApplied
<1>. QED  BY <1>1, <1>2, <1>3, <1>4, <1>5, <1>6, <1>7 DEF Next

\* The invariant holds in every reachable state.
LEMMA Invariance == Spec => []IInv
  BY InitInv, StepInv, PTL DEF Spec

\* Every reachable state is well typed: no third attempt, at most two acts.
THEOREM PathTypeCorrect == Spec => []TypeOK
<1>1. IInv => TypeOK
  BY DEF IInv
<1>. QED  BY <1>1, Invariance, PTL

\* apply() returns ok only for a verdict whose shield really acted, through any
\* number of outages and lost answers.
THEOREM OkIsApplied == Spec => []OkMeansApplied
<1>1. IInv => OkMeansApplied
  BY DEF IInv
<1>. QED  BY <1>1, Invariance, PTL

\* However many callers race for the helper, at most one connection is open, and
\* it is the cached one.
THEOREM OneConnectionHolds == Spec => []OneConnection
<1>1. IInv => OneConnection
  BY DEF IInv
<1>. QED  BY <1>1, Invariance, PTL

\* A verdict that acts twice is on its second attempt, after an outage or a
\* shutdown.
THEOREM TwiceIsAfterLoss == Spec => []TwiceOnlyAfterLoss
<1>1. ASSUME IInv, NEW c \in Callers, acts[c] = 2
      PROVE  attempt[c] = 2 /\ outages > 0
  <2>1. 2 <= Spent(c, 1) + Spent(c, 2)
    BY <1>1 DEF IInv, OneActPerAttempt
  <2>2. Spent(c, 1) \in {0, 1} /\ Spent(c, 2) \in {0, 1}
    BY DEF Spent
  <2>3. shield[<<c, 2>>] # "none"
    BY <2>1, <2>2 DEF Spent
  <2>4. <<c, 2>> \in accepted
    BY <1>1, <2>3 DEF IInv, OneActPerAttempt, Handlers, Attempts
  <2>5. attempt[c] = 2
    BY <1>1, <2>4 DEF IInv, OneActPerAttempt
  <2>. QED  BY <1>1, <2>5 DEF IInv, LossMeansOutage
<1>2. IInv => TwiceOnlyAfterLoss
  BY <1>1 DEF TwiceOnlyAfterLoss
<1>. QED  BY <1>2, Invariance, PTL

=============================================================================
