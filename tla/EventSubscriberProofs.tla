------------------------ MODULE EventSubscriberProofs ------------------------
(***************************************************************************)
(* Theorems about EventSubscriber, for every number of containers, targets,*)
(* requests, events and clicks, and every order in which the daemon, the   *)
(* user, the hub and the event loop move.                                  *)
(*                                                                         *)
(* SubscriberTypeCorrect rests on a ledger of popup ids, ClicksAreHonest   *)
(* on what says whose popup an id is, RecordedAlertsGo on what may still   *)
(* raise an alert, and OnePopupHolds, NoneLeftBehind and EndedPromptsLeave *)
(* on where each prompt, record and purge is in the queues.                *)
(***************************************************************************)
EXTENDS EventSubscriber, FiniteSetTheorems, TLAPS

-----------------------------------------------------------------------------
(* Lemmas about sequences *)

\* The tail holds the elements after the first.
LEMMA TailElements ==
  ASSUME NEW S, NEW q \in Seq(S), q # <<>>
  PROVE  /\ Tail(q) \in Seq(S) /\ Head(q) \in S
         /\ 1 \in DOMAIN q /\ q[1] = Head(q)
         /\ \A i \in DOMAIN Tail(q) : i + 1 \in DOMAIN q /\ Tail(q)[i] = q[i + 1]
         /\ \A i \in DOMAIN Tail(q) : i \in Nat \ {0}
  OBVIOUS

\* Appending adds one element at the end.
LEMMA AppendElements ==
  ASSUME NEW S, NEW q \in Seq(S), NEW x \in S
  PROVE  /\ Append(q, x) \in Seq(S)
         /\ Len(q) \in Nat /\ DOMAIN q = 1..Len(q)
         /\ DOMAIN Append(q, x) = 1..(Len(q) + 1)
         /\ Append(q, x)[Len(q) + 1] = x
         /\ \A i \in DOMAIN q : Append(q, x)[i] = q[i]
  OBVIOUS

\* Concatenating one element, or two, appends them.
LEMMA ConcatIsAppend ==
  ASSUME NEW S, NEW q \in Seq(S), NEW x \in S, NEW y \in S
  PROVE  /\ q \o <<x>> = Append(q, x)
         /\ q \o <<x, y>> = Append(Append(q, x), y)
         /\ q \o <<>> = q
         /\ (q \o <<>>) \o <<x>> = Append(q, x)
         /\ (q \o <<x>>) \o <<y>> = Append(Append(q, x), y)
  <1>1. q \o <<x>> = Append(q, x)
    OBVIOUS
  <1>2. q \o <<x, y>> = Append(Append(q, x), y)
    OBVIOUS
  <1>3. q \o <<>> = q
    OBVIOUS
  <1>4. Append(q, x) \in Seq(S)
    BY AppendElements
  <1>5. Append(q, x) \o <<y>> = Append(Append(q, x), y)
    BY <1>4
  <1> QED
    BY <1>1, <1>2, <1>3, <1>5

\* Sequences of the same elements are the same.
LEMMA SameElements ==
  ASSUME NEW S, NEW q \in Seq(S), NEW t \in Seq(S), Len(q) = Len(t),
         \A i \in 1..Len(q) : q[i] = t[i]
  PROVE  q = t
  OBVIOUS

\* A sequence changed element by element is one of the same length.
LEMMA MappedElements ==
  ASSUME NEW S, NEW T, NEW q \in Seq(S), NEW g \in [DOMAIN q -> T]
  PROVE  g \in Seq(T)
  OBVIOUS

-----------------------------------------------------------------------------
(* The mail: what the event loop, the bus and the inbox carry *)

\* Jobs that resume when a reply comes.
Awaited == {j \in Jobs : j.do \in {"prompted", "reported", "nothing", "purge", "alerted"}}

\* A popup with buttons, or one that replaces it, is about a target.
Shown == {f \in Face : f.kind # "alert" => f.target \in Targets}

\* A call on the bus.  A block handler waits for the popup of its own target.
Call ==
  {c \in [op : {"notify"}, nid : Nids \cup {None}, face : Shown, then : Awaited] :
     c.then.do = "prompted" => /\ c.face.kind = "prompt"
                               /\ c.face.container = c.then.container
                               /\ c.face.target = c.then.target}
  \cup {c \in [op : {"close"}, nid : Nids, face : {None}, then : Awaited] :
          c.then.do # "prompted"}

\* A reply to a call that succeeded carries an id.
Message ==
  {m \in [kind : {"reply"}, then : Awaited, nid : Nids \cup {None}, ok : BOOLEAN] :
     m.ok => m.nid \in Nids}
  \cup [kind : {"action"}, nid : Nids, shown : Subject]
  \cup [kind : {"closed"}, nid : Nids]

\* A job of the event loop, with the reply it resumes on.
Entry ==
  {e \in [job : Jobs, nid : Nids \cup {None}, ok : BOOLEAN] :
     e.job.do \in {"prompted", "alerted"} /\ e.ok => e.nid \in Nids}

\* A task that has just been created.
Started(j) == [job |-> j, nid |-> None, ok |-> TRUE]

Stale == [id : Requests, nid : Nids]

\* What each job carries.
LEMMA JobFields ==
  ASSUME NEW j \in Jobs
  PROVE  /\ j.do = "prompted" => /\ j.container \in Containers /\ j.target \in Targets
                                 /\ j.id \in Requests /\ j.prior \in Requests \cup {None}
         /\ j.do = "purge" => /\ j.container \in Containers /\ j.exited \in BOOLEAN
                              /\ j.rest \in {None} \cup SUBSET Stale
         /\ j.do = "alert" => j.container \in Containers /\ j.at \in 1..MaxEvents
         /\ j.do \in {"alerted", "retract"} => j.container \in Containers
         /\ j.do = "send" => j.click \in Click /\ j.shown \in Subject
  BY DEF Jobs, Stale

\* The jobs the handlers make.
LEMMA JobsMade ==
  /\ \A c \in Containers, t \in Targets, r \in Requests, p \in Requests \cup {None} :
       [do |-> "prompted", container |-> c, target |-> t, id |-> r, prior |-> p] \in Awaited
  /\ [do |-> "reported"] \in Awaited /\ Nothing \in Awaited
  /\ \A c \in Containers, x \in BOOLEAN :
       [do |-> "purge", container |-> c, exited |-> x, rest |-> None] \in Awaited
  /\ \A c \in Containers, k \in 1..MaxEvents :
       [do |-> "alert", container |-> c, at |-> k] \in Jobs
  /\ \A c \in Containers : /\ [do |-> "alerted", container |-> c] \in Awaited
                           /\ [do |-> "retract", container |-> c] \in Jobs
  /\ \A k \in Click, w \in Subject : [do |-> "send", click |-> k, shown |-> w] \in Jobs
  /\ Awaited \subseteq Jobs
  BY DEF Jobs, Awaited, Nothing

\* A purge that goes on is a purge.
LEMMA PurgeGoesOn ==
  ASSUME NEW j \in Jobs, j.do = "purge", NEW R \in SUBSET Stale
  PROVE  [j EXCEPT !.rest = R] \in Awaited /\ [j EXCEPT !.rest = R].do = "purge"
  BY DEF Jobs, Awaited, Stale

\* A new task waits for no reply.
LEMMA StartedIsEntry ==
  ASSUME NEW j \in Jobs, j.do \notin {"prompted", "alerted"}
  PROVE  Started(j) \in Entry /\ Started(j).job = j
  BY DEF Started, Entry

\* Dispatching appends the new tasks.
LEMMA DispatchAppends ==
  ASSUME ready \in Seq(Entry), NEW j \in Jobs, j.do \notin {"prompted", "alerted"},
         NEW k \in Jobs, k.do \notin {"prompted", "alerted"}
  PROVE  /\ Dispatched(<<j>>) = Append(ready, Started(j))
         /\ Dispatched(<<j>> \o <<>>) = Append(ready, Started(j))
         /\ Dispatched(<<j>> \o <<k>>) = Append(Append(ready, Started(j)), Started(k))
  <1>1. Started(j) \in Entry /\ Started(k) \in Entry
    BY StartedIsEntry
  <1>2. [i \in DOMAIN <<j>> |-> Started(<<j>>[i])] = <<Started(j)>>
    OBVIOUS
  <1>3. [i \in DOMAIN <<j, k>> |-> Started(<<j, k>>[i])] = <<Started(j), Started(k)>>
    OBVIOUS
  <1>4. <<j>> \o <<>> = <<j>> /\ <<j>> \o <<k>> = <<j, k>>
    <2>1. <<j>> \in Seq(Jobs)
      OBVIOUS
    <2>2. <<j, k>> \in Seq(Jobs) /\ Append(<<j>>, k) \in Seq(Jobs)
      BY <2>1
    <2>3. Len(<<j, k>>) = 2 /\ Len(Append(<<j>>, k)) = 2
      BY <2>1
    <2>4. \A i \in 1..2 : <<j, k>>[i] = Append(<<j>>, k)[i]
      BY <2>1
    <2>5. Append(<<j>>, k) = <<j, k>>
      BY <2>2, <2>3, <2>4, SameElements
    <2> QED
      BY <2>1, <2>5, ConcatIsAppend
  <1>5. ready \o <<Started(j)>> = Append(ready, Started(j))
    BY <1>1, ConcatIsAppend
  <1>6. ready \o <<Started(j), Started(k)>> = Append(Append(ready, Started(j)), Started(k))
    BY <1>1, ConcatIsAppend
  <1> QED
    BY <1>2, <1>3, <1>4, <1>5, <1>6 DEF Dispatched, Started

-----------------------------------------------------------------------------
(* Types *)

Types ==
  /\ phase \in {"running", "draining", "closing", "stopped"}
  /\ handling \in BOOLEAN
  /\ pending \in [Requests -> Pending \cup {None}]
  /\ down \in [Containers -> Nids \cup {None}]
  /\ ready \in Seq(Entry) /\ bus \in Seq(Call) /\ inbox \in Seq(Message)
  /\ callbacks \in [Nids -> Click \cup {None}]
  /\ screen \in [Nids -> Shown \cup {None}]
  /\ fresh \in Nat \ {0}
  /\ announced \in [Requests -> Subject \cup {None}]
  /\ ended \in [Containers -> 0..MaxEvents]
  /\ events \in 0..MaxEvents

\* Ids still to be given out suffice for the popups still to be posted: what
\* keeps an id in its range.
FreshSuffices ==
  bus # <<>> /\ Head(bus).op = "notify" /\ Head(bus).nid = None => fresh \in Nids

\* The first job of the event loop, and what is left of the queue.
LEMMA RunHead ==
  ASSUME Types, NEW what, Running(what)
  PROVE  /\ ready # <<>> /\ Head(ready) \in Entry /\ Tail(ready) \in Seq(Entry)
         /\ Job \in Jobs /\ Job.do = what
         /\ Head(ready).nid \in Nids \cup {None} /\ Head(ready).ok \in BOOLEAN
         /\ what \in {"prompted", "alerted"} /\ Head(ready).ok => Head(ready).nid \in Nids
  <1>1. ready # <<>> /\ ready \in Seq(Entry) /\ Head(ready).job.do = what
    BY DEF Running, Types
  <1>2. Head(ready) \in Entry /\ Tail(ready) \in Seq(Entry)
    BY <1>1, TailElements
  <1> QED
    BY <1>1, <1>2 DEF Entry, Job

\* The call the daemon answers next.
LEMMA BusHead ==
  ASSUME Types, bus # <<>>
  PROVE  /\ Head(bus) \in Call /\ Tail(bus) \in Seq(Call)
         /\ Head(bus).then \in Awaited /\ Head(bus).op \in {"notify", "close"}
         /\ Head(bus).op = "notify" => Head(bus).nid \in Nids \cup {None} /\ Head(bus).face \in Shown
         /\ Head(bus).op = "close" => Head(bus).nid \in Nids /\ Head(bus).then.do # "prompted"
  <1>1. Head(bus) \in Call /\ Tail(bus) \in Seq(Call)
    BY TailElements DEF Types
  <1> QED
    BY <1>1 DEF Call

\* What the D-Bus connection brings next.
LEMMA InboxHead ==
  ASSUME Types, inbox # <<>>
  PROVE  /\ Head(inbox) \in Message /\ Tail(inbox) \in Seq(Message)
         /\ Head(inbox).kind = "reply" =>
              /\ Head(inbox).then \in Awaited /\ Head(inbox).nid \in Nids \cup {None}
              /\ Head(inbox).ok \in BOOLEAN
              /\ Head(inbox).ok => Head(inbox).nid \in Nids
         /\ Head(inbox).kind = "action" => Head(inbox).nid \in Nids /\ Head(inbox).shown \in Subject
         /\ Head(inbox).kind = "closed" => Head(inbox).nid \in Nids
  <1>1. Head(inbox) \in Message /\ Tail(inbox) \in Seq(Message)
    BY TailElements DEF Types
  <1> QED
    BY <1>1 DEF Message

\* Cancelling changes no more than the jobs that are cancelled, into nothing.
Cancelling ==
  /\ DOMAIN ready' = DOMAIN ready /\ DOMAIN bus' = DOMAIN bus /\ DOMAIN inbox' = DOMAIN inbox
  /\ \A i \in DOMAIN ready : ready'[i] \in {ready[i], [ready[i] EXCEPT !.job = Nothing]}
  /\ \A i \in DOMAIN bus : bus'[i] \in {bus[i], [bus[i] EXCEPT !.then = Nothing]}
  /\ \A i \in DOMAIN inbox :
       \/ inbox'[i] = inbox[i]
       \/ inbox[i].kind = "reply" /\ inbox'[i] = [inbox[i] EXCEPT !.then = Nothing]

LEMMA CancelCancels ==
  ASSUME Types, Cancel(Task) \/ Cancel(Inline)
  PROVE  Cancelling
  <1>1. CASE Cancel(Task)
    BY <1>1 DEF Cancel, Cancelling
  <1>2. CASE Cancel(Inline)
    BY <1>2 DEF Cancel, Cancelling
  <1> QED
    BY <1>1, <1>2

LEMMA CancelledMail ==
  /\ \A e \in Entry : /\ [e EXCEPT !.job = Nothing] \in Entry
                      /\ [e EXCEPT !.job = Nothing].job = Nothing
  /\ \A c \in Call : LET d == [c EXCEPT !.then = Nothing]
                     IN d \in Call /\ d.op = c.op /\ d.nid = c.nid /\ d.face = c.face /\ d.then = Nothing
  /\ \A m \in Message : m.kind = "reply" =>
       LET d == [m EXCEPT !.then = Nothing]
       IN d \in Message /\ d.kind = "reply" /\ d.then = Nothing
  /\ Nothing.do = "nothing"
  <1>1. Nothing \in Awaited /\ Nothing \in Jobs /\ Nothing.do = "nothing"
    BY JobsMade DEF Nothing
  <1>2. ASSUME NEW e \in Entry
        PROVE  [e EXCEPT !.job = Nothing] \in Entry /\ [e EXCEPT !.job = Nothing].job = Nothing
    BY <1>1 DEF Entry
  <1>3. ASSUME NEW c \in Call
        PROVE  LET d == [c EXCEPT !.then = Nothing]
               IN d \in Call /\ d.op = c.op /\ d.nid = c.nid /\ d.face = c.face /\ d.then = Nothing
    BY <1>1 DEF Call
  <1>4. ASSUME NEW m \in Message, m.kind = "reply"
        PROVE  LET d == [m EXCEPT !.then = Nothing]
               IN d \in Message /\ d.kind = "reply" /\ d.then = Nothing
    BY <1>1, <1>4 DEF Message
  <1> QED
    BY <1>1, <1>2, <1>3, <1>4

\* Cancelling keeps the mail well typed.
LEMMA CancelTypes ==
  ASSUME Types, Cancel(Task) \/ Cancel(Inline)
  PROVE  ready' \in Seq(Entry) /\ bus' \in Seq(Call) /\ inbox' \in Seq(Message)
  <1>1. Cancelling
    BY CancelCancels
  <1>2. /\ \A i \in DOMAIN ready : ready[i] \in Entry
        /\ \A i \in DOMAIN bus : bus[i] \in Call
        /\ \A i \in DOMAIN inbox : inbox[i] \in Message
    BY DEF Types
  <1>3. /\ \A i \in DOMAIN ready : ready'[i] \in Entry
        /\ \A i \in DOMAIN bus : bus'[i] \in Call
        /\ \A i \in DOMAIN inbox : inbox'[i] \in Message
    BY <1>1, <1>2, CancelledMail DEF Cancelling
  <1>4. /\ ready' = [i \in DOMAIN ready |-> ready'[i]]
        /\ bus' = [i \in DOMAIN bus |-> bus'[i]]
        /\ inbox' = [i \in DOMAIN inbox |-> inbox'[i]]
    BY DEF Cancel
  <1>5. /\ ready' \in [DOMAIN ready -> Entry]
        /\ bus' \in [DOMAIN bus -> Call]
        /\ inbox' \in [DOMAIN inbox -> Message]
    BY <1>3, <1>4
  <1> QED
    BY <1>5, MappedElements DEF Types

\* What an event puts on the bus and what waits for it.
LEMMA BlockedCalls ==
  ASSUME Types, NEW c \in Containers, NEW t \in Targets, NEW r \in Requests, Blocked(c, t, r)
  PROVE  \E call \in Call :
           /\ bus' = Append(bus, call) /\ call.op = "notify"
           /\ call.face.kind = "prompt" /\ call.face.at = events + 1
           /\ call.face.container = c /\ call.face.target = t
           /\ call.then.do = "prompted" /\ call.then.id = r
           /\ \/ OnTarget(c, t) = {} /\ call.nid = None /\ call.then.prior = None
              \/ \E q \in OnTarget(c, t) : call.nid = pending[q].nid /\ call.then.prior = q
  <1> USE SubscriberAssumption DEF SubscriberAssumption
  <1> DEFINE prior == LiveBlockOn(c, t)
             nid == IF prior = None THEN None ELSE pending[prior].nid
             face == [kind |-> "prompt", container |-> c, target |-> t, at |-> events + 1]
             job == [do |-> "prompted", container |-> c, target |-> t, id |-> r, prior |-> prior]
             call == [op |-> "notify", nid |-> nid, face |-> face, then |-> job]
  <1>1. (prior = None /\ OnTarget(c, t) = {}) \/ prior \in OnTarget(c, t)
    BY DEF LiveBlockOn
  <1>2. prior \in Requests \cup {None} /\ nid \in Nids \cup {None}
    <2>1. \A q \in OnTarget(c, t) : q \in Requests /\ pending[q] \in Pending
      BY DEF OnTarget, Types
    <2>2. \A q \in OnTarget(c, t) : pending[q].nid \in Nids /\ q # None
      BY <2>1, NoneAssumption DEF NoneAssumption, Pending
    <2> QED
      BY <1>1, <2>1, <2>2
  <1>3. face \in Shown
    <2>1. events + 1 \in 1..MaxEvents
      BY DEF Blocked, Listening, Types
    <2> QED
      BY <2>1 DEF Face, Shown
  <1>4. job \in Awaited
    BY <1>2, JobsMade
  <1>5. bus' = Append(bus, call)
    BY DEF Blocked, Notify
  <1>6. call \in Call
    <2> HIDE DEF nid, prior
    <2>1. /\ job.do = "prompted" /\ face.kind = "prompt"
          /\ face.container = job.container /\ face.target = job.target
      OBVIOUS
    <2> HIDE DEF job, face
    <2> QED
      BY <1>2, <1>3, <1>4, <2>1 DEF Call
  <1>7. \/ OnTarget(c, t) = {} /\ call.nid = None /\ call.then.prior = None
        \/ \E q \in OnTarget(c, t) : call.nid = pending[q].nid /\ call.then.prior = q
    <2>1. call.then.prior = prior
      OBVIOUS
    <2>2. prior \in OnTarget(c, t) => prior # None
      BY NoneAssumption DEF NoneAssumption, OnTarget
    <2> QED
      BY <1>1, <2>1, <2>2
  <1>8. /\ call.op = "notify" /\ call.face.kind = "prompt" /\ call.face.at = events + 1
        /\ call.face.container = c /\ call.face.target = t
        /\ call.then.do = "prompted" /\ call.then.id = r
    OBVIOUS
  <1> HIDE DEF call
  <1> QED
    BY <1>5, <1>6, <1>7, <1>8

\* An outcome takes the place of the prompt it answers.
LEMMA VerdictCalls ==
  ASSUME Types, NEW r \in Requests, VerdictApplied(r)
  PROVE  \E call \in Call :
           /\ bus' = Append(bus, call) \/ ("verdict" \notin Enabled /\ bus' = bus)
           /\ call.op = "notify" /\ call.face.kind = "outcome" /\ call.face.at = events + 1
           /\ call.nid = pending[r].nid /\ call.nid \in Nids /\ call.then.do = "reported"
  <1> USE SubscriberAssumption DEF SubscriberAssumption
  <1> DEFINE face == [kind |-> "outcome", container |-> pending[r].container,
                      target |-> pending[r].target, at |-> events + 1]
             job == [do |-> "reported"]
             call == [op |-> "notify", nid |-> pending[r].nid, face |-> face, then |-> job]
  <1>1. pending[r] \in Pending
    BY DEF VerdictApplied, Types
  <1>2. pending[r].nid \in Nids /\ pending[r].container \in Containers /\ pending[r].target \in Targets
    BY <1>1 DEF Pending
  <1>3. face \in Shown
    <2>1. events + 1 \in 1..MaxEvents
      BY DEF VerdictApplied, Listening, Types
    <2> QED
      BY <1>2, <2>1 DEF Face, Shown
  <1>4. job \in Awaited /\ job.do = "reported"
    BY JobsMade
  <1>5. bus' = Append(bus, call) \/ ("verdict" \notin Enabled /\ bus' = bus)
    BY DEF VerdictApplied, Notify
  <1>6. call \in Call
    <2> HIDE DEF job, face
    <2> QED
      BY <1>2, <1>3, <1>4 DEF Call
  <1>7. /\ call.op = "notify" /\ call.face.kind = "outcome" /\ call.face.at = events + 1
        /\ call.nid = pending[r].nid /\ call.then.do = "reported"
    OBVIOUS
  <1> HIDE DEF call
  <1> QED
    BY <1>2, <1>5, <1>6, <1>7

\* The tasks a lifecycle event starts.
LEMMA LifecycleTasks ==
  ASSUME Types, NEW c \in Containers,
         ShieldDown(c) \/ ShieldUp(c) \/ ContainerExited(c)
  PROVE  /\ events + 1 \in 1..MaxEvents /\ events' = events + 1
         /\ \E j \in Jobs :
              /\ j.do \in {"purge", "retract"}
              /\ j.do = "purge" => j.container = c /\ j.rest = None
              /\ ~ShieldUp(c) => j.do = "purge"
              /\ \/ ready' = Append(ready, Started(j))
                 \/ /\ ShieldDown(c)
                    /\ \E k \in Jobs :
                         /\ k.do = "alert" /\ k.at = events + 1 /\ k.container = c
                         /\ ready' = Append(Append(ready, Started(j)), Started(k))
  <1> USE SubscriberAssumption DEF SubscriberAssumption
  <1>1. events + 1 \in 1..MaxEvents /\ events' = events + 1 /\ ready \in Seq(Entry)
    BY DEF ShieldDown, ShieldUp, ContainerExited, Listening, Types
  <1> DEFINE purge(x) == [do |-> "purge", container |-> c, exited |-> x, rest |-> None]
             alert == [do |-> "alert", container |-> c, at |-> events + 1]
             retract == [do |-> "retract", container |-> c]
  <1>2. /\ \A x \in BOOLEAN : purge(x) \in Jobs
        /\ alert \in Jobs /\ retract \in Jobs
    BY <1>1, JobsMade
  <1>3. /\ \A x \in BOOLEAN : /\ purge(x).do = "purge" /\ purge(x).container = c
                              /\ purge(x).rest = None
        /\ alert.do = "alert" /\ alert.at = events + 1 /\ alert.container = c
        /\ retract.do = "retract"
    OBVIOUS
  <1>4. CASE ShieldDown(c)
    <2>1. ready' = Dispatched(<<purge(FALSE)>> \o IF "shield_down" \in Enabled THEN <<alert>> ELSE <<>>)
      BY <1>4 DEF ShieldDown
    <2> HIDE DEF purge, alert, retract
    <2>2. \/ ready' = Dispatched(<<purge(FALSE)>> \o <<alert>>)
          \/ ready' = Dispatched(<<purge(FALSE)>> \o <<>>)
      BY <2>1
    <2>3. \/ ready' = Append(Append(ready, Started(purge(FALSE))), Started(alert))
          \/ ready' = Append(ready, Started(purge(FALSE)))
      BY <1>1, <1>2, <1>3, <2>2, DispatchAppends
    <2> QED
      BY <1>1, <1>2, <1>3, <1>4, <2>3
  <1>5. CASE ShieldUp(c)
    <2>1. ready' = Dispatched(<<retract>>)
      BY <1>5 DEF ShieldUp
    <2> HIDE DEF purge, alert, retract
    <2>2. ready' = Append(ready, Started(retract))
      BY <1>1, <1>2, <1>3, <2>1, DispatchAppends
    <2> QED
      BY <1>1, <1>2, <1>3, <1>5, <2>2
  <1>6. CASE ContainerExited(c)
    <2>1. ready' = Dispatched(<<purge(TRUE)>>)
      BY <1>6 DEF ContainerExited
    <2> HIDE DEF purge, alert, retract
    <2>2. ready' = Append(ready, Started(purge(TRUE)))
      BY <1>1, <1>2, <1>3, <2>1, DispatchAppends
    <2> QED
      BY <1>1, <1>2, <1>3, <2>2
  <1> QED
    BY <1>4, <1>5, <1>6

\* A handler's step keeps the types.
LEMMA HubEventTypes == ASSUME Types, HubEvent PROVE Types'
  <1> USE SubscriberAssumption DEF SubscriberAssumption
  <1>1. ASSUME NEW c \in Containers, NEW t \in Targets, NEW r \in Requests, Blocked(c, t, r)
        PROVE  Types'
    <2>0. PICK call \in Call : bus' = Append(bus, call)
      BY <1>1, BlockedCalls
    <2>1. bus' \in Seq(Call)
      BY <2>0, AppendElements DEF Types
    <2>2. announced' \in [Requests -> Subject \cup {None}]
      BY <1>1 DEF Blocked, Put, Types, Subject
    <2> QED
      BY <1>1, <2>1, <2>2 DEF Blocked, Listening, Types, stateVars, userVars
  <1>2. ASSUME NEW r \in Requests, VerdictApplied(r) PROVE Types'
    <2>0. PICK call \in Call : bus' = Append(bus, call) \/ bus' = bus
      BY <1>2, VerdictCalls
    <2>1. bus' \in Seq(Call)
      <3>1. Append(bus, call) \in Seq(Call)
        BY AppendElements DEF Types
      <3> QED
        BY <2>0, <3>1 DEF Types
    <2>2. /\ pending' = [pending EXCEPT ![r] = None] /\ events' \in 0..MaxEvents
          /\ handling' \in BOOLEAN
      <3>1. events' \in 0..MaxEvents
        BY <1>2 DEF VerdictApplied, Listening, Types
      <3>2. handling' = TRUE \/ handling' = handling
        BY <1>2, Zenon DEF VerdictApplied
      <3>3. pending' = [pending EXCEPT ![r] = None]
        BY <1>2, Zenon DEF VerdictApplied, Put
      <3> QED
        BY <3>1, <3>2, <3>3 DEF Types
    <2>3. UNCHANGED <<phase, down, callbacks, ready, inbox, screen, fresh, announced, ended>>
      BY <1>2 DEF VerdictApplied, userVars
    <2> QED
      BY <2>1, <2>2, <2>3 DEF Types
  <1>3. ASSUME NEW c \in Containers, ShieldDown(c) \/ ShieldUp(c) \/ ContainerExited(c)
        PROVE  Types'
    <2>1. events' \in 0..MaxEvents
      BY <1>3, LifecycleTasks
    <2>2. ready' \in Seq(Entry)
      <3>1. PICK j \in Jobs :
              /\ j.do \in {"purge", "retract"}
              /\ \/ ready' = Append(ready, Started(j))
                 \/ \E k \in Jobs :
                      /\ k.do = "alert"
                      /\ ready' = Append(Append(ready, Started(j)), Started(k))
        BY <1>3, LifecycleTasks
      <3>2. Append(ready, Started(j)) \in Seq(Entry)
        BY <3>1, StartedIsEntry, AppendElements DEF Types
      <3>3. ASSUME NEW k \in Jobs, k.do = "alert"
            PROVE  Append(Append(ready, Started(j)), Started(k)) \in Seq(Entry)
        <4>1. Started(k) \in Entry
          BY <3>3, StartedIsEntry
        <4> QED
          BY <3>2, <4>1, AppendElements
      <3> QED
        BY <3>1, <3>2, <3>3
    <2>3. ended' \in [Containers -> 0..MaxEvents]
      BY <1>3 DEF ShieldDown, ShieldUp, ContainerExited, Listening, Put, Types
    <2> QED
      BY <1>3, <2>1, <2>2, <2>3
      DEF ShieldDown, ShieldUp, ContainerExited, Types, stateVars, userVars
  <1> QED
    BY <1>1, <1>2, <1>3 DEF HubEvent

\* A close takes the callback and puts one call on the bus.
LEMMA CloseTypes ==
  ASSUME Types, NEW n \in Nids, NEW j \in Awaited, j.do # "prompted", Close(n, j)
  PROVE  /\ callbacks' = [callbacks EXCEPT ![n] = None]
         /\ callbacks' \in [Nids -> Click \cup {None}] /\ bus' \in Seq(Call)
         /\ \E call \in Call : /\ call.op = "close" /\ call.nid = n /\ call.then = j
                               /\ bus' = Append(bus, call)
  <1> DEFINE call == [op |-> "close", nid |-> n, face |-> None, then |-> j]
  <1>1. call \in Call /\ call.op = "close" /\ call.nid = n /\ call.then = j
    BY DEF Call
  <1>2. bus' = Append(bus, call) /\ callbacks' = [callbacks EXCEPT ![n] = None]
    BY DEF Close, Put
  <1>3. bus' \in Seq(Call)
    BY <1>1, <1>2, AppendElements DEF Types
  <1>4. callbacks' \in [Nids -> Click \cup {None}]
    BY <1>2 DEF Types
  <1> HIDE DEF call
  <1> QED
    BY <1>1, <1>2, <1>3, <1>4

\* What a purge does: it drops one record, or the alert, or nothing.
LEMMA PurgeRuns ==
  ASSUME Types, RunPurge
  PROVE  /\ Job \in Jobs /\ Job.container \in Containers /\ ready' = Tail(ready)
         /\ \/ \E stale \in Stale, j \in Awaited :
                 /\ j.do = "purge"
                 /\ pending' = [pending EXCEPT ![stale.id] = None] /\ UNCHANGED down
                 /\ Close(stale.nid, j)
            \/ /\ down[Job.container] # None /\ Close(down[Job.container], Nothing)
               /\ down' = [down EXCEPT ![Job.container] = None] /\ UNCHANGED pending
            \/ UNCHANGED <<stateVars, bus>>
  <1> DEFINE rest == IF Job.rest = None THEN Snapshot(Job.container) ELSE Job.rest
  <1>1. Job \in Jobs /\ Job.do = "purge" /\ ready' = Tail(ready)
    BY RunHead DEF RunPurge
  <1>2. Job.container \in Containers /\ Job.rest \in {None} \cup SUBSET Stale
    BY <1>1, JobFields
  <1>3. Snapshot(Job.container) \subseteq Stale
    <2>1. \A q \in Requests : pending[q] # None => pending[q] \in Pending
      BY DEF Types
    <2>2. \A q \in Requests : pending[q] # None => pending[q].nid \in Nids
      BY <2>1 DEF Pending
    <2> QED
      BY <2>2 DEF Snapshot, Stale
  <1>4. rest \subseteq Stale
    BY <1>2, <1>3
  <1>5. \/ \E stale \in rest :
             /\ pending' = Put(pending, stale.id, None)
             /\ Close(stale.nid, [Job EXCEPT !.rest = rest \ {stale}])
             /\ UNCHANGED down
        \/ /\ down[Job.container] # None
           /\ Close(down[Job.container], Nothing)
           /\ down' = Put(down, Job.container, None) /\ UNCHANGED pending
        \/ UNCHANGED <<stateVars, bus>>
    BY DEF RunPurge
  <1> HIDE DEF rest
  <1>6. ASSUME NEW stale \in rest,
               Close(stale.nid, [Job EXCEPT !.rest = rest \ {stale}])
        PROVE  \E j \in Awaited : j.do = "purge" /\ Close(stale.nid, j)
    <2>1. rest \ {stale} \in SUBSET Stale
      BY <1>4
    <2>2. PICK j \in Awaited : j.do = "purge" /\ j = [Job EXCEPT !.rest = rest \ {stale}]
      BY <1>1, <2>1, PurgeGoesOn
    <2> QED
      BY <1>6, <2>2
  <1> QED
    BY <1>1, <1>2, <1>4, <1>5, <1>6 DEF Put

\* The alert an alert task posts.
LEMMA AlertCalls ==
  ASSUME Types, RunAlert
  PROVE  \E call \in Call :
           /\ bus' = Append(bus, call) /\ ready' = Tail(ready)
           /\ call.op = "notify" /\ call.nid = down[Job.container]
           /\ call.face.kind = "alert" /\ call.face.at = Job.at /\ call.then.do = "alerted"
           /\ call.face.container = Job.container /\ call.then.container = Job.container
  <1> DEFINE face == [kind |-> "alert", container |-> Job.container, target |-> None, at |-> Job.at]
             job == [do |-> "alerted", container |-> Job.container]
             call == [op |-> "notify", nid |-> down[Job.container], face |-> face, then |-> job]
  <1>1. Job \in Jobs /\ Job.do = "alert"
    BY RunHead DEF RunAlert
  <1>2. Job.container \in Containers /\ Job.at \in 1..MaxEvents
    BY <1>1, JobFields
  <1>3. /\ face \in Shown /\ face.kind = "alert" /\ face.at = Job.at
        /\ face.container = Job.container
    BY <1>2 DEF Face, Shown
  <1>4. job \in Awaited /\ job.do = "alerted" /\ job.container = Job.container
    BY <1>2, JobsMade
  <1>5. bus' = Append(bus, call) /\ ready' = Tail(ready)
    BY DEF RunAlert, Notify
  <1> HIDE DEF face, job
  <1>6. call \in Call
    BY <1>2, <1>3, <1>4 DEF Call, Types
  <1> QED
    BY <1>3, <1>4, <1>5, <1>6

\* A resumed or started job keeps the types.
LEMMA RunTypes ==
  ASSUME Types, RunPrompted \/ RunReported \/ RunPurge \/ RunAlert \/ RunAlerted
                \/ RunRetract \/ RunSend \/ RunCancelled
  PROVE  Types'
  <1>1. CASE RunPrompted
    <2>1. /\ Job \in Jobs /\ Job.do = "prompted" /\ Tail(ready) \in Seq(Entry)
          /\ Head(ready).ok => Head(ready).nid \in Nids
      BY <1>1, RunHead DEF RunPrompted
    <2>2. /\ Job.container \in Containers /\ Job.target \in Targets /\ Job.id \in Requests
          /\ Job.prior \in Requests \cup {None}
      BY <2>1, JobFields
    <2>3. pending' \in [Requests -> Pending \cup {None}] /\ callbacks' \in [Nids -> Click \cup {None}]
      <3>1. CASE Head(ready).ok
        <4> DEFINE record == [nid |-> Head(ready).nid, container |-> Job.container,
                              target |-> Job.target]
                   click == [container |-> Job.container, target |-> Job.target, id |-> Job.id]
        <4>1. record \in Pending /\ click \in Click
          BY <2>1, <2>2, <3>1 DEF Pending, Click
        <4>2. /\ pending' = [(IF Job.prior = None THEN pending
                              ELSE [pending EXCEPT ![Job.prior] = None]) EXCEPT ![Job.id] = record]
              /\ callbacks' = [callbacks EXCEPT ![Head(ready).nid] = click]
          BY <1>1, <3>1 DEF RunPrompted, FilePrompt, Put
        <4> HIDE DEF record, click
        <4> QED
          BY <4>1, <4>2 DEF Types
      <3>2. CASE ~Head(ready).ok
        BY <1>1, <3>2 DEF RunPrompted, Types
      <3> QED
        BY <3>1, <3>2
    <2> QED
      BY <1>1, <2>1, <2>3 DEF RunPrompted, Types, userVars, pastVars
  <1>2. CASE RunReported \/ RunSend \/ RunCancelled
    <2>1. Tail(ready) \in Seq(Entry)
      BY <1>2, RunHead DEF RunReported, RunSend, RunCancelled
    <2> QED
      BY <1>2, <2>1 DEF RunReported, RunSend, RunCancelled, Types, stateVars, userVars, pastVars
  <1>3. CASE RunPurge
    <2>1. Tail(ready) \in Seq(Entry)
      BY <1>3, RunHead DEF RunPurge
    <2>2. UNCHANGED <<phase, handling, inbox, screen, fresh, announced, ended, events>>
      BY <1>3 DEF RunPurge, userVars, pastVars
    <2>3. /\ pending' \in [Requests -> Pending \cup {None}] /\ down' \in [Containers -> Nids \cup {None}]
          /\ callbacks' \in [Nids -> Click \cup {None}] /\ bus' \in Seq(Call)
      <3>1. CASE \E stale \in Stale, j \in Awaited :
                   /\ j.do = "purge"
                   /\ pending' = [pending EXCEPT ![stale.id] = None] /\ UNCHANGED down
                   /\ Close(stale.nid, j)
        BY <3>1, CloseTypes DEF Types, Stale
      <3>2. CASE /\ down[Job.container] # None /\ Close(down[Job.container], Nothing)
                 /\ down' = [down EXCEPT ![Job.container] = None] /\ UNCHANGED pending
        <4>1. Job.container \in Containers
          BY <1>3, PurgeRuns
        <4>2. down[Job.container] \in Nids /\ Nothing \in Awaited /\ Nothing.do = "nothing"
          BY <3>2, <4>1, JobsMade DEF Types, Nothing
        <4> QED
          BY <3>2, <4>2, CloseTypes DEF Types
      <3>3. CASE UNCHANGED <<stateVars, bus>>
        BY <3>3 DEF Types, stateVars
      <3> QED
        BY <1>3, <3>1, <3>2, <3>3, PurgeRuns
    <2>4. ready' = Tail(ready)
      BY <1>3 DEF RunPurge
    <2> QED
      BY <2>1, <2>2, <2>3, <2>4 DEF Types
  <1>4. CASE RunAlert
    <2>1. Job \in Jobs /\ Job.do = "alert" /\ Tail(ready) \in Seq(Entry)
      BY <1>4, RunHead DEF RunAlert
    <2>2. bus' \in Seq(Call)
      <3>1. PICK call \in Call : bus' = Append(bus, call)
        BY <1>4, AlertCalls
      <3> QED
        BY <3>1, AppendElements DEF Types
    <2> QED
      BY <1>4, <2>1, <2>2 DEF RunAlert, Types, stateVars, userVars, pastVars
  <1>5. CASE RunAlerted
    <2>1. /\ Job \in Jobs /\ Job.do = "alerted" /\ Tail(ready) \in Seq(Entry)
          /\ Head(ready).ok => Head(ready).nid \in Nids
      BY <1>5, RunHead DEF RunAlerted
    <2>2. down' \in [Containers -> Nids \cup {None}]
      BY <1>5, <2>1 DEF RunAlerted, Put, Types
    <2> QED
      BY <1>5, <2>1, <2>2 DEF RunAlerted, Types, userVars, pastVars
  <1>6. CASE RunRetract
    <2>1. Job \in Jobs /\ Job.do = "retract" /\ Tail(ready) \in Seq(Entry)
      BY <1>6, RunHead DEF RunRetract
    <2>2. Job.container \in Containers
      BY <2>1, JobFields
    <2>3. /\ down' \in [Containers -> Nids \cup {None}]
          /\ callbacks' \in [Nids -> Click \cup {None}] /\ bus' \in Seq(Call)
      <3>1. CASE down[Job.container] # None
        <4>1. down[Job.container] \in Nids /\ Nothing \in Awaited /\ Nothing.do = "nothing"
          BY <2>2, <3>1, JobsMade DEF Types, Nothing
        <4>2. Close(down[Job.container], Nothing) /\ down' = [down EXCEPT ![Job.container] = None]
          BY <1>6, <3>1 DEF RunRetract, Put
        <4> QED
          BY <4>1, <4>2, CloseTypes DEF Types
      <3>2. CASE down[Job.container] = None
        BY <1>6, <3>2 DEF RunRetract, Types
      <3> QED
        BY <3>1, <3>2
    <2> QED
      BY <1>6, <2>1, <2>3 DEF RunRetract, Types, userVars, pastVars
  <1> QED
    BY <1>1, <1>2, <1>3, <1>4, <1>5, <1>6

\* A reply resumes the job that awaits it.
LEMMA ReplyResumes ==
  ASSUME Types, ReceiveReply
  PROVE  /\ inbox # <<>> /\ Head(inbox).kind = "reply" /\ inbox' = Tail(inbox)
         /\ \/ ready' = ready /\ Head(inbox).then = Nothing
            \/ \E e \in Entry :
                 /\ e.job = Head(inbox).then /\ e.nid = Head(inbox).nid /\ e.ok = Head(inbox).ok
                 /\ ready' = Append(ready, e)
  <1> DEFINE e == [job |-> Head(inbox).then, nid |-> Head(inbox).nid, ok |-> Head(inbox).ok]
  <1>1. inbox # <<>> /\ Head(inbox).kind = "reply" /\ inbox' = Tail(inbox)
    BY DEF ReceiveReply
  <1>2. e \in Entry
    BY <1>1, InboxHead, JobsMade DEF Entry
  <1>3. (ready' = ready /\ Head(inbox).then = Nothing) \/ ready' = Append(ready, e)
    BY DEF ReceiveReply
  <1> QED
    BY <1>1, <1>2, <1>3

\* A click whose callback is there starts a task that sends its verdict.
LEMMA ClickSends ==
  ASSUME Types, ReceiveAction
  PROVE  /\ inbox # <<>> /\ Head(inbox).kind = "action" /\ inbox' = Tail(inbox)
         /\ \/ ready' = ready
            \/ /\ callbacks[Head(inbox).nid] # None
               /\ \E j \in Jobs : /\ j.do = "send" /\ j.click = callbacks[Head(inbox).nid]
                                  /\ j.shown = Head(inbox).shown
                                  /\ ready' = Append(ready, Started(j))
  <1> DEFINE j == [do |-> "send", click |-> callbacks[Head(inbox).nid], shown |-> Head(inbox).shown]
  <1>1. inbox # <<>> /\ Head(inbox).kind = "action" /\ inbox' = Tail(inbox)
    BY DEF ReceiveAction
  <1>2. Head(inbox).nid \in Nids /\ Head(inbox).shown \in Subject
    BY <1>1, InboxHead
  <1>3. CASE callbacks[Head(inbox).nid] = None
    BY <1>1, <1>3 DEF ReceiveAction
  <1>4. CASE callbacks[Head(inbox).nid] # None
    <2>1. callbacks[Head(inbox).nid] \in Click
      BY <1>2, <1>4 DEF Types
    <2>2. j \in Jobs /\ j.do = "send"
      BY <1>2, <2>1, JobsMade
    <2>3. ready' = Dispatched(<<j>>)
      BY <1>4 DEF ReceiveAction
    <2>4. j.click = callbacks[Head(inbox).nid] /\ j.shown = Head(inbox).shown
      OBVIOUS
    <2> HIDE DEF j
    <2>5. ready' = Append(ready, Started(j))
      BY <2>2, <2>3, DispatchAppends DEF Types
    <2> QED
      BY <1>1, <1>4, <2>2, <2>4, <2>5
  <1> QED
    BY <1>3, <1>4

LEMMA ReceiveTypes ==
  ASSUME Types, ReceiveReply \/ ReceiveAction \/ ReceiveClosed
  PROVE  Types'
  <1>1. inbox # <<>> /\ inbox' = Tail(inbox) /\ inbox' \in Seq(Message)
    <2>1. inbox # <<>> /\ inbox' = Tail(inbox)
      BY DEF ReceiveReply, ReceiveAction, ReceiveClosed
    <2> QED
      BY <2>1, InboxHead
  <1>2. CASE ReceiveReply
    <2>1. ready' \in Seq(Entry)
      <3>1. \A e \in Entry : Append(ready, e) \in Seq(Entry)
        BY AppendElements DEF Types
      <3> QED
        BY <1>2, <3>1, ReplyResumes DEF Types
    <2> QED
      BY <1>1, <1>2, <2>1 DEF ReceiveReply, Types, stateVars, userVars, pastVars
  <1>3. CASE ReceiveAction
    <2>1. ready' \in Seq(Entry)
      <3>1. \A j \in Jobs : j.do = "send" => Append(ready, Started(j)) \in Seq(Entry)
        BY StartedIsEntry, AppendElements DEF Types
      <3> QED
        BY <1>3, <3>1, ClickSends DEF Types
    <2> QED
      BY <1>1, <1>3, <2>1 DEF ReceiveAction, Types, stateVars, userVars, pastVars
  <1>4. CASE ReceiveClosed
    BY <1>1, <1>4 DEF ReceiveClosed, Put, Types, userVars, pastVars
  <1> QED
    BY <1>2, <1>3, <1>4

\* What the daemon answers: an id it had been given, or the next fresh one.
LEMMA PostReplies ==
  ASSUME Types, FreshSuffices, DaemonPosts
  PROVE  /\ bus # <<>> /\ Head(bus).op = "notify" /\ bus' = Tail(bus)
         /\ \E n \in Nids, m \in Message :
              /\ n = IF Head(bus).nid = None THEN fresh ELSE Head(bus).nid
              /\ screen' = [screen EXCEPT ![n] = Head(bus).face]
              /\ m.kind = "reply" /\ m.then = Head(bus).then /\ m.nid = n /\ m.ok = TRUE
              /\ inbox' = Append(inbox, m)
         /\ fresh' = IF Head(bus).nid = None THEN fresh + 1 ELSE fresh
  <1> DEFINE n == IF Head(bus).nid = None THEN fresh ELSE Head(bus).nid
  <1>1. bus # <<>> /\ Head(bus).op = "notify" /\ bus' = Tail(bus)
    BY DEF DaemonPosts
  <1>2. n \in Nids
    BY <1>1, BusHead DEF FreshSuffices
  <1>3. Reply(n, TRUE) \in Message
    BY <1>1, <1>2, BusHead DEF Reply, Message
  <1>4. /\ screen' = [screen EXCEPT ![n] = Head(bus).face]
        /\ inbox' = Append(inbox, Reply(n, TRUE))
    BY DEF DaemonPosts, Put
  <1>5. fresh' = IF Head(bus).nid = None THEN fresh + 1 ELSE fresh
    BY DEF DaemonPosts
  <1> HIDE DEF n
  <1>6. /\ Reply(n, TRUE).kind = "reply" /\ Reply(n, TRUE).then = Head(bus).then
        /\ Reply(n, TRUE).nid = n /\ Reply(n, TRUE).ok = TRUE
    BY DEF Reply
  <1> QED
    BY <1>1, <1>2, <1>3, <1>4, <1>5, <1>6 DEF n

\* A close takes the popup off the screen, says so, and is answered.
LEMMA CloseReplies ==
  ASSUME Types, DaemonCloses
  PROVE  /\ bus # <<>> /\ Head(bus).op = "close" /\ bus' = Tail(bus)
         /\ Head(bus).nid \in Nids /\ screen' = [screen EXCEPT ![Head(bus).nid] = None]
         /\ \E k, m \in Message :
              /\ k.kind = "closed"
              /\ m.kind = "reply" /\ m.then = Head(bus).then /\ m.then.do # "prompted"
              /\ \/ inbox' = Append(inbox, m)
                 \/ inbox' = Append(Append(inbox, k), m)
  <1> DEFINE n == Head(bus).nid
             k == [kind |-> "closed", nid |-> n]
             m == Reply(n, TRUE)
  <1>1. bus # <<>> /\ Head(bus).op = "close" /\ bus' = Tail(bus)
    BY DEF DaemonCloses
  <1>2. n \in Nids /\ Head(bus).then \in Awaited /\ Head(bus).then.do # "prompted"
    BY <1>1, BusHead
  <1>3. k \in Message /\ k.kind = "closed"
    BY <1>2 DEF Message
  <1>4. m \in Message /\ m.kind = "reply" /\ m.then = Head(bus).then
    BY <1>2 DEF Message, Reply
  <1>5. /\ screen' = [screen EXCEPT ![n] = None]
        /\ inbox' = inbox \o (IF screen[n] = None THEN <<>> ELSE <<k>>) \o <<m>>
    BY DEF DaemonCloses, Put
  <1> HIDE DEF k, m
  <1>6. inbox' = Append(inbox, m) \/ inbox' = Append(Append(inbox, k), m)
    <2>1. CASE screen[n] = None
      <3>1. inbox' = (inbox \o <<>>) \o <<m>>
        BY <1>5, <2>1
      <3>2. inbox \in Seq(Message)
        BY DEF Types
      <3>3. (inbox \o <<>>) \o <<m>> = Append(inbox, m)
        BY <1>4, <3>2, ConcatIsAppend
      <3> QED
        BY <3>1, <3>3
    <2>2. CASE screen[n] # None
      <3>1. inbox' = (inbox \o <<k>>) \o <<m>>
        BY <1>5, <2>2
      <3>2. inbox \in Seq(Message)
        BY DEF Types
      <3>3. (inbox \o <<k>>) \o <<m>> = Append(Append(inbox, k), m)
        BY <1>3, <1>4, <3>2, ConcatIsAppend
      <3> QED
        BY <3>1, <3>3
    <2> QED
      BY <2>1, <2>2
  <1> QED
    BY <1>1, <1>2, <1>3, <1>4, <1>5, <1>6

LEMMA OutsideTypes == ASSUME Types, FreshSuffices, Outside PROVE Types'
  <1>1. CASE DaemonPosts
    <2>1. PICK n \in Nids, m \in Message :
            /\ screen' = [screen EXCEPT ![n] = Head(bus).face] /\ inbox' = Append(inbox, m)
      BY <1>1, PostReplies
    <2>2. /\ bus' \in Seq(Call) /\ Head(bus).face \in Shown
          /\ fresh' \in Nat \ {0}
      <3>1. bus # <<>> /\ Head(bus).op = "notify" /\ bus' = Tail(bus)
        BY <1>1 DEF DaemonPosts
      <3>2. fresh' = IF Head(bus).nid = None THEN fresh + 1 ELSE fresh
        BY <1>1 DEF DaemonPosts
      <3>3. fresh' \in Nat \ {0}
        BY <3>2 DEF Types
      <3> QED
        BY <3>1, <3>3, BusHead
    <2>3. inbox' \in Seq(Message)
      BY <2>1, AppendElements DEF Types
    <2>4. screen' \in [Nids -> Shown \cup {None}]
      BY <2>1, <2>2 DEF Types
    <2> QED
      BY <1>1, <2>2, <2>3, <2>4 DEF DaemonPosts, Types, stateVars, pastVars
  <1>2. CASE DaemonRefuses
    <2>1. bus # <<>> /\ Head(bus).op = "notify" /\ inbox' = Append(inbox, Reply(None, FALSE))
          /\ bus' = Tail(bus)
      BY <1>2 DEF DaemonRefuses
    <2>2. bus' \in Seq(Call) /\ Reply(None, FALSE) \in Message
      BY <2>1, BusHead DEF Reply, Message
    <2>3. inbox' \in Seq(Message)
      BY <2>1, <2>2, AppendElements DEF Types
    <2> QED
      BY <1>2, <2>2, <2>3 DEF DaemonRefuses, Types, stateVars, userVars, pastVars
  <1>3. CASE DaemonCloses
    <2>1. PICK k, m \in Message :
            inbox' = Append(inbox, m) \/ inbox' = Append(Append(inbox, k), m)
      BY <1>3, CloseReplies
    <2>2. inbox' \in Seq(Message)
      <3>1. Append(inbox, k) \in Seq(Message) /\ inbox \in Seq(Message)
        BY AppendElements DEF Types
      <3>2. Append(inbox, m) \in Seq(Message) /\ Append(Append(inbox, k), m) \in Seq(Message)
        BY <3>1, AppendElements
      <3> QED
        BY <2>1, <3>2
    <2>3. bus' \in Seq(Call) /\ screen' \in [Nids -> Shown \cup {None}]
      BY <1>3, CloseReplies, BusHead DEF Types
    <2> QED
      BY <1>3, <2>2, <2>3 DEF DaemonCloses, Types, stateVars, pastVars
  <1>4. ASSUME NEW n \in Nids, UserClicks(n) PROVE Types'
    <2> DEFINE m == [kind |-> "action", nid |-> n,
                     shown |-> [container |-> screen[n].container, target |-> screen[n].target]]
    <2>1. screen[n] \in Shown /\ screen[n].kind = "prompt"
      BY <1>4 DEF UserClicks, Types
    <2>2. m \in Message
      BY <2>1 DEF Shown, Face, Message, Subject
    <2>3. inbox' = Append(inbox, m)
      BY <1>4 DEF UserClicks
    <2>4. inbox' \in Seq(Message)
      BY <2>2, <2>3, AppendElements DEF Types
    <2> QED
      BY <1>4, <2>4 DEF UserClicks, Types, stateVars, userVars, pastVars
  <1>5. ASSUME NEW n \in Nids, PopupGoes(n) PROVE Types'
    <2>1. [kind |-> "closed", nid |-> n] \in Message
      BY DEF Message
    <2>2. inbox' \in Seq(Message)
      BY <1>5, <2>1, AppendElements DEF PopupGoes, Types
    <2> QED
      BY <1>5, <2>2 DEF PopupGoes, Put, Types, stateVars, pastVars
  <1> QED
    BY <1>1, <1>2, <1>3, <1>4, <1>5 DEF Outside

LEMMA StopTypes == ASSUME Types, Stop PROVE Types'
  <1>1. CASE StopBegins
    <2>1. ready' \in Seq(Entry) /\ bus' \in Seq(Call) /\ inbox' \in Seq(Message)
      BY <1>1, CancelTypes DEF StopBegins
    <2>2. phase' \in {"draining", "closing"}
      BY <1>1 DEF StopBegins
    <2> QED
      BY <1>1, <2>1, <2>2 DEF StopBegins, Types, stateVars, userVars, pastVars
  <1>2. CASE StopClosesClient
    BY <1>2 DEF StopClosesClient, Types, stateVars, loopVars, userVars, pastVars
  <1>3. CASE StopEnds
    <2>1. ready' \in Seq(Entry) /\ bus' \in Seq(Call) /\ inbox' \in Seq(Message)
      BY <1>3, CancelTypes DEF StopEnds
    <2> QED
      BY <1>3, <2>1 DEF StopEnds, Types, userVars, pastVars
  <1> QED
    BY <1>1, <1>2, <1>3 DEF Stop

LEMMA TypesStep == ASSUME Types, FreshSuffices, [Next]_vars PROVE Types'
  <1>1. CASE Loop
    BY <1>1, RunTypes, ReceiveTypes DEF Loop
  <1>2. CASE UNCHANGED vars
    BY <1>2 DEF vars, Types
  <1> QED
    BY <1>1, <1>2, HubEventTypes, OutsideTypes, StopTypes DEF Next

-----------------------------------------------------------------------------
(* Every popup is posted for an event of its own, so the ids suffice *)

\* The events whose popup is on its way to the daemon.
CallAts(q) == {q[i].face.at : i \in {k \in DOMAIN q : q[k].op = "notify"}}

CallsOnce(q) ==
  \A i, k \in DOMAIN q : q[i].op = "notify" /\ q[k].op = "notify" /\ q[i].face.at = q[k].face.at
                           => i = k

\* The events whose alert has still to be posted.
JobAts(q) == {q[i].job.at : i \in {k \in DOMAIN q : q[k].job.do = "alert"}}

JobsOnce(q) ==
  \A i, k \in DOMAIN q : q[i].job.do = "alert" /\ q[k].job.do = "alert" /\ q[i].job.at = q[k].job.at
                           => i = k

LEMMA CallsAppend ==
  ASSUME NEW q \in Seq(Call), NEW x \in Call
  PROVE  /\ CallAts(Append(q, x)) \subseteq CallAts(q) \cup {x.face.at}
         /\ x.op # "notify" => CallAts(Append(q, x)) = CallAts(q)
         /\ CallsOnce(q) /\ (x.op = "notify" => x.face.at \notin CallAts(q))
              => CallsOnce(Append(q, x))
  <1>1. /\ Len(q) \in Nat /\ DOMAIN q = 1..Len(q) /\ DOMAIN Append(q, x) = 1..(Len(q) + 1)
        /\ Append(q, x)[Len(q) + 1] = x
        /\ \A i \in DOMAIN q : Append(q, x)[i] = q[i]
    BY AppendElements
  <1>2. /\ DOMAIN Append(q, x) = DOMAIN q \cup {Len(q) + 1}
        /\ Len(q) + 1 \notin DOMAIN q
    BY <1>1
  <1> QED
    BY <1>1, <1>2 DEF CallAts, CallsOnce

LEMMA CallsTail ==
  ASSUME NEW q \in Seq(Call), q # <<>>
  PROVE  /\ CallAts(Tail(q)) \subseteq CallAts(q)
         /\ Head(q).op = "notify" => Head(q).face.at \in CallAts(q)
         /\ CallsOnce(q) => CallsOnce(Tail(q))
         /\ CallsOnce(q) /\ Head(q).op = "notify" => Head(q).face.at \notin CallAts(Tail(q))
  <1>1. /\ 1 \in DOMAIN q /\ q[1] = Head(q)
        /\ \A i \in DOMAIN Tail(q) : i + 1 \in DOMAIN q /\ Tail(q)[i] = q[i + 1]
        /\ \A i \in DOMAIN Tail(q) : i \in Nat \ {0}
    BY TailElements
  <1>2. /\ \A i, k \in DOMAIN Tail(q) : i + 1 = k + 1 => i = k
        /\ \A i \in DOMAIN Tail(q) : i + 1 # 1
    BY <1>1
  <1> QED
    BY <1>1, <1>2 DEF CallAts, CallsOnce

LEMMA JobsAppend ==
  ASSUME NEW q \in Seq(Entry), NEW x \in Entry
  PROVE  /\ JobAts(Append(q, x)) \subseteq JobAts(q) \cup {x.job.at}
         /\ x.job.do # "alert" => JobAts(Append(q, x)) = JobAts(q)
         /\ JobsOnce(q) /\ (x.job.do = "alert" => x.job.at \notin JobAts(q))
              => JobsOnce(Append(q, x))
  <1>1. /\ Len(q) \in Nat /\ DOMAIN q = 1..Len(q) /\ DOMAIN Append(q, x) = 1..(Len(q) + 1)
        /\ Append(q, x)[Len(q) + 1] = x
        /\ \A i \in DOMAIN q : Append(q, x)[i] = q[i]
    BY AppendElements
  <1>2. /\ DOMAIN Append(q, x) = DOMAIN q \cup {Len(q) + 1}
        /\ Len(q) + 1 \notin DOMAIN q
    BY <1>1
  <1> QED
    BY <1>1, <1>2 DEF JobAts, JobsOnce

LEMMA JobsTail ==
  ASSUME NEW q \in Seq(Entry), q # <<>>
  PROVE  /\ JobAts(Tail(q)) \subseteq JobAts(q)
         /\ Head(q).job.do = "alert" => Head(q).job.at \in JobAts(q)
         /\ JobsOnce(q) => JobsOnce(Tail(q))
         /\ JobsOnce(q) /\ Head(q).job.do = "alert" => Head(q).job.at \notin JobAts(Tail(q))
  <1>1. /\ 1 \in DOMAIN q /\ q[1] = Head(q)
        /\ \A i \in DOMAIN Tail(q) : i + 1 \in DOMAIN q /\ Tail(q)[i] = q[i + 1]
        /\ \A i \in DOMAIN Tail(q) : i \in Nat \ {0}
    BY TailElements
  <1>2. /\ \A i, k \in DOMAIN Tail(q) : i + 1 = k + 1 => i = k
        /\ \A i \in DOMAIN Tail(q) : i + 1 # 1
    BY <1>1
  <1> QED
    BY <1>1, <1>2 DEF JobAts, JobsOnce

\* Cancelling posts nothing and cancels no call.
LEMMA CancelledAts ==
  ASSUME Types, Cancel(Task) \/ Cancel(Inline)
  PROVE  /\ CallAts(bus') = CallAts(bus) /\ (CallsOnce(bus) => CallsOnce(bus'))
         /\ JobAts(ready') \subseteq JobAts(ready) /\ (JobsOnce(ready) => JobsOnce(ready'))
  <1>1. Cancelling
    BY CancelCancels
  <1>2. /\ \A i \in DOMAIN ready : ready[i] \in Entry
        /\ \A i \in DOMAIN bus : bus[i] \in Call
    BY DEF Types
  <1>3. /\ DOMAIN bus' = DOMAIN bus
        /\ \A i \in DOMAIN bus : bus'[i].op = bus[i].op /\ bus'[i].face = bus[i].face
    BY <1>1, <1>2, CancelledMail DEF Cancelling
  <1>4. /\ DOMAIN ready' = DOMAIN ready
        /\ \A i \in DOMAIN ready : ready'[i].job.do = "alert" => ready'[i] = ready[i]
    <2>1. \A i \in DOMAIN ready : ready'[i] = ready[i] \/ ready'[i].job = Nothing
      <3>1. \A e \in Entry : [e EXCEPT !.job = Nothing].job = Nothing
        BY CancelledMail
      <3>2. \A i \in DOMAIN ready : ready'[i] \in {ready[i], [ready[i] EXCEPT !.job = Nothing]}
        BY <1>1 DEF Cancelling
      <3> QED
        BY <1>2, <3>1, <3>2, Zenon
    <2>2. Nothing.do # "alert"
      BY DEF Nothing
    <2>3. DOMAIN ready' = DOMAIN ready
      BY <1>1 DEF Cancelling
    <2> QED
      BY <2>1, <2>2, <2>3
  <1> QED
    BY <1>3, <1>4 DEF CallAts, CallsOnce, JobAts, JobsOnce

-----------------------------------------------------------------------------
(* The ledger of ids *)

\* The events whose popup has reached the daemon, or that never have one.
Done == (1..events) \ (CallAts(bus) \cup JobAts(ready))

\* A popup still to be posted stands for an event of its own, and every id given
\* out stands for an event that is done with.
Ledger ==
  /\ CallsOnce(bus) /\ JobsOnce(ready)
  /\ CallAts(bus) \cap JobAts(ready) = {}
  /\ CallAts(bus) \cup JobAts(ready) \subseteq 1..events
  /\ fresh - 1 <= Cardinality(Done)

\* How many of the first n events a set of them can hold.
LEMMA EventsCounted ==
  ASSUME NEW n \in Nat, NEW T \in SUBSET (1..n)
  PROVE  /\ IsFiniteSet(T) /\ Cardinality(T) \in Nat /\ Cardinality(T) <= n
         /\ Cardinality(T) = n => T = 1..n
  <1>1. IsFiniteSet(1..n) /\ Cardinality(1..n) = IF 1 > n THEN 0 ELSE n - 1 + 1
    BY FS_Interval
  <1>2. Cardinality(1..n) = n
    BY <1>1
  <1>3. IsFiniteSet(T) /\ Cardinality(T) <= n /\ (Cardinality(T) = n => T = 1..n)
    BY <1>1, <1>2, FS_Subset
  <1> QED
    BY <1>3, FS_CardinalityType

\* Nothing is done with that has not come, now or after a step.
LEMMA DoneCounted ==
  /\ Types => /\ events \in Nat /\ events <= MaxEvents /\ Done \in SUBSET (1..events)
              /\ IsFiniteSet(Done) /\ Cardinality(Done) \in Nat /\ Cardinality(Done) <= events
              /\ Cardinality(Done) = events => Done = 1..events
  /\ Types' => IsFiniteSet(Done') /\ Cardinality(Done') \in Nat
  <1>1. ASSUME Types
        PROVE  events \in Nat /\ events <= MaxEvents /\ Done \in SUBSET (1..events)
    BY <1>1, SubscriberAssumption DEF SubscriberAssumption, Types, Done
  <1>2. ASSUME Types'
        PROVE  events' \in Nat /\ Done' \in SUBSET (1..events')
    BY <1>2, SubscriberAssumption DEF SubscriberAssumption, Types, Done
  <1>3. ASSUME Types
        PROVE  /\ IsFiniteSet(Done) /\ Cardinality(Done) \in Nat /\ Cardinality(Done) <= events
               /\ Cardinality(Done) = events => Done = 1..events
    BY <1>1, <1>3, EventsCounted
  <1>4. ASSUME Types'
        PROVE  IsFiniteSet(Done') /\ Cardinality(Done') \in Nat
    BY <1>2, <1>4, EventsCounted
  <1> QED
    BY <1>1, <1>3, <1>4

\* As long as no id is given out, it is enough that what is done stays done.
LEMMA DoneStays ==
  ASSUME Types, Types', Ledger, Done \subseteq Done', fresh' = fresh
  PROVE  fresh' - 1 <= Cardinality(Done')
  <1>1. Done \in SUBSET Done'
    OBVIOUS
  <1>2. Cardinality(Done) <= Cardinality(Done')
    BY <1>1, DoneCounted, FS_Subset
  <1>3. Cardinality(Done) \in Nat /\ Cardinality(Done') \in Nat /\ fresh \in Nat
    BY DoneCounted DEF Types
  <1>4. fresh - 1 <= Cardinality(Done)
    BY DEF Ledger
  <1>5. \A f, a, b \in Nat : f - 1 <= a /\ a <= b => f - 1 <= b
    OBVIOUS
  <1> QED
    BY <1>2, <1>3, <1>4, <1>5

\* The ids suffice.
LEMMA LedgerSuffices ==
  ASSUME Types, Ledger
  PROVE  FreshSuffices /\ fresh <= MaxEvents + 1
  <1>1. /\ Cardinality(Done) <= events /\ Cardinality(Done) \in Nat
        /\ events \in Nat /\ events <= MaxEvents /\ MaxEvents \in Nat
        /\ fresh \in Nat \ {0} /\ fresh - 1 <= Cardinality(Done)
    BY DoneCounted, SubscriberAssumption DEF SubscriberAssumption, Ledger, Types
  <1>2. fresh <= MaxEvents + 1
    BY <1>1
  <1>3. ASSUME bus # <<>>, Head(bus).op = "notify"
        PROVE  fresh \in Nids
    <2>1. Head(bus).face.at \in CallAts(bus)
      BY <1>3, CallsTail DEF Types
    <2>2. Head(bus).face.at \in 1..events /\ Head(bus).face.at \notin Done
      BY <2>1 DEF Ledger, Done
    <2>3. Cardinality(Done) # events
      BY <2>2, DoneCounted
    <2> QED
      BY <1>1, <2>3 DEF Nids
  <1> QED
    BY <1>2, <1>3 DEF FreshSuffices

\* What is posted, or still to be posted, was so before or is the new event's.
LEMMA LedgerKeeps ==
  ASSUME Types, Types', Ledger, CallsOnce(bus'), JobsOnce(ready'),
         CallAts(bus') \cap JobAts(ready') = {}, fresh' = fresh,
         NEW A \in SUBSET {events + 1},
         (events' = events /\ A = {}) \/ events' = events + 1,
         CallAts(bus') \cup JobAts(ready') \subseteq CallAts(bus) \cup JobAts(ready) \cup A
  PROVE  Ledger'
  <1>1. events \in Nat /\ events' \in Nat
    BY SubscriberAssumption DEF Types, SubscriberAssumption
  <1>2. CallAts(bus) \cup JobAts(ready) \subseteq 1..events
    BY DEF Ledger
  <1>3. 1..events \subseteq 1..events' /\ A \subseteq 1..events' /\ A \cap (1..events) = {}
    BY <1>1
  <1>4. CallAts(bus') \cup JobAts(ready') \subseteq 1..events'
    BY <1>2, <1>3
  <1>5. Done \subseteq Done'
    BY <1>3 DEF Done
  <1>6. fresh' - 1 <= Cardinality(Done')
    BY <1>5, DoneStays
  <1> QED
    BY <1>4, <1>6 DEF Ledger

\* Nothing new is posted.
LEMMA LedgerQuiet ==
  ASSUME Types, Types', Ledger, CallsOnce(bus'), JobsOnce(ready'), fresh' = fresh,
         CallAts(bus') \subseteq CallAts(bus), JobAts(ready') \subseteq JobAts(ready),
         events' = events \/ events' = events + 1
  PROVE  Ledger'
  <1>1. CallAts(bus') \cap JobAts(ready') = {}
    BY DEF Ledger
  <1>2. {} \in SUBSET {events + 1} /\ {events + 1} \in SUBSET {events + 1}
    OBVIOUS
  <1>3. CASE events' = events
    BY <1>1, <1>2, <1>3, LedgerKeeps
  <1>4. CASE events' = events + 1
    BY <1>1, <1>2, <1>4, LedgerKeeps
  <1> QED
    BY <1>3, <1>4

LEMMA HubEventLedger ==
  ASSUME Types, Types', Ledger, HubEvent
  PROVE  Ledger'
  <1>0. /\ CallsOnce(bus) /\ JobsOnce(ready) /\ CallAts(bus) \cap JobAts(ready) = {}
        /\ events + 1 \notin CallAts(bus) /\ events + 1 \notin JobAts(ready)
        /\ bus \in Seq(Call) /\ ready \in Seq(Entry)
    BY SubscriberAssumption DEF Ledger, Types, SubscriberAssumption
  <1>1. ASSUME NEW call \in Call, call.face.at = events + 1, bus' = Append(bus, call),
               ready' = ready, events' = events + 1, fresh' = fresh
        PROVE  Ledger'
    <2>1. CallAts(bus') \subseteq CallAts(bus) \cup {events + 1} /\ CallsOnce(bus')
      BY <1>0, <1>1, CallsAppend
    <2>2. CallAts(bus') \cap JobAts(ready') = {}
      BY <1>0, <1>1, <2>1
    <2>3. CallAts(bus') \cup JobAts(ready') \subseteq CallAts(bus) \cup JobAts(ready) \cup {events + 1}
      BY <1>1, <2>1
    <2> QED
      BY <1>0, <1>1, <2>1, <2>2, <2>3, LedgerKeeps
  <1>2. ASSUME NEW c \in Containers, NEW t \in Targets, NEW r \in Requests, Blocked(c, t, r)
        PROVE  Ledger'
    <2>1. PICK call \in Call : call.face.at = events + 1 /\ bus' = Append(bus, call)
      BY <1>2, BlockedCalls
    <2>2. ready' = ready /\ events' = events + 1 /\ fresh' = fresh
      BY <1>2 DEF Blocked, userVars
    <2> QED
      BY <1>1, <2>1, <2>2
  <1>3. ASSUME NEW r \in Requests, VerdictApplied(r)
        PROVE  Ledger'
    <2>1. PICK call \in Call :
            call.face.at = events + 1 /\ (bus' = Append(bus, call) \/ bus' = bus)
      BY <1>3, VerdictCalls
    <2>2. ready' = ready /\ events' = events + 1 /\ fresh' = fresh
      BY <1>3 DEF VerdictApplied, userVars
    <2>3. CASE bus' = Append(bus, call)
      BY <1>1, <2>1, <2>2, <2>3
    <2>4. CASE bus' = bus
      BY <1>0, <2>2, <2>4, LedgerQuiet
    <2> QED
      BY <2>1, <2>3, <2>4
  <1>4. ASSUME NEW c \in Containers, ShieldDown(c) \/ ShieldUp(c) \/ ContainerExited(c)
        PROVE  Ledger'
    <2>1. PICK j \in Jobs :
            /\ j.do \in {"purge", "retract"}
            /\ \/ ready' = Append(ready, Started(j))
               \/ \E k \in Jobs :
                    /\ k.do = "alert" /\ k.at = events + 1
                    /\ ready' = Append(Append(ready, Started(j)), Started(k))
      BY <1>4, LifecycleTasks
    <2>2. events' = events + 1 /\ bus' = bus /\ fresh' = fresh
      BY <1>4 DEF ShieldDown, ShieldUp, ContainerExited, userVars
    <2> DEFINE one == Append(ready, Started(j))
    <2>3. /\ one \in Seq(Entry) /\ JobAts(one) = JobAts(ready) /\ JobsOnce(one)
          /\ Started(j) \in Entry
      <3>1. Started(j) \in Entry /\ Started(j).job.do # "alert"
        BY <2>1, StartedIsEntry
      <3> QED
        BY <1>0, <3>1, JobsAppend, AppendElements
    <2> HIDE DEF one
    <2>4. CASE ready' = one
      BY <1>0, <2>2, <2>3, <2>4, LedgerQuiet
    <2>5. ASSUME NEW k \in Jobs, k.do = "alert", k.at = events + 1, ready' = Append(one, Started(k))
          PROVE  Ledger'
      <3>1. Started(k) \in Entry /\ Started(k).job.do = "alert" /\ Started(k).job.at = events + 1
        BY <2>5, StartedIsEntry
      <3>2. JobAts(ready') \subseteq JobAts(ready) \cup {events + 1} /\ JobsOnce(ready')
        BY <1>0, <2>3, <2>5, <3>1, JobsAppend
      <3>3. CallAts(bus') \cap JobAts(ready') = {}
        BY <1>0, <2>2, <3>2
      <3>4. CallAts(bus') \cup JobAts(ready') \subseteq CallAts(bus) \cup JobAts(ready) \cup {events + 1}
        BY <2>2, <3>2
      <3>5. CallsOnce(bus')
        BY <1>0, <2>2
      <3> QED
        BY <2>2, <3>2, <3>3, <3>4, <3>5, LedgerKeeps
    <2> QED
      BY <2>1, <2>4, <2>5 DEF one
  <1> QED
    BY <1>2, <1>3, <1>4 DEF HubEvent

LEMMA LoopLedger ==
  ASSUME Types, Types', Ledger, Loop
  PROVE  Ledger'
  <1>0. /\ CallsOnce(bus) /\ JobsOnce(ready) /\ CallAts(bus) \cap JobAts(ready) = {}
        /\ bus \in Seq(Call) /\ ready \in Seq(Entry)
    BY DEF Ledger, Types
  <1>1. UNCHANGED <<fresh, events>>
    BY DEF Loop, RunPrompted, RunReported, RunPurge, RunAlert, RunAlerted, RunRetract, RunSend,
           RunCancelled, ReceiveReply, ReceiveAction, ReceiveClosed, userVars, pastVars
  <1>2. ASSUME ready # <<>>, ready' = Tail(ready),
               bus' = bus \/ \E call \in Call : call.op = "close" /\ bus' = Append(bus, call)
        PROVE  Ledger'
    <2>1. JobAts(ready') \subseteq JobAts(ready) /\ JobsOnce(ready')
      BY <1>0, <1>2, JobsTail
    <2>2. CallAts(bus') = CallAts(bus) /\ CallsOnce(bus')
      BY <1>0, <1>2, CallsAppend
    <2> QED
      BY <1>1, <2>1, <2>2, LedgerQuiet
  <1>3. CASE RunPrompted \/ RunReported \/ RunAlerted \/ RunSend \/ RunCancelled
    BY <1>2, <1>3 DEF RunPrompted, RunReported, RunAlerted, RunSend, RunCancelled, Running
  <1>4. CASE RunPurge
    <2>1. ready # <<>> /\ ready' = Tail(ready)
      BY <1>4 DEF RunPurge, Running
    <2>2. CASE \E stale \in Stale, j \in Awaited : j.do = "purge" /\ Close(stale.nid, j)
      <3>1. PICK stale \in Stale, j \in Awaited : j.do = "purge" /\ Close(stale.nid, j)
        BY <2>2
      <3>2. stale.nid \in Nids
        BY DEF Stale
      <3> QED
        BY <1>2, <2>1, <3>1, <3>2, CloseTypes
    <2>3. CASE down[Job.container] # None /\ Close(down[Job.container], Nothing)
      <3>1. Job.container \in Containers
        BY <1>4, PurgeRuns
      <3>2. down[Job.container] \in Nids /\ Nothing \in Awaited /\ Nothing.do = "nothing"
        BY <2>3, <3>1, JobsMade DEF Types, Nothing
      <3> QED
        BY <1>2, <2>1, <2>3, <3>2, CloseTypes
    <2>4. CASE bus' = bus
      BY <1>2, <2>1, <2>4
    <2> QED
      BY <1>4, <2>2, <2>3, <2>4, PurgeRuns
  <1>5. CASE RunRetract
    <2>1. ready # <<>> /\ ready' = Tail(ready)
      BY <1>5 DEF RunRetract, Running
    <2>2. CASE down[Job.container] # None
      <3>1. Job \in Jobs /\ Job.do = "retract"
        BY <1>5, RunHead DEF RunRetract
      <3>2. Job.container \in Containers
        BY <3>1, JobFields
      <3>3. down[Job.container] \in Nids /\ Nothing \in Awaited /\ Nothing.do = "nothing"
        BY <2>2, <3>2, JobsMade DEF Types, Nothing
      <3>4. Close(down[Job.container], Nothing)
        BY <1>5, <2>2 DEF RunRetract
      <3> QED
        BY <1>2, <2>1, <3>3, <3>4, CloseTypes
    <2>3. CASE down[Job.container] = None
      BY <1>2, <1>5, <2>1, <2>3 DEF RunRetract
    <2> QED
      BY <2>2, <2>3
  <1>6. CASE RunAlert
    <2>1. PICK call \in Call : bus' = Append(bus, call) /\ call.face.at = Job.at
      BY <1>6, AlertCalls
    <2>2. ready # <<>> /\ ready' = Tail(ready) /\ Head(ready).job.do = "alert" /\ Job = Head(ready).job
      BY <1>6 DEF RunAlert, Running, Job
    <2>3. /\ JobAts(ready') \subseteq JobAts(ready) /\ JobsOnce(ready')
          /\ Job.at \in JobAts(ready) /\ Job.at \notin JobAts(ready')
      BY <1>0, <2>2, JobsTail
    <2>4. CallAts(bus') \subseteq CallAts(bus) \cup {Job.at} /\ CallsOnce(bus')
      BY <1>0, <2>1, <2>3, CallsAppend
    <2>5. CallAts(bus') \cap JobAts(ready') = {}
      BY <1>0, <2>3, <2>4
    <2>6. CallAts(bus') \cup JobAts(ready') \subseteq CallAts(bus) \cup JobAts(ready) \cup {}
      BY <2>3, <2>4
    <2>7. {} \in SUBSET {events + 1}
      OBVIOUS
    <2> QED
      BY <1>1, <2>3, <2>4, <2>5, <2>6, <2>7, LedgerKeeps
  <1>7. CASE ReceiveReply
    <2>1. bus' = bus
      BY <1>7 DEF ReceiveReply
    <2>2. JobAts(ready') \subseteq JobAts(ready) /\ JobsOnce(ready')
      <3>1. CASE ready' = ready
        BY <1>0, <3>1
      <3>2. ASSUME NEW e \in Entry, e.job = Head(inbox).then, ready' = Append(ready, e)
            PROVE  JobAts(ready') \subseteq JobAts(ready) /\ JobsOnce(ready')
        <4>1. Head(inbox).then \in Awaited
          BY <1>7, InboxHead DEF ReceiveReply
        <4>2. e.job.do # "alert"
          BY <3>2, <4>1 DEF Awaited
        <4> QED
          BY <1>0, <3>2, <4>2, JobsAppend
      <3> QED
        BY <1>7, <3>1, <3>2, ReplyResumes
    <2> QED
      BY <1>0, <1>1, <2>1, <2>2, LedgerQuiet
  <1>8. CASE ReceiveAction
    <2>1. bus' = bus
      BY <1>8 DEF ReceiveAction
    <2>2. JobAts(ready') \subseteq JobAts(ready) /\ JobsOnce(ready')
      <3>1. CASE ready' = ready
        BY <1>0, <3>1
      <3>2. ASSUME NEW j \in Jobs, j.do = "send", ready' = Append(ready, Started(j))
            PROVE  JobAts(ready') \subseteq JobAts(ready) /\ JobsOnce(ready')
        <4>1. Started(j) \in Entry /\ Started(j).job.do # "alert"
          BY <3>2, StartedIsEntry
        <4> QED
          BY <1>0, <3>2, <4>1, JobsAppend
      <3> QED
        BY <1>8, <3>1, <3>2, ClickSends
    <2> QED
      BY <1>0, <1>1, <2>1, <2>2, LedgerQuiet
  <1>9. CASE ReceiveClosed
    <2>1. bus' = bus /\ ready' = ready
      BY <1>9 DEF ReceiveClosed
    <2> QED
      BY <1>0, <1>1, <2>1, LedgerQuiet
  <1> QED
    BY <1>3, <1>4, <1>5, <1>6, <1>7, <1>8, <1>9 DEF Loop

LEMMA OutsideLedger ==
  ASSUME Types, Types', Ledger, Outside
  PROVE  Ledger'
  <1>0. /\ CallsOnce(bus) /\ JobsOnce(ready) /\ CallAts(bus) \cap JobAts(ready) = {}
        /\ bus \in Seq(Call) /\ ready \in Seq(Entry)
        /\ CallAts(bus) \subseteq 1..events
    BY DEF Ledger, Types
  <1>1. CASE DaemonPosts
    <2> DEFINE a == Head(bus).face.at
    <2>1. /\ bus # <<>> /\ Head(bus).op = "notify" /\ bus' = Tail(bus)
          /\ ready' = ready /\ events' = events
      BY <1>1 DEF DaemonPosts, pastVars
    <2>2. fresh' = fresh \/ fresh' = fresh + 1
      BY <1>1 DEF DaemonPosts
    <2>3. /\ CallAts(bus') \subseteq CallAts(bus) /\ CallsOnce(bus')
          /\ a \in CallAts(bus) /\ a \notin CallAts(bus')
      BY <1>0, <2>1, CallsTail
    <2>4. a \notin Done /\ Done \cup {a} \subseteq Done'
      BY <1>0, <2>1, <2>3 DEF Done
    <2>5. Cardinality(Done) + 1 <= Cardinality(Done')
      <3>1. Cardinality(Done \cup {a}) = Cardinality(Done) + 1
        BY <2>4, DoneCounted, FS_AddElement
      <3>2. Cardinality(Done \cup {a}) <= Cardinality(Done')
        BY <2>4, DoneCounted, FS_Subset
      <3> QED
        BY <3>1, <3>2
    <2>6. fresh' - 1 <= Cardinality(Done')
      <3>1. Cardinality(Done) \in Nat /\ Cardinality(Done') \in Nat /\ fresh \in Nat
        BY DoneCounted DEF Types
      <3>2. fresh - 1 <= Cardinality(Done)
        BY DEF Ledger
      <3>3. \A f, d, e \in Nat : f - 1 <= d /\ d + 1 <= e => f - 1 <= e /\ (f + 1) - 1 <= e
        OBVIOUS
      <3> QED
        BY <2>2, <2>5, <3>1, <3>2, <3>3
    <2>7. CallAts(bus') \cup JobAts(ready') \subseteq 1..events'
      BY <2>1, <2>3 DEF Ledger
    <2> QED
      BY <1>0, <2>1, <2>3, <2>6, <2>7 DEF Ledger
  <1>2. CASE DaemonRefuses \/ DaemonCloses
    <2>1. bus # <<>> /\ bus' = Tail(bus) /\ ready' = ready /\ events' = events /\ fresh' = fresh
      BY <1>2 DEF DaemonRefuses, DaemonCloses, userVars, pastVars
    <2>2. CallAts(bus') \subseteq CallAts(bus) /\ CallsOnce(bus')
      BY <1>0, <2>1, CallsTail
    <2> QED
      BY <1>0, <2>1, <2>2, LedgerQuiet
  <1>3. ASSUME NEW n \in Nids, UserClicks(n) \/ PopupGoes(n) PROVE Ledger'
    <2>1. bus' = bus /\ ready' = ready /\ events' = events /\ fresh' = fresh
      BY <1>3 DEF UserClicks, PopupGoes, userVars, pastVars
    <2> QED
      BY <1>0, <2>1, LedgerQuiet
  <1> QED
    BY <1>1, <1>2, <1>3 DEF Outside

LEMMA LedgerStep ==
  ASSUME Types, Types', Ledger, [Next]_vars
  PROVE  Ledger'
  <1>0. CallsOnce(bus) /\ JobsOnce(ready)
    BY DEF Ledger
  <1>1. CASE StopBegins \/ StopEnds
    <2>1. Cancel(Task) \/ Cancel(Inline)
      BY <1>1 DEF StopBegins, StopEnds
    <2>2. events' = events /\ fresh' = fresh
      BY <1>1 DEF StopBegins, StopEnds, userVars, pastVars
    <2>3. /\ CallAts(bus') \subseteq CallAts(bus) /\ CallsOnce(bus')
          /\ JobAts(ready') \subseteq JobAts(ready) /\ JobsOnce(ready')
      <3>1. /\ CallAts(bus') = CallAts(bus) /\ (CallsOnce(bus) => CallsOnce(bus'))
            /\ JobAts(ready') \subseteq JobAts(ready) /\ (JobsOnce(ready) => JobsOnce(ready'))
        BY <2>1, CancelledAts, Zenon
      <3> QED
        BY <1>0, <3>1
    <2> QED
      BY <2>2, <2>3, LedgerQuiet
  <1>2. CASE StopClosesClient \/ UNCHANGED vars
    <2>1. bus' = bus /\ ready' = ready /\ events' = events /\ fresh' = fresh
      BY <1>2 DEF StopClosesClient, vars, loopVars, userVars, pastVars
    <2> QED
      BY <1>0, <2>1, LedgerQuiet
  <1> QED
    BY <1>1, <1>2, HubEventLedger, LoopLedger, OutsideLedger DEF Next, Stop

-----------------------------------------------------------------------------
(* Type correctness *)

LEMMA TypesImply ==
  ASSUME Types, Ledger
  PROVE  TypeOK
  <1>1. \A i \in DOMAIN ready : /\ ready[i].job \in Jobs /\ ready[i].nid \in Nids \cup {None}
                                /\ ready[i].ok \in BOOLEAN
    <2>1. \A i \in DOMAIN ready : ready[i] \in Entry
      BY DEF Types
    <2> QED
      BY <2>1 DEF Entry
  <1>2. \A i \in DOMAIN bus : /\ bus[i].then \in Jobs
                              /\ bus[i].op = "notify" => bus[i].face \in Face
                              /\ bus[i].op = "close" => bus[i].nid \in Nids
    <2>1. \A i \in DOMAIN bus : bus[i] \in Call
      BY DEF Types
    <2> QED
      BY <2>1, JobsMade DEF Call, Shown
  <1>3. \A i \in DOMAIN inbox :
          /\ inbox[i].kind \in {"reply", "action", "closed"}
          /\ inbox[i].kind = "reply" => inbox[i].then \in Jobs
          /\ inbox[i].kind = "action" => inbox[i].shown \in Subject
    <2>1. \A i \in DOMAIN inbox : inbox[i] \in Message
      BY DEF Types
    <2> QED
      BY <2>1, JobsMade DEF Message
  <1>4. fresh \in 1..MaxEvents + 1
    BY LedgerSuffices, SubscriberAssumption DEF Types, SubscriberAssumption
  <1>5. screen \in [Nids -> Face \cup {None}]
    BY DEF Types, Shown
  <1> QED
    BY <1>1, <1>2, <1>3, <1>4, <1>5 DEF Types, TypeOK

LEMMA InitTypes == Init => Types /\ Ledger
  <1> SUFFICES ASSUME Init PROVE Types /\ Ledger
    OBVIOUS
  <1>1. Types
    <2>1. 0 \in 0..MaxEvents
      BY SubscriberAssumption DEF SubscriberAssumption
    <2>2. ready \in Seq(Entry) /\ bus \in Seq(Call) /\ inbox \in Seq(Message)
      BY DEF Init
    <2>3. ended \in [Containers -> 0..MaxEvents] /\ events \in 0..MaxEvents
      BY <2>1 DEF Init
    <2>4. phase \in {"running", "draining", "closing", "stopped"} /\ handling \in BOOLEAN
      BY DEF Init
    <2>5. /\ pending \in [Requests -> Pending \cup {None}] /\ down \in [Containers -> Nids \cup {None}]
          /\ callbacks \in [Nids -> Click \cup {None}] /\ screen \in [Nids -> Shown \cup {None}]
          /\ announced \in [Requests -> Subject \cup {None}]
      BY DEF Init
    <2>6. fresh \in Nat \ {0}
      BY DEF Init
    <2> QED
      BY <2>2, <2>3, <2>4, <2>5, <2>6 DEF Types
  <1>2. CallsOnce(bus) /\ JobsOnce(ready) /\ CallAts(bus) = {} /\ JobAts(ready) = {}
    BY DEF Init, CallsOnce, JobsOnce, CallAts, JobAts
  <1>3. Cardinality(Done) \in Nat /\ fresh = 1
    BY <1>1, DoneCounted DEF Init
  <1> QED
    BY <1>1, <1>2, <1>3 DEF Ledger

\* Every variable keeps its type, whatever the daemon, the user and the hub do: in
\* particular the daemon has an id for every popup it is asked to show.
THEOREM SubscriberTypeCorrect == Spec => []TypeOK
  <1>1. Types /\ Ledger /\ [Next]_vars => (Types /\ Ledger)'
    BY LedgerSuffices, TypesStep, LedgerStep
  <1> QED
    BY <1>1, InitTypes, TypesImply, PTL DEF Spec

-----------------------------------------------------------------------------
(* A popup id belongs to one target *)

\* What says that popup n is about target t of container c: the record of a
\* prompt, its callback, the prompt on screen, a call that is to repost it, the
\* reply that gave it the id, a click on it, and the handler that resumes.
PendingSays(p, n, c, t) ==
  \E r \in Requests : /\ p[r] # None /\ p[r].nid = n
                      /\ p[r].container = c /\ p[r].target = t

CallbackSays(f, n, c, t) == f[n] # None /\ f[n].container = c /\ f[n].target = t

ScreenSays(f, n, c, t) ==
  f[n] # None /\ f[n].kind = "prompt" /\ f[n].container = c /\ f[n].target = t

Reposts(x, n, c, t) ==
  /\ x.op = "notify" /\ x.face.kind = "prompt" /\ x.nid = n /\ x.nid # None
  /\ x.face.container = c /\ x.face.target = t

Delivers(m, n, c, t) ==
  \/ /\ m.kind = "reply" /\ m.then.do = "prompted" /\ m.ok /\ m.nid = n
     /\ m.then.container = c /\ m.then.target = t
  \/ m.kind = "action" /\ m.nid = n /\ m.shown.container = c /\ m.shown.target = t

Resumes(e, n, c, t) ==
  /\ e.job.do = "prompted" /\ e.ok /\ e.nid = n
  /\ e.job.container = c /\ e.job.target = t

Elements(q) == {q[i] : i \in DOMAIN q}

Says(n, c, t) ==
  \/ PendingSays(pending, n, c, t)
  \/ CallbackSays(callbacks, n, c, t)
  \/ ScreenSays(screen, n, c, t)
  \/ \E x \in Elements(bus) : Reposts(x, n, c, t)
  \/ \E m \in Elements(inbox) : Delivers(m, n, c, t)
  \/ \E e \in Elements(ready) : Resumes(e, n, c, t)

\* All of them agree, and none speaks of an id that is still to be given out.
Agreement ==
  \A n \in Nids, c, d \in Containers, t, u \in Targets :
    Says(n, c, t) => n < fresh /\ (Says(n, d, u) => c = d /\ t = u)

LEMMA ElementsTail ==
  ASSUME NEW S, NEW q \in Seq(S), q # <<>>
  PROVE  Elements(Tail(q)) \subseteq Elements(q) /\ Head(q) \in Elements(q)
  BY TailElements DEF Elements

LEMMA ElementsAppend ==
  ASSUME NEW S, NEW q \in Seq(S), NEW x \in S
  PROVE  Elements(Append(q, x)) = Elements(q) \cup {x}
  <1>1. /\ Len(q) \in Nat /\ DOMAIN q = 1..Len(q) /\ DOMAIN Append(q, x) = 1..(Len(q) + 1)
        /\ Append(q, x)[Len(q) + 1] = x
        /\ \A i \in DOMAIN q : Append(q, x)[i] = q[i]
    BY AppendElements
  <1>2. DOMAIN Append(q, x) = DOMAIN q \cup {Len(q) + 1}
    BY <1>1
  <1> QED
    BY <1>1, <1>2 DEF Elements

\* What is in the mail.
LEMMA ElementsTyped ==
  Types => /\ Elements(ready) \subseteq Entry /\ Elements(bus) \subseteq Call
           /\ Elements(inbox) \subseteq Message
  BY DEF Types, Elements

\* Cancelling leaves the calls as they are but for the jobs that await them.
LEMMA CancelledElements ==
  ASSUME Types, Cancel(Task) \/ Cancel(Inline)
  PROVE  /\ \A e \in Elements(ready') : e \in Elements(ready) \/ e.job = Nothing
         /\ \A x \in Elements(bus') : \E y \in Elements(bus) :
              /\ x.op = y.op /\ x.nid = y.nid /\ x.face = y.face
              /\ x.then = y.then \/ x.then = Nothing
         /\ \A m \in Elements(inbox') :
              m \in Elements(inbox) \/ (m.kind = "reply" /\ m.then = Nothing)
  <1>1. Cancelling
    BY CancelCancels
  <1>2. /\ \A i \in DOMAIN ready : ready[i] \in Entry
        /\ \A i \in DOMAIN bus : bus[i] \in Call
        /\ \A i \in DOMAIN inbox : inbox[i] \in Message
    BY DEF Types
  <1>3. \A i \in DOMAIN ready' : i \in DOMAIN ready /\ (ready'[i] = ready[i] \/ ready'[i].job = Nothing)
    <2>1. \A e \in Entry : [e EXCEPT !.job = Nothing].job = Nothing
      BY CancelledMail
    <2>2. \A i \in DOMAIN ready' :
            i \in DOMAIN ready /\ ready'[i] \in {ready[i], [ready[i] EXCEPT !.job = Nothing]}
      BY <1>1 DEF Cancelling
    <2> QED
      BY <1>2, <2>1, <2>2, Zenon
  <1>4. \A i \in DOMAIN bus' :
          /\ i \in DOMAIN bus
          /\ bus'[i].op = bus[i].op /\ bus'[i].nid = bus[i].nid /\ bus'[i].face = bus[i].face
          /\ bus'[i].then = bus[i].then \/ bus'[i].then = Nothing
    <2>1. \A x \in Call : /\ [x EXCEPT !.then = Nothing].op = x.op
                          /\ [x EXCEPT !.then = Nothing].nid = x.nid
                          /\ [x EXCEPT !.then = Nothing].face = x.face
                          /\ [x EXCEPT !.then = Nothing].then = Nothing
      BY CancelledMail
    <2>2. \A i \in DOMAIN bus' :
            i \in DOMAIN bus /\ bus'[i] \in {bus[i], [bus[i] EXCEPT !.then = Nothing]}
      BY <1>1 DEF Cancelling
    <2> TAKE i \in DOMAIN bus'
    <2>3. i \in DOMAIN bus /\ bus[i] \in Call
      BY <1>2, <2>2
    <2>4. CASE bus'[i] = bus[i]
      BY <2>3, <2>4
    <2>5. CASE bus'[i] = [bus[i] EXCEPT !.then = Nothing]
      BY <2>1, <2>3, <2>5, Zenon
    <2> QED
      BY <2>2, <2>4, <2>5
  <1>5. \A i \in DOMAIN inbox' :
          /\ i \in DOMAIN inbox
          /\ inbox'[i] = inbox[i] \/ (inbox'[i].kind = "reply" /\ inbox'[i].then = Nothing)
    <2>1. \A m \in Message : m.kind = "reply" =>
            /\ [m EXCEPT !.then = Nothing].kind = "reply"
            /\ [m EXCEPT !.then = Nothing].then = Nothing
      BY CancelledMail
    <2>2. \A i \in DOMAIN inbox' :
            /\ i \in DOMAIN inbox
            /\ \/ inbox'[i] = inbox[i]
               \/ inbox[i].kind = "reply" /\ inbox'[i] = [inbox[i] EXCEPT !.then = Nothing]
      BY <1>1 DEF Cancelling
    <2> QED
      BY <1>2, <2>1, <2>2, Zenon
  <1>6. \A e \in Elements(ready') : e \in Elements(ready) \/ e.job = Nothing
    BY <1>3, Zenon DEF Elements
  <1>7. \A m \in Elements(inbox') :
          m \in Elements(inbox) \/ (m.kind = "reply" /\ m.then = Nothing)
    BY <1>5, Zenon DEF Elements
  <1>8. \A x \in Elements(bus') : \E y \in Elements(bus) :
          /\ x.op = y.op /\ x.nid = y.nid /\ x.face = y.face
          /\ x.then = y.then \/ x.then = Nothing
    BY <1>4 DEF Elements
  <1> QED
    BY <1>6, <1>7, <1>8

\* What is left of the records, the callbacks, the screen or the mail says nothing
\* new.
LEMMA FewerSay ==
  ASSUME Types, NEW n, NEW c, NEW t
  PROVE  /\ \A r \in Requests : PendingSays([pending EXCEPT ![r] = None], n, c, t)
                                => PendingSays(pending, n, c, t)
         /\ \A m \in Nids : n \in Nids /\ CallbackSays([callbacks EXCEPT ![m] = None], n, c, t)
                                => CallbackSays(callbacks, n, c, t)
         /\ \A m \in Nids : n \in Nids /\ ScreenSays([screen EXCEPT ![m] = None], n, c, t)
                                => ScreenSays(screen, n, c, t)
  BY DEF Types, PendingSays, CallbackSays, ScreenSays

\* A handler posts only under an id on record, and about its target.
LEMMA HubEventSays ==
  ASSUME Types, HubEvent, NEW n \in Nids, NEW c, NEW t, Says(n, c, t)'
  PROVE  Says(n, c, t)
  <1>0. bus \in Seq(Call) /\ ready \in Seq(Entry)
    BY DEF Types
  <1>1. ASSUME NEW d \in Containers, NEW u \in Targets, NEW r \in Requests, Blocked(d, u, r)
        PROVE  Says(n, c, t)
    <2>1. PICK call \in Call :
            /\ bus' = Append(bus, call) /\ call.op = "notify"
            /\ call.face.container = d /\ call.face.target = u
            /\ \/ call.nid = None
               \/ \E q \in OnTarget(d, u) : call.nid = pending[q].nid
      BY <1>1, BlockedCalls
    <2>2. Elements(bus') = Elements(bus) \cup {call}
      BY <1>0, <2>1, ElementsAppend
    <2>3. Reposts(call, n, c, t) => PendingSays(pending, n, c, t)
      BY <2>1 DEF Reposts, PendingSays, OnTarget
    <2>4. UNCHANGED <<pending, callbacks, screen, ready, inbox>>
      BY <1>1 DEF Blocked, stateVars, userVars
    <2> QED
      BY <2>2, <2>3, <2>4 DEF Says
  <1>2. ASSUME NEW r \in Requests, VerdictApplied(r)
        PROVE  Says(n, c, t)
    <2>1. PICK call \in Call :
            (bus' = Append(bus, call) \/ bus' = bus) /\ call.face.kind = "outcome"
      BY <1>2, VerdictCalls
    <2>2. Elements(bus') \subseteq Elements(bus) \cup {call}
      <3>1. Elements(Append(bus, call)) = Elements(bus) \cup {call}
        BY <1>0, ElementsAppend
      <3> QED
        BY <2>1, <3>1
    <2>3. ~Reposts(call, n, c, t)
      BY <2>1 DEF Reposts
    <2>4. PendingSays(pending', n, c, t) => PendingSays(pending, n, c, t)
      BY <1>2, FewerSay DEF VerdictApplied, Put
    <2>5. UNCHANGED <<callbacks, screen, ready, inbox>>
      BY <1>2 DEF VerdictApplied, userVars
    <2> QED
      BY <2>2, <2>3, <2>4, <2>5 DEF Says
  <1>3. ASSUME NEW d \in Containers, ShieldDown(d) \/ ShieldUp(d) \/ ContainerExited(d)
        PROVE  Says(n, c, t)
    <2>1. PICK j \in Jobs :
            /\ j.do \in {"purge", "retract"}
            /\ \/ ready' = Append(ready, Started(j))
               \/ \E k \in Jobs :
                    /\ k.do = "alert"
                    /\ ready' = Append(Append(ready, Started(j)), Started(k))
      BY <1>3, LifecycleTasks
    <2>2. \A e \in Elements(ready') : e \in Elements(ready) \/ e.job.do # "prompted"
      <3> DEFINE one == Append(ready, Started(j))
      <3>1. Started(j) \in Entry /\ Started(j).job = j
        BY <2>1, StartedIsEntry
      <3>2. one \in Seq(Entry) /\ Elements(one) = Elements(ready) \cup {Started(j)}
        BY <1>0, <3>1, AppendElements, ElementsAppend
      <3> HIDE DEF one
      <3>3. ASSUME NEW k \in Jobs, k.do = "alert", ready' = Append(one, Started(k))
            PROVE  \A e \in Elements(ready') : e \in Elements(ready) \/ e.job.do # "prompted"
        <4>1. Started(k) \in Entry /\ Started(k).job = k
          BY <3>3, StartedIsEntry
        <4>2. Elements(ready') = Elements(one) \cup {Started(k)}
          BY <3>2, <3>3, <4>1, ElementsAppend
        <4> QED
          BY <2>1, <3>1, <3>2, <3>3, <4>1, <4>2
      <3>4. CASE ready' = one
        BY <2>1, <3>1, <3>2, <3>4
      <3> QED
        BY <2>1, <3>3, <3>4 DEF one
    <2>3. \A e \in Elements(ready') : Resumes(e, n, c, t) => e \in Elements(ready)
      BY <2>2 DEF Resumes
    <2>4. UNCHANGED <<pending, callbacks, screen, bus, inbox>>
      BY <1>3 DEF ShieldDown, ShieldUp, ContainerExited, stateVars, userVars
    <2> QED
      BY <2>3, <2>4 DEF Says
  <1> QED
    BY <1>1, <1>2, <1>3 DEF HubEvent

\* A job that is run says what it said as a job.
LEMMA RunSays ==
  ASSUME Types, NEW n \in Nids, NEW c, NEW t, Says(n, c, t)',
         RunPrompted \/ RunReported \/ RunPurge \/ RunAlert \/ RunAlerted
         \/ RunRetract \/ RunSend \/ RunCancelled
  PROVE  Says(n, c, t)
  <1>1. /\ ready # <<>> /\ ready' = Tail(ready) /\ ready \in Seq(Entry) /\ bus \in Seq(Call)
        /\ UNCHANGED <<screen, inbox>>
    BY DEF RunPrompted, RunReported, RunPurge, RunAlert, RunAlerted, RunRetract, RunSend,
           RunCancelled, Running, userVars, Types
  <1>2. Elements(ready') \subseteq Elements(ready) /\ Head(ready) \in Elements(ready)
    BY <1>1, ElementsTail
  <1>3. ASSUME PendingSays(pending', n, c, t) => Says(n, c, t),
               CallbackSays(callbacks', n, c, t) => Says(n, c, t),
               \A x \in Elements(bus') : Reposts(x, n, c, t) => x \in Elements(bus)
        PROVE  Says(n, c, t)
    BY <1>1, <1>2, <1>3 DEF Says
  <1>4. ASSUME UNCHANGED <<pending, callbacks, bus>>
        PROVE  Says(n, c, t)
    BY <1>3, <1>4 DEF Says
  <1>5. ASSUME NEW m \in Nids, NEW j \in Awaited, j.do # "prompted", Close(m, j),
               PendingSays(pending', n, c, t) => PendingSays(pending, n, c, t)
        PROVE  Says(n, c, t)
    <2>1. PICK call \in Call : call.op = "close" /\ bus' = Append(bus, call)
      BY <1>5, CloseTypes
    <2>2. callbacks' = [callbacks EXCEPT ![m] = None]
      BY <1>5, CloseTypes
    <2>3. \A x \in Elements(bus') : Reposts(x, n, c, t) => x \in Elements(bus)
      BY <1>1, <2>1, ElementsAppend DEF Reposts
    <2>4. CallbackSays(callbacks', n, c, t) => CallbackSays(callbacks, n, c, t)
      BY <2>2, FewerSay
    <2> QED
      BY <1>3, <1>5, <2>3, <2>4 DEF Says
  <1>6. CASE RunPrompted
    <2>1. bus' = bus
      BY <1>6 DEF RunPrompted
    <2>2. CASE ~Head(ready).ok
      BY <1>4, <1>6, <2>1, <2>2 DEF RunPrompted
    <2>3. CASE Head(ready).ok
      <3> DEFINE m == Head(ready).nid
      <3>1. Job \in Jobs /\ Job.do = "prompted" /\ m \in Nids /\ Job = Head(ready).job
        BY <1>6, <2>3, RunHead DEF RunPrompted, Job
      <3>2. Job.id \in Requests /\ Job.prior \in Requests \cup {None}
        BY <3>1, JobFields
      <3>3. n = m /\ c = Job.container /\ t = Job.target => Resumes(Head(ready), n, c, t)
        BY <2>3, <3>1 DEF Resumes
      <3>4. CallbackSays(callbacks', n, c, t) =>
              \/ CallbackSays(callbacks, n, c, t)
              \/ n = m /\ c = Job.container /\ t = Job.target
        BY <1>6, <2>3, <3>1 DEF RunPrompted, FilePrompt, Put, CallbackSays, Types
      <3>5. PendingSays(pending', n, c, t) =>
              \/ PendingSays(pending, n, c, t)
              \/ n = m /\ c = Job.container /\ t = Job.target
        <4> DEFINE kept == IF Job.prior = None THEN pending ELSE [pending EXCEPT ![Job.prior] = None]
        <4>1. kept \in [Requests -> Pending \cup {None}]
              /\ \A r \in Requests : kept[r] # None => kept[r] = pending[r]
          BY <3>2 DEF Types
        <4>2. pending' = [kept EXCEPT ![Job.id] = [nid |-> m, container |-> Job.container,
                                                   target |-> Job.target]]
          BY <1>6, <2>3 DEF RunPrompted, FilePrompt, Put
        <4> HIDE DEF kept, m
        <4> QED
          BY <3>2, <4>1, <4>2 DEF PendingSays
      <3> QED
        BY <1>2, <1>3, <2>1, <3>3, <3>4, <3>5 DEF Says
    <2> QED
      BY <2>2, <2>3
  <1>7. CASE RunReported \/ RunAlerted \/ RunSend \/ RunCancelled
    BY <1>4, <1>7 DEF RunReported, RunAlerted, RunSend, RunCancelled, stateVars
  <1>8. CASE RunPurge
    <2>1. CASE \E stale \in Stale, j \in Awaited :
                 /\ j.do = "purge" /\ Close(stale.nid, j)
                 /\ pending' = [pending EXCEPT ![stale.id] = None]
      <3>1. PICK stale \in Stale, j \in Awaited :
                 /\ j.do = "purge" /\ Close(stale.nid, j)
                 /\ pending' = [pending EXCEPT ![stale.id] = None]
        BY <2>1
      <3>2. stale.nid \in Nids /\ stale.id \in Requests
        BY DEF Stale
      <3>3. PendingSays(pending', n, c, t) => PendingSays(pending, n, c, t)
        BY <3>1, <3>2, FewerSay
      <3> QED
        BY <1>5, <3>1, <3>2, <3>3
    <2>2. CASE down[Job.container] # None /\ Close(down[Job.container], Nothing) /\ UNCHANGED pending
      <3>1. Job.container \in Containers
        BY <1>8, PurgeRuns
      <3>2. down[Job.container] \in Nids /\ Nothing \in Awaited /\ Nothing.do = "nothing"
        BY <2>2, <3>1, JobsMade DEF Types, Nothing
      <3> QED
        BY <1>5, <2>2, <3>2
    <2>3. CASE UNCHANGED <<stateVars, bus>>
      BY <1>4, <2>3 DEF stateVars
    <2> QED
      BY <1>8, <2>1, <2>2, <2>3, PurgeRuns
  <1>9. CASE RunRetract
    <2>1. CASE down[Job.container] # None
      <3>1. Job \in Jobs /\ Job.do = "retract"
        BY <1>9, RunHead DEF RunRetract
      <3>2. Job.container \in Containers
        BY <3>1, JobFields
      <3>3. down[Job.container] \in Nids /\ Nothing \in Awaited /\ Nothing.do = "nothing"
        BY <2>1, <3>2, JobsMade DEF Types, Nothing
      <3>4. Close(down[Job.container], Nothing) /\ UNCHANGED pending
        BY <1>9, <2>1 DEF RunRetract
      <3> QED
        BY <1>5, <3>3, <3>4
    <2>2. CASE down[Job.container] = None
      BY <1>4, <1>9, <2>2 DEF RunRetract
    <2> QED
      BY <2>1, <2>2
  <1>10. CASE RunAlert
    <2>1. PICK call \in Call : bus' = Append(bus, call) /\ call.face.kind = "alert"
      BY <1>10, AlertCalls
    <2>2. \A x \in Elements(bus') : Reposts(x, n, c, t) => x \in Elements(bus)
      BY <1>1, <2>1, ElementsAppend DEF Reposts
    <2>3. UNCHANGED <<pending, callbacks>>
      BY <1>10 DEF RunAlert, stateVars
    <2> QED
      BY <1>3, <2>2, <2>3 DEF Says
  <1> QED
    BY <1>6, <1>7, <1>8, <1>9, <1>10

\* A job resumes on the id its reply brings; a click says nothing new.
LEMMA ReceiveSays ==
  ASSUME Types, NEW n \in Nids, NEW c, NEW t, Says(n, c, t)',
         ReceiveReply \/ ReceiveAction \/ ReceiveClosed
  PROVE  Says(n, c, t)
  <1>1. /\ inbox # <<>> /\ inbox' = Tail(inbox) /\ ready \in Seq(Entry) /\ inbox \in Seq(Message)
        /\ UNCHANGED <<pending, bus, screen>>
    BY DEF ReceiveReply, ReceiveAction, ReceiveClosed, stateVars, userVars, Types
  <1>2. Elements(inbox') \subseteq Elements(inbox) /\ Head(inbox) \in Elements(inbox)
    BY <1>1, ElementsTail
  <1>3. CASE ReceiveReply
    <2>1. callbacks' = callbacks
      BY <1>3 DEF ReceiveReply, stateVars
    <2>2. CASE ready' = ready
      BY <1>1, <1>2, <2>1, <2>2 DEF Says
    <2>3. ASSUME NEW e \in Entry, ready' = Append(ready, e),
                 e.job = Head(inbox).then, e.nid = Head(inbox).nid, e.ok = Head(inbox).ok
          PROVE  Says(n, c, t)
      <3>1. Elements(ready') = Elements(ready) \cup {e}
        BY <1>1, <2>3, ElementsAppend
      <3>2. Head(inbox).kind = "reply"
        BY <1>3 DEF ReceiveReply
      <3>3. Resumes(e, n, c, t) => Delivers(Head(inbox), n, c, t)
        BY <2>3, <3>2 DEF Resumes, Delivers
      <3> QED
        BY <1>1, <1>2, <2>1, <3>1, <3>3 DEF Says
    <2> QED
      BY <1>3, <2>2, <2>3, ReplyResumes
  <1>4. CASE ReceiveAction
    <2>1. callbacks' = callbacks
      BY <1>4 DEF ReceiveAction, stateVars
    <2>2. CASE ready' = ready
      BY <1>1, <1>2, <2>1, <2>2 DEF Says
    <2>3. ASSUME NEW j \in Jobs, j.do = "send", ready' = Append(ready, Started(j))
          PROVE  Says(n, c, t)
      <3>1. Started(j) \in Entry /\ Started(j).job = j
        BY <2>3, StartedIsEntry
      <3>2. Elements(ready') = Elements(ready) \cup {Started(j)}
        BY <1>1, <2>3, <3>1, ElementsAppend
      <3>3. ~Resumes(Started(j), n, c, t)
        BY <2>3, <3>1 DEF Resumes
      <3> QED
        BY <1>1, <1>2, <2>1, <3>2, <3>3 DEF Says
    <2> QED
      BY <1>4, <2>2, <2>3, ClickSends
  <1>5. CASE ReceiveClosed
    <2>1. ready' = ready /\ callbacks' = [callbacks EXCEPT ![Head(inbox).nid] = None]
          /\ Head(inbox).nid \in Nids
      BY <1>5, InboxHead DEF ReceiveClosed, Put
    <2>2. CallbackSays(callbacks', n, c, t) => CallbackSays(callbacks, n, c, t)
      BY <2>1, FewerSay
    <2> QED
      BY <1>1, <1>2, <2>1, <2>2 DEF Says
  <1> QED
    BY <1>3, <1>4, <1>5

\* The id a popup is shown under is the one it was to replace, or a fresh one.
LEMMA PostSays ==
  ASSUME Types, FreshSuffices, DaemonPosts, NEW n \in Nids, NEW c, NEW t, Says(n, c, t)'
  PROVE  \/ Says(n, c, t)
         \/ /\ n = fresh /\ fresh' = fresh + 1
            /\ c = Head(bus).face.container /\ t = Head(bus).face.target
  <1>1. bus # <<>> /\ Head(bus).op = "notify" /\ bus' = Tail(bus)
    BY PostReplies
  <1>2. PICK k \in Nids, m \in Message :
          /\ k = IF Head(bus).nid = None THEN fresh ELSE Head(bus).nid
          /\ screen' = [screen EXCEPT ![k] = Head(bus).face]
          /\ m.kind = "reply" /\ m.then = Head(bus).then /\ m.nid = k
          /\ inbox' = Append(inbox, m)
    BY PostReplies
  <1>3. /\ Elements(bus') \subseteq Elements(bus) /\ Head(bus) \in Elements(bus)
        /\ Elements(inbox') = Elements(inbox) \cup {m}
    BY <1>1, <1>2, ElementsTail, ElementsAppend DEF Types
  <1>4. UNCHANGED <<pending, callbacks, ready>>
    BY DEF DaemonPosts, stateVars
  <1>5. Head(bus) \in Call
    BY <1>1, BusHead
  <1>6. DEFINE its == /\ n = k /\ Head(bus).face.kind = "prompt"
                      /\ c = Head(bus).face.container /\ t = Head(bus).face.target
  <1>7. ScreenSays(screen', n, c, t) => ScreenSays(screen, n, c, t) \/ its
    BY <1>2 DEF ScreenSays, Types
  <1>8. Delivers(m, n, c, t) => its
    BY <1>2, <1>5 DEF Delivers, Call
  <1>9. its /\ Head(bus).nid # None => Reposts(Head(bus), n, c, t)
    BY <1>1, <1>2 DEF Reposts
  <1>10. its /\ Head(bus).nid = None => n = fresh /\ fresh' = fresh + 1
    BY <1>2 DEF DaemonPosts
  <1>11. Says(n, c, t) \/ its
    <2> HIDE DEF its
    <2> QED
      BY <1>3, <1>4, <1>7, <1>8 DEF Says
  <1> QED
    BY <1>3, <1>9, <1>10, <1>11 DEF Says

LEMMA OutsideSays ==
  ASSUME Types, Outside, ~DaemonPosts, NEW n \in Nids, NEW c, NEW t, Says(n, c, t)'
  PROVE  Says(n, c, t)
  <1>0. bus \in Seq(Call) /\ inbox \in Seq(Message)
    BY DEF Types
  <1>1. CASE DaemonRefuses
    <2>1. /\ bus # <<>> /\ bus' = Tail(bus) /\ inbox' = Append(inbox, Reply(None, FALSE))
          /\ UNCHANGED <<pending, callbacks, screen, ready>>
      BY <1>1 DEF DaemonRefuses, stateVars, userVars
    <2>2. PICK m \in Message : m = Reply(None, FALSE) /\ ~Delivers(m, n, c, t)
      <3>1. Reply(None, FALSE) \in Message
        BY <2>1, BusHead DEF Reply, Message
      <3>2. ~Delivers(Reply(None, FALSE), n, c, t)
        BY DEF Reply, Delivers
      <3> QED
        BY <3>1, <3>2
    <2>3. /\ Elements(bus') \subseteq Elements(bus)
          /\ Elements(inbox') = Elements(inbox) \cup {m}
      <3>1. Elements(bus') \subseteq Elements(bus)
        BY <1>0, <2>1, ElementsTail
      <3>2. Elements(Append(inbox, m)) = Elements(inbox) \cup {m}
        BY <1>0, ElementsAppend
      <3> QED
        BY <2>1, <2>2, <3>1, <3>2
    <2> QED
      BY <2>1, <2>2, <2>3 DEF Says
  <1>2. CASE DaemonCloses
    <2>1. PICK k, m \in Message :
            /\ k.kind = "closed" /\ m.kind = "reply" /\ m.then.do # "prompted"
            /\ inbox' = Append(inbox, m) \/ inbox' = Append(Append(inbox, k), m)
      BY <1>2, CloseReplies
    <2>2. /\ bus # <<>> /\ bus' = Tail(bus) /\ Head(bus).nid \in Nids
          /\ screen' = [screen EXCEPT ![Head(bus).nid] = None]
      BY <1>2, CloseReplies
    <2>3. UNCHANGED <<pending, callbacks, ready>>
      BY <1>2 DEF DaemonCloses, stateVars
    <2>4. Elements(inbox') \subseteq Elements(inbox) \cup {k, m}
      <3>1. Append(inbox, k) \in Seq(Message) /\ Elements(Append(inbox, k)) = Elements(inbox) \cup {k}
        BY <1>0, AppendElements, ElementsAppend
      <3>2. Elements(Append(inbox, m)) = Elements(inbox) \cup {m}
        BY <1>0, ElementsAppend
      <3> DEFINE one == Append(inbox, k)
      <3>3. Elements(Append(one, m)) = Elements(one) \cup {m}
        <4>1. one \in Seq(Message)
          BY <3>1
        <4> HIDE DEF one
        <4> QED
          BY <4>1, ElementsAppend
      <3> QED
        BY <2>1, <3>1, <3>2, <3>3
    <2>5. ~Delivers(k, n, c, t) /\ ~Delivers(m, n, c, t)
      BY <2>1 DEF Delivers
    <2>6. Elements(bus') \subseteq Elements(bus)
      BY <1>0, <2>2, ElementsTail
    <2>7. ScreenSays(screen', n, c, t) => ScreenSays(screen, n, c, t)
      BY <2>2, FewerSay
    <2> QED
      BY <2>3, <2>4, <2>5, <2>6, <2>7 DEF Says
  <1>3. ASSUME NEW k \in Nids, UserClicks(k) PROVE Says(n, c, t)
    <2> DEFINE m == [kind |-> "action", nid |-> k,
                     shown |-> [container |-> screen[k].container, target |-> screen[k].target]]
    <2>1. screen[k] \in Shown /\ screen[k].kind = "prompt" /\ screen[k] # None
      BY <1>3 DEF UserClicks, Types
    <2>2. m \in Message
      BY <2>1 DEF Shown, Face, Message, Subject
    <2>3. inbox' = Append(inbox, m)
      BY <1>3 DEF UserClicks
    <2>4. Delivers(m, n, c, t) => ScreenSays(screen, n, c, t)
      BY <2>1 DEF Delivers, ScreenSays
    <2> HIDE DEF m
    <2>5. Elements(inbox') = Elements(inbox) \cup {m}
      BY <1>0, <2>2, <2>3, ElementsAppend
    <2>6. UNCHANGED <<pending, callbacks, screen, bus, ready>>
      BY <1>3 DEF UserClicks, stateVars, userVars
    <2> QED
      BY <2>4, <2>5, <2>6 DEF Says
  <1>4. ASSUME NEW k \in Nids, PopupGoes(k) PROVE Says(n, c, t)
    <2> DEFINE m == [kind |-> "closed", nid |-> k]
    <2>1. m \in Message /\ ~Delivers(m, n, c, t)
      BY DEF Message, Delivers
    <2>2. inbox' = Append(inbox, m) /\ screen' = [screen EXCEPT ![k] = None]
      BY <1>4 DEF PopupGoes, Put
    <2> HIDE DEF m
    <2>3. Elements(inbox') = Elements(inbox) \cup {m}
      BY <1>0, <2>1, <2>2, ElementsAppend
    <2>4. ScreenSays(screen', n, c, t) => ScreenSays(screen, n, c, t)
      BY <2>2, FewerSay
    <2>5. UNCHANGED <<pending, callbacks, bus, ready>>
      BY <1>4 DEF PopupGoes, stateVars
    <2> QED
      BY <2>1, <2>3, <2>4, <2>5 DEF Says
  <1> QED
    BY <1>1, <1>2, <1>3, <1>4 DEF Outside

LEMMA StopSays ==
  ASSUME Types, Stop, NEW n \in Nids, NEW c, NEW t, Says(n, c, t)'
  PROVE  Says(n, c, t)
  <1>1. CASE StopBegins \/ StopEnds
    <2>1. Cancel(Task) \/ Cancel(Inline)
      BY <1>1 DEF StopBegins, StopEnds
    <2>2. UNCHANGED <<callbacks, screen>>
      BY <1>1 DEF StopBegins, StopEnds, stateVars, userVars
    <2>3. PendingSays(pending', n, c, t) => PendingSays(pending, n, c, t)
      BY <1>1 DEF StopBegins, StopEnds, stateVars, PendingSays
    <2>4. \A e \in Elements(ready') : Resumes(e, n, c, t) => e \in Elements(ready)
      <3>1. \A e \in Elements(ready') : e \in Elements(ready) \/ e.job = Nothing
        BY <2>1, CancelledElements
      <3> QED
        BY <3>1 DEF Resumes, Nothing
    <2>5. \A x \in Elements(bus') : Reposts(x, n, c, t) =>
            \E y \in Elements(bus) : Reposts(y, n, c, t)
      <3>1. \A x \in Elements(bus') : \E y \in Elements(bus) :
              x.op = y.op /\ x.nid = y.nid /\ x.face = y.face
        BY <2>1, CancelledElements
      <3> QED
        BY <3>1 DEF Reposts
    <2>6. \A m \in Elements(inbox') : Delivers(m, n, c, t) => m \in Elements(inbox)
      <3>1. \A m \in Elements(inbox') :
              m \in Elements(inbox) \/ (m.kind = "reply" /\ m.then = Nothing)
        BY <2>1, CancelledElements
      <3> QED
        BY <3>1 DEF Delivers, Nothing
    <2> QED
      BY <2>2, <2>3, <2>4, <2>5, <2>6 DEF Says
  <1>2. CASE StopClosesClient
    BY <1>2 DEF StopClosesClient, stateVars, loopVars, userVars, Says
  <1> QED
    BY <1>1, <1>2 DEF Stop

LEMMA AgreementStep ==
  ASSUME Types, Types', FreshSuffices, Agreement, [Next]_vars
  PROVE  Agreement'
  <1>1. fresh <= fresh'
    <2>1. fresh' = fresh \/ fresh' = fresh + 1
      BY DEF Next, HubEvent, Loop, Outside, Stop, vars, Blocked, VerdictApplied, ShieldDown, ShieldUp,
             ContainerExited, RunPrompted, RunReported, RunPurge, RunAlert, RunAlerted, RunRetract,
             RunSend, RunCancelled, ReceiveReply, ReceiveAction, ReceiveClosed, DaemonPosts,
             DaemonRefuses, DaemonCloses, UserClicks, PopupGoes, StopBegins, StopClosesClient,
             StopEnds, userVars
    <2> QED
      BY <2>1 DEF Types
  <1>2. CASE ~DaemonPosts
    <2>1. ASSUME NEW n \in Nids, NEW c, NEW t, Says(n, c, t)'
          PROVE  Says(n, c, t)
      <3>1. CASE Loop
        BY <2>1, <3>1, RunSays, ReceiveSays DEF Loop
      <3>2. CASE UNCHANGED vars
        BY <2>1, <3>2 DEF vars, Says
      <3> QED
        BY <1>2, <2>1, <3>1, <3>2, HubEventSays, OutsideSays, StopSays DEF Next
    <2>2. \A n \in Nids : n \in Nat /\ (n < fresh => n < fresh')
      BY <1>1, SubscriberAssumption DEF Nids, Types, SubscriberAssumption
    <2> QED
      BY <2>1, <2>2 DEF Agreement
  <1>3. CASE DaemonPosts
    <2>1. \A n \in Nids : \A c, t : Says(n, c, t)' =>
            \/ Says(n, c, t)
            \/ /\ n = fresh /\ fresh' = fresh + 1
               /\ c = Head(bus).face.container /\ t = Head(bus).face.target
      BY <1>3, PostSays
    <2>2. \A n \in Nids : /\ n \in Nat /\ (n < fresh => n < fresh' /\ n # fresh)
                          /\ (n = fresh /\ fresh' = fresh + 1 => n < fresh')
      BY <1>1, SubscriberAssumption DEF Nids, Types, SubscriberAssumption
    <2>3. ASSUME NEW n \in Nids, NEW c \in Containers, NEW d \in Containers,
                 NEW t \in Targets, NEW u \in Targets, Says(n, c, t)'
          PROVE  n < fresh' /\ (Says(n, d, u)' => c = d /\ t = u)
      <3>1. Says(n, c, t) => n < fresh /\ (Says(n, d, u) => c = d /\ t = u)
        BY DEF Agreement
      <3>2. Says(n, d, u) => n < fresh
        BY DEF Agreement
      <3> QED
        BY <2>1, <2>2, <2>3, <3>1, <3>2
    <2> QED
      BY <2>3 DEF Agreement
  <1> QED
    BY <1>2, <1>3

-----------------------------------------------------------------------------
(* A verdict cites a request announced for the target of its popup *)

Backed(a, j) == a[j.id] = [container |-> j.container, target |-> j.target]

EntryCites(a, e) ==
  /\ e.job.do = "prompted" => Backed(a, e.job)
  /\ e.job.do = "send" => /\ e.job.click.container = e.job.shown.container
                          /\ e.job.click.target = e.job.shown.target
                          /\ a[e.job.click.id] = e.job.shown

CallCites(a, x) == x.then.do = "prompted" => Backed(a, x.then)

MessageCites(a, m) == m.kind = "reply" /\ m.then.do = "prompted" => Backed(a, m.then)

\* Whoever is to send a verdict, or to make the callback that does, cites a request
\* announced for its target.
Cited ==
  /\ \A e \in Elements(ready) : EntryCites(announced, e)
  /\ \A x \in Elements(bus) : CallCites(announced, x)
  /\ \A m \in Elements(inbox) : MessageCites(announced, m)
  /\ \A n \in Nids : callbacks[n] # None => Backed(announced, callbacks[n])
  /\ \A v \in sent : v.click \in Click /\ v.shown \in Subject

\* A request stays announced for its target.
LEMMA AnnouncedStays ==
  ASSUME Types, [Next]_vars, NEW r \in Requests, NEW w \in Subject, announced[r] = w
  PROVE  announced'[r] = w
  <1>1. ASSUME NEW c \in Containers, NEW t \in Targets, NEW q \in Requests, Blocked(c, t, q)
        PROVE  announced'[r] = w
    <2>1. announced' = [announced EXCEPT ![q] = [container |-> c, target |-> t]]
      BY <1>1 DEF Blocked, Put
    <2>2. announced[q] = None \/ announced[q] = [container |-> c, target |-> t]
      BY <1>1 DEF Blocked
    <2> QED
      BY <2>1, <2>2, SubjectAssumption DEF SubjectAssumption, Types
  <1>2. CASE announced' = announced
    BY <1>2
  <1> QED
    BY <1>1, <1>2
    DEF Next, HubEvent, Loop, Outside, Stop, vars, VerdictApplied, ShieldDown, ShieldUp,
        ContainerExited, RunPrompted, RunReported, RunPurge, RunAlert, RunAlerted, RunRetract,
        RunSend, RunCancelled, ReceiveReply, ReceiveAction, ReceiveClosed, DaemonPosts,
        DaemonRefuses, DaemonCloses, UserClicks, PopupGoes, StopBegins, StopClosesClient,
        StopEnds, pastVars

\* What has been cited is cited as well after a step.
LEMMA StillCited ==
  ASSUME Types, [Next]_vars, Cited
  PROVE  /\ \A e \in Elements(ready) : EntryCites(announced', e)
         /\ \A x \in Elements(bus) : CallCites(announced', x)
         /\ \A m \in Elements(inbox) : MessageCites(announced', m)
         /\ \A n \in Nids : callbacks[n] # None => Backed(announced', callbacks[n])
  <1>1. ASSUME NEW j \in Click, Backed(announced, j) PROVE Backed(announced', j)
    <2>1. j.id \in Requests /\ [container |-> j.container, target |-> j.target] \in Subject
      BY DEF Click, Subject
    <2> QED
      BY <1>1, <2>1, AnnouncedStays DEF Backed
  <1>2. ASSUME NEW j \in Jobs, j.do = "prompted", Backed(announced, j) PROVE Backed(announced', j)
    <2>1. j.id \in Requests /\ [container |-> j.container, target |-> j.target] \in Subject
      BY <1>2, JobFields DEF Subject
    <2> QED
      BY <1>2, <2>1, AnnouncedStays DEF Backed
  <1>3. ASSUME NEW e \in Elements(ready) PROVE EntryCites(announced', e)
    <2>1. e.job \in Jobs /\ EntryCites(announced, e)
      BY ElementsTyped DEF Entry, Cited
    <2>2. e.job.do = "prompted" => Backed(announced', e.job)
      BY <1>2, <2>1 DEF EntryCites
    <2>3. ASSUME e.job.do = "send"
          PROVE  announced'[e.job.click.id] = e.job.shown
      <3>1. e.job.click.id \in Requests /\ e.job.shown \in Subject
        BY <2>1, <2>3, JobFields DEF Click
      <3> QED
        BY <2>1, <2>3, <3>1, AnnouncedStays DEF EntryCites
    <2> QED
      BY <2>1, <2>2, <2>3 DEF EntryCites
  <1>4. ASSUME NEW x \in Elements(bus) PROVE CallCites(announced', x)
    <2>1. x.then \in Jobs /\ CallCites(announced, x)
      BY ElementsTyped, JobsMade DEF Call, Cited
    <2> QED
      BY <1>2, <2>1 DEF CallCites
  <1>5. ASSUME NEW m \in Elements(inbox) PROVE MessageCites(announced', m)
    <2>1. m.kind = "reply" => m.then \in Jobs
      BY ElementsTyped, JobsMade DEF Message
    <2>2. MessageCites(announced, m)
      BY DEF Cited
    <2> QED
      BY <1>2, <2>1, <2>2 DEF MessageCites
  <1>6. \A n \in Nids : callbacks[n] # None => Backed(announced', callbacks[n])
    <2>1. \A n \in Nids : callbacks[n] # None => Backed(announced, callbacks[n]) /\ callbacks[n] \in Click
      BY DEF Cited, Types
    <2> QED
      BY <1>1, <2>1
  <1> QED
    BY <1>3, <1>4, <1>5, <1>6

\* What is new in a step is cited too.
LEMMA CitedIf ==
  ASSUME Types, [Next]_vars, Cited,
         \A e \in Elements(ready') : e \in Elements(ready) \/ EntryCites(announced', e),
         \A x \in Elements(bus') : x \in Elements(bus) \/ CallCites(announced', x),
         \A m \in Elements(inbox') : m \in Elements(inbox) \/ MessageCites(announced', m),
         \A n \in Nids : callbacks'[n] \in {None, callbacks[n]} \/ Backed(announced', callbacks'[n]),
         \A v \in sent' : v \in sent \/ (v.click \in Click /\ v.shown \in Subject)
  PROVE  Cited'
  <1>1. \A n \in Nids : callbacks'[n] # None => Backed(announced', callbacks'[n])
    BY StillCited
  <1> QED
    BY <1>1, StillCited DEF Cited

LEMMA HubEventCited ==
  ASSUME Types, HubEvent, Cited
  PROVE  Cited'
  <1>0. bus \in Seq(Call) /\ ready \in Seq(Entry) /\ [Next]_vars
    BY DEF Types, Next
  <1>1. ASSUME NEW d \in Containers, NEW u \in Targets, NEW r \in Requests, Blocked(d, u, r)
        PROVE  Cited'
    <2>1. PICK call \in Call :
            /\ bus' = Append(bus, call) /\ call.then.do = "prompted" /\ call.then.id = r
            /\ call.face.container = d /\ call.face.target = u
      BY <1>1, BlockedCalls
    <2>2. call.then.container = d /\ call.then.target = u
      BY <2>1 DEF Call
    <2>3. announced'[r] = [container |-> d, target |-> u]
      BY <1>1 DEF Blocked, Put, Types
    <2>4. CallCites(announced', call)
      BY <2>1, <2>2, <2>3 DEF CallCites, Backed
    <2>5. Elements(bus') = Elements(bus) \cup {call}
      BY <1>0, <2>1, ElementsAppend
    <2>6. UNCHANGED <<callbacks, ready, inbox, sent>>
      BY <1>1 DEF Blocked, stateVars
    <2> QED
      BY <1>0, <2>4, <2>5, <2>6, CitedIf
  <1>2. ASSUME NEW r \in Requests, VerdictApplied(r)
        PROVE  Cited'
    <2>1. PICK call \in Call :
            (bus' = Append(bus, call) \/ bus' = bus) /\ call.then.do = "reported"
      BY <1>2, VerdictCalls
    <2>2. Elements(bus') \subseteq Elements(bus) \cup {call}
      <3>1. Elements(Append(bus, call)) = Elements(bus) \cup {call}
        BY <1>0, ElementsAppend
      <3> QED
        BY <2>1, <3>1
    <2>3. CallCites(announced', call)
      BY <2>1 DEF CallCites
    <2>4. UNCHANGED <<callbacks, ready, inbox, sent>>
      BY <1>2 DEF VerdictApplied
    <2> QED
      BY <1>0, <2>2, <2>3, <2>4, CitedIf
  <1>3. ASSUME NEW d \in Containers, ShieldDown(d) \/ ShieldUp(d) \/ ContainerExited(d)
        PROVE  Cited'
    <2>1. PICK j \in Jobs :
            /\ j.do \in {"purge", "retract"}
            /\ \/ ready' = Append(ready, Started(j))
               \/ \E k \in Jobs :
                    /\ k.do = "alert"
                    /\ ready' = Append(Append(ready, Started(j)), Started(k))
      BY <1>3, LifecycleTasks
    <2>2. \A e \in Elements(ready') : e \in Elements(ready) \/ e.job.do \notin {"prompted", "send"}
      <3> DEFINE one == Append(ready, Started(j))
      <3>1. Started(j) \in Entry /\ Started(j).job = j
        BY <2>1, StartedIsEntry
      <3>2. one \in Seq(Entry) /\ Elements(one) = Elements(ready) \cup {Started(j)}
        BY <1>0, <3>1, AppendElements, ElementsAppend
      <3> HIDE DEF one
      <3>3. ASSUME NEW k \in Jobs, k.do = "alert", ready' = Append(one, Started(k))
            PROVE  \A e \in Elements(ready') :
                     e \in Elements(ready) \/ e.job.do \notin {"prompted", "send"}
        <4>1. Started(k) \in Entry /\ Started(k).job = k
          BY <3>3, StartedIsEntry
        <4>2. Elements(ready') = Elements(one) \cup {Started(k)}
          BY <3>2, <3>3, <4>1, ElementsAppend
        <4> QED
          BY <2>1, <3>1, <3>2, <3>3, <4>1, <4>2
      <3>4. CASE ready' = one
        BY <2>1, <3>1, <3>2, <3>4
      <3> QED
        BY <2>1, <3>3, <3>4 DEF one
    <2>3. \A e \in Elements(ready') : e \in Elements(ready) \/ EntryCites(announced', e)
      BY <2>2 DEF EntryCites
    <2>4. UNCHANGED <<callbacks, bus, inbox, sent>>
      BY <1>3 DEF ShieldDown, ShieldUp, ContainerExited, stateVars
    <2> QED
      BY <1>0, <2>3, <2>4, CitedIf
  <1> QED
    BY <1>1, <1>2, <1>3 DEF HubEvent

LEMMA RunCited ==
  ASSUME Types, Cited,
         RunPrompted \/ RunReported \/ RunPurge \/ RunAlert \/ RunAlerted
         \/ RunRetract \/ RunSend \/ RunCancelled
  PROVE  Cited'
  <1>1. /\ ready # <<>> /\ ready' = Tail(ready) /\ ready \in Seq(Entry) /\ bus \in Seq(Call)
        /\ inbox' = inbox /\ announced' = announced /\ [Next]_vars
    BY DEF RunPrompted, RunReported, RunPurge, RunAlert, RunAlerted, RunRetract, RunSend,
           RunCancelled, Running, pastVars, Types, Next, Loop
  <1>2. Elements(ready') \subseteq Elements(ready) /\ Head(ready) \in Elements(ready)
    BY <1>1, ElementsTail
  <1>3. ASSUME \A x \in Elements(bus') : x \in Elements(bus) \/ x.then.do # "prompted",
               \A n \in Nids : callbacks'[n] \in {None, callbacks[n]},
               sent' = sent
        PROVE  Cited'
    <2>1. \A x \in Elements(bus') : x \in Elements(bus) \/ CallCites(announced', x)
      BY <1>3 DEF CallCites
    <2> QED
      BY <1>1, <1>2, <1>3, <2>1, CitedIf
  <1>4. ASSUME NEW m \in Nids, NEW j \in Awaited, j.do # "prompted", Close(m, j), sent' = sent
        PROVE  Cited'
    <2>1. PICK call \in Call : call.then = j /\ bus' = Append(bus, call)
      BY <1>4, CloseTypes
    <2>2. callbacks' = [callbacks EXCEPT ![m] = None]
      BY <1>4, CloseTypes
    <2>3. \A x \in Elements(bus') : x \in Elements(bus) \/ x.then.do # "prompted"
      BY <1>1, <1>4, <2>1, ElementsAppend
    <2>4. \A n \in Nids : callbacks'[n] \in {None, callbacks[n]}
      BY <2>2 DEF Types
    <2> QED
      BY <1>3, <1>4, <2>3, <2>4
  <1>5. CASE RunPrompted
    <2>1. bus' = bus /\ sent' = sent
      BY <1>5 DEF RunPrompted
    <2>2. CASE ~Head(ready).ok
      BY <1>3, <1>5, <2>1, <2>2 DEF RunPrompted
    <2>3. CASE Head(ready).ok
      <3> DEFINE m == Head(ready).nid
                 click == [container |-> Job.container, target |-> Job.target, id |-> Job.id]
      <3>1. Job.do = "prompted" /\ m \in Nids /\ Job = Head(ready).job
        BY <1>5, <2>3, RunHead DEF RunPrompted, Job
      <3>2. callbacks' = [callbacks EXCEPT ![m] = click]
        BY <1>5, <2>3 DEF RunPrompted, FilePrompt, Put
      <3>3. Backed(announced, Job)
        BY <1>2, <3>1 DEF Cited, EntryCites
      <3>4. Backed(announced', click)
        BY <1>1, <3>3 DEF Backed
      <3>5. \A n \in Nids : callbacks'[n] = callbacks[n] \/ callbacks'[n] = click
        BY <3>2 DEF Types
      <3> HIDE DEF click, m
      <3>6. \A n \in Nids : callbacks'[n] \in {None, callbacks[n]} \/ Backed(announced', callbacks'[n])
        BY <3>4, <3>5 DEF Backed
      <3> QED
        BY <1>1, <1>2, <2>1, <3>6, CitedIf
    <2> QED
      BY <2>2, <2>3
  <1>6. CASE RunReported \/ RunAlerted \/ RunCancelled
    BY <1>3, <1>6 DEF RunReported, RunAlerted, RunCancelled, stateVars
  <1>7. CASE RunSend
    <2>1. Job \in Jobs /\ Job.do = "send"
      BY <1>7, RunHead DEF RunSend
    <2>2. Job.click \in Click /\ Job.shown \in Subject
      BY <2>1, JobFields
    <2>3. sent' = sent \cup {[click |-> Job.click, shown |-> Job.shown]}
      BY <1>7 DEF RunSend
    <2>4. \A v \in sent' : v \in sent \/ (v.click \in Click /\ v.shown \in Subject)
      BY <2>2, <2>3
    <2>5. UNCHANGED <<callbacks, bus>>
      BY <1>7 DEF RunSend, stateVars
    <2> QED
      BY <1>1, <1>2, <2>4, <2>5, CitedIf
  <1>8. CASE RunPurge
    <2>1. sent' = sent
      BY <1>8 DEF RunPurge
    <2>2. CASE \E stale \in Stale, j \in Awaited : j.do = "purge" /\ Close(stale.nid, j)
      <3>1. PICK stale \in Stale, j \in Awaited : j.do = "purge" /\ Close(stale.nid, j)
        BY <2>2
      <3>2. stale.nid \in Nids
        BY DEF Stale
      <3> QED
        BY <1>4, <2>1, <3>1, <3>2
    <2>3. CASE down[Job.container] # None /\ Close(down[Job.container], Nothing)
      <3>1. Job.container \in Containers
        BY <1>8, PurgeRuns
      <3>2. down[Job.container] \in Nids /\ Nothing \in Awaited /\ Nothing.do = "nothing"
        BY <2>3, <3>1, JobsMade DEF Types, Nothing
      <3> QED
        BY <1>4, <2>1, <2>3, <3>2
    <2>4. CASE UNCHANGED <<stateVars, bus>>
      BY <1>3, <2>1, <2>4 DEF stateVars
    <2> QED
      BY <1>8, <2>2, <2>3, <2>4, PurgeRuns
  <1>9. CASE RunRetract
    <2>1. CASE down[Job.container] # None
      <3>1. Job \in Jobs /\ Job.do = "retract"
        BY <1>9, RunHead DEF RunRetract
      <3>2. Job.container \in Containers
        BY <3>1, JobFields
      <3>3. down[Job.container] \in Nids /\ Nothing \in Awaited /\ Nothing.do = "nothing"
        BY <2>1, <3>2, JobsMade DEF Types, Nothing
      <3>4. Close(down[Job.container], Nothing) /\ sent' = sent
        BY <1>9, <2>1 DEF RunRetract
      <3> QED
        BY <1>4, <3>3, <3>4
    <2>2. CASE down[Job.container] = None
      BY <1>3, <1>9, <2>2 DEF RunRetract
    <2> QED
      BY <2>1, <2>2
  <1>10. CASE RunAlert
    <2>1. PICK call \in Call : bus' = Append(bus, call) /\ call.then.do = "alerted"
      BY <1>10, AlertCalls
    <2>2. \A x \in Elements(bus') : x \in Elements(bus) \/ x.then.do # "prompted"
      BY <1>1, <2>1, ElementsAppend
    <2>3. UNCHANGED <<callbacks, sent>>
      BY <1>10 DEF RunAlert, stateVars
    <2> QED
      BY <1>3, <2>2, <2>3
  <1> QED
    BY <1>5, <1>6, <1>7, <1>8, <1>9, <1>10

LEMMA ReceiveCited ==
  ASSUME Types, Agreement, Cited, ReceiveReply \/ ReceiveAction \/ ReceiveClosed
  PROVE  Cited'
  <1>1. /\ inbox # <<>> /\ inbox' = Tail(inbox) /\ ready \in Seq(Entry) /\ inbox \in Seq(Message)
        /\ UNCHANGED <<bus, announced, sent>> /\ [Next]_vars
    BY DEF ReceiveReply, ReceiveAction, ReceiveClosed, pastVars, Types, Next, Loop
  <1>2. Elements(inbox') \subseteq Elements(inbox) /\ Head(inbox) \in Elements(inbox)
    BY <1>1, ElementsTail
  <1>3. ASSUME NEW e \in Entry, ready' = Append(ready, e) \/ ready' = ready, EntryCites(announced, e),
               callbacks' = callbacks
        PROVE  Cited'
    <2>1. Elements(Append(ready, e)) = Elements(ready) \cup {e}
      BY <1>1, ElementsAppend
    <2>2. Elements(ready') \subseteq Elements(ready) \cup {e}
      BY <1>3, <2>1
    <2> QED
      BY <1>1, <1>2, <1>3, <2>2, CitedIf
  <1>4. CASE ready' = ready /\ callbacks' = callbacks
    BY <1>1, <1>2, <1>4, CitedIf
  <1>5. CASE ReceiveReply
    <2>1. callbacks' = callbacks
      BY <1>5 DEF ReceiveReply, stateVars
    <2>2. ASSUME NEW e \in Entry, ready' = Append(ready, e), e.job = Head(inbox).then
          PROVE  Cited'
      <3>1. Head(inbox).kind = "reply" /\ Head(inbox).then \in Awaited
        BY <1>5, InboxHead DEF ReceiveReply
      <3>2. EntryCites(announced, e)
        BY <1>2, <2>2, <3>1 DEF Cited, EntryCites, MessageCites, Awaited
      <3> QED
        BY <1>3, <2>1, <2>2, <3>2
    <2> QED
      BY <1>4, <1>5, <2>1, <2>2, ReplyResumes
  <1>6. CASE ReceiveAction
    <2>1. callbacks' = callbacks
      BY <1>6 DEF ReceiveAction, stateVars
    <2> DEFINE n == Head(inbox).nid
               w == Head(inbox).shown
    <2>2. ASSUME NEW j \in Jobs, j.do = "send", ready' = Append(ready, Started(j)),
                 callbacks[n] # None, j.click = callbacks[n], j.shown = w
          PROVE  Cited'
      <3>1. Head(inbox).kind = "action" /\ n \in Nids /\ w \in Subject
        BY <1>1, <1>6, InboxHead DEF ReceiveAction
      <3>2. j.click \in Click /\ Backed(announced, j.click)
        BY <2>2, <3>1 DEF Types, Cited
      <3>3. /\ j.click.container \in Containers /\ j.click.target \in Targets
            /\ w.container \in Containers /\ w.target \in Targets
            /\ w = [container |-> w.container, target |-> w.target]
        BY <3>1, <3>2 DEF Click, Subject
      <3>4. Says(n, j.click.container, j.click.target)
        BY <2>2 DEF Says, CallbackSays
      <3>5. Says(n, w.container, w.target)
        BY <1>2, <3>1 DEF Says, Delivers
      <3>6. j.click.container = w.container /\ j.click.target = w.target
        BY <3>1, <3>3, <3>4, <3>5 DEF Agreement
      <3>7. Started(j) \in Entry /\ Started(j).job = j
        BY <2>2, StartedIsEntry
      <3>8. announced[j.click.id] = w
        BY <3>2, <3>3, <3>6 DEF Backed
      <3> HIDE DEF n, w
      <3>9. EntryCites(announced, Started(j))
        BY <2>2, <3>6, <3>7, <3>8 DEF EntryCites
      <3> QED
        BY <1>3, <2>1, <2>2, <3>7, <3>9
    <2> QED
      BY <1>4, <1>6, <2>1, <2>2, ClickSends
  <1>7. CASE ReceiveClosed
    <2>1. /\ ready' = ready /\ callbacks' = [callbacks EXCEPT ![Head(inbox).nid] = None]
      BY <1>7 DEF ReceiveClosed, Put
    <2>2. \A n \in Nids : callbacks'[n] \in {None, callbacks[n]}
      BY <2>1 DEF Types
    <2> QED
      BY <1>1, <1>2, <2>1, <2>2, CitedIf
  <1> QED
    BY <1>5, <1>6, <1>7

LEMMA OutsideCited ==
  ASSUME Types, FreshSuffices, Cited, Outside
  PROVE  Cited'
  <1>0. bus \in Seq(Call) /\ inbox \in Seq(Message) /\ [Next]_vars
    BY DEF Types, Next
  <1>1. ASSUME Elements(bus') \subseteq Elements(bus), UNCHANGED <<callbacks, ready, announced, sent>>,
               \A m \in Elements(inbox') : m \in Elements(inbox) \/ MessageCites(announced, m)
        PROVE  Cited'
    BY <1>0, <1>1, CitedIf
  <1>2. CASE DaemonPosts
    <2>1. bus # <<>> /\ bus' = Tail(bus)
      BY <1>2, PostReplies
    <2>2. PICK m \in Message : m.then = Head(bus).then /\ inbox' = Append(inbox, m)
      BY <1>2, PostReplies
    <2>3. Elements(bus') \subseteq Elements(bus) /\ Head(bus) \in Elements(bus)
      BY <1>0, <2>1, ElementsTail
    <2>4. MessageCites(announced, m)
      BY <2>2, <2>3 DEF Cited, CallCites, MessageCites
    <2>5. Elements(inbox') = Elements(inbox) \cup {m}
      BY <1>0, <2>2, ElementsAppend
    <2>6. UNCHANGED <<callbacks, ready, announced, sent>>
      BY <1>2 DEF DaemonPosts, stateVars, pastVars
    <2> QED
      BY <1>1, <2>3, <2>4, <2>5, <2>6
  <1>3. CASE DaemonRefuses
    <2>1. bus # <<>> /\ Head(bus).op = "notify" /\ bus' = Tail(bus)
          /\ inbox' = Append(inbox, Reply(None, FALSE))
      BY <1>3 DEF DaemonRefuses
    <2>2. PICK m \in Message : m = Reply(None, FALSE) /\ m.then = Head(bus).then
      <3>1. Reply(None, FALSE) \in Message /\ Reply(None, FALSE).then = Head(bus).then
        BY <2>1, BusHead DEF Reply, Message
      <3> QED
        BY <3>1
    <2>3. Elements(bus') \subseteq Elements(bus) /\ Head(bus) \in Elements(bus)
      BY <1>0, <2>1, ElementsTail
    <2>4. MessageCites(announced, m)
      BY <2>2, <2>3 DEF Cited, CallCites, MessageCites
    <2>5. Elements(Append(inbox, m)) = Elements(inbox) \cup {m}
      BY <1>0, ElementsAppend
    <2>6. UNCHANGED <<callbacks, ready, announced, sent>>
      BY <1>3 DEF DaemonRefuses, stateVars, pastVars
    <2> QED
      BY <1>1, <2>1, <2>2, <2>3, <2>4, <2>5, <2>6
  <1>4. CASE DaemonCloses
    <2>1. PICK k, m \in Message :
            /\ k.kind = "closed" /\ m.kind = "reply" /\ m.then.do # "prompted"
            /\ inbox' = Append(inbox, m) \/ inbox' = Append(Append(inbox, k), m)
      BY <1>4, CloseReplies
    <2>2. Elements(bus') \subseteq Elements(bus)
      BY <1>0, <1>4, CloseReplies, ElementsTail
    <2>3. Elements(inbox') \subseteq Elements(inbox) \cup {k, m}
      <3> DEFINE one == Append(inbox, k)
      <3>1. one \in Seq(Message) /\ Elements(one) = Elements(inbox) \cup {k}
        BY <1>0, AppendElements, ElementsAppend
      <3>2. Elements(Append(inbox, m)) = Elements(inbox) \cup {m}
        BY <1>0, ElementsAppend
      <3>3. Elements(Append(one, m)) = Elements(one) \cup {m}
        <4> HIDE DEF one
        <4> QED
          BY <3>1, ElementsAppend
      <3> QED
        BY <2>1, <3>1, <3>2, <3>3
    <2>4. MessageCites(announced, k) /\ MessageCites(announced, m)
      BY <2>1 DEF MessageCites
    <2>5. UNCHANGED <<callbacks, ready, announced, sent>>
      BY <1>4 DEF DaemonCloses, stateVars, pastVars
    <2> QED
      BY <1>1, <2>2, <2>3, <2>4, <2>5
  <1>5. ASSUME NEW k \in Nids, UserClicks(k) PROVE Cited'
    <2> DEFINE m == [kind |-> "action", nid |-> k,
                     shown |-> [container |-> screen[k].container, target |-> screen[k].target]]
    <2>1. screen[k] \in Shown /\ screen[k].kind = "prompt"
      BY <1>5 DEF UserClicks, Types
    <2>2. m \in Message /\ MessageCites(announced, m)
      BY <2>1 DEF Shown, Face, Message, Subject, MessageCites
    <2>3. inbox' = Append(inbox, m)
      BY <1>5 DEF UserClicks
    <2> HIDE DEF m
    <2>4. Elements(inbox') = Elements(inbox) \cup {m}
      BY <1>0, <2>2, <2>3, ElementsAppend
    <2>5. UNCHANGED <<callbacks, ready, announced, sent, bus>>
      BY <1>5 DEF UserClicks, stateVars, pastVars
    <2> QED
      BY <1>1, <2>2, <2>4, <2>5
  <1>6. ASSUME NEW k \in Nids, PopupGoes(k) PROVE Cited'
    <2> DEFINE m == [kind |-> "closed", nid |-> k]
    <2>1. m \in Message /\ MessageCites(announced, m)
      BY DEF Message, MessageCites
    <2>2. inbox' = Append(inbox, m)
      BY <1>6 DEF PopupGoes
    <2> HIDE DEF m
    <2>3. Elements(inbox') = Elements(inbox) \cup {m}
      BY <1>0, <2>1, <2>2, ElementsAppend
    <2>4. UNCHANGED <<callbacks, ready, announced, sent, bus>>
      BY <1>6 DEF PopupGoes, stateVars, pastVars
    <2> QED
      BY <1>1, <2>1, <2>3, <2>4
  <1> QED
    BY <1>2, <1>3, <1>4, <1>5, <1>6 DEF Outside

LEMMA StopCited ==
  ASSUME Types, Cited, Stop
  PROVE  Cited'
  <1>1. CASE StopBegins \/ StopEnds
    <2>1. Cancel(Task) \/ Cancel(Inline)
      BY <1>1 DEF StopBegins, StopEnds
    <2>2. UNCHANGED <<callbacks, announced, sent>> /\ [Next]_vars
      BY <1>1 DEF StopBegins, StopEnds, stateVars, pastVars, Next, Stop
    <2>3. \A e \in Elements(ready') : e \in Elements(ready) \/ EntryCites(announced, e)
      <3>1. \A e \in Elements(ready') : e \in Elements(ready) \/ e.job = Nothing
        BY <2>1, CancelledElements
      <3> QED
        BY <3>1 DEF EntryCites, Nothing
    <2>4. \A x \in Elements(bus') : CallCites(announced, x)
      <3>1. \A x \in Elements(bus') : \E y \in Elements(bus) : x.then = y.then \/ x.then = Nothing
        BY <2>1, CancelledElements
      <3> QED
        BY <3>1 DEF Cited, CallCites, Nothing
    <2>5. \A m \in Elements(inbox') : m \in Elements(inbox) \/ MessageCites(announced, m)
      <3>1. \A m \in Elements(inbox') :
              m \in Elements(inbox) \/ (m.kind = "reply" /\ m.then = Nothing)
        BY <2>1, CancelledElements
      <3> QED
        BY <3>1 DEF MessageCites, Nothing
    <2> QED
      BY <2>2, <2>3, <2>4, <2>5, CitedIf
  <1>2. CASE StopClosesClient
    BY <1>2 DEF StopClosesClient, stateVars, loopVars, pastVars, Cited
  <1> QED
    BY <1>1, <1>2 DEF Stop

LEMMA CitedStep ==
  ASSUME Types, FreshSuffices, Agreement, Cited, [Next]_vars
  PROVE  Cited'
  <1>1. CASE Loop
    BY <1>1, RunCited, ReceiveCited DEF Loop
  <1>2. CASE UNCHANGED vars
    BY <1>2 DEF vars, Cited
  <1> QED
    BY <1>1, <1>2, HubEventCited, OutsideCited, StopCited DEF Next

\* What was sent was right when it was sent, and a request is never announced for
\* another target.
LEMMA ClicksStep ==
  ASSUME Types, Cited, ClicksMeanWhatTheyShow, [Next]_vars
  PROVE  ClicksMeanWhatTheyShow'
  <1>1. ASSUME NEW v \in sent
        PROVE  /\ v.click.container = v.shown.container /\ v.click.target = v.shown.target
               /\ announced'[v.click.id] = v.shown
    <2>1. v.click.id \in Requests /\ v.shown \in Subject
      BY DEF Cited, Click
    <2> QED
      BY <2>1, AnnouncedStays DEF ClicksMeanWhatTheyShow
  <1>2. CASE RunSend
    <2>1. Job = Head(ready).job /\ Job.do = "send" /\ ready # <<>> /\ ready \in Seq(Entry)
      BY <1>2 DEF RunSend, Running, Job, Types
    <2>2. EntryCites(announced, Head(ready))
      BY <2>1, ElementsTail DEF Cited
    <2>3. /\ Job.click.container = Job.shown.container /\ Job.click.target = Job.shown.target
          /\ announced[Job.click.id] = Job.shown
      BY <2>1, <2>2 DEF EntryCites
    <2>4. sent' = sent \cup {[click |-> Job.click, shown |-> Job.shown]} /\ announced' = announced
      BY <1>2 DEF RunSend, pastVars
    <2> QED
      BY <1>1, <2>3, <2>4 DEF ClicksMeanWhatTheyShow
  <1>3. CASE sent' = sent
    BY <1>1, <1>3 DEF ClicksMeanWhatTheyShow
  <1> QED
    BY <1>2, <1>3
    DEF Next, HubEvent, Loop, Outside, Stop, vars, Blocked, VerdictApplied, ShieldDown, ShieldUp,
        ContainerExited, RunPrompted, RunReported, RunPurge, RunAlert, RunAlerted, RunRetract,
        RunCancelled, ReceiveReply, ReceiveAction, ReceiveClosed, DaemonPosts,
        DaemonRefuses, DaemonCloses, UserClicks, PopupGoes, StopBegins, StopClosesClient, StopEnds

\* A click decides what it was made on: the verdict sent for it names the container
\* and target the popup showed, and a request the hub announced for that target,
\* however popups are replaced, callbacks are exchanged and signals are delayed
\* between the click and the verdict.
THEOREM ClicksAreHonest == Spec => []ClicksMeanWhatTheyShow
  <1> DEFINE IInv == Types /\ Ledger /\ Agreement /\ Cited /\ ClicksMeanWhatTheyShow
  <1>1. Init => IInv
    <2> SUFFICES ASSUME Init PROVE IInv
      OBVIOUS
    <2>1. Elements(bus) = {} /\ Elements(inbox) = {} /\ Elements(ready) = {}
      BY DEF Init, Elements
    <2>2. \A n \in Nids : \A c, t : ~Says(n, c, t)
      BY <2>1 DEF Init, Says, PendingSays, CallbackSays, ScreenSays
    <2>3. Agreement
      BY <2>2 DEF Agreement
    <2>4. Cited /\ ClicksMeanWhatTheyShow
      BY <2>1 DEF Init, Cited, ClicksMeanWhatTheyShow
    <2> QED
      BY <2>3, <2>4, InitTypes
  <1>2. IInv /\ [Next]_vars => IInv'
    <2> SUFFICES ASSUME IInv, [Next]_vars PROVE IInv'
      OBVIOUS
    <2>1. FreshSuffices
      BY LedgerSuffices
    <2>2. Types'
      BY <2>1, TypesStep
    <2> QED
      BY <2>1, <2>2, LedgerStep, AgreementStep, CitedStep, ClicksStep
  <1> QED
    BY <1>1, <1>2, PTL DEF Spec

-----------------------------------------------------------------------------
(* An alert on record goes with the shield *)

\* A task that raises the alert of container c, from its start to its end; a call
\* that posts the alert, and the reply that resumes the task.
AlertJob(j, c) == j.do \in {"alert", "alerted"} /\ j.container = c

PostsAlert(x, c) == x.op = "notify" /\ x.face.kind = "alert" /\ x.face.container = c

ResumesAlert(m, c) == m.kind = "reply" /\ AlertJob(m.then, c)

Raises(c) ==
  \/ \E e \in Elements(ready) : AlertJob(e.job, c)
  \/ \E x \in Elements(bus) : PostsAlert(x, c)
  \/ \E m \in Elements(inbox) : ResumesAlert(m, c)

\* The task that awaits the reply to an alert is the one that posted it.
AlertCalled ==
  \A x \in Elements(bus), c \in Containers : AlertJob(x.then, c) => PostsAlert(x, c)

\* What says that popup n is an alert of container c: its record, the alert on
\* screen, a call that is to repost it, the reply that gave it the id, and the
\* task that resumes.
ShowsAlert(face, c) == face # None /\ face.kind = "alert" /\ face.container = c

AlertSays(n, c) ==
  \/ down[c] = n
  \/ ShowsAlert(screen[n], c)
  \/ \E x \in Elements(bus) : PostsAlert(x, c) /\ x.nid = n
  \/ \E m \in Elements(inbox) : ResumesAlert(m, c) /\ m.ok /\ m.nid = n
  \/ \E e \in Elements(ready) : AlertJob(e.job, c) /\ e.job.do = "alerted" /\ e.ok /\ e.nid = n

\* The history of the alerts on record is true to its id.
Claims(n, c) == recorded[c] = n \/ AlertSays(n, c)

\* An id belongs to the alert of one container, and none speaks of an id that is
\* still to be given out.
AlertsAgree ==
  \A n \in Nids \ {None}, c, d \in Containers :
    Claims(n, c) => n < fresh /\ (Claims(n, d) => c = d)

Recorded(c) == shield[c] = "up" /\ recorded[c] # None

\* While the shield is up again and an alert was on record when it came, no task
\* raises another.
NoneRaised == \A c \in Containers : Recorded(c) => ~Raises(c)

\* That alert is about to be closed, or is gone.
Withdraws(c) ==
  \/ down[c] = recorded[c] /\ \E e \in Elements(ready) : e.job.do = "retract" /\ e.job.container = c
  \/ \E x \in Elements(bus) : x.op = "close" /\ x.nid = recorded[c]
  \/ screen[recorded[c]] = None \/ screen[recorded[c]].kind # "alert"

Withdrawn == phase = "running" => \A c \in Containers : Recorded(c) => Withdraws(c)

Harmless(j) == j.do \notin {"alert", "alerted"}

\* A step that neither raises an alert nor moves one forward.
NoNewAlerts ==
  /\ \A c \in Containers : down'[c] \in {down[c], None}
  /\ \A n \in Nids : screen'[n] \in {screen[n], None}
  /\ \A e \in Elements(ready') : e \in Elements(ready) \/ Harmless(e.job)
  /\ \A x \in Elements(bus') :
       \/ Harmless(x.then) /\ ~(x.op = "notify" /\ x.face.kind = "alert")
       \/ \E y \in Elements(bus) : /\ x.op = y.op /\ x.nid = y.nid /\ x.face = y.face
                                   /\ x.then = y.then \/ Harmless(x.then)
  /\ \A m \in Elements(inbox') :
       m \in Elements(inbox) \/ m.kind # "reply" \/ Harmless(m.then)

\* Where a step may have led from, as far as the alert of container c goes.
AlertsKept(c) ==
  /\ Raises(c)' => Raises(c)
  /\ \A n \in Nids \ {None} : AlertSays(n, c)' => AlertSays(n, c)

LEMMA NoNewAlertsKeeps ==
  ASSUME AlertCalled, NoNewAlerts
  PROVE  AlertCalled' /\ \A c \in Containers : AlertsKept(c)
  <1>1. AlertCalled'
    BY DEF AlertCalled, NoNewAlerts, AlertJob, Harmless, PostsAlert
  <1>2. ASSUME NEW c \in Containers
        PROVE  AlertsKept(c)
    <2>1. /\ \A e \in Elements(ready') : AlertJob(e.job, c) => e \in Elements(ready)
          /\ \A x \in Elements(bus') : PostsAlert(x, c) =>
               \E y \in Elements(bus) : PostsAlert(y, c) /\ x.nid = y.nid
          /\ \A m \in Elements(inbox') : ResumesAlert(m, c) => m \in Elements(inbox)
      BY DEF NoNewAlerts, AlertJob, PostsAlert, ResumesAlert, Harmless
    <2>2. \A n \in Nids \ {None} : /\ down'[c] = n => down[c] = n
                                   /\ ShowsAlert(screen'[n], c) => ShowsAlert(screen[n], c)
      BY DEF NoNewAlerts, ShowsAlert
    <2> QED
      BY <2>1, <2>2 DEF AlertsKept, Raises, AlertSays
  <1> QED
    BY <1>1, <1>2

\* Of the handlers only shield_down's starts a task that raises an alert.
LEMMA HubEventAlerts ==
  ASSUME Types, AlertCalled, HubEvent
  PROVE  /\ AlertCalled'
         /\ \A c \in Containers :
              /\ Raises(c)' => Raises(c) \/ ShieldDown(c)
              /\ \A n \in Nids \ {None} : AlertSays(n, c)' => AlertSays(n, c)
  <1>0. bus \in Seq(Call) /\ ready \in Seq(Entry)
    BY DEF Types
  <1>1. ASSUME NoNewAlerts
        PROVE  /\ AlertCalled'
               /\ \A c \in Containers :
                    /\ Raises(c)' => Raises(c) \/ ShieldDown(c)
                    /\ \A n \in Nids \ {None} : AlertSays(n, c)' => AlertSays(n, c)
    BY <1>1, NoNewAlertsKeeps DEF AlertsKept
  <1>2. ASSUME NEW c \in Containers, NEW t \in Targets, NEW r \in Requests, Blocked(c, t, r)
        PROVE  NoNewAlerts
    <2>1. PICK call \in Call :
            /\ bus' = Append(bus, call)
            /\ call.face.kind = "prompt" /\ call.then.do = "prompted"
      BY <1>2, BlockedCalls
    <2>2. Elements(bus') = Elements(bus) \cup {call}
      BY <1>0, <2>1, ElementsAppend
    <2>3. UNCHANGED <<down, screen, ready, inbox>>
      BY <1>2 DEF Blocked, stateVars, userVars
    <2> QED
      BY <2>1, <2>2, <2>3 DEF NoNewAlerts, Harmless
  <1>3. ASSUME NEW r \in Requests, VerdictApplied(r)
        PROVE  NoNewAlerts
    <2>1. PICK call \in Call :
            /\ bus' = Append(bus, call) \/ bus' = bus
            /\ call.face.kind = "outcome" /\ call.then.do = "reported"
      BY <1>3, VerdictCalls
    <2>2. Elements(bus') \subseteq Elements(bus) \cup {call}
      <3>1. Elements(Append(bus, call)) = Elements(bus) \cup {call}
        BY <1>0, ElementsAppend
      <3> QED
        BY <2>1, <3>1
    <2>3. UNCHANGED <<down, screen, ready, inbox>>
      BY <1>3 DEF VerdictApplied, userVars
    <2> QED
      BY <2>1, <2>2, <2>3 DEF NoNewAlerts, Harmless
  <1>4. ASSUME NEW d \in Containers, ShieldDown(d) \/ ShieldUp(d) \/ ContainerExited(d)
        PROVE  /\ AlertCalled'
               /\ \A c \in Containers :
                    /\ Raises(c)' => Raises(c) \/ ShieldDown(c)
                    /\ \A n \in Nids \ {None} : AlertSays(n, c)' => AlertSays(n, c)
    <2>1. PICK j \in Jobs :
            /\ j.do \in {"purge", "retract"}
            /\ \/ ready' = Append(ready, Started(j))
               \/ /\ ShieldDown(d)
                  /\ \E k \in Jobs :
                       /\ k.do = "alert" /\ k.container = d
                       /\ ready' = Append(Append(ready, Started(j)), Started(k))
      BY <1>4, LifecycleTasks
    <2>2. UNCHANGED <<down, screen, bus, inbox>>
      BY <1>4 DEF ShieldDown, ShieldUp, ContainerExited, stateVars, userVars
    <2> DEFINE one == Append(ready, Started(j))
    <2>3. Started(j) \in Entry /\ Started(j).job = j
      BY <2>1, StartedIsEntry
    <2>4. one \in Seq(Entry) /\ Elements(one) = Elements(ready) \cup {Started(j)}
      BY <1>0, <2>3, AppendElements, ElementsAppend
    <2> HIDE DEF one
    <2>5. CASE ready' = one
      <3>1. NoNewAlerts
        BY <2>1, <2>2, <2>3, <2>4, <2>5 DEF NoNewAlerts, Harmless
      <3> QED
        BY <1>1, <3>1
    <2>6. ASSUME NEW k \in Jobs, k.do = "alert", k.container = d, ShieldDown(d),
                 ready' = Append(one, Started(k))
          PROVE  /\ AlertCalled'
                 /\ \A c \in Containers :
                      /\ Raises(c)' => Raises(c) \/ ShieldDown(c)
                      /\ \A n \in Nids \ {None} : AlertSays(n, c)' => AlertSays(n, c)
      <3>1. Started(k) \in Entry /\ Started(k).job = k
        BY <2>6, StartedIsEntry
      <3>2. Elements(ready') = Elements(ready) \cup {Started(j), Started(k)}
        BY <2>4, <2>6, <3>1, ElementsAppend
      <3>3. AlertCalled'
        BY <2>2 DEF AlertCalled
      <3>4. ASSUME NEW c \in Containers
            PROVE  Raises(c)' => Raises(c) \/ ShieldDown(c)
        <4>1. ~AlertJob(j, c) /\ (AlertJob(k, c) => ShieldDown(c))
          BY <2>1, <2>6 DEF AlertJob
        <4> QED
          BY <2>2, <2>3, <3>1, <3>2, <4>1 DEF Raises
      <3>5. ASSUME NEW c \in Containers, NEW n \in Nids \ {None}, AlertSays(n, c)'
            PROVE  AlertSays(n, c)
        <4>1. j.do # "alerted" /\ k.do # "alerted"
          BY <2>1, <2>6
        <4> QED
          BY <2>2, <2>3, <3>1, <3>2, <3>5, <4>1 DEF AlertSays
      <3> QED
        BY <3>3, <3>4, <3>5
    <2> QED
      BY <2>1, <2>5, <2>6 DEF one
  <1> QED
    BY <1>1, <1>2, <1>3, <1>4 DEF HubEvent

\* Running a task moves its alert to the bus, or from the task to the record.
LEMMA RunAlerts ==
  ASSUME Types, AlertCalled,
         RunPrompted \/ RunReported \/ RunPurge \/ RunAlert \/ RunAlerted
         \/ RunRetract \/ RunSend \/ RunCancelled
  PROVE  AlertCalled' /\ \A c \in Containers : AlertsKept(c)
  <1>1. /\ ready # <<>> /\ ready' = Tail(ready) /\ ready \in Seq(Entry) /\ bus \in Seq(Call)
        /\ UNCHANGED <<screen, inbox>>
    BY DEF RunPrompted, RunReported, RunPurge, RunAlert, RunAlerted, RunRetract, RunSend,
           RunCancelled, Running, userVars, Types
  <1>2. Elements(ready') \subseteq Elements(ready) /\ Head(ready) \in Elements(ready)
    BY <1>1, ElementsTail
  <1>3. ASSUME UNCHANGED <<down, bus>>
        PROVE  NoNewAlerts
    BY <1>1, <1>2, <1>3 DEF NoNewAlerts
  <1>4. ASSUME NEW m \in Nids, NEW j \in Awaited, Harmless(j), j.do # "prompted", Close(m, j),
               \A c \in Containers : down'[c] \in {down[c], None}
        PROVE  NoNewAlerts
    <2>1. PICK call \in Call : /\ call.op = "close" /\ call.then = j
                               /\ bus' = Append(bus, call)
      BY <1>4, CloseTypes
    <2>2. Elements(bus') = Elements(bus) \cup {call}
      BY <1>1, <2>1, ElementsAppend
    <2> QED
      BY <1>1, <1>2, <1>4, <2>1, <2>2 DEF NoNewAlerts
  <1>5. CASE RunPrompted \/ RunReported \/ RunSend \/ RunCancelled
    <2>1. UNCHANGED <<down, bus>>
      BY <1>5 DEF RunPrompted, RunReported, RunSend, RunCancelled, stateVars
    <2> QED
      BY <1>3, <2>1, NoNewAlertsKeeps
  <1>6. CASE RunPurge
    <2>1. CASE \E stale \in Stale, j \in Awaited :
                 j.do = "purge" /\ Close(stale.nid, j) /\ UNCHANGED down
      <3>1. PICK stale \in Stale, j \in Awaited :
                 j.do = "purge" /\ Close(stale.nid, j) /\ UNCHANGED down
        BY <2>1
      <3>2. stale.nid \in Nids /\ Harmless(j)
        BY <3>1 DEF Stale, Harmless
      <3> QED
        BY <1>4, <3>1, <3>2, NoNewAlertsKeeps
    <2>2. CASE /\ down[Job.container] # None /\ Close(down[Job.container], Nothing)
               /\ down' = [down EXCEPT ![Job.container] = None]
      <3>1. Job.container \in Containers
        BY <1>6, PurgeRuns
      <3>2. down[Job.container] \in Nids /\ Nothing \in Awaited /\ Nothing.do = "nothing"
        BY <2>2, <3>1, JobsMade DEF Types, Nothing
      <3>3. \A c \in Containers : down'[c] \in {down[c], None}
        BY <2>2 DEF Types
      <3>4. Harmless(Nothing)
        BY <3>2 DEF Harmless
      <3> QED
        BY <1>4, <2>2, <3>2, <3>3, <3>4, NoNewAlertsKeeps
    <2>3. CASE UNCHANGED <<stateVars, bus>>
      BY <1>3, <2>3, NoNewAlertsKeeps DEF stateVars
    <2> QED
      BY <1>6, <2>1, <2>2, <2>3, PurgeRuns
  <1>7. CASE RunRetract
    <2>1. Job \in Jobs /\ Job.do = "retract"
      BY <1>7, RunHead DEF RunRetract
    <2>2. Job.container \in Containers
      BY <2>1, JobFields
    <2>3. CASE down[Job.container] # None
      <3>1. down[Job.container] \in Nids /\ Nothing \in Awaited /\ Nothing.do = "nothing"
        BY <2>2, <2>3, JobsMade DEF Types, Nothing
      <3>2. Close(down[Job.container], Nothing) /\ down' = [down EXCEPT ![Job.container] = None]
        BY <1>7, <2>3 DEF RunRetract, Put
      <3>3. \A c \in Containers : down'[c] \in {down[c], None}
        BY <3>2 DEF Types
      <3>4. Harmless(Nothing)
        BY <3>1 DEF Harmless
      <3> QED
        BY <1>4, <3>1, <3>2, <3>3, <3>4, NoNewAlertsKeeps
    <2>4. CASE down[Job.container] = None
      <3>1. UNCHANGED <<down, bus>>
        BY <1>7, <2>4 DEF RunRetract
      <3> QED
        BY <1>3, <3>1, NoNewAlertsKeeps
    <2> QED
      BY <2>3, <2>4
  <1>8. CASE RunAlert
    <2>1. PICK call \in Call :
            /\ bus' = Append(bus, call) /\ call.nid = down[Job.container]
            /\ call.op = "notify" /\ call.face.kind = "alert" /\ call.then.do = "alerted"
            /\ call.face.container = Job.container /\ call.then.container = Job.container
      BY <1>8, AlertCalls
    <2>2. Elements(bus') = Elements(bus) \cup {call}
      BY <1>1, <2>1, ElementsAppend
    <2>3. Head(ready).job = Job /\ Job.do = "alert" /\ down' = down
      BY <1>8 DEF RunAlert, Running, Job, stateVars
    <2>4. AlertCalled'
      BY <2>1, <2>2 DEF AlertCalled, AlertJob, PostsAlert
    <2>5. ASSUME NEW c \in Containers
          PROVE  AlertsKept(c)
      <3>1. PostsAlert(call, c) => /\ AlertJob(Head(ready).job, c)
                                   /\ call.nid = down[c]
        BY <2>1, <2>3 DEF PostsAlert, AlertJob
      <3>2. Raises(c)' => Raises(c)
        BY <1>1, <1>2, <2>2, <3>1 DEF Raises
      <3>3. \A n \in Nids \ {None} : AlertSays(n, c)' => AlertSays(n, c)
        BY <1>1, <1>2, <2>2, <2>3, <3>1 DEF AlertSays
      <3> QED
        BY <3>2, <3>3 DEF AlertsKept
    <2> QED
      BY <2>4, <2>5
  <1>9. CASE RunAlerted
    <2>1. Job = Head(ready).job /\ Job.do = "alerted" /\ bus' = bus
      BY <1>9 DEF RunAlerted, Running, Job
    <2>2. down' = IF Head(ready).ok THEN [down EXCEPT ![Job.container] = Head(ready).nid] ELSE down
      BY <1>9 DEF RunAlerted, Put
    <2>3. AlertCalled'
      BY <2>1 DEF AlertCalled
    <2>4. ASSUME NEW c \in Containers
          PROVE  AlertsKept(c)
      <3>1. \A n \in Nids : down'[c] = n => \/ down[c] = n
                                            \/ /\ AlertJob(Head(ready).job, c) /\ Head(ready).ok
                                               /\ Head(ready).nid = n
        BY <2>1, <2>2 DEF AlertJob, Types
      <3>2. Raises(c)' => Raises(c)
        BY <1>1, <1>2, <2>1 DEF Raises
      <3>3. \A n \in Nids \ {None} : AlertSays(n, c)' => AlertSays(n, c)
        BY <1>1, <1>2, <2>1, <3>1 DEF AlertSays
      <3> QED
        BY <3>2, <3>3 DEF AlertsKept
    <2> QED
      BY <2>3, <2>4
  <1> QED
    BY <1>5, <1>6, <1>7, <1>8, <1>9

\* A reply resumes the task that posted the alert, with the id it got.
LEMMA ReceiveAlerts ==
  ASSUME Types, AlertCalled, ReceiveReply \/ ReceiveAction \/ ReceiveClosed
  PROVE  AlertCalled' /\ \A c \in Containers : AlertsKept(c)
  <1>1. /\ inbox # <<>> /\ inbox' = Tail(inbox) /\ ready \in Seq(Entry) /\ inbox \in Seq(Message)
        /\ UNCHANGED <<down, bus, screen>>
    BY DEF ReceiveReply, ReceiveAction, ReceiveClosed, stateVars, userVars, Types
  <1>2. Elements(inbox') \subseteq Elements(inbox) /\ Head(inbox) \in Elements(inbox)
    BY <1>1, ElementsTail
  <1>3. ASSUME ready' = ready
        PROVE  NoNewAlerts
    BY <1>1, <1>2, <1>3 DEF NoNewAlerts
  <1>4. CASE ReceiveReply
    <2>1. CASE ready' = ready
      BY <1>3, <2>1, NoNewAlertsKeeps
    <2>2. ASSUME NEW e \in Entry, ready' = Append(ready, e),
                 e.job = Head(inbox).then, e.nid = Head(inbox).nid, e.ok = Head(inbox).ok
          PROVE  AlertCalled' /\ \A c \in Containers : AlertsKept(c)
      <3>1. Elements(ready') = Elements(ready) \cup {e}
        BY <1>1, <2>2, ElementsAppend
      <3>2. Head(inbox).kind = "reply"
        BY <1>4 DEF ReceiveReply
      <3>3. AlertCalled'
        BY <1>1 DEF AlertCalled
      <3>4. ASSUME NEW c \in Containers
            PROVE  AlertsKept(c)
        <4>1. AlertJob(e.job, c) => ResumesAlert(Head(inbox), c)
          BY <2>2, <3>2 DEF ResumesAlert
        <4>2. Raises(c)' => Raises(c)
          BY <1>1, <1>2, <3>1, <4>1 DEF Raises
        <4>3. \A n \in Nids \ {None} : AlertSays(n, c)' => AlertSays(n, c)
          BY <1>1, <1>2, <2>2, <3>1, <4>1 DEF AlertSays
        <4> QED
          BY <4>2, <4>3 DEF AlertsKept
      <3> QED
        BY <3>3, <3>4
    <2> QED
      BY <1>4, <2>1, <2>2, ReplyResumes
  <1>5. CASE ReceiveAction
    <2>1. CASE ready' = ready
      BY <1>3, <2>1, NoNewAlertsKeeps
    <2>2. ASSUME NEW j \in Jobs, j.do = "send", ready' = Append(ready, Started(j))
          PROVE  NoNewAlerts
      <3>1. Started(j) \in Entry /\ Started(j).job = j
        BY <2>2, StartedIsEntry
      <3>2. Elements(ready') = Elements(ready) \cup {Started(j)}
        BY <1>1, <2>2, <3>1, ElementsAppend
      <3> QED
        BY <1>1, <1>2, <2>2, <3>1, <3>2 DEF NoNewAlerts, Harmless
    <2> QED
      BY <1>5, <2>1, <2>2, ClickSends, NoNewAlertsKeeps
  <1>6. CASE ReceiveClosed
    <2>1. ready' = ready
      BY <1>6 DEF ReceiveClosed
    <2> QED
      BY <1>3, <2>1, NoNewAlertsKeeps
  <1> QED
    BY <1>4, <1>5, <1>6

\* The daemon shows an alert under the id it was to replace, or a fresh one.
LEMMA PostAlerts ==
  ASSUME Types, FreshSuffices, AlertCalled, DaemonPosts
  PROVE  /\ AlertCalled'
         /\ \A c \in Containers :
              /\ Raises(c)' => Raises(c)
              /\ \A n \in Nids \ {None} : AlertSays(n, c)' =>
                   \/ AlertSays(n, c)
                   \/ /\ n = fresh /\ fresh' = fresh + 1
                      /\ c = Head(bus).face.container
  <1>1. bus # <<>> /\ Head(bus).op = "notify" /\ bus' = Tail(bus)
    BY PostReplies
  <1>2. PICK k \in Nids, m \in Message :
          /\ k = IF Head(bus).nid = None THEN fresh ELSE Head(bus).nid
          /\ screen' = [screen EXCEPT ![k] = Head(bus).face]
          /\ m.kind = "reply" /\ m.then = Head(bus).then /\ m.nid = k
          /\ inbox' = Append(inbox, m)
    BY PostReplies
  <1>3. /\ Elements(bus') \subseteq Elements(bus) /\ Head(bus) \in Elements(bus)
        /\ Elements(inbox') = Elements(inbox) \cup {m}
    BY <1>1, <1>2, ElementsTail, ElementsAppend DEF Types
  <1>4. UNCHANGED <<down, ready>>
    BY DEF DaemonPosts, stateVars
  <1>5. AlertCalled'
    BY <1>3 DEF AlertCalled
  <1>6. ASSUME NEW c \in Containers
        PROVE  ResumesAlert(m, c) => PostsAlert(Head(bus), c)
    BY <1>2, <1>3 DEF ResumesAlert, AlertCalled
  <1>7. ASSUME NEW c \in Containers
        PROVE  Raises(c)' => Raises(c)
    BY <1>3, <1>4, <1>6 DEF Raises
  <1>8. ASSUME NEW c \in Containers, NEW n \in Nids \ {None}, AlertSays(n, c)'
        PROVE  \/ AlertSays(n, c)
               \/ n = fresh /\ fresh' = fresh + 1 /\ c = Head(bus).face.container
    <2>1. ShowsAlert(screen'[n], c) =>
            ShowsAlert(screen[n], c) \/ (n = k /\ PostsAlert(Head(bus), c))
      BY <1>1, <1>2 DEF ShowsAlert, PostsAlert, Types
    <2>2. AlertSays(n, c) \/ (n = k /\ PostsAlert(Head(bus), c))
      BY <1>2, <1>3, <1>4, <1>6, <1>8, <2>1 DEF AlertSays
    <2>3. PostsAlert(Head(bus), c) => c = Head(bus).face.container
      BY DEF PostsAlert
    <2>4. CASE Head(bus).nid = None
      BY <1>2, <2>2, <2>3, <2>4 DEF DaemonPosts
    <2>5. CASE Head(bus).nid # None
      BY <1>2, <1>3, <2>2, <2>5 DEF AlertSays
    <2> QED
      BY <2>4, <2>5
  <1> QED
    BY <1>5, <1>7, <1>8

LEMMA OutsideAlerts ==
  ASSUME Types, AlertCalled, Outside, ~DaemonPosts
  PROVE  AlertCalled' /\ \A c \in Containers : AlertsKept(c)
  <1>0. bus \in Seq(Call) /\ inbox \in Seq(Message)
    BY DEF Types
  <1>1. CASE DaemonRefuses
    <2>1. /\ bus # <<>> /\ bus' = Tail(bus) /\ inbox' = Append(inbox, Reply(None, FALSE))
          /\ UNCHANGED <<down, screen, ready>>
      BY <1>1 DEF DaemonRefuses, stateVars, userVars
    <2>2. PICK m \in Message : /\ m = Reply(None, FALSE) /\ m.ok = FALSE
                               /\ m.then = Head(bus).then
      <3>1. Reply(None, FALSE) \in Message
        BY <2>1, BusHead DEF Reply, Message
      <3>2. Reply(None, FALSE).ok = FALSE /\ Reply(None, FALSE).then = Head(bus).then
        BY DEF Reply
      <3> QED
        BY <3>1, <3>2
    <2>3. /\ Elements(bus') \subseteq Elements(bus) /\ Head(bus) \in Elements(bus)
          /\ Elements(inbox') = Elements(inbox) \cup {m}
      <3>1. Elements(bus') \subseteq Elements(bus) /\ Head(bus) \in Elements(bus)
        BY <1>0, <2>1, ElementsTail
      <3>2. Elements(Append(inbox, m)) = Elements(inbox) \cup {m}
        BY <1>0, ElementsAppend
      <3> QED
        BY <2>1, <2>2, <3>1, <3>2
    <2>4. AlertCalled'
      BY <2>3 DEF AlertCalled
    <2>5. ASSUME NEW c \in Containers
          PROVE  AlertsKept(c)
      <3>1. ResumesAlert(m, c) => PostsAlert(Head(bus), c)
        BY <2>2, <2>3 DEF ResumesAlert, AlertCalled
      <3>2. Raises(c)' => Raises(c)
        BY <2>1, <2>3, <3>1 DEF Raises
      <3>3. \A n \in Nids \ {None} : AlertSays(n, c)' => AlertSays(n, c)
        BY <2>1, <2>2, <2>3 DEF AlertSays
      <3> QED
        BY <3>2, <3>3 DEF AlertsKept
    <2> QED
      BY <2>4, <2>5
  <1>2. CASE DaemonCloses
    <2>1. PICK k, m \in Message :
            /\ k.kind = "closed" /\ m.kind = "reply" /\ m.then = Head(bus).then
            /\ inbox' = Append(inbox, m) \/ inbox' = Append(Append(inbox, k), m)
      BY <1>2, CloseReplies
    <2>2. /\ bus # <<>> /\ bus' = Tail(bus) /\ Head(bus).op = "close" /\ Head(bus).nid \in Nids
          /\ screen' = [screen EXCEPT ![Head(bus).nid] = None]
      BY <1>2, CloseReplies
    <2>3. UNCHANGED <<down, ready>>
      BY <1>2 DEF DaemonCloses, stateVars
    <2>4. Elements(inbox') \subseteq Elements(inbox) \cup {k, m}
      <3>1. Append(inbox, k) \in Seq(Message) /\ Elements(Append(inbox, k)) = Elements(inbox) \cup {k}
        BY <1>0, AppendElements, ElementsAppend
      <3>2. Elements(Append(inbox, m)) = Elements(inbox) \cup {m}
        BY <1>0, ElementsAppend
      <3> DEFINE one == Append(inbox, k)
      <3>3. Elements(Append(one, m)) = Elements(one) \cup {m}
        <4>1. one \in Seq(Message)
          BY <3>1
        <4> HIDE DEF one
        <4> QED
          BY <4>1, ElementsAppend
      <3> QED
        BY <2>1, <3>1, <3>2, <3>3
    <2>5. Elements(bus') \subseteq Elements(bus) /\ Head(bus) \in Elements(bus)
      BY <1>0, <2>2, ElementsTail
    <2>6. AlertCalled'
      BY <2>5 DEF AlertCalled
    <2>7. ASSUME NEW c \in Containers
          PROVE  AlertsKept(c)
      <3>1. ~ResumesAlert(k, c) /\ ~ResumesAlert(m, c)
        BY <2>1, <2>2, <2>5 DEF ResumesAlert, AlertCalled, PostsAlert
      <3>2. \A n \in Nids : ShowsAlert(screen'[n], c) => ShowsAlert(screen[n], c)
        BY <2>2 DEF ShowsAlert, Types
      <3>3. Raises(c)' => Raises(c)
        BY <2>3, <2>4, <2>5, <3>1 DEF Raises
      <3>4. \A n \in Nids \ {None} : AlertSays(n, c)' => AlertSays(n, c)
        BY <2>3, <2>4, <2>5, <3>1, <3>2 DEF AlertSays
      <3> QED
        BY <3>3, <3>4 DEF AlertsKept
    <2> QED
      BY <2>6, <2>7
  <1>3. ASSUME NEW k \in Nids, UserClicks(k) PROVE NoNewAlerts
    <2> DEFINE m == [kind |-> "action", nid |-> k,
                     shown |-> [container |-> screen[k].container, target |-> screen[k].target]]
    <2>1. screen[k] \in Shown /\ screen[k].kind = "prompt"
      BY <1>3 DEF UserClicks, Types
    <2>2. m \in Message /\ m.kind # "reply"
      BY <2>1 DEF Shown, Face, Message, Subject
    <2>3. inbox' = Append(inbox, m)
      BY <1>3 DEF UserClicks
    <2> HIDE DEF m
    <2>4. Elements(inbox') = Elements(inbox) \cup {m}
      BY <1>0, <2>2, <2>3, ElementsAppend
    <2>5. UNCHANGED <<down, screen, bus, ready>>
      BY <1>3 DEF UserClicks, stateVars, userVars
    <2> QED
      BY <2>2, <2>4, <2>5 DEF NoNewAlerts
  <1>4. ASSUME NEW k \in Nids, PopupGoes(k) PROVE NoNewAlerts
    <2> DEFINE m == [kind |-> "closed", nid |-> k]
    <2>1. m \in Message /\ m.kind # "reply"
      BY DEF Message
    <2>2. inbox' = Append(inbox, m) /\ screen' = [screen EXCEPT ![k] = None]
      BY <1>4 DEF PopupGoes, Put
    <2> HIDE DEF m
    <2>3. Elements(inbox') = Elements(inbox) \cup {m}
      BY <1>0, <2>1, <2>2, ElementsAppend
    <2>4. \A n \in Nids : screen'[n] \in {screen[n], None}
      BY <2>2 DEF Types
    <2>5. UNCHANGED <<down, bus, ready>>
      BY <1>4 DEF PopupGoes, stateVars
    <2> QED
      BY <2>1, <2>3, <2>4, <2>5 DEF NoNewAlerts
  <1> QED
    BY <1>1, <1>2, <1>3, <1>4, NoNewAlertsKeeps DEF Outside

LEMMA StopAlerts ==
  ASSUME Types, AlertCalled, Stop
  PROVE  AlertCalled' /\ \A c \in Containers : AlertsKept(c)
  <1>1. CASE StopBegins \/ StopEnds
    <2>1. Cancel(Task) \/ Cancel(Inline)
      BY <1>1 DEF StopBegins, StopEnds
    <2>2. screen' = screen /\ \A c \in Containers : down'[c] \in {down[c], None}
      BY <1>1 DEF StopBegins, StopEnds, stateVars, userVars
    <2>3. Harmless(Nothing)
      BY DEF Harmless, Nothing
    <2>4. NoNewAlerts
      BY <2>1, <2>2, <2>3, CancelledElements DEF NoNewAlerts
    <2> QED
      BY <2>4, NoNewAlertsKeeps
  <1>2. CASE StopClosesClient
    BY <1>2, NoNewAlertsKeeps DEF StopClosesClient, stateVars, loopVars, userVars, NoNewAlerts
  <1> QED
    BY <1>1, <1>2 DEF Stop

\* Whatever the step, an alert is raised by shield_down alone, and only the daemon
\* gives it a new id.
LEMMA AlertsStep ==
  ASSUME Types, FreshSuffices, AlertCalled, [Next]_vars
  PROVE  /\ AlertCalled'
         /\ \A c \in Containers :
              /\ Raises(c)' => Raises(c) \/ ShieldDown(c)
              /\ \A n \in Nids \ {None} : AlertSays(n, c)' =>
                   \/ AlertSays(n, c)
                   \/ /\ n = fresh /\ fresh' = fresh + 1
                      /\ c = Head(bus).face.container
  <1>1. CASE Loop \/ (Outside /\ ~DaemonPosts) \/ Stop
    <2>1. AlertCalled' /\ \A c \in Containers : AlertsKept(c)
      BY <1>1, RunAlerts, ReceiveAlerts, OutsideAlerts, StopAlerts DEF Loop
    <2> QED
      BY <2>1 DEF AlertsKept
  <1>2. CASE UNCHANGED vars
    BY <1>2 DEF vars, AlertCalled, Raises, AlertSays
  <1>3. CASE HubEvent
    BY <1>3, HubEventAlerts
  <1>4. CASE DaemonPosts
    BY <1>4, PostAlerts
  <1> QED
    BY <1>1, <1>2, <1>3, <1>4 DEF Next

\* The history of an alert on record changes on lifecycle events only.
LEMMA RecordedMoves ==
  ASSUME Types, [Next]_vars, recorded \in [Containers -> Nids \cup {None}],
         shield \in [Containers -> {"up", "down"}]
  PROVE  /\ recorded' \in [Containers -> Nids \cup {None}]
         /\ shield' \in [Containers -> {"up", "down"}]
         /\ \A c \in Containers :
              /\ \/ recorded'[c] = recorded[c]
                 \/ recorded'[c] \in {down[c], None}
              /\ ShieldDown(c) => ~Recorded(c)'
              /\ Recorded(c)' => \/ Recorded(c) /\ recorded'[c] = recorded[c]
                                 \/ Quiet /\ ShieldUp(c) /\ recorded'[c] = down[c]
  <1>1. ASSUME NEW d \in Containers, ShieldDown(d)
        PROVE  /\ recorded' = recorded /\ shield' = [shield EXCEPT ![d] = "down"]
    BY <1>1 DEF ShieldDown, Put
  <1>2. ASSUME NEW d \in Containers, ShieldUp(d)
        PROVE  /\ recorded' = [recorded EXCEPT ![d] = IF Quiet THEN down[d] ELSE None]
               /\ shield' = [shield EXCEPT ![d] = "up"]
    BY <1>2 DEF ShieldUp, Put
  <1>3. CASE UNCHANGED <<recorded, shield>>
    <2>1. ASSUME NEW c \in Containers, ShieldDown(c)
          PROVE  ~Recorded(c)'
      BY <1>1, <2>1 DEF Recorded
    <2> QED
      BY <1>3, <2>1 DEF Recorded
  <1>4. CASE \E d \in Containers : ShieldDown(d)
    <2>1. PICK d \in Containers : ShieldDown(d)
      BY <1>4
    <2>2. recorded' = recorded /\ shield' = [shield EXCEPT ![d] = "down"]
      BY <1>1, <2>1
    <2>3. ASSUME NEW c \in Containers, ShieldDown(c)
          PROVE  ~Recorded(c)'
      BY <1>1, <2>3 DEF Recorded
    <2> QED
      BY <2>2, <2>3 DEF Recorded
  <1>5. CASE \E d \in Containers : ShieldUp(d)
    <2>1. PICK d \in Containers : ShieldUp(d)
      BY <1>5
    <2>2. /\ recorded' = [recorded EXCEPT ![d] = IF Quiet THEN down[d] ELSE None]
          /\ shield' = [shield EXCEPT ![d] = "up"]
      BY <1>2, <2>1
    <2>3. ASSUME NEW c \in Containers, ShieldDown(c)
          PROVE  ~Recorded(c)'
      BY <1>1, <2>3 DEF Recorded
    <2>4. down[d] \in Nids \cup {None}
      BY DEF Types
    <2> QED
      BY <2>1, <2>2, <2>3, <2>4 DEF Recorded
  <1>6. \/ UNCHANGED <<recorded, shield>>
        \/ \E d \in Containers : ShieldDown(d) \/ ShieldUp(d)
    BY DEF Next, HubEvent, Loop, Outside, Stop, vars, Blocked, VerdictApplied,
           ContainerExited, RunPrompted, RunReported, RunPurge, RunAlert, RunAlerted, RunRetract,
           RunSend, RunCancelled, ReceiveReply, ReceiveAction, ReceiveClosed, DaemonPosts,
           DaemonRefuses, DaemonCloses, UserClicks, PopupGoes, StopBegins, StopClosesClient,
           StopEnds, pastVars
  <1> QED
    BY <1>3, <1>4, <1>5, <1>6

LEMMA AlertsAgreeStep ==
  ASSUME Types, Types', FreshSuffices, AlertCalled, AlertsAgree, [Next]_vars,
         recorded \in [Containers -> Nids \cup {None}],
         shield \in [Containers -> {"up", "down"}]
  PROVE  AlertsAgree'
  <1>1. ASSUME NEW n \in Nids \ {None}, NEW c \in Containers, Claims(n, c)'
        PROVE  \/ Claims(n, c)
               \/ n = fresh /\ fresh' = fresh + 1 /\ c = Head(bus).face.container
    <2>1. CASE recorded'[c] = n
      <3>1. recorded'[c] = recorded[c] \/ recorded'[c] \in {down[c], None}
        BY RecordedMoves
      <3> QED
        BY <2>1, <3>1 DEF Claims, AlertSays
    <2>2. CASE AlertSays(n, c)'
      BY <2>2, AlertsStep DEF Claims
    <2> QED
      BY <1>1, <2>1, <2>2 DEF Claims
  <1>2. fresh' = fresh \/ fresh' = fresh + 1
    BY DEF Next, HubEvent, Loop, Outside, Stop, vars, Blocked, VerdictApplied, ShieldDown, ShieldUp,
           ContainerExited, RunPrompted, RunReported, RunPurge, RunAlert, RunAlerted, RunRetract,
           RunSend, RunCancelled, ReceiveReply, ReceiveAction, ReceiveClosed, DaemonPosts,
           DaemonRefuses, DaemonCloses, UserClicks, PopupGoes, StopBegins, StopClosesClient,
           StopEnds, userVars
  <1>3. \A n \in Nids : /\ n \in Nat /\ (n < fresh => n < fresh' /\ n # fresh)
                        /\ (n = fresh /\ fresh' = fresh + 1 => n < fresh')
    BY <1>2, SubscriberAssumption DEF Nids, Types, SubscriberAssumption
  <1>4. ASSUME NEW n \in Nids \ {None}, NEW c \in Containers, NEW d \in Containers,
               Claims(n, c)'
        PROVE  n < fresh' /\ (Claims(n, d)' => c = d)
    <2>1. Claims(n, c) => n < fresh /\ (Claims(n, d) => c = d)
      BY DEF AlertsAgree
    <2>2. Claims(n, d) => n < fresh
      BY DEF AlertsAgree
    <2> QED
      BY <1>1, <1>3, <1>4, <2>1, <2>2
  <1> QED
    BY <1>4 DEF AlertsAgree

LEMMA NoneRaisedStep ==
  ASSUME Types, FreshSuffices, AlertCalled, NoneRaised, [Next]_vars,
         recorded \in [Containers -> Nids \cup {None}],
         shield \in [Containers -> {"up", "down"}]
  PROVE  NoneRaised'
  <1>1. ASSUME NEW c \in Containers, Recorded(c)', Raises(c)'
        PROVE  FALSE
    <2>1. Raises(c)
      BY <1>1, AlertsStep, RecordedMoves
    <2>2. Quiet => ~Raises(c)
      BY DEF Quiet, Raises, Elements
    <2> QED
      BY <1>1, <2>1, <2>2, RecordedMoves DEF NoneRaised
  <1> QED
    BY <1>1 DEF NoneRaised

\* The elements of a queue are its head and those of its tail.
LEMMA ElementsLeft ==
  ASSUME NEW S, NEW q \in Seq(S), q # <<>>
  PROVE  \A x \in Elements(q) : x \in Elements(Tail(q)) \/ x = Head(q)
  <1>1. \A i \in DOMAIN q : i = 1 \/ (i - 1 \in DOMAIN Tail(q) /\ Tail(q)[i - 1] = q[i])
    OBVIOUS
  <1>2. q[1] = Head(q)
    OBVIOUS
  <1> TAKE x \in Elements(q)
  <1>3. PICK i \in DOMAIN q : x = q[i]
    BY DEF Elements
  <1>4. CASE i = 1
    BY <1>2, <1>3, <1>4
  <1>5. CASE i # 1
    <2>1. i - 1 \in DOMAIN Tail(q) /\ Tail(q)[i - 1] = x
      BY <1>1, <1>3, <1>5
    <2> QED
      BY <2>1 DEF Elements
  <1> QED
    BY <1>4, <1>5

\* A purge and a retraction close a popup, or nothing.
LEMMA ClosesOrNot ==
  ASSUME Types, RunPurge \/ RunRetract
  PROVE  \/ \E call \in Call :
              /\ call.op = "close" /\ call.nid = down[Job.container]
              /\ bus' = Append(bus, call)
              /\ down' = [down EXCEPT ![Job.container] = None]
         \/ /\ down' = down
            /\ bus' = bus \/ \E call \in Call : bus' = Append(bus, call)
            /\ RunRetract => down[Job.container] = None
  <1>1. ASSUME NEW c \in Containers, down[c] # None, Close(down[c], Nothing)
        PROVE  \E call \in Call : /\ call.op = "close" /\ call.nid = down[c]
                                  /\ bus' = Append(bus, call)
    <2>1. down[c] \in Nids /\ Nothing \in Awaited /\ Nothing.do # "prompted"
      BY <1>1, JobsMade DEF Types, Nothing
    <2> QED
      BY <1>1, <2>1, CloseTypes
  <1>2. CASE RunPurge
    <2>1. Job.container \in Containers /\ ~RunRetract
      BY <1>2, PurgeRuns DEF RunPurge, RunRetract, Running
    <2>2. CASE \E stale \in Stale, j \in Awaited :
                 j.do = "purge" /\ UNCHANGED down /\ Close(stale.nid, j)
      <3>1. PICK stale \in Stale, j \in Awaited :
              j.do = "purge" /\ UNCHANGED down /\ Close(stale.nid, j)
        BY <2>2
      <3>2. stale.nid \in Nids
        BY DEF Stale
      <3> QED
        BY <2>1, <3>1, <3>2, CloseTypes
    <2>3. CASE /\ down[Job.container] # None /\ Close(down[Job.container], Nothing)
               /\ down' = [down EXCEPT ![Job.container] = None]
      BY <1>1, <2>1, <2>3
    <2>4. CASE UNCHANGED <<stateVars, bus>>
      BY <2>1, <2>4 DEF stateVars
    <2> QED
      BY <1>2, <2>2, <2>3, <2>4, PurgeRuns
  <1>3. CASE RunRetract
    <2>1. Job.container \in Containers
      BY <1>3, RunHead, JobFields DEF RunRetract
    <2>2. CASE down[Job.container] # None
      <3>1. Close(down[Job.container], Nothing) /\ down' = [down EXCEPT ![Job.container] = None]
        BY <1>3, <2>2 DEF RunRetract, Put
      <3> QED
        BY <1>1, <2>1, <2>2, <3>1
    <2>3. CASE down[Job.container] = None
      BY <1>3, <2>3 DEF RunRetract
    <2> QED
      BY <2>2, <2>3
  <1> QED
    BY <1>2, <1>3

Runs == RunPrompted \/ RunReported \/ RunPurge \/ RunAlert \/ RunAlerted
        \/ RunRetract \/ RunSend \/ RunCancelled

Answers == DaemonPosts \/ DaemonRefuses \/ DaemonCloses

Receives == ReceiveReply \/ ReceiveAction \/ ReceiveClosed

\* A job leaves the event loop when it runs, a call leaves the bus when the daemon
\* takes it, a message the inbox when it is received: or else stop() cancels it.
EntriesStay ==
  \A e \in Elements(ready) :
    \/ e \in Elements(ready') \/ (e = Head(ready) /\ Runs)
    \/ phase' # "running" /\ Task(e.job)

CallsStay ==
  \A x \in Elements(bus) :
    \/ x \in Elements(bus') \/ (bus # <<>> /\ x = Head(bus) /\ Answers)
    \/ phase' # "running" /\ Task(x.then)

MessagesStay ==
  \A m \in Elements(inbox) :
    \/ m \in Elements(inbox') \/ (m = Head(inbox) /\ Receives)
    \/ phase' # "running" /\ m.kind = "reply" /\ Task(m.then)

\* What is cancelled is a task.
LEMMA TasksCancelled ==
  ASSUME Types, Cancel(Task)
  PROVE  /\ \A e \in Elements(ready) : e \in Elements(ready') \/ Task(e.job)
         /\ \A x \in Elements(bus) : x \in Elements(bus') \/ Task(x.then)
         /\ \A m \in Elements(inbox) : m \in Elements(inbox') \/ (m.kind = "reply" /\ Task(m.then))
  <1>1. /\ DOMAIN ready' = DOMAIN ready /\ DOMAIN bus' = DOMAIN bus /\ DOMAIN inbox' = DOMAIN inbox
        /\ \A i \in DOMAIN ready : ready'[i] = ready[i] \/ Task(ready[i].job)
        /\ \A i \in DOMAIN bus : bus'[i] = bus[i] \/ Task(bus[i].then)
        /\ \A i \in DOMAIN inbox :
             inbox'[i] = inbox[i] \/ (inbox[i].kind = "reply" /\ Task(inbox[i].then))
    BY DEF Cancel
  <1> QED
    BY <1>1 DEF Elements

\* Whatever is appended, the elements stay.
LEMMA AnyAppend ==
  ASSUME NEW S, NEW q \in Seq(S), NEW x
  PROVE  Elements(q) \subseteq Elements(Append(q, x))
  BY DEF Elements

\* What the daemon and the user send is added to the inbox.
LEMMA InboxGrows ==
  ASSUME Types, Outside
  PROVE  Elements(inbox) \subseteq Elements(inbox')
  <1>1. \A m \in Message : /\ Append(inbox, m) \in Seq(Message)
                           /\ Elements(inbox) \subseteq Elements(Append(inbox, m))
    BY ElementsAppend, AppendElements DEF Types
  <1>2. CASE DaemonPosts
    <2>1. bus # <<>> /\ Head(bus).op = "notify"
      BY <1>2 DEF DaemonPosts
    <2> DEFINE n == IF Head(bus).nid = None THEN fresh ELSE Head(bus).nid
               m == Reply(n, TRUE)
    <2>2. inbox' = Append(inbox, m)
      BY <1>2 DEF DaemonPosts
    <2> QED
      BY <2>2, AnyAppend DEF Types
  <1>3. CASE DaemonRefuses
    BY <1>3, AnyAppend DEF DaemonRefuses, Types
  <1>4. CASE DaemonCloses
    <2>1. PICK k, m \in Message :
            inbox' = Append(inbox, m) \/ inbox' = Append(Append(inbox, k), m)
      BY <1>4, CloseReplies
    <2>2. PICK one \in Seq(Message) : one = Append(inbox, k)
      BY <1>1
    <2>3. Elements(one) \subseteq Elements(Append(one, m))
      BY AnyAppend
    <2>4. Elements(inbox) \subseteq Elements(one)
      BY <1>1, <2>2
    <2> QED
      BY <1>1, <2>1, <2>2, <2>3, <2>4
  <1>5. ASSUME NEW n \in Nids, UserClicks(n) \/ PopupGoes(n)
        PROVE  Elements(inbox) \subseteq Elements(inbox')
    BY <1>5, AnyAppend DEF UserClicks, PopupGoes, Types
  <1> QED
    BY <1>2, <1>3, <1>4, <1>5 DEF Outside

LEMMA QueuesMove ==
  ASSUME Types, [Next]_vars, phase' # "stopped"
  PROVE  /\ phase # "stopped" /\ (phase' = "running" => phase = "running")
         /\ EntriesStay /\ CallsStay /\ MessagesStay
  <1>0. bus \in Seq(Call) /\ ready \in Seq(Entry) /\ inbox \in Seq(Message)
    BY DEF Types
  <1>1. /\ \A x \in Call : Elements(bus) \subseteq Elements(Append(bus, x))
        /\ \A e \in Entry : /\ Append(ready, e) \in Seq(Entry)
                            /\ Elements(ready) \subseteq Elements(Append(ready, e))
        /\ \A m \in Message : /\ Append(inbox, m) \in Seq(Message)
                              /\ Elements(inbox) \subseteq Elements(Append(inbox, m))
    BY <1>0, ElementsAppend, AppendElements
  <1>2. /\ bus # <<>> => \A x \in Elements(bus) : x \in Elements(Tail(bus)) \/ x = Head(bus)
        /\ ready # <<>> => \A e \in Elements(ready) : e \in Elements(Tail(ready)) \/ e = Head(ready)
        /\ inbox # <<>> => \A m \in Elements(inbox) : m \in Elements(Tail(inbox)) \/ m = Head(inbox)
    BY <1>0, ElementsLeft
  <1> DEFINE Stay == EntriesStay /\ CallsStay /\ MessagesStay
  <1>3. CASE HubEvent
    <2>1. ASSUME NEW c \in Containers, NEW t \in Targets, NEW r \in Requests, Blocked(c, t, r)
          PROVE  phase' = phase /\ Stay
      <3>1. PICK call \in Call : bus' = Append(bus, call)
        BY <2>1, BlockedCalls
      <3>2. UNCHANGED <<phase, ready, inbox>>
        BY <2>1 DEF Blocked
      <3> QED
        BY <1>1, <3>1, <3>2 DEF EntriesStay, CallsStay, MessagesStay
    <2>2. ASSUME NEW r \in Requests, VerdictApplied(r)
          PROVE  phase' = phase /\ Stay
      <3>1. PICK call \in Call : bus' = Append(bus, call) \/ bus' = bus
        BY <2>2, VerdictCalls
      <3>2. UNCHANGED <<phase, ready, inbox>>
        BY <2>2 DEF VerdictApplied
      <3>3. Elements(bus) \subseteq Elements(bus')
        BY <1>1, <3>1
      <3> QED
        BY <3>2, <3>3 DEF EntriesStay, CallsStay, MessagesStay
    <2>3. ASSUME NEW c \in Containers, ShieldDown(c) \/ ShieldUp(c) \/ ContainerExited(c)
          PROVE  phase' = phase /\ Stay
      <3>1. PICK j \in Jobs :
              /\ j.do \in {"purge", "retract"}
              /\ \/ ready' = Append(ready, Started(j))
                 \/ \E k \in Jobs :
                      /\ k.do = "alert"
                      /\ ready' = Append(Append(ready, Started(j)), Started(k))
        BY <2>3, LifecycleTasks
      <3>2. Started(j) \in Entry /\ \A k \in Jobs : k.do = "alert" => Started(k) \in Entry
        BY <3>1, StartedIsEntry
      <3> DEFINE one == Append(ready, Started(j))
      <3>3. one \in Seq(Entry) /\ Elements(ready) \subseteq Elements(one)
        BY <1>1, <3>2
      <3> HIDE DEF one
      <3>4. \A k \in Jobs : k.do = "alert" => Elements(one) \subseteq Elements(Append(one, Started(k)))
        BY <3>2, <3>3, ElementsAppend
      <3>5. UNCHANGED <<phase, bus, inbox>>
        BY <2>3 DEF ShieldDown, ShieldUp, ContainerExited
      <3>6. Elements(ready) \subseteq Elements(ready')
        BY <3>1, <3>3, <3>4 DEF one
      <3> QED
        BY <3>5, <3>6 DEF EntriesStay, CallsStay, MessagesStay
    <2> QED
      BY <1>3, <2>1, <2>2, <2>3 DEF HubEvent
  <1>4. CASE Runs
    <2>1. ready # <<>> /\ ready' = Tail(ready) /\ phase' = phase /\ inbox' = inbox
      BY <1>4 DEF Runs, RunPrompted, RunReported, RunPurge, RunAlert, RunAlerted, RunRetract,
                  RunSend, RunCancelled, Running
    <2>2. bus' = bus \/ \E call : bus' = Append(bus, call) /\ call \in Call
      <3>1. CASE RunPrompted \/ RunReported \/ RunAlerted \/ RunSend \/ RunCancelled
        BY <3>1 DEF RunPrompted, RunReported, RunAlerted, RunSend, RunCancelled
      <3>2. CASE RunAlert
        BY <3>2, AlertCalls
      <3>3. CASE RunPurge \/ RunRetract
        BY <3>3, ClosesOrNot
      <3> QED
        BY <1>4, <3>1, <3>2, <3>3 DEF Runs
    <2>3. Elements(bus) \subseteq Elements(bus')
      BY <1>1, <2>2
    <2> QED
      BY <1>2, <1>4, <2>1, <2>3 DEF EntriesStay, CallsStay, MessagesStay
  <1>5. CASE Receives
    <2>1. bus' = bus /\ phase' = phase /\ inbox # <<>> /\ inbox' = Tail(inbox)
      BY <1>5 DEF Receives, ReceiveReply, ReceiveAction, ReceiveClosed
    <2>2. ready' = ready \/ \E e \in Entry : ready' = Append(ready, e)
      <3>1. \A j \in Jobs : j.do = "send" => Started(j) \in Entry
        BY StartedIsEntry
      <3>2. CASE ReceiveReply
        BY <3>2, ReplyResumes
      <3>3. CASE ReceiveAction
        BY <3>1, <3>3, ClickSends
      <3>4. CASE ReceiveClosed
        BY <3>4 DEF ReceiveClosed
      <3> QED
        BY <1>5, <3>2, <3>3, <3>4 DEF Receives
    <2>3. Elements(ready) \subseteq Elements(ready')
      BY <1>1, <2>2
    <2> QED
      BY <1>2, <1>5, <2>1, <2>3 DEF EntriesStay, CallsStay, MessagesStay
  <1>6. CASE Outside
    <2>1. UNCHANGED <<phase, ready>>
      BY <1>6 DEF Outside, DaemonPosts, DaemonRefuses, DaemonCloses, UserClicks, PopupGoes
    <2>2. bus' = bus \/ (bus # <<>> /\ bus' = Tail(bus) /\ Answers)
      BY <1>6 DEF Outside, Answers, DaemonPosts, DaemonRefuses, DaemonCloses, UserClicks, PopupGoes
    <2>3. Elements(inbox) \subseteq Elements(inbox')
      BY <1>6, InboxGrows
    <2> QED
      BY <1>2, <2>1, <2>2, <2>3 DEF EntriesStay, CallsStay, MessagesStay
  <1>7. CASE UNCHANGED vars
    BY <1>7 DEF vars, EntriesStay, CallsStay, MessagesStay
  <1>8. CASE Stop
    <2>1. CASE StopBegins
      BY <2>1, TasksCancelled DEF StopBegins, Underway, EntriesStay, CallsStay, MessagesStay
    <2>2. CASE StopClosesClient
      BY <2>2 DEF StopClosesClient, loopVars, EntriesStay, CallsStay, MessagesStay
    <2>3. ~StopEnds
      BY DEF StopEnds
    <2> QED
      BY <1>8, <2>1, <2>2, <2>3 DEF Stop
  <1> QED
    BY <1>3, <1>4, <1>5, <1>6, <1>7, <1>8 DEF Next, Loop, Runs, Receives

\* The record of an alert goes when its close is called, or when another alert of
\* its container takes its place.
LEMMA DownMoves ==
  ASSUME Types, [Next]_vars, phase' = "running", NEW c \in Containers, down[c] # None
  PROVE  \/ down'[c] = down[c]
         \/ Raises(c)
         \/ \E x \in Elements(bus') : x.op = "close" /\ x.nid = down[c]
  <1>1. CASE RunPurge \/ RunRetract
    <2>1. CASE \E call \in Call :
                 /\ call.op = "close" /\ call.nid = down[Job.container]
                 /\ bus' = Append(bus, call)
                 /\ down' = [down EXCEPT ![Job.container] = None]
      <3>1. PICK call \in Call :
              /\ call.op = "close" /\ call.nid = down[Job.container]
              /\ bus' = Append(bus, call)
              /\ down' = [down EXCEPT ![Job.container] = None]
        BY <2>1
      <3>2. call \in Elements(bus')
        BY <3>1, ElementsAppend DEF Types
      <3> QED
        BY <3>1, <3>2 DEF Types
    <2>2. CASE down' = down
      BY <2>2
    <2> QED
      BY <1>1, <2>1, <2>2, ClosesOrNot
  <1>2. CASE RunAlerted
    <2>1. Job = Head(ready).job /\ Job.do = "alerted" /\ ready # <<>>
      BY <1>2 DEF RunAlerted, Running, Job
    <2>2. Head(ready) \in Elements(ready)
      BY <2>1, ElementsTail DEF Types
    <2>3. down' = [down EXCEPT ![Job.container] = Head(ready).nid] \/ down' = down
      BY <1>2 DEF RunAlerted, Put
    <2>4. Job.container = c => Raises(c)
      BY <2>1, <2>2 DEF Raises, AlertJob
    <2> QED
      BY <2>3, <2>4 DEF Types
  <1>3. ~StopEnds
    BY DEF StopEnds
  <1> QED
    BY <1>1, <1>2, <1>3
    DEF Next, HubEvent, Loop, Outside, Stop, vars, Blocked, VerdictApplied, ShieldDown, ShieldUp,
        ContainerExited, RunPrompted, RunReported, RunAlert, RunSend, RunCancelled, ReceiveReply,
        ReceiveAction, ReceiveClosed, DaemonPosts, DaemonRefuses, DaemonCloses, UserClicks,
        PopupGoes, StopBegins, StopClosesClient, stateVars

\* A shield_up that comes in on a settled screen starts the task that closes the
\* alert on record.
LEMMA ShieldUpRetracts ==
  ASSUME Types, NEW c \in Containers, ShieldUp(c)
  PROVE  /\ down' = down
         /\ \E e \in Elements(ready') : e.job.do = "retract" /\ e.job.container = c
  <1> DEFINE retract == [do |-> "retract", container |-> c]
  <1>1. retract \in Jobs /\ retract.do = "retract" /\ retract.container = c
    BY JobsMade
  <1>2. ready' = Dispatched(<<retract>>) /\ down' = down
    BY DEF ShieldUp, stateVars
  <1> HIDE DEF retract
  <1>3. ready' = Append(ready, Started(retract))
    BY <1>1, <1>2, DispatchAppends DEF Types
  <1>4. Started(retract) \in Entry /\ Started(retract).job = retract
    BY <1>1, StartedIsEntry
  <1>5. Started(retract) \in Elements(ready')
    BY <1>3, <1>4, ElementsAppend DEF Types
  <1> QED
    BY <1>1, <1>2, <1>4, <1>5

\* An alert comes on screen only when the daemon takes the call that posts it.
LEMMA ScreenMoves ==
  ASSUME Types, FreshSuffices, [Next]_vars, NEW n \in Nids
  PROVE  \/ screen'[n] \in {screen[n], None}
         \/ /\ DaemonPosts /\ screen'[n] = Head(bus).face
            /\ n = IF Head(bus).nid = None THEN fresh ELSE Head(bus).nid
  <1>1. CASE DaemonPosts
    <2>1. PICK k \in Nids :
            /\ k = IF Head(bus).nid = None THEN fresh ELSE Head(bus).nid
            /\ screen' = [screen EXCEPT ![k] = Head(bus).face]
      BY <1>1, PostReplies
    <2> QED
      BY <1>1, <2>1 DEF Types
  <1>2. CASE DaemonCloses
    BY <1>2, CloseReplies DEF Types
  <1>3. ASSUME NEW k \in Nids, PopupGoes(k)
        PROVE  screen'[n] \in {screen[n], None}
    BY <1>3 DEF PopupGoes, Put, Types
  <1>4. CASE UNCHANGED screen
    BY <1>4
  <1> QED
    BY <1>1, <1>2, <1>3, <1>4
    DEF Next, HubEvent, Loop, Outside, Stop, vars, Blocked, VerdictApplied, ShieldDown, ShieldUp,
        ContainerExited, RunPrompted, RunReported, RunPurge, RunAlert, RunAlerted, RunRetract,
        RunSend, RunCancelled, ReceiveReply, ReceiveAction, ReceiveClosed,
        DaemonRefuses, UserClicks, StopBegins, StopClosesClient, StopEnds, userVars

LEMMA WithdrawnStep ==
  ASSUME Types, Types', FreshSuffices, NoneRaised, AlertsAgree, Withdrawn, [Next]_vars,
         recorded \in [Containers -> Nids \cup {None}],
         shield \in [Containers -> {"up", "down"}]
  PROVE  Withdrawn'
  <1> SUFFICES ASSUME phase' = "running", NEW c \in Containers, Recorded(c)'
               PROVE  Withdraws(c)'
    BY DEF Withdrawn
  <1>1. CASE ShieldUp(c) /\ recorded'[c] = down[c]
    BY <1>1, ShieldUpRetracts DEF Withdraws
  <1>2. CASE Recorded(c) /\ recorded'[c] = recorded[c]
    <2> DEFINE n == recorded[c]
    <2>1. n \in Nids \ {None} /\ Withdraws(c) /\ ~Raises(c)
      BY <1>2, QueuesMove DEF Recorded, Withdrawn, NoneRaised
    <2>2. Claims(n, c)
      BY DEF Claims
    <2>3. recorded'[c] = n
      BY <1>2
    <2>5. CASE down[c] = n /\ \E e \in Elements(ready) : e.job.do = "retract" /\ e.job.container = c
      <3>1. PICK e \in Elements(ready) : e.job.do = "retract" /\ e.job.container = c
        BY <2>5
      <3>2. CASE \E x \in Elements(bus') : x.op = "close" /\ x.nid = n
        BY <2>3, <3>2 DEF Withdraws
      <3>3. CASE down'[c] = n /\ e \in Elements(ready')
        BY <2>3, <3>1, <3>3 DEF Withdraws
      <3>4. CASE down'[c] = n /\ e = Head(ready) /\ Runs
        <4>1. RunRetract /\ Job.container = c
          BY <3>1, <3>4 DEF Runs, RunPrompted, RunReported, RunPurge, RunAlert, RunAlerted,
                            RunSend, RunCancelled, Running, Job
        <4>2. down'[c] = None
          BY <2>1, <2>5, <4>1, ClosesOrNot DEF Types
        <4> QED
          BY <2>1, <3>4, <4>2
      <3>5. down'[c] = n \/ \E x \in Elements(bus') : x.op = "close" /\ x.nid = n
        BY <2>1, <2>5, DownMoves
      <3> QED
        BY <3>2, <3>3, <3>4, <3>5, QueuesMove DEF EntriesStay
    <2>6. CASE \E x \in Elements(bus) : x.op = "close" /\ x.nid = n
      <3>1. PICK x \in Elements(bus) : x.op = "close" /\ x.nid = n
        BY <2>6
      <3>2. CASE x \in Elements(bus')
        BY <2>3, <3>1, <3>2 DEF Withdraws
      <3>3. CASE x = Head(bus) /\ Answers
        <4>1. DaemonCloses
          BY <3>1, <3>3 DEF Answers, DaemonPosts, DaemonRefuses
        <4>2. screen'[n] = None
          BY <2>1, <3>1, <3>3, <4>1, CloseReplies DEF Types
        <4> QED
          BY <2>3, <4>2 DEF Withdraws
      <3> QED
        BY <3>2, <3>3, QueuesMove DEF CallsStay
    <2>7. CASE screen[n] = None \/ screen[n].kind # "alert"
      <3>1. CASE screen'[n] \in {screen[n], None}
        BY <2>3, <2>7, <3>1 DEF Withdraws
      <3>2. CASE /\ DaemonPosts /\ screen'[n] = Head(bus).face
                 /\ n = IF Head(bus).nid = None THEN fresh ELSE Head(bus).nid
        <4>1. n < fresh /\ n \in Nat /\ fresh \in Nat
          BY <2>1, <2>2, SubscriberAssumption DEF AlertsAgree, Nids, Types, SubscriberAssumption
        <4>2. Head(bus).nid = n /\ bus # <<>> /\ Head(bus).op = "notify"
          BY <3>2, <4>1 DEF DaemonPosts
        <4>3. Head(bus) \in Elements(bus) /\ Head(bus).face \in Face
          BY <4>2, ElementsTail, BusHead DEF Types, Shown
        <4>4. ASSUME Head(bus).face.kind = "alert"
              PROVE  FALSE
          <5>1. PICK d \in Containers : d = Head(bus).face.container
            BY <4>3 DEF Face
          <5>2. PostsAlert(Head(bus), d)
            BY <4>2, <4>4, <5>1 DEF PostsAlert
          <5>3. Claims(n, d) /\ Raises(d)
            BY <4>2, <4>3, <5>2 DEF Claims, AlertSays, Raises
          <5>4. d = c
            BY <2>1, <2>2, <5>3 DEF AlertsAgree
          <5> QED
            BY <2>1, <5>3, <5>4
        <4> QED
          BY <2>3, <3>2, <4>4 DEF Withdraws
      <3> QED
        BY <2>1, <3>1, <3>2, ScreenMoves
    <2> QED
      BY <2>1, <2>5, <2>6, <2>7 DEF Withdraws
  <1> QED
    BY <1>1, <1>2, RecordedMoves

\* Closing a stale alert is a security cleanup: when shield_up comes in on a settled
\* screen, the alert on record is gone once everything has settled again, whatever
\* categories are enabled and however the daemon, the user and the hub interleave.
THEOREM RecordedAlertsGo == Spec => []RecordedAlertGoes
  <1> DEFINE History == /\ recorded \in [Containers -> Nids \cup {None}]
                        /\ shield \in [Containers -> {"up", "down"}]
             IInv == /\ Types /\ Ledger /\ History
                     /\ AlertCalled /\ AlertsAgree /\ NoneRaised /\ Withdrawn
  <1>1. Init => IInv
    <2> SUFFICES ASSUME Init PROVE IInv
      OBVIOUS
    <2>1. Elements(bus) = {} /\ Elements(inbox) = {} /\ Elements(ready) = {}
      BY DEF Init, Elements
    <2>2. \A n \in Nids \ {None}, c \in Containers : ~Claims(n, c)
      BY <2>1 DEF Init, Claims, AlertSays, ShowsAlert
    <2>3. \A c \in Containers : ~Recorded(c)
      BY DEF Init, Recorded
    <2>4. AlertCalled /\ AlertsAgree /\ NoneRaised /\ Withdrawn
      BY <2>1, <2>2, <2>3 DEF AlertCalled, AlertsAgree, NoneRaised, Withdrawn
    <2>5. History
      BY DEF Init
    <2> QED
      BY <2>4, <2>5, InitTypes
  <1>2. IInv /\ [Next]_vars => IInv'
    <2> SUFFICES ASSUME IInv, [Next]_vars PROVE IInv'
      OBVIOUS
    <2>1. FreshSuffices
      BY LedgerSuffices
    <2>2. Types'
      BY <2>1, TypesStep
    <2>3. History'
      BY RecordedMoves
    <2>4. AlertCalled'
      BY <2>1, AlertsStep
    <2> QED
      BY <2>1, <2>2, <2>3, <2>4, LedgerStep, AlertsAgreeStep, NoneRaisedStep, WithdrawnStep
  <1>3. IInv => RecordedAlertGoes
    <2> SUFFICES ASSUME IInv, Quiet, phase = "running", NEW c \in Containers, Recorded(c)
                 PROVE  screen[recorded[c]] = None \/ screen[recorded[c]].kind # "alert"
      BY DEF RecordedAlertGoes, Recorded
    <2>1. Elements(bus) = {} /\ Elements(ready) = {}
      BY DEF Quiet, Elements
    <2> QED
      BY <2>1 DEF Withdrawn, Withdraws
  <1> QED
    BY <1>1, <1>2, <1>3, PTL DEF Spec

-----------------------------------------------------------------------------
(* One popup per target, none left behind *)

\* The jobs between their start and their end; those of the stream task among the
\* calls, the replies and the entries.
Going == {e.job : e \in Elements(ready)} \cup {x.then : x \in Elements(bus)}
         \cup {m.then : m \in {k \in Elements(inbox) : k.kind = "reply"}}

InlineCalls == {x \in Call : Inline(x.then)}
InlineReplies == {m \in Message : m.kind = "reply" /\ Inline(m.then)}
InlineEntries == {e \in Entry : Inline(e.job)}

PromptCalls == {x \in Call : x.op = "notify" /\ x.face.kind = "prompt"}

Absent(q, T) == \A i \in DOMAIN q : q[i] \notin T
Single(q, T) == \A i, k \in DOMAIN q : q[i] \in T /\ q[k] \in T => i = k

\* The stream task handles one event at a time: one call, one reply or one resumed
\* job is its own, and none when it handles no event.
OneInline ==
  /\ Single(bus, InlineCalls) /\ Single(inbox, InlineReplies) /\ Single(ready, InlineEntries)
  /\ Absent(bus, InlineCalls) \/ Absent(inbox, InlineReplies)
  /\ Absent(bus, InlineCalls) \/ Absent(ready, InlineEntries)
  /\ Absent(inbox, InlineReplies) \/ Absent(ready, InlineEntries)
  /\ ~handling => /\ Absent(bus, InlineCalls) /\ Absent(inbox, InlineReplies)
                  /\ Absent(ready, InlineEntries)

PromptOnce == Single(bus, PromptCalls)

\* Until the client is stopped a block handler awaits each prompt called, and its
\* container has not ended since.
PromptCalled ==
  phase # "stopped" =>
    \A x \in Elements(bus) :
      x \in PromptCalls => x.then.do = "prompted" /\ x.face.at > ended[x.face.container]

\* A target has one record, and it is of a request announced for it.
Unique ==
  \A r, q \in Requests :
    pending[r] # None /\ q \in OnTarget(pending[r].container, pending[r].target) => r = q

PendingBacked == \A r \in Requests : pending[r] # None =>
  announced[r] = [container |-> pending[r].container, target |-> pending[r].target]

\* A purge has listed record r of popup n and not come to it yet.
Holds(j, r, n) == j.do = "purge" /\ j.rest # None /\ [id |-> r, nid |-> n] \in j.rest

Listed(r, n) == \E j \in Going : Holds(j, r, n)

\* A record listed is still of the popup listed.
ListsTrue ==
  \A r \in Requests, n \in Nids : Listed(r, n) /\ pending[r] # None => pending[r].nid = n

\* The daemon has answered block handler j with popup n; or it has still to answer,
\* and is asked to repost n, or to post a new popup.
Lands(j, n) ==
  /\ j.do = "prompted"
  /\ \/ \E m \in Elements(inbox) : m.kind = "reply" /\ m.then = j /\ m.ok /\ m.nid = n
     \/ \E e \in Elements(ready) : e.job = j /\ e.ok /\ e.nid = n

Flies(j, n) ==
  \/ Lands(j, n)
  \/ j.do = "prompted" /\ \E x \in Elements(bus) : x.then = j /\ x.nid = n

\* While a block handler waits, its target has no other record than the one it
\* found, that record keeps its popup, and a purge that has listed the request is
\* about to close the very popup that is to be its own.
Flight ==
  \A j \in Going, n \in Nids \cup {None} :
    Flies(j, n) =>
      /\ \A r \in Requests :
           pending[r] # None /\ (r = j.prior \/ r \in OnTarget(j.container, j.target))
             => r = j.prior /\ pending[r].nid = n
      /\ \A k \in Nids : Listed(j.id, k) => k = n

OnRecord(n) == \E r \in Requests : pending[r] # None /\ pending[r].nid = n

\* A call that takes prompt n off the screen.
Kills(x, n) == x.nid = n /\ (x.op = "close" \/ (x.op = "notify" /\ x.face.kind = "outcome"))

Killed(n) == \E x \in Elements(bus) : Kills(x, n)

Landed(n) == \E j \in Going : Lands(j, n)

\* Until the client is stopped, a prompt on screen has a record, or is about to get
\* one or to go.
Accounted ==
  phase # "stopped" => \A n \in PromptsShown : OnRecord(n) \/ Killed(n) \/ Landed(n)

\* Before a prompt is posted, every other prompt of its target goes.
Shows(n, face) ==
  n \in PromptsShown /\ screen[n].container = face.container /\ screen[n].target = face.target

KilledBefore ==
  \A i \in DOMAIN bus, n \in Nids :
    bus[i] \in PromptCalls /\ Shows(n, bus[i].face) /\ n # bus[i].nid
      => \E k \in 1..(i - 1) : Kills(bus[k], n)

\* A purge of prompt n's container will come to it.
Dooms(j, n) ==
  /\ j.do = "purge" /\ j.container = screen[n].container
  /\ IF j.rest = None THEN OnRecord(n) ELSE \E r \in Requests : Holds(j, r, n)

Doomed ==
  phase = "running" =>
    \A n \in PromptsShown :
      screen[n].at <= ended[screen[n].container] => Killed(n) \/ \E j \in Going : Dooms(j, n)

EndedBy == \A c \in Containers : ended[c] <= events

\* While a purge has still to come to the record of a request, the hub does not
\* announce the request again.
Unlisted ==
  \A c \in Containers, t \in Targets, r \in Requests :
    Blocked(c, t, r) => \A n \in Nids : ~Listed(r, n)

PromptsInv ==
  /\ OneInline /\ PromptOnce /\ PromptCalled /\ EndedBy
  /\ Unique /\ PendingBacked /\ ListsTrue /\ Flight
  /\ Accounted /\ KilledBefore /\ OnePopupPerTarget /\ Doomed

LEMMA SingleAppend ==
  ASSUME NEW S, NEW q \in Seq(S), NEW x \in S, NEW T
  PROVE  /\ Absent(q, T) => Single(Append(q, x), T)
         /\ x \notin T /\ Single(q, T) => Single(Append(q, x), T)
         /\ x \notin T /\ Absent(q, T) => Absent(Append(q, x), T)
  <1>1. /\ Len(q) \in Nat /\ DOMAIN q = 1..Len(q)
        /\ DOMAIN Append(q, x) = 1..(Len(q) + 1)
        /\ Append(q, x)[Len(q) + 1] = x
        /\ \A i \in DOMAIN q : Append(q, x)[i] = q[i]
    BY AppendElements
  <1>2. \A i \in DOMAIN Append(q, x) : i = Len(q) + 1 \/ i \in DOMAIN q
    BY <1>1
  <1> QED
    BY <1>1, <1>2 DEF Single, Absent

LEMMA SingleTail ==
  ASSUME NEW S, NEW q \in Seq(S), q # <<>>, NEW T
  PROVE  /\ Single(q, T) => Single(Tail(q), T) /\ (Head(q) \in T => Absent(Tail(q), T))
         /\ Absent(q, T) => Absent(Tail(q), T)
         /\ Head(q) \in T => ~Absent(q, T)
  <1>1. /\ 1 \in DOMAIN q /\ q[1] = Head(q)
        /\ \A i \in DOMAIN Tail(q) : i \in Nat \ {0} /\ i + 1 \in DOMAIN q /\ Tail(q)[i] = q[i + 1]
    BY TailElements
  <1>2. \A i \in DOMAIN Tail(q) : i + 1 # 1 /\ \A k \in DOMAIN Tail(q) : i + 1 = k + 1 => i = k
    BY <1>1
  <1> QED
    BY <1>1, <1>2 DEF Single, Absent

LEMMA SingleMapped ==
  ASSUME NEW q, NEW p, NEW T, DOMAIN p = DOMAIN q, \A i \in DOMAIN q : p[i] \in T => q[i] \in T
  PROVE  (Single(q, T) => Single(p, T)) /\ (Absent(q, T) => Absent(p, T))
  BY DEF Single, Absent

\* What is going on.
LEMMA GoingIs ==
  ASSUME Types
  PROVE  /\ \A e \in Elements(ready) : e.job \in Going
         /\ \A x \in Elements(bus) : x.then \in Going
         /\ \A m \in Elements(inbox) : m.kind = "reply" => m.then \in Going
         /\ Going \subseteq Jobs
  BY ElementsTyped, JobsMade DEF Going, Entry, Call, Message

\* A purge takes one record after another from its list, and closes its popup.
LEMMA PurgeSteps ==
  ASSUME Types, RunPurge
  PROVE  /\ ready # <<>> /\ Job \in Jobs /\ Job.do = "purge" /\ Job \in Going
         /\ Job.container \in Containers
         /\ \E rest \in SUBSET Stale :
              /\ rest = (IF Job.rest = None THEN Snapshot(Job.container) ELSE Job.rest)
              /\ \/ \E stale \in rest, call \in Call :
                      /\ pending' = [pending EXCEPT ![stale.id] = None]
                      /\ bus' = Append(bus, call) /\ call.op = "close" /\ call.nid = stale.nid
                      /\ call.then.do = "purge" /\ call.then.container = Job.container
                      /\ call.then.rest = rest \ {stale}
                 \/ /\ rest = {} /\ pending' = pending
                    /\ \/ bus' = bus
                       \/ \E call \in Call : /\ bus' = Append(bus, call) /\ call.op = "close"
                                             /\ call.then = Nothing
  <1> DEFINE rest == IF Job.rest = None THEN Snapshot(Job.container) ELSE Job.rest
  <1>1. /\ Job \in Jobs /\ Job.do = "purge" /\ ready' = Tail(ready) /\ ready # <<>>
        /\ Job = Head(ready).job
    BY RunHead DEF RunPurge, Job
  <1>2. Job.container \in Containers /\ Job.rest \in {None} \cup SUBSET Stale
    BY <1>1, JobFields
  <1>3. Job \in Going
    BY <1>1, ElementsTail, GoingIs DEF Types
  <1>4. Snapshot(Job.container) \subseteq Stale
    <2>1. \A q \in Requests : pending[q] # None => pending[q] \in Pending
      BY DEF Types
    <2>2. \A q \in Requests : pending[q] # None => pending[q].nid \in Nids
      BY <2>1 DEF Pending
    <2> QED
      BY <2>2 DEF Snapshot, Stale
  <1>5. rest \in SUBSET Stale
    BY <1>2, <1>4
  <1>6. \/ \E stale \in rest :
             /\ pending' = [pending EXCEPT ![stale.id] = None]
             /\ Close(stale.nid, [Job EXCEPT !.rest = rest \ {stale}])
        \/ /\ rest = {} /\ down[Job.container] # None
           /\ Close(down[Job.container], Nothing) /\ pending' = pending
        \/ rest = {} /\ pending' = pending /\ bus' = bus
    BY DEF RunPurge, Put, stateVars
  <1> HIDE DEF rest
  <1>7. CASE \E stale \in rest :
               /\ pending' = [pending EXCEPT ![stale.id] = None]
               /\ Close(stale.nid, [Job EXCEPT !.rest = rest \ {stale}])
    <2>1. PICK stale \in rest :
            /\ pending' = [pending EXCEPT ![stale.id] = None]
            /\ Close(stale.nid, [Job EXCEPT !.rest = rest \ {stale}])
      BY <1>7
    <2>2. rest \ {stale} \in SUBSET Stale /\ stale.nid \in Nids
      BY <1>5 DEF Stale
    <2>3. PICK j \in Awaited : /\ j.do = "purge" /\ j = [Job EXCEPT !.rest = rest \ {stale}]
                               /\ j.container = Job.container /\ j.rest = rest \ {stale}
      <3>1. [Job EXCEPT !.rest = rest \ {stale}] \in Awaited
            /\ [Job EXCEPT !.rest = rest \ {stale}].do = "purge"
        BY <1>1, <2>2, PurgeGoesOn
      <3>2. /\ [Job EXCEPT !.rest = rest \ {stale}].container = Job.container
            /\ [Job EXCEPT !.rest = rest \ {stale}].rest = rest \ {stale}
        BY <1>1 DEF Jobs
      <3> QED
        BY <3>1, <3>2
    <2>4. \E call \in Call : /\ call.op = "close" /\ call.nid = stale.nid /\ call.then = j
                             /\ bus' = Append(bus, call)
      <3>1. Close(stale.nid, j)
        BY <2>1, <2>3, Zenon
      <3>2. j.do # "prompted" /\ stale.nid \in Nids
        BY <2>2, <2>3
      <3> QED
        BY <3>1, <3>2, CloseTypes
    <2>5. \E call \in Call : /\ call.op = "close" /\ call.nid = stale.nid
                             /\ call.then.do = "purge" /\ call.then.container = Job.container
                             /\ call.then.rest = rest \ {stale}
                             /\ bus' = Append(bus, call)
      BY <2>3, <2>4
    <2> QED
      BY <1>1, <1>2, <1>3, <1>5, <2>1, <2>5 DEF rest
  <1>8. CASE /\ rest = {} /\ down[Job.container] # None
             /\ Close(down[Job.container], Nothing) /\ pending' = pending
    <2>1. down[Job.container] \in Nids /\ Nothing \in Awaited /\ Nothing.do # "prompted"
      BY <1>2, <1>8, JobsMade DEF Types, Nothing
    <2>2. \E call \in Call : call.op = "close" /\ call.then = Nothing /\ bus' = Append(bus, call)
      BY <1>8, <2>1, CloseTypes
    <2> QED
      BY <1>1, <1>2, <1>3, <1>5, <1>8, <2>2 DEF rest
  <1> QED
    BY <1>1, <1>2, <1>3, <1>5, <1>6, <1>7, <1>8 DEF rest

\* A block handler files its record once the daemon has answered.
LEMMA PromptFiles ==
  ASSUME Types, RunPrompted
  PROVE  /\ ready # <<>> /\ Job = Head(ready).job /\ Job \in Jobs /\ Job.do = "prompted"
         /\ Head(ready) \in Elements(ready) /\ Job \in Going
         /\ Head(ready).ok => /\ Head(ready).nid \in Nids
                              /\ pending'[Job.id] = [nid |-> Head(ready).nid,
                                                     container |-> Job.container,
                                                     target |-> Job.target]
                              /\ \A r \in Requests \ {Job.id} :
                                   pending'[r] = IF r = Job.prior THEN None ELSE pending[r]
         /\ ~Head(ready).ok => pending' = pending
  <1>1. /\ ready # <<>> /\ Job = Head(ready).job /\ Job \in Jobs /\ Job.do = "prompted"
        /\ Head(ready).ok => Head(ready).nid \in Nids
    BY RunHead DEF RunPrompted, Job
  <1>2. Head(ready) \in Elements(ready) /\ Job \in Going
    BY <1>1, ElementsTail, GoingIs DEF Types
  <1>3. Job.id \in Requests
    BY <1>1, JobFields
  <1>4. CASE Head(ready).ok
    <2> DEFINE kept == IF Job.prior = None THEN pending ELSE [pending EXCEPT ![Job.prior] = None]
               record == [nid |-> Head(ready).nid, container |-> Job.container, target |-> Job.target]
    <2>1. pending' = [kept EXCEPT ![Job.id] = record]
      BY <1>4 DEF RunPrompted, FilePrompt, Put
    <2>2. \A r \in Requests : kept[r] = IF r = Job.prior THEN None ELSE pending[r]
      BY NoneAssumption DEF NoneAssumption, Types
    <2>3. DOMAIN kept = Requests
      BY DEF Types
    <2>4. \A r \in Requests : pending'[r] = IF r = Job.id THEN record ELSE kept[r]
      <3> HIDE DEF kept, record
      <3> QED
        BY <2>1, <2>3
    <2> QED
      BY <1>1, <1>2, <1>3, <1>4, <2>2, <2>4
  <1>5. CASE ~Head(ready).ok
    BY <1>1, <1>2, <1>5 DEF RunPrompted
  <1> QED
    BY <1>4, <1>5

-----------------------------------------------------------------------------
(* What a step does to the mail *)

\* A job that is no block handler's, and no purge that lists what no other did.
Plain(j) ==
  /\ j.do # "prompted"
  /\ \A r \in Requests, n \in Nids :
       Holds(j, r, n) => Listed(r, n) \/ (pending[r] # None /\ pending[r].nid = n)

\* What a job that runs calls.
LEMMA RunCalls ==
  ASSUME Types, Runs
  PROVE  /\ ready # <<>> /\ ready' = Tail(ready) /\ UNCHANGED <<phase, inbox, screen, fresh, ended, events>>
         /\ announced' = announced
         /\ \/ bus' = bus
            \/ \E call \in Call : /\ bus' = Append(bus, call) /\ Plain(call.then)
                                  /\ ~Inline(call.then) /\ call \notin PromptCalls
  <1>1. /\ ready # <<>> /\ ready' = Tail(ready) /\ UNCHANGED <<phase, inbox, screen, fresh, ended, events>>
        /\ announced' = announced
    BY DEF Runs, RunPrompted, RunReported, RunPurge, RunAlert, RunAlerted, RunRetract,
           RunSend, RunCancelled, Running, userVars, pastVars
  <1>2. CASE RunPrompted \/ RunReported \/ RunAlerted \/ RunSend \/ RunCancelled
    BY <1>1, <1>2 DEF RunPrompted, RunReported, RunAlerted, RunSend, RunCancelled
  <1>3. CASE RunAlert
    <2>1. PICK call \in Call :
            /\ bus' = Append(bus, call) /\ call.face.kind = "alert" /\ call.then.do = "alerted"
      BY <1>3, AlertCalls
    <2> QED
      BY <1>1, <2>1 DEF Plain, Holds, Inline, PromptCalls
  <1>4. Nothing.do = "nothing"
    BY DEF Nothing
  <1>5. CASE RunRetract
    <2>1. bus' = bus \/ \E call \in Call : /\ bus' = Append(bus, call) /\ call.op = "close"
                                          /\ call.then = Nothing
      <3>1. Job.container \in Containers
        BY <1>5, RunHead, JobFields DEF RunRetract
      <3>2. CASE down[Job.container] # None
        <4>1. Close(down[Job.container], Nothing)
          BY <1>5, <3>2 DEF RunRetract
        <4>2. down[Job.container] \in Nids /\ Nothing \in Awaited /\ Nothing.do # "prompted"
          BY <1>4, <3>1, <3>2, JobsMade DEF Types
        <4> QED
          BY <4>1, <4>2, CloseTypes
      <3>3. CASE down[Job.container] = None
        BY <1>5, <3>3 DEF RunRetract
      <3> QED
        BY <3>2, <3>3
    <2> QED
      BY <1>1, <1>4, <2>1 DEF Plain, Holds, Inline, PromptCalls
  <1>6. CASE RunPurge
    <2>1. PICK rest \in SUBSET Stale :
            /\ rest = (IF Job.rest = None THEN Snapshot(Job.container) ELSE Job.rest)
            /\ \/ \E stale \in rest, call \in Call :
                    /\ bus' = Append(bus, call) /\ call.op = "close"
                    /\ call.then.do = "purge" /\ call.then.rest = rest \ {stale}
               \/ bus' = bus
               \/ \E call \in Call : /\ bus' = Append(bus, call) /\ call.op = "close"
                                     /\ call.then = Nothing
      BY <1>6, PurgeSteps
    <2>2. Job \in Going /\ Job.do = "purge"
      BY <1>6, PurgeSteps
    <2>3. ASSUME NEW r \in Requests, NEW n \in Nids, [id |-> r, nid |-> n] \in rest
          PROVE  Listed(r, n) \/ (pending[r] # None /\ pending[r].nid = n)
      <3>1. CASE Job.rest = None
        <4>1. [id |-> r, nid |-> n] \in Snapshot(Job.container)
          BY <2>1, <2>3, <3>1
        <4>2. PICK q \in Requests : /\ pending[q] # None
                                    /\ [id |-> r, nid |-> n] = [id |-> q, nid |-> pending[q].nid]
          BY <4>1 DEF Snapshot
        <4> QED
          BY <4>2
      <3>2. CASE Job.rest # None
        BY <2>1, <2>2, <2>3, <3>2 DEF Listed, Holds
      <3> QED
        BY <3>1, <3>2
    <2>4. CASE \E stale \in rest, call \in Call :
                 /\ bus' = Append(bus, call) /\ call.op = "close"
                 /\ call.then.do = "purge" /\ call.then.rest = rest \ {stale}
      <3>1. PICK stale \in rest, call \in Call :
              /\ bus' = Append(bus, call) /\ call.op = "close"
              /\ call.then.do = "purge" /\ call.then.rest = rest \ {stale}
        BY <2>4
      <3>2. Plain(call.then)
        BY <2>3, <3>1 DEF Plain, Holds
      <3> QED
        BY <1>1, <3>1, <3>2 DEF Inline, PromptCalls
    <2>5. CASE \/ bus' = bus
               \/ \E call \in Call : /\ bus' = Append(bus, call) /\ call.op = "close"
                                     /\ call.then = Nothing
      BY <1>1, <1>4, <2>5 DEF Plain, Holds, Inline, PromptCalls
    <2> QED
      BY <2>1, <2>4, <2>5
  <1> QED
    BY <1>2, <1>3, <1>5, <1>6 DEF Runs

\* The daemon answers the first call on the bus.
LEMMA AnswerReplies ==
  ASSUME Types, FreshSuffices, Answers
  PROVE  /\ bus # <<>> /\ bus' = Tail(bus) /\ Head(bus) \in Elements(bus)
         /\ UNCHANGED <<phase, handling, pending, ready, announced, ended, events>>
         /\ \E m \in Message :
              /\ m.kind = "reply" /\ m.then = Head(bus).then
              /\ m.ok /\ m.then.do = "prompted" =>
                   /\ Head(bus).op = "notify" /\ DaemonPosts
                   /\ m.nid = IF Head(bus).nid = None THEN fresh ELSE Head(bus).nid
              /\ DaemonPosts => m.ok = TRUE
              /\ \/ inbox' = Append(inbox, m)
                 \/ \E k \in Message : k.kind = "closed" /\ inbox' = Append(Append(inbox, k), m)
  <1>1. bus # <<>> /\ bus' = Tail(bus)
    BY DEF Answers, DaemonPosts, DaemonRefuses, DaemonCloses
  <1>2. UNCHANGED <<phase, handling, pending, ready, announced, ended, events>>
    BY DEF Answers, DaemonPosts, DaemonRefuses, DaemonCloses, stateVars, pastVars
  <1>3. Head(bus) \in Elements(bus)
    BY <1>1, ElementsTail DEF Types
  <1>4. CASE DaemonPosts
    <2>1. PICK n \in Nids, m \in Message :
            /\ n = IF Head(bus).nid = None THEN fresh ELSE Head(bus).nid
            /\ m.kind = "reply" /\ m.then = Head(bus).then /\ m.nid = n /\ m.ok = TRUE
            /\ inbox' = Append(inbox, m)
      BY <1>4, PostReplies
    <2>2. Head(bus).op = "notify"
      BY <1>4 DEF DaemonPosts
    <2> QED
      BY <1>1, <1>2, <1>3, <1>4, <2>1, <2>2
  <1>5. CASE DaemonRefuses
    <2>1. inbox' = Append(inbox, Reply(None, FALSE)) /\ ~DaemonCloses
      BY <1>5 DEF DaemonRefuses, DaemonCloses
    <2>2. Reply(None, FALSE) \in Message
      BY <1>1, BusHead DEF Reply, Message
    <2>3. /\ Reply(None, FALSE).ok = FALSE /\ Reply(None, FALSE).kind = "reply"
          /\ Reply(None, FALSE).then = Head(bus).then
      BY DEF Reply
    <2>4. CASE DaemonPosts
      BY <1>4, <2>4
    <2>5. CASE ~DaemonPosts
      BY <1>1, <1>2, <1>3, <2>1, <2>2, <2>3, <2>5
    <2> QED
      BY <2>4, <2>5
  <1>6. CASE DaemonCloses
    <2>1. PICK k, m \in Message :
            /\ k.kind = "closed"
            /\ m.kind = "reply" /\ m.then = Head(bus).then /\ m.then.do # "prompted"
            /\ inbox' = Append(inbox, m) \/ inbox' = Append(Append(inbox, k), m)
      BY <1>6, CloseReplies
    <2>2. ~DaemonPosts
      BY <1>6 DEF DaemonCloses, DaemonPosts
    <2> QED
      BY <1>1, <1>2, <1>3, <2>1, <2>2
  <1> QED
    BY <1>4, <1>5, <1>6 DEF Answers

\* What the user does is told.
LEMMA UserTells ==
  ASSUME Types, NEW n \in Nids, UserClicks(n) \/ PopupGoes(n)
  PROVE  /\ UNCHANGED <<phase, handling, pending, ready, bus, announced, ended, events>>
         /\ \E m \in Message : m.kind # "reply" /\ inbox' = Append(inbox, m)
  <1>1. UNCHANGED <<phase, handling, pending, ready, bus, announced, ended, events>>
    BY DEF UserClicks, PopupGoes, stateVars, pastVars
  <1>2. CASE UserClicks(n)
    <2> DEFINE m == [kind |-> "action", nid |-> n,
                     shown |-> [container |-> screen[n].container, target |-> screen[n].target]]
    <2>1. screen[n] \in Shown /\ screen[n].kind = "prompt"
      BY <1>2 DEF UserClicks, Types
    <2>2. m \in Message /\ m.kind # "reply"
      BY <2>1 DEF Shown, Face, Message, Subject
    <2>3. inbox' = Append(inbox, m)
      BY <1>2 DEF UserClicks
    <2> QED
      BY <1>1, <2>2, <2>3
  <1>3. CASE PopupGoes(n)
    <2> DEFINE m == [kind |-> "closed", nid |-> n]
    <2>1. m \in Message /\ m.kind # "reply"
      BY DEF Message
    <2>2. inbox' = Append(inbox, m)
      BY <1>3 DEF PopupGoes
    <2> QED
      BY <1>1, <2>1, <2>2
  <1> QED
    BY <1>2, <1>3

Lifecycle(c) == ShieldDown(c) \/ ShieldUp(c) \/ ContainerExited(c)

\* A lifecycle event starts tasks, and a purge of its container when that ends.
LEMMA LifecycleStarts ==
  ASSUME Types, NEW c \in Containers, Lifecycle(c)
  PROVE  /\ ~handling /\ phase # "stopped" /\ events' = events + 1
         /\ UNCHANGED <<phase, handling, pending, bus, inbox, screen, fresh, announced>>
         /\ \A e \in Elements(ready') : e \in Elements(ready) \/ Plain(e.job)
         /\ Elements(ready) \subseteq Elements(ready')
         /\ Single(ready, InlineEntries) => Single(ready', InlineEntries)
         /\ Absent(ready, InlineEntries) => Absent(ready', InlineEntries)
         /\ \/ ended' = ended
            \/ /\ ended' = [ended EXCEPT ![c] = events + 1]
               /\ \E e \in Elements(ready') :
                    e.job.do = "purge" /\ e.job.container = c /\ e.job.rest = None
  <1>1. /\ ~handling /\ phase # "stopped"
        /\ UNCHANGED <<phase, handling, pending, bus, inbox, screen, fresh, announced>>
    BY DEF Lifecycle, ShieldDown, ShieldUp, ContainerExited, Listening, stateVars, userVars
  <1>2. PICK j \in Jobs :
          /\ j.do \in {"purge", "retract"}
          /\ j.do = "purge" => j.container = c /\ j.rest = None
          /\ ~ShieldUp(c) => j.do = "purge"
          /\ \/ ready' = Append(ready, Started(j))
             \/ \E k \in Jobs :
                  /\ k.do = "alert"
                  /\ ready' = Append(Append(ready, Started(j)), Started(k))
    BY LifecycleTasks DEF Lifecycle
  <1>3. events' = events + 1
    BY DEF Lifecycle, ShieldDown, ShieldUp, ContainerExited
  <1>4. /\ Started(j) \in Entry /\ Started(j).job = j
        /\ \A k \in Jobs : k.do = "alert" => Started(k) \in Entry /\ Started(k).job = k
    BY <1>2, StartedIsEntry
  <1>5. Plain(j) /\ ~Inline(j)
    BY <1>2 DEF Plain, Holds, Inline
  <1> DEFINE one == Append(ready, Started(j))
             Gone(q) == /\ \A e \in Elements(q) : e \in Elements(ready) \/ Plain(e.job)
                        /\ Elements(ready) \cup {Started(j)} \subseteq Elements(q)
                        /\ Single(ready, InlineEntries) => Single(q, InlineEntries)
                        /\ Absent(ready, InlineEntries) => Absent(q, InlineEntries)
  <1>6. one \in Seq(Entry) /\ Elements(one) = Elements(ready) \cup {Started(j)}
    BY <1>4, AppendElements, ElementsAppend DEF Types
  <1>7. Started(j) \notin InlineEntries
    BY <1>4, <1>5 DEF InlineEntries
  <1>8. Gone(one)
    BY <1>4, <1>5, <1>6, <1>7, SingleAppend DEF Types
  <1> HIDE DEF one
  <1>9. ASSUME NEW k \in Jobs, k.do = "alert"
        PROVE  Gone(Append(one, Started(k)))
    <2>1. Started(k) \notin InlineEntries /\ Plain(Started(k).job)
      BY <1>4, <1>9 DEF InlineEntries, Inline, Plain, Holds
    <2>2. Started(k) \in Entry
      BY <1>4, <1>9
    <2>3. Elements(Append(one, Started(k))) = Elements(one) \cup {Started(k)}
      BY <1>6, <2>2, ElementsAppend
    <2>4. /\ Single(one, InlineEntries) => Single(Append(one, Started(k)), InlineEntries)
          /\ Absent(one, InlineEntries) => Absent(Append(one, Started(k)), InlineEntries)
      BY <1>6, <2>1, <2>2, SingleAppend
    <2> QED
      BY <1>8, <2>1, <2>3, <2>4
  <1>10. Gone(ready')
    BY <1>2, <1>8, <1>9 DEF one
  <1>11. \/ ended' = ended
         \/ ended' = [ended EXCEPT ![c] = events + 1] /\ j.do = "purge"
    <2>1. CASE ShieldUp(c)
      BY <2>1 DEF ShieldUp
    <2>2. CASE ~ShieldUp(c)
      BY <1>2, <2>2 DEF Lifecycle, ShieldDown, ContainerExited, Put
    <2> QED
      BY <2>1, <2>2
  <1> QED
    BY <1>1, <1>2, <1>3, <1>4, <1>10, <1>11

InlineAbsent ==
  Absent(bus, InlineCalls) /\ Absent(inbox, InlineReplies) /\ Absent(ready, InlineEntries)

LEMMA EventInline ==
  ASSUME Types, OneInline, HubEvent
  PROVE  OneInline'
  <1>0. bus \in Seq(Call)
    BY DEF Types
  <1>1. ASSUME InlineAbsent, UNCHANGED <<ready, inbox>>, NEW call \in Call,
               \/ bus' = bus
               \/ bus' = Append(bus, call) /\ handling' = TRUE
        PROVE  OneInline'
    <2>1. bus' = bus => Absent(bus', InlineCalls)
      BY <1>1 DEF InlineAbsent
    <2>2. bus' = Append(bus, call) => Single(bus', InlineCalls)
      BY <1>0, <1>1, SingleAppend DEF InlineAbsent
    <2>3. Single(ready', InlineEntries) /\ Single(inbox', InlineReplies)
      BY <1>1 DEF InlineAbsent, Single, Absent
    <2>4. Absent(ready', InlineEntries) /\ Absent(inbox', InlineReplies)
      BY <1>1 DEF InlineAbsent
    <2>5. Absent(bus', InlineCalls) => Single(bus', InlineCalls)
      BY DEF Single, Absent
    <2> QED
      BY <1>1, <2>1, <2>2, <2>3, <2>4, <2>5
      DEF OneInline, InlineCalls, InlineReplies, InlineEntries
  <1>2. ASSUME NEW c \in Containers, NEW t \in Targets, NEW r \in Requests, Blocked(c, t, r)
        PROVE  OneInline'
    <2>1. PICK call \in Call : bus' = Append(bus, call)
      BY <1>2, BlockedCalls
    <2>2. InlineAbsent /\ UNCHANGED <<ready, inbox>> /\ handling' = TRUE
      BY <1>2 DEF Blocked, Listening, OneInline, InlineAbsent
    <2> QED
      BY <1>1, <2>1, <2>2
  <1>3. ASSUME NEW r \in Requests, VerdictApplied(r)
        PROVE  OneInline'
    <2>1. PICK call \in Call : bus' = Append(bus, call) \/ bus' = bus
      BY <1>3, VerdictCalls
    <2>2. InlineAbsent /\ UNCHANGED <<ready, inbox>> /\ (handling' = TRUE \/ bus' = bus)
      BY <1>3 DEF VerdictApplied, Listening, OneInline, InlineAbsent
    <2> QED
      BY <1>1, <2>1, <2>2
  <1>4. ASSUME NEW c \in Containers, Lifecycle(c)
        PROVE  OneInline'
    <2>1. UNCHANGED <<handling, bus, inbox>>
      BY <1>4, LifecycleStarts
    <2>2. /\ Single(ready, InlineEntries) => Single(ready', InlineEntries)
          /\ Absent(ready, InlineEntries) => Absent(ready', InlineEntries)
      BY <1>4, LifecycleStarts
    <2> QED
      BY <2>1, <2>2 DEF OneInline, InlineCalls, InlineReplies, InlineEntries
  <1> QED
    BY <1>2, <1>3, <1>4 DEF HubEvent, Lifecycle

\* The stream task's job goes on from the bus to the inbox, to the event loop, to
\* its end.
LEMMA LoopInline ==
  ASSUME Types, OneInline, Loop
  PROVE  OneInline'
  <1>0. bus \in Seq(Call) /\ inbox \in Seq(Message) /\ ready \in Seq(Entry)
    BY DEF Types
  <1>1. CASE Runs
    <2>1. ready # <<>> /\ ready' = Tail(ready) /\ inbox' = inbox
      BY <1>1, RunCalls
    <2>2. /\ Single(bus, InlineCalls) => Single(bus', InlineCalls)
          /\ Absent(bus, InlineCalls) => Absent(bus', InlineCalls)
      <3>1. ASSUME NEW call \in Call, ~Inline(call.then), bus' = Append(bus, call)
            PROVE  /\ Single(bus, InlineCalls) => Single(bus', InlineCalls)
                   /\ Absent(bus, InlineCalls) => Absent(bus', InlineCalls)
        <4>1. call \notin InlineCalls
          BY <3>1 DEF InlineCalls
        <4> QED
          BY <1>0, <3>1, <4>1, SingleAppend
      <3> QED
        BY <1>1, <3>1, RunCalls
    <2>3. /\ Single(ready', InlineEntries)
          /\ Absent(ready, InlineEntries) => Absent(ready', InlineEntries)
          /\ Head(ready) \in InlineEntries => Absent(ready', InlineEntries)
          /\ Head(ready) \in InlineEntries => ~Absent(ready, InlineEntries)
      BY <1>0, <2>1, SingleTail DEF OneInline
    <2>4. CASE RunPrompted \/ RunReported
      <3>1. Head(ready) \in InlineEntries
        <4>1. Head(ready) \in Entry
          BY <2>4, RunHead DEF RunPrompted, RunReported
        <4> QED
          BY <2>4, <4>1 DEF RunPrompted, RunReported, Running, InlineEntries, Inline
      <3> QED
        BY <2>1, <2>2, <2>3, <3>1 DEF OneInline, InlineCalls, InlineReplies, InlineEntries
    <2>5. CASE ~(RunPrompted \/ RunReported)
      <3>1. handling' = handling
        BY <1>1, <2>5 DEF Runs, RunPurge, RunAlert, RunAlerted, RunRetract, RunSend, RunCancelled
      <3> QED
        BY <2>1, <2>2, <2>3, <3>1 DEF OneInline, InlineCalls, InlineReplies, InlineEntries
    <2> QED
      BY <2>4, <2>5
  <1>2. CASE Receives
    <2>1. inbox # <<>> /\ inbox' = Tail(inbox) /\ UNCHANGED <<handling, bus>>
      BY <1>2 DEF Receives, ReceiveReply, ReceiveAction, ReceiveClosed
    <2>2. /\ Single(inbox', InlineReplies)
          /\ Absent(inbox, InlineReplies) => Absent(inbox', InlineReplies)
          /\ Head(inbox) \in InlineReplies => Absent(inbox', InlineReplies)
          /\ Head(inbox) \in InlineReplies => ~Absent(inbox, InlineReplies)
      BY <1>0, <2>1, SingleTail DEF OneInline
    <2>3. \/ ready' = ready
          \/ \E e \in Entry : ready' = Append(ready, e)
                              /\ (e \in InlineEntries => Head(inbox) \in InlineReplies)
      <3>1. CASE ReceiveReply
        <4>1. CASE ready' = ready
          BY <4>1
        <4>2. CASE \E e \in Entry : e.job = Head(inbox).then /\ ready' = Append(ready, e)
          <5>1. Head(inbox) \in Message /\ Head(inbox).kind = "reply"
            BY <2>1, <3>1, InboxHead DEF ReceiveReply
          <5> QED
            BY <4>2, <5>1 DEF InlineReplies, InlineEntries
        <4> QED
          BY <3>1, <4>1, <4>2, ReplyResumes
      <3>2. CASE ReceiveAction
        <4>1. \A j \in Jobs : j.do = "send" => Started(j) \in Entry /\ Started(j) \notin InlineEntries
          BY StartedIsEntry DEF InlineEntries, Inline
        <4> QED
          BY <3>2, <4>1, ClickSends
      <3>3. CASE ReceiveClosed
        BY <3>3 DEF ReceiveClosed
      <3> QED
        BY <1>2, <3>1, <3>2, <3>3 DEF Receives
    <2>4. CASE ready' = ready
      BY <2>1, <2>2, <2>4 DEF OneInline, InlineCalls, InlineReplies, InlineEntries
    <2>5. CASE \E e \in Entry : ready' = Append(ready, e)
                                /\ (e \in InlineEntries => Head(inbox) \in InlineReplies)
      <3>1. PICK e \in Entry : ready' = Append(ready, e)
                               /\ (e \in InlineEntries => Head(inbox) \in InlineReplies)
        BY <2>5
      <3>2. CASE e \in InlineEntries
        <4>1. Absent(ready, InlineEntries) /\ Absent(bus, InlineCalls) /\ handling
          BY <2>2, <3>1, <3>2 DEF OneInline
        <4>2. Single(ready', InlineEntries)
          BY <1>0, <3>1, <4>1, SingleAppend
        <4> QED
          BY <2>1, <2>2, <3>1, <3>2, <4>1, <4>2
          DEF OneInline, InlineCalls, InlineReplies, InlineEntries
      <3>3. CASE e \notin InlineEntries
        <4>1. /\ Single(ready, InlineEntries) => Single(ready', InlineEntries)
              /\ Absent(ready, InlineEntries) => Absent(ready', InlineEntries)
          BY <1>0, <3>1, <3>3, SingleAppend
        <4> QED
          BY <2>1, <2>2, <4>1 DEF OneInline, InlineCalls, InlineReplies, InlineEntries
      <3> QED
        BY <3>2, <3>3
    <2> QED
      BY <2>3, <2>4, <2>5
  <1> QED
    BY <1>1, <1>2 DEF Loop, Runs, Receives

LEMMA OutsideInline ==
  ASSUME Types, FreshSuffices, OneInline, Outside
  PROVE  OneInline'
  <1>0. bus \in Seq(Call) /\ inbox \in Seq(Message)
    BY DEF Types
  <1>1. CASE Answers
    <2>1. bus # <<>> /\ bus' = Tail(bus) /\ UNCHANGED <<handling, ready>>
      BY <1>1, AnswerReplies
    <2>2. PICK m \in Message :
            /\ m.kind = "reply" /\ m.then = Head(bus).then
            /\ \/ inbox' = Append(inbox, m)
               \/ \E k \in Message : k.kind = "closed" /\ inbox' = Append(Append(inbox, k), m)
      BY <1>1, AnswerReplies
    <2>3. PICK q \in Seq(Message) :
            /\ inbox' = Append(q, m)
            /\ Single(q, InlineReplies)
            /\ Absent(inbox, InlineReplies) => Absent(q, InlineReplies)
      <3>1. CASE inbox' = Append(inbox, m)
        BY <1>0, <3>1 DEF OneInline
      <3>2. CASE \E k \in Message : k.kind = "closed" /\ inbox' = Append(Append(inbox, k), m)
        <4>1. PICK k \in Message : k.kind = "closed" /\ inbox' = Append(Append(inbox, k), m)
          BY <3>2
        <4>2. k \notin InlineReplies
          BY <4>1 DEF InlineReplies
        <4>3. /\ Single(Append(inbox, k), InlineReplies)
              /\ Absent(inbox, InlineReplies) => Absent(Append(inbox, k), InlineReplies)
          BY <1>0, <4>2, SingleAppend DEF OneInline
        <4>4. Append(inbox, k) \in Seq(Message)
          BY <1>0, AppendElements
        <4> QED
          BY <4>1, <4>3, <4>4
      <3> QED
        BY <2>2, <3>1, <3>2
    <2>4. /\ Single(bus', InlineCalls)
          /\ Absent(bus, InlineCalls) => Absent(bus', InlineCalls)
          /\ Head(bus) \in InlineCalls => Absent(bus', InlineCalls)
          /\ Head(bus) \in InlineCalls => ~Absent(bus, InlineCalls)
      BY <1>0, <2>1, SingleTail DEF OneInline
    <2>5. m \in InlineReplies => Head(bus) \in InlineCalls
      BY <2>1, <2>2, BusHead DEF InlineReplies, InlineCalls
    <2>6. CASE m \in InlineReplies
      <3>1. Absent(q, InlineReplies) /\ Absent(ready, InlineEntries) /\ handling
        BY <2>3, <2>4, <2>5, <2>6 DEF OneInline
      <3>2. Single(inbox', InlineReplies)
        BY <2>3, <3>1, SingleAppend
      <3> QED
        BY <2>1, <2>4, <2>5, <2>6, <3>1, <3>2
        DEF OneInline, InlineCalls, InlineReplies, InlineEntries
    <2>7. CASE m \notin InlineReplies
      <3>1. /\ Single(inbox', InlineReplies)
            /\ Absent(inbox, InlineReplies) => Absent(inbox', InlineReplies)
        BY <2>3, <2>7, SingleAppend
      <3> QED
        BY <2>1, <2>4, <3>1 DEF OneInline, InlineCalls, InlineReplies, InlineEntries
    <2> QED
      BY <2>6, <2>7
  <1>2. ASSUME NEW n \in Nids, UserClicks(n) \/ PopupGoes(n)
        PROVE  OneInline'
    <2>1. UNCHANGED <<handling, ready, bus>>
      BY <1>2, UserTells
    <2>2. PICK m \in Message : m.kind # "reply" /\ inbox' = Append(inbox, m)
      BY <1>2, UserTells
    <2>3. m \notin InlineReplies
      BY <2>2 DEF InlineReplies
    <2>4. /\ Single(inbox', InlineReplies)
          /\ Absent(inbox, InlineReplies) => Absent(inbox', InlineReplies)
      BY <1>0, <2>2, <2>3, SingleAppend DEF OneInline
    <2> QED
      BY <2>1, <2>4 DEF OneInline, InlineCalls, InlineReplies, InlineEntries
  <1> QED
    BY <1>1, <1>2 DEF Outside, Answers

LEMMA StopInline ==
  ASSUME Types, OneInline, Stop
  PROVE  OneInline'
  <1>1. CASE StopBegins \/ StopEnds
    <2>1. Cancelling
      BY <1>1, CancelCancels DEF StopBegins, StopEnds
    <2>2. /\ \A i \in DOMAIN ready : ready'[i] \in InlineEntries => ready[i] \in InlineEntries
          /\ \A i \in DOMAIN bus : bus'[i] \in InlineCalls => bus[i] \in InlineCalls
          /\ \A i \in DOMAIN inbox : inbox'[i] \in InlineReplies => inbox[i] \in InlineReplies
      <3>1. ~Inline(Nothing)
        BY DEF Inline, Nothing
      <3>2. /\ \A i \in DOMAIN ready : ready[i] \in Entry
            /\ \A i \in DOMAIN bus : bus[i] \in Call
            /\ \A i \in DOMAIN inbox : inbox[i] \in Message
        BY DEF Types
      <3>3. ASSUME NEW i \in DOMAIN ready, ready'[i] \in InlineEntries
            PROVE  ready[i] \in InlineEntries
        <4>1. ready'[i] = ready[i] \/ ready'[i] = [ready[i] EXCEPT !.job = Nothing]
          BY <2>1 DEF Cancelling
        <4>2. [ready[i] EXCEPT !.job = Nothing].job = Nothing
          BY <3>2, CancelledMail
        <4> QED
          BY <3>1, <3>3, <4>1, <4>2 DEF InlineEntries
      <3>4. ASSUME NEW i \in DOMAIN bus, bus'[i] \in InlineCalls
            PROVE  bus[i] \in InlineCalls
        <4>1. bus'[i] = bus[i] \/ bus'[i] = [bus[i] EXCEPT !.then = Nothing]
          BY <2>1 DEF Cancelling
        <4>2. [bus[i] EXCEPT !.then = Nothing].then = Nothing
          BY <3>2, CancelledMail
        <4> QED
          BY <3>1, <3>4, <4>1, <4>2 DEF InlineCalls
      <3>5. ASSUME NEW i \in DOMAIN inbox, inbox'[i] \in InlineReplies
            PROVE  inbox[i] \in InlineReplies
        <4>1. \/ inbox'[i] = inbox[i]
              \/ inbox[i].kind = "reply" /\ inbox'[i] = [inbox[i] EXCEPT !.then = Nothing]
          BY <2>1 DEF Cancelling
        <4>2. inbox[i].kind = "reply" => [inbox[i] EXCEPT !.then = Nothing].then = Nothing
          BY <3>2, CancelledMail
        <4> QED
          BY <3>1, <3>5, <4>1, <4>2 DEF InlineReplies
      <3> QED
        BY <3>3, <3>4, <3>5
    <2>3. DOMAIN ready' = DOMAIN ready /\ DOMAIN bus' = DOMAIN bus /\ DOMAIN inbox' = DOMAIN inbox
      BY <2>1 DEF Cancelling
    <2>4. /\ Single(bus, InlineCalls) => Single(bus', InlineCalls)
          /\ Absent(bus, InlineCalls) => Absent(bus', InlineCalls)
          /\ Single(inbox, InlineReplies) => Single(inbox', InlineReplies)
          /\ Absent(inbox, InlineReplies) => Absent(inbox', InlineReplies)
          /\ Single(ready, InlineEntries) => Single(ready', InlineEntries)
          /\ Absent(ready, InlineEntries) => Absent(ready', InlineEntries)
      BY <2>2, <2>3, SingleMapped
    <2>5. CASE StopBegins
      <3>1. handling' = handling
        BY <2>5 DEF StopBegins
      <3> QED
        BY <2>4, <3>1 DEF OneInline, InlineCalls, InlineReplies, InlineEntries
    <2>6. CASE StopEnds
      <3>1. Cancel(Inline)
        BY <2>6 DEF StopEnds
      <3>2. /\ \A i \in DOMAIN ready' : ~Inline(ready'[i].job)
            /\ \A i \in DOMAIN bus' : ~Inline(bus'[i].then)
            /\ \A i \in DOMAIN inbox' : inbox'[i].kind = "reply" => ~Inline(inbox'[i].then)
        <4>1. ~Inline(Nothing)
          BY DEF Inline, Nothing
        <4>2. ASSUME NEW i \in DOMAIN ready' PROVE ~Inline(ready'[i].job)
          <5>1. i \in DOMAIN ready /\ ready[i] \in Entry
            BY <2>3 DEF Types
          <5>2. [ready[i] EXCEPT !.job = Nothing].job = Nothing
            BY <5>1, CancelledMail
          <5>3. ready'[i] = IF Inline(ready[i].job) THEN [ready[i] EXCEPT !.job = Nothing] ELSE ready[i]
            BY <3>1, <5>1 DEF Cancel
          <5> QED
            BY <4>1, <5>2, <5>3
        <4>3. ASSUME NEW i \in DOMAIN bus' PROVE ~Inline(bus'[i].then)
          <5>1. i \in DOMAIN bus /\ bus[i] \in Call
            BY <2>3 DEF Types
          <5>2. [bus[i] EXCEPT !.then = Nothing].then = Nothing
            BY <5>1, CancelledMail
          <5>3. bus'[i] = IF Inline(bus[i].then) THEN [bus[i] EXCEPT !.then = Nothing] ELSE bus[i]
            BY <3>1, <5>1 DEF Cancel
          <5> QED
            BY <4>1, <5>2, <5>3
        <4>4. ASSUME NEW i \in DOMAIN inbox', inbox'[i].kind = "reply"
              PROVE  ~Inline(inbox'[i].then)
          <5>1. i \in DOMAIN inbox /\ inbox[i] \in Message
            BY <2>3 DEF Types
          <5>2. inbox[i].kind = "reply" => [inbox[i] EXCEPT !.then = Nothing].then = Nothing
            BY <5>1, CancelledMail
          <5>3. inbox'[i] = IF inbox[i].kind = "reply"
                            THEN IF Inline(inbox[i].then) THEN [inbox[i] EXCEPT !.then = Nothing]
                                 ELSE inbox[i]
                            ELSE inbox[i]
            BY <3>1, <5>1 DEF Cancel
          <5> QED
            BY <4>1, <4>4, <5>2, <5>3
        <4> QED
          BY <4>2, <4>3, <4>4
      <3>3. /\ Absent(bus', InlineCalls) /\ Absent(inbox', InlineReplies)
            /\ Absent(ready', InlineEntries)
        BY <3>2 DEF Absent, InlineCalls, InlineReplies, InlineEntries
      <3> QED
        BY <2>4, <3>3 DEF OneInline, InlineCalls, InlineReplies, InlineEntries
    <2> QED
      BY <1>1, <2>5, <2>6
  <1>2. CASE StopClosesClient
    BY <1>2 DEF StopClosesClient, loopVars, OneInline, InlineCalls, InlineReplies, InlineEntries
  <1> QED
    BY <1>1, <1>2 DEF Stop

LEMMA InlineStep ==
  ASSUME Types, FreshSuffices, OneInline, [Next]_vars
  PROVE  OneInline'
  <1>1. CASE UNCHANGED vars
    BY <1>1 DEF vars, OneInline, InlineCalls, InlineReplies, InlineEntries
  <1> QED
    BY <1>1, EventInline, LoopInline, OutsideInline, StopInline DEF Next

Blocking == \E c \in Containers, t \in Targets, r \in Requests : Blocked(c, t, r)

\* Where a call, a reply and an entry come from.
CallFrom(x) == Plain(x.then) \/ \E y \in Elements(bus) : y.then = x.then /\ y.nid = x.nid

ReplyFrom(m) ==
  m.kind = "reply" =>
    \/ Plain(m.then) \/ m \in Elements(inbox)
    \/ \E y \in Elements(bus) : /\ y.then = m.then
                                /\ m.ok /\ m.then.do = "prompted" => y.nid \in {m.nid, None}

EntryFrom(e) ==
  \/ Plain(e.job) \/ e \in Elements(ready)
  \/ \E m \in Elements(inbox) : m.kind = "reply" /\ m.then = e.job /\ m.ok = e.ok /\ m.nid = e.nid

LEMMA MailFrom ==
  ASSUME Types, FreshSuffices, [Next]_vars, ~Blocking
  PROVE  /\ \A x \in Elements(bus') : CallFrom(x)
         /\ \A m \in Elements(inbox') : ReplyFrom(m)
         /\ \A e \in Elements(ready') : EntryFrom(e)
  <1>0. /\ bus \in Seq(Call) /\ inbox \in Seq(Message) /\ ready \in Seq(Entry)
        /\ \A x \in Elements(bus) : CallFrom(x)
        /\ \A m \in Elements(inbox) : ReplyFrom(m)
        /\ \A e \in Elements(ready) : EntryFrom(e)
    BY DEF Types, CallFrom, ReplyFrom, EntryFrom
  <1> DEFINE From == /\ \A x \in Elements(bus') : CallFrom(x)
                     /\ \A m \in Elements(inbox') : ReplyFrom(m)
                     /\ \A e \in Elements(ready') : EntryFrom(e)
  <1>1. CASE HubEvent
    <2>1. ASSUME NEW r \in Requests, VerdictApplied(r)
          PROVE  From
      <3>1. PICK call \in Call :
              (bus' = Append(bus, call) \/ bus' = bus) /\ call.then.do = "reported"
        BY <2>1, VerdictCalls
      <3>2. CallFrom(call)
        BY <3>1 DEF CallFrom, Plain, Holds
      <3>3. Elements(Append(bus, call)) = Elements(bus) \cup {call}
        BY <1>0, ElementsAppend
      <3>4. UNCHANGED <<ready, inbox>>
        BY <2>1 DEF VerdictApplied
      <3> QED
        BY <1>0, <3>1, <3>2, <3>3, <3>4
    <2>2. ASSUME NEW c \in Containers, Lifecycle(c)
          PROVE  From
      <3>1. UNCHANGED <<bus, inbox>> /\ \A e \in Elements(ready') : e \in Elements(ready) \/ Plain(e.job)
        BY <2>2, LifecycleStarts
      <3> QED
        BY <1>0, <3>1 DEF EntryFrom
    <2> QED
      BY <1>1, <2>1, <2>2 DEF HubEvent, Lifecycle, Blocking
  <1>2. CASE Runs
    <2>1. ready # <<>> /\ ready' = Tail(ready) /\ inbox' = inbox
      BY <1>2, RunCalls
    <2>2. ASSUME NEW call \in Call, bus' = Append(bus, call), Plain(call.then)
          PROVE  \A x \in Elements(bus') : CallFrom(x)
      BY <1>0, <2>2, ElementsAppend DEF CallFrom
    <2>3. \A x \in Elements(bus') : CallFrom(x)
      BY <1>0, <1>2, <2>2, RunCalls
    <2> QED
      BY <1>0, <2>1, <2>3, ElementsTail
  <1>3. CASE Receives
    <2>1. inbox # <<>> /\ inbox' = Tail(inbox) /\ bus' = bus
      BY <1>3 DEF Receives, ReceiveReply, ReceiveAction, ReceiveClosed
    <2>2. Elements(inbox') \subseteq Elements(inbox) /\ Head(inbox) \in Elements(inbox)
      BY <1>0, <2>1, ElementsTail
    <2>3. ready' = ready \/ \E e \in Entry : ready' = Append(ready, e) /\ EntryFrom(e)
      <3>1. CASE ReceiveReply
        <4>1. Head(inbox).kind = "reply"
          BY <3>1 DEF ReceiveReply
        <4> QED
          BY <2>2, <3>1, <4>1, ReplyResumes DEF EntryFrom
      <3>2. CASE ReceiveAction
        <4>1. \A j \in Jobs : j.do = "send" => Started(j) \in Entry /\ EntryFrom(Started(j))
          BY StartedIsEntry DEF EntryFrom, Plain, Holds
        <4> QED
          BY <3>2, <4>1, ClickSends
      <3>3. CASE ReceiveClosed
        BY <3>3 DEF ReceiveClosed
      <3> QED
        BY <1>3, <3>1, <3>2, <3>3 DEF Receives
    <2>4. \A e \in Elements(ready') : EntryFrom(e)
      <3>1. ASSUME NEW e \in Entry, ready' = Append(ready, e), EntryFrom(e)
            PROVE  \A f \in Elements(ready') : EntryFrom(f)
        BY <1>0, <3>1, ElementsAppend
      <3> QED
        BY <1>0, <2>3, <3>1
    <2> QED
      BY <1>0, <2>1, <2>2, <2>4
  <1>4. CASE Answers
    <2>1. bus # <<>> /\ bus' = Tail(bus) /\ ready' = ready /\ Head(bus) \in Elements(bus)
      BY <1>4, AnswerReplies
    <2>2. PICK m \in Message :
            /\ m.kind = "reply" /\ m.then = Head(bus).then
            /\ m.ok /\ m.then.do = "prompted" =>
                 m.nid = IF Head(bus).nid = None THEN fresh ELSE Head(bus).nid
            /\ \/ inbox' = Append(inbox, m)
               \/ \E k \in Message : k.kind = "closed" /\ inbox' = Append(Append(inbox, k), m)
      BY <1>4, AnswerReplies
    <2>3. ReplyFrom(m)
      BY <2>1, <2>2 DEF ReplyFrom
    <2>4. \A w \in Elements(inbox') : ReplyFrom(w)
      <3>1. CASE inbox' = Append(inbox, m)
        BY <1>0, <2>3, <3>1, ElementsAppend
      <3>2. ASSUME NEW k \in Message, k.kind = "closed", inbox' = Append(Append(inbox, k), m)
            PROVE  \A w \in Elements(inbox') : ReplyFrom(w)
        <4>1. PICK q \in Seq(Message) : q = Append(inbox, k)
          BY <1>0, AppendElements
        <4>2. Elements(q) = Elements(inbox) \cup {k}
          BY <1>0, <4>1, ElementsAppend
        <4>3. Elements(inbox') = Elements(q) \cup {m}
          <5>1. Elements(Append(q, m)) = Elements(q) \cup {m}
            BY ElementsAppend
          <5>2. inbox' = Append(q, m)
            BY <3>2, <4>1
          <5> QED
            BY <5>1, <5>2
        <4>4. ReplyFrom(k)
          BY <3>2 DEF ReplyFrom
        <4> QED
          BY <1>0, <2>3, <4>2, <4>3, <4>4
      <3> QED
        BY <2>2, <3>1, <3>2
    <2> QED
      BY <1>0, <2>1, <2>4, ElementsTail
  <1>5. ASSUME NEW n \in Nids, UserClicks(n) \/ PopupGoes(n)
        PROVE  From
    <2>1. UNCHANGED <<ready, bus>>
      BY <1>5, UserTells
    <2>2. PICK m \in Message : m.kind # "reply" /\ inbox' = Append(inbox, m)
      BY <1>5, UserTells
    <2>3. Elements(inbox') = Elements(inbox) \cup {m} /\ ReplyFrom(m)
      BY <1>0, <2>2, ElementsAppend DEF ReplyFrom
    <2> QED
      BY <1>0, <2>1, <2>3
  <1>6. CASE StopBegins \/ StopEnds
    <2>1. Cancel(Task) \/ Cancel(Inline)
      BY <1>6 DEF StopBegins, StopEnds
    <2>2. Plain(Nothing)
      BY DEF Plain, Nothing, Holds
    <2>3. ASSUME NEW x \in Elements(bus') PROVE CallFrom(x)
      <3>1. PICK y \in Elements(bus) : x.nid = y.nid /\ (x.then = y.then \/ x.then = Nothing)
        BY <2>1, CancelledElements
      <3> QED
        BY <2>2, <3>1 DEF CallFrom
    <2>4. ASSUME NEW m \in Elements(inbox') PROVE ReplyFrom(m)
      <3>1. m \in Elements(inbox) \/ m.then = Nothing
        BY <2>1, CancelledElements
      <3> QED
        BY <2>2, <3>1 DEF ReplyFrom
    <2>5. ASSUME NEW e \in Elements(ready') PROVE EntryFrom(e)
      <3>1. e \in Elements(ready) \/ e.job = Nothing
        BY <2>1, CancelledElements
      <3> QED
        BY <2>2, <3>1 DEF EntryFrom
    <2> QED
      BY <2>3, <2>4, <2>5
  <1>7. CASE UNCHANGED <<bus, inbox, ready>>
    BY <1>0, <1>7
  <1> QED
    BY <1>1, <1>2, <1>3, <1>4, <1>5, <1>6, <1>7
    DEF Next, Loop, Runs, Receives, Outside, Answers, Stop, StopClosesClient, loopVars, vars

\* A purge lists what it did before the step, or what is on record.
LEMMA ListedMoves ==
  ASSUME Types, FreshSuffices, [Next]_vars, NEW r \in Requests, NEW n \in Nids, Listed(r, n)'
  PROVE  Listed(r, n) \/ (~Blocking /\ pending[r] # None /\ pending[r].nid = n)
  <1>1. PICK j : j \in Going' /\ Holds(j, r, n)
    BY DEF Listed, Holds
  <1>2. CASE ~Blocking
    <2>1. j \in Going \/ Plain(j)
      BY <1>1, <1>2, MailFrom, GoingIs DEF Going, CallFrom, ReplyFrom, EntryFrom
    <2> QED
      BY <1>1, <1>2, <2>1 DEF Plain, Listed
  <1>3. CASE Blocking
    <2>1. PICK c \in Containers, t \in Targets, q \in Requests : Blocked(c, t, q)
      BY <1>3 DEF Blocking
    <2>2. PICK call \in Call : bus' = Append(bus, call) /\ call.then.do = "prompted"
      BY <2>1, BlockedCalls
    <2>3. Elements(bus') = Elements(bus) \cup {call} /\ UNCHANGED <<ready, inbox>>
      BY <2>1, <2>2, ElementsAppend DEF Blocked, Types
    <2>4. j \in Going \/ j.do = "prompted"
      BY <1>1, <2>2, <2>3 DEF Going
    <2> QED
      BY <1>1, <2>4 DEF Holds, Listed
  <1> QED
    BY <1>2, <1>3

\* A block handler waits for the popup it did, unless it waited for a new one.
LEMMA FliesMoves ==
  ASSUME Types, FreshSuffices, [Next]_vars, ~Blocking, NEW j, NEW n, Flies(j, n)'
  PROVE  j \in Going /\ j.do = "prompted" /\ (Flies(j, n) \/ Flies(j, None))
  <1>1. j.do = "prompted" /\ ~Plain(j)
    BY DEF Flies, Lands, Plain
  <1>2. CASE \E x \in Elements(bus') : x.then = j /\ x.nid = n
    <2>1. PICK y \in Elements(bus) : y.then = j /\ y.nid = n
      BY <1>1, <1>2, MailFrom DEF CallFrom
    <2> QED
      BY <1>1, <2>1, GoingIs DEF Flies
  <1>3. CASE \E m \in Elements(inbox') : m.kind = "reply" /\ m.then = j /\ m.ok /\ m.nid = n
    <2>1. PICK m \in Elements(inbox') : m.kind = "reply" /\ m.then = j /\ m.ok /\ m.nid = n
      BY <1>3
    <2>2. \/ m \in Elements(inbox)
          \/ \E y \in Elements(bus) : y.then = j /\ y.nid \in {n, None}
      BY <1>1, <2>1, MailFrom DEF ReplyFrom
    <2> QED
      BY <1>1, <2>1, <2>2, GoingIs DEF Flies, Lands
  <1>4. CASE \E e \in Elements(ready') : e.job = j /\ e.ok /\ e.nid = n
    <2>1. PICK e \in Elements(ready') : e.job = j /\ e.ok /\ e.nid = n
      BY <1>4
    <2>2. \/ e \in Elements(ready)
          \/ \E m \in Elements(inbox) : m.kind = "reply" /\ m.then = j /\ m.ok = e.ok /\ m.nid = n
      BY <1>1, <2>1, MailFrom DEF EntryFrom
    <2> QED
      BY <1>1, <2>1, <2>2, GoingIs DEF Flies, Lands
  <1> QED
    BY <1>2, <1>3, <1>4 DEF Flies, Lands

-----------------------------------------------------------------------------
(* What a step does to the calls, the records and the screen *)

Same(x, y) == x.op = y.op /\ x.nid = y.nid /\ x.face = y.face

\* Calls are added at the end and answered from the front; stop() only lets go of
\* the jobs that await them.
LEMMA BusMoves ==
  ASSUME Types, [Next]_vars
  PROVE  \/ /\ DOMAIN bus' = DOMAIN bus
            /\ \A i \in DOMAIN bus : bus'[i] \in Call /\ Same(bus'[i], bus[i])
            /\ bus' = bus \/ Stop
         \/ \E call \in Call : bus' = Append(bus, call) /\ (call \in PromptCalls => Blocking)
         \/ bus # <<>> /\ bus' = Tail(bus) /\ Answers
  <1>0. \A i \in DOMAIN bus : bus[i] \in Call
    BY DEF Types
  <1>1. CASE bus' = bus
    BY <1>0, <1>1 DEF Same
  <1>2. ASSUME NEW r \in Requests, VerdictApplied(r)
        PROVE  bus' = bus \/ \E call \in Call : bus' = Append(bus, call) /\ call \notin PromptCalls
    BY <1>2, VerdictCalls DEF PromptCalls
  <1>3. ASSUME NEW c \in Containers, Lifecycle(c)
        PROVE  bus' = bus
    BY <1>3, LifecycleStarts
  <1>4. Blocking => \E call \in Call : bus' = Append(bus, call)
    BY BlockedCalls DEF Blocking
  <1>5. CASE Runs
    BY <1>1, <1>5, RunCalls
  <1>6. Answers => bus # <<>> /\ bus' = Tail(bus)
    BY DEF Answers, DaemonPosts, DaemonRefuses, DaemonCloses
  <1>7. CASE StopBegins \/ StopEnds
    <2>1. Cancelling
      BY <1>7, CancelCancels DEF StopBegins, StopEnds
    <2>2. ASSUME NEW i \in DOMAIN bus
          PROVE  bus'[i] \in Call /\ Same(bus'[i], bus[i])
      <3>1. bus'[i] = bus[i] \/ bus'[i] = [bus[i] EXCEPT !.then = Nothing]
        BY <2>1 DEF Cancelling
      <3>2. LET d == [bus[i] EXCEPT !.then = Nothing]
            IN d \in Call /\ d.op = bus[i].op /\ d.nid = bus[i].nid /\ d.face = bus[i].face
        BY <1>0, CancelledMail
      <3> QED
        BY <1>0, <3>1, <3>2 DEF Same
    <2> QED
      BY <1>7, <2>1, <2>2 DEF Cancelling, Stop
  <1>8. \/ bus' = bus \/ Blocking \/ Runs \/ Answers \/ StopBegins \/ StopEnds
        \/ \E r \in Requests : VerdictApplied(r)
    BY <1>3 DEF Next, HubEvent, Loop, Runs, Outside, Answers, Stop, Blocking, Lifecycle, vars,
       ReceiveReply, ReceiveAction, ReceiveClosed, UserClicks, PopupGoes, StopClosesClient, loopVars
  <1> QED
    BY <1>1, <1>2, <1>4, <1>5, <1>6, <1>7, <1>8

\* A record goes when its verdict is applied, its purge comes to it, or the next
\* prompt of its target takes its popup; it is made by a block handler.
Files(r) == RunPrompted /\ Head(ready).ok /\ r = Job.id

Drops(r) == \/ VerdictApplied(r)
            \/ RunPurge
            \/ RunPrompted /\ Head(ready).ok /\ r = Job.prior /\ r # Job.id

LEMMA PendingMoves ==
  ASSUME Types, [Next]_vars, NEW r \in Requests
  PROVE  \/ pending'[r] = pending[r]
         \/ pending'[r] = None /\ (Drops(r) \/ StopEnds)
         \/ Files(r)
  <1>1. ASSUME NEW q \in Requests, VerdictApplied(q)
        PROVE  pending' = [pending EXCEPT ![q] = None]
    BY <1>1 DEF VerdictApplied, Put
  <1>2. CASE \E q \in Requests : VerdictApplied(q)
    BY <1>1, <1>2 DEF Types, Drops
  <1>3. CASE RunPrompted
    BY <1>3, PromptFiles DEF Files, Drops
  <1>4. CASE RunPurge
    <2>1. pending' = pending \/ \E q \in Requests : pending' = [pending EXCEPT ![q] = None]
      BY <1>4, PurgeSteps DEF Stale
    <2> QED
      BY <1>4, <2>1 DEF Types, Drops
  <1>5. CASE StopEnds
    BY <1>5 DEF StopEnds
  <1>6. CASE pending' = pending
    BY <1>6
  <1> QED
    BY <1>2, <1>3, <1>4, <1>5, <1>6
    DEF Next, HubEvent, Loop, Outside, Stop, vars, Blocked, ShieldDown, ShieldUp, ContainerExited,
        RunReported, RunAlert, RunAlerted, RunRetract, RunSend, RunCancelled, ReceiveReply,
        ReceiveAction, ReceiveClosed, DaemonPosts, DaemonRefuses, DaemonCloses, UserClicks,
        PopupGoes, StopBegins, StopClosesClient, stateVars

\* A prompt comes on screen when the daemon takes the call that posts it.
Posted(n) ==
  /\ DaemonPosts /\ bus # <<>> /\ Head(bus) \in PromptCalls /\ screen'[n] = Head(bus).face
  /\ n = IF Head(bus).nid = None THEN fresh ELSE Head(bus).nid

LEMMA PromptsMove ==
  ASSUME Types, FreshSuffices, [Next]_vars, NEW n \in Nids, n \in PromptsShown'
  PROVE  (n \in PromptsShown /\ screen'[n] = screen[n]) \/ Posted(n)
  <1>1. screen'[n] # None /\ screen'[n].kind = "prompt"
    BY DEF PromptsShown
  <1>2. CASE screen'[n] \in {screen[n], None}
    BY <1>1, <1>2 DEF PromptsShown
  <1>3. CASE /\ DaemonPosts /\ screen'[n] = Head(bus).face
             /\ n = IF Head(bus).nid = None THEN fresh ELSE Head(bus).nid
    <2>1. bus # <<>> /\ Head(bus).op = "notify"
      BY <1>3 DEF DaemonPosts
    <2>2. Head(bus) \in PromptCalls
      BY <1>1, <1>3, <2>1, BusHead DEF PromptCalls
    <2> QED
      BY <1>3, <2>1, <2>2 DEF Posted
  <1> QED
    BY <1>2, <1>3, ScreenMoves

\* A call that is to take a prompt off the screen does, when outcomes are not refused.
LEMMA HeadKills ==
  ASSUME Types, FreshSuffices, "outcome" \notin Fallible, Answers,
         NEW n \in Nids, Kills(Head(bus), n)
  PROVE  n \notin PromptsShown'
  <1>1. CASE Head(bus).op = "close"
    <2>1. DaemonCloses
      BY <1>1 DEF Answers, DaemonPosts, DaemonRefuses
    <2>2. screen' = [screen EXCEPT ![n] = None]
      BY <2>1, CloseReplies DEF Kills
    <2> QED
      BY <2>2 DEF PromptsShown, Types
  <1>2. CASE Head(bus).op # "close"
    <2>1. Head(bus).nid = n /\ Head(bus).op = "notify" /\ Head(bus).face.kind = "outcome"
      BY <1>2 DEF Kills
    <2>2. DaemonPosts
      BY <2>1 DEF Answers, DaemonRefuses, DaemonCloses
    <2>3. n # None
      BY NoneAssumption DEF NoneAssumption
    <2>4. screen' = [screen EXCEPT ![n] = Head(bus).face]
      BY <2>1, <2>2, <2>3, PostReplies
    <2> QED
      BY <2>1, <2>4 DEF PromptsShown, Types
  <1> QED
    BY <1>1, <1>2

LEMMA KilledStays ==
  ASSUME Types, FreshSuffices, [Next]_vars, "outcome" \notin Fallible, NEW n \in Nids, Killed(n)
  PROVE  Killed(n)' \/ n \notin PromptsShown'
  <1>1. PICK x \in Elements(bus) : Kills(x, n)
    BY DEF Killed
  <1>2. CASE /\ DOMAIN bus' = DOMAIN bus
             /\ \A i \in DOMAIN bus : bus'[i] \in Call /\ Same(bus'[i], bus[i])
    <2>1. PICK i \in DOMAIN bus : x = bus[i]
      BY DEF Elements
    <2>2. bus'[i] \in Elements(bus') /\ Kills(bus'[i], n)
      BY <1>1, <1>2, <2>1 DEF Elements, Same, Kills
    <2> QED
      BY <2>2 DEF Killed
  <1>3. CASE \E call \in Call : bus' = Append(bus, call)
    BY <1>1, <1>3, AnyAppend DEF Types, Killed
  <1>4. CASE bus # <<>> /\ bus' = Tail(bus) /\ Answers
    <2>1. x \in Elements(bus') \/ x = Head(bus)
      BY <1>4, ElementsLeft DEF Types
    <2> QED
      BY <1>1, <1>4, <2>1, HeadKills DEF Killed
  <1> QED
    BY <1>2, <1>3, <1>4, BusMoves

-----------------------------------------------------------------------------
(* What stays, or turns into what follows *)

\* A block handler about to file is the only one, and its request has no other
\* record or listing than of the popup it files.
LEMMA FilesRight ==
  ASSUME Types, Flight, PendingBacked, Cited, RunPrompted, Head(ready).ok
  PROVE  /\ Job \in Jobs /\ Job.do = "prompted" /\ Lands(Job, Head(ready).nid) /\ Job \in Going
         /\ Head(ready).nid \in Nids
         /\ Job.id \in Requests /\ Job.container \in Containers /\ Job.target \in Targets
         /\ announced[Job.id] = [container |-> Job.container, target |-> Job.target]
         /\ \A r \in Requests :
              /\ pending[r] # None
              /\ r \in {Job.prior, Job.id} \cup OnTarget(Job.container, Job.target)
              => r = Job.prior /\ pending[r].nid = Head(ready).nid
         /\ \A k \in Nids : Listed(Job.id, k) => k = Head(ready).nid
  <1>1. /\ ready # <<>> /\ Job = Head(ready).job /\ Job \in Jobs /\ Job.do = "prompted"
        /\ Head(ready) \in Elements(ready) /\ Job \in Going /\ Head(ready).nid \in Nids
    BY PromptFiles
  <1>2. Job.id \in Requests /\ Job.container \in Containers /\ Job.target \in Targets
    BY <1>1, JobFields
  <1>3. announced[Job.id] = [container |-> Job.container, target |-> Job.target]
    BY <1>1 DEF Cited, EntryCites, Backed
  <1>4. Lands(Job, Head(ready).nid)
    BY <1>1 DEF Lands
  <1>5. /\ \A r \in Requests :
             pending[r] # None /\ (r = Job.prior \/ r \in OnTarget(Job.container, Job.target))
               => r = Job.prior /\ pending[r].nid = Head(ready).nid
        /\ \A k \in Nids : Listed(Job.id, k) => k = Head(ready).nid
    BY <1>1, <1>4 DEF Flight, Flies
  <1>6. pending[Job.id] # None => Job.id \in OnTarget(Job.container, Job.target)
    <2> SUFFICES ASSUME pending[Job.id] # None
                 PROVE  /\ pending[Job.id].container = Job.container
                        /\ pending[Job.id].target = Job.target
      BY <1>2 DEF OnTarget
    <2>1. [container |-> pending[Job.id].container, target |-> pending[Job.id].target]
            = [container |-> Job.container, target |-> Job.target]
      BY <1>2, <1>3 DEF PendingBacked
    <2> QED
      BY <2>1
  <1> QED
    BY <1>1, <1>2, <1>3, <1>4, <1>5, <1>6

\* A purge closes the popup of the record it drops.
LEMMA PurgeTakes ==
  ASSUME Types, ListsTrue, RunPurge, NEW r \in Requests, pending[r] # None
  PROVE  \/ pending'[r] = pending[r]
         \/ \E x \in Elements(bus') : x.op = "close" /\ x.nid = pending[r].nid
  <1>1. PICK rest \in SUBSET Stale :
          /\ rest = (IF Job.rest = None THEN Snapshot(Job.container) ELSE Job.rest)
          /\ \/ \E stale \in rest, call \in Call :
                  /\ pending' = [pending EXCEPT ![stale.id] = None]
                  /\ bus' = Append(bus, call) /\ call.op = "close" /\ call.nid = stale.nid
             \/ pending' = pending
    BY PurgeSteps
  <1>2. Job \in Going /\ Job.do = "purge"
    BY PurgeSteps
  <1>3. ASSUME NEW stale \in rest, stale.id = r
        PROVE  stale.nid = pending[r].nid
    <2>1. stale \in Stale /\ stale.nid \in Nids /\ stale = [id |-> r, nid |-> stale.nid]
      BY <1>1, <1>3 DEF Stale
    <2>2. CASE Job.rest = None
      <3>1. stale \in Snapshot(Job.container)
        BY <1>1, <2>2
      <3>2. PICK q \in Requests : stale = [id |-> q, nid |-> pending[q].nid]
        BY <3>1 DEF Snapshot
      <3> QED
        BY <1>3, <3>2
    <2>3. CASE Job.rest # None
      <3>1. Holds(Job, r, stale.nid)
        BY <1>1, <1>2, <2>1, <2>3 DEF Holds
      <3>2. Listed(r, stale.nid)
        BY <1>2, <3>1 DEF Listed
      <3> QED
        BY <2>1, <3>2 DEF ListsTrue
    <2> QED
      BY <2>2, <2>3
  <1>4. CASE \E stale \in rest, call \in Call :
               /\ pending' = [pending EXCEPT ![stale.id] = None]
               /\ bus' = Append(bus, call) /\ call.op = "close" /\ call.nid = stale.nid
    <2>1. PICK stale \in rest, call \in Call :
            /\ pending' = [pending EXCEPT ![stale.id] = None]
            /\ bus' = Append(bus, call) /\ call.op = "close" /\ call.nid = stale.nid
      BY <1>4
    <2>2. call \in Elements(bus')
      BY <2>1, ElementsAppend DEF Types
    <2>3. stale.id # r => pending'[r] = pending[r]
      BY <2>1 DEF Types
    <2> QED
      BY <1>3, <2>1, <2>2, <2>3
  <1> QED
    BY <1>1, <1>4

LEMMA RecordStays ==
  ASSUME Types, [Next]_vars, "verdict" \in Enabled, phase' # "stopped",
         Flight, ListsTrue, PendingBacked, Cited, NEW n \in Nids, OnRecord(n)
  PROVE  OnRecord(n)' \/ Killed(n)'
  <1>1. PICK r \in Requests : pending[r] # None /\ pending[r].nid = n
    BY DEF OnRecord
  <1>2. CASE pending'[r] = pending[r]
    BY <1>1, <1>2 DEF OnRecord
  <1>3. CASE VerdictApplied(r)
    <2>1. PICK call \in Call : /\ bus' = Append(bus, call) /\ call.op = "notify"
                               /\ call.face.kind = "outcome" /\ call.nid = pending[r].nid
      BY <1>3, VerdictCalls
    <2>2. call \in Elements(bus')
      BY <2>1, ElementsAppend DEF Types
    <2> QED
      BY <1>1, <2>1, <2>2 DEF Killed, Kills
  <1>4. CASE RunPurge
    BY <1>1, <1>4, PurgeTakes DEF Killed, Kills, OnRecord
  <1>5. CASE RunPrompted /\ Head(ready).ok /\ r \in {Job.prior, Job.id}
    <2>1. pending[r].nid = Head(ready).nid /\ Job.id \in Requests /\ Head(ready).nid \in Nids
      BY <1>1, <1>5, FilesRight
    <2>2. pending'[Job.id] = [nid |-> Head(ready).nid, container |-> Job.container,
                              target |-> Job.target]
      BY <1>5, PromptFiles
    <2>3. Job.container \in Containers /\ Job.target \in Targets
      BY <1>5, FilesRight
    <2>4. pending'[Job.id] \in Pending /\ pending'[Job.id].nid = n
      BY <1>1, <2>1, <2>2, <2>3 DEF Pending
    <2>5. pending'[Job.id] # None
      BY <2>4, NoneAssumption DEF NoneAssumption
    <2> QED
      BY <2>1, <2>4, <2>5 DEF OnRecord
  <1>6. ~StopEnds
    BY DEF StopEnds
  <1> QED
    BY <1>2, <1>3, <1>4, <1>5, <1>6, PendingMoves DEF Drops, Files

\* What the daemon answered a block handler waits for it until it files it.
LEMMA LandedStays ==
  ASSUME Types, [Next]_vars, phase' # "stopped", NEW j, NEW n, Lands(j, n)
  PROVE  \/ Lands(j, n)'
         \/ RunPrompted /\ Head(ready).ok /\ Job = j /\ Head(ready).nid = n
  <1>1. j.do = "prompted" /\ ~Task(j) /\ j # Nothing
    BY DEF Lands, Task, Nothing
  <1>2. ASSUME NEW m \in Elements(inbox), m.kind = "reply", m.then = j, m.ok, m.nid = n
        PROVE  Lands(j, n)'
    <2>1. m \in Elements(inbox') \/ (m = Head(inbox) /\ Receives)
      BY <1>1, <1>2, QueuesMove DEF MessagesStay
    <2>2. CASE m = Head(inbox) /\ Receives
      <3>1. ReceiveReply
        BY <1>2, <2>2 DEF Receives, ReceiveAction, ReceiveClosed
      <3>2. PICK e \in Entry : /\ e.job = j /\ e.nid = n /\ e.ok = m.ok
                               /\ ready' = Append(ready, e)
        BY <1>1, <1>2, <2>2, <3>1, ReplyResumes
      <3>3. e \in Elements(ready')
        BY <3>2, ElementsAppend DEF Types
      <3> QED
        BY <1>1, <1>2, <3>2, <3>3 DEF Lands
    <2> QED
      BY <1>1, <1>2, <2>1, <2>2 DEF Lands
  <1>3. ASSUME NEW e \in Elements(ready), e.job = j, e.ok, e.nid = n
        PROVE  \/ Lands(j, n)'
               \/ RunPrompted /\ Head(ready).ok /\ Job = j /\ Head(ready).nid = n
    <2>1. e \in Elements(ready') \/ (e = Head(ready) /\ Runs)
      BY <1>1, <1>3, QueuesMove DEF EntriesStay
    <2>2. CASE e = Head(ready) /\ Runs
      BY <1>1, <1>3, <2>2 DEF Runs, RunReported, RunPurge, RunAlert, RunAlerted, RunRetract,
                              RunSend, RunCancelled, Running, Job
    <2> QED
      BY <1>1, <1>3, <2>1, <2>2 DEF Lands
  <1> QED
    BY <1>2, <1>3 DEF Lands

\* A purge goes on until it runs.
LEMMA PurgeStays ==
  ASSUME Types, FreshSuffices, [Next]_vars, phase' = "running", NEW j \in Going, j.do = "purge"
  PROVE  j \in Going' \/ (RunPurge /\ j = Job)
  <1>1. j # Nothing /\ j.do = "purge"
    BY DEF Nothing
  <1>2. ASSUME NEW x \in Elements(bus), x.then = j
        PROVE  j \in Going'
    <2>1. x \in Elements(bus') \/ (x = Head(bus) /\ Answers)
      BY QueuesMove DEF CallsStay
    <2>2. CASE x = Head(bus) /\ Answers
      <3>1. PICK m \in Message :
              /\ m.kind = "reply" /\ m.then = j
              /\ \/ inbox' = Append(inbox, m)
                 \/ \E k \in Message : inbox' = Append(Append(inbox, k), m)
        BY <1>2, <2>2, AnswerReplies
      <3>2. m \in Elements(inbox')
        <4>1. CASE inbox' = Append(inbox, m)
          BY <4>1, ElementsAppend DEF Types
        <4>2. ASSUME NEW k \in Message, inbox' = Append(Append(inbox, k), m)
              PROVE  m \in Elements(inbox')
          <5>1. PICK q \in Seq(Message) : q = Append(inbox, k)
            BY AppendElements DEF Types
          <5>2. m \in Elements(Append(q, m))
            BY ElementsAppend
          <5>3. inbox' = Append(q, m)
            BY <4>2, <5>1
          <5> QED
            BY <5>2, <5>3
        <4> QED
          BY <3>1, <4>1, <4>2
      <3> QED
        BY <3>1, <3>2 DEF Going
    <2> QED
      BY <1>2, <2>1, <2>2 DEF Going
  <1>3. ASSUME NEW m \in Elements(inbox), m.kind = "reply", m.then = j
        PROVE  j \in Going'
    <2>1. m \in Elements(inbox') \/ (m = Head(inbox) /\ Receives)
      BY QueuesMove DEF MessagesStay
    <2>2. CASE m = Head(inbox) /\ Receives
      <3>1. ReceiveReply
        BY <1>3, <2>2 DEF Receives, ReceiveAction, ReceiveClosed
      <3>2. PICK e \in Entry : e.job = j /\ ready' = Append(ready, e)
        BY <1>1, <1>3, <2>2, <3>1, ReplyResumes
      <3>3. e \in Elements(ready')
        BY <3>2, ElementsAppend DEF Types
      <3> QED
        BY <3>2, <3>3 DEF Going
    <2> QED
      BY <1>3, <2>1, <2>2 DEF Going
  <1>4. ASSUME NEW e \in Elements(ready), e.job = j
        PROVE  j \in Going' \/ (RunPurge /\ j = Job)
    <2>1. e \in Elements(ready') \/ (e = Head(ready) /\ Runs)
      BY QueuesMove DEF EntriesStay
    <2>2. CASE e = Head(ready) /\ Runs
      BY <1>1, <1>4, <2>2 DEF Runs, RunReported, RunPrompted, RunAlert, RunAlerted, RunRetract,
                              RunSend, RunCancelled, Running, Job
    <2> QED
      BY <1>4, <2>1, <2>2 DEF Going
  <1> QED
    BY <1>2, <1>3, <1>4 DEF Going

\* With no job of the stream task about, no block handler waits.
LEMMA NoFlight ==
  /\ Types /\ InlineAbsent => \A j, n : ~Flies(j, n)
  /\ Types' /\ InlineAbsent' => \A j, n : ~Flies(j, n)'
  <1>1. Types /\ InlineAbsent => \A j, n : ~Flies(j, n)
    <2> SUFFICES ASSUME Types, InlineAbsent, NEW j, NEW n, Flies(j, n) PROVE FALSE
      OBVIOUS
    <2>1. j.do = "prompted" /\ Inline(j)
      BY DEF Flies, Lands, Inline
    <2>2. /\ \A x \in Elements(bus) : x \in Call /\ x \notin InlineCalls
          /\ \A m \in Elements(inbox) : m \in Message /\ m \notin InlineReplies
          /\ \A e \in Elements(ready) : e \in Entry /\ e \notin InlineEntries
      BY DEF InlineAbsent, Absent, Elements, Types
    <2> QED
      BY <2>1, <2>2 DEF Flies, Lands, InlineCalls, InlineReplies, InlineEntries
  <1>2. Types' /\ InlineAbsent' => \A j, n : ~Flies(j, n)'
    <2> SUFFICES ASSUME Types', InlineAbsent', NEW j, NEW n, Flies(j, n)' PROVE FALSE
      OBVIOUS
    <2>1. j.do = "prompted" /\ Inline(j)
      BY DEF Flies, Lands, Inline
    <2>2. /\ \A x \in Elements(bus') : x \in Call /\ x \notin InlineCalls
          /\ \A m \in Elements(inbox') : m \in Message /\ m \notin InlineReplies
          /\ \A e \in Elements(ready') : e \in Entry /\ e \notin InlineEntries
      BY DEF InlineAbsent, Absent, Elements, Types, InlineCalls, InlineReplies, InlineEntries
    <2> QED
      BY <2>1, <2>2 DEF Flies, Lands, InlineCalls, InlineReplies, InlineEntries
  <1> QED
    BY <1>1, <1>2

\* A block handler is about the request the hub announced for its target.
LEMMA GoingBacked ==
  ASSUME Types, Cited, NEW j \in Going, j.do = "prompted"
  PROVE  /\ j.container \in Containers /\ j.target \in Targets
         /\ j.id \in Requests /\ j.prior \in Requests \cup {None}
         /\ announced[j.id] = [container |-> j.container, target |-> j.target]
  <1>1. j \in Jobs
    BY GoingIs
  <1>2. Backed(announced, j)
    BY DEF Cited, EntryCites, CallCites, MessageCites, Going
  <1> QED
    BY <1>1, <1>2, JobFields DEF Backed

\* Only lifecycle events end a container's shield or the container.
LEMMA EndedMoves ==
  ASSUME Types, [Next]_vars
  PROVE  /\ events' = events \/ events' = events + 1
         /\ ended' = ended \/ \E c \in Containers : Lifecycle(c)
  BY DEF Lifecycle, Next, HubEvent, Loop, Outside, Stop, vars, pastVars, Blocked, VerdictApplied,
     ShieldDown, ShieldUp, ContainerExited, RunPrompted, RunReported, RunPurge, RunAlert,
     RunAlerted, RunRetract, RunSend, RunCancelled, ReceiveReply, ReceiveAction, ReceiveClosed,
     DaemonPosts, DaemonRefuses, DaemonCloses, UserClicks, PopupGoes, StopBegins,
     StopClosesClient, StopEnds

LEMMA EndedByStep == ASSUME Types, EndedBy, [Next]_vars PROVE EndedBy'
  <1>1. /\ events \in Int /\ (events' = events \/ events' = events + 1)
        /\ \A c \in Containers : ended[c] \in Int /\ ended[c] <= events
    BY EndedMoves DEF Types, EndedBy
  <1>2. CASE ended' = ended
    BY <1>1, <1>2 DEF EndedBy
  <1>3. CASE \E c \in Containers : Lifecycle(c)
    <2>1. PICK c \in Containers : Lifecycle(c)
      BY <1>3
    <2>2. events' = events + 1 /\ (ended' = ended \/ ended' = [ended EXCEPT ![c] = events + 1])
      BY <2>1, LifecycleStarts
    <2>3. ASSUME NEW d \in Containers PROVE ended'[d] <= events'
      <3>1. ended'[d] \in {ended[d], events + 1}
        BY <2>2 DEF Types
      <3> QED
        BY <1>1, <2>2, <3>1
    <2> QED
      BY <2>3 DEF EndedBy
  <1> QED
    BY <1>2, <1>3, EndedMoves

\* A block handler that files takes the place of every other record of its target.
LEMMA UniqueStep ==
  ASSUME Types, Unique, Flight, PendingBacked, Cited, [Next]_vars
  PROVE  Unique'
  <1>1. ASSUME NEW r \in Requests, NEW q \in Requests, Files(r), q # r, pending'[q] # None
        PROVE  ~(/\ pending'[q].container = pending'[r].container
                 /\ pending'[q].target = pending'[r].target)
    <2>1. pending'[q] = pending[q] /\ q # Job.prior /\ pending[q] # None
      BY <1>1, PromptFiles DEF Files
    <2>2. pending'[r].container = Job.container /\ pending'[r].target = Job.target
      BY <1>1, PromptFiles DEF Files
    <2>3. q \notin OnTarget(Job.container, Job.target)
      BY <1>1, <2>1, FilesRight DEF Files
    <2> QED
      BY <2>1, <2>2, <2>3 DEF OnTarget
  <1>2. ASSUME NEW r \in Requests, NEW q \in Requests, pending'[r] # None, pending'[q] # None,
               pending'[q].container = pending'[r].container,
               pending'[q].target = pending'[r].target
        PROVE  r = q
    <2>1. pending'[r] = pending[r] \/ Files(r)
      BY <1>2, PendingMoves
    <2>2. pending'[q] = pending[q] \/ Files(q)
      BY <1>2, PendingMoves
    <2>3. CASE pending'[r] = pending[r] /\ pending'[q] = pending[q]
      BY <1>2, <2>3 DEF Unique, OnTarget
    <2> QED
      BY <1>1, <1>2, <2>1, <2>2, <2>3
  <1> QED
    BY <1>2 DEF Unique, OnTarget

LEMMA PendingBackedStep ==
  ASSUME Types, Flight, PendingBacked, Cited, [Next]_vars
  PROVE  PendingBacked'
  <1> SUFFICES ASSUME NEW r \in Requests, pending'[r] # None
               PROVE  announced'[r] = [container |-> pending'[r].container,
                                       target |-> pending'[r].target]
    BY DEF PendingBacked
  <1>1. CASE pending'[r] = pending[r]
    <2>1. pending[r] \in Pending
      BY <1>1 DEF Types
    <2>2. [container |-> pending[r].container, target |-> pending[r].target] \in Subject
      BY <2>1 DEF Pending, Subject
    <2>3. announced[r] = [container |-> pending[r].container, target |-> pending[r].target]
      BY <1>1 DEF PendingBacked
    <2>4. announced'[r] = [container |-> pending[r].container, target |-> pending[r].target]
      BY <2>2, <2>3, AnnouncedStays
    <2> QED
      BY <1>1, <2>4
  <1>2. CASE Files(r)
    <2>1. /\ Job.container \in Containers /\ Job.target \in Targets
          /\ announced[r] = [container |-> Job.container, target |-> Job.target]
      BY <1>2, FilesRight DEF Files
    <2>2. pending'[r].container = Job.container /\ pending'[r].target = Job.target
      BY <1>2, PromptFiles DEF Files
    <2>3. [container |-> Job.container, target |-> Job.target] \in Subject
      BY <2>1 DEF Subject
    <2>4. announced'[r] = [container |-> Job.container, target |-> Job.target]
      BY <2>1, <2>3, AnnouncedStays
    <2> QED
      BY <2>2, <2>4
  <1> QED
    BY <1>1, <1>2, PendingMoves

LEMMA ListsTrueStep ==
  ASSUME Types, FreshSuffices, ListsTrue, Flight, PendingBacked, Cited, [Next]_vars
  PROVE  ListsTrue'
  <1> SUFFICES ASSUME NEW r \in Requests, NEW n \in Nids, Listed(r, n)', pending'[r] # None
               PROVE  pending'[r].nid = n
    BY DEF ListsTrue
  <1>1. Listed(r, n) \/ (pending[r] # None /\ pending[r].nid = n)
    BY ListedMoves
  <1>2. CASE pending'[r] = pending[r]
    BY <1>1, <1>2 DEF ListsTrue
  <1>3. CASE Files(r)
    <2>1. pending'[r].nid = Head(ready).nid
      BY <1>3, PromptFiles DEF Files
    <2>2. n = Head(ready).nid
      BY <1>1, <1>3, FilesRight DEF Files
    <2> QED
      BY <2>1, <2>2
  <1> QED
    BY <1>2, <1>3, PendingMoves

\* What a block handler waits for keeps its target to itself.
LEMMA FlightStep ==
  ASSUME Types, Types', FreshSuffices, OneInline, OneInline', Unique, PendingBacked, Cited,
         Flight, Unlisted, [Next]_vars
  PROVE  Flight'
  <1>1. ASSUME ~Blocking, NEW j \in Going', NEW n \in Nids \cup {None}, Flies(j, n)'
        PROVE  /\ \A r \in Requests :
                    pending'[r] # None
                    /\ (r = j.prior \/ r \in OnTarget(j.container, j.target)')
                      => r = j.prior /\ pending'[r].nid = n
               /\ \A k \in Nids : Listed(j.id, k)' => k = n
    <2>1. j \in Going /\ j.do = "prompted" /\ (Flies(j, n) \/ Flies(j, None))
      BY <1>1, FliesMoves
    <2>2. \A r \in Requests : pending[r] # None => pending[r].nid \in Nids
      BY DEF Types, Pending
    <2>3. /\ \A r \in Requests :
               pending[r] # None /\ (r = j.prior \/ r \in OnTarget(j.container, j.target))
                 => r = j.prior /\ pending[r].nid = n
          /\ \A k \in Nids : Listed(j.id, k) => k = n
      BY <1>1, <2>1, <2>2, NoneAssumption DEF Flight, NoneAssumption
    <2>4. ~RunPrompted
      <3> SUFFICES ASSUME RunPrompted PROVE FALSE
        OBVIOUS
      <3>1. handling' = FALSE
        BY DEF RunPrompted
      <3>2. InlineAbsent'
        BY <3>1 DEF OneInline, InlineAbsent
      <3> QED
        BY <1>1, <3>2, NoFlight
    <2>5. \A r \in Requests : pending'[r] # None => pending'[r] = pending[r]
      BY <2>4, PendingMoves DEF Files
    <2>6. \A r \in Requests :
            pending'[r] # None /\ r \in OnTarget(j.container, j.target)'
              => r \in OnTarget(j.container, j.target)
      BY <2>5 DEF OnTarget
    <2>7. ASSUME NEW k \in Nids, Listed(j.id, k)'
          PROVE  k = n
      <3>1. /\ j.id \in Requests
            /\ announced[j.id] = [container |-> j.container, target |-> j.target]
        BY <2>1, GoingBacked
      <3>2. CASE Listed(j.id, k)
        BY <2>3, <3>2
      <3>3. CASE pending[j.id] # None /\ pending[j.id].nid = k
        <4>1. [container |-> pending[j.id].container, target |-> pending[j.id].target]
                = [container |-> j.container, target |-> j.target]
          BY <3>1, <3>3 DEF PendingBacked
        <4>2. pending[j.id].container = j.container /\ pending[j.id].target = j.target
          BY <4>1
        <4>3. j.id \in OnTarget(j.container, j.target)
          BY <3>1, <3>3, <4>2 DEF OnTarget
        <4> QED
          BY <2>3, <3>1, <3>3, <4>3
      <3> QED
        BY <2>7, <3>1, <3>2, <3>3, ListedMoves
    <2> QED
      BY <2>3, <2>5, <2>6, <2>7
  <1>2. ASSUME Blocking, NEW j \in Going', NEW n \in Nids \cup {None}, Flies(j, n)'
        PROVE  /\ \A r \in Requests :
                    pending'[r] # None
                    /\ (r = j.prior \/ r \in OnTarget(j.container, j.target)')
                      => r = j.prior /\ pending'[r].nid = n
               /\ \A k \in Nids : Listed(j.id, k)' => k = n
    <2>1. PICK c \in Containers, t \in Targets, q \in Requests : Blocked(c, t, q)
      BY <1>2 DEF Blocking
    <2>2. PICK call \in Call :
            /\ bus' = Append(bus, call) /\ call.op = "notify"
            /\ call.face.container = c /\ call.face.target = t
            /\ call.then.do = "prompted" /\ call.then.id = q
            /\ \/ OnTarget(c, t) = {} /\ call.nid = None /\ call.then.prior = None
               \/ \E p \in OnTarget(c, t) : call.nid = pending[p].nid /\ call.then.prior = p
      BY <2>1, BlockedCalls
    <2>3. /\ UNCHANGED <<pending, ready, inbox>> /\ ~handling
          /\ Elements(bus') = Elements(bus) \cup {call}
      <3>1. UNCHANGED <<pending, ready, inbox>> /\ ~handling
        BY <2>1 DEF Blocked, Listening, stateVars
      <3>2. Elements(bus') = Elements(bus) \cup {call}
        BY <2>2, ElementsAppend DEF Types
      <3> QED
        BY <3>1, <3>2
    <2>4. ~Flies(j, n)
      BY <2>3, NoFlight DEF OneInline, InlineAbsent
    <2>5. j = call.then /\ n = call.nid
      BY <1>2, <2>3, <2>4 DEF Flies, Lands
    <2>6. j.container = c /\ j.target = t /\ j.id = q
      BY <2>2, <2>5 DEF Call
    <2>7. ASSUME NEW r \in Requests, pending[r] # None,
                 r = j.prior \/ r \in OnTarget(c, t)
          PROVE  r = j.prior /\ pending[r].nid = n
      <3>1. CASE OnTarget(c, t) = {} /\ call.nid = None /\ call.then.prior = None
        BY <2>5, <2>7, <3>1, NoneAssumption DEF NoneAssumption
      <3>2. CASE \E p \in OnTarget(c, t) : call.nid = pending[p].nid /\ call.then.prior = p
        <4>1. PICK p \in OnTarget(c, t) : call.nid = pending[p].nid /\ call.then.prior = p
          BY <3>2
        <4>2. p \in Requests /\ pending[p] # None /\ OnTarget(pending[p].container, pending[p].target) = OnTarget(c, t)
          BY <4>1 DEF OnTarget
        <4>3. r = p
          BY <2>5, <2>7, <4>1, <4>2 DEF Unique
        <4> QED
          BY <2>5, <4>1, <4>3
      <3> QED
        BY <2>2, <3>1, <3>2
    <2>8. \A k \in Nids : ~Listed(j.id, k)'
      BY <1>2, <2>1, <2>6, ListedMoves DEF Unlisted
    <2>9. OnTarget(j.container, j.target)' = OnTarget(c, t)
      BY <2>3, <2>6 DEF OnTarget
    <2> QED
      BY <2>3, <2>7, <2>8, <2>9
  <1> QED
    BY <1>1, <1>2 DEF Flight

\* The stream task is the only one that calls prompts, one at a time.
LEMMA PromptsInline ==
  ASSUME Types, OneInline, PromptCalled, phase # "stopped", ~handling
  PROVE  Absent(bus, PromptCalls)
  <1> SUFFICES ASSUME NEW i \in DOMAIN bus, bus[i] \in PromptCalls PROVE FALSE
    BY DEF Absent
  <1>1. bus[i] \in Elements(bus) /\ bus[i] \in Call
    BY DEF Elements, Types
  <1>2. bus[i].then.do = "prompted"
    BY <1>1 DEF PromptCalled
  <1>3. bus[i] \in InlineCalls
    BY <1>1, <1>2 DEF InlineCalls, Inline
  <1> QED
    BY <1>3 DEF OneInline, Absent

LEMMA PromptOnceStep ==
  ASSUME Types, OneInline, PromptCalled, PromptOnce, [Next]_vars
  PROVE  PromptOnce'
  <1>0. bus \in Seq(Call)
    BY DEF Types
  <1>1. CASE /\ DOMAIN bus' = DOMAIN bus
             /\ \A i \in DOMAIN bus : bus'[i] \in Call /\ Same(bus'[i], bus[i])
    <2>1. \A i \in DOMAIN bus : bus'[i] \in PromptCalls => bus[i] \in PromptCalls
      BY <1>0, <1>1 DEF Same, PromptCalls
    <2>2. Single(bus, PromptCalls) => Single(bus', PromptCalls)
      BY <1>1, <2>1, SingleMapped
    <2> QED
      BY <2>2 DEF PromptOnce, PromptCalls
  <1>2. ASSUME NEW call \in Call, bus' = Append(bus, call), call \in PromptCalls => Blocking
        PROVE  PromptOnce'
    <2>1. CASE call \notin PromptCalls
      BY <1>0, <1>2, <2>1, SingleAppend DEF PromptOnce, PromptCalls
    <2>2. CASE Blocking
      <3>1. phase # "stopped" /\ ~handling
        BY <2>2 DEF Blocking, Blocked, Listening
      <3>2. Absent(bus, PromptCalls)
        BY <3>1, PromptsInline
      <3> QED
        BY <1>0, <1>2, <3>2, SingleAppend DEF PromptOnce, PromptCalls
    <2> QED
      BY <1>2, <2>1, <2>2
  <1>3. CASE bus # <<>> /\ bus' = Tail(bus)
    BY <1>0, <1>3, SingleTail DEF PromptOnce, PromptCalls
  <1> QED
    BY <1>1, <1>2, <1>3, BusMoves

LEMMA PromptCalledStep ==
  ASSUME Types, Types', OneInline, EndedBy, PromptCalled, [Next]_vars
  PROVE  PromptCalled'
  <1> SUFFICES ASSUME phase' # "stopped", NEW x \in Elements(bus'), x \in PromptCalls
               PROVE  x.then.do = "prompted" /\ x.face.at > ended'[x.face.container]
    BY DEF PromptCalled, PromptCalls
  <1>0. /\ phase # "stopped" /\ bus \in Seq(Call) /\ x \in Call /\ x.face.container \in Containers
        /\ x.face.at \in Int
    <2>1. x \in Call
      BY Zenon DEF PromptCalls
    <2>2. x.face \in Face
      BY <2>1 DEF PromptCalls, Call, Shown
    <2>3. phase # "stopped"
      BY QueuesMove
    <2>4. bus \in Seq(Call)
      BY Zenon DEF Types
    <2>5. x.face.container \in Containers /\ x.face.at \in Int
      BY <2>2 DEF Face
    <2> QED
      BY <2>1, <2>3, <2>4, <2>5
  <1>1. CASE x \in Elements(bus)
    <2>1. x.then.do = "prompted" /\ x.face.at > ended[x.face.container]
      BY <1>0, <1>1 DEF PromptCalled
    <2>2. ASSUME NEW c \in Containers, Lifecycle(c)
          PROVE  FALSE
      <3>1. ~handling
        BY <2>2, LifecycleStarts
      <3>2. Absent(bus, PromptCalls)
        BY <1>0, <3>1, PromptsInline
      <3> QED
        BY <1>1, <3>2 DEF Absent, Elements
    <2> QED
      BY <2>1, <2>2, EndedMoves
  <1>2. CASE Blocking
    <2>1. PICK c \in Containers, t \in Targets, r \in Requests : Blocked(c, t, r)
      BY <1>2 DEF Blocking
    <2>2. PICK call \in Call :
            /\ bus' = Append(bus, call) /\ call.face.at = events + 1
            /\ call.then.do = "prompted"
      BY <2>1, BlockedCalls
    <2>3. Elements(bus') = Elements(bus) \cup {call} /\ ended' = ended
      BY <1>0, <2>1, <2>2, ElementsAppend DEF Blocked
    <2>4. CASE x = call
      <3>1. ended[x.face.container] <= events /\ ended[x.face.container] \in Int /\ events \in Int
        BY <1>0 DEF EndedBy, Types
      <3> QED
        BY <1>0, <2>2, <2>3, <2>4, <3>1
    <2> QED
      BY <1>1, <2>3, <2>4
  <1>3. CASE StopBegins
    <2>1. Cancel(Task) /\ ended' = ended
      BY <1>3 DEF StopBegins, pastVars
    <2>2. PICK i \in DOMAIN bus' : x = bus'[i]
      BY DEF Elements
    <2>3. /\ DOMAIN bus' = DOMAIN bus /\ bus[i] \in Call
          /\ bus'[i] = IF Task(bus[i].then) THEN [bus[i] EXCEPT !.then = Nothing] ELSE bus[i]
      BY <1>0, <2>1, <2>2 DEF Cancel
    <2>4. bus[i] \in Elements(bus) /\ bus[i] \in PromptCalls
      <3>1. LET d == [bus[i] EXCEPT !.then = Nothing]
            IN d.op = bus[i].op /\ d.face = bus[i].face
        BY <2>3, CancelledMail
      <3>2. x.op = bus[i].op /\ x.face = bus[i].face
        BY <2>2, <2>3, <3>1
      <3> QED
        BY <2>2, <2>3, <3>2 DEF Elements, PromptCalls
    <2>5. bus[i].then.do = "prompted"
      BY <1>0, <2>4 DEF PromptCalled
    <2>6. x = bus[i]
      BY <2>2, <2>3, <2>5 DEF Task
    <2> QED
      BY <1>1, <2>4, <2>6
  <1>4. ~StopEnds
    BY DEF StopEnds
  <1>5. CASE bus' = bus
    BY <1>1, <1>5
  <1>6. CASE bus # <<>> /\ bus' = Tail(bus)
    BY <1>0, <1>1, <1>6, ElementsTail
  <1>7. CASE \E call \in Call : bus' = Append(bus, call) /\ call \notin PromptCalls
    BY <1>0, <1>1, <1>7, ElementsAppend
  <1>8. Stop => StopBegins \/ bus' = bus
    BY <1>4 DEF Stop, StopClosesClient, loopVars
  <1> QED
    BY <1>2, <1>3, <1>5, <1>6, <1>7, <1>8, BusMoves

\* A prompt the daemon posts is answered to the block handler that is to file it.
LEMMA PostedLands ==
  ASSUME Types, FreshSuffices, PromptCalled, phase # "stopped", NEW n \in Nids, Posted(n)
  PROVE  Landed(n)'
  <1>1. /\ DaemonPosts /\ Answers /\ bus # <<>> /\ Head(bus) \in PromptCalls
        /\ n = IF Head(bus).nid = None THEN fresh ELSE Head(bus).nid
    BY DEF Posted, Answers
  <1>2. Head(bus) \in Elements(bus)
    BY <1>1, AnswerReplies
  <1>3. Head(bus).then.do = "prompted"
    BY <1>1, <1>2 DEF PromptCalled
  <1>4. PICK m \in Message :
          /\ m.kind = "reply" /\ m.then = Head(bus).then /\ m.ok /\ m.nid = n
          /\ \/ inbox' = Append(inbox, m)
             \/ \E k \in Message : inbox' = Append(Append(inbox, k), m)
    BY <1>1, <1>3, AnswerReplies
  <1>5. m \in Elements(inbox')
    <2>1. CASE inbox' = Append(inbox, m)
      BY <2>1, ElementsAppend DEF Types
    <2>2. ASSUME NEW k \in Message, inbox' = Append(Append(inbox, k), m)
          PROVE  m \in Elements(inbox')
      <3>1. PICK q \in Seq(Message) : q = Append(inbox, k)
        BY AppendElements DEF Types
      <3>2. m \in Elements(Append(q, m))
        BY ElementsAppend
      <3>3. inbox' = Append(q, m)
        BY <2>2, <3>1
      <3> QED
        BY <3>2, <3>3
    <2> QED
      BY <1>4, <2>1, <2>2
  <1>6. m.then \in Going' /\ Lands(m.then, n)'
    BY <1>3, <1>4, <1>5 DEF Going, Lands
  <1> QED
    BY <1>6 DEF Landed

LEMMA AccountedStep ==
  ASSUME Types, FreshSuffices, "verdict" \in Enabled, "outcome" \notin Fallible,
         PromptCalled, PendingBacked, ListsTrue, Flight, Cited, Accounted, [Next]_vars
  PROVE  Accounted'
  <1> SUFFICES ASSUME phase' # "stopped", NEW n \in Nids, n \in PromptsShown'
               PROVE  OnRecord(n)' \/ Killed(n)' \/ Landed(n)'
    BY DEF Accounted, PromptsShown
  <1>0. phase # "stopped"
    BY QueuesMove
  <1>1. CASE Posted(n)
    BY <1>0, <1>1, PostedLands
  <1>2. CASE n \in PromptsShown
    <2>1. CASE OnRecord(n)
      BY <2>1, RecordStays
    <2>2. CASE Killed(n)
      BY <2>2, KilledStays
    <2>3. CASE Landed(n)
      <3>1. PICK j \in Going : Lands(j, n)
        BY <2>3 DEF Landed
      <3>2. CASE Lands(j, n)'
        <4>1. j \in Going'
          BY <3>2 DEF Lands, Going
        <4> QED
          BY <3>2, <4>1 DEF Landed
      <3>3. CASE RunPrompted /\ Head(ready).ok /\ Head(ready).nid = n
        <4>1. Job.id \in Requests /\ Job.container \in Containers /\ Job.target \in Targets
          BY <3>3, FilesRight
        <4>2. pending'[Job.id] = [nid |-> n, container |-> Job.container, target |-> Job.target]
          BY <3>3, PromptFiles
        <4>3. pending'[Job.id] \in Pending /\ pending'[Job.id].nid = n
          BY <4>1, <4>2 DEF Pending
        <4>4. pending'[Job.id] # None
          BY <4>3, NoneAssumption DEF NoneAssumption
        <4> QED
          BY <4>1, <4>3, <4>4 DEF OnRecord
      <3> QED
        BY <3>1, <3>2, <3>3, LandedStays
    <2> QED
      BY <1>0, <1>2, <2>1, <2>2, <2>3 DEF Accounted
  <1> QED
    BY <1>1, <1>2, PromptsMove

LEMMA KilledBeforeStep ==
  ASSUME Types, FreshSuffices, "outcome" \notin Fallible, OneInline, PromptOnce, PromptCalled,
         Unique, Agreement, Accounted, KilledBefore, [Next]_vars
  PROVE  KilledBefore'
  <1> SUFFICES ASSUME NEW i \in DOMAIN bus', NEW n \in Nids, bus'[i] \in PromptCalls,
                      n \in PromptsShown', n # bus'[i].nid,
                      screen'[n].container = bus'[i].face.container,
                      screen'[n].target = bus'[i].face.target
               PROVE  \E k \in 1..(i - 1) : Kills(bus'[k], n)
    BY DEF KilledBefore, PromptCalls, Kills, Shows
  <1>0. /\ bus \in Seq(Call) /\ n \in PromptsShown'
        /\ screen'[n].container = bus'[i].face.container
        /\ screen'[n].target = bus'[i].face.target
    BY DEF Types
  <1>1. ~Posted(n)
    <2> SUFFICES ASSUME Posted(n) PROVE FALSE
      OBVIOUS
    <2>1. bus # <<>> /\ bus' = Tail(bus) /\ Head(bus) \in PromptCalls
      BY DEF Posted, DaemonPosts
    <2>2. Absent(bus', PromptCalls)
      BY <1>0, <2>1, SingleTail DEF PromptOnce
    <2> QED
      BY <2>2 DEF Absent
  <1>2. n \in PromptsShown /\ screen'[n] = screen[n]
    BY <1>0, <1>1, PromptsMove
  <1>3. Shows(n, bus'[i].face)
    BY <1>0, <1>2 DEF Shows
  <1>4. CASE /\ DOMAIN bus' = DOMAIN bus
             /\ \A k \in DOMAIN bus : bus'[k] \in Call /\ Same(bus'[k], bus[k])
    <2>1. bus[i] \in PromptCalls /\ Shows(n, bus[i].face) /\ n # bus[i].nid
      BY <1>0, <1>3, <1>4 DEF Same, PromptCalls
    <2>2. PICK k \in 1..(i - 1) : Kills(bus[k], n)
      BY <1>4, <2>1 DEF KilledBefore
    <2>3. k \in DOMAIN bus
      BY <1>0, <1>4, <2>2
    <2>4. Kills(bus'[k], n)
      BY <1>4, <2>2, <2>3 DEF Same, Kills
    <2> QED
      BY <2>4
  <1>5. ASSUME NEW call \in Call, bus' = Append(bus, call), call \in PromptCalls => Blocking
        PROVE  \E k \in 1..(i - 1) : Kills(bus'[k], n)
    <2>1. /\ Len(bus) \in Nat /\ DOMAIN bus = 1..Len(bus) /\ DOMAIN bus' = 1..(Len(bus) + 1)
          /\ bus'[Len(bus) + 1] = call
          /\ \A k \in DOMAIN bus : bus'[k] = bus[k]
      BY <1>0, <1>5, AppendElements
    <2>2. CASE i \in DOMAIN bus
      <3>1. bus'[i] = bus[i]
        BY <2>1, <2>2
      <3>2. PICK k \in 1..(i - 1) : Kills(bus[k], n)
        BY <1>3, <2>2, <3>1 DEF KilledBefore
      <3>3. k \in DOMAIN bus
        BY <2>1, <2>2, <3>2
      <3> QED
        BY <2>1, <3>2, <3>3
    <2>3. CASE i = Len(bus) + 1
      <3>1. bus'[i] = call /\ Blocking
        BY <1>5, <2>1, <2>3
      <3>2. PICK c \in Containers, t \in Targets, r \in Requests : Blocked(c, t, r)
        BY <3>1 DEF Blocking
      <3>3. PICK x \in Call :
              /\ bus' = Append(bus, x) /\ x.face.container = c /\ x.face.target = t
              /\ \/ OnTarget(c, t) = {}
                 \/ \E q \in OnTarget(c, t) : x.nid = pending[q].nid
        BY <3>2, BlockedCalls
      <3>4. x = call
        BY <1>0, <2>1, <3>3, AppendElements
      <3>5. phase # "stopped" /\ ~handling
        BY <3>2 DEF Blocked, Listening
      <3>6. ~Landed(n)
        BY <3>5, NoFlight DEF OneInline, InlineAbsent, Landed, Flies
      <3>7. CASE OnRecord(n)
        <4>1. PICK r1 \in Requests : pending[r1] # None /\ pending[r1].nid = n
          BY <3>7 DEF OnRecord
        <4>2. pending[r1] \in Pending
          BY <4>1 DEF Types
        <4>3. Says(n, pending[r1].container, pending[r1].target)
          BY <4>1 DEF Says, PendingSays
        <4>4. Says(n, screen[n].container, screen[n].target)
          BY <1>2 DEF Says, ScreenSays, PromptsShown
        <4>5. screen[n].container = c /\ screen[n].target = t
          BY <1>0, <1>2, <3>1, <3>3, <3>4
        <4>6. pending[r1].container = c /\ pending[r1].target = t
          BY <4>2, <4>3, <4>4, <4>5 DEF Agreement, Pending
        <4>7. r1 \in OnTarget(c, t)
          BY <4>1, <4>6 DEF OnTarget
        <4>8. PICK q \in OnTarget(c, t) : x.nid = pending[q].nid
          BY <3>3, <4>7
        <4>9. q = r1
          BY <4>1, <4>6, <4>8 DEF Unique, OnTarget
        <4> QED
          BY <3>1, <3>4, <4>1, <4>8, <4>9
      <3>8. CASE Killed(n)
        <4>1. PICK k \in DOMAIN bus : Kills(bus[k], n)
          BY <3>8 DEF Killed, Elements
        <4> QED
          BY <2>1, <2>3, <4>1
      <3> QED
        BY <1>2, <3>5, <3>6, <3>7, <3>8 DEF Accounted
    <2> QED
      BY <2>1, <2>2, <2>3
  <1>6. CASE bus # <<>> /\ bus' = Tail(bus) /\ Answers
    <2>1. /\ 1 \in DOMAIN bus /\ bus[1] = Head(bus)
          /\ i \in Nat \ {0} /\ i + 1 \in DOMAIN bus /\ bus'[i] = bus[i + 1]
          /\ \A k \in DOMAIN bus' : k \in Nat \ {0} /\ bus'[k] = bus[k + 1]
      BY <1>0, <1>6, TailElements
    <2>2. PICK k \in 1..((i + 1) - 1) : Kills(bus[k], n)
      BY <1>3, <2>1 DEF KilledBefore
    <2>3. k # 1
      BY <1>0, <1>6, <2>1, <2>2, HeadKills
    <2>4. k - 1 \in 1..(i - 1) /\ (k - 1) + 1 = k
      BY <2>1, <2>2, <2>3
    <2>5. k - 1 \in DOMAIN bus'
      <3>1. DOMAIN bus' = 1..Len(bus') /\ Len(bus') \in Nat
        BY <1>0, <1>6, TailElements
      <3> QED
        BY <2>1, <2>4, <3>1
    <2>6. Kills(bus'[k - 1], n)
      BY <2>1, <2>2, <2>4, <2>5
    <2> QED
      BY <2>4, <2>6
  <1> QED
    BY <1>4, <1>5, <1>6, BusMoves

LEMMA OnePopupStep ==
  ASSUME Types, FreshSuffices, KilledBefore, OnePopupPerTarget, [Next]_vars
  PROVE  OnePopupPerTarget'
  <1>1. ASSUME NEW m \in Nids, NEW n \in Nids, Posted(m), n \in PromptsShown,
               screen'[n] = screen[n], n \in PromptsShown',
               screen'[m].container = screen'[n].container,
               screen'[m].target = screen'[n].target
        PROVE  m = n
    <2>1. /\ bus # <<>> /\ Head(bus) \in PromptCalls /\ screen'[m] = Head(bus).face
          /\ m = IF Head(bus).nid = None THEN fresh ELSE Head(bus).nid
      BY <1>1 DEF Posted
    <2>2. 1 \in DOMAIN bus /\ bus[1] = Head(bus)
      BY <2>1, TailElements DEF Types
    <2>3. Shows(n, bus[1].face)
      BY <1>1, <2>1, <2>2 DEF Shows
    <2>4. n = bus[1].nid
      BY <2>1, <2>2, <2>3 DEF KilledBefore
    <2> QED
      BY <2>1, <2>2, <2>4, NoneAssumption DEF NoneAssumption
  <1>2. ASSUME NEW m \in PromptsShown', NEW n \in PromptsShown',
               screen'[m].container = screen'[n].container,
               screen'[m].target = screen'[n].target
        PROVE  m = n
    <2>1. m \in Nids /\ n \in Nids
      BY DEF PromptsShown
    <2>2. Posted(m) \/ (m \in PromptsShown /\ screen'[m] = screen[m])
      BY <2>1, PromptsMove
    <2>3. Posted(n) \/ (n \in PromptsShown /\ screen'[n] = screen[n])
      BY <2>1, PromptsMove
    <2>4. CASE Posted(m) /\ Posted(n)
      BY <2>4 DEF Posted
    <2>5. CASE (m \in PromptsShown /\ screen'[m] = screen[m]) /\ (n \in PromptsShown /\ screen'[n] = screen[n])
      BY <1>2, <2>5 DEF OnePopupPerTarget
    <2> QED
      BY <1>1, <1>2, <2>1, <2>2, <2>3, <2>4, <2>5
  <1> QED
    BY <1>2 DEF OnePopupPerTarget

\* A purge that is to come to prompt n does, and closes it.
LEMMA DoomStays ==
  ASSUME Types, FreshSuffices, "verdict" \in Enabled, Agreement, Flight, ListsTrue,
         PendingBacked, Cited, [Next]_vars, phase' = "running",
         NEW n \in Nids, n \in PromptsShown, screen'[n] = screen[n],
         NEW j \in Going, Dooms(j, n)
  PROVE  Killed(n)' \/ \E k \in Going' : Dooms(k, n)'
  <1>1. /\ j.do = "purge" /\ j.container = screen'[n].container
        /\ j.rest = None => OnRecord(n)
        /\ j.rest # None => \E r \in Requests : Holds(j, r, n)
    BY DEF Dooms
  <1>2. CASE j \in Going'
    <2>1. CASE j.rest = None
      <3>1. OnRecord(n)' \/ Killed(n)'
        BY <1>1, <2>1, RecordStays
      <3> QED
        BY <1>1, <1>2, <2>1, <3>1 DEF Dooms
    <2>2. CASE j.rest # None
      BY <1>1, <1>2, <2>2 DEF Dooms, Holds
    <2> QED
      BY <2>1, <2>2
  <1>3. CASE RunPurge /\ j = Job
    <2>1. PICK rest \in SUBSET Stale :
            /\ rest = (IF j.rest = None THEN Snapshot(j.container) ELSE j.rest)
            /\ \/ \E stale \in rest, call \in Call :
                    /\ bus' = Append(bus, call) /\ call.op = "close" /\ call.nid = stale.nid
                    /\ call.then.do = "purge" /\ call.then.container = j.container
                    /\ call.then.rest = rest \ {stale}
               \/ rest = {}
      BY <1>3, PurgeSteps
    <2>2. PICK r \in Requests : [id |-> r, nid |-> n] \in rest
      <3>1. CASE j.rest = None
        <4>1. PICK q \in Requests : pending[q] # None /\ pending[q].nid = n
          BY <1>1, <3>1 DEF OnRecord
        <4>2. pending[q] \in Pending /\ pending[q].container \in Containers /\ pending[q].target \in Targets
          BY <4>1 DEF Types, Pending
        <4>3. /\ screen[n] \in Face /\ screen[n].kind = "prompt" /\ screen[n].target \in Targets
              /\ screen[n].container \in Containers
          BY DEF PromptsShown, Types, Shown, Face
        <4>4. /\ Says(n, pending[q].container, pending[q].target)
              /\ Says(n, screen[n].container, screen[n].target)
          BY <4>1, <4>3 DEF Says, PendingSays, ScreenSays, PromptsShown
        <4>5. pending[q].container = j.container
          BY <1>1, <4>2, <4>3, <4>4 DEF Agreement
        <4>6. [id |-> q, nid |-> n] \in Snapshot(j.container)
          BY <4>1, <4>5 DEF Snapshot
        <4> QED
          BY <2>1, <3>1, <4>6
      <3>2. CASE j.rest # None
        BY <1>1, <2>1, <3>2 DEF Holds
      <3> QED
        BY <3>1, <3>2
    <2>3. PICK stale \in rest, call \in Call :
            /\ bus' = Append(bus, call) /\ call.op = "close" /\ call.nid = stale.nid
            /\ call.then.do = "purge" /\ call.then.container = j.container
            /\ call.then.rest = rest \ {stale}
      BY <2>1, <2>2
    <2>4. call \in Elements(bus')
      BY <2>3, ElementsAppend DEF Types
    <2>5. CASE stale = [id |-> r, nid |-> n]
      <3>1. call.nid = n
        BY <2>3, <2>5
      <3> QED
        BY <2>3, <2>4, <3>1 DEF Killed, Kills
    <2>6. CASE stale # [id |-> r, nid |-> n]
      <3>1. call.then \in Going'
        BY <2>4 DEF Going
      <3>2. call.then.rest # None
        BY <2>1, <2>3, NoneAssumption DEF NoneAssumption, Stale
      <3>3. Holds(call.then, r, n)
        BY <2>2, <2>3, <2>6, <3>2 DEF Holds
      <3>4. Dooms(call.then, n)'
        BY <1>1, <2>3, <3>2, <3>3 DEF Dooms, Holds
      <3> QED
        BY <3>1, <3>4
    <2> QED
      BY <2>5, <2>6
  <1> QED
    BY <1>1, <1>2, <1>3, PurgeStays

LEMMA DoomedStep ==
  ASSUME Types, FreshSuffices, "verdict" \in Enabled, "outcome" \notin Fallible,
         OneInline, PromptCalled, Agreement, Flight, ListsTrue, PendingBacked, Cited,
         Accounted, Doomed, [Next]_vars
  PROVE  Doomed'
  <1> SUFFICES ASSUME phase' = "running", NEW n \in Nids, n \in PromptsShown',
                      screen'[n].at <= ended'[screen'[n].container]
               PROVE  Killed(n)' \/ \E j \in Going' : Dooms(j, n)'
    BY DEF Doomed, PromptsShown
  <1>0. phase = "running"
    BY QueuesMove
  <1>1. ~Posted(n)
    <2> SUFFICES ASSUME Posted(n) PROVE FALSE
      OBVIOUS
    <2>1. /\ bus # <<>> /\ Head(bus) \in PromptCalls /\ screen'[n] = Head(bus).face
          /\ ended' = ended /\ Answers
      BY DEF Posted, DaemonPosts, pastVars, Answers
    <2>2. Head(bus) \in Elements(bus)
      BY <2>1, AnswerReplies
    <2>3. Head(bus).face.at > ended[Head(bus).face.container]
      BY <1>0, <2>1, <2>2 DEF PromptCalled
    <2>4. Head(bus).face \in Face
      BY <2>1, <2>2, BusHead DEF PromptCalls, Shown
    <2>5. Head(bus).face.at \in Int /\ ended[Head(bus).face.container] \in Int
      BY <2>4 DEF Face, Types
    <2> QED
      BY <2>1, <2>3, <2>5
  <1>2. n \in PromptsShown /\ screen'[n] = screen[n]
    BY <1>1, PromptsMove
  <1>3. screen[n] \in Face /\ screen[n].container \in Containers /\ screen[n].at \in Int
    BY <1>2 DEF PromptsShown, Types, Shown, Face
  <1>4. CASE screen[n].at <= ended[screen[n].container]
    <2>1. CASE Killed(n)
      BY <2>1, KilledStays
    <2>2. CASE \E j \in Going : Dooms(j, n)
      BY <1>2, <2>2, DoomStays
    <2> QED
      BY <1>0, <1>2, <1>4, <2>1, <2>2 DEF Doomed
  <1>5. CASE ~(screen[n].at <= ended[screen[n].container])
    <2>1. PICK c \in Containers : Lifecycle(c)
      BY <1>2, <1>5, EndedMoves
    <2>2. /\ ~handling /\ UNCHANGED <<pending, bus>>
          /\ \/ ended' = ended
             \/ /\ ended' = [ended EXCEPT ![c] = events + 1]
                /\ \E e \in Elements(ready') :
                     e.job.do = "purge" /\ e.job.container = c /\ e.job.rest = None
      BY <2>1, LifecycleStarts
    <2>3. c = screen[n].container
      BY <1>2, <1>3, <1>5, <2>2 DEF Types
    <2>4. PICK e \in Elements(ready') :
            e.job.do = "purge" /\ e.job.container = c /\ e.job.rest = None
      BY <1>2, <1>5, <2>2
    <2>5. e.job \in Going'
      BY DEF Going
    <2>6. CASE OnRecord(n)
      <3>1. OnRecord(n)'
        BY <2>2, <2>6 DEF OnRecord
      <3>2. Dooms(e.job, n)'
        BY <1>2, <2>3, <2>4, <3>1 DEF Dooms
      <3> QED
        BY <2>5, <3>2
    <2>7. CASE Killed(n)
      BY <2>2, <2>7 DEF Killed
    <2>8. ~Landed(n)
      BY <2>2, NoFlight DEF OneInline, InlineAbsent, Landed, Flies
    <2> QED
      BY <1>0, <1>2, <2>6, <2>7, <2>8 DEF Accounted
  <1> QED
    BY <1>4, <1>5

-----------------------------------------------------------------------------
(* The theorems *)

PromptsIInv == Types /\ Ledger /\ Agreement /\ Cited /\ PromptsInv

LEMMA PromptsInit == Init => PromptsIInv
  <1> SUFFICES ASSUME Init PROVE PromptsIInv
    OBVIOUS
  <1>1. bus = <<>> /\ inbox = <<>> /\ ready = <<>>
    BY DEF Init
  <1>2. Elements(bus) = {} /\ Elements(inbox) = {} /\ Elements(ready) = {}
    BY <1>1 DEF Elements
  <1>3. Going = {} /\ PromptsShown = {} /\ \A r \in Requests : pending[r] = None
    BY <1>2 DEF Going, PromptsShown, Init
  <1>4. \A n \in Nids : \A c, t : ~Says(n, c, t)
    BY <1>2 DEF Init, Says, PendingSays, CallbackSays, ScreenSays
  <1>5. Types /\ Ledger /\ Agreement /\ Cited
    BY <1>2, <1>4, InitTypes DEF Init, Agreement, Cited
  <1>6. OneInline /\ PromptOnce /\ PromptCalled
    BY <1>1, <1>2 DEF OneInline, PromptOnce, PromptCalled, Single, Absent
  <1>7. EndedBy
    BY DEF Init, EndedBy
  <1>8. Unique /\ PendingBacked /\ ListsTrue /\ Flight
    BY <1>3 DEF Unique, PendingBacked, ListsTrue, Flight, Listed
  <1>9. Accounted /\ KilledBefore /\ OnePopupPerTarget /\ Doomed
    BY <1>1, <1>3 DEF Accounted, KilledBefore, OnePopupPerTarget, Doomed
  <1> QED
    BY <1>5, <1>6, <1>7, <1>8, <1>9 DEF PromptsIInv, PromptsInv

LEMMA PromptsStep ==
  ASSUME "verdict" \in Enabled, "outcome" \notin Fallible,
         PromptsIInv, [Next]_vars, [Unlisted]_vars
  PROVE  PromptsIInv'
  <1>1. /\ Types /\ Ledger /\ Agreement /\ Cited
        /\ OneInline /\ PromptOnce /\ PromptCalled /\ EndedBy
        /\ Unique /\ PendingBacked /\ ListsTrue /\ Flight
        /\ Accounted /\ KilledBefore /\ OnePopupPerTarget /\ Doomed
    BY DEF PromptsIInv, PromptsInv
  <1>2. FreshSuffices
    BY <1>1, LedgerSuffices
  <1>3. Types'
    BY <1>1, <1>2, TypesStep
  <1>4. Ledger' /\ Agreement' /\ Cited'
    BY <1>1, <1>2, <1>3, LedgerStep, AgreementStep, CitedStep
  <1>5. OneInline'
    BY <1>1, <1>2, InlineStep
  <1>6. PromptOnce' /\ PromptCalled' /\ EndedBy'
    BY <1>1, <1>3, PromptOnceStep, PromptCalledStep, EndedByStep
  <1>7. Unique' /\ PendingBacked' /\ ListsTrue'
    BY <1>1, <1>2, UniqueStep, PendingBackedStep, ListsTrueStep
  <1>8. Unlisted
    <2>1. UNCHANGED vars => events' = events
      BY DEF vars, pastVars
    <2>2. \A c \in Containers, t \in Targets, r \in Requests :
            Blocked(c, t, r) => events' = events + 1
      BY DEF Blocked
    <2>3. events' = events => events' # events + 1
      BY <1>1 DEF Types
    <2> QED
      BY <2>1, <2>2, <2>3 DEF Unlisted
  <1>9. Flight'
    BY <1>1, <1>2, <1>3, <1>5, <1>8, FlightStep
  <1>10. Accounted' /\ KilledBefore' /\ OnePopupPerTarget' /\ Doomed'
    BY <1>1, <1>2, AccountedStep, KilledBeforeStep, OnePopupStep, DoomedStep
  <1> QED
    BY <1>3, <1>4, <1>5, <1>6, <1>7, <1>9, <1>10 DEF PromptsIInv, PromptsInv

\* One decision, one target, one popup: however blocks, verdicts, purges, clicks and
\* dismissals interleave, the screen never shows two prompts about the same target of
\* the same container, when verdicts are shown and their popups are not refused, and
\* the hub does not announce again a request whose record a purge has still to come to.
THEOREM OnePopupHolds ==
  ASSUME "verdict" \in Enabled, "outcome" \notin Fallible
  PROVE  Spec /\ [][Unlisted]_vars => []OnePopupPerTarget
  <1>1. PromptsIInv /\ [Next]_vars /\ [Unlisted]_vars => PromptsIInv'
    BY PromptsStep
  <1>2. PromptsIInv => OnePopupPerTarget
    BY DEF PromptsIInv, PromptsInv
  <1> QED
    BY <1>1, <1>2, PromptsInit, PTL DEF Spec

\* Once everything has settled each prompt on screen has a record, so that the next
\* block, verdict or lifecycle event finds it.
THEOREM NoneLeftBehind ==
  ASSUME "verdict" \in Enabled, "outcome" \notin Fallible
  PROVE  Spec /\ [][Unlisted]_vars => []NoPromptLeftBehind
  <1>1. PromptsIInv /\ [Next]_vars /\ [Unlisted]_vars => PromptsIInv'
    BY PromptsStep
  <1>2. PromptsIInv => NoPromptLeftBehind
    <2> SUFFICES ASSUME PromptsIInv, Quiet, phase = "running", NEW n \in PromptsShown
                 PROVE  OnRecord(n)
      BY DEF NoPromptLeftBehind, OnRecord
    <2>1. Elements(bus) = {} /\ Elements(inbox) = {} /\ Elements(ready) = {}
      BY DEF Quiet, Elements
    <2>2. Accounted
      BY DEF PromptsIInv, PromptsInv
    <2> QED
      BY <2>1, <2>2 DEF Accounted, Killed, Landed, Going
  <1> QED
    BY <1>1, <1>2, PromptsInit, PTL DEF Spec

\* Once everything has settled no prompt outlives its container's shield or the
\* container: the purge comes to each record it found, whatever changed meanwhile.
THEOREM EndedPromptsLeave ==
  ASSUME "verdict" \in Enabled, "outcome" \notin Fallible
  PROVE  Spec /\ [][Unlisted]_vars => []EndedPromptsGo
  <1>1. PromptsIInv /\ [Next]_vars /\ [Unlisted]_vars => PromptsIInv'
    BY PromptsStep
  <1>2. PromptsIInv => EndedPromptsGo
    <2> SUFFICES ASSUME PromptsIInv, Quiet, phase = "running", NEW n \in PromptsShown
                 PROVE  screen[n].at > ended[screen[n].container]
      BY DEF EndedPromptsGo
    <2>1. Elements(bus) = {} /\ Elements(inbox) = {} /\ Elements(ready) = {}
      BY DEF Quiet, Elements
    <2>2. Doomed /\ Types
      BY DEF PromptsIInv, PromptsInv
    <2>3. screen[n].container \in Containers /\ screen[n].at \in Int
      BY <2>2 DEF PromptsShown, Types, Shown, Face
    <2>4. ended[screen[n].container] \in Int
      BY <2>2, <2>3 DEF Types
    <2>5. ~(screen[n].at <= ended[screen[n].container])
      BY <2>1, <2>2 DEF Doomed, Killed, Going
    <2> QED
      BY <2>3, <2>4, <2>5
  <1> QED
    BY <1>1, <1>2, PromptsInit, PTL DEF Spec

=============================================================================
