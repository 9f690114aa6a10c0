--------------------------- MODULE ClearanceAuthz ---------------------------
(***************************************************************************)
(* What the hub promises about verdicts, without dictionaries, timestamps, *)
(* queues or a clock.  A prompt is asked once.  While it is open any       *)
(* caller may take it to the shield, one at a time; a failure opens it     *)
(* again, a success settles it.  The hub may withdraw open prompts at any  *)
(* time (shield changes, expiry, a newer prompt under the same id), but it *)
(* never touches one a caller is running, never opens one it did not ask,  *)
(* and never runs a settled one.                                           *)
(***************************************************************************)
CONSTANTS Callers, None

VARIABLES
  asked,    \* prompts announced so far
  open,     \* prompts a verdict may be given on
  running,  \* the prompt each caller's verdict is running on, or None
  settled   \* prompts with a verdict the shield accepted

avars == <<asked, open, running, settled>>

Idle == [c \in Callers |-> None]

Init == asked = {} /\ open = {} /\ running = Idle /\ settled = {}

Ask(p) ==
  /\ asked' = asked \cup {p}
  /\ p \in open' /\ open' \subseteq open \cup {p}
  /\ UNCHANGED <<running, settled>>

Withdraw ==
  /\ open' \subseteq open
  /\ UNCHANGED <<asked, running, settled>>

Run(c) ==
  /\ running[c] = None
  /\ \E p \in open : /\ running' = [running EXCEPT ![c] = p]
                     /\ open' = open \ {p}
  /\ UNCHANGED <<asked, settled>>

Succeed(c) ==
  /\ running[c] # None
  /\ settled' = settled \cup {running[c]}
  /\ running' = [running EXCEPT ![c] = None]
  /\ UNCHANGED <<asked, open>>

Fail(c) ==
  /\ running[c] # None
  /\ running[c] \in open' /\ open' \subseteq open \cup {running[c]}
  /\ running' = [running EXCEPT ![c] = None]
  /\ UNCHANGED <<asked, settled>>

\* The process ends and forgets everything.
Restart ==
  asked' = {} /\ open' = {} /\ running' = Idle /\ settled' = {}

Next ==
  \/ \E p \in asked' \ asked : Ask(p)
  \/ Withdraw \/ Restart
  \/ \E c \in Callers : Run(c) \/ Succeed(c) \/ Fail(c)

Spec == Init /\ [][Next]_avars
=============================================================================
