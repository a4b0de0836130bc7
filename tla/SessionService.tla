--------------------------- MODULE SessionService ---------------------------
(***************************************************************************)
(* What the host promises the CAM about sessions: a session number is used *)
(* for one session only, it is told to the module before anything is sent  *)
(* on the session, and nothing is sent once the session is over.  It does  *)
(* not promise to tell the module rightly that a session is over.          *)
(***************************************************************************)
CONSTANT Numbers    \* the session numbers

VARIABLES
  told,   \* what the last session response about each number says
  over,   \* the sessions that have ended
  apdus   \* the sessions the last call sent APDUs on

vars == <<told, over, apdus>>

Told == {"nothing", "open", "refused", "closed"}

Init == told = [n \in Numbers |-> "nothing"] /\ over = {} /\ apdus = {}

OpenNow == {n \in Numbers \ over : told[n] = "open"}

\* The first response about n.
Tell(n, what) ==
  told[n] = "nothing" /\ told' = [told EXCEPT ![n] = what] /\ UNCHANGED over

Open(n) == Tell(n, "open") /\ apdus' \subseteq {n}

Refuse(n) == Tell(n, "refused") /\ apdus' = {}

Close(n) ==
  /\ n \in OpenNow /\ over' = over \cup {n}
  /\ \E what \in Told \ {"nothing"} : told' = [told EXCEPT ![n] = what]
  /\ apdus' = {}

Send == apdus' \subseteq OpenNow /\ UNCHANGED <<told, over>>

Restart == told' = [n \in Numbers |-> "nothing"] /\ over' = {} /\ apdus' = {}

Next == Send \/ Restart \/ \E n \in Numbers : Open(n) \/ Refuse(n) \/ Close(n)

Spec == Init /\ [][Next]_vars
=============================================================================
