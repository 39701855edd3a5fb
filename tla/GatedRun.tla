------------------------------ MODULE GatedRun ------------------------------
(***************************************************************************)
(* What the system promises of its runs, whatever its servers do: an index *)
(* is created only for a proposal that was put to the operators as the     *)
(* pending pack of that run, and a run is shown as applied only after the  *)
(* index of exactly that proposal was created.                             *)
(***************************************************************************)
CONSTANTS RunIds, Proposals, None

VARIABLES
  offered,   \* <<run, proposal>> pairs that were pending in the store at some time
  applied,   \* <<run, proposal>> pairs whose index was created
  verdict    \* the status and proposal each run shows

vars == <<offered, applied, verdict>>

Unseen == [status |-> "absent", proposal |-> None]

Init ==
  /\ offered = {}
  /\ applied = {}
  /\ verdict = [u \in RunIds |-> Unseen]

\* A diagnosis puts a proposal to the operators.
Offer(u, h) ==
  /\ offered' = offered \cup {<<u, h>>}
  /\ verdict' = [verdict EXCEPT ![u] = [status |-> "diagnosed", proposal |-> h]]
  /\ UNCHANGED applied

\* The one mutation of the system.
Apply(u, h) ==
  /\ <<u, h>> \in offered
  /\ applied' = applied \cup {<<u, h>>}
  /\ UNCHANGED <<offered, verdict>>

\* The run shows its outcome.
Conclude(u, h, status) ==
  /\ <<u, h>> \in offered
  /\ status \in {"approved", "verified"} => <<u, h>> \in applied
  /\ verdict' = [verdict EXCEPT ![u] = [status |-> status, proposal |-> h]]
  /\ UNCHANGED <<offered, applied>>

Next ==
  \E u \in RunIds, h \in Proposals :
    \/ Offer(u, h)
    \/ Apply(u, h)
    \/ \E status \in {"approved", "verified", "rejected"} : Conclude(u, h, status)

Spec == Init /\ [][Next]_vars
=============================================================================
