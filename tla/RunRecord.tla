----------------------------- MODULE RunRecord ------------------------------
(***************************************************************************)
(* What the store keeps of its runs, as everybody who reads a pack sees    *)
(* it: each run has one document, every version of it is a diagnosis or    *)
(* one decision on a diagnosis that this run was offered, and it is never  *)
(* removed.  A decision may come late, when the run shows another          *)
(* diagnosis or decision already: it replaces that.                        *)
(*                                                                         *)
(* The flow of the API's instances writes these documents, and the review  *)
(* of one operator reads them while others write: both implement this.     *)
(***************************************************************************)
EXTENDS EvidencePack

CONSTANT RunIds

VARIABLES
  pack,     \* the document of each run
  offered   \* <<run, hash>> of every pending pack there ever was

vars == <<pack, offered>>

Init ==
  /\ pack \in [RunIds -> {NoPack} \cup {LegacyPack(h) : h \in Proposals}]
  /\ offered = {}

Diagnose(u, h) ==
  /\ pack' = [pack EXCEPT ![u] = DiagnosedPack(h)]
  /\ offered' = offered \cup {<<u, h>>}

Decide(u, h, a) ==
  /\ <<u, h>> \in offered
  /\ \E p \in Outcomes(h, a) : pack' = [pack EXCEPT ![u] = p]
  /\ UNCHANGED offered

Next ==
  \E u \in RunIds, h \in Proposals :
    \/ Diagnose(u, h)
    \/ \E a \in Approvers : Decide(u, h, a)

Spec == Init /\ [][Next]_vars
=============================================================================
