----------------------------- MODULE ReleaseChain -----------------------------
(***************************************************************************)
(* What updating a target promises about its releases, whatever is lost or *)
(* killed on the way: the host is never more than one activation ahead of  *)
(* the state file, and the state file records only what the host has.      *)
(***************************************************************************)
EXTENDS Sequences

CONSTANT Results   \* the releases one activation can end in

VARIABLES done,    \* the releases the receipt of the host came about by, in order
          known    \* those of the receipt in the state file

Init == done = known

\* An activation starts from the receipt that is recorded.
Activate == \E result \in Results : done' = Append(known, result) /\ UNCHANGED known
Record == known' = done /\ UNCHANGED done

Spec == Init /\ [][Activate \/ Record]_<<done, known>>
=============================================================================
