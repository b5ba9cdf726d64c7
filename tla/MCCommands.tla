------------------------------ MODULE MCCommands ------------------------------
(***************************************************************************)
(* The commands around the EC2 lifecycle that share no state: a behaviour  *)
(* is one of one component, named by live, the others stay as they began.  *)
(***************************************************************************)
EXTENDS CredentialRotation, BindingTicket, AlphaRecord, ClientBinding, ReleaseStage,
        ReleasePublication

CONSTANTS Live          \* the components to explore

\* The third key is of another account.
OwnAccount == [k \in Keys |-> IF k = "elsewhere" THEN "other" ELSE "own"]

\* The second key belongs to an IAM user, the others to the root users of
\* their accounts.
UserKey == [k \in Keys |-> IF k = "second" THEN "user" ELSE "root"]

VARIABLES live

vars == <<live, bindVars, ticketVars, rotationVars, alphaVars, relVars, pubVars>>

Init == /\ live \in Live
        /\ BindInit /\ TicketInit /\ RotationInit /\ AlphaInit /\ RelInit /\ PubInit
        \* One beginning of a component that is not explored is enough.
        /\ live # "binding"  => bindOutput = 0
        /\ live # "rotation" => rotationKeys = [k \in Keys |-> "active"]
        /\ live # "release"  => relRepo = "expected"

\* What a step of each component leaves alone.
Binding  == UNCHANGED <<ticketVars, rotationVars, alphaVars, relVars, pubVars>>
Ticket   == UNCHANGED <<bindVars, rotationVars, alphaVars, relVars, pubVars>>
Rotation == UNCHANGED <<bindVars, ticketVars, alphaVars, relVars, pubVars>>
Alpha    == UNCHANGED <<bindVars, ticketVars, rotationVars, relVars, pubVars>>
Release  == UNCHANGED <<bindVars, ticketVars, rotationVars, alphaVars, pubVars>>
Packages == UNCHANGED <<bindVars, ticketVars, rotationVars, alphaVars, relVars>>

Next == /\ \/ live = "binding"  /\ BindNext     /\ Binding
           \/ live = "ticket"   /\ TicketNext   /\ Ticket
           \/ live = "rotation" /\ RotationNext /\ Rotation
           \/ live = "alpha"    /\ AlphaNext    /\ Alpha
           \/ live = "release"  /\ RelNext      /\ Release
           \/ live = "packages" /\ PubNext      /\ Packages
        /\ UNCHANGED live

\* The user repeats client-binding issue; a helper that was started ends.
Fairness == /\ WF_vars(live = "binding" /\ BindStep /\ Binding /\ UNCHANGED live)
            /\ WF_vars(live = "binding" /\ LateHelper /\ Binding /\ UNCHANGED live)

Spec == Init /\ [][Next]_vars /\ Fairness

\* client_binding.rs: repeating the call gets the binding recorded, where this
\* component is the one explored.
BindingSettles == live = "binding" => Settles
===============================================================================
