---- MODULE CredentialRotation ----
(***************************************************************************)
(* The reminder to rotate the access key a target was onboarded with       *)
(* (user_deployment.rs): onboard writes it once the deployment has         *)
(* succeeded, resume and status show it, verify-rotation clears it.        *)
(*                                                                         *)
(* Reading and writing the record take the EC2 lock separately, and the    *)
(* calls to AWS run without it, so two commands of one target interleave,  *)
(* and the user edits the keys of the account at any time.  iam            *)
(* list-access-keys names no user: AWS answers with the keys of the        *)
(* principal that signs the call.                                          *)
(***************************************************************************)

CONSTANTS Keys,         \* access keys the user may have
          PrincipalOf,  \* [Keys -> principals]: the root user or an IAM user
          AccountOf,    \* [Keys -> accounts]
          Commands      \* processes running onboard or verify-rotation

VARIABLES rotationKeys,    \* "unborn", "active", "inactive" or "deleted" for every key
          rotationRecord,  \* [key, required] or NoReminder: the artifact onboarding.json
          rotationCall,    \* per process: [pc, key, seen, oldActive]
          rotationDeployed \* the account that apply pinned the target to

rotationVars == <<rotationKeys, rotationRecord, rotationCall, rotationDeployed>>

NoKey      == "no key"
NoAccount  == "no account"
NoReminder == [key |-> NoKey, required |-> FALSE]
RotationIdle       == [pc |-> "idle", key |-> NoKey, seen |-> NoReminder, oldActive |-> FALSE]
RotationAt(c, p)   == rotationCall[c].pc = p
Active     == {k \in Keys : rotationKeys[k] = "active"}

RotationInit ==
    /\ rotationKeys \in [Keys -> {"unborn", "active"}]
    /\ rotationRecord = NoReminder
    /\ rotationCall = [c \in Commands |-> RotationIdle]
    /\ rotationDeployed = NoAccount

----
\* onboard and resume

\* apply, with the key of the file the user gave, succeeds: the target is
\* pinned to the key's account.  resume ends here, it writes no reminder.
Apply(c) ==
    /\ RotationAt(c, "idle")
    /\ \E k \in Active :
        /\ rotationDeployed \in {NoAccount, AccountOf[k]}
        /\ rotationDeployed' = AccountOf[k]
        /\ \/ rotationCall' = [rotationCall EXCEPT ![c] = [RotationIdle EXCEPT !.pc = "remind", !.key = k]]
           \/ UNCHANGED rotationCall
    /\ UNCHANGED <<rotationKeys, rotationRecord>>

\* onboard's second critical section: a new reminder replaces any other.
WriteReminder(c) ==
    /\ RotationAt(c, "remind")
    /\ rotationRecord' = [key |-> rotationCall[c].key, required |-> TRUE]
    /\ rotationCall' = [rotationCall EXCEPT ![c] = RotationIdle]
    /\ UNCHANGED <<rotationKeys, rotationDeployed>>

----
\* verify-rotation

\* The reminder is read under the lock; the replacement must be another key.
ReadReminder(c) ==
    /\ RotationAt(c, "idle")
    /\ rotationRecord # NoReminder
    /\ \E k \in Keys \ {rotationRecord.key} :
        rotationCall' = [rotationCall EXCEPT ![c] = [RotationIdle EXCEPT
                            !.pc = "identify", !.key = k, !.seen = rotationRecord]]
    /\ UNCHANGED <<rotationKeys, rotationRecord, rotationDeployed>>

\* The replacement must be usable and belong to the same account.
Identify(c) ==
    /\ RotationAt(c, "identify")
    /\ rotationCall' = [rotationCall EXCEPT ![c] =
          IF /\ @.key \in Active
             /\ AccountOf[@.key] = AccountOf[@.seen.key]
          THEN [@ EXCEPT !.pc = "list"] ELSE RotationIdle]
    /\ UNCHANGED <<rotationKeys, rotationRecord, rotationDeployed>>

\* What list-access-keys answers to a call signed with key k.
Listed(k) == {o \in Keys : /\ PrincipalOf[o] = PrincipalOf[k]
                           /\ AccountOf[o] = AccountOf[k]
                           /\ rotationKeys[o] \in {"active", "inactive"}}

\* The original key must not be listed as active; a key that is not listed
\* counts as deleted.  (oldActive notes what was true at this moment.)
ListKeys(c) ==
    /\ RotationAt(c, "list")
    /\ rotationCall' = [rotationCall EXCEPT ![c] =
          IF @.key \in Active /\ @.seen.key \notin (Listed(@.key) \cap Active)
          THEN [@ EXCEPT !.pc = "clear", !.oldActive = rotationCall[c].seen.key \in Active] ELSE RotationIdle]
    /\ UNCHANGED <<rotationKeys, rotationRecord, rotationDeployed>>

\* The record that was read comes back with rotation_required = false.
ClearReminder(c) ==
    /\ RotationAt(c, "clear")
    /\ rotationRecord' = [rotationCall[c].seen EXCEPT !.required = FALSE]
    /\ rotationCall' = [rotationCall EXCEPT ![c] = RotationIdle]
    /\ UNCHANGED <<rotationKeys, rotationDeployed>>

----
\* The environment.

\* A kill or a failed call ends a command between two of its steps.
RotationStop(c) ==
    /\ ~RotationAt(c, "idle")
    /\ rotationCall' = [rotationCall EXCEPT ![c] = RotationIdle]
    /\ UNCHANGED <<rotationKeys, rotationRecord, rotationDeployed>>

\* The user creates, deactivates, activates again or deletes a key.
UserEditsKey ==
    /\ \E k \in Keys : \E s \in {"active", "inactive", "deleted"} :
        /\ rotationKeys[k] # s
        /\ rotationKeys[k] = "unborn" => s = "active"
        /\ rotationKeys[k] # "deleted"
        /\ rotationKeys' = [rotationKeys EXCEPT ![k] = s]
    /\ UNCHANGED <<rotationRecord, rotationCall, rotationDeployed>>

RotationNext ==
    \/ \E c \in Commands :
        \/ Apply(c) \/ WriteReminder(c)
        \/ ReadReminder(c) \/ Identify(c) \/ ListKeys(c) \/ ClearReminder(c)
        \/ RotationStop(c)
    \/ UserEditsKey

RotationSpec == RotationInit /\ [][RotationNext]_rotationVars

----
\* The reminder is cleared only when the key it is about was seen to be
\* inactive or gone at some moment after the command began: the report says
\* "previous_key_inactive_or_deleted".
RotationIsProven ==
    \A c \in Commands : RotationAt(c, "clear") => ~rotationCall[c].oldActive
====
