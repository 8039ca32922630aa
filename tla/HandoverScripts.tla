--------------------------- MODULE HandoverScripts --------------------------
(***************************************************************************)
(* The scripts that hand the four roles over to a pair of Safes:           *)
(* create-safes.js, transfer-control.js, safe-accept-roles.js, and the     *)
(* probe of verify-two-step.js.  What verify-handover.js looks at is the   *)
(* predicate VerifyHandover.                                               *)
(*                                                                         *)
(* The Safes have the deploying key as their only owner, the case          *)
(* safe-accept-roles.js can drive.  A Safe may swallow the failure of the  *)
(* call it makes.  ALLOW_EOA=1 and DRY_RUN=1 are left out.                 *)
(***************************************************************************)
EXTENDS DeployScripts

Roles == DOMAIN RoleOrder

SetControl(c, part, who) ==
  /\ control' = IF part = "nominee"
                THEN [control EXCEPT ![c].nominee = who]
                ELSE [control EXCEPT ![c] = [holder |-> who, nominee |-> Nobody]]
  /\ UNCHANGED <<stacks, factories, queue, safes, loans>>

\* The step of role i, counting over the contracts the book names.
RoleStep(name, i) == At(name, "role") /\ i = Len(local.todo) + 1
NextRole(i) ==
  /\ local' = [local EXCEPT !.todo = Append(@, Call(0, RoleOrder[i], 0))]
  /\ Goto(IF i = Len(RoleOrder) THEN "complete" ELSE "role")

-----------------------------------------------------------------------------
CreateSafes ==
  /\ Starting("createSafes")
  /\ safes < MaxSafes
  /\ Begins("createSafes", "create", NoLocal)

CreatePair ==
  /\ At("createSafes", "create")
  /\ safes' = safes + 1
  /\ local' = [local EXCEPT !.pair = safes']
  /\ Goto("persist")
  /\ UNCHANGED <<now, stacks, factories, control, queue, loans, fileVars>>

PersistSafes ==
  /\ At("createSafes", "persist")
  /\ book' = [book EXCEPT !.pair = local.pair]
  /\ Done
  /\ UNCHANGED <<now, chainVars, pending>>

-----------------------------------------------------------------------------
\* The Safes come from the environment: any pair that was created.  Every role
\* must still be the caller's.
TransferControl(pair) ==
  /\ Starting("transferControl")
  /\ book.stack # 0
  /\ \A i \in Roles : HeldBy(Recorded(i), Key)
  /\ Begins("transferControl", "role", [NoLocal EXCEPT !.pair = pair])

NominateSafe(i) ==
  /\ RoleStep("transferControl", i)
  /\ SetControl(Recorded(i), "nominee", local.pair)
  /\ NextRole(i)
  /\ UNCHANGED <<now, fileVars>>

-----------------------------------------------------------------------------
AcceptRoles ==
  /\ Starting("acceptRoles")
  /\ book.stack # 0 /\ book.pair # 0
  /\ \A i \in Roles : Nominated(Recorded(i), book.pair)
  /\ Begins("acceptRoles", "role", NoLocal)

\* Only the state afterwards tells whether the inner call took effect.
AfterAcceptance_trusted(i, held) == NextRole(i)
AfterAcceptance(i, held) ==
  IF held THEN NextRole(i) ELSE Fails

AcceptRole(i) ==
  /\ RoleStep("acceptRoles", i)
  /\ \/ /\ SetControl(Recorded(i), "holder", book.pair)
        /\ AfterAcceptance(i, TRUE)
     \/ /\ AfterAcceptance(i, FALSE)
        /\ UNCHANGED chainVars
  /\ UNCHANGED <<now, fileVars>>

HandoverEnds ==
  /\ step = "complete"
  /\ Done
  /\ UNCHANGED <<now, chainVars, fileVars>>

-----------------------------------------------------------------------------
\* verify-two-step.js nominates an account on the KYC registry and takes the
\* nomination back.
VerifyTwoStep ==
  /\ Starting("verifyTwoStep")
  /\ book.stack # 0
  /\ \A i \in Roles : Nominated(Recorded(i), Nobody)
  /\ Begins("verifyTwoStep", "nominate", NoLocal)

NominateProbe ==
  /\ At("verifyTwoStep", "nominate")
  /\ IF HeldBy(Recorded(2), Key)
     THEN /\ SetControl(Recorded(2), "nominee", Probe)
          /\ Goto("cancel") /\ UNCHANGED <<local, fileVars>>
     ELSE Throws
  /\ UNCHANGED now

CancelProbe ==
  /\ At("verifyTwoStep", "cancel")
  /\ SetControl(Recorded(2), "nominee", Nobody)
  /\ Goto("end")
  /\ UNCHANGED <<now, fileVars, local>>

\* verify-handover.js: the old key is refused, the Safe can act, nothing is
\* left nominated on the registry.
VerifyHandover ==
  LET registry == Recorded(1)
  IN  /\ ~HeldBy(registry, Key)
      /\ HeldBy(registry, book.pair)
      /\ Nominated(registry, Nobody)

HandoverStep ==
  \/ CreateSafes \/ CreatePair \/ PersistSafes
  \/ \E pair \in 1 .. safes : TransferControl(pair)
  \/ \E i \in Roles : NominateSafe(i)
  \/ AcceptRoles
  \/ \E i \in Roles : AcceptRole(i)
  \/ HandoverEnds
  \/ VerifyTwoStep \/ NominateProbe \/ CancelProbe

=============================================================================
