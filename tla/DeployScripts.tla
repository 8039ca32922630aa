---------------------------- MODULE DeployScripts ---------------------------
(***************************************************************************)
(* deploy-robinhood-testnet.js, which deploys a whole stack with its       *)
(* factory, and redeploy-factory-v21.js, which builds a new factory on the *)
(* recorded stack and repoints the insurance pool to it.                   *)
(*                                                                         *)
(* The two manual grants are alike and are one call here.  Deployments     *)
(* nothing refers to yet (the pool and the registry, the library, the      *)
(* implementation and the lens) and calls that only ever take effect at    *)
(* once share a step.  Seeding balances and the pool's reserve is left out.*)
(***************************************************************************)
EXTENDS AdminScripts

StockGrace == 1   \* STOCK_GRACE_SECONDS, a longer extension than none
LowCap     == 1   \* the exposure caps the deployment sets, and the
HighCap    == 2   \* constructor's, which are higher

NewContract == [holder |-> Key, nominee |-> Nobody]
NoContract  == [holder |-> Nobody, nominee |-> Nobody]

NewStack(delay) ==
  [delay |-> delay, vaultFactory |-> 0, shortWindow |-> FALSE, cap |-> HighCap,
   listed |-> FALSE, known |-> FALSE, grace |-> 0, approved |-> FALSE,
   fast |-> FALSE, eligible |-> FALSE, moved |-> [announced |-> 0, took |-> 0]]

Controlling(contracts) ==
  [c \in Contracts |-> IF c \in contracts THEN NewContract ELSE control[c]]

-----------------------------------------------------------------------------
DeployStack ==
  /\ Starting("deployStack")
  /\ Len(stacks) < MaxStacks /\ Len(factories) < MaxFactories
  /\ Begins("deployStack", "contracts", NoLocal)

DeployContracts ==
  /\ At("deployStack", "contracts")
  /\ \E delay \in Delays : stacks' = Append(stacks, NewStack(delay))
  /\ control' = Controlling(StackRoles \X {Len(stacks')})
  /\ local' = [local EXCEPT !.stack = Len(stacks')]
  /\ Goto("grant")
  /\ UNCHANGED <<now, factories, queue, safes, loans, fileVars>>

GrantDemoWallets ==
  /\ At("deployStack", "grant")
  /\ sendOrQueue(Call(local.stack, "grant", 0), "settlement", "settlement")
  /\ UNCHANGED <<now, fileVars>>

SetSettlement ==
  /\ At("deployStack", "settlement")
  /\ sendOrQueue(Call(local.stack, "settle", 0), "assets", "assets")
  /\ UNCHANGED <<now, fileVars>>

\* Lowering the caps and a first listing are instant; the pool is approved
\* only if its history already covers the window.
ListAssets ==
  LET listed == [stacks[local.stack] EXCEPT
                   !.cap = LowCap, !.listed = TRUE, !.known = TRUE,
                   !.grace = StockGrace, !.approved = HistorySuffices(local.stack)]
  IN  /\ At("deployStack", "assets")
      /\ stacks' = [stacks EXCEPT ![local.stack] = listed]
      /\ Goto("factory")
      /\ UNCHANGED <<now, factories, control, queue, safes, loans, fileVars,
                     local>>

DeployFactoryOn(stack) ==
  /\ factories' = Append(factories, stack)
  /\ control' = Controlling({<<"vaultFactory", Len(factories')>>})
  /\ local' = [local EXCEPT !.factory = Len(factories')]
  /\ UNCHANGED <<stacks, queue, safes, loans>>

DeployFactory ==
  /\ At("deployStack", "factory")
  /\ DeployFactoryOn(local.stack)
  /\ Goto("wire")
  /\ UNCHANGED <<now, fileVars>>

\* The first factory is wired at once.
WireFirst ==
  /\ At("deployStack", "wire")
  /\ Execute(Call(local.stack, "wire", local.factory))
  /\ Goto("persist")
  /\ UNCHANGED <<now, fileVars, local>>

Persist_replace == [stack |-> local.stack, factory |-> local.factory, pair |-> 0]
Persist == [book EXCEPT !.stack = local.stack, !.factory = local.factory]

PersistStack ==
  /\ At("deployStack", "persist")
  /\ book' = Persist
  /\ Done
  /\ UNCHANGED <<now, chainVars, pending>>

-----------------------------------------------------------------------------
RedeployFactory ==
  /\ Starting("redeployFactory")
  /\ Len(factories) < MaxFactories
  /\ book.stack # 0 /\ HeldBy(Recorded(3), Key)
  /\ Begins("redeployFactory", "factory", [NoLocal EXCEPT !.stack = book.stack])

RedeployContracts ==
  /\ At("redeployFactory", "factory")
  /\ DeployFactoryOn(local.stack)
  /\ Goto("rewire")
  /\ UNCHANGED <<now, fileVars>>

\* Without a delay the script calls setVaultFactory itself, with one it
\* announces the call and records it as sendOrQueue would.
Rewire ==
  LET call == Call(local.stack, "wire", local.factory)
  IN  /\ At("redeployFactory", "rewire")
      /\ IF Delay(call) > 0
         THEN /\ queueAction(call)
              /\ Goto("record")
              /\ local' = [local EXCEPT !.call = call, !.then = "persist"]
         ELSE IF Accepted(call)
         THEN Execute(call) /\ Goto("persist") /\ UNCHANGED local
         ELSE EndsBadly("refused") /\ UNCHANGED chainVars
      /\ UNCHANGED <<now, fileVars>>

PersistFactory_latestStack == [book EXCEPT !.stack = Len(stacks), !.factory = local.factory]
PersistFactory == [book EXCEPT !.factory = local.factory]

PersistRedeploy ==
  /\ At("redeployFactory", "persist")
  /\ book' = PersistFactory
  /\ Done
  /\ UNCHANGED <<now, chainVars, pending>>

DeployStep ==
  \/ DeployStack \/ DeployContracts \/ GrantDemoWallets \/ SetSettlement
  \/ ListAssets \/ DeployFactory \/ WireFirst \/ PersistStack
  \/ RedeployFactory \/ RedeployContracts \/ Rewire \/ PersistRedeploy

=============================================================================
