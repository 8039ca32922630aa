----------------------------- MODULE Operations -----------------------------
(***************************************************************************)
(* A team's life with a stack: it is deployed, administered, given new     *)
(* factories and handed over, one script after the other, with time        *)
(* passing between and within them and any of them interrupted anywhere.   *)
(***************************************************************************)
EXTENDS LoanScripts

Init ==
  /\ now = 1
  /\ stacks = <<>> /\ factories = <<>>
  /\ control = [c \in Contracts |-> NoContract]
  /\ queue = <<>> /\ safes = 0 /\ loans = <<>>
  /\ book = [stack |-> 0, factory |-> 0, pair |-> 0]
  /\ pending = <<>>
  /\ script = "idle" /\ step = "" /\ local = NoLocal
  /\ runs = 0
  /\ mishap = "none"

Next ==
  AdminStep \/ DeployStep \/ HandoverStep \/ LoanStep \/ Interrupt \/ Tick

Spec == Init /\ [][Next]_vars

-----------------------------------------------------------------------------
\* redeploy-factory-v21.js:181: repointing is announced, recorded and executed
\* later, and several redeployments may be waiting at once.  A run of
\* execute-timelocked.js may pass one that is not ready and execute a newer one
\* that has matured since, and the next run then moves the pool back.  That is
\* the only way: however announcements, lapses, executions, throws and
\* interruptions fall, a pool is moved back only to a factory announced so
\* shortly before the one it had that the run which executed the latter had
\* already been going for longer.
PoolMovesForward ==
  [][\A s \in DOMAIN stacks :
       LET older == stacks'[s].vaultFactory
       IN  older < stacks[s].vaultFactory =>
             stacks[s].moved.announced - queue[Call(s, "wire", older)]
               < stacks[s].moved.took]_vars

\* deploy-robinhood-testnet.js:350 (MERGE, do not replace): once the Safes are
\* on record only create-safes.js changes them, whatever is deployed later.
SafesKept ==
  [][book.pair # 0 /\ book'.pair # book.pair => script = "createSafes"]_vars

\* The recorded factory was built on the recorded registries and pool, through
\* full deployments, factory redeployments and interruptions of either.
FactoryFitsStack ==
  book.factory # 0 => factories[book.factory] = book.stack

\* When safe-accept-roles.js reports the handover complete it is: the recorded
\* Safes hold all four roles, and verify-handover.js would pass.
CompleteMeansMoved ==
  At("acceptRoles", "complete") =>
    /\ VerifyHandover
    /\ \A i \in Roles : HeldBy(Recorded(i), book.pair)

\* As long as every script runs to its end and no factory overtakes a newer one,
\* the recorded factory is the one the pool takes vaults from, or its announcement
\* is on record (it may have lapsed there).
RecordedFactoryIsWired ==
  mishap = "none" /\ book.factory # 0 =>
    \/ stacks[book.stack].vaultFactory = book.factory
    \/ Contains(pending, Call(book.stack, "wire", book.factory))

\* prove-keeper-bounty.js:94-185: whatever fails between the receipt of the
\* shortened grace and the call that restores it, and whichever scripts follow, no
\* stack is left with the test values, unless a script was killed or one of those
\* two calls itself threw.
ConfigRestored ==
  script = "idle" /\ mishap \notin Grave =>
    \A s \in DOMAIN stacks : ~stacks[s].fast

\* settle-stuck-vaults.js:8-11: the vaults it is there for were left by runs that
\* failed.  Scripts that all run to their end, and report no error on the way,
\* leave no loan open.
NoLoanLeftBehind ==
  script = "idle" /\ mishap = "none" => DOMAIN loans = {}

\* redeploy-factory-v21.js:131 checks who the pool's operator is before it
\* starts, so that setVaultFactory cannot revert and leave the new factory
\* unable to register vaults.
RedeployGoesThrough ==
  mishap # "refused"

=============================================================================
