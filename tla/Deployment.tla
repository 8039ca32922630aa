----------------------------- MODULE Deployment -----------------------------
(***************************************************************************)
(* What the deployment and admin scripts share: the contracts on the chain,*)
(* as far as the scripts tell them apart, the two files the scripts keep   *)
(* (deployed-addresses.json and pending-timelock.json), and the one script *)
(* that is running.                                                        *)
(*                                                                         *)
(* Stack n is the n-th KYC registry, asset registry and insurance pool,    *)
(* which are always deployed together; factory n is the n-th VaultFactory, *)
(* with its vault implementation and lens.  Safes come in pairs, an        *)
(* operator's and an owner's.  Each registry lists one asset, the          *)
(* tokenised stock, against the loan token.                                *)
(*                                                                         *)
(* A script runs alone, a step for each transaction or file it writes, and *)
(* may be interrupted or throw between any two; a new run starts from the  *)
(* top.  A transaction that is mined and whose receipt is lost is one that *)
(* went through followed by a throw.                                       *)
(*                                                                         *)
(* A name with a suffix after "_" is a mutant of the definition after it.  *)
(***************************************************************************)
EXTENDS Integers, Sequences, FiniteSets, SequencesExt

CONSTANTS
  Delays,           \* timelock delays a stack is deployed with
  ExecutionWindow,  \* Timelocked.EXECUTION_WINDOW
  MaxStacks, MaxFactories, MaxSafes, MaxLoans, MaxTime, \* bounds
  MaxRuns           \* bound on the scripts started

ASSUME DeploymentAssumption ==
  /\ Delays \subseteq Nat /\ Delays # {} /\ ExecutionWindow \in Nat
  /\ MaxStacks \in Nat \ {0} /\ MaxFactories \in Nat \ {0}
  /\ MaxSafes \in Nat /\ MaxLoans \in Nat /\ MaxTime \in Nat /\ MaxRuns \in Nat

VARIABLES
  now,
  stacks,     \* the stacks deployed, in order
  factories,  \* the stack each factory was built on
  control,    \* who holds each contract's role and who is nominated
  queue,      \* announced calls, with the time of the announcement
  safes,      \* pairs of Safes created
  loans,      \* vaults not settled yet, by a number of their own
  book,       \* deployed-addresses.json
  pending,    \* pending-timelock.json
  script, step, local,  \* the running script
  runs,       \* scripts started
  mishap      \* history: what went wrong first, or worst

chainVars  == <<stacks, factories, control, queue, safes, loans>>
fileVars   == <<book, pending>>
scriptVars == <<script, step, local>>
vars == <<now, chainVars, fileVars, scriptVars, runs, mishap>>

\* The addresses that may hold a role: the deploying key, the Safes of a pair
\* (by its number), and for a moment an account of verify-two-step.js.
Key    == 0
Nobody == -1
Probe  == -2

StackRoles == {"assetRegistry", "kycRegistry", "insurancePool"}
Contracts  == (StackRoles \X (1 .. MaxStacks))
                \union ({"vaultFactory"} \X (1 .. MaxFactories))

\* The contracts the book names, and the order the scripts go through them in.
RoleOrder == <<"assetRegistry", "kycRegistry", "insurancePool", "vaultFactory">>
ContractOf(role, stack, factory) ==
  <<role, IF role = "vaultFactory" THEN factory ELSE stack>>
Recorded(i) == ContractOf(RoleOrder[i], book.stack, book.factory)

HeldBy(c, who)    == control[c].holder = who
Nominated(c, who) == control[c].nominee = who

-----------------------------------------------------------------------------
(***************************************************************************)
(* Calls that may have to be announced.  A call on a stack is its own id.  *)
(***************************************************************************)
Call(stack, kind, arg) == [stack |-> stack, kind |-> kind, arg |-> arg]

Target(call) ==
  LET role == CASE call.kind = "wire"  -> "insurancePool"
                [] call.kind = "grant" -> "kycRegistry"
                [] OTHER               -> "assetRegistry"
  IN  <<role, call.stack>>

Delay(call)   == stacks[call.stack].delay
Matures(call) == queue[call] + Delay(call)
Queued(call)  == call \in DOMAIN queue
Lapsed(call)  == Queued(call) /\ now > Matures(call) + ExecutionWindow
isExecutable(call) == Queued(call) /\ now >= Matures(call) /\ ~Lapsed(call)

\* Repointing the pool waits for its announcement whatever the delay; the
\* other setters skip the queue when there is none.
MustBeAnnounced(call) ==
  LET s == stacks[call.stack]
  IN  CASE call.kind = "wire"  -> s.vaultFactory # 0
        [] call.kind = "cap"   -> s.delay > 0 /\ call.arg > s.cap
        [] call.kind = "list"  -> s.delay > 0 /\ s.known /\ call.arg # s.grace
        [] OTHER               -> s.delay > 0

\* A call the contract refuses whatever the timelock says.
Invalid(call) == call.kind = "list" /\ stacks[call.stack].listed

Accepted(call) ==
  ~Invalid(call) /\ (MustBeAnnounced(call) => isExecutable(call))

\* History: the announcement that last moved a pool, and how long the run that
\* executed it had been going.
Moved(call) == [announced |-> queue[call], took |-> now - local.since]

AfterCall(call) ==
  LET s == stacks[call.stack]
  IN  CASE call.kind = "wire"   ->
             [s EXCEPT !.vaultFactory = call.arg,
                       !.moved = IF Queued(call) THEN Moved(call) ELSE @]
        [] call.kind = "settle" -> [s EXCEPT !.shortWindow = TRUE, !.fast = FALSE]
        [] call.kind = "cap"    -> [s EXCEPT !.cap = call.arg]
        [] call.kind = "list"   -> [s EXCEPT !.listed = TRUE, !.known = TRUE,
                                             !.grace = call.arg]
        [] call.kind = "grant"  -> [s EXCEPT !.eligible = TRUE]

Without(call) == [c \in DOMAIN queue \ {call} |-> queue[c]]

Execute(call) ==
  /\ stacks' = [stacks EXCEPT ![call.stack] = AfterCall(call)]
  /\ queue' = IF MustBeAnnounced(call) THEN Without(call) ELSE queue
  /\ UNCHANGED <<factories, control, safes, loans>>

queueAction(call) ==
  /\ queue' = [c \in DOMAIN queue \union {call} |->
                 IF c = call THEN now ELSE queue[c]]
  /\ UNCHANGED <<stacks, factories, control, safes, loans>>

-----------------------------------------------------------------------------
(***************************************************************************)
(* Scripts.  `local` holds what a script remembers between its steps: the  *)
(* contracts it deploys, the Safes it was given, the call in hand with the *)
(* step that follows it, and the records it still has to go through.       *)
(***************************************************************************)
NoCall  == [stack |-> 0, kind |-> "none", arg |-> 0]
NoLocal == [stack |-> 0, factory |-> 0, pair |-> 0, call |-> NoCall,
            then |-> "", todo |-> <<>>, loan |-> 0, plan |-> <<>>,
            was |-> FALSE, failed |-> FALSE, since |-> 0]

Goto(s) == step' = s /\ UNCHANGED <<script, runs, mishap>>

Ends ==
  /\ script' = "idle" /\ step' = "" /\ local' = NoLocal
  /\ UNCHANGED runs
\* A script was killed, or left the test settlement values in place.
Grave == {"interrupted", "unrestored"}

Mishap(how) ==
  mishap' = IF mishap = "none" \/ (how \in Grave /\ mishap \notin Grave)
            THEN how ELSE mishap
EndsBadly(how) == Ends /\ Mishap(how)

\* A script runs to its end, or stops at an error.
Done   == Ends /\ UNCHANGED mishap
Fails  == EndsBadly("failed")
Throws == Fails /\ UNCHANGED <<chainVars, fileVars>>

Starting(name) == script = "idle" /\ runs < MaxRuns

\* A script that passes its checks takes its first step; one that does not
\* has changed nothing.
Begins(name, first, memory) ==
  /\ script' = name /\ step' = first /\ local' = memory
  /\ runs' = runs + 1
  /\ UNCHANGED <<now, chainVars, fileVars, mishap>>

At(name, s) == script = name /\ step = s

Interrupt ==
  /\ script # "idle"
  /\ EndsBadly("interrupted")
  /\ UNCHANGED <<now, chainVars, fileVars>>

Tick ==
  /\ now < MaxTime
  /\ now' = now + 1
  /\ UNCHANGED <<chainVars, fileVars, scriptVars, runs, mishap>>

=============================================================================
