----------------------------- MODULE LoanScripts ----------------------------
(***************************************************************************)
(* The scripts that open and close loans on a live stack with the team's   *)
(* own wallets: prove-keeper-bounty.js, prove-insurance-draw.js,           *)
(* lifecycle-proof-robinhood.js and settle-stuck-vaults.js.                *)
(*                                                                         *)
(* A loan is known by the factory it came from, how far it got, when it    *)
(* falls due and the extra grace of the asset it holds.  Terms, grace and  *)
(* the market are abstract: a term ends with the tick it begins in, the    *)
(* grace of the live configuration is a tick; a market that refuses a trade*)
(* makes its script throw.                                                 *)
(***************************************************************************)
EXTENDS HandoverScripts

Grace(stack) == IF stacks[stack].fast THEN 0 ELSE 1 \* swapBackGracePeriod
StackOf(l)   == factories[loans[l].factory]
Expired(l)   == now > loans[l].due

\* Vault.settle: early by the borrower, in the grace of a loan that holds an
\* asset by a party, afterwards by anyone.  The borrower signs as a party.
MaySettle(l, who) ==
  /\ loans[l].stage # "offered"
  /\ \/ who = "borrower"
     \/ /\ Expired(l)
        /\ loans[l].stage = "holding" =>
             now > loans[l].due + Grace(StackOf(l)) + loans[l].extra

\* deployVaultWithTier: both wallets are eligible and the pool takes vaults
\* from this factory.
CanOriginate ==
  /\ stacks[book.stack].eligible
  /\ stacks[book.stack].vaultFactory = book.factory

Lending(newLoans) ==
  /\ loans' = newLoans
  /\ UNCHANGED <<stacks, factories, control, queue, safes>>

With(l, loan) == [k \in DOMAIN loans \union {l} |-> IF k = l THEN loan ELSE loans[k]]
Settled(l)    == [k \in DOMAIN loans \ {l} |-> loans[k]]

-----------------------------------------------------------------------------
(***************************************************************************)
(* The three proofs are the same few calls in an order of their own.  The  *)
(* first shortens the grace before it lends and puts it back at the end,   *)
(* whether or not what it tried went through.                              *)
(***************************************************************************)
Opening == <<"originate", "deposit", "swap">>

Plan(name) ==
  CASE name = "proveKeeper" -> Opening \o <<"wait", "settle", "restore">>
    [] name = "proveDraw"   -> Opening \o <<"wait", "settle">>
    [] name = "lifecycle"   -> Opening \o <<"settle">> \o Opening \o <<"settle">>
                                 \o Opening \o <<"wait", "settle">>

\* The asset the script trades and who settles its loan.
Extra == IF script = "proveDraw" THEN stacks[book.stack].grace ELSE 0
Closer ==
  IF script = "proveKeeper" \/ (script = "lifecycle" /\ Len(local.plan) = 1)
  THEN "keeper" ELSE "borrower"

NextOf(plan) == IF plan = <<>> THEN "end" ELSE Head(plan)

Onward(loan) ==
  /\ local' = [local EXCEPT !.plan = Tail(@), !.loan = loan]
  /\ Goto(NextOf(Tail(local.plan)))

\* The finally of prove-keeper-bounty.js.
Aborts_noFinally == Fails
Aborts_noError ==
  IF script = "proveKeeper"
  THEN local' = [local EXCEPT !.plan = <<"restore">>] /\ Goto("restore")
  ELSE Fails
Aborts ==
  IF script = "proveKeeper"
  THEN /\ local' = [local EXCEPT !.plan = <<"restore">>, !.failed = TRUE]
       /\ Goto("restore")
  ELSE Fails

Refused == Aborts /\ UNCHANGED chainVars

LoanStepAt(s) ==
  /\ script \in {"proveKeeper", "proveDraw", "lifecycle"} /\ step = s
  /\ UNCHANGED <<now, fileVars>>

-----------------------------------------------------------------------------
ProveKeeper ==
  /\ Starting("proveKeeper")
  /\ book.stack # 0
  /\ Begins("proveKeeper", "shorten",
            [NoLocal EXCEPT !.plan = Plan("proveKeeper"),
                            !.was = stacks[book.stack].fast])

SetGrace(fast) ==
  /\ stacks' = [stacks EXCEPT ![book.stack].fast = fast]
  /\ UNCHANGED <<factories, control, queue, safes, loans>>

\* Sent directly: refused by a stack with a delay.  It is sent ahead of the try,
\* so a script that never sees its receipt does not restore anything.
ShortenGrace ==
  /\ LoanStepAt("shorten")
  /\ IF HeldBy(Recorded(1), Key) /\ stacks[book.stack].delay = 0
     THEN /\ SetGrace(TRUE)
          /\ (Goto("originate") /\ UNCHANGED local) \/ EndsBadly("unrestored")
     ELSE Fails /\ UNCHANGED chainVars

\* Nobody else took the role meanwhile; the receipt may be lost.
RestoreGrace ==
  /\ LoanStepAt("restore")
  /\ SetGrace(local.was)
  /\ Fails \/ (~local.failed /\ Done)

ProveDraw ==
  /\ Starting("proveDraw")
  /\ book.stack # 0
  /\ Begins("proveDraw", "originate", [NoLocal EXCEPT !.plan = Plan("proveDraw")])

\* VAULT names a loan an earlier run left behind.
ResumeDraw(l) ==
  /\ Starting("proveDraw")
  /\ book.stack # 0
  /\ Begins("proveDraw", "wait",
            [NoLocal EXCEPT !.plan = <<"wait", "settle">>, !.loan = l])

Lifecycle ==
  /\ Starting("lifecycle")
  /\ book.stack # 0
  /\ Begins("lifecycle", "originate", [NoLocal EXCEPT !.plan = Plan("lifecycle")])

-----------------------------------------------------------------------------
Originate ==
  /\ LoanStepAt("originate")
  /\ IF CanOriginate
     THEN \E l \in 1 .. MaxLoans :
            /\ l \notin DOMAIN loans
            /\ Lending(With(l, [factory |-> book.factory, stage |-> "offered",
                                due |-> now, extra |-> 0]))
            /\ Onward(l)
     ELSE Refused

PayDeposit ==
  /\ LoanStepAt("deposit")
  /\ IF Expired(local.loan)
     THEN Refused
     ELSE /\ Lending([loans EXCEPT ![local.loan].stage = "funded"])
          /\ Onward(local.loan)

Swap ==
  /\ LoanStepAt("swap")
  /\ IF /\ ~Expired(local.loan)
        /\ script = "proveDraw" => stacks[book.stack].listed /\ stacks[book.stack].approved
     THEN /\ Lending([loans EXCEPT ![local.loan].stage = "holding",
                                   ![local.loan].extra = Extra])
          /\ Onward(local.loan)
     ELSE Refused

\* The keeper's waits are for the deadline and the grace, without an asset's
\* extension; the other's is for the deadline.
WaitOut ==
  /\ LoanStepAt("wait")
  /\ local.loan \in DOMAIN loans
  /\ now > loans[local.loan].due
           + (IF script = "proveDraw" THEN 0 ELSE Grace(StackOf(local.loan)))
  /\ Onward(local.loan)
  /\ UNCHANGED chainVars

\* A settlement may be mined without its script seeing the receipt, and is
\* refused when it is sent again.
SettleLoan ==
  /\ LoanStepAt("settle")
  /\ IF MaySettle(local.loan, Closer)
     THEN Lending(Settled(local.loan)) /\ (Onward(0) \/ Aborts)
     ELSE Refused

-----------------------------------------------------------------------------
(***************************************************************************)
(* settle-stuck-vaults.js: the vaults of the recorded factory, those past  *)
(* their deadline, and of those the ones a keeper has a bounty in.         *)
(***************************************************************************)
Stuck ==
  {l \in DOMAIN loans : loans[l].factory = book.factory /\ Expired(l)}

BountyDue(l) ==
  loans[l].stage = "holding" /\ now > loans[l].due + Grace(StackOf(l))

SettleStuck ==
  /\ Starting("settleStuck")
  /\ book.stack # 0 /\ Stuck # {}
  /\ Begins("settleStuck", "sweep",
            [NoLocal EXCEPT !.plan = SetToSortSeq({l \in Stuck : BountyDue(l)}, <)])

\* The vault's asset and the keeper's balance are read ahead of the try, where
\* a read that fails ends the sweep.
SweepOne ==
  /\ At("settleStuck", "sweep") /\ local.plan # <<>>
  /\ Goto("try")
  /\ UNCHANGED <<now, chainVars, fileVars, local>>

\* Inside it, whatever goes wrong ends one attempt.
SweepTry ==
  LET l == Head(local.plan)
  IN  /\ At("settleStuck", "try")
      /\ \/ MaySettle(l, "keeper") /\ Lending(Settled(l))
         \/ UNCHANGED chainVars
      /\ local' = [local EXCEPT !.plan = Tail(@)]
      /\ Goto("sweep")
      /\ UNCHANGED <<now, fileVars>>

SweptAll ==
  /\ At("settleStuck", "sweep") /\ local.plan = <<>>
  /\ Done
  /\ UNCHANGED <<now, chainVars, fileVars>>

-----------------------------------------------------------------------------
(***************************************************************************)
(* Any of the calls a script makes may throw: the node is away, or it says *)
(* no.  What is on the chain and in the files stays as it is.              *)
(***************************************************************************)
InTry     == script = "proveKeeper" /\ step \notin {"shorten", "restore"}
Restoring == At("proveKeeper", "restore")

CallThrows ==
  /\ script # "idle" /\ ~At("settleStuck", "try")
  /\ \/ InTry /\ Aborts
     \/ Restoring /\ EndsBadly("unrestored")
     \/ ~InTry /\ ~Restoring /\ Fails
  /\ UNCHANGED <<now, chainVars, fileVars>>

LoanStep ==
  \/ ProveKeeper \/ ShortenGrace \/ RestoreGrace
  \/ ProveDraw \/ (\E l \in DOMAIN loans : ResumeDraw(l))
  \/ Lifecycle
  \/ Originate \/ PayDeposit \/ Swap \/ WaitOut \/ SettleLoan
  \/ SettleStuck \/ SweepOne \/ SweepTry \/ SweptAll
  \/ CallThrows

=============================================================================
