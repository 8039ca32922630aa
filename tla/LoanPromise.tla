---------------------------- MODULE LoanPromise ----------------------------
(***************************************************************************)
(* What the two sides of a loan are promised, with no market, token,       *)
(* registry or keeper in sight: a loan closes once, in one of three ways;  *)
(* what each party is entitled to in the loan's asset is decided in that   *)
(* one step, the lender first; and it is then collected whole, at once or  *)
(* later.  VaultRefinement shows that Vault implements this.               *)
(***************************************************************************)
EXTENDS Naturals

CONSTANTS
  Parties,      \* "lender" and everybody else
  Principal,
  FullFee       \* the interest of the whole term

VARIABLES
  status,       \* "unfunded", "funded", "repaid", "handedOver", "givenBack"
  expired,      \* the deadline has passed
  interest,     \* what the lender has earned so far
  entitled,     \* what each party is to receive of the loan's asset
  collected     \* what it has received

promiseVars == <<status, expired, interest, entitled, collected>>

Nothing == [p \in Parties |-> 0]

Open == status \in {"unfunded", "funded"}

Target == Principal + interest

Init ==
  /\ Open
  /\ expired = FALSE
  /\ interest \in 0 .. FullFee
  /\ entitled = Nothing /\ collected = Nothing

\* The borrower's deposit arrives, in time or never.
Fund ==
  /\ status = "unfunded" /\ ~expired
  /\ status' = "funded"
  /\ UNCHANGED <<expired, interest, entitled, collected>>

\* Interest is earned as time goes by, all of it by the deadline.
Accrue ==
  /\ Open
  /\ interest' \in interest .. FullFee
  /\ expired' \in {expired, TRUE}
  /\ expired' => interest' = FullFee
  /\ UNCHANGED <<status, entitled, collected>>

\* Each party is given its whole entitlement in the closing step or, when the
\* token refuses, nothing of it yet.
Decide(closed) ==
  /\ status' = closed
  /\ entitled' \in [Parties -> Nat]
  /\ collected' \in [Parties -> Nat]
  /\ \A p \in Parties : collected'[p] \in {0, entitled'[p]}
  /\ UNCHANGED <<expired, interest>>

Others == Parties \ {"lender"}

LenderWhole == entitled'["lender"] = Target

LenderFirst ==
  /\ entitled'["lender"] <= Target
  /\ (\E p \in Others : entitled'[p] > 0) => LenderWhole

\* settle(): before the deadline only with the lender made whole.
Repay ==
  /\ status = "funded"
  /\ Decide("repaid")
  /\ LenderFirst
  /\ ~expired => LenderWhole

\* settleInKind(): after the deadline, and nobody takes a fee or a bounty.
HandOver ==
  /\ status = "funded" /\ expired
  /\ Decide("handedOver")
  /\ LenderFirst
  /\ \A p \in Others \ {"borrower"} : entitled'[p] = 0

\* cancel(): the lender gets everything back.
GiveBack ==
  /\ status = "unfunded" /\ expired
  /\ Decide("givenBack")
  /\ entitled'["lender"] >= Principal
  /\ \A p \in Others : entitled'[p] = 0

\* claim(): what was deferred is collected in one piece.
Collect(p) ==
  /\ ~Open
  /\ collected' = [collected EXCEPT ![p] = entitled[p]]
  /\ UNCHANGED <<status, expired, interest, entitled>>

Next ==
  \/ Fund \/ Accrue
  \/ Repay \/ HandOver \/ GiveBack
  \/ \E p \in Parties : Collect(p)

Spec == Init /\ [][Next]_promiseVars

=============================================================================
