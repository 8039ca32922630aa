-------------------------- MODULE VaultRefinement --------------------------
(***************************************************************************)
(* Vault implements LoanPromise.  What a party is entitled to is what it   *)
(* has been paid of the loan's asset together with what the vault still    *)
(* owes it.                                                                *)
(***************************************************************************)
EXTENDS VaultProperties

loanStatus ==
  IF ~isSettled THEN IF depositPaid THEN "funded" ELSE "unfunded"
  ELSE IF settledInKind THEN "handedOver"
  ELSE IF depositPaid THEN "repaid" ELSE "givenBack"

loanExpired == now > Deadline

entitlement ==
  [p \in Parties |-> IF isSettled THEN paid[Loan][p] + owed[Loan][p] ELSE 0]

fullTermFee ==
  FullTermFee(Terms.principal, Terms.aprBps, Terms.term, Year)

Promise == INSTANCE LoanPromise
  WITH Principal <- Terms.principal, FullFee <- fullTermFee,
       status <- loanStatus, expired <- loanExpired, interest <- accruedFee,
       entitled <- entitlement, collected <- paid[Loan]

\* Every behaviour of a vault is one the promise allows: no trade, price,
\* donation, refused transfer or order of calls closes a loan twice, early at
\* the lender's cost, for a fee before the lender is whole, unfunded with
\* anything kept back, or splits or repeats a deferred payout.
KeepsPromise == Promise!Spec

=============================================================================
