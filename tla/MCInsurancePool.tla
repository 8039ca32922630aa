-------------------------- MODULE MCInsurancePool --------------------------
(***************************************************************************)
(* The instance of InsurancePool that TLC explores.  With reserves of at   *)
(* most four units a draw share of 50% is the smallest that pays anything; *)
(* the delay is two ticks and an approval stays good for one more.         *)
(***************************************************************************)
EXTENDS InsurancePool

CONSTANTS f1, f2, v1, op, typo, usd, eur, treasury

=============================================================================
