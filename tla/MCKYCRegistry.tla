--------------------------- MODULE MCKYCRegistry ----------------------------
(***************************************************************************)
(* The instance of KYCRegistry that TLC explores: two manual grants in any *)
(* two ticks, a cap of two ticks on an attestation and an offer of three.  *)
(***************************************************************************)
EXTENDS KYCRegistry, TLC

CONSTANTS w1, w2, k1, k2, kyc

Symmetry == Permutations(Wallets)

=============================================================================
