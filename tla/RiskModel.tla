----------------------------- MODULE RiskModel -----------------------------
(***************************************************************************)
(* What AssetRegistry asks of a loan by its risk tier: the deposit floor,  *)
(* which grows with the square root of the term, the longest term and the  *)
(* insurance premium.                                                      *)
(*                                                                         *)
(* A name with a suffix after "_" is a mutant of the definition after it.  *)
(***************************************************************************)
EXTENDS LoanMath, Sequences, FiniteSetsExt

CONSTANTS Year,       \* seconds in a year, in ticks
          RootScale   \* fixed-point scale of the square root, 1e18 in the source

TierConfig == [assumedVolBps: Nat, minDepositBps: 0 .. BPS,
               maxTermSeconds: Nat \ {0}, insurancePremiumBps: Nat]

\* The Babylonian square root, rounded down.
_sqrt(x) ==
  LET Newton[y \in 1 .. x] ==
        LET z == (x \div y + y) \div 2
        IN  IF z < y THEN Newton[z] ELSE y
  IN  IF x = 0 THEN 0 ELSE Newton[x]

volFloor_linear(tier, coeffBps, term) ==
  (coeffBps * tier.assumedVolBps * term) \div (BPS * Year)
volFloor(tier, coeffBps, term) ==
  (coeffBps * tier.assumedVolBps * _sqrt((term * RootScale * RootScale) \div Year))
    \div (BPS * RootScale)

minimumDepositBpsForTier(tier, coeffBps, term) ==
  AtLeast(AtMost(volFloor(tier, coeffBps, term), BPS), tier.minDepositBps)

=============================================================================
