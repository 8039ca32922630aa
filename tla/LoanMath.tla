------------------------------ MODULE LoanMath ------------------------------
(***************************************************************************)
(* The arithmetic of a loan: interest, premium, keeper bounty, insurance   *)
(* draw and the settlement waterfall.  Solidity divides unsigned integers  *)
(* rounding down, which is what \div does on naturals, so every formula is *)
(* written with the multiplications and the division of the source, in its *)
(* order.                                                                  *)
(*                                                                         *)
(* A name with a suffix after "_" is a mutant of the definition after it.  *)
(* Operators only; nothing here has state.  Vault, InsurancePool and       *)
(* Mandates are built on them.                                             *)
(***************************************************************************)
EXTENDS Naturals

BPS == 10000                 \* basis points in one

AtMost(x, cap) == IF x > cap THEN cap ELSE x

AtLeast(x, floor) == IF x < floor THEN floor ELSE x

\* Unsigned saturating difference: the part of x above y.
Above(x, y) == IF x > y THEN x - y ELSE 0

\* The share `bps` of an amount.
Share(x, bps) == (x * bps) \div BPS

\* An annualised charge of `bps` over `seconds`.
Annualised(x, bps, seconds, year) == (x * bps * seconds) \div (BPS * year)

(***************************************************************************)
(* Vault.fullTermFee and Vault.accruedFee.  `elapsed` is the time since    *)
(* origination.                                                            *)
(***************************************************************************)
FullTermFee(principal, aprBps, term, year) ==
  Annualised(principal, aprBps, term, year)

AccruedFee(principal, aprBps, minimumFeeBps, term, year, elapsed) ==
  LET full  == FullTermFee(principal, aprBps, term, year)
      floor == AtMost(Share(principal, minimumFeeBps), full)
  IN  IF elapsed >= term
      THEN full
      ELSE AtLeast(Annualised(principal, aprBps, elapsed, year), floor)

(***************************************************************************)
(* Vault._accruedBounty: linear from `from`, capped.                       *)
(***************************************************************************)
AccruedBounty(principal, ratePerHourBps, capBps, hour, elapsed) ==
  Share(principal, AtMost((elapsed * ratePerHourBps) \div hour, capBps))

(***************************************************************************)
(* What InsurancePool.draw pays: the least of the shortfall, the cap on    *)
(* the loan's principal and the share of the reserve.                      *)
(***************************************************************************)
DrawAmount(shortfall, principal, reserve, drawCapBps, maxDrawShareBps) ==
  AtMost(AtMost(shortfall, Share(principal, drawCapBps)),
         Share(reserve, maxDrawShareBps))

(***************************************************************************)
(* The waterfall of Vault._distribute once the pool has answered.          *)
(* `available` is the vault's balance plus the draw; the lender comes      *)
(* first, then the bounty, then the protocol fee (split with the           *)
(* referrer), and the borrower takes what is left.  A vault with no        *)
(* treasury has feeRateBps = 0 here, and one with no referrer shareBps = 0: *)
(* the source pays nothing in both cases.                                  *)
(***************************************************************************)
Waterfall(available, target, fee, bounty, feeRateBps, shareBps) ==
  LET residual1 == Above(available, target)
      paidKeeper == AtMost(bounty, residual1)
      residual2 == residual1 - paidKeeper
      charged == AtMost(Share(fee, feeRateBps), residual2)
      referred == Share(charged, shareBps)
  IN  [lender   |-> AtMost(available, target),
       keeper   |-> paidKeeper,
       treasury |-> charged - referred,
       referrer |-> referred,
       borrower |-> residual2 - charged]

=============================================================================
