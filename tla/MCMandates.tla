----------------------------- MODULE MCMandates -----------------------------
(***************************************************************************)
(* The instances of Mandates that TLC explores.  A year is four ticks and  *)
(* a day one, so a one-tick loan is priced and floored far from a          *)
(* three-tick one; loans are of two or three units of a lender's nine.      *)
(***************************************************************************)
EXTENDS MandateProperties

CONSTANTS ann, bob

\* A fill of two and one of three exhaust it; two of three do not fit.
Standing == [minPrincipal |-> 2, maxPrincipal |-> 4, minTermSeconds |-> 1,
             maxTermSeconds |-> 3, validForSeconds |-> 1, maxTier |-> 0,
             permittedBorrower |-> Anyone, baseAprBps |-> 16000,
             termPremiumBpsPerDay |-> 500, depositCreditBpsPerPoint |-> 50,
             minDepositBps |-> 1500, minAprBps |-> 10000, totalCapacity |-> 5]

OneOffer  == {Standing}

Direct    == {[principal |-> 2, aprBps |-> 30000, term |-> 3, deposit |-> 1,
               maxTier |-> 0]}

BlueChip  == [assumedVolBps |-> 3000, minDepositBps |-> 1000,
              maxTermSeconds |-> 3, insurancePremiumBps |-> 5000]
Calmer    == [BlueChip EXCEPT !.assumedVolBps = 2000, !.maxTermSeconds = 4]

RiskChoices == {[t \in Tiers |-> BlueChip], [t \in Tiers |-> Calmer]}

MCFunds == [w \in Wallets |-> IF w = ann THEN 9 ELSE 6]

BobScreened == {<<bob, "borrower">>}

=============================================================================
