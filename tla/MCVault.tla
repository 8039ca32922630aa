------------------------------ MODULE MCVault ------------------------------
(***************************************************************************)
(* The instances of Vault that TLC explores.  A loan of 10 units with a    *)
(* deposit of 3 runs from 1 to 3 and owes 4 units of interest over its     *)
(* term, so a lost deposit, a lost principal and an unpaid interest are    *)
(* all within a few units of each other.                                   *)
(***************************************************************************)
EXTENDS VaultRefinement

MCTerms == [principal |-> 10, requiredDeposit |-> 3, aprBps |-> 4000,
            originatedAt |-> 1, term |-> 2, maxTier |-> 0,
            insurancePremiumBps |-> 1000]

\* The same loan over a single tick.
ShortTerms == [MCTerms EXCEPT !.term = 1]

MCFees == [protocolFeeRateBps |-> 5000, referrerShareBps |-> 5000,
           minimumFeeBps |-> 1000]

MCPoolTerms == [drawCapBps |-> 2000, maxDrawShareBps |-> 5000]

BaseConfig == [twapToleranceBps |-> 1000, maxEntryImpactBps |-> 1000,
               swapBackGracePeriod |-> 1, bountyRatePerHourBps |-> 500,
               bountyCapBps |-> 1000, outageGapThreshold |-> 0,
               recoveryPeriod |-> 0, maxGraceExtension |-> 0]

OneConfig == {BaseConfig}

\* A wider tolerance, a longer grace and a richer bounty arrive mid-loan.
TwoConfigs == {BaseConfig,
               [BaseConfig EXCEPT !.twapToleranceBps = 500,
                                  !.swapBackGracePeriod = 2,
                                  !.bountyRatePerHourBps = 1000]}

OutageConfigs == {[BaseConfig EXCEPT !.outageGapThreshold = 2,
                                     !.recoveryPeriod = 2,
                                     !.maxGraceExtension = 3]}

NoGrace == [a \in Assets |-> 0]
OneTickGrace == [a \in Assets |-> 1]

FullExposure == [t \in Tiers |-> IF t = 0 THEN BPS ELSE 5000]

Q(twap, depth) == [twap |-> twap, depth |-> depth]

MovingQuotes  == {Q(1, 20), Q(2, 3)}
PriceQuotes   == {Q(1, 20), Q(2, 20)}
KindQuotes    == {Q(1, 20), Q(2, 0), Q(0, 0)}
ThinQuotes    == {Q(1, 20), Q(1, 0)}

AllHistories == Assets \X FeeTiers

Frozen(as)   == {<<a, "vault">> : a \in as}
Blocked(ps)  == {<<Loan, p>> : p \in ps}

NoRefusals        == {}
FirstAsset        == {CHOOSE a \in Assets : TRUE}
FrozenFirst       == Frozen(FirstAsset)
LenderRefused     == Blocked({"lender"})
FrozenAndBlocked  == Frozen(Assets) \cup Blocked({"lender"})

=============================================================================
