------------------------- MODULE MandateProperties -------------------------
(***************************************************************************)
(* What VaultFactory.sol promises a lender who leaves a mandate standing   *)
(* and a borrower who fills one.                                           *)
(***************************************************************************)
EXTENDS Mandates

\* Types; no mandate is lent beyond its capacity, so mandateRemaining() never
\* underflows, and nobody pays what they do not have.
TypeOK ==
  /\ \A id \in Ids :
       LET m == mandates[id]
       IN  /\ m.terms \in MandateTerms /\ WellFormed(m.terms)
           /\ m.lender \in Wallets /\ m.expiry \in Nat
           /\ m.nonce \in 0 .. lenderNonce[m.lender]
           /\ m.cancelled \in BOOLEAN
           /\ m.filled \in 0 .. m.terms.totalCapacity
  /\ lenderNonce \in [Wallets -> Nat] /\ withdrawn \subseteq Ids
  /\ maxMandateDuration \in Durations /\ insuranceSkimRateBps \in SkimRates
  /\ \A i \in DOMAIN vaults :
       LET v == vaults[i]
       IN  /\ v.mandate \in Ids \cup {0} /\ v.lender # v.borrower
           /\ v.deposit \in {0, v.requiredDeposit} /\ v.balance \in Nat
           /\ v.premium \in Nat /\ v.skim \in Nat
  /\ whitelisted \in BOOLEAN /\ eligible \subseteq Wallets \X Roles
  /\ tierConfig \in RiskConfigs /\ depositCoeffBps \in Coefficients
  /\ wallet \in [Wallets -> Nat] /\ allowance \in [Wallets -> Nat]
  /\ reserve \in Nat /\ now \in 0 .. MaxTime

FilledFrom(id) == {i \in DOMAIN vaults : vaults[i].mandate = id}

\* Item 13: capacity bounds all the fills of a mandate together, however many
\* borrowers fill it and in whatever sizes; the book's count is what was
\* really lent.
CapacityBoundsAllFills ==
  \A id \in Ids :
    LET principal == [i \in DOMAIN vaults |-> vaults[i].principal]
        lent == SumFunctionOnSet(principal, FilledFrom(id))
    IN  mandates[id].filled = lent /\ lent <= mandates[id].terms.totalCapacity

\* A mandate its lender has taken back, alone or with all the others, is never
\* filled again, and one that has expired is not either: inaction is safe.
WithdrawnStaysWithdrawn ==
  [][\A id \in Ids :
       FilledFrom(id)' # FilledFrom(id)
         => id \notin withdrawn /\ now <= mandates[id].expiry]_vars

\* The price surface has no cheap corner: deposit a borrower is compelled to
\* post earns no credit (the fault found in the 5 August review), a larger
\* deposit never costs more, a longer loan never less, and nothing is priced
\* below the lender's minimum.
PriceSurface ==
  \A id \in {i \in Ids : isMandateLive(i)} :
    LET t     == mandates[id].terms
        span  == t.minTermSeconds .. t.maxTermSeconds
        fifth == BPS \div 5
        floor == [term \in span |-> depositFloor(t.maxTier, term)]
        price == [term \in span |->
                    [n \in 0 .. 5 |-> quoteMandateApr(id, term, n * fifth)]]
    IN  \A term \in span, n \in 0 .. 5 :
          /\ floor[term] >= n * fifth => price[term][n] >= FullPrice(t, term)
          /\ price[term][n] >= t.minAprBps
          /\ n > 0 => price[term][n] <= price[term][n - 1]
          /\ term - 1 \in span => price[term][n] >= price[term - 1][n]

\* The deposit floor follows the square root of the term: four times the term
\* asks for twice the deposit, to within the rounding of a root, and a
\* longer term never for less (AssetRegistry.sol:129).
FloorFollowsRootOfTerm ==
  \A tier \in Tiers :
    LET cfg   == tierConfig[tier]
        floor == [term \in 1 .. 2 * Year |-> volFloor(cfg, depositCoeffBps, term)]
        unit  == (depositCoeffBps * cfg.assumedVolBps) \div (BPS * RootScale)
    IN  \A term \in 1 .. Year \div 2 :
          /\ floor[term] <= floor[term + 1]
          /\ floor[4 * term] - 2 * floor[term] \in 0 .. unit + 3

\* No money is made, lost or left in the factory, and the pool has been paid
\* for every loan that can draw on it: the skim of all of them and the premium
\* of each whose deposit is in.
PoolIsPaid ==
  LET paid    == [i \in DOMAIN vaults |->
                    vaults[i].skim
                      + IF vaults[i].deposit > 0 THEN vaults[i].premium ELSE 0]
      balance == [i \in DOMAIN vaults |-> vaults[i].balance]
  IN  /\ reserve = SumFunctionOnSet(paid, DOMAIN vaults)
      /\ SumFunctionOnSet(wallet, Wallets)
           + SumFunctionOnSet(balance, DOMAIN vaults) + reserve
           = SumFunctionOnSet(Funds, Wallets)

=============================================================================
