------------------------------ MODULE Mandates ------------------------------
(***************************************************************************)
(* contracts/VaultFactory.sol: lenders publish mandates, borrowers fill    *)
(* them at the price the mandate's formula gives, and lenders originate    *)
(* loans directly.  One loan asset, with the wallets and allowances every  *)
(* payment comes out of, the registry's risk settings and the pool's       *)
(* reserve.  Vault takes over where a loan begins; here a vault only keeps *)
(* what origination put in it.                                             *)
(*                                                                         *)
(* A call is a step.  A call the factory, a vault or the token refuses     *)
(* reverts as a whole, which is a step not taken.                          *)
(*                                                                         *)
(* A name with a suffix after "_" is a mutant of the definition after it.  *)
(***************************************************************************)
EXTENDS RiskModel

CONSTANTS
  Wallets,        \* accounts
  Lenders, Borrowers, \* which of them lend, and borrow
  Anyone,         \* permittedBorrower left open, address(0)
  Offers,         \* MandateTerms a lender may publish
  DirectTerms,    \* terms a lender may originate directly on
  Tiers,          \* risk tiers
  RiskConfigs,    \* tier settings the operator may choose
  Coefficients,   \* values of depositCoeffBps
  SkimRates,      \* values of insuranceSkimRateBps
  Durations,      \* values of maxMandateDuration
  Day,            \* seconds in a day, in ticks
  Principals, Tenors, Deposits, Limits, \* what a borrower may ask for
  Screened,       \* <<wallet, role>> pairs whose verification may change
  Funds,          \* what each wallet starts with
  Allowances,     \* what a wallet may approve the factory for
  MaxMandates, MaxVaults, \* bounds on the two logs
  MaxNonce,       \* bound on lenderNonce
  MaxTime         \* bound on time

Roles == {"lender", "borrower"}

MandateTerms == [minPrincipal: Nat, maxPrincipal: Nat, minTermSeconds: Nat,
                 maxTermSeconds: Nat, validForSeconds: Nat, maxTier: Tiers,
                 permittedBorrower: Wallets \cup {Anyone}, baseAprBps: Nat,
                 termPremiumBpsPerDay: Nat, depositCreditBpsPerPoint: Nat,
                 minDepositBps: Nat, minAprBps: Nat, totalCapacity: Nat]

DirectOffer == [principal: Nat, aprBps: Nat, term: Nat, deposit: Nat,
                maxTier: Tiers]

ASSUME FactoryAssumption ==
  /\ IsFiniteSet(Wallets) /\ Anyone \notin Wallets
  /\ Lenders \subseteq Wallets /\ Borrowers \subseteq Wallets
  /\ Year \in Nat \ {0} /\ Day \in Nat \ {0} /\ RootScale \in Nat \ {0}
  /\ Offers \subseteq MandateTerms /\ DirectTerms \subseteq DirectOffer
  /\ RiskConfigs \subseteq [Tiers -> TierConfig]
  /\ Coefficients \subseteq Nat \ {0} /\ SkimRates \subseteq 0 .. BPS
  /\ Durations \subseteq Nat \ {0}
  /\ Principals \subseteq Nat /\ Tenors \subseteq Nat
  /\ Deposits \subseteq Nat /\ Limits \subseteq Nat
  /\ Screened \subseteq Wallets \X Roles /\ Funds \in [Wallets -> Nat]
  /\ Allowances \subseteq Nat
  /\ MaxMandates \in Nat /\ MaxVaults \in Nat /\ MaxNonce \in Nat
  /\ MaxTime \in Nat

VARIABLES
  mandates,            \* the book: terms with lender, expiry, nonce, flags
  lenderNonce,
  maxMandateDuration, insuranceSkimRateBps,
  vaults,              \* every vault originated
  \* the registries
  whitelisted,         \* the loan asset is listed
  tierConfig, depositCoeffBps,
  eligible,            \* <<wallet, role>> pairs isEligible() holds for
  \* the token and the pool
  wallet, allowance,   \* balances, and what the factory may pull
  reserve,
  now,
  withdrawn            \* history: mandates their lender has taken back

bookVars     == <<mandates, lenderNonce, withdrawn>>
settingVars  == <<maxMandateDuration, insuranceSkimRateBps>>
registryVars == <<whitelisted, tierConfig, depositCoeffBps, eligible>>
moneyVars    == <<vaults, wallet, allowance, reserve>>
vars         == <<bookVars, settingVars, registryVars, moneyVars, now>>

Init ==
  /\ mandates = <<>> /\ lenderNonce = [w \in Wallets |-> 0] /\ withdrawn = {}
  /\ maxMandateDuration \in Durations /\ insuranceSkimRateBps \in SkimRates
  /\ vaults = <<>>
  /\ whitelisted = TRUE
  /\ tierConfig \in RiskConfigs /\ depositCoeffBps \in Coefficients
  /\ eligible = Wallets \X Roles
  /\ wallet = Funds /\ allowance = [w \in Wallets |-> 0]
  /\ reserve = 0 /\ now = 0

-----------------------------------------------------------------------------
(***************************************************************************)
(* The book.                                                               *)
(***************************************************************************)
Ids == DOMAIN mandates

depositFloor(tier, term) ==
  minimumDepositBpsForTier(tierConfig[tier], depositCoeffBps, term)

\* publishMandate's requirements on the terms alone.
WellFormed(t) ==
  /\ t.minPrincipal > 0 /\ t.maxPrincipal >= t.minPrincipal
  /\ t.totalCapacity >= t.maxPrincipal
  /\ t.minTermSeconds > 0 /\ t.maxTermSeconds >= t.minTermSeconds
  /\ t.validForSeconds > 0
  /\ t.minAprBps > 0 /\ t.minAprBps <= t.baseAprBps
  /\ t.minDepositBps <= BPS

publishMandate(lender, t) ==
  /\ Len(mandates) < MaxMandates
  /\ whitelisted
  /\ WellFormed(t)
  /\ t.validForSeconds <= maxMandateDuration
  /\ t.maxTermSeconds <= tierConfig[t.maxTier].maxTermSeconds
  /\ mandates' = Append(mandates,
                   [terms |-> t, lender |-> lender,
                    expiry |-> now + t.validForSeconds,
                    nonce |-> lenderNonce[lender],
                    cancelled |-> FALSE, filled |-> 0])
  /\ UNCHANGED <<lenderNonce, withdrawn, settingVars, registryVars, moneyVars,
                 now>>

cancelMandate(lender, id) ==
  /\ mandates[id].lender = lender
  /\ mandates' = [mandates EXCEPT ![id].cancelled = TRUE]
  /\ withdrawn' = withdrawn \cup {id}
  /\ UNCHANGED <<lenderNonce, settingVars, registryVars, moneyVars, now>>

cancelAllMandates(lender) ==
  /\ lenderNonce[lender] < MaxNonce
  /\ lenderNonce' = [lenderNonce EXCEPT ![lender] = @ + 1]
  /\ withdrawn' = withdrawn \cup {id \in Ids : mandates[id].lender = lender}
  /\ UNCHANGED <<mandates, settingVars, registryVars, moneyVars, now>>

isMandateLive_anyNonce(id) ==
  ~mandates[id].cancelled /\ now <= mandates[id].expiry
isMandateLive(id) ==
  /\ ~mandates[id].cancelled
  /\ now <= mandates[id].expiry
  /\ mandates[id].nonce = lenderNonce[mandates[id].lender]

mandateRemaining(id) == mandates[id].terms.totalCapacity - mandates[id].filled

-----------------------------------------------------------------------------
(***************************************************************************)
(* Pricing.                                                                *)
(***************************************************************************)
bindingDepositBps_mandateOnly(id, term) == mandates[id].terms.minDepositBps
bindingDepositBps(id, term) ==
  AtLeast(mandates[id].terms.minDepositBps,
          depositFloor(mandates[id].terms.maxTier, term))

FullPrice(t, term) ==
  t.baseAprBps + (t.termPremiumBpsPerDay * term) \div Day

quoteMandateApr(id, term, depositBps) ==
  LET t      == mandates[id].terms
      extra  == Above(depositBps, bindingDepositBps(id, term))
      credit == (t.depositCreditBpsPerPoint * extra) \div 100
  IN  AtLeast(Above(FullPrice(t, term), credit), t.minAprBps)

quoteInsuranceSkim(principal, aprBps, term) ==
  Share(FullTermFee(principal, aprBps, term, Year), insuranceSkimRateBps)

quoteMandateFillable(id) ==
  LET lender    == mandates[id].lender
      available == AtMost(allowance[lender], wallet[lender])
      offer     == AtMost(mandates[id].terms.maxPrincipal, mandateRemaining(id))
  IN  IF isMandateLive(id) THEN AtMost(available, offer) ELSE 0

-----------------------------------------------------------------------------
(***************************************************************************)
(* Origination.  `p` is OriginationParams; `paidNow` is what the borrower  *)
(* puts in in the same transaction, and `mandate` the mandate it fills, 0  *)
(* when the lender originates directly.                                    *)
(***************************************************************************)
Gates(p) ==
  /\ p.lender # p.borrower
  /\ {<<p.lender, "lender">>, <<p.borrower, "borrower">>} \subseteq eligible
  /\ whitelisted
  /\ p.principal > 0 /\ p.aprBps > 0 /\ p.term > 0 /\ p.deposit > 0

RiskLimits(p) ==
  /\ p.term <= tierConfig[p.maxTier].maxTermSeconds
  /\ p.deposit >= Share(p.principal, depositFloor(p.maxTier, p.term))

premiumFor(p) ==
  Annualised(p.principal, tierConfig[p.maxTier].insurancePremiumBps, p.term, Year)

\* What a wallet can still be made to pay the factory.
Payable(w) == AtMost(wallet[w], allowance[w])

_deployVault(p, mandate, paidNow) ==
  LET skim    == quoteInsuranceSkim(p.principal, p.aprBps, p.term)
      fromLender == p.principal + skim
      fromBorrower == paidNow.deposit + paidNow.premium
      bill == [w \in Wallets |-> IF w = p.lender THEN fromLender
                                 ELSE IF w = p.borrower THEN fromBorrower
                                 ELSE 0]
  IN  /\ Len(vaults) < MaxVaults
      /\ Gates(p)
      /\ RiskLimits(p)
      /\ \A w \in Wallets : bill[w] <= Payable(w)
      /\ wallet' = [w \in Wallets |-> wallet[w] - bill[w]]
      /\ allowance' = [w \in Wallets |-> allowance[w] - bill[w]]
      /\ reserve' = reserve + skim + paidNow.premium
      /\ vaults' = Append(vaults,
                     [mandate |-> mandate, lender |-> p.lender,
                      borrower |-> p.borrower, principal |-> p.principal,
                      aprBps |-> p.aprBps, deadline |-> now + p.term,
                      requiredDeposit |-> p.deposit,
                      deposit |-> paidNow.deposit,
                      balance |-> p.principal + paidNow.deposit,
                      premium |-> premiumFor(p), skim |-> skim])

\* Directly, by the lender: the borrower pays later.
deployVault(lender, borrower, offer) ==
  /\ _deployVault([lender |-> lender, borrower |-> borrower,
                   principal |-> offer.principal, aprBps |-> offer.aprBps,
                   term |-> offer.term, deposit |-> offer.deposit,
                   maxTier |-> offer.maxTier],
                  0, [deposit |-> 0, premium |-> 0])
  /\ UNCHANGED <<bookVars, settingVars, registryVars, now>>

\* Vault.payDeposit; the vault's own allowance is not bounded here.
payDeposit(i) ==
  LET v    == vaults[i]
      bill == v.requiredDeposit + v.premium
  IN  /\ v.deposit = 0
      /\ now <= v.deadline
      /\ wallet[v.borrower] >= bill
      /\ wallet' = [wallet EXCEPT ![v.borrower] = @ - bill]
      /\ vaults' = [vaults EXCEPT ![i].deposit = v.requiredDeposit,
                                  ![i].balance = @ + v.requiredDeposit]
      /\ reserve' = reserve + v.premium
      /\ UNCHANGED <<allowance, bookVars, settingVars, registryVars, now>>

\* What fillMandate asks of a size, a term and a deposit.
WithinBounds(id, principal, term, deposit) ==
  LET t == mandates[id].terms
  IN  /\ principal \in t.minPrincipal .. t.maxPrincipal
      /\ principal <= mandateRemaining(id)
      /\ term \in t.minTermSeconds .. t.maxTermSeconds
      /\ (deposit * BPS) \div principal >= t.minDepositBps

filledAfter_perFill(id, principal) == principal
filledAfter(id, principal) == mandates[id].filled + principal

_fundBorrowerSide_depositOnly(p) == [deposit |-> p.deposit, premium |-> 0]
_fundBorrowerSide(p) == [deposit |-> p.deposit, premium |-> premiumFor(p)]

fillMandate(borrower, id, principal, term, deposit, maxAprBps) ==
  LET m   == mandates[id]
      apr == quoteMandateApr(id, term, (deposit * BPS) \div principal)
      p   == [lender |-> m.lender, borrower |-> borrower,
              principal |-> principal, aprBps |-> apr, term |-> term,
              deposit |-> deposit, maxTier |-> m.terms.maxTier]
  IN  /\ isMandateLive(id)
      /\ m.terms.permittedBorrower \in {Anyone, borrower}
      /\ WithinBounds(id, principal, term, deposit)
      /\ apr <= maxAprBps
      /\ mandates' = [mandates EXCEPT ![id].filled = filledAfter(id, principal)]
      /\ _deployVault(p, id, _fundBorrowerSide(p))
      /\ UNCHANGED <<lenderNonce, withdrawn, settingVars, registryVars, now>>

-----------------------------------------------------------------------------
(***************************************************************************)
(* The operator, the owner, the identity registry and the token.           *)
(***************************************************************************)
setRisk(config, coeffBps) ==
  /\ tierConfig' = config /\ depositCoeffBps' = coeffBps
  /\ UNCHANGED <<whitelisted, eligible, bookVars, settingVars, moneyVars, now>>

\* removeAsset and addAsset, for the loan asset.
List(listed) ==
  /\ whitelisted' = listed
  /\ UNCHANGED <<tierConfig, depositCoeffBps, eligible, bookVars, settingVars,
                 moneyVars, now>>

\* A wallet's verification lapses, is revoked or is renewed.
Screen(pair) ==
  /\ eligible' = IF pair \in eligible THEN eligible \ {pair}
                 ELSE eligible \cup {pair}
  /\ UNCHANGED <<whitelisted, tierConfig, depositCoeffBps, bookVars,
                 settingVars, moneyVars, now>>

setInsuranceSkimRateBps(bps) ==
  /\ insuranceSkimRateBps' = bps
  /\ UNCHANGED <<maxMandateDuration, bookVars, registryVars, moneyVars, now>>

setMaxMandateDuration(seconds) ==
  /\ maxMandateDuration' = seconds
  /\ UNCHANGED <<insuranceSkimRateBps, bookVars, registryVars, moneyVars, now>>

Approve(w, amount) ==
  /\ allowance' = [allowance EXCEPT ![w] = amount]
  /\ UNCHANGED <<vaults, wallet, reserve, bookVars, settingVars, registryVars,
                 now>>

Tick ==
  /\ now < MaxTime
  /\ now' = now + 1
  /\ UNCHANGED <<bookVars, settingVars, registryVars, moneyVars>>

-----------------------------------------------------------------------------
Lending ==
  \E lender \in Lenders :
    \/ \E t \in Offers : publishMandate(lender, t)
    \/ \E id \in Ids : cancelMandate(lender, id)
    \/ cancelAllMandates(lender)
    \/ \E borrower \in Borrowers, offer \in DirectTerms :
         deployVault(lender, borrower, offer)

Borrowing ==
  \/ \E borrower \in Borrowers, id \in Ids, principal \in Principals,
        term \in Tenors, deposit \in Deposits, maxAprBps \in Limits :
       fillMandate(borrower, id, principal, term, deposit, maxAprBps)
  \/ \E i \in DOMAIN vaults : payDeposit(i)

Administration ==
  \/ \E config \in RiskConfigs, coeffBps \in Coefficients :
       setRisk(config, coeffBps)
  \/ \E listed \in BOOLEAN : List(listed)
  \/ \E pair \in Screened : Screen(pair)
  \/ \E bps \in SkimRates : setInsuranceSkimRateBps(bps)
  \/ \E seconds \in Durations : setMaxMandateDuration(seconds)

Next ==
  \/ Lending \/ Borrowing \/ Administration
  \/ \E w \in Wallets, amount \in Allowances : Approve(w, amount)
  \/ Tick

Spec == Init /\ [][Next]_vars

=============================================================================
