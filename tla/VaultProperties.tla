-------------------------- MODULE VaultProperties --------------------------
(***************************************************************************)
(* What Vault.sol promises the two parties of a loan, its keepers and the  *)
(* insurance pool.                                                         *)
(***************************************************************************)
EXTENDS Vault

Outcome == [totalReturned: Nat, insuranceDraw: Nat, lenderPayout: Nat,
            borrowerPayout: Nat, fee: Nat, bounty: Nat, protocolFee: Nat,
            referrerFee: Nat]

TypeOK ==
  /\ deposit \in Nat
  /\ isSettled \in BOOLEAN /\ settledInKind \in BOOLEAN
  /\ heldAmount \in [Assets -> Nat]
  /\ swapFeeTierOf \in [Assets -> FeeTiers \cup {0}]
  /\ outcome \in Outcome
  /\ owed \in [Tokens -> [Parties -> Nat]]
  /\ closedBy \in Callers \cup {"nobody"}
  /\ balance \in [Tokens -> Nat]
  /\ paid \in [Tokens -> [Parties -> Nat]]
  /\ config \in Configs
  /\ whitelisted \subseteq Assets
  /\ worstTier \in [Assets -> Nat]
  /\ approvedFee \in [Assets -> FeeTiers]
  /\ lastHeartbeat \in Nat
  /\ outages \in Seq(Outage)
  /\ reserve \in Nat
  /\ market \in [Assets -> [FeeTiers -> Quotes]]
  /\ refused \subseteq Refusals
  /\ gifts \in Nat /\ now \in Nat /\ downtime \in Nat /\ upSince \in Nat

-----------------------------------------------------------------------------
(***************************************************************************)
(* Custody while the loan is open.                                         *)
(***************************************************************************)

\* Vault.sol's header: however the borrower trades, the balance of the loan
\* asset never drops below the deposit; before the deposit is paid the whole
\* principal is still there to be cancelled back.
DepositSegregated ==
  ~isSettled => cash >= (IF deposit > 0 THEN deposit ELSE Terms.principal)

\* The record of what the vault bought (heldAmount, KRAIT-003) is backed by
\* tokens it has, and an asset is listed as held exactly while the record is
\* positive: a dust position left behind would block the grace tiers for
\* ever, and a forgotten one would leave the asset in the vault.
PositionRecorded ==
  \A a \in Assets : /\ heldAmount[a] <= balance[a]
                    /\ (a \in Held) <=> (heldAmount[a] > 0)

\* What the vault is worth at the TWAPs of the pools its position is in.
BookValue ==
  cash + SumFunctionOnSet([a \in Held |-> TwapValue(Pool(a), heldAmount[a])],
                          Held)

\* KRAIT-001: no trade of the borrower's moves value out of the vault beyond
\* the entry impact or the exit tolerance and the rounding of two quotes, so
\* custody cannot be left through a pool the borrower set up.
TradeKeepsValue ==
  [][\A a \in Assets :
       /\ heldAmount'[a] # heldAmount[a] /\ ~isSettled'
       => LET fee   == IF a \in Held THEN swapFeeTierOf[a] ELSE approvedFee[a]
              twap  == market[a][fee].twap
              moved == Above(cash, cash') + Above(heldAmount[a], heldAmount'[a]) * twap
              bps   == AtLeast(config.twapToleranceBps, config.maxEntryImpactBps)
          IN  BPS * Above(BookValue, BookValue') <= moved * bps + 2 * BPS * twap
    ]_vars

-----------------------------------------------------------------------------
(***************************************************************************)
(* Settlement in cash.                                                     *)
(***************************************************************************)
SettledInCash == isSettled /\ ~settledInKind /\ depositPaid

LenderTarget == Terms.principal + outcome.fee

\* The pool pays for lost principal only (KRAIT-002): never interest, never an
\* early close, never an in-kind close, never a loan that was not funded.
InsuranceForPrincipalOnly ==
  isSettled /\ outcome.insuranceDraw > 0 =>
    /\ SettledInCash
    /\ now > Deadline
    /\ outcome.lenderPayout = outcome.totalReturned + outcome.insuranceDraw
    /\ outcome.lenderPayout <= Terms.principal

\* What a token refused to deliver stays in the vault for its recipient.
OwedIsBacked == \A t \in Tokens : balance[t] >= Total(owed[t])

\* Once settled a loan stays settled with the same outcome, and what each
\* party got or is owed never changes again: a deferred payout is delivered
\* once, in full, to the one it was recorded for.
SettlementIsFinal ==
  [][isSettled =>
       /\ isSettled' /\ outcome' = outcome /\ settledInKind' = settledInKind
       /\ \A t \in Tokens, p \in Parties :
            paid'[t][p] + owed'[t][p] = paid[t][p] + owed[t][p]]_vars

-----------------------------------------------------------------------------
(***************************************************************************)
(* Settlement in kind.                                                     *)
(***************************************************************************)
HandedTo(a, party) == paid[a][party] + owed[a][party]

\* The closing step, seen from the state before it: TWAPs are those of the
\* pools the position was in, amounts what the step hands over.
ClosesHere == ~isSettled /\ isSettled'

LenderKindValue ==
  SumFunctionOnSet([a \in Held |-> TwapValue(Pool(a), HandedTo(a, "lender")')],
                   Held)

\* The lender comes first in kind too: the borrower takes a unit of anything
\* only when the lender has their debt in cash and TWAP value, short of it by
\* no more than one unit of one asset held, or has been given an asset that
\* has no value to count.
InKindLenderFirst ==
  [][ClosesHere /\ settledInKind' =>
       LET borrowerTakes == \/ outcome'.borrowerPayout > 0
                            \/ \E a \in Assets : HandedTo(a, "borrower")' > 0
           lenderHasUnpriced == \E a \in Held : /\ ~Priced(a)
                                                /\ HandedTo(a, "lender")' > 0
           lenderGets == outcome'.lenderPayout + LenderKindValue
       IN  borrowerTakes =>
             \/ lenderHasUnpriced
             \/ \E a \in Held : lenderGets + Pool(a).twap >= LenderTarget'
    ]_vars

\* In kind is a last resort: it closes a loan only if some asset really had to
\* be handed over, so it is no way round insurance and fees (KRAIT-005).  And
\* it hands over no more of an asset than the vault bought (KRAIT-003) and, if
\* an issuer has clawed some back, no more than is left of it.
InKindHandsOver ==
  [][ClosesHere /\ settledInKind' =>
       LET handed(a) == HandedTo(a, "lender")' + HandedTo(a, "borrower")'
       IN  /\ \E a \in Assets : handed(a) > 0
           /\ \A a \in Assets : handed(a) <= AtMost(heldAmount[a], balance[a])
    ]_vars

-----------------------------------------------------------------------------
(***************************************************************************)
(* Outages.                                                                *)
(***************************************************************************)
PartyClose == ~settledInKind' /\ closedBy' \in {"lender", "borrower"}

GraceRan(extra) ==
  \A a \in Held :
    (now - Deadline) - downtime
      >= config.swapBackGracePeriod + AssetGrace[a] + extra

\* Nobody but the parties closes a loan that holds assets before the parties
\* have had the whole grace period of every asset held with the chain running
\* (up to the cap on the extension).  An in-kind close waits longer, by what
\* the cap leaves of the delay: an outage that begins too late to extend the
\* grace period runs on the delay's clock.
GraceNotSpentInOutage ==
  [][ClosesHere /\ Held # {} =>
       \/ downtime > config.maxGraceExtension
       \/ IF settledInKind'
          THEN GraceRan(Above(InKindDelay, config.maxGraceExtension))
          ELSE PartyClose \/ GraceRan(0)]_vars

\* After an outage the TWAP still shows the price from before it, so neither a
\* keeper nor an in-kind close may use it until the recovery period has run
\* since the chain came back.
StalePriceHeldOff ==
  [][ClosesHere /\ Held # {} /\ upSince > 0 =>
       \/ now >= upSince + config.recoveryPeriod
       \/ PartyClose]_vars

-----------------------------------------------------------------------------
(***************************************************************************)
(* Progress.                                                               *)
(***************************************************************************)

\* Every loan is closed in the end, whatever the market, an issuer or the
\* borrower does, as long as the lender keeps trying: no frozen asset, dead
\* pool or refused recipient locks the principal in (items 14 and M-1).
LoanCloses == <>isSettled

\* A payout a token refused is collected once the token relents for good.
DeferredIsCollected ==
  <>[](refused = {})
    => <>[](\A t \in Tokens, p \in Parties : owed[t][p] = 0)

=============================================================================
