# Verification of the Covenza contracts

TLA+ models of the lending protocol in `src/contracts` and of the scripts in
`src/scripts` that deploy, administer and watch it, the TLC runs that check them
on small instances, and proofs that TLAPS checks for every instance. Every
definition is translated from the source; `PROJECT.json` gives, for each
one, the lines it stands for.

## 1. Inventory

A lender puts up a principal, a borrower a smaller deposit, and both sit in a
`Vault` of their own. The borrower may trade the principal (never the deposit)
into listed assets through approved Uniswap pools and must trade back by the
deadline. At the close the lender is paid first, up to principal plus interest;
the deposit and the shared insurance pool absorb losses.

| Component | State | Operations | Talks to |
|---|---|---|---|
| `Vault.sol`, one per loan | terms, fees, deposit, recorded positions (`heldAmount`, `isHeld`, `swapFeeTierOf`, `heldAssets`), settled figures, deferred payouts (`owed`) | `initialize`, `payDeposit`, `creditDeposit`, `swap`, `swapBack`, `cancel`, `settle`, `settleInKind`, `claim` | registry (settings, tiers, pools, outages), insurance pool (premium, draw), Uniswap, tokens |
| `VaultFactory.sol` | mandates, lender nonces, vault lists, fee settings, registries | `publishMandate`, `cancelMandate`, `cancelAllMandates`, `fillMandate`, `deployVault`, `deployVaultWithTier`, setters, ownership | all the others |
| `AssetRegistry.sol` | listings, tier history and tier settings, pool fee tiers, settlement settings, outage log | listing and tier changes, setters behind the timelock, `heartbeat`, `settlementWindow`, deposit floor | read by vaults and the factory |
| `InsurancePool.sol` | reserve by asset, registered vaults, draw limits | `fund`, `draw`, `registerVault`, `adminWithdraw`, setters | vaults, factory |
| `Timelocked.sol`, `OperatorControlled.sol` | announcements; operator and nominee | queue, cancel, consume; nominate, withdraw, accept | inherited by registry, pool and KYC registry |
| `KYCRegistry.sol` | attesters, verifications, nonces, the ring of manual grants | verify by signature or by hand, revoke, attester changes | factory |
| `UniswapTwap.sol`, `SafeTransfer.sol` | none | quotes and observation checks; transfers | vaults, factory, pool |
| `VaultLens.sol` | none | views | off-chain readers |
| `scripts/heartbeat-bot.js` | failure count | beats, skips, retries, alerts | `AssetRegistry.heartbeat` |
| deployment and administration scripts | `deployed-addresses.json`, `pending-timelock.json` | deploy a stack, redeploy its factory, list assets, set tiers, execute what was announced | every contract, each other through the two files |
| hand-over scripts | the Safes on record | create Safes, nominate, accept, verify | operator and owner roles |
| loan scripts | the configuration one of them saves and restores | originate, trade and settle live test loans; settle stuck vaults | factory, vaults, registry |
| other scripts, mocks, tests | - | - | - |

What makes it hard:

* **Order of calls.** A loan meets trades, price moves, registry changes, other
  loans' draws, gifts, freezes and clawbacks in any order, and four kinds of
  close compete for it.
* **State read late.** The registry's tolerance, grace, bounty, pool and tiers may
  change under an open loan; some are frozen with it, some are read at the close.
* **Partial failure.** Inside one close a sale or a payment may fail, and the rest
  must go on without losing what failed.
* **Time.** Deadlines, graces and windows are measured on a chain that can stop;
  an outage is known only once somebody calls `heartbeat`.
* **Waiting.** Frozen assets, dead pools and refused recipients must not keep a
  loan open for ever.
* **Shared money.** One reserve serves every loan of an asset; one mandate serves
  every borrower who fills it.
* **Delayed powers.** The operator acts through announcements that mature, lapse,
  or are cancelled, while the role itself may be changing hands.
* **Replay.** An attestation of identity may be presented late, twice, or after
  its wallet was revoked or its provider delisted.
* **Interrupted work.** A script is a series of transactions and file writes; it
  may die between any two, and the next script trusts what it left behind.
* **A watchdog that can fail.** The bot that reports outages is itself subject to
  slow nodes, missing receipts, signals and kills.

What makes each part correct: the vault keeps the deposit apart, trades at fair
prices, pays in the waterfall's order, always closes and pays what it owes; the
registry's log stays ordered and gives lost time back exactly, and its two
time settings agree; the pool holds what it says, pays within its limits and
changes only with notice; a mandate never lends more than offered, not once
withdrawn, and not below its price; the KYC registry admits a wallet once per
attestation, rations grants by hand and lets no key in without notice; the bot
keeps the silence within a budget or says that it cannot; and the scripts leave
a record that fits the chain, whatever interrupts them.

## 2. Modules

    LoanMath ---------+--> Vault --> VaultProperties --> VaultRefinement --> MCVault
    OutageWindow --+--+                     |  (INSTANCE LoanPromise)  |
                   |                                VaultProof
                   +--> OutageLog --> MCOutageLog, OutageLogProof
                   +--> HeartbeatBot --> MCHeartbeatBot, HeartbeatBotProof
    Timelocked, OperatorControlled, LoanMath --> InsurancePool --> MCInsurancePool,
                                                              InsurancePoolProof
    LoanMath --> RiskModel --> Mandates --> MandateProperties --> MCMandates, MandateProof
    KYCRegistry --> MCKYCRegistry, KYCRegistryProof
    Deployment --> AdminScripts --> DeployScripts --> HandoverScripts
               --> LoanScripts --> Operations --> MCOperations, OperationsProof
    LoanMath --> ArithmeticProof (used by VaultProof, InsurancePoolProof, MandateProof,
                                  OutageLogProof and OperationsProof)

* **LoanMath**: fees, bounty, draw and the waterfall, as functions of numbers,
  with the source's integer division.
* **OutageWindow**: what an outage log gives back to a loan, defined by the
  *instants* an outage covers. It is the reference that `OutageLog` is compared
  with and the definition `Vault` uses.
* **OutageLog**: the registry's log with the binary search and the walk back as
  the code does them, `heartbeat`, `setOutageConfig` and `setSettlementConfig`.
  The setters are shown past their timelock.
* **Vault**: one loan. A transaction is one action. `settle` contains the
  heartbeat, the choice of who may close, the forced sales and the whole
  distribution; `settleInKind` the sales it tries, the price of what is left and
  the allocation; `distribute` and `allocateInKind` end in payments each of which is
  delivered or deferred. `heldAssets` is the set `Held`, with the order of a pass
  over the array left open. A Uniswap pool is a TWAP (loan units per asset unit,
  0 when it cannot answer) and the amount it can take near that price; a trade
  may return anything the state of the pool allows, and the vault's checks
  decide. The registry's powers, other loans' claims on the reserve, issuers,
  donors, the market and the stopped chain are actions of the surroundings. An
  asset's tier is what the walk over its history would give this loan.
* **LoanPromise**: the abstract specification. It knows neither market nor token
  nor keeper: a loan closes once, as repaid, handed over or given back; in that
  step the entitlement of every party in the loan's asset is decided, the lender
  before anyone else; it is then collected whole, at once or by a claim.
* **VaultRefinement**: the refinement mapping. A party's entitlement is what
  `Vault` has paid it together with what it still owes it; `KeepsPromise` is
  `LoanPromise`'s specification under that mapping.
* **Timelocked**, **OperatorControlled**: parts that `InsurancePool` composes with
  its own state, as the contract inherits them. `queueAction` and `cancelAction`
  stand for the pool's queue and cancel functions, the id carrying the call.
* **InsurancePool**: every function of the contract, per asset.
* **RiskModel**: the tier's deposit floor, with the Babylonian square root as a
  recursive function.
* **Mandates**: the book, its prices, fills, direct origination with every
  gate and payment, allowances and balances, the risk settings, eligibility.
  A vault here only remembers what origination put into it.

* **KYCRegistry**: attestations (their wallet, key, nonce and the two times in
  them), verification by signature and by hand with the ring of grant times,
  revocation, and providers behind their announcements. An attestation is signed
  for the wallet's nonce of that moment (`kyc-attestation.js` and the two mock
  services read it then) and may be presented by anyone at any later time.
* **HeartbeatBot**: the bot's loop with a time budget for everything it waits for,
  next to the registry's silence. Signals, kills and restarts come at any moment. Only
  the wait for a receipt has a limit in the bot; `CallTime` is what its HTTP client
  allows a call, and a heartbeat takes `SendCalls` of them before that wait begins.
* **Deployment** and the four script modules, composed by **Operations**: the
  contracts on the chain as far as scripts tell them apart, the two files, and
  one running script whose steps are its transactions and file writes.
  `Interrupt` is possible between any two, any call may throw (`CallThrows`), a
  transaction may be mined without its script seeing the receipt, and time passes
  within scripts as between them. `mishap` remembers what went wrong so far, so a
  property can say which failures it survives. **AdminScripts** has the timelock
  library, listing, tiers, pool approval and the execution of announcements;
  **DeployScripts** the full deployment and the redeployment of a factory;
  **HandoverScripts** the move of all four roles to Safes; **LoanScripts** the
  three live proofs on test loans and the sweep over stuck vaults.

A name with a suffix after `_`, such as `exitFloor_none`, is a mutant: the next
definition with a plausible slip. Each property of each passing run has one that
TLC finds it violated by.

## 3. Runs

| Run | Question | Bounds that matter |
|---|---|---|
| `vault_trading` | custody, position record and prices at every trade | one asset, two pools, two prices, two tiers, cash up to 14, one gift |
| `vault_cash` | who gets what in every cash close, and is it what `LoanPromise` allows | two registry settings, two reserves, a refusable lender, a two-tick term and six ticks, so minimum fee, accrued fee, bounty and its cap all occur |
| `vault_in_kind` | two assets closed in kind: priced, thin, dead, frozen, clawed back; who is paid first, with how much of each, and does `LoanPromise` still hold | short loan, five ticks, so both in-kind periods are entered |
| `vault_outage` | who may close when the chain stopped | outages of 3 ticks against a threshold of 2, a grace of 1 for the loan and 1 for the asset, recovery 2, extension up to 3, an in-kind delay of 9, fourteen ticks, so every close can come after an outage inside or after the grace |
| `vault_liveness` | every loan closes; every deferred payout is collected; a gift is not handed over with the rest | frozen asset, dying pools, refused lender, one gift of the asset |
| `outage_log` | log, search and setters | all settings in {0, 1, 3}, ten ticks: up to three outages |
| `insurance_pool` | reserves, limits, announcements, role | two assets, up to two announcements, delay 2, window 1, five ticks |
| `mandates` | capacity, withdrawal, prices, payments | one standing mandate of capacity 5 and loans of 2 or 3, two vaults, two tier settings, two skim rates; expiry inside the time bound |
| `kyc` | replay, rationing, delisting and notice | two wallets, two keys, two grants per three ticks, a cap of two ticks on attestations offered for three, delay 1, window 1 |
| `heartbeat_bot` | how long can the registry be silent, and who knows | the deployed figures in minutes: interval 5, skip within 4, retry 1, receipt 2, threshold 30, alarm after 3; six calls to send, a minute each |
| `operations` | do record and chain fit after any series of scripts | delays 0 and 1, a window of one tick, two stacks, three factories, one pair of Safes, two loans, four scripts and one more execution of the announced, three ticks: announcements mature and lapse between scripts and within them, and a pool is moved back |
| `redeploy_zero_delay` (violation) | does a redeployment go through | one stack without a delay, two factories, two scripts; finding below |

The amounts are chosen so that each rounding, limit and shortfall happens: a loan
of 10 with a deposit of 3 and 4 of interest separates lost deposit, lost
principal and unpaid interest. Bounds that close the models are `MaxTime`, `MaxCash`
(trading profit), `MaxGifts`, `MaxReserve`, `MaxPending` (announcements at once),
`MaxMandates`, `MaxVaults`, `MaxNonce`, `MaxIssued` (attestations), and the bounds of
`operations` on stacks, factories, Safes, loans and scripts started; `HeartbeatTimes` picks when strangers call
`heartbeat` (the closes call it at any time). Deadlock checking is off because
the models stop at `MaxTime`, and a closed loan has nothing left to do.

Properties, with the hazard each answers, are listed in `PROJECT.json` under
`hazards`; each is stated in words above its definition. Those most likely to be
argued about: `TradeKeepsValue` (no trade moves value out of custody beyond the
stated tolerances), `InsuranceForPrincipalOnly`, `GraceNotSpentInOutage` (the time
that runs against the parties is time the chain ran, up to the cap; an in-kind
close waits for what the cap leaves of its delay besides, because an outage that
begins too late to extend the grace runs on the delay's clock), `InKindLenderFirst`
(judged at the pools as they are before the close), `StalePriceHeldOff`, `WalkAgrees` (search and walk give exactly the instants
lost), `NoSurprises` (each delayed power uses up exactly one public, mature,
unexpired announcement of that call), `CapacityBoundsAllFills`, `PriceSurface`,
`DelistedProviderFades`, `SilenceWithinBudget` and `PoolMovesForward` (a pool goes back
to an older factory in one way only, described below).

**Fairness** is assumed only in `vault_liveness`: time passes; somebody cancels an
unfunded loan (anyone may); the lender, who is owed the money, keeps trying
`settle` and `settleInKind`; whoever is owed a deferred payout keeps claiming. All
are weak fairness: from the opening of the in-kind window one of the two closes is
always possible to the lender, whichever way prices and issuers move, and a claim
is once its token stops refusing. Nothing is assumed of borrowers, keepers, issuers, the operator or
prices. `DeferredIsCollected` supposes in its own statement that the tokens'
refusals end.

### Finding

* `redeploy_zero_delay`: on a stack without a timelock delay `redeploy-factory-v21.js`
  repoints the insurance pool directly (line 189). `setVaultFactory` consumes an
  announcement on every pool that already has a factory, whatever the delay, so
  the call reverts with "Action was not queued" after the new factory has been
  deployed and before its address is persisted. Lines 131-136 of the script check the
  pool's operator so that `setVaultFactory` does not revert; this is another way.

### Other differences between code and text

Met while modelling; the models have the behaviour of the code. The first four
concern claims of the scripts that several properties stop short of.

* `execute-timelocked.js` is "safe to run repeatedly" by its own words (line 3). It
  asks each call whether it can be executed when it comes to it (line 48), and
  waits for receipts in between. Two repointings announced shortly after one another
  may so be executed the newer first; the older is still on record, the next
  run executes it, and the pool takes vaults from the older factory again.
  `PoolMovesForward` says that this is the only way, and how close the two
  announcements must be; `operations` reaches it.
* `prove-keeper-bounty.js` restores the live settings "including on
  failure" (line 18). The transaction that shortens them is sent and awaited ahead of the
  `try` (lines 90-92), and the restore itself may fail (lines 83-87): either leaves the
  test values. `ConfigRestored` says that nothing else does, but for a kill.
* `settle-stuck-vaults.js` "settles every expired, unsettled vault"
  (`scripts/README.md:110`). It passes those that hold cash only (lines 74, 95-99) with
  the remark that they are in their grace, which such vaults do not have. A proof
  script that fails after it lent, and before it bought, leaves one.
* The alarm of `heartbeat-bot.js` is meant to come at "half the outage threshold"
  (line 45). The bot limits only the wait for a receipt. With a node that
  takes for each call the minutes its HTTP client allows, one attempt outlasts the
  threshold. What holds for any call time is `SilenceIsAnnounced`: no silence
  beyond `LongestUntold`, the sum of the bot's own waits, goes untold.
* Re-tagging an asset safer "cannot loosen a loan that is already open"
  (`AssetRegistry.sol:397`). The walk over the history ends at the first entry, going
  back, with `at <= since`; for a loan opened earlier in the second of a re-tag that is
  the re-tag (`Vault.setTier` has it so).

* `Vault.sol:938` gives an asset without a price to the lender "if anything is still
  owed". `Vault.sol:1046` ends the debt with the first such asset, so a second one
  goes to the borrower.
* `settlementWindow` documents lost time "within the (extended) window". An outage
  that begins after the extended window but before `graceEnd + maxGraceExtension`
  still counts (`AssetRegistry.sol:761`) and reopens a period that had ended.
* `quoteMandateFillable` documents "how much of this mandate could actually be drawn
  right now". It may name less than the mandate's minimum (`VaultFactory.sol:799`),
  which nobody can draw.
* `settle-stuck-vaults.js` uses the registry's grace without the asset's own extension (the
  settle is then refused and the sweep goes on) and does not see a previous
  factory's vaults. It reads each vault's asset and the keeper's balance ahead of its
  `try` (lines 102-108): one such read that fails ends the sweep with the rest untried.
* `verify-two-step.js:97` calls the KYC registry's `verify` with one argument; it takes
  three. `verify-handover.js` looks for an `ExecutionFailure` event that its ABI does not
  declare, so it would not see one.
* `prove-keeper-bounty.js` restores what it found when it started. Run again after
  a run that left the test values, it finds those and makes them permanent
  (`ConfigRestored` therefore looks back at all runs, not only the last).
* A loan that `prove-insurance-draw.js` is told to resume but whose deposit was
  never paid cannot be settled by it.
* `manage-attesters.js:65` takes an announcement that lapsed for one still waiting.
* The KYC registry: a grant by hand announced before a revocation can still be
  executed after it; and revoking a wallet that is not verified at that moment
  does not reach attestations already signed for it, since nothing but a
  verified wallet can be revoked.
* `heartbeat-bot.js` says the alarm comes after about 15 minutes; with a node that answers
  at once and retries each minute three failures take less. "An alert that cannot
  be delivered must never stop the heartbeats" holds for one that fails, not for one that
  hangs: the loop awaits it (the model has it end within `CallTime`).

## 4. Proofs

TLAPS checks these for every value of the constants that meets the modules'
named assumptions (TLC evaluates those assumptions in each run), and of the
hypothesis a theorem states, where it has one.

* **ArithmeticProof**: bounds of every formula of `LoanMath`, with integer division worked
  out from the definition of the quotient; `WaterfallConserves`; sums over sets that
  grow, shrink or change at one place. Induction over a finite set or an interval is
  had from the smallest counterexample (`SetInduction`, `IntervalInduction`), so
  recursive functions and sums can be proved about.
* **VaultProof**, first part: `TypeOK`, `DepositSegregated`, `OwedIsBacked`,
  `SettlementIsFinal`, `InsuranceForPrincipalOnly`.
  The invariant is `IInv == TypeOK /\ DepositSegregated /\ OwedIsBacked /\ LoanBasics`.
  None is inductive alone: that a close never pays out what it does not have
  needs the types, the bound on every lender share and on the draw, and the
  fact that nothing is owed before the close, which `LoanBasics` adds with "the
  deposit is whole or absent" and "the loan has begun". There is a lemma for each
  action. The insurance property needs, beside `IInv`, that a loan closed in kind was not
  closed before (`InsuranceInv`).
* **VaultProof**, second part, each with a strengthening of its own beside `IInv`:
  * `PositionsFollowTheRecord`: an asset is listed exactly while its record is positive
    (`PositionInv`). `PositionIsBacked` adds that the tokens are there, which an
    issuer's clawback breaks and nothing else: hypothesis `Clawable = {}`.
  * `TradesKeepValue`: the value of one position changes, the sum over the others does
    not; entry and exit lose no more than the tolerance of the amount moved and the
    rounding of two quotes. Hypothesis `EntriesAreChecked`: the operator can switch the
    entry check off (behind the timelock), and then there is no such bound.
  * `NoCloseOnStalePrice`: the end of the last stop is at the end of the log, or the
    silence since before it is long enough for the next heartbeat to record it
    (`StopInv`); every settlement makes that heartbeat first.
  * `GraceIsRunInFull`: `downtime` is the size of a set of instants, each inside a
    recorded outage or in a silence still to be recorded (`GraceInv`), so the extension
    that the log grants is at least `downtime` until the cap. Both theorems suppose
    `StopsAreOutages`: detection is on and stops are longer than its threshold. A
    shorter stop is never recorded and nothing is given back for it.
  * `InKindIsLastResort`: a close in kind hands something over, and of no asset more than the
    record and the balance both have; what each asset gives lender and borrower adds
    up to what the close did not sell.
  * `LenderIsFirstInKind`: one asset handed over pays its value,
    the whole rest but less than a unit, or, unpriced, everything (`HandOverOne`);
    by induction over the order of hand-over what the lender has been given and the
    debt left always make up the debt, until an asset covers it (`HandOverOrder`,
    `PaidInOrder`), for every order the code's pass over the array may take.
* **VaultProof**, third part: `Vault` implements `LoanPromise`, as `Spec => KeepsPromise`.
  Each action of `Vault` maps to one step of the promise or to a stutter: `payDeposit`
  and `creditDeposit` to `Fund`, a settlement to `Repay`, the in-kind close to `HandOver`,
  `cancel` to `GiveBack`, a claim to `Collect`, time to `Accrue`, and trades, gifts,
  clawbacks and everything of the surroundings to a stutter. The mapping needs two
  facts beyond `IInv`: while a loan is open nothing has been paid or handed over,
  and nothing is closed in kind; `PInv` adds them. That interest never falls and
  is whole at the deadline comes from bounds on the accrued fee as a function of time. It
  assumes the in-kind delay is positive, as the seven days of the code are.
* **OutageLogProof**: `LogOrdered` and `RecoveryCoversTwap`; the invariant is
  their conjunction with the types. `SearchAndWalkAreExact`: on an ordered log the
  outages that end by the deadline come first; the binary search halves towards that split
  (`SearchFinds`), and the walk from it adds up exactly the instants that count, outage by
  outage (`WalkCounts`). `HeartbeatOnlyExtends`: a log that grows covers more instants.
* **InsurancePoolProof**: `TypeOK`, `ReserveBacked`, `OperatorNotLost`, and the action
  properties `NeverDrained` and `NoSurprises`. `QueueIsPublic` strengthens the
  invariant: what is queued was announced then, so what matures was visible for
  the whole delay.
* **KYCRegistryProof**: `SpentStaysSpent`, `DelistedProviderFades` and, as an action
  property, `NoWayAroundTheTimelock`. The invariant says that every spent or
  revoked attestation carries a nonce below its wallet's, that no verification
  outlives its time by more than the cap, that the last key of a provider is
  dated when it leaves, and that what is queued was announced then.
  `ManualGrantsRationed`: slot by slot, the ring holds the times of the latest grants in
  the history, wherever its index stands (`RingHoldsLastGrants`), and no grant is
  later than its wallet's last.
* **MandateProof**: `RootIsExact`, the Babylonian iteration ends in the integer root, and
  from it `FloorFollowsRootOfTerm`, with the rounding of two divisions; `PriceSurface`, from
  bounds on the discount as a function of deposit and term; and for the book the types,
  `CapacityBoundsAllFills`, `PoolIsPaid` and, as an action property,
  `WithdrawnStaysWithdrawn`. The invariant: book, settings and money are typed, every
  withdrawn mandate carries the mark of it (cancelled, or an older nonce than its
  lender's), counts stay within capacity and are the sum of the principals of its
  loans (`Counted`), and the reserve and all balances add up (`Conserved`).
* **HeartbeatBotProof**: `SilenceWithinBudget`, for all intervals and timeouts. The silence alone
  is not inductive: `OnTime` bounds it together with what the present wait and the rest
  of the cycle may still take. `SilenceIsAnnounced` needs no relation between the intervals,
  the call time and the threshold: it bounds the untold silence by `LongestUntold`, the budget
  of the last attempt before the alert. `WordGiven` says that the bot leaves its loop, or
  goes on failing, only after a word.

* **OperationsProof**: `FactoryFitsStack`, `CompleteMeansMoved`, `RecordedFactoryIsWired`,
  `ConfigRestored` and, as action properties, `PoolMovesForward` and `SafesKept`, for any
  number of stacks, factories, Safes, announcements and runs.
  The invariant `Inv` has two halves. `World` is about chain and files: what is on record
  is deployed and fits together, a recorded or announced repointing is to a factory
  that was built, of a pool that has one already; a later factory is announced later; and
  an announcement older than that of the pool's factory has lapsed, or was made so shortly
  before it that the run which executed the newer one had been going for longer
  (`OlderOnesBeaten`). The
  flows say, for the scripts that matter, what each has done by each of its steps:
  a deployment works on a stack nobody announced anything for; a redeployment announces
  its factory after all others; `execute-timelocked.js` has ahead of it, in the order of
  the factories, every record but those it has passed, which have lapsed or
  matured after it began, if at all (`PassedOver`); the roles gone through are held by
  the recorded Safes; the plan of the keeper's proof ends in its only restore. Most steps
  touch none of this (`Frame`, `Quiet`); `StepsAreKnown` splits `Next` into those and the
  rest. How a pool may move back is in `OlderOnesStayBehind`: the records are in the
  order of their factories (`WireSeq`), announcements mature in that order since a pool's delay is
  fixed, so an older one that the run has passed and that is still in force
  matured while the run was going. This rests on the records being rewritten in
  order; `clearPending` and
  `writePending` are proved to keep that (`Cleared`, `Written`). `RecordedFactoryIsWired`
  is not inductive: `RecordedFlow` adds that the recorded factory is the newest on record
  and that its record is still announced or already executed.

Only model-checked: the two liveness properties, `LoanCloses` and `DeferredIsCollected`
(fairness and ENABLED are out of the prover's reach), and `NoLoanLeftBehind`,
whose proof is in the plan. For the vault's two theorems
with `StopsAreOutages`, `vault_outage` is the run whose constants meet it; the entry
check is on and nothing can be clawed back in `vault_trading`. `LogOrdered` is only proved: a log out
of order already makes the walk of `WalkAgrees` count wrong.


## 5. Not modelled, and simplifications

* Amounts and times are small integers; Solidity 0.8 reverts on overflow, so no
  wrap-around exists to model. Rounding is the source's.
* `RootScale` is 10 instead of 1e18: the root is the same algorithm, coarser.
* A missing treasury or referrer is a zero rate. An asset without an approved pool
  is left out of a vault's choices. `AssetGrace` is fixed during a loan.
* Time, market and registry stop at a loan's close, except the refusals that
  claims depend on. Clawbacks happen only while the loan is open.
* The reserve moves under other loans by any amount the pool's rules allow; their
  vaults are not modelled along with it.
* Gas (the 63/64 checks), return-data decoding, events and views are left out.
* In `Mandates` there is one loan asset, registries and pool are wired for good,
  `deployVault` and `deployVaultWithTier` are one action, eligibility is a set of
  wallet and role pairs, and `setRisk` stands for the two setters of the risk
  settings. `Lenders` and `Borrowers` limit who acts in a run.
* `KYCRegistry` has one operator for good; names, URLs and case references are left
  out; an attestation is signed for the nonce that holds at that moment.
* `HeartbeatBot`: every HTTP call answers or throws within `CallTime`, one for all; the read
  of the last heartbeat sees the registry as it is when it answers; `--once` and
  `--test-alert` are left out. A notice counts as given when the bot sends it.
* `Operations`: scripts run one at a time; each lists one asset; the manual grants of a
  deployment are one call; seeding, `DRY_RUN`, `ALLOW_EOA` and `LIST_ONLY` are left out. In `LoanScripts` a term
  ends with the tick it begins in, the grace is a tick, and amounts and prices are not
  modelled.
* The array `heldAssets` with its swap-and-pop passes is the set `Held`; properties
  hold for every order of a pass.
* The exit simulated at entry (`_enforceExitable`) is evaluated in the same step
  as the trade; liquidity that leaves afterwards is left to the in-kind close,
  as the code's comment says.
* Not modelled: listing and the tier history with the walk over it, the bounds each
  setter checks, the factory's treasury, referrer and claim setters, `VaultLens`, the
  fixtures for local and testnet tokens and pools, key generators, diagnostics,
  and the Monte Carlo estimate of the reserve, which has no state to check.

## 6. Plan

1. Done: LoanMath, OutageWindow, Vault with proofs; OutageLog with proofs;
   InsurancePool with Timelocked and OperatorControlled and proofs; Mandates with proofs;
   LoanPromise with the refinement checked and proved; KYCRegistry with proofs;
   HeartbeatBot with proofs; Operations with proofs.
2. Done: every safety property of the passing runs is a theorem, but for `NoLoanLeftBehind`,
   which needs the plan of every lending script in the invariant.
3. Listing, re-tagging and delisting past the timelock, with the tier history and the walk
   over it; pool fee tiers.
4. VaultFactory administration: the registries' timelock, ownership, required claims.

## 7. Running

    tlc -workers 2 -config vault_cash.cfg MCVault.tla
    tlc -workers 2 -config operations.cfg MCOperations.tla
    tlapm VaultProof.tla
