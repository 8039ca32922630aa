---------------------------- MODULE KYCRegistry -----------------------------
(***************************************************************************)
(* contracts/KYCRegistry.sol with what signs for it and administers it:    *)
(* lib/kyc-attestation.js, as the verification server and mock-verify.js   *)
(* use it, and manage-attesters.js.                                        *)
(*                                                                         *)
(* A provider's attestation is handed to the borrower, who may present it  *)
(* late, twice or never; so an attestation once signed can be presented at *)
(* any step.  A signature names the one key that made it.  Names and URLs  *)
(* of providers and case references are left out.                          *)
(*                                                                         *)
(* A name with a suffix after "_" is a mutant of the definition after it.  *)
(***************************************************************************)
EXTENDS Timelocked, Integers, Sequences, FiniteSets

CONSTANTS
  Wallets, Keys,
  Claims,               \* IdentityClaims bits
  ClaimSets,            \* the sets of them that are attested
  InitialKey,           \* _verifierKey
  MaxAttestationValidity, \* MAX_ATTESTATION_VALIDITY
  ManualValidity, ManualCooldown, ManualRateLimit, ManualRateWindow,
  ValidFor, SubmitFor,  \* opts.validForSecs and opts.deadlineSecs in use
  MaxIssued,            \* bound on the attestations signed
  MaxPending,           \* bound on the announcements pending at a time
  MaxTime               \* bound on time

ASSUME KYCAssumption ==
  /\ InitialKey \in Keys
  /\ Claims \notin Keys \cup Wallets
  /\ ClaimSets \subseteq SUBSET Claims
  /\ MaxAttestationValidity \in Nat /\ ManualValidity \in Nat
  /\ ManualCooldown \in Nat /\ ManualRateWindow \in Nat
  /\ ManualRateLimit \in Nat \ {0}
  /\ ValidFor \subseteq Nat /\ SubmitFor \subseteq Nat
  /\ MaxIssued \in Nat /\ MaxPending \in Nat /\ MaxTime \in Nat

NoKey == <<"address(0)">>
ASSUME NoKeyAssumption == NoKey \notin Keys

VARIABLES
  recognised,        \* the keys recognised as attesters
  isVerified,        \* the wallets admitted and not revoked
  verification,      \* each wallet's record
  nonces,
  lastManualGrantAt,
  manualGrantTimes,  \* ring of the last ManualRateLimit grants
  manualGrantIndex,
  issued,            \* attestations providers have signed
  dead,              \* history: those accepted, or revoked with their wallet
  delistedAt,        \* history: when each key was last delisted
  grants             \* history: the manual grants, in order

walletVars  == <<isVerified, verification, nonces>>
grantVars   == <<lastManualGrantAt, manualGrantTimes, manualGrantIndex, grants>>
attesterVars == <<recognised, delistedAt>>
signedVars  == <<issued, dead>>
vars == <<now, lockVars, walletVars, grantVars, attesterVars, signedVars>>

Ring == 0 .. ManualRateLimit - 1

Attestation == [key: Keys, wallet: Wallets, claims: ClaimSets,
                validUntil: Nat, deadline: Nat, nonce: Nat]

\* Provider keys, or the zero address of a manual grant.
Verification == [attester: Keys \cup {NoKey}, claims: SUBSET Claims,
                 validUntil: Nat]
manual(w) == verification[w].attester = NoKey

\* The calls that are announced before they are made.
_attesterId(key)   == <<"addAttester", key>>
_rotateId(old, new) == <<"rotateAttester", old, new>>
_verifyId(w, claims) == <<"verify", w, claims>>

Ids == {_attesterId(k) : k \in Keys}
         \cup {_rotateId(old, new) : old \in Keys, new \in Keys}
         \cup {_verifyId(w, c) : w \in Wallets, c \in ClaimSets}

Init ==
  /\ now = 1
  /\ queuedAt = [id \in Ids |-> 0] /\ announced = queuedAt
  /\ recognised = {InitialKey}
  /\ isVerified = {}
  /\ verification = [w \in Wallets |->
                       [attester |-> NoKey, claims |-> {}, validUntil |-> 0]]
  /\ nonces = [w \in Wallets |-> 0] /\ lastManualGrantAt = nonces
  /\ manualGrantTimes = [i \in Ring |-> 0] /\ manualGrantIndex = 0
  /\ issued = {} /\ dead = {}
  /\ delistedAt = [k \in Keys |-> 0]
  /\ grants = <<>>

isEligible(w, required) ==
  /\ w \in isVerified
  /\ now <= verification[w].validUntil
  /\ required \subseteq verification[w].claims

_record(w, key, claims, validUntil) ==
  /\ verification' = [verification EXCEPT ![w] =
       [attester |-> key, claims |-> claims, validUntil |-> validUntil]]
  /\ isVerified' = isVerified \cup {w}

-----------------------------------------------------------------------------
(***************************************************************************)
(* Attestations.                                                           *)
(***************************************************************************)

\* buildAttestation: for the wallet's current nonce.  Whoever holds a key may
\* sign with it, before it is recognised and after it is delisted.
buildAttestation(key, w, claims, validFor, submitFor) ==
  /\ Cardinality(issued) < MaxIssued
  /\ issued' = issued \cup {[key |-> key, wallet |-> w, claims |-> claims,
                             validUntil |-> now + validFor,
                             deadline |-> now + submitFor,
                             nonce |-> nonces[w]]}
  /\ UNCHANGED <<now, lockVars, walletVars, grantVars, attesterVars, dead>>

withinCap_unlimited(validUntil) == validUntil > now
withinCap(validUntil) ==
  validUntil > now /\ validUntil <= now + MaxAttestationValidity

\* What verifyWithSignature requires: the digest is that of the wallet's
\* present nonce, so a signature over another one recovers to no attester.
Acceptable(a) ==
  /\ now <= a.deadline
  /\ withinCap(a.validUntil)
  /\ a.claims # {}
  /\ a.nonce = nonces[a.wallet]
  /\ a.key \in recognised

verifyWithSignature(a) ==
  /\ Acceptable(a)
  /\ nonces' = [nonces EXCEPT ![a.wallet] = @ + 1]
  /\ _record(a.wallet, a.key, a.claims, a.validUntil)
  /\ dead' = dead \cup {a}
  /\ UNCHANGED <<now, lockVars, grantVars, attesterVars, issued>>

\* Every attestation of the wallet signed so far is to be worth nothing.
nonceAfterRevoke_kept(w) == nonces
nonceAfterRevoke(w) == [nonces EXCEPT ![w] = @ + 1]

revoke(w) ==
  /\ w \in isVerified
  /\ isVerified' = isVerified \ {w}
  /\ nonces' = nonceAfterRevoke(w)
  /\ dead' = dead \cup {a \in issued : a.wallet = w}
  /\ UNCHANGED <<now, lockVars, verification, grantVars, attesterVars, issued>>

-----------------------------------------------------------------------------
(***************************************************************************)
(* Manual grants.                                                          *)
(***************************************************************************)
rateAllows_tickEarly ==
  LET oldest == manualGrantTimes[manualGrantIndex]
  IN  oldest = 0 \/ now + 1 >= oldest + ManualRateWindow
rateAllows ==
  LET oldest == manualGrantTimes[manualGrantIndex]
  IN  oldest = 0 \/ now >= oldest + ManualRateWindow

verify(w, claims) ==
  /\ claims # {}
  /\ lastManualGrantAt[w] = 0 \/ now >= lastManualGrantAt[w] + ManualCooldown
  /\ rateAllows
  /\ _consumeIfDelayed(_verifyId(w, claims))
  /\ manualGrantTimes' = [manualGrantTimes EXCEPT ![manualGrantIndex] = now]
  /\ manualGrantIndex' = (manualGrantIndex + 1) % ManualRateLimit
  /\ lastManualGrantAt' = [lastManualGrantAt EXCEPT ![w] = now]
  /\ _record(w, NoKey, claims, now + ManualValidity)
  /\ grants' = Append(grants, [wallet |-> w, at |-> now])
  /\ UNCHANGED <<now, nonces, attesterVars, signedVars>>

-----------------------------------------------------------------------------
(***************************************************************************)
(* Attesters and the timelock.                                             *)
(***************************************************************************)

\* queueAction takes any id and stands for queueAddAttester and
\* queueRotateAttester too; cancelAction likewise.
queueAction(id) ==
  /\ Cardinality({other \in Ids \ {id} : queuedAt[other] # 0}) < MaxPending
  /\ _queue(id)
  /\ UNCHANGED <<now, walletVars, grantVars, attesterVars, signedVars>>

cancelAction(id) ==
  /\ _cancel(id)
  /\ UNCHANGED <<now, walletVars, grantVars, attesterVars, signedVars>>

_addAttester(key, others) ==
  /\ key \notin others
  /\ recognised' = others \cup {key}

addAttester(key) ==
  /\ _consume(_attesterId(key))
  /\ _addAttester(key, recognised)
  /\ UNCHANGED <<now, walletVars, grantVars, delistedAt, signedVars>>

removeAttester(key) ==
  /\ key \in recognised
  /\ recognised' = recognised \ {key}
  /\ delistedAt' = [delistedAt EXCEPT ![key] = now]
  /\ UNCHANGED <<now, lockVars, walletVars, grantVars, signedVars>>

\* Rotating recognises a key as adding does, and waits as long.
rotation_instant(old, new) == UNCHANGED lockVars
rotation(old, new) == _consume(_rotateId(old, new))

rotateAttester(old, new) ==
  /\ old \in recognised
  /\ rotation(old, new)
  /\ _addAttester(new, recognised \ {old})
  /\ delistedAt' = [delistedAt EXCEPT ![old] = now]
  /\ UNCHANGED <<now, walletVars, grantVars, signedVars>>

\* manage-attesters.js announces what was never announced, makes the call once
\* it is due, and otherwise reports the announcement it found: also when that
\* has lapsed, so that it never announces twice.
announceOrMake(id, make) ==
  IF queuedAt[id] = 0 THEN queueAction(id) ELSE isExecutable(id) /\ make

manageAttesters ==
  \/ \E k \in Keys : announceOrMake(_attesterId(k), addAttester(k))
  \/ \E k \in Keys : removeAttester(k)
  \/ \E old, new \in Keys : announceOrMake(_rotateId(old, new), rotateAttester(old, new))

-----------------------------------------------------------------------------
Tick ==
  /\ now < MaxTime
  /\ now' = now + 1
  /\ UNCHANGED <<lockVars, walletVars, grantVars, attesterVars, signedVars>>

Next ==
  \/ \E k \in Keys, w \in Wallets, c \in ClaimSets, v \in ValidFor, d \in SubmitFor :
       buildAttestation(k, w, c, v, d)
  \/ \E a \in issued : verifyWithSignature(a)
  \/ \E w \in Wallets : revoke(w)
  \/ \E w \in Wallets, c \in ClaimSets : verify(w, c)
  \/ \E id \in Ids : queueAction(id) \/ cancelAction(id)
  \/ manageAttesters
  \/ Tick

Spec == Init /\ [][Next]_vars

-----------------------------------------------------------------------------
TypeOK ==
  /\ now \in Nat \ {0}
  /\ queuedAt \in [Ids -> Nat] /\ announced \in [Ids -> Nat]
  /\ recognised \subseteq Keys
  /\ isVerified \subseteq Wallets
  /\ verification \in [Wallets -> Verification]
  /\ nonces \in [Wallets -> Nat]
  /\ lastManualGrantAt \in [Wallets -> Nat]
  /\ manualGrantTimes \in [Ring -> Nat] /\ manualGrantIndex \in Ring
  /\ issued \subseteq Attestation /\ dead \subseteq issued
  /\ delistedAt \in [Keys -> Nat]
  /\ grants \in Seq([wallet: Wallets, at: Nat])

\* KYCRegistry.sol:225 and the nonce at 179: an attestation that was accepted,
\* or signed before its wallet was revoked, is never accepted again, however
\* often and in whatever order attestations are presented, whatever keys are
\* recognised and whatever the operator grants in between.
SpentStaysSpent == \A a \in dead : ~Acceptable(a)

\* Safeguards 3 and 6 of verify(): no more than MANUAL_RATE_LIMIT grants fall
\* into any MANUAL_RATE_WINDOW, wherever it starts, and no wallet has two
\* within a cool-down, whatever is announced, cancelled or revoked.
ManualGrantsRationed ==
  \A i, j \in DOMAIN grants : i < j =>
    /\ j - i >= ManualRateLimit
         => grants[j].at >= grants[i].at + ManualRateWindow
    /\ grants[i].wallet = grants[j].wallet
         => grants[j].at >= grants[i].at + ManualCooldown

\* removeAttester: the wallets a delisted provider admitted, also one that was
\* rotated away, are not eligible on its word for longer than the cap.
DelistedProviderFades ==
  \A w \in Wallets :
    isEligible(w, {}) /\ ~manual(w) /\ verification[w].attester \notin recognised
      => now <= delistedAt[verification[w].attester] + MaxAttestationValidity

\* A watcher of the events has had the full delay.
Noticed(id) ==
  /\ announced[id] # 0
  /\ now >= announced[id] + timelockDelay
  /\ now <= announced[id] + timelockDelay + ExecutionWindow

\* Header, point 4: a key comes to be recognised only by using up an
\* announcement of adding it or of rotating a recognised provider to it.
NoWayAroundTheTimelock ==
  [][\A k \in recognised' \ recognised :
       \E id \in {_attesterId(k)} \cup {_rotateId(old, k) : old \in recognised} :
         Noticed(id) /\ announced'[id] = 0]_vars

=============================================================================
