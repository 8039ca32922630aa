-------------------------- MODULE KYCRegistryProof --------------------------
(***************************************************************************)
(* Proofs about KYCRegistry.  The inductive invariant adds to the types:   *)
(* an attestation never carries a nonce its wallet has not reached, and a  *)
(* dead one carries an earlier nonce; a record's validity ends at most the *)
(* cap after its provider was last recognised; and the queue is what a     *)
(* watcher of the events believes it is.  A second invariant, for the      *)
(* grants by hand, ties the ring of grant times to their history.          *)
(***************************************************************************)
EXTENDS KYCRegistry, SequenceTheorems, TLAPS

QueueIsPublic == announced = queuedAt

NoncesReached ==
  /\ \A a \in issued : a.nonce <= nonces[a.wallet]
  /\ \A a \in dead : a.nonce < nonces[a.wallet]

\* When a key was recognised for the last time, so far.
LastRecognised(k) == IF k \in recognised THEN now ELSE delistedAt[k]

ValidityCapped ==
  /\ \A k \in Keys : delistedAt[k] <= now
  /\ \A w \in Wallets :
       verification[w].attester \in Keys =>
         verification[w].validUntil
           <= LastRecognised(verification[w].attester) + MaxAttestationValidity

IInv == TypeOK /\ QueueIsPublic /\ NoncesReached /\ ValidityCapped

-----------------------------------------------------------------------------
LEMMA InitIInv == Init => IInv
<1> SUFFICES ASSUME Init PROVE IInv
  OBVIOUS
<1>1. 0 \in Ring /\ grants = <<>>
  BY KYCAssumption DEF Init, Ring
<1>2. <<>> \in Seq([wallet: Wallets, at: Nat])
  OBVIOUS
<1>3. verification \in [Wallets -> Verification]
  BY DEF Init, Verification
<1>4. /\ queuedAt \in [Ids -> Nat] /\ announced \in [Ids -> Nat]
      /\ nonces \in [Wallets -> Nat] /\ lastManualGrantAt \in [Wallets -> Nat]
      /\ manualGrantTimes \in [Ring -> Nat] /\ delistedAt \in [Keys -> Nat]
  BY DEF Init
<1>5. /\ now \in Nat \ {0} /\ recognised \subseteq Keys /\ isVerified \subseteq Wallets
      /\ manualGrantIndex \in Ring /\ issued \subseteq Attestation
      /\ dead \subseteq issued
  BY <1>1, KYCAssumption DEF Init
<1>6. grants \in Seq([wallet: Wallets, at: Nat])
  BY <1>1, <1>2
<1>7. TypeOK
  BY <1>3, <1>4, <1>5, <1>6 DEF TypeOK
<1>8. \A w \in Wallets : verification[w].attester \notin Keys
  BY NoKeyAssumption DEF Init
<1> QED
  BY <1>7, <1>8 DEF Init, IInv, QueueIsPublic, NoncesReached, ValidityCapped

\* What the three kinds of announced calls have as ids.
LEMMA IdsOfCalls ==
  /\ \A k \in Keys : _attesterId(k) \in Ids
  /\ \A old, new \in Keys : _rotateId(old, new) \in Ids
  /\ \A w \in Wallets, c \in ClaimSets : _verifyId(w, c) \in Ids
BY DEF Ids

\* A step on the queue keeps it, and the watcher's copy, well typed and equal.
LEMMA QueueStep ==
  ASSUME IInv, NEW id \in Ids,
         _queue(id) \/ _cancel(id) \/ _consume(id) \/ _consumeIfDelayed(id)
  PROVE  /\ queuedAt' \in [Ids -> Nat] /\ announced' \in [Ids -> Nat]
         /\ QueueIsPublic'
<1>1. queuedAt \in [Ids -> Nat] /\ announced = queuedAt /\ now \in Nat
  BY DEF IInv, TypeOK, QueueIsPublic
<1>2. \/ UNCHANGED <<queuedAt, announced>>
      \/ \E t \in {0, now} : /\ queuedAt' = [queuedAt EXCEPT ![id] = t]
                           /\ announced' = [announced EXCEPT ![id] = t]
  BY DEF _queue, _cancel, _consume, _consumeIfDelayed, lockVars, ActionQueued,
         ActionCancelled, ActionExecuted
<1> QED
  BY <1>1, <1>2 DEF QueueIsPublic

\* manage-attesters.js makes none but the contract's own calls.
LEMMA Steps ==
  ASSUME [Next]_vars
  PROVE  \/ \E k \in Keys, w \in Wallets, c \in ClaimSets, v \in ValidFor,
               d \in SubmitFor : buildAttestation(k, w, c, v, d)
         \/ \E a \in issued : verifyWithSignature(a)
         \/ \E w \in Wallets : revoke(w)
         \/ \E w \in Wallets, c \in ClaimSets : verify(w, c)
         \/ \E id \in Ids : queueAction(id) \/ cancelAction(id)
         \/ \E k \in Keys : addAttester(k)
         \/ \E k \in Keys : removeAttester(k)
         \/ \E old, new \in Keys : rotateAttester(old, new)
         \/ Tick
         \/ UNCHANGED vars
BY IdsOfCalls DEF Next, manageAttesters, announceOrMake

-----------------------------------------------------------------------------
\* Signing: the wallet's own nonce, which is where it is.
LEMMA SigningKeepsIInv ==
  ASSUME IInv, NEW k \in Keys, NEW w \in Wallets, NEW c \in ClaimSets,
         NEW v \in ValidFor, NEW d \in SubmitFor, buildAttestation(k, w, c, v, d)
  PROVE  IInv'
<1> DEFINE signed == [key |-> k, wallet |-> w, claims |-> c,
                      validUntil |-> now + v, deadline |-> now + d,
                      nonce |-> nonces[w]]
<1>1. now \in Nat /\ v \in Nat /\ d \in Nat /\ nonces[w] \in Nat
  BY KYCAssumption DEF IInv, TypeOK
<1>2. signed \in Attestation
  BY <1>1 DEF Attestation
<1>3. issued' = issued \cup {signed}
  BY DEF buildAttestation
<1>4. UNCHANGED <<now, lockVars, walletVars, grantVars, attesterVars, dead>>
  BY DEF buildAttestation
<1>5. TypeOK'
  BY <1>2, <1>3, <1>4
  DEF IInv, TypeOK, lockVars, walletVars, grantVars, attesterVars
<1>6. signed.nonce = nonces[w] /\ signed.wallet = w
  OBVIOUS
<1>7. NoncesReached'
  BY <1>1, <1>3, <1>4, <1>6 DEF IInv, NoncesReached, walletVars
<1> QED
  BY <1>4, <1>5, <1>7
  DEF IInv, QueueIsPublic, ValidityCapped, LastRecognised, lockVars,
      walletVars, attesterVars

\* Recording an admission: only the wallet's own record changes.
LEMMA Recorded ==
  ASSUME IInv, NEW w \in Wallets, NEW k \in Keys \cup {NoKey},
         NEW c \in SUBSET Claims, NEW until \in Nat, _record(w, k, c, until)
  PROVE  /\ verification' \in [Wallets -> Verification]
         /\ isVerified' \subseteq Wallets
         /\ verification'[w].attester = k
         /\ verification'[w].validUntil = until
         /\ \A o \in Wallets \ {w} : verification'[o] = verification[o]
<1> DEFINE new == [attester |-> k, claims |-> c, validUntil |-> until]
<1>1. new \in Verification
  BY DEF Verification
<1>2. verification \in [Wallets -> Verification]
  BY DEF IInv, TypeOK
<1>3. verification' = [verification EXCEPT ![w] = new]
  BY DEF _record
<1>4. verification'[w] = new
  BY <1>2, <1>3
<1>5. /\ verification' \in [Wallets -> Verification]
      /\ \A o \in Wallets \ {w} : verification'[o] = verification[o]
  BY <1>1, <1>2, <1>3
<1> QED
  BY <1>4, <1>5 DEF _record, IInv, TypeOK

\* Accepting an attestation: the nonce moves past it and every other of its
\* wallet, and the cap bounds what is recorded.
LEMMA AcceptingKeepsIInv ==
  ASSUME IInv, NEW a \in issued, verifyWithSignature(a)
  PROVE  IInv'
<1>1. /\ a \in Attestation /\ a.key \in Keys /\ a.wallet \in Wallets
      /\ a.claims \in SUBSET Claims /\ a.validUntil \in Nat /\ a.nonce \in Nat
  BY KYCAssumption DEF IInv, TypeOK, Attestation
<1>2. Acceptable(a) /\ _record(a.wallet, a.key, a.claims, a.validUntil)
      /\ nonces' = [nonces EXCEPT ![a.wallet] = @ + 1]
      /\ dead' = dead \cup {a}
      /\ UNCHANGED <<now, lockVars, grantVars, attesterVars, issued>>
  BY DEF verifyWithSignature
<1>3. /\ verification' \in [Wallets -> Verification] /\ isVerified' \subseteq Wallets
      /\ verification'[a.wallet].attester = a.key
      /\ verification'[a.wallet].validUntil = a.validUntil
      /\ \A o \in Wallets \ {a.wallet} : verification'[o] = verification[o]
  BY <1>1, <1>2, Recorded
<1>4. nonces \in [Wallets -> Nat] /\ nonces' \in [Wallets -> Nat]
      /\ \A w \in Wallets : nonces[w] <= nonces'[w]
      /\ nonces'[a.wallet] = nonces[a.wallet] + 1
  BY <1>1, <1>2 DEF IInv, TypeOK
<1>5. TypeOK'
  BY <1>2, <1>3, <1>4 DEF IInv, TypeOK, lockVars, grantVars, attesterVars
<1>6. \A b \in issued : b.wallet \in Wallets /\ b.nonce \in Nat
  BY DEF IInv, TypeOK, Attestation
<1>7. NoncesReached'
  <2>1. \A b \in issued : b.nonce <= nonces'[b.wallet]
    BY <1>4, <1>6 DEF IInv, NoncesReached
  <2>2. \A b \in dead : b.nonce < nonces'[b.wallet]
    BY <1>4, <1>6 DEF IInv, NoncesReached, TypeOK
  <2>3. a.nonce < nonces'[a.wallet]
    BY <1>1, <1>2, <1>4 DEF Acceptable
  <2> QED
    BY <1>2, <2>1, <2>2, <2>3 DEF NoncesReached
<1>8. a.validUntil <= now + MaxAttestationValidity /\ a.key \in recognised
  BY <1>2 DEF Acceptable, withinCap
<1>9. ValidityCapped'
  BY <1>1, <1>2, <1>3, <1>8
  DEF IInv, ValidityCapped, LastRecognised, attesterVars
<1> QED
  BY <1>2, <1>5, <1>7, <1>9 DEF IInv, QueueIsPublic, lockVars

\* Revoking: the nonce moves past everything signed for the wallet.
LEMMA RevokingKeepsIInv ==
  ASSUME IInv, NEW w \in Wallets, revoke(w)
  PROVE  IInv'
<1>1. /\ isVerified' = isVerified \ {w}
      /\ nonces' = [nonces EXCEPT ![w] = @ + 1]
      /\ dead' = dead \cup {a \in issued : a.wallet = w}
      /\ UNCHANGED <<now, lockVars, verification, grantVars, attesterVars, issued>>
  BY DEF revoke, nonceAfterRevoke
<1>2. nonces \in [Wallets -> Nat] /\ nonces' \in [Wallets -> Nat]
      /\ \A o \in Wallets : nonces[o] <= nonces'[o]
      /\ nonces'[w] = nonces[w] + 1
  BY <1>1 DEF IInv, TypeOK
<1>3. TypeOK'
  BY <1>1, <1>2 DEF IInv, TypeOK, lockVars, grantVars, attesterVars
<1>4. \A b \in issued : b.wallet \in Wallets /\ b.nonce \in Nat
  BY DEF IInv, TypeOK, Attestation
<1>5. NoncesReached'
  <2>1. \A b \in issued : b.nonce <= nonces'[b.wallet]
    BY <1>2, <1>4 DEF IInv, NoncesReached
  <2>2. \A b \in dead : b.nonce < nonces'[b.wallet]
    BY <1>2, <1>4 DEF IInv, NoncesReached, TypeOK
  <2>3. \A b \in issued : b.wallet = w => b.nonce < nonces'[b.wallet]
    BY <1>2, <1>4 DEF IInv, NoncesReached
  <2> QED
    BY <1>1, <2>1, <2>2, <2>3 DEF NoncesReached
<1> QED
  BY <1>1, <1>3, <1>5
  DEF IInv, QueueIsPublic, ValidityCapped, LastRecognised, lockVars, attesterVars

\* A manual grant: recorded under no key.
LEMMA GrantingKeepsIInv ==
  ASSUME IInv, NEW w \in Wallets, NEW c \in ClaimSets, verify(w, c)
  PROVE  IInv'
<1>1. /\ manualGrantTimes' = [manualGrantTimes EXCEPT ![manualGrantIndex] = now]
      /\ manualGrantIndex' = (manualGrantIndex + 1) % ManualRateLimit
      /\ lastManualGrantAt' = [lastManualGrantAt EXCEPT ![w] = now]
      /\ _record(w, NoKey, c, now + ManualValidity)
      /\ grants' = Append(grants, [wallet |-> w, at |-> now])
      /\ UNCHANGED <<now, nonces, attesterVars, signedVars>>
      /\ _consumeIfDelayed(_verifyId(w, c))
  BY DEF verify
<1>2. now \in Nat /\ now + ManualValidity \in Nat /\ c \in SUBSET Claims
  BY KYCAssumption DEF IInv, TypeOK
<1>3. /\ verification' \in [Wallets -> Verification] /\ isVerified' \subseteq Wallets
      /\ verification'[w].attester = NoKey
      /\ \A o \in Wallets \ {w} : verification'[o] = verification[o]
  BY <1>1, <1>2, Recorded
<1>4. queuedAt' \in [Ids -> Nat] /\ announced' \in [Ids -> Nat] /\ QueueIsPublic'
  BY <1>1, QueueStep, IdsOfCalls
<1>5. manualGrantIndex' \in Ring
  BY <1>1, KYCAssumption DEF IInv, TypeOK, Ring
<1>6. manualGrantTimes' \in [Ring -> Nat] /\ lastManualGrantAt' \in [Wallets -> Nat]
  BY <1>1, <1>2 DEF IInv, TypeOK
<1>7. grants' \in Seq([wallet: Wallets, at: Nat])
  BY <1>1, <1>2 DEF IInv, TypeOK
<1>8. TypeOK'
  BY <1>1, <1>3, <1>4, <1>5, <1>6, <1>7 DEF IInv, TypeOK, attesterVars, signedVars
<1>9. ValidityCapped'
  BY <1>1, <1>3, NoKeyAssumption
  DEF IInv, ValidityCapped, LastRecognised, attesterVars
<1> QED
  BY <1>1, <1>4, <1>8, <1>9 DEF IInv, NoncesReached, signedVars

\* Announcing and taking back an announcement.
LEMMA AnnouncingKeepsIInv ==
  ASSUME IInv, NEW id \in Ids, queueAction(id) \/ cancelAction(id)
  PROVE  IInv'
<1>1. queuedAt' \in [Ids -> Nat] /\ announced' \in [Ids -> Nat] /\ QueueIsPublic'
  BY QueueStep DEF queueAction, cancelAction
<1>2. UNCHANGED <<now, walletVars, grantVars, attesterVars, signedVars>>
  BY DEF queueAction, cancelAction
<1> QED
  BY <1>1, <1>2
  DEF IInv, TypeOK, NoncesReached, ValidityCapped, LastRecognised, walletVars,
      grantVars, attesterVars, signedVars

\* The three changes of the recognised keys: a key that leaves is recognised
\* until now.
LEMMA AttestersKeepIInv ==
  ASSUME IInv, NEW old \in Keys, NEW new \in Keys,
         addAttester(new) \/ removeAttester(old) \/ rotateAttester(old, new)
  PROVE  IInv'
<1>1. queuedAt' \in [Ids -> Nat] /\ announced' \in [Ids -> Nat] /\ QueueIsPublic'
  BY QueueStep, IdsOfCalls
  DEF addAttester, removeAttester, rotateAttester, rotation, IInv, TypeOK,
      QueueIsPublic, lockVars
<1>2. UNCHANGED <<now, walletVars, grantVars, signedVars>>
  BY DEF addAttester, removeAttester, rotateAttester
<1>3. recognised' \subseteq Keys /\ delistedAt' \in [Keys -> Nat]
  BY DEF addAttester, removeAttester, rotateAttester, _addAttester, IInv, TypeOK
<1>4. \A k \in Keys : \/ k \in recognised'
                      \/ delistedAt'[k] = now /\ k \in recognised
                      \/ delistedAt'[k] = delistedAt[k] /\ k \notin recognised
  BY DEF addAttester, removeAttester, rotateAttester, _addAttester, IInv, TypeOK
<1>5. now \in Nat /\ \A k \in Keys : delistedAt[k] \in Nat /\ delistedAt[k] <= now
  BY DEF IInv, TypeOK, ValidityCapped
<1>6. \A k \in Keys : delistedAt'[k] \in {now, delistedAt[k]}
  BY DEF addAttester, removeAttester, rotateAttester, IInv, TypeOK
<1>7. \A k \in Keys : LastRecognised(k) <= LastRecognised(k)'
  BY <1>2, <1>4, <1>5 DEF LastRecognised
<1>8. \A k \in Keys : LastRecognised(k) \in Nat /\ LastRecognised(k)' \in Nat
  BY <1>2, <1>3, <1>5 DEF LastRecognised
<1>9. ValidityCapped'
  <2>1. \A k \in Keys : delistedAt'[k] <= now'
    BY <1>2, <1>5, <1>6
  <2>2. ASSUME NEW w \in Wallets, verification'[w].attester \in Keys
        PROVE  verification'[w].validUntil
                 <= LastRecognised(verification[w].attester)'
                    + MaxAttestationValidity
    <3>1. verification' = verification /\ verification[w].validUntil \in Nat
      BY <1>2 DEF walletVars, IInv, TypeOK, Verification
    <3>2. verification[w].validUntil
            <= LastRecognised(verification[w].attester) + MaxAttestationValidity
      BY <2>2, <3>1 DEF IInv, ValidityCapped
    <3> QED
      BY <2>2, <3>1, <3>2, <1>7, <1>8, KYCAssumption
  <2> QED
    BY <2>1, <2>2 DEF ValidityCapped
<1>10. TypeOK'
  BY <1>1, <1>2, <1>3 DEF IInv, TypeOK, walletVars, grantVars, signedVars
<1> QED
  BY <1>1, <1>2, <1>9, <1>10 DEF IInv, NoncesReached, walletVars, signedVars

LEMMA TimeKeepsIInv ==
  ASSUME IInv, Tick \/ UNCHANGED vars
  PROVE  IInv'
<1>1. now \in Nat /\ now' \in Nat \ {0} /\ now <= now'
  BY DEF Tick, vars, IInv, TypeOK
<1>2. UNCHANGED <<lockVars, walletVars, grantVars, attesterVars, signedVars>>
  BY DEF Tick, vars
<1>3. TypeOK' /\ QueueIsPublic' /\ NoncesReached'
  BY <1>1, <1>2
  DEF IInv, TypeOK, QueueIsPublic, NoncesReached, lockVars, walletVars,
      grantVars, attesterVars, signedVars
<1>4. \A w \in Wallets : verification[w].validUntil \in Nat
  BY DEF IInv, TypeOK, Verification
<1>5. \A k \in Keys : delistedAt[k] \in Nat /\ delistedAt[k] <= now
  BY DEF IInv, TypeOK, ValidityCapped
<1>6. verification' = verification /\ delistedAt' = delistedAt
  BY <1>2 DEF walletVars, attesterVars
<1>7. ASSUME NEW w \in Wallets, verification[w].attester \in Keys
      PROVE  verification[w].validUntil
               <= LastRecognised(verification[w].attester)' + MaxAttestationValidity
  <2>1. verification[w].validUntil
          <= LastRecognised(verification[w].attester) + MaxAttestationValidity
    BY <1>7 DEF IInv, ValidityCapped
  <2>2. LastRecognised(verification[w].attester)'
          = (IF verification[w].attester \in recognised' THEN now'
             ELSE delistedAt'[verification[w].attester])
    BY <1>6 DEF LastRecognised
  <2>3. recognised' = recognised
    BY <1>2 DEF attesterVars
  <2>4. LastRecognised(verification[w].attester) \in Nat
        /\ LastRecognised(verification[w].attester)' \in Nat
        /\ LastRecognised(verification[w].attester)
             <= LastRecognised(verification[w].attester)'
    BY <1>1, <1>5, <1>6, <1>7, <2>2, <2>3 DEF LastRecognised
  <2> QED
    BY <1>4, <2>1, <2>4, KYCAssumption
<1>8. \A k \in Keys : delistedAt'[k] <= now'
  BY <1>1, <1>5, <1>6
<1>9. ValidityCapped'
  BY <1>6, <1>7, <1>8 DEF ValidityCapped
<1> QED
  BY <1>3, <1>9 DEF IInv

LEMMA StepIInv == IInv /\ [Next]_vars => IInv'
BY Steps, SigningKeepsIInv, AcceptingKeepsIInv, RevokingKeepsIInv,
   GrantingKeepsIInv, AnnouncingKeepsIInv, AttestersKeepIInv, TimeKeepsIInv

THEOREM InvariantHolds == Spec => []IInv
BY InitIInv, StepIInv, PTL DEF Spec

-----------------------------------------------------------------------------
\* The registry's state is well typed, whatever the constants.
THEOREM RegistryTypes == Spec => []TypeOK
BY InvariantHolds, PTL DEF IInv

\* No attestation is accepted twice, and none survives a revocation, for any
\* number of wallets, keys and attestations in any order.
THEOREM SpentAttestationsStaySpent == Spec => []SpentStaysSpent
<1>1. IInv => SpentStaysSpent
  <2> SUFFICES ASSUME IInv, NEW a \in dead PROVE ~Acceptable(a)
    BY DEF SpentStaysSpent
  <2>1. a.nonce \in Nat /\ nonces[a.wallet] \in Nat /\ a.nonce < nonces[a.wallet]
    BY DEF IInv, TypeOK, NoncesReached, Attestation
  <2> QED
    BY <2>1 DEF Acceptable
<1> QED
  BY <1>1, InvariantHolds, PTL

\* A delisted provider's word outlives it by the cap at most.
THEOREM DelistedProvidersFade == Spec => []DelistedProviderFades
<1>1. IInv => DelistedProviderFades
  <2> SUFFICES ASSUME IInv, NEW w \in Wallets, isEligible(w, {}), ~manual(w),
                      verification[w].attester \notin recognised
               PROVE  now <= delistedAt[verification[w].attester]
                               + MaxAttestationValidity
    BY DEF DelistedProviderFades
  <2>1. verification[w] \in Verification
    BY DEF IInv, TypeOK
  <2>2. verification[w].attester \in Keys /\ verification[w].validUntil \in Nat
    BY <2>1 DEF Verification, manual
  <2>3. verification[w].validUntil
          <= delistedAt[verification[w].attester] + MaxAttestationValidity
    BY <2>2 DEF IInv, ValidityCapped, LastRecognised
  <2>4. now \in Nat /\ delistedAt[verification[w].attester] \in Nat
        /\ now <= verification[w].validUntil
    BY <2>2 DEF IInv, TypeOK, isEligible
  <2> QED
    BY <2>2, <2>3, <2>4, KYCAssumption
<1> QED
  BY <1>1, InvariantHolds, PTL

LEMMA ConsumedIsNoticed ==
  ASSUME IInv, NEW id \in Ids, _consume(id)
  PROVE  Noticed(id) /\ announced'[id] = 0
BY TimelockAssumption
DEF _consume, isExecutable, Lapsed, Noticed, ActionExecuted, IInv,
    QueueIsPublic, TypeOK

\* Every key ever recognised after the first used up its own announcement.
THEOREM TimelockIsTheOnlyWay == Spec => NoWayAroundTheTimelock
<1> DEFINE Announced(k) ==
      \E id \in {_attesterId(k)} \cup {_rotateId(old, k) : old \in recognised} :
        Noticed(id) /\ announced'[id] = 0
<1>1. ASSUME IInv, [Next]_vars, NEW k \in recognised' \ recognised
      PROVE  Announced(k)
  <2>1. ASSUME NEW new \in Keys, addAttester(new) PROVE Announced(k)
    <3>1. k = new
      BY <1>1, <2>1 DEF addAttester, _addAttester
    <3>2. Noticed(_attesterId(k)) /\ announced'[_attesterId(k)] = 0
      BY <1>1, <2>1, <3>1, ConsumedIsNoticed, IdsOfCalls DEF addAttester
    <3> QED
      BY <3>2
  <2>2. ASSUME NEW old \in Keys, NEW new \in Keys, rotateAttester(old, new)
        PROVE  Announced(k)
    <3>1. k = new /\ old \in recognised
      BY <1>1, <2>2 DEF rotateAttester, _addAttester
    <3>2. Noticed(_rotateId(old, k)) /\ announced'[_rotateId(old, k)] = 0
      BY <1>1, <2>2, <3>1, ConsumedIsNoticed, IdsOfCalls
      DEF rotateAttester, rotation
    <3> QED
      BY <3>1, <3>2
  <2>3. recognised' \subseteq recognised
        \/ (\E new \in Keys : addAttester(new))
        \/ (\E old, new \in Keys : rotateAttester(old, new))
    BY <1>1, Steps
    DEF buildAttestation, verifyWithSignature, revoke, verify, queueAction,
        cancelAction, removeAttester, Tick, vars, attesterVars
  <2> QED
    BY <1>1, <2>1, <2>2, <2>3
<1> DEFINE Step == \A k \in recognised' \ recognised : Announced(k)
<1>2. IInv /\ [Next]_vars => [Step]_vars
  BY <1>1
<1> QED
  BY <1>2, InvariantHolds, PTL DEF Spec, NoWayAroundTheTimelock

(***************************************************************************)
(* The ring of grant times against the history of the grants.  A slot's    *)
(* age says how many grants ago it was written: the slot before the index  *)
(* holds the last grant, the one at the index the oldest.                  *)
(***************************************************************************)
Age(slot) ==
  IF slot < manualGrantIndex THEN manualGrantIndex - slot
  ELSE manualGrantIndex + ManualRateLimit - slot

RingHoldsLastGrants ==
  \A slot \in Ring :
    manualGrantTimes[slot] =
      IF Age(slot) <= Len(grants) THEN grants[Len(grants) + 1 - Age(slot)].at
      ELSE 0

GrantsInOrder ==
  /\ \A i \in DOMAIN grants :
       /\ grants[i].at \in 1 .. now
       /\ grants[i].at <= lastManualGrantAt[grants[i].wallet]
  /\ \A i, j \in DOMAIN grants : i < j => grants[i].at <= grants[j].at

RationInv == RingHoldsLastGrants /\ GrantsInOrder /\ ManualGrantsRationed

-----------------------------------------------------------------------------
LEMMA InitRation == Init => RationInv
<1> SUFFICES ASSUME Init PROVE RationInv
  OBVIOUS
<1>1. grants = <<>> /\ Len(grants) = 0 /\ DOMAIN grants = {}
  BY DEF Init
<1>2. \A slot \in Ring : manualGrantTimes[slot] = 0 /\ ~(Age(slot) <= 0)
  BY KYCAssumption DEF Init, Ring, Age
<1>3. RingHoldsLastGrants
  BY <1>1, <1>2 DEF RingHoldsLastGrants
<1>4. GrantsInOrder /\ ManualGrantsRationed
  BY <1>1 DEF GrantsInOrder, ManualGrantsRationed
<1> QED
  BY <1>3, <1>4 DEF RationInv

\* Where the index goes: one on, round the ring.
LEMMA NextSlot ==
  ASSUME NEW n \in Nat \ {0}, NEW i \in 0 .. n - 1
  PROVE  (i + 1) % n = IF i + 1 = n THEN 0 ELSE i + 1
<1>1. n % n = 0
  OBVIOUS
<1>2. ASSUME i + 1 # n PROVE (i + 1) % n = i + 1
  <2>1. i + 1 \in 0 .. n - 1
    BY <1>2
  <2> QED
    BY <2>1
<1> QED
  BY <1>1, <1>2

\* The history has the types of its elements.
LEMMA HistoryTyped ==
  ASSUME IInv
  PROVE  /\ Len(grants) \in Nat /\ DOMAIN grants = 1 .. Len(grants)
         /\ \A i \in DOMAIN grants : grants[i].wallet \in Wallets /\ grants[i].at \in Nat
<1>1. grants \in Seq([wallet: Wallets, at: Nat])
  BY DEF IInv, TypeOK
<1>2. Len(grants) \in Nat /\ DOMAIN grants = 1 .. Len(grants)
  BY <1>1, LenProperties
<1>3. \A i \in DOMAIN grants : grants[i] \in [wallet: Wallets, at: Nat]
  BY <1>1, <1>2, ElementOfSeq
<1> QED
  BY <1>2, <1>3

\* A grant writes over the oldest time and makes every other one older.
LEMMA GrantAges ==
  ASSUME IInv, manualGrantIndex' = (manualGrantIndex + 1) % ManualRateLimit,
         NEW slot \in Ring
  PROVE  /\ Age(slot) \in 1 .. ManualRateLimit
         /\ slot # manualGrantIndex => Age(slot)' = Age(slot) + 1
         /\ slot = manualGrantIndex => Age(slot) = ManualRateLimit /\ Age(slot)' = 1
<1>1. /\ ManualRateLimit \in Nat \ {0}
      /\ manualGrantIndex \in 0 .. ManualRateLimit - 1
      /\ slot \in 0 .. ManualRateLimit - 1
  BY KYCAssumption DEF IInv, TypeOK, Ring
<1>2. manualGrantIndex' = IF manualGrantIndex + 1 = ManualRateLimit THEN 0
                          ELSE manualGrantIndex + 1
  BY <1>1, NextSlot
<1> QED
  BY <1>1, <1>2 DEF Age

\* The rate check reads the time of the grant a whole ring ago, and the
\* cool-down the last one of the wallet.
LEMMA GrantingKeepsRation ==
  ASSUME IInv, RationInv, NEW w \in Wallets, NEW c \in ClaimSets, verify(w, c)
  PROVE  RationInv'
<1> DEFINE n == Len(grants)
           new == [wallet |-> w, at |-> now]
           oldest == manualGrantTimes[manualGrantIndex]
<1>1. /\ lastManualGrantAt[w] = 0 \/ now >= lastManualGrantAt[w] + ManualCooldown
      /\ oldest = 0 \/ now >= oldest + ManualRateWindow
      /\ manualGrantTimes' = [manualGrantTimes EXCEPT ![manualGrantIndex] = now]
      /\ manualGrantIndex' = (manualGrantIndex + 1) % ManualRateLimit
      /\ lastManualGrantAt' = [lastManualGrantAt EXCEPT ![w] = now]
      /\ grants' = Append(grants, new)
      /\ now' = now
  BY DEF verify, rateAllows
<1>2. /\ now \in Nat \ {0} /\ ManualRateWindow \in Nat /\ ManualCooldown \in Nat
      /\ ManualRateLimit \in Nat \ {0} /\ manualGrantIndex \in Ring
      /\ manualGrantTimes \in [Ring -> Nat] /\ lastManualGrantAt \in [Wallets -> Nat]
  BY KYCAssumption DEF IInv, TypeOK
<1>3. /\ n \in Nat /\ DOMAIN grants = 1 .. n /\ DOMAIN grants' = 1 .. n + 1
      /\ Len(grants') = n + 1
      /\ \A i \in 1 .. n : /\ grants'[i] = grants[i]
                          /\ grants[i].wallet \in Wallets /\ grants[i].at \in Nat
      /\ grants'[n + 1].wallet = w /\ grants'[n + 1].at = now
  <2>1. grants \in Seq([wallet: Wallets, at: Nat]) /\ new \in [wallet: Wallets, at: Nat]
    BY <1>2 DEF IInv, TypeOK
  <2>2. new.wallet = w /\ new.at = now
    OBVIOUS
  <2> HIDE DEF new
  <2>3. /\ grants' \in Seq([wallet: Wallets, at: Nat]) /\ Len(grants') = n + 1
        /\ \A i \in 1 .. n : grants'[i] = grants[i]
        /\ grants'[n + 1] = new
    BY <1>1, <2>1, AppendProperties
  <2>4. DOMAIN grants' = 1 .. n + 1
    BY <2>3, LenProperties
  <2> QED
    BY <2>2, <2>3, <2>4, HistoryTyped
<1> HIDE DEF n, new
<1>4. \A i \in 1 .. n : /\ grants[i].at \in 1 .. now
                       /\ grants[i].at <= lastManualGrantAt[grants[i].wallet]
  BY <1>3 DEF RationInv, GrantsInOrder
<1>5. \A i, j \in 1 .. n : i < j => grants[i].at <= grants[j].at
  BY <1>3 DEF RationInv, GrantsInOrder
<1>6. ASSUME NEW i \in 1 .. n, n + 1 - i >= ManualRateLimit
      PROVE  now >= grants[i].at + ManualRateWindow
  <2>1. Age(manualGrantIndex) = ManualRateLimit
    BY <1>1, <1>2, GrantAges
  <2>2. ManualRateLimit <= n /\ n + 1 - ManualRateLimit \in 1 .. n
        /\ i <= n + 1 - ManualRateLimit
    <3>1. ManualRateLimit \in Nat \ {0} /\ n \in Nat /\ i \in 1 .. n
      BY <1>2, <1>3
    <3> QED
      BY <1>6, <3>1
  <2>3. oldest = grants[n + 1 - ManualRateLimit].at
    BY <1>2, <2>1, <2>2 DEF n, RationInv, RingHoldsLastGrants
  <2>4. grants[i].at <= oldest /\ oldest \in 1 .. now /\ grants[i].at \in Nat
    BY <1>3, <1>4, <1>5, <2>2, <2>3
  <2>5. oldest # 0 /\ now >= oldest + ManualRateWindow
    BY <1>1, <2>4
  <2>6. oldest \in Nat /\ now \in Nat /\ ManualRateWindow \in Nat
    BY <1>2, <2>4
  <2> HIDE DEF oldest
  <2> QED
    BY <2>4, <2>5, <2>6
<1>7. ASSUME NEW i \in 1 .. n, grants[i].wallet = w
      PROVE  now >= grants[i].at + ManualCooldown
  <2>1. grants[i].at <= lastManualGrantAt[w] /\ grants[i].at \in 1 .. now
    BY <1>4, <1>7
  <2> QED
    BY <1>1, <1>2, <2>1
<1>8. ManualGrantsRationed'
  <2> SUFFICES ASSUME NEW i \in 1 .. n + 1, NEW j \in 1 .. n + 1, i < j
               PROVE  /\ j - i >= ManualRateLimit
                           => grants'[j].at >= grants'[i].at + ManualRateWindow
                      /\ grants'[i].wallet = grants'[j].wallet
                           => grants'[j].at >= grants'[i].at + ManualCooldown
    BY <1>3 DEF ManualGrantsRationed
  <2>1. CASE j = n + 1
    BY <1>3, <1>6, <1>7, <2>1
  <2>2. CASE j # n + 1
    <3>1. i \in DOMAIN grants /\ j \in DOMAIN grants
      BY <1>3, <2>2
    <3>2. grants'[i] = grants[i] /\ grants'[j] = grants[j]
      BY <1>3, <3>1
    <3>3. /\ j - i >= ManualRateLimit
               => grants[j].at >= grants[i].at + ManualRateWindow
          /\ grants[i].wallet = grants[j].wallet
               => grants[j].at >= grants[i].at + ManualCooldown
      BY <3>1 DEF RationInv, ManualGrantsRationed
    <3> QED
      BY <3>2, <3>3
  <2> QED
    BY <2>1, <2>2
<1>9. GrantsInOrder'
  <2>1. \A i \in 1 .. n + 1 : grants'[i].at \in 1 .. now
    BY <1>2, <1>3, <1>4
  <2>2. \A i \in 1 .. n + 1 : grants'[i].at <= lastManualGrantAt'[grants'[i].wallet]
    BY <1>1, <1>2, <1>3, <1>4
  <2>3. \A i, j \in 1 .. n + 1 : i < j => grants'[i].at <= grants'[j].at
    BY <1>2, <1>3, <1>4, <1>5
  <2> QED
    BY <1>1, <1>3, <2>1, <2>2, <2>3 DEF GrantsInOrder
<1>10. RingHoldsLastGrants'
  <2> SUFFICES ASSUME NEW slot \in Ring
               PROVE  manualGrantTimes'[slot] =
                        IF Age(slot)' <= n + 1
                        THEN grants'[n + 1 + 1 - Age(slot)'].at ELSE 0
    <3> HIDE DEF Age
    <3> QED
      BY <1>3 DEF RingHoldsLastGrants
  <2>1. CASE slot = manualGrantIndex
    <3>1. Age(slot)' = 1 /\ manualGrantTimes'[slot] = now
      BY <1>1, <1>2, <2>1, GrantAges
    <3> QED
      BY <1>3, <3>1
  <2>2. CASE slot # manualGrantIndex
    <3>1. /\ Age(slot) \in 1 .. ManualRateLimit /\ Age(slot)' = Age(slot) + 1
          /\ manualGrantTimes'[slot] = manualGrantTimes[slot]
      BY <1>1, <1>2, <2>2, GrantAges
    <3>2. manualGrantTimes[slot] =
            IF Age(slot) <= n THEN grants[n + 1 - Age(slot)].at ELSE 0
      BY DEF n, RationInv, RingHoldsLastGrants
    <3>3. n + 1 + 1 - Age(slot)' = n + 1 - Age(slot)
      <4>1. n \in Int /\ Age(slot) \in Int /\ Age(slot)' = Age(slot) + 1
        BY <1>2, <1>3, <3>1
      <4> QED
        BY <4>1
    <3> HIDE DEF Age
    <3> QED
      BY <1>2, <1>3, <3>1, <3>2, <3>3
  <2> QED
    BY <2>1, <2>2
<1> QED
  BY <1>8, <1>9, <1>10 DEF RationInv

LEMMA StepRation ==
  ASSUME IInv, RationInv, [Next]_vars
  PROVE  RationInv'
<1>1. ASSUME UNCHANGED grantVars, now' = now \/ now' = now + 1 PROVE RationInv'
  <2>1. now \in Nat /\ \A i \in DOMAIN grants : grants[i].at \in Nat
    BY HistoryTyped DEF IInv, TypeOK
  <2>2. GrantsInOrder'
    BY <1>1, <2>1 DEF grantVars, RationInv, GrantsInOrder
  <2> QED
    BY <1>1, <2>2
    DEF grantVars, RationInv, RingHoldsLastGrants, Age, ManualGrantsRationed
<1>2. \/ \E w \in Wallets, c \in ClaimSets : verify(w, c)
      \/ UNCHANGED grantVars /\ (now' = now \/ now' = now + 1)
  BY Steps
  DEF buildAttestation, verifyWithSignature, revoke, queueAction, cancelAction,
      addAttester, removeAttester, rotateAttester, Tick, vars
<1> QED
  BY <1>1, <1>2, GrantingKeepsRation

\* However many wallets are granted, in whatever order and however announced:
\* never more than the limit in any window, never twice in a cool-down.
THEOREM GrantsByHandAreRationed == Spec => []ManualGrantsRationed
<1>1. IInv /\ RationInv /\ [Next]_vars => RationInv'
  BY StepRation
<1>2. RationInv => ManualGrantsRationed
  BY DEF RationInv
<1> QED
  BY <1>1, <1>2, InitRation, InvariantHolds, PTL DEF Spec

=============================================================================
