---------------------------- MODULE MandateProof ----------------------------
(***************************************************************************)
(* Proofs about VaultFactory.sol: the square root behind the deposit       *)
(* floor, the price surface, the mandate book and the money that           *)
(* origination moves, for every number of lenders, offers and fills and    *)
(* every setting.                                                          *)
(***************************************************************************)
EXTENDS MandateProperties, ArithmeticProof, SequenceTheorems

(***************************************************************************)
(* The Babylonian square root.                                             *)
(***************************************************************************)
\* The function that LET Newton of _sqrt defines, and one step of it.
Improved(x, y) == (x \div y + y) \div 2

IsNewton(f, x, k) ==
  f = [y \in 1 .. k |-> IF Improved(x, y) < y THEN f[Improved(x, y)] ELSE y]

LEMMA HalfBetween ==
  ASSUME NEW q \in Nat, NEW y \in Nat, NEW x \in Nat, q >= 1, y >= 1, q <= x, y <= x
  PROVE  (q + y) \div 2 \in 1 .. x
<1>1. 2 * 1 <= q + y /\ q + y <= 2 * x /\ q + y \in Nat /\ 2 \in Nat \ {0}
  OBVIOUS
<1>2. 1 <= (q + y) \div 2
  BY <1>1, DivReaches
<1>3. (q + y) \div 2 <= x
  BY <1>1, DivAtMost
<1>4. (q + y) \div 2 \in Nat
  BY <1>1, DivBounds
<1> QED
  BY <1>2, <1>3, <1>4

LEMMA ImprovedType ==
  ASSUME NEW x \in Nat, NEW y \in 1 .. x
  PROVE  Improved(x, y) \in 1 .. x
<1>1. y \in Nat \ {0}
  OBVIOUS
<1>2. x \div y \in Nat
  BY <1>1, DivBounds
<1>3. 1 <= x \div y
  BY <1>1, DivReaches
<1>4. x \div y <= x
  <2>1. x <= y * x
    BY <1>1
  <2> QED
    BY <1>1, <2>1, DivAtMost
<1> QED
  BY <1>1, <1>2, <1>3, <1>4, HalfBetween DEF Improved

LEMMA NewtonExists ==
  ASSUME NEW x \in Nat
  PROVE  \E f : IsNewton(f, x, x)
<1> DEFINE G == {k \in 0 .. x : \E f : IsNewton(f, x, k)}
<1>1. 0 \in G
  <2> DEFINE f == [y \in 1 .. 0 |-> y]
  <2>1. f = [y \in 1 .. 0 |-> IF Improved(x, y) < y THEN f[Improved(x, y)] ELSE y]
    OBVIOUS
  <2>2. IsNewton(f, x, 0)
    BY <2>1 DEF IsNewton
  <2> HIDE DEF f
  <2> QED
    BY <2>2
<1>2. ASSUME NEW k \in 0 .. x, k < x, k \in G PROVE k + 1 \in G
  <2>1. PICK f : IsNewton(f, x, k)
    BY <1>2
  <2> DEFINE g == [y \in 1 .. k + 1 |->
                     IF y <= k THEN f[y]
                     ELSE IF Improved(x, y) < y THEN f[Improved(x, y)] ELSE y]
             r(y) == IF Improved(x, y) < y THEN g[Improved(x, y)] ELSE y
  <2>2. ASSUME NEW y \in 1 .. k + 1 PROVE g[y] = r(y)
    <3>1. Improved(x, y) \in 1 .. x
      BY <1>2, ImprovedType
    <3>2. Improved(x, y) < y => g[Improved(x, y)] = f[Improved(x, y)]
      BY <1>2, <3>1
    <3>3. y <= k => f[y] = IF Improved(x, y) < y THEN f[Improved(x, y)] ELSE y
      BY <1>2, <2>1 DEF IsNewton
    <3>4. g[y] = IF Improved(x, y) < y THEN f[Improved(x, y)] ELSE y
      BY <3>3
    <3> HIDE DEF g
    <3> QED
      BY <3>2, <3>4
  <2>3. g = [y \in 1 .. k + 1 |-> g[y]]
    OBVIOUS
  <2> HIDE DEF g
  <2>4. g = [y \in 1 .. k + 1 |-> r(y)]
    BY <2>2, <2>3
  <2>5. IsNewton(g, x, k + 1)
    BY <2>4 DEF IsNewton
  <2> QED
    BY <1>2, <2>5
<1>3. 0 .. x \subseteq G
  <2> HIDE DEF G
  <2> QED
    BY <1>1, <1>2, IntervalInduction
<1> QED
  BY <1>3

\* An iterate is never below the root: the mean of a and b squared is at
\* least a * b.
LEMMA MeanSquared ==
  ASSUME NEW a \in Nat, NEW b \in Nat
  PROVE  4 * (a * b) <= (a + b) * (a + b)
<1>1. (a + b) * (a + b) = (a - b) * (a - b) + 4 * (a * b)
  OBVIOUS
<1>2. (a - b) * (a - b) >= 0 /\ (a - b) * (a - b) \in Int
  OBVIOUS
<1>3. 4 * (a * b) \in Int
  OBVIOUS
<1> QED
  BY <1>1, <1>2, <1>3

LEMMA ImprovedAbove ==
  ASSUME NEW x \in Nat, NEW y \in 1 .. x
  PROVE  x < (Improved(x, y) + 1) * (Improved(x, y) + 1)
<1>1. PICK q \in Nat : q = x \div y /\ x < y * q + y
  BY DivBounds, DivRemainder
<1>2. PICK z \in Nat : z = Improved(x, y)
  BY ImprovedType
<1>3. q + y + 1 <= 2 * (z + 1)
  <2>1. q + y < 2 * ((q + y) \div 2) + 2
    BY <1>1, DivRemainder
  <2>2. z = (q + y) \div 2
    BY <1>1, <1>2 DEF Improved
  <2> QED
    BY <1>1, <1>2, <2>1, <2>2
<1> DEFINE a == q + 1
<1>4. a \in Nat /\ x < a * y /\ a + y <= 2 * (z + 1) /\ y \in Nat
  BY <1>1, <1>3
<1> HIDE DEF a
<1>5. 4 * (a * y) <= (a + y) * (a + y)
  BY <1>4, MeanSquared
<1>6. (a + y) * (a + y) <= (2 * (z + 1)) * (2 * (z + 1))
  BY <1>4
<1>7. (2 * (z + 1)) * (2 * (z + 1)) = 4 * ((z + 1) * (z + 1))
  OBVIOUS
<1>8. PICK m \in Nat, n \in Nat, p \in Nat :
        m = a * y /\ n = (a + y) * (a + y) /\ p = (z + 1) * (z + 1)
  BY <1>4
<1> QED
  BY <1>2, <1>4, <1>5, <1>6, <1>7, <1>8

LEMMA NewtonFinds ==
  ASSUME NEW x \in Nat, NEW f, IsNewton(f, x, x)
  PROVE  \A y \in 1 .. x : x < (y + 1) * (y + 1) =>
           f[y] \in 1 .. x /\ f[y] * f[y] <= x /\ x < (f[y] + 1) * (f[y] + 1)
<1> DEFINE Root(r) == r \in 1 .. x /\ r * r <= x /\ x < (r + 1) * (r + 1)
           G == {k \in 0 .. x : \A y \in 1 .. k : x < (y + 1) * (y + 1) => Root(f[y])}
<1>1. 0 \in G
  OBVIOUS
<1>2. ASSUME NEW k \in 0 .. x, k < x, k \in G PROVE k + 1 \in G
  <2> DEFINE y == k + 1
             z == Improved(x, y)
  <2>1. y \in 1 .. x /\ z \in 1 .. x /\ x < (z + 1) * (z + 1)
    BY <1>2, ImprovedType, ImprovedAbove
  <2>2. f[y] = IF z < y THEN f[z] ELSE y
    BY <2>1 DEF IsNewton
  <2>3. CASE z < y
    BY <1>2, <2>1, <2>2, <2>3
  <2>4. CASE ~(z < y)
    <3>1. PICK q \in Nat : q = x \div y /\ y * q <= x
      BY <2>1, DivBounds
    <3>2. y <= q
      <4>1. y <= (q + y) \div 2
        BY <2>1, <2>4, <3>1 DEF Improved
      <4>2. 2 * ((q + y) \div 2) <= q + y
        BY <2>1, <3>1, DivBounds
      <4>3. (q + y) \div 2 \in Nat
        BY <2>1, <3>1, DivBounds
      <4> QED
        BY <2>1, <3>1, <4>1, <4>2, <4>3
    <3>3. y * y <= y * q
      BY <2>1, <3>1, <3>2
    <3>4. y * y <= x
      BY <2>1, <3>1, <3>3
    <3>5. f[y] = y
      BY <2>2, <2>4
    <3>6. x < (y + 1) * (y + 1) => Root(f[y])
      BY <2>1, <3>4, <3>5
    <3> QED
      BY <1>2, <3>6
  <2> QED
    BY <2>3, <2>4
<1>3. 0 .. x \subseteq G
  <2> HIDE DEF G
  <2> QED
    BY <1>1, <1>2, IntervalInduction
<1>4. x \in G
  BY <1>3
<1> QED
  BY <1>4

\* The Babylonian iteration ends at the root rounded down.
THEOREM RootIsExact ==
  ASSUME NEW x \in Nat
  PROVE  /\ _sqrt(x) \in Nat
         /\ _sqrt(x) * _sqrt(x) <= x
         /\ x < (_sqrt(x) + 1) * (_sqrt(x) + 1)
<1>1. CASE x = 0
  BY <1>1 DEF _sqrt
<1>2. CASE x # 0
  <2> DEFINE f == CHOOSE g : IsNewton(g, x, x)
  <2>1. IsNewton(f, x, x)
    BY NewtonExists
  <2>2. _sqrt(x) = f[x]
    BY <1>2 DEF _sqrt, IsNewton, Improved
  <2> HIDE DEF f
  <2>3. x \in 1 .. x /\ x < (x + 1) * (x + 1)
    BY <1>2
  <2> QED
    BY <2>1, <2>2, <2>3, NewtonFinds
<1> QED
  BY <1>1, <1>2

\* A larger number has no smaller root, and four times the number, up to
\* rounding, has twice the root, up to one.
LEMMA RootMonotone ==
  ASSUME NEW x \in Nat, NEW y \in Nat, x <= y
  PROVE  _sqrt(x) <= _sqrt(y)
<1>1. PICK r \in Nat, s \in Nat :
        r = _sqrt(x) /\ s = _sqrt(y) /\ r * r <= x /\ y < (s + 1) * (s + 1)
  BY RootIsExact
<1>2. CASE s + 1 <= r
  <2>1. (s + 1) * (s + 1) <= r * r
    BY <1>2
  <2> QED
    BY <1>1, <2>1
<1> QED
  BY <1>1, <1>2

LEMMA RootOfFourfold ==
  ASSUME NEW x \in Nat, NEW y \in Nat, 4 * x <= y, y < 4 * (x + 1)
  PROVE  _sqrt(y) \in 2 * _sqrt(x) .. 2 * _sqrt(x) + 1
<1>1. PICK r \in Nat, s \in Nat :
        /\ r = _sqrt(x) /\ r * r <= x /\ x < (r + 1) * (r + 1)
        /\ s = _sqrt(y) /\ s * s <= y /\ y < (s + 1) * (s + 1)
  BY RootIsExact
<1>2. 2 * r <= s
  <2>1. CASE s + 1 <= 2 * r
    <3>1. (s + 1) * (s + 1) <= (2 * r) * (2 * r)
      BY <2>1
    <3>2. (2 * r) * (2 * r) = 4 * (r * r)
      OBVIOUS
    <3>3. PICK p \in Nat, q \in Nat : p = r * r /\ q = (s + 1) * (s + 1)
      OBVIOUS
    <3> QED
      BY <1>1, <3>1, <3>2, <3>3
  <2> QED
    BY <2>1
<1>3. s < 2 * (r + 1)
  <2>1. CASE 2 * (r + 1) <= s
    <3>1. (2 * (r + 1)) * (2 * (r + 1)) <= s * s
      BY <2>1
    <3>2. (2 * (r + 1)) * (2 * (r + 1)) = 4 * ((r + 1) * (r + 1))
      OBVIOUS
    <3>3. PICK p \in Nat, q \in Nat : p = (r + 1) * (r + 1) /\ q = s * s
      OBVIOUS
    <3> QED
      BY <1>1, <3>1, <3>2, <3>3
  <2> QED
    BY <2>1
<1> QED
  BY <1>1, <1>2, <1>3

\* The floor at two terms, from the roots at them: `c` is the volatility's
\* share and `n` the scale.
LEMMA FloorOfFourfold ==
  ASSUME NEW c \in Nat, NEW n \in Nat \ {0}, NEW r \in Nat, NEW s \in Nat,
         s \in 2 * r .. 2 * r + 1
  PROVE  (c * s) \div n - 2 * ((c * r) \div n) \in 0 .. c \div n + 3
<1>1. PICK a \in Nat : a = (c * r) \div n /\ n * a <= c * r /\ c * r < n * a + n
  BY ProductType, DivBounds, DivRemainder
<1>2. PICK u \in Nat : u = c \div n /\ n * u <= c /\ c < n * u + n
  BY DivBounds, DivRemainder
<1>3. PICK cs \in Nat : cs = c * s
  BY ProductType
<1>4. 2 * (c * r) <= cs /\ cs <= 2 * (c * r) + c
  <2>1. c * (2 * r) <= c * s /\ c * s <= c * (2 * r + 1)
    OBVIOUS
  <2>2. c * (2 * r) = 2 * (c * r) /\ c * (2 * r + 1) = 2 * (c * r) + c
    OBVIOUS
  <2> QED
    BY <1>3, <2>1, <2>2
<1>5. n * (2 * a) = 2 * (n * a) /\ n * (2 * a + u + 3) = 2 * (n * a) + n * u + 3 * n
  OBVIOUS
<1>6. PICK na \in Nat, nu \in Nat, cr \in Nat : na = n * a /\ nu = n * u /\ cr = c * r
  OBVIOUS
<1>7. n * (2 * a) <= cs /\ cs < n * (2 * a + u + 3)
  BY <1>1, <1>2, <1>4, <1>5, <1>6
<1>8. 2 * a <= cs \div n /\ cs \div n < 2 * a + u + 3 /\ cs \div n \in Nat
  BY <1>7, DivReaches, DivBelow, DivBounds
<1> QED
  BY <1>1, <1>2, <1>3, <1>8

-----------------------------------------------------------------------------
(***************************************************************************)
(* The deposit floor.                                                      *)
(***************************************************************************)
\* What a tier asks, for terms and settings of any size.
IsTier(cfg) ==
  /\ cfg.assumedVolBps \in Nat /\ cfg.minDepositBps \in 0 .. BPS
  /\ cfg.maxTermSeconds \in Nat \ {0} /\ cfg.insurancePremiumBps \in Nat

\* The scaled term whose root is taken.
ScaledTerm(term) == (term * RootScale * RootScale) \div Year

LEMMA ScaledTermType ==
  ASSUME Year \in Nat \ {0}, RootScale \in Nat \ {0}, NEW term \in Nat
  PROVE  ScaledTerm(term) \in Nat
<1>1. term * RootScale * RootScale \in Nat
  BY ProductType
<1> QED
  BY <1>1, DivBounds DEF ScaledTerm

LEMMA VolFloorByRoot ==
  ASSUME NEW cfg, IsTier(cfg), NEW coeffBps \in Nat, NEW term \in Nat
  PROVE  volFloor(cfg, coeffBps, term) =
           ((coeffBps * cfg.assumedVolBps) * _sqrt(ScaledTerm(term)))
             \div (BPS * RootScale)
BY DEF volFloor, ScaledTerm

LEMMA VolFloorType ==
  ASSUME Year \in Nat \ {0}, RootScale \in Nat \ {0},
         NEW cfg, IsTier(cfg), NEW coeffBps \in Nat, NEW term \in Nat
  PROVE  volFloor(cfg, coeffBps, term) \in Nat
<1>1. coeffBps * cfg.assumedVolBps \in Nat /\ _sqrt(ScaledTerm(term)) \in Nat
  BY ProductType, ScaledTermType, RootIsExact DEF IsTier
<1>2. BPS * RootScale \in Nat \ {0}
  BY DEF BPS
<1>3. (coeffBps * cfg.assumedVolBps) * _sqrt(ScaledTerm(term)) \in Nat
  BY <1>1, ProductType
<1> QED
  BY <1>2, <1>3, VolFloorByRoot, DivBounds

LEMMA VolFloorMonotone ==
  ASSUME Year \in Nat \ {0}, RootScale \in Nat \ {0},
         NEW cfg, IsTier(cfg), NEW coeffBps \in Nat,
         NEW term \in Nat, NEW longer \in Nat, term <= longer
  PROVE  volFloor(cfg, coeffBps, term) <= volFloor(cfg, coeffBps, longer)
<1>1. ScaledTerm(term) <= ScaledTerm(longer)
  <2>1. PICK u \in Nat : u = RootScale * RootScale
    BY ProductType
  <2>2. term * u <= longer * u /\ term * u \in Nat /\ longer * u \in Nat
    BY <2>1
  <2>3. term * RootScale * RootScale = term * u
        /\ longer * RootScale * RootScale = longer * u
    BY <2>1
  <2> QED
    BY <2>2, <2>3, DivMonotone DEF ScaledTerm
<1>2. PICK r \in Nat, s \in Nat : /\ r = _sqrt(ScaledTerm(term))
                              /\ s = _sqrt(ScaledTerm(longer)) /\ r <= s
  BY <1>1, ScaledTermType, RootIsExact, RootMonotone
<1>3. PICK c \in Nat : c = coeffBps * cfg.assumedVolBps
  BY ProductType DEF IsTier
<1>4. c * r <= c * s /\ c * r \in Nat /\ c * s \in Nat
  BY <1>2
<1>5. BPS * RootScale \in Nat \ {0}
  BY DEF BPS
<1> QED
  BY <1>2, <1>3, <1>4, <1>5, VolFloorByRoot, DivMonotone

\* A term four times as long asks for twice the deposit, up to rounding.
LEMMA VolFloorOfFourfold ==
  ASSUME Year \in Nat \ {0}, RootScale \in Nat \ {0},
         NEW cfg, IsTier(cfg), NEW coeffBps \in Nat, NEW term \in Nat
  PROVE  volFloor(cfg, coeffBps, 4 * term) - 2 * volFloor(cfg, coeffBps, term)
           \in 0 .. (coeffBps * cfg.assumedVolBps) \div (BPS * RootScale) + 3
<1>1. PICK u \in Nat : u = term * RootScale * RootScale
  BY ProductType
<1>2. PICK x \in Nat : x = u \div Year /\ Year * x <= u /\ u < Year * x + Year
  BY <1>1, DivBounds, DivRemainder
<1>3. x = ScaledTerm(term)
  BY <1>1, <1>2 DEF ScaledTerm
<1>4. ScaledTerm(4 * term) = (4 * u) \div Year
  <2>1. 4 * term * RootScale * RootScale = 4 * u
    BY <1>1
  <2> QED
    BY <2>1 DEF ScaledTerm
<1>5. PICK y \in Nat : y = (4 * u) \div Year /\ 4 * x <= y /\ y < 4 * (x + 1)
  <2>1. PICK yx \in Nat : yx = Year * x
    BY ProductType
  <2>2. Year * (4 * x) = 4 * yx /\ Year * (4 * (x + 1)) = 4 * yx + 4 * Year
    BY <2>1
  <2>3. Year * (4 * x) <= 4 * u /\ 4 * u < Year * (4 * (x + 1))
    BY <1>2, <2>1, <2>2
  <2>4. 4 * u \in Nat /\ 4 * x \in Nat /\ 4 * (x + 1) \in Nat
    BY <1>1
  <2>5. 4 * x <= (4 * u) \div Year
    BY <2>3, <2>4, DivReaches
  <2>6. (4 * u) \div Year < 4 * (x + 1)
    BY <2>3, <2>4, DivBelow
  <2>7. (4 * u) \div Year \in Nat
    BY <2>4, DivBounds
  <2> QED
    BY <2>5, <2>6, <2>7
<1>6. PICK r \in Nat, s \in Nat : r = _sqrt(x) /\ s = _sqrt(y) /\ s \in 2 * r .. 2 * r + 1
  BY <1>5, RootIsExact, RootOfFourfold
<1>7. PICK c \in Nat : c = coeffBps * cfg.assumedVolBps
  BY ProductType DEF IsTier
<1>8. PICK n \in Nat \ {0} : n = BPS * RootScale
  BY DEF BPS
<1>9. volFloor(cfg, coeffBps, 4 * term) = (c * s) \div n
      /\ volFloor(cfg, coeffBps, term) = (c * r) \div n
  <2>1. 4 * term \in Nat
    OBVIOUS
  <2> QED
    BY <1>3, <1>4, <1>5, <1>6, <1>7, <1>8, <2>1, VolFloorByRoot
<1> QED
  BY <1>6, <1>7, <1>8, <1>9, FloorOfFourfold

LEMMA Clamped ==
  ASSUME NEW x \in Nat, NEW y \in Nat, x <= y, NEW floor \in 0 .. BPS
  PROVE  /\ AtLeast(AtMost(x, BPS), floor) \in 0 .. BPS
         /\ AtLeast(AtMost(x, BPS), floor) <= AtLeast(AtMost(y, BPS), floor)
<1>1. BPS \in Nat
  BY DEF BPS
<1> QED
  BY <1>1 DEF AtLeast, AtMost

LEMMA DepositFloorType ==
  ASSUME Year \in Nat \ {0}, RootScale \in Nat \ {0},
         NEW cfg, IsTier(cfg), NEW coeffBps \in Nat, NEW term \in Nat
  PROVE  minimumDepositBpsForTier(cfg, coeffBps, term) \in 0 .. BPS
<1>1. volFloor(cfg, coeffBps, term) \in Nat /\ cfg.minDepositBps \in 0 .. BPS
  BY VolFloorType DEF IsTier
<1>2. PICK v \in Nat : v = volFloor(cfg, coeffBps, term) /\ v <= v
  BY <1>1
<1> QED
  BY <1>1, <1>2, Clamped DEF minimumDepositBpsForTier

LEMMA DepositFloorMonotone ==
  ASSUME Year \in Nat \ {0}, RootScale \in Nat \ {0},
         NEW cfg, IsTier(cfg), NEW coeffBps \in Nat,
         NEW term \in Nat, NEW longer \in Nat, term <= longer
  PROVE  minimumDepositBpsForTier(cfg, coeffBps, term)
           <= minimumDepositBpsForTier(cfg, coeffBps, longer)
<1>1. /\ volFloor(cfg, coeffBps, term) \in Nat /\ volFloor(cfg, coeffBps, longer) \in Nat
      /\ volFloor(cfg, coeffBps, term) <= volFloor(cfg, coeffBps, longer)
  BY VolFloorType, VolFloorMonotone
<1>2. cfg.minDepositBps \in 0 .. BPS
  BY DEF IsTier
<1> QED
  BY <1>1, <1>2, Clamped DEF minimumDepositBpsForTier

-----------------------------------------------------------------------------
(***************************************************************************)
(* Types of the book, of the loans made and of the money.                  *)
(***************************************************************************)

OfferedTerms == {t \in MandateTerms : WellFormed(t)}

Mandate == [terms: OfferedTerms, lender: Wallets, expiry: Nat, nonce: Nat,
            cancelled: BOOLEAN, filled: Nat]

Loan == [mandate: Nat, lender: Wallets, borrower: Wallets, principal: Nat,
         aprBps: Nat, deadline: Nat, requiredDeposit: Nat \ {0}, deposit: Nat,
         balance: Nat, premium: Nat, skim: Nat]

BookTyped ==
  /\ mandates \in Seq(Mandate)
  /\ lenderNonce \in [Wallets -> Nat]
  /\ now \in 0 .. MaxTime

SettingsTyped ==
  /\ maxMandateDuration \in Durations /\ insuranceSkimRateBps \in SkimRates
  /\ whitelisted \in BOOLEAN /\ eligible \subseteq Wallets \X Roles
  /\ tierConfig \in RiskConfigs /\ depositCoeffBps \in Coefficients

MoneyTyped ==
  /\ vaults \in Seq(Loan)
  /\ wallet \in [Wallets -> Nat] /\ allowance \in [Wallets -> Nat]
  /\ reserve \in Nat

\* Every loan was made of a mandate in the book or of none, between two
\* parties, and its deposit is in whole or not at all.
LoansSound ==
  \A i \in DOMAIN vaults :
    /\ vaults[i].mandate \in Ids \cup {0}
    /\ vaults[i].lender # vaults[i].borrower
    /\ vaults[i].deposit \in {0, vaults[i].requiredDeposit}

\* A mandate's nonce is one its lender has reached, and a withdrawn mandate
\* carries the mark of how it was withdrawn, which nothing takes away.
Withdrawal ==
  /\ withdrawn \subseteq Ids
  /\ \A id \in Ids : mandates[id].nonce <= lenderNonce[mandates[id].lender]
  /\ \A id \in withdrawn :
       \/ mandates[id].cancelled
       \/ mandates[id].nonce < lenderNonce[mandates[id].lender]

\* The book never counts more of a mandate as lent than was offered.
FilledWithinCapacity ==
  \A id \in Ids : mandates[id].filled <= mandates[id].terms.totalCapacity

IInv ==
  /\ BookTyped /\ SettingsTyped /\ MoneyTyped
  /\ LoansSound /\ Withdrawal /\ FilledWithinCapacity

LEMMA BookIsTyped ==
  ASSUME BookTyped
  PROVE  /\ Ids = 1 .. Len(mandates) /\ Len(mandates) \in Nat
         /\ \A id \in Ids : mandates[id] \in Mandate
BY LenProperties, ElementOfSeq DEF BookTyped, Ids

LEMMA LoansAreTyped ==
  ASSUME MoneyTyped
  PROVE  /\ DOMAIN vaults = 1 .. Len(vaults) /\ Len(vaults) \in Nat
         /\ IsFiniteSet(DOMAIN vaults)
         /\ \A i \in DOMAIN vaults : vaults[i] \in Loan
<1>1. DOMAIN vaults = 1 .. Len(vaults) /\ Len(vaults) \in Nat
      /\ \A i \in DOMAIN vaults : vaults[i] \in Loan
  BY LenProperties, ElementOfSeq DEF MoneyTyped
<1>2. 1 \in Int /\ Len(vaults) \in Int
  BY <1>1
<1> QED
  BY <1>1, <1>2, FS_Interval

\* A loan that is made or paid into has the fields of the others.
LEMMA OneMoreLoan ==
  ASSUME MoneyTyped, NEW v \in Loan, vaults' = Append(vaults, v)
  PROVE  /\ vaults' \in Seq(Loan)
         /\ DOMAIN vaults' = DOMAIN vaults \cup {Len(vaults) + 1}
         /\ Len(vaults) + 1 \notin DOMAIN vaults
         /\ \A i \in DOMAIN vaults : vaults'[i] = vaults[i]
         /\ vaults'[Len(vaults) + 1] = v
<1>1. DOMAIN vaults = 1 .. Len(vaults) /\ Len(vaults) \in Nat
  BY LoansAreTyped
<1>2. /\ vaults' \in Seq(Loan) /\ Len(vaults') = Len(vaults) + 1
      /\ \A i \in 1 .. Len(vaults) : vaults'[i] = vaults[i]
      /\ vaults'[Len(vaults) + 1] = v
  BY AppendProperties DEF MoneyTyped
<1>3. DOMAIN vaults' = 1 .. Len(vaults) + 1
  BY <1>2, LenProperties
<1> QED
  BY <1>1, <1>2, <1>3

-----------------------------------------------------------------------------
(***************************************************************************)
(* Prices.                                                                 *)
(***************************************************************************)
\* The settings at any time are such as the operator may choose.
LEMMA TierInForce ==
  ASSUME SettingsTyped, NEW tier \in Tiers
  PROVE  IsTier(tierConfig[tier]) /\ depositCoeffBps \in Nat
BY FactoryAssumption DEF SettingsTyped, TierConfig, IsTier

LEMMA FloorInForce ==
  ASSUME SettingsTyped, NEW tier \in Tiers, NEW term \in Nat
  PROVE  /\ depositFloor(tier, term) \in 0 .. BPS
         /\ \A longer \in Nat : term <= longer =>
              depositFloor(tier, term) <= depositFloor(tier, longer)
BY TierInForce, DepositFloorType, DepositFloorMonotone, FactoryAssumption
DEF depositFloor

\* What a borrower's credit leaves of a price.
Priced(full, rate, extra, minimum) ==
  AtLeast(Above(full, (rate * extra) \div 100), minimum)

LEMMA PricedBounds ==
  ASSUME NEW full \in Nat, NEW rate \in Nat, NEW extra \in Nat, NEW minimum \in Nat
  PROVE  /\ Priced(full, rate, extra, minimum) \in Nat
         /\ Priced(full, rate, extra, minimum) >= minimum
         /\ extra = 0 => Priced(full, rate, extra, minimum) >= full
<1>1. rate * extra \in Nat /\ 100 \in Nat \ {0}
  BY ProductType
<1>2. PICK credit \in Nat : credit = (rate * extra) \div 100
  BY <1>1, DivBounds
<1>3. extra = 0 => credit = 0
  BY <1>2
<1> QED
  BY <1>2, <1>3 DEF Priced, AtLeast, Above

LEMMA PricedMonotone ==
  ASSUME NEW full \in Nat, NEW dearer \in Nat, full <= dearer,
         NEW rate \in Nat, NEW minimum \in Nat,
         NEW extra \in Nat, NEW less \in Nat, less <= extra
  PROVE  Priced(full, rate, extra, minimum) <= Priced(dearer, rate, less, minimum)
<1>1. /\ rate * extra \in Nat /\ rate * less \in Nat /\ rate * less <= rate * extra
      /\ 100 \in Nat \ {0}
  BY ProductType
<1>2. PICK credit \in Nat, smaller \in Nat :
        /\ credit = (rate * extra) \div 100 /\ smaller = (rate * less) \div 100
        /\ smaller <= credit
  BY <1>1, DivBounds, DivMonotone
<1> QED
  BY <1>2 DEF Priced, AtLeast, Above

LEMMA FullPriceGrows ==
  ASSUME NEW t \in MandateTerms, NEW term \in Nat, NEW longer \in Nat, term <= longer
  PROVE  /\ FullPrice(t, term) \in Nat /\ FullPrice(t, longer) \in Nat
         /\ FullPrice(t, term) <= FullPrice(t, longer)
<1>1. t.termPremiumBpsPerDay \in Nat /\ t.baseAprBps \in Nat /\ Day \in Nat \ {0}
  BY FactoryAssumption DEF MandateTerms
<1>2. PICK x \in Nat, y \in Nat :
        x = t.termPremiumBpsPerDay * term /\ y = t.termPremiumBpsPerDay * longer /\ x <= y
  BY <1>1
<1>3. x \div Day \in Nat /\ y \div Day \in Nat /\ x \div Day <= y \div Day
  BY <1>1, <1>2, DivBounds, DivMonotone
<1> QED
  BY <1>1, <1>2, <1>3 DEF FullPrice

\* The deposit that earns credit: above the mandate's minimum and the floor.
LEMMA CreditedDeposit ==
  ASSUME IInv, NEW id \in Ids, NEW term \in Nat, NEW depositBps \in Nat
  PROVE  LET t     == mandates[id].terms
             extra == Above(depositBps, bindingDepositBps(id, term))
         IN  /\ t \in MandateTerms
             /\ extra \in Nat
             /\ quoteMandateApr(id, term, depositBps) =
                  Priced(FullPrice(t, term), t.depositCreditBpsPerPoint, extra,
                         t.minAprBps)
             /\ depositFloor(t.maxTier, term) >= depositBps => extra = 0
             /\ \A longer \in Nat : term <= longer =>
                  Above(depositBps, bindingDepositBps(id, longer)) <= extra
             /\ \A more \in Nat : depositBps <= more =>
                  extra <= Above(more, bindingDepositBps(id, term))
<1> DEFINE t == mandates[id].terms
<1>1. t \in MandateTerms
  BY BookIsTyped DEF IInv, Mandate, OfferedTerms
<1>2. t.maxTier \in Tiers /\ t.minDepositBps \in Nat
  BY <1>1 DEF MandateTerms
<1>3. \A x \in Nat : depositFloor(t.maxTier, x) \in Nat
  BY <1>2, FloorInForce DEF IInv
<1>4. \A x \in Nat : /\ bindingDepositBps(id, x) \in Nat
                   /\ bindingDepositBps(id, x) >= depositFloor(t.maxTier, x)
  BY <1>2, <1>3 DEF bindingDepositBps, AtLeast
<1>5. \A longer \in Nat : term <= longer =>
        bindingDepositBps(id, term) <= bindingDepositBps(id, longer)
  <2>1. \A longer \in Nat : term <= longer =>
          depositFloor(t.maxTier, term) <= depositFloor(t.maxTier, longer)
    BY <1>2, FloorInForce DEF IInv
  <2> QED
    BY <1>2, <1>3, <2>1 DEF bindingDepositBps, AtLeast
<1>6. quoteMandateApr(id, term, depositBps) =
        Priced(FullPrice(t, term), t.depositCreditBpsPerPoint,
               Above(depositBps, bindingDepositBps(id, term)), t.minAprBps)
  BY DEF quoteMandateApr, Priced
<1>7. Above(depositBps, bindingDepositBps(id, term)) \in Nat
  BY <1>4 DEF Above
<1>8. depositFloor(t.maxTier, term) >= depositBps =>
        Above(depositBps, bindingDepositBps(id, term)) = 0
  BY <1>3, <1>4 DEF Above
<1>9. \A longer \in Nat : term <= longer =>
        Above(depositBps, bindingDepositBps(id, longer))
          <= Above(depositBps, bindingDepositBps(id, term))
  BY <1>4, <1>5 DEF Above
<1>10. \A more \in Nat : depositBps <= more =>
        Above(depositBps, bindingDepositBps(id, term))
          <= Above(more, bindingDepositBps(id, term))
  BY <1>4 DEF Above
<1> QED
  BY <1>1, <1>6, <1>7, <1>8, <1>9, <1>10

LEMMA PriceType ==
  ASSUME IInv, NEW id \in Ids, NEW term \in Nat, NEW depositBps \in Nat
  PROVE  quoteMandateApr(id, term, depositBps) \in Nat
<1> DEFINE t == mandates[id].terms
           extra == Above(depositBps, bindingDepositBps(id, term))
<1>1. /\ t \in MandateTerms /\ extra \in Nat
      /\ quoteMandateApr(id, term, depositBps) =
           Priced(FullPrice(t, term), t.depositCreditBpsPerPoint, extra, t.minAprBps)
  BY CreditedDeposit
<1>2. t.depositCreditBpsPerPoint \in Nat /\ t.minAprBps \in Nat
  BY <1>1 DEF MandateTerms
<1>3. FullPrice(t, term) \in Nat
  BY <1>1, FullPriceGrows
<1>4. Priced(FullPrice(t, term), t.depositCreditBpsPerPoint, extra, t.minAprBps) \in Nat
  <2> HIDE DEF t, extra
  <2> QED
    BY <1>1, <1>2, <1>3, PricedBounds
<1> QED
  BY <1>1, <1>4

\* The surface, at one state.
LEMMA SurfaceHolds == IInv => PriceSurface
<1> SUFFICES ASSUME IInv, NEW id \in Ids PROVE
      LET t     == mandates[id].terms
          span  == t.minTermSeconds .. t.maxTermSeconds
          fifth == BPS \div 5
          floor == [term \in span |-> depositFloor(t.maxTier, term)]
          price == [term \in span |->
                      [n \in 0 .. 5 |-> quoteMandateApr(id, term, n * fifth)]]
      IN  \A term \in span, n \in 0 .. 5 :
            /\ floor[term] >= n * fifth => price[term][n] >= FullPrice(t, term)
            /\ price[term][n] >= t.minAprBps
            /\ n > 0 => price[term][n] <= price[term][n - 1]
            /\ term - 1 \in span => price[term][n] >= price[term - 1][n]
  BY Zenon DEF PriceSurface
<1> DEFINE t     == mandates[id].terms
           full(term) == FullPrice(t, term)
           extra(term, d) == Above(d, bindingDepositBps(id, term))
           p(term, d) == quoteMandateApr(id, term, d)
           rate == t.depositCreditBpsPerPoint
           least == t.minAprBps
<1>1. /\ t \in MandateTerms /\ t.minTermSeconds \in Nat /\ t.maxTermSeconds \in Nat
      /\ rate \in Nat /\ least \in Nat
  BY BookIsTyped DEF IInv, Mandate, OfferedTerms, MandateTerms
<1>2. ASSUME NEW term \in Nat, NEW d \in Nat
      PROVE  /\ extra(term, d) \in Nat
             /\ p(term, d) = Priced(full(term), rate, extra(term, d), least)
             /\ depositFloor(t.maxTier, term) >= d => extra(term, d) = 0
             /\ \A longer \in Nat : term <= longer => extra(longer, d) <= extra(term, d)
             /\ \A more \in Nat : d <= more => extra(term, d) <= extra(term, more)
  BY CreditedDeposit
<1>3. ASSUME NEW term \in Nat
      PROVE  /\ full(term) \in Nat
             /\ \A longer \in Nat : term <= longer => full(term) <= full(longer)
  <2>1. term <= term
    OBVIOUS
  <2> HIDE DEF t
  <2> QED
    BY <1>1, <2>1, FullPriceGrows
<1> HIDE DEF full, extra, p, rate, least
<1>4. ASSUME NEW term \in Nat, NEW d \in Nat
      PROVE  /\ depositFloor(t.maxTier, term) >= d => p(term, d) >= full(term)
             /\ p(term, d) >= least
             /\ \A more \in Nat : d <= more => p(term, more) <= p(term, d)
             /\ \A longer \in Nat : term <= longer => p(term, d) <= p(longer, d)
  <2>1. /\ full(term) \in Nat /\ extra(term, d) \in Nat
        /\ p(term, d) = Priced(full(term), rate, extra(term, d), least)
    BY <1>2, <1>3
  <2>2. /\ p(term, d) >= least
        /\ extra(term, d) = 0 => p(term, d) >= full(term)
    <3>1. /\ Priced(full(term), rate, extra(term, d), least) >= least
          /\ extra(term, d) = 0
               => Priced(full(term), rate, extra(term, d), least) >= full(term)
      BY <1>1, <2>1, PricedBounds
    <3> QED
      BY <2>1, <3>1
  <2>3. ASSUME NEW more \in Nat, d <= more PROVE p(term, more) <= p(term, d)
    <3>1. /\ extra(term, more) \in Nat /\ extra(term, d) <= extra(term, more)
          /\ p(term, more) = Priced(full(term), rate, extra(term, more), least)
      BY <1>2, <2>3
    <3>2. full(term) <= full(term)
      BY <2>1
    <3> QED
      BY <1>1, <2>1, <3>1, <3>2, PricedMonotone
  <2>4. ASSUME NEW longer \in Nat, term <= longer PROVE p(term, d) <= p(longer, d)
    <3>1. /\ full(longer) \in Nat /\ full(term) <= full(longer)
          /\ extra(longer, d) \in Nat /\ extra(longer, d) <= extra(term, d)
          /\ p(longer, d) = Priced(full(longer), rate, extra(longer, d), least)
      BY <1>2, <1>3, <2>4
    <3> QED
      BY <1>1, <2>1, <3>1, PricedMonotone
  <2>5. depositFloor(t.maxTier, term) >= d => extra(term, d) = 0
    BY <1>2
  <2> QED
    BY <2>2, <2>3, <2>4, <2>5
<1>5. ASSUME NEW term \in Nat, NEW d \in Nat PROVE p(term, d) \in Nat
  BY PriceType DEF p
<1> DEFINE span  == t.minTermSeconds .. t.maxTermSeconds
           fifth == BPS \div 5
           floor == [term \in span |-> depositFloor(t.maxTier, term)]
           price == [term \in span |-> [n \in 0 .. 5 |-> p(term, n * fifth)]]
<1>6. fifth \in Nat
  BY DivBounds DEF BPS
<1>7. ASSUME NEW term \in span, NEW n \in 0 .. 5
      PROVE  /\ price[term][n] = p(term, n * fifth) /\ floor[term] = depositFloor(t.maxTier, term)
             /\ term \in Nat /\ n * fifth \in Nat
  <2>1. term \in Nat /\ n \in Nat
    BY <1>1
  <2> HIDE DEF fifth
  <2> QED
    BY <1>6, <2>1
<1> HIDE DEF fifth, price, floor
<1>8. ASSUME NEW term \in span, NEW n \in 0 .. 5
      PROVE  /\ floor[term] >= n * fifth => price[term][n] >= full(term)
             /\ price[term][n] >= least
             /\ n > 0 => price[term][n] <= price[term][n - 1]
             /\ term - 1 \in span => price[term][n] >= price[term - 1][n]
  <2>1. /\ floor[term] >= n * fifth => price[term][n] >= full(term)
        /\ price[term][n] >= least
    BY <1>4, <1>7
  <2>2. ASSUME n > 0 PROVE price[term][n] <= price[term][n - 1]
    <3>1. n - 1 \in 0 .. 5 /\ (n - 1) * fifth <= n * fifth
      BY <1>6, <2>2
    <3> HIDE DEF span
    <3> QED
      BY <1>4, <1>7, <3>1
  <2>3. ASSUME term - 1 \in span PROVE price[term][n] >= price[term - 1][n]
    <3>1. term - 1 <= term
      BY <1>7
    <3> HIDE DEF span
    <3>2. p(term - 1, n * fifth) <= p(term, n * fifth)
      BY <1>4, <1>7, <2>3, <3>1
    <3>3. p(term - 1, n * fifth) \in Nat /\ p(term, n * fifth) \in Nat
      BY <1>5, <1>7, <2>3
    <3>4. price[term][n] = p(term, n * fifth) /\ price[term - 1][n] = p(term - 1, n * fifth)
      BY <1>7, <2>3
    <3> QED
      BY <3>2, <3>3, <3>4
  <2> QED
    BY <2>1, <2>2, <2>3
<1> QED
  BY <1>8, Zenon DEF full, p, least, floor, price, fifth

\* The floor at every term, whatever tiers and coefficient are in force.
LEMMA FloorFollows == IInv => FloorFollowsRootOfTerm
<1> SUFFICES ASSUME IInv, NEW tier \in Tiers PROVE
      LET cfg   == tierConfig[tier]
          floor == [term \in 1 .. 2 * Year |-> volFloor(cfg, depositCoeffBps, term)]
          unit  == (depositCoeffBps * cfg.assumedVolBps) \div (BPS * RootScale)
      IN  \A term \in 1 .. Year \div 2 :
            /\ floor[term] <= floor[term + 1]
            /\ floor[4 * term] - 2 * floor[term] \in 0 .. unit + 3
  BY DEF FloorFollowsRootOfTerm
<1> DEFINE cfg == tierConfig[tier]
           f(term) == volFloor(cfg, depositCoeffBps, term)
           unit == (depositCoeffBps * cfg.assumedVolBps) \div (BPS * RootScale)
<1>1. /\ IsTier(cfg) /\ depositCoeffBps \in Nat /\ Year \in Nat \ {0}
      /\ RootScale \in Nat \ {0}
  BY TierInForce, FactoryAssumption DEF IInv
<1>2. ASSUME NEW term \in Nat
      PROVE  f(term) <= f(term + 1) /\ f(4 * term) - 2 * f(term) \in 0 .. unit + 3
  <2>1. term + 1 \in Nat /\ term <= term + 1
    OBVIOUS
  <2> HIDE DEF cfg
  <2> QED
    BY <1>1, <2>1, VolFloorMonotone, VolFloorOfFourfold
<1> DEFINE floor == [term \in 1 .. 2 * Year |-> f(term)]
<1>3. ASSUME NEW term \in 1 .. Year \div 2
      PROVE  floor[term] <= floor[term + 1] /\ floor[4 * term] - 2 * floor[term] \in 0 .. unit + 3
  <2>1. 2 * (Year \div 2) <= Year /\ Year \div 2 \in Nat /\ 2 \in Nat \ {0}
    BY <1>1, DivBounds
  <2>2. term \in 1 .. 2 * Year /\ term + 1 \in 1 .. 2 * Year /\ 4 * term \in 1 .. 2 * Year
    BY <1>1, <2>1
  <2> HIDE DEF f, unit
  <2>3. floor[term] = f(term) /\ floor[term + 1] = f(term + 1) /\ floor[4 * term] = f(4 * term)
    BY <2>2
  <2> HIDE DEF floor
  <2> QED
    BY <1>2, <2>2, <2>3
<1> QED
  BY <1>3

-----------------------------------------------------------------------------
(***************************************************************************)
(* Loans: what making one and paying into one does to types and money.     *)
(***************************************************************************)
OriginationParams == [lender: Wallets, borrower: Wallets, principal: Nat,
                      aprBps: Nat, term: Nat, deposit: Nat, maxTier: Tiers]

\* What the pool has had of a loan.
Paid(v) == v.skim + IF v.deposit > 0 THEN v.premium ELSE 0

PrincipalOf == [i \in DOMAIN vaults |-> vaults[i].principal]
PaidOf      == [i \in DOMAIN vaults |-> Paid(vaults[i])]
BalanceOf   == [i \in DOMAIN vaults |-> vaults[i].balance]

LEMMA LoanFigures ==
  ASSUME NEW v \in Loan
  PROVE  /\ Paid(v) \in Nat /\ v.principal \in Nat /\ v.balance \in Nat
         /\ v.mandate \in Nat /\ v.skim \in Nat /\ v.premium \in Nat
         /\ v.requiredDeposit \in Nat \ {0} /\ v.deposit \in Nat
         /\ v.lender \in Wallets /\ v.borrower \in Wallets
BY DEF Loan, Paid

LEMMA ChargesType ==
  ASSUME IInv, NEW p \in OriginationParams
  PROVE  /\ premiumFor(p) \in Nat
         /\ quoteInsuranceSkim(p.principal, p.aprBps, p.term) \in Nat
<1>1. /\ p.principal \in Nat /\ p.aprBps \in Nat /\ p.term \in Nat
      /\ Year \in Nat \ {0} /\ p.maxTier \in Tiers
  BY FactoryAssumption DEF OriginationParams
<1>2. tierConfig[p.maxTier].insurancePremiumBps \in Nat
  BY <1>1, TierInForce DEF IInv, IsTier
<1>3. insuranceSkimRateBps \in Nat
  <2>1. insuranceSkimRateBps \in SkimRates /\ SkimRates \subseteq 0 .. BPS
    BY FactoryAssumption DEF IInv, SettingsTyped
  <2> QED
    BY <2>1 DEF BPS
<1>4. FullTermFee(p.principal, p.aprBps, p.term, Year) \in Nat
  BY <1>1, AnnualisedType DEF FullTermFee
<1> QED
  BY <1>1, <1>2, <1>3, <1>4, AnnualisedType, ShareType
  DEF premiumFor, quoteInsuranceSkim

\* A bill of two wallets is what both pay together.
LEMMA BillOfTwo ==
  ASSUME IsFiniteSet(Wallets), NEW a \in Wallets, NEW b \in Wallets, a # b,
         NEW x \in Nat, NEW y \in Nat,
         NEW bill, bill = [w \in Wallets |-> IF w = a THEN x ELSE IF w = b THEN y ELSE 0]
  PROVE  SumFunctionOnSet(bill, Wallets) = x + y
<1>1. \A w \in Wallets : bill[w] \in Nat
  OBVIOUS
<1>2. IsFiniteSet(Wallets \ {a}) /\ IsFiniteSet((Wallets \ {a}) \ {b})
  BY FS_Subset
<1>3. SumFunctionOnSet(bill, Wallets) = x + SumFunctionOnSet(bill, Wallets \ {a})
  BY <1>1, SumRemove
<1>4. SumFunctionOnSet(bill, Wallets \ {a})
        = y + SumFunctionOnSet(bill, (Wallets \ {a}) \ {b})
  <2>1. b \in Wallets \ {a} /\ \A w \in Wallets \ {a} : bill[w] \in Nat
    BY <1>1
  <2>2. bill[b] = y
    OBVIOUS
  <2> QED
    BY <1>2, <2>1, <2>2, SumRemove
<1>5. SumFunctionOnSet(bill, (Wallets \ {a}) \ {b}) = 0
  <2>1. \A w \in (Wallets \ {a}) \ {b} : bill[w] = 0
    OBVIOUS
  <2> QED
    BY <1>2, <2>1, SumZero
<1> QED
  BY <1>3, <1>4, <1>5

\* Origination: the parties' wallets lose what vault and pool receive.
LEMMA LoanMade ==
  ASSUME IInv, NEW p \in OriginationParams, NEW mandate \in Ids \cup {0},
         NEW paidNow \in [deposit: Nat, premium: Nat],
         paidNow.deposit \in {0, p.deposit},
         paidNow.premium = IF paidNow.deposit > 0 THEN premiumFor(p) ELSE 0,
         _deployVault(p, mandate, paidNow)
  PROVE  \E v \in Loan :
           /\ vaults' = Append(vaults, v)
           /\ v.mandate = mandate /\ v.principal = p.principal
           /\ v.lender # v.borrower /\ v.deposit \in {0, v.requiredDeposit}
           /\ MoneyTyped'
           /\ reserve' = reserve + Paid(v)
           /\ SumFunctionOnSet(wallet, Wallets)
                = SumFunctionOnSet(wallet', Wallets) + v.balance + Paid(v)
<1> DEFINE skim == quoteInsuranceSkim(p.principal, p.aprBps, p.term)
           prem == premiumFor(p)
           fromLender == p.principal + skim
           fromBorrower == paidNow.deposit + paidNow.premium
           bill == [w \in Wallets |-> IF w = p.lender THEN fromLender
                                      ELSE IF w = p.borrower THEN fromBorrower
                                      ELSE 0]
           v == [mandate |-> mandate, lender |-> p.lender,
                 borrower |-> p.borrower, principal |-> p.principal,
                 aprBps |-> p.aprBps, deadline |-> now + p.term,
                 requiredDeposit |-> p.deposit, deposit |-> paidNow.deposit,
                 balance |-> p.principal + paidNow.deposit,
                 premium |-> prem, skim |-> skim]
<1>1. /\ Gates(p) /\ \A w \in Wallets : bill[w] <= Payable(w)
      /\ wallet' = [w \in Wallets |-> wallet[w] - bill[w]]
      /\ allowance' = [w \in Wallets |-> allowance[w] - bill[w]]
      /\ reserve' = reserve + skim + paidNow.premium
      /\ vaults' = Append(vaults, v)
  BY DEF _deployVault
<1>2. /\ p.lender \in Wallets /\ p.borrower \in Wallets /\ p.principal \in Nat
      /\ p.aprBps \in Nat /\ p.term \in Nat /\ p.deposit \in Nat \ {0}
      /\ p.lender # p.borrower
      /\ skim \in Nat /\ prem \in Nat /\ paidNow.deposit \in Nat
      /\ paidNow.premium \in Nat
  BY <1>1, ChargesType DEF OriginationParams, Gates
<1>3. v \in Loan
  <2>1. mandate \in Nat /\ now \in Nat
    BY BookIsTyped DEF IInv, BookTyped
  <2> HIDE DEF skim, prem
  <2> QED
    BY <1>2, <2>1 DEF Loan
<1>4. /\ v.mandate = mandate /\ v.principal = p.principal /\ v.lender = p.lender
      /\ v.borrower = p.borrower /\ v.deposit = paidNow.deposit
      /\ v.requiredDeposit = p.deposit /\ v.skim = skim /\ v.premium = prem
      /\ v.balance = p.principal + paidNow.deposit
  OBVIOUS
<1>5. Paid(v) = skim + paidNow.premium
  BY <1>4 DEF Paid
<1> HIDE DEF v, skim, prem
<1>6. \A w \in Wallets : bill[w] \in Nat /\ wallet[w] \in Nat /\ allowance[w] \in Nat
  BY <1>2 DEF IInv, MoneyTyped
<1>7. \A w \in Wallets : bill[w] <= wallet[w] /\ bill[w] <= allowance[w]
  <2> HIDE DEF bill
  <2> QED
    BY <1>1, <1>6 DEF Payable, AtMost
<1>8. SumFunctionOnSet(bill, Wallets) = fromLender + fromBorrower
  <2>1. fromLender \in Nat /\ fromBorrower \in Nat /\ IsFiniteSet(Wallets)
    BY <1>2, FactoryAssumption
  <2> HIDE DEF fromLender, fromBorrower
  <2>2. bill = [w \in Wallets |-> IF w = p.lender THEN fromLender
                                 ELSE IF w = p.borrower THEN fromBorrower ELSE 0]
    OBVIOUS
  <2> HIDE DEF bill
  <2> QED
    BY <1>2, <2>1, <2>2, BillOfTwo
<1> HIDE DEF bill
<1>9. wallet' \in [Wallets -> Nat] /\ allowance' \in [Wallets -> Nat]
  BY <1>1, <1>6, <1>7
<1>10. reserve \in Nat /\ reserve' \in Nat
  BY <1>1, <1>2 DEF IInv, MoneyTyped
<1>11. MoneyTyped'
  BY <1>1, <1>3, <1>9, <1>10, OneMoreLoan DEF IInv, MoneyTyped
<1>12. SumFunctionOnSet(wallet, Wallets)
         = SumFunctionOnSet(wallet', Wallets) + SumFunctionOnSet(bill, Wallets)
  <2>1. \A w \in Wallets : /\ wallet'[w] \in Nat /\ bill[w] \in Nat
                           /\ wallet[w] = wallet'[w] + bill[w]
    BY <1>1, <1>6, <1>9
  <2> QED
    BY <2>1, SumOfSums, FactoryAssumption
<1>13. SumFunctionOnSet(wallet', Wallets) \in Nat
  BY <1>9, SumType, FactoryAssumption
<1>14. SumFunctionOnSet(wallet, Wallets)
         = SumFunctionOnSet(wallet', Wallets) + v.balance + Paid(v)
  BY <1>2, <1>4, <1>5, <1>8, <1>12, <1>13
<1>15. reserve' = reserve + Paid(v)
  BY <1>1, <1>2, <1>5, <1>10
<1> QED
  BY <1>1, <1>2, <1>3, <1>4, <1>11, <1>14, <1>15

\* The borrower's payment into a loan made directly.
LEMMA LoanFunded ==
  ASSUME IInv, NEW i \in DOMAIN vaults, payDeposit(i)
  PROVE  \E v \in Loan :
           /\ vaults' = [vaults EXCEPT ![i] = v]
           /\ v.mandate = vaults[i].mandate /\ v.principal = vaults[i].principal
           /\ v.lender # v.borrower /\ v.deposit \in {0, v.requiredDeposit}
           /\ MoneyTyped'
           /\ Paid(v) = Paid(vaults[i]) + vaults[i].premium
           /\ v.balance = vaults[i].balance + vaults[i].requiredDeposit
           /\ reserve' = reserve + vaults[i].premium
           /\ SumFunctionOnSet(wallet, Wallets)
                = SumFunctionOnSet(wallet', Wallets)
                    + vaults[i].requiredDeposit + vaults[i].premium
<1> DEFINE u == vaults[i]
           v == [u EXCEPT !.deposit = u.requiredDeposit,
                          !.balance = u.balance + u.requiredDeposit]
           bill == u.requiredDeposit + u.premium
<1>1. u \in Loan
  BY LoansAreTyped DEF IInv
<1>2. /\ u.requiredDeposit \in Nat \ {0} /\ u.premium \in Nat /\ u.skim \in Nat
      /\ u.balance \in Nat /\ u.lender \in Wallets /\ u.borrower \in Wallets
  BY <1>1, LoanFigures
<1>3. /\ v \in Loan /\ v.mandate = u.mandate /\ v.principal = u.principal
      /\ v.lender = u.lender /\ v.borrower = u.borrower
      /\ v.deposit = u.requiredDeposit /\ v.requiredDeposit = u.requiredDeposit
      /\ v.premium = u.premium /\ v.skim = u.skim
      /\ v.balance = u.balance + u.requiredDeposit
  <2>1. u.requiredDeposit \in Nat /\ u.balance + u.requiredDeposit \in Nat
    BY <1>2
  <2>2. PICK x \in Nat, y \in Nat :
          x = u.requiredDeposit /\ y = u.balance + u.requiredDeposit
    BY <2>1
  <2>3. v = [u EXCEPT !.deposit = x, !.balance = y]
    BY <2>2
  <2> HIDE DEF u, v
  <2>4. /\ v \in Loan /\ v.mandate = u.mandate /\ v.principal = u.principal
        /\ v.lender = u.lender /\ v.borrower = u.borrower
        /\ v.deposit = x /\ v.balance = y /\ v.requiredDeposit = u.requiredDeposit
        /\ v.premium = u.premium /\ v.skim = u.skim
    BY <1>1, <2>3 DEF Loan
  <2> QED
    BY <2>2, <2>4
<1>4. /\ u.deposit = 0 /\ wallet[u.borrower] >= bill
      /\ wallet' = [wallet EXCEPT ![u.borrower] = wallet[u.borrower] - bill]
      /\ vaults' = [vaults EXCEPT ![i] = v]
      /\ reserve' = reserve + u.premium /\ UNCHANGED allowance
  BY DEF payDeposit
<1>5. u.lender # u.borrower
  BY DEF IInv, LoansSound
<1>6. Paid(v) = Paid(u) + u.premium
  BY <1>2, <1>3, <1>4 DEF Paid
<1> HIDE DEF v, u
<1>7. wallet \in [Wallets -> Nat] /\ reserve \in Nat /\ bill \in Nat
  BY <1>2 DEF IInv, MoneyTyped
<1> HIDE DEF bill
<1>8. /\ wallet' \in [Wallets -> Nat]
      /\ wallet'[u.borrower] = wallet[u.borrower] - bill
      /\ \A w \in Wallets \ {u.borrower} : wallet'[w] = wallet[w]
  BY <1>2, <1>4, <1>7
<1>9. vaults' \in Seq(Loan)
  <2>1. i \in 1 .. Len(vaults)
    BY LoansAreTyped DEF IInv
  <2> QED
    BY <1>3, <1>4, <2>1, ExceptSeq DEF IInv, MoneyTyped
<1>10. MoneyTyped'
  BY <1>2, <1>4, <1>7, <1>8, <1>9 DEF IInv, MoneyTyped
<1>11. SumFunctionOnSet(wallet, Wallets) = SumFunctionOnSet(wallet', Wallets) + bill
  <2>1. SumFunctionOnSet(wallet', Wallets) + wallet[u.borrower]
          = SumFunctionOnSet(wallet, Wallets) + wallet'[u.borrower]
    BY <1>2, <1>7, <1>8, SumChange, FactoryAssumption
  <2>2. /\ SumFunctionOnSet(wallet, Wallets) \in Nat
        /\ SumFunctionOnSet(wallet', Wallets) \in Nat
    BY <1>7, <1>8, SumType, FactoryAssumption
  <2>3. wallet[u.borrower] \in Nat
    BY <1>2, <1>7
  <2> QED
    BY <1>7, <1>8, <2>1, <2>2, <2>3
<1>12. SumFunctionOnSet(wallet', Wallets) \in Nat
  BY <1>8, SumType, FactoryAssumption
<1>13. SumFunctionOnSet(wallet, Wallets)
         = SumFunctionOnSet(wallet', Wallets) + u.requiredDeposit + u.premium
  BY <1>2, <1>11, <1>12 DEF bill
<1> QED
  BY <1>3, <1>4, <1>5, <1>6, <1>10, <1>13 DEF u


-----------------------------------------------------------------------------
(***************************************************************************)
(* The accounts: the book's count of a mandate is what was lent on it, and *)
(* the pool holds what every loan has paid it.                             *)
(***************************************************************************)
LentOn(id) == SumFunctionOnSet(PrincipalOf, FilledFrom(id))

Counted == \A id \in Ids : mandates[id].filled = LentOn(id)

Conserved ==
  /\ reserve = SumFunctionOnSet(PaidOf, DOMAIN vaults)
  /\ SumFunctionOnSet(wallet, Wallets)
       + SumFunctionOnSet(BalanceOf, DOMAIN vaults) + reserve
       = SumFunctionOnSet(Funds, Wallets)

LEMMA LoansOfMandate ==
  ASSUME MoneyTyped, NEW id
  PROVE  /\ IsFiniteSet(FilledFrom(id)) /\ FilledFrom(id) \subseteq DOMAIN vaults
         /\ \A i \in DOMAIN vaults : PrincipalOf[i] \in Nat
         /\ LentOn(id) \in Nat
<1>1. IsFiniteSet(FilledFrom(id)) /\ FilledFrom(id) \subseteq DOMAIN vaults
  BY LoansAreTyped, FS_Subset DEF FilledFrom
<1>2. \A i \in DOMAIN vaults : PrincipalOf[i] \in Nat
  BY LoansAreTyped, LoanFigures DEF PrincipalOf
<1>3. \A i \in FilledFrom(id) : PrincipalOf[i] \in Nat
  BY <1>1, <1>2
<1> QED
  BY <1>1, <1>2, <1>3, SumType DEF LentOn

\* A loan adds to what was lent on its own mandate and on no other.
LEMMA LentOnOneMore ==
  ASSUME MoneyTyped, NEW v \in Loan, vaults' = Append(vaults, v), NEW id
  PROVE  /\ id # v.mandate => FilledFrom(id)' = FilledFrom(id)
         /\ LentOn(id)' = IF id = v.mandate THEN LentOn(id) + v.principal
                          ELSE LentOn(id)
<1> DEFINE n == Len(vaults) + 1
<1>1. /\ DOMAIN vaults' = DOMAIN vaults \cup {n} /\ n \notin DOMAIN vaults
      /\ \A i \in DOMAIN vaults : vaults'[i] = vaults[i]
      /\ vaults'[n] = v
  BY OneMoreLoan
<1> HIDE DEF n
<1>2. FilledFrom(id)' = IF id = v.mandate THEN FilledFrom(id) \cup {n}
                        ELSE FilledFrom(id)
  BY <1>1 DEF FilledFrom
<1>3. /\ PrincipalOf'[n] = v.principal
      /\ \A i \in DOMAIN vaults : PrincipalOf'[i] = PrincipalOf[i]
  BY <1>1 DEF PrincipalOf
<1>4. /\ IsFiniteSet(FilledFrom(id)) /\ FilledFrom(id) \subseteq DOMAIN vaults
      /\ \A i \in FilledFrom(id) : PrincipalOf[i] \in Nat
  BY LoansOfMandate
<1>5. v.principal \in Nat
  BY LoanFigures
<1>6. \A i \in FilledFrom(id) : PrincipalOf'[i] = PrincipalOf[i]
  BY <1>3, <1>4
<1>7. CASE id = v.mandate
  <2>1. n \notin FilledFrom(id)
    BY <1>1, <1>4
  <2>2. SumFunctionOnSet(PrincipalOf', FilledFrom(id) \cup {n})
          = SumFunctionOnSet(PrincipalOf, FilledFrom(id)) + PrincipalOf'[n]
    <3>1. PrincipalOf'[n] \in Nat
      BY <1>3, <1>5
    <3>2. \A i \in FilledFrom(id) :
            PrincipalOf'[i] \in Nat /\ PrincipalOf[i] = PrincipalOf'[i]
      BY <1>4, <1>6
    <3> QED
      BY <1>4, <2>1, <3>1, <3>2, SumExtended
  <2> QED
    BY <1>2, <1>3, <1>7, <2>2 DEF LentOn
<1>8. CASE id # v.mandate
  <2>1. SumFunctionOnSet(PrincipalOf', FilledFrom(id))
          = SumFunctionOnSet(PrincipalOf, FilledFrom(id))
    BY <1>4, <1>6, SumEqual
  <2> QED
    BY <1>2, <1>8, <2>1 DEF LentOn
<1> QED
  BY <1>2, <1>7, <1>8

\* Origination keeps the accounts.
LEMMA ConservedByLoan ==
  ASSUME MoneyTyped, MoneyTyped', Conserved, NEW v \in Loan,
         vaults' = Append(vaults, v),
         reserve' = reserve + Paid(v),
         SumFunctionOnSet(wallet, Wallets)
           = SumFunctionOnSet(wallet', Wallets) + v.balance + Paid(v)
  PROVE  Conserved'
<1> DEFINE n == Len(vaults) + 1
<1>1. /\ DOMAIN vaults' = DOMAIN vaults \cup {n} /\ n \notin DOMAIN vaults
      /\ \A i \in DOMAIN vaults : vaults'[i] = vaults[i]
      /\ vaults'[n] = v
  BY OneMoreLoan
<1> HIDE DEF n
<1>2. /\ PaidOf'[n] = Paid(v) /\ BalanceOf'[n] = v.balance
      /\ \A i \in DOMAIN vaults : /\ PaidOf'[i] = PaidOf[i]
                                  /\ BalanceOf'[i] = BalanceOf[i]
  BY <1>1 DEF PaidOf, BalanceOf, Paid
<1>3. /\ IsFiniteSet(DOMAIN vaults)
      /\ \A i \in DOMAIN vaults : PaidOf[i] \in Nat /\ BalanceOf[i] \in Nat
  BY LoansAreTyped, LoanFigures DEF PaidOf, BalanceOf
<1>4. Paid(v) \in Nat /\ v.balance \in Nat
  BY LoanFigures
<1>5. SumFunctionOnSet(PaidOf', DOMAIN vaults')
        = SumFunctionOnSet(PaidOf, DOMAIN vaults) + Paid(v)
  <2>1. /\ PaidOf'[n] \in Nat
        /\ \A i \in DOMAIN vaults : PaidOf'[i] \in Nat /\ PaidOf[i] = PaidOf'[i]
    BY <1>2, <1>3, <1>4
  <2>2. SumFunctionOnSet(PaidOf', DOMAIN vaults \cup {n})
          = SumFunctionOnSet(PaidOf, DOMAIN vaults) + PaidOf'[n]
    BY <1>1, <1>3, <2>1, SumExtended
  <2> QED
    BY <1>1, <1>2, <2>2
<1>6. SumFunctionOnSet(BalanceOf', DOMAIN vaults')
        = SumFunctionOnSet(BalanceOf, DOMAIN vaults) + v.balance
  <2>1. /\ BalanceOf'[n] \in Nat
        /\ \A i \in DOMAIN vaults :
             BalanceOf'[i] \in Nat /\ BalanceOf[i] = BalanceOf'[i]
    BY <1>2, <1>3, <1>4
  <2>2. SumFunctionOnSet(BalanceOf', DOMAIN vaults \cup {n})
          = SumFunctionOnSet(BalanceOf, DOMAIN vaults) + BalanceOf'[n]
    BY <1>1, <1>3, <2>1, SumExtended
  <2> QED
    BY <1>1, <1>2, <2>2
<1>7. SumFunctionOnSet(BalanceOf, DOMAIN vaults) \in Nat
  BY <1>3, SumType
<1>8. /\ reserve \in Nat
      /\ SumFunctionOnSet(wallet', Wallets) \in Nat
  <2>1. \A w \in Wallets : wallet'[w] \in Nat
    BY DEF MoneyTyped
  <2> QED
    BY <2>1, SumType, FactoryAssumption DEF MoneyTyped
<1> QED
  BY <1>4, <1>5, <1>6, <1>7, <1>8 DEF Conserved

\* Paying a deposit in keeps the accounts and lends nothing.
LEMMA ConservedByDeposit ==
  ASSUME MoneyTyped, MoneyTyped', NEW i \in DOMAIN vaults, NEW v \in Loan,
         vaults' = [vaults EXCEPT ![i] = v],
         v.mandate = vaults[i].mandate, v.principal = vaults[i].principal,
         Paid(v) = Paid(vaults[i]) + vaults[i].premium,
         v.balance = vaults[i].balance + vaults[i].requiredDeposit,
         reserve' = reserve + vaults[i].premium,
         SumFunctionOnSet(wallet, Wallets)
           = SumFunctionOnSet(wallet', Wallets)
               + vaults[i].requiredDeposit + vaults[i].premium
  PROVE  /\ Conserved => Conserved'
         /\ \A id : FilledFrom(id)' = FilledFrom(id) /\ LentOn(id)' = LentOn(id)
<1>1. /\ DOMAIN vaults' = DOMAIN vaults
      /\ \A j \in DOMAIN vaults : vaults'[j] = IF j = i THEN v ELSE vaults[j]
  BY LoansAreTyped DEF MoneyTyped
<1>2. \A id : FilledFrom(id)' = FilledFrom(id)
  BY <1>1 DEF FilledFrom
<1>3. PrincipalOf' = PrincipalOf
  BY <1>1 DEF PrincipalOf
<1>4. /\ PaidOf'[i] = Paid(v) /\ BalanceOf'[i] = v.balance
      /\ PaidOf[i] = Paid(vaults[i]) /\ BalanceOf[i] = vaults[i].balance
      /\ \A j \in DOMAIN vaults \ {i} : /\ PaidOf[j] = PaidOf'[j]
                                        /\ BalanceOf[j] = BalanceOf'[j]
  BY <1>1 DEF PaidOf, BalanceOf, Paid
<1>5. /\ IsFiniteSet(DOMAIN vaults)
      /\ \A j \in DOMAIN vaults : PaidOf[j] \in Nat /\ BalanceOf[j] \in Nat
  BY LoansAreTyped, LoanFigures DEF PaidOf, BalanceOf
<1>6. /\ Paid(v) \in Nat /\ v.balance \in Nat /\ Paid(vaults[i]) \in Nat
      /\ vaults[i].balance \in Nat /\ vaults[i].premium \in Nat
      /\ vaults[i].requiredDeposit \in Nat
  BY LoansAreTyped, LoanFigures
<1>7. SumFunctionOnSet(PaidOf', DOMAIN vaults) + PaidOf[i]
        = SumFunctionOnSet(PaidOf, DOMAIN vaults) + PaidOf'[i]
  <2>1. PaidOf[i] \in Nat /\ PaidOf'[i] \in Nat
    BY <1>4, <1>6
  <2> QED
    BY <1>4, <1>5, <2>1, SumChange
<1>8. SumFunctionOnSet(BalanceOf', DOMAIN vaults) + BalanceOf[i]
        = SumFunctionOnSet(BalanceOf, DOMAIN vaults) + BalanceOf'[i]
  <2>1. BalanceOf[i] \in Nat /\ BalanceOf'[i] \in Nat
    BY <1>4, <1>6
  <2> QED
    BY <1>4, <1>5, <2>1, SumChange
<1>9. /\ \A j \in DOMAIN vaults : PaidOf'[j] \in Nat /\ BalanceOf'[j] \in Nat
      /\ SumFunctionOnSet(PaidOf, DOMAIN vaults) \in Nat
      /\ SumFunctionOnSet(BalanceOf, DOMAIN vaults) \in Nat
      /\ SumFunctionOnSet(PaidOf', DOMAIN vaults) \in Nat
      /\ SumFunctionOnSet(BalanceOf', DOMAIN vaults) \in Nat
  <2>1. \A j \in DOMAIN vaults : PaidOf'[j] \in Nat /\ BalanceOf'[j] \in Nat
    BY <1>4, <1>5, <1>6
  <2> QED
    BY <1>5, <2>1, SumType
<1>10. reserve \in Nat /\ SumFunctionOnSet(wallet', Wallets) \in Nat
  <2>1. \A w \in Wallets : wallet'[w] \in Nat
    BY DEF MoneyTyped
  <2> QED
    BY <2>1, SumType, FactoryAssumption DEF MoneyTyped
<1>11. /\ SumFunctionOnSet(PaidOf', DOMAIN vaults)
            = SumFunctionOnSet(PaidOf, DOMAIN vaults) + vaults[i].premium
       /\ SumFunctionOnSet(BalanceOf', DOMAIN vaults)
            = SumFunctionOnSet(BalanceOf, DOMAIN vaults) + vaults[i].requiredDeposit
  BY <1>4, <1>6, <1>7, <1>8, <1>9
<1>12. Conserved => Conserved'
  BY <1>1, <1>6, <1>9, <1>10, <1>11 DEF Conserved
<1> QED
  BY <1>2, <1>3, <1>12 DEF LentOn

LEMMA NoLoanMoves ==
  ASSUME UNCHANGED <<vaults, wallet, reserve>>
  PROVE  /\ Conserved => Conserved'
         /\ \A id : FilledFrom(id)' = FilledFrom(id) /\ LentOn(id)' = LentOn(id)
<1>1. PaidOf' = PaidOf /\ BalanceOf' = BalanceOf /\ PrincipalOf' = PrincipalOf
  BY DEF PaidOf, BalanceOf, PrincipalOf, Paid
<1>2. \A id : FilledFrom(id)' = FilledFrom(id)
  BY DEF FilledFrom
<1> QED
  BY <1>1, <1>2 DEF Conserved, LentOn

-----------------------------------------------------------------------------
(***************************************************************************)
(* The invariant, action by action.                                        *)
(***************************************************************************)
Inv == IInv /\ Counted /\ Conserved

LEMMA InitInv == Init => Inv
<1> SUFFICES ASSUME Init PROVE Inv
  OBVIOUS
<1>1. mandates = <<>> /\ vaults = <<>> /\ Ids = {} /\ DOMAIN vaults = {}
  BY DEF Init, Ids
<1>2. mandates \in Seq(Mandate) /\ vaults \in Seq(Loan)
  BY <1>1
<1>3. wallet = Funds /\ wallet \in [Wallets -> Nat] /\ allowance \in [Wallets -> Nat]
  BY FactoryAssumption DEF Init
<1>4. BookTyped
  <2>1. now \in 0 .. MaxTime
    BY FactoryAssumption DEF Init
  <2> QED
    BY <1>2, <2>1 DEF Init, BookTyped
<1>5. SettingsTyped /\ MoneyTyped
  BY <1>2, <1>3 DEF Init, SettingsTyped, MoneyTyped
<1>6. Withdrawal /\ FilledWithinCapacity /\ LoansSound /\ Counted
  BY <1>1 DEF Init, Withdrawal, FilledWithinCapacity, LoansSound, Counted
<1>7. /\ SumFunctionOnSet(PaidOf, DOMAIN vaults) = 0
      /\ SumFunctionOnSet(BalanceOf, DOMAIN vaults) = 0
  BY <1>1, SumEmpty
<1>8. SumFunctionOnSet(wallet, Wallets) \in Nat
  <2>1. \A w \in Wallets : wallet[w] \in Nat
    BY <1>3
  <2> QED
    BY <2>1, SumType, FactoryAssumption
<1>9. Conserved
  BY <1>3, <1>7, <1>8 DEF Init, Conserved
<1> QED
  BY <1>4, <1>5, <1>6, <1>9 DEF Inv, IInv

LEMMA PublishingKeepsInv ==
  ASSUME Inv, NEW lender \in Lenders, NEW t \in Offers, publishMandate(lender, t)
  PROVE  Inv' /\ UNCHANGED vaults
<1> DEFINE m == [terms |-> t, lender |-> lender,
                 expiry |-> now + t.validForSeconds,
                 nonce |-> lenderNonce[lender],
                 cancelled |-> FALSE, filled |-> 0]
           new == Len(mandates) + 1
<1>1. mandates' = Append(mandates, m)
  BY DEF publishMandate
<1>2. UNCHANGED <<lenderNonce, withdrawn, settingVars, registryVars, moneyVars, now>>
  BY DEF publishMandate
<1>3. lender \in Wallets /\ t \in OfferedTerms
  BY FactoryAssumption DEF publishMandate, OfferedTerms
<1>4. m \in Mandate
  <2>1. now + t.validForSeconds \in Nat /\ lenderNonce[lender] \in Nat
    BY <1>3, FactoryAssumption DEF Inv, IInv, BookTyped, OfferedTerms, MandateTerms
  <2> QED
    BY <1>3, <2>1 DEF Mandate
<1>5. /\ mandates' \in Seq(Mandate)
      /\ Len(mandates) \in Nat /\ Ids = 1 .. Len(mandates)
      /\ Ids' = 1 .. new
      /\ \A id \in Ids : mandates'[id] = mandates[id]
      /\ mandates'[new] = m
  BY <1>1, <1>4, AppendProperties, LenProperties DEF Inv, IInv, BookTyped, Ids
<1>6. BookTyped' /\ SettingsTyped' /\ MoneyTyped'
  BY <1>2, <1>5
  DEF Inv, IInv, BookTyped, SettingsTyped, MoneyTyped, settingVars, registryVars,
      moneyVars
<1>7. m.nonce = lenderNonce[m.lender] /\ m.filled = 0 /\ m.terms = t
  OBVIOUS
<1>8. m.nonce <= lenderNonce[m.lender] /\ m.filled <= m.terms.totalCapacity
  BY <1>3, <1>7 DEF Inv, IInv, BookTyped, OfferedTerms, MandateTerms
<1> HIDE DEF m
<1>9. \A id \in Ids' : id \in Ids \/ id = new
  BY <1>5
<1>10. Withdrawal'
  BY <1>2, <1>5, <1>8, <1>9 DEF Inv, IInv, Withdrawal
<1>11. FilledWithinCapacity'
  BY <1>5, <1>8, <1>9 DEF Inv, IInv, FilledWithinCapacity
<1>12. LoansSound'
  BY <1>2, <1>5 DEF Inv, IInv, LoansSound, moneyVars
<1>13. /\ Conserved'
       /\ \A id : FilledFrom(id)' = FilledFrom(id) /\ LentOn(id)' = LentOn(id)
  BY <1>2, NoLoanMoves DEF Inv, moneyVars
<1>14. ASSUME NEW id, id = new PROVE LentOn(id)' = 0
  <2>1. id \notin Ids \cup {0}
    BY <1>5, <1>14
  <2>2. FilledFrom(id) = {}
    BY <2>1 DEF Inv, IInv, LoansSound, FilledFrom
  <2>3. LentOn(id) = 0
    BY <2>2, SumEmpty DEF LentOn
  <2> QED
    BY <1>13, <2>3
<1>15. Counted'
  BY <1>5, <1>7, <1>9, <1>13, <1>14 DEF Inv, Counted
<1> QED
  BY <1>2, <1>6, <1>10, <1>11, <1>12, <1>13, <1>15 DEF Inv, IInv, moneyVars

LEMMA CancellingKeepsInv ==
  ASSUME Inv, NEW lender \in Lenders, NEW id \in Ids, cancelMandate(lender, id)
  PROVE  Inv' /\ UNCHANGED vaults
<1>1. /\ mandates' = [mandates EXCEPT ![id] = [mandates[id] EXCEPT !.cancelled = TRUE]]
      /\ withdrawn' = withdrawn \cup {id}
      /\ UNCHANGED <<lenderNonce, settingVars, registryVars, moneyVars, now>>
  BY DEF cancelMandate
<1>2. Ids = 1 .. Len(mandates) /\ \A i \in Ids : mandates[i] \in Mandate
  BY BookIsTyped DEF Inv, IInv
<1> DEFINE m == [mandates[id] EXCEPT !.cancelled = TRUE]
<1>3. /\ m \in Mandate /\ m.cancelled
      /\ m.nonce = mandates[id].nonce /\ m.lender = mandates[id].lender
      /\ m.filled = mandates[id].filled /\ m.terms = mandates[id].terms
  BY <1>2 DEF Mandate
<1> HIDE DEF m
<1>4. mandates' = [mandates EXCEPT ![id] = m]
  BY <1>1 DEF m
<1>5. mandates' \in Seq(Mandate) /\ Len(mandates') = Len(mandates)
  BY <1>2, <1>3, <1>4, ExceptSeq DEF Inv, IInv, BookTyped
<1>6. Ids' = Ids /\ \A i \in Ids : mandates'[i] = IF i = id THEN m ELSE mandates[i]
  BY <1>2, <1>4 DEF Ids
<1>7. BookTyped' /\ SettingsTyped' /\ MoneyTyped'
  BY <1>1, <1>5
  DEF Inv, IInv, BookTyped, SettingsTyped, MoneyTyped, settingVars, registryVars,
      moneyVars
<1>8. Withdrawal'
  BY <1>1, <1>3, <1>6 DEF Inv, IInv, Withdrawal
<1>9. FilledWithinCapacity'
  BY <1>3, <1>6 DEF Inv, IInv, FilledWithinCapacity
<1>10. LoansSound'
  BY <1>1, <1>6 DEF Inv, IInv, LoansSound, moneyVars
<1>11. Conserved' /\ \A i : LentOn(i)' = LentOn(i)
  BY <1>1, NoLoanMoves DEF Inv, moneyVars
<1>12. Counted'
  BY <1>3, <1>6, <1>11 DEF Inv, Counted
<1> QED
  BY <1>1, <1>7, <1>8, <1>9, <1>10, <1>11, <1>12 DEF Inv, IInv, moneyVars

LEMMA CancellingAllKeepsInv ==
  ASSUME Inv, NEW lender \in Lenders, cancelAllMandates(lender)
  PROVE  Inv' /\ UNCHANGED vaults
<1>1. /\ lenderNonce' = [lenderNonce EXCEPT ![lender] = lenderNonce[lender] + 1]
      /\ withdrawn' = withdrawn \cup {id \in Ids : mandates[id].lender = lender}
      /\ UNCHANGED <<mandates, settingVars, registryVars, moneyVars, now>>
  BY DEF cancelAllMandates
<1>2. lender \in Wallets /\ \A id \in Ids : mandates[id] \in Mandate
  BY BookIsTyped, FactoryAssumption DEF Inv, IInv
<1>3. /\ lenderNonce' \in [Wallets -> Nat]
      /\ \A w \in Wallets : lenderNonce[w] <= lenderNonce'[w]
      /\ lenderNonce[lender] < lenderNonce'[lender]
      /\ \A w \in Wallets : lenderNonce[w] \in Nat /\ lenderNonce'[w] \in Nat
  BY <1>1, <1>2 DEF Inv, IInv, BookTyped
<1>4. Ids' = Ids /\ mandates' = mandates
  BY <1>1 DEF Ids
<1>5. \A id \in Ids : mandates[id].lender \in Wallets /\ mandates[id].nonce \in Nat
  BY <1>2 DEF Mandate
<1>6. \A id \in Ids : mandates[id].nonce <= lenderNonce'[mandates[id].lender]
  BY <1>3, <1>5 DEF Inv, IInv, Withdrawal
<1>7. ASSUME NEW id \in withdrawn'
      PROVE  \/ mandates[id].cancelled
             \/ mandates[id].nonce < lenderNonce'[mandates[id].lender]
  <2>1. CASE id \in withdrawn
    BY <1>3, <1>5, <2>1 DEF Inv, IInv, Withdrawal
  <2>2. CASE id \in Ids /\ mandates[id].lender = lender
    BY <1>2, <1>3, <1>5, <2>2 DEF Inv, IInv, Withdrawal
  <2> QED
    BY <1>1, <2>1, <2>2
<1>8. withdrawn' \subseteq Ids
  BY <1>1 DEF Inv, IInv, Withdrawal
<1>9. Withdrawal'
  BY <1>4, <1>6, <1>7, <1>8 DEF Withdrawal
<1>10. BookTyped' /\ SettingsTyped' /\ MoneyTyped'
  BY <1>1, <1>3
  DEF Inv, IInv, BookTyped, SettingsTyped, MoneyTyped, settingVars, registryVars,
      moneyVars
<1>11. FilledWithinCapacity' /\ LoansSound'
  BY <1>1, <1>4 DEF Inv, IInv, FilledWithinCapacity, LoansSound, moneyVars
<1>12. Conserved' /\ \A i : LentOn(i)' = LentOn(i)
  BY <1>1, NoLoanMoves DEF Inv, moneyVars
<1>13. Counted'
  BY <1>4, <1>12 DEF Inv, Counted
<1> QED
  BY <1>1, <1>9, <1>10, <1>11, <1>12, <1>13 DEF Inv, IInv, moneyVars

\* A step that makes no loan and leaves the book alone.
LEMMA BookUntouched ==
  ASSUME Inv, UNCHANGED bookVars, UNCHANGED <<vaults, wallet, reserve>>,
         SettingsTyped', allowance' \in [Wallets -> Nat], now' \in 0 .. MaxTime
  PROVE  Inv'
<1>1. Ids' = Ids
  BY DEF bookVars, Ids
<1>2. Conserved' /\ \A id : LentOn(id)' = LentOn(id)
  BY NoLoanMoves DEF Inv
<1>3. Counted'
  BY <1>1, <1>2 DEF Inv, Counted, bookVars
<1>4. BookTyped' /\ MoneyTyped'
  BY DEF Inv, IInv, BookTyped, MoneyTyped, bookVars
<1>5. LoansSound' /\ Withdrawal' /\ FilledWithinCapacity'
  BY <1>1 DEF Inv, IInv, LoansSound, Withdrawal, FilledWithinCapacity, bookVars
<1> QED
  BY <1>2, <1>3, <1>4, <1>5 DEF Inv, IInv

\* A loan that is made: what is left for the book to follow.
LEMMA LoanKeepsInv ==
  ASSUME Inv, NEW p \in OriginationParams, NEW mandate \in Ids \cup {0},
         NEW paidNow \in [deposit: Nat, premium: Nat],
         paidNow.deposit \in {0, p.deposit},
         paidNow.premium = IF paidNow.deposit > 0 THEN premiumFor(p) ELSE 0,
         _deployVault(p, mandate, paidNow), Ids' = Ids
  PROVE  /\ MoneyTyped' /\ LoansSound' /\ Conserved'
         /\ \A id : /\ id # mandate => FilledFrom(id)' = FilledFrom(id)
                    /\ LentOn(id)' = IF id = mandate THEN LentOn(id) + p.principal
                                     ELSE LentOn(id)
<1>1. PICK v \in Loan :
        /\ vaults' = Append(vaults, v)
        /\ v.mandate = mandate /\ v.principal = p.principal
        /\ v.lender # v.borrower /\ v.deposit \in {0, v.requiredDeposit}
        /\ MoneyTyped'
        /\ reserve' = reserve + Paid(v)
        /\ SumFunctionOnSet(wallet, Wallets)
             = SumFunctionOnSet(wallet', Wallets) + v.balance + Paid(v)
  BY LoanMade DEF Inv
<1>2. Conserved'
  BY <1>1, ConservedByLoan DEF Inv, IInv
<1>3. \A id : /\ id # mandate => FilledFrom(id)' = FilledFrom(id)
              /\ LentOn(id)' = IF id = mandate THEN LentOn(id) + p.principal
                               ELSE LentOn(id)
  BY <1>1, LentOnOneMore DEF Inv, IInv
<1>4. /\ DOMAIN vaults' = DOMAIN vaults \cup {Len(vaults) + 1}
      /\ \A i \in DOMAIN vaults : vaults'[i] = vaults[i]
      /\ vaults'[Len(vaults) + 1] = v
  BY <1>1, OneMoreLoan DEF Inv, IInv
<1>5. LoansSound'
  BY <1>1, <1>4 DEF Inv, IInv, LoansSound
<1> QED
  BY <1>1, <1>2, <1>3, <1>5

LEMMA DeployingKeepsInv ==
  ASSUME Inv, NEW lender \in Lenders, NEW borrower \in Borrowers,
         NEW offer \in DirectTerms, deployVault(lender, borrower, offer)
  PROVE  Inv' /\ \A id \in Ids : FilledFrom(id)' = FilledFrom(id)
<1> DEFINE p == [lender |-> lender, borrower |-> borrower,
                 principal |-> offer.principal, aprBps |-> offer.aprBps,
                 term |-> offer.term, deposit |-> offer.deposit,
                 maxTier |-> offer.maxTier]
           paidNow == [deposit |-> 0, premium |-> 0]
<1>1. /\ _deployVault(p, 0, paidNow)
      /\ UNCHANGED <<bookVars, settingVars, registryVars, now>>
  BY DEF deployVault
<1>2. /\ p \in OriginationParams /\ paidNow \in [deposit: Nat, premium: Nat]
      /\ paidNow.deposit = 0 /\ paidNow.premium = 0
  BY FactoryAssumption DEF DirectOffer, OriginationParams
<1> HIDE DEF p, paidNow
<1>3. Ids' = Ids /\ 0 \notin Ids
  BY <1>1, BookIsTyped DEF Inv, IInv, bookVars, Ids
<1>4. /\ MoneyTyped' /\ LoansSound' /\ Conserved'
      /\ \A id : id # 0 => /\ FilledFrom(id)' = FilledFrom(id)
                           /\ LentOn(id)' = LentOn(id)
  <2>1. /\ 0 \in Ids \cup {0} /\ paidNow.deposit \in {0, p.deposit}
        /\ paidNow.premium = IF paidNow.deposit > 0 THEN premiumFor(p) ELSE 0
    BY <1>2
  <2> QED
    BY <1>1, <1>2, <1>3, <2>1, LoanKeepsInv
<1>5. BookTyped' /\ SettingsTyped'
  BY <1>1 DEF Inv, IInv, BookTyped, SettingsTyped, bookVars, settingVars, registryVars
<1>6. Withdrawal' /\ FilledWithinCapacity'
  BY <1>1, <1>3 DEF Inv, IInv, Withdrawal, FilledWithinCapacity, bookVars
<1>7. Counted'
  BY <1>1, <1>3, <1>4 DEF Inv, Counted, bookVars
<1> QED
  BY <1>3, <1>4, <1>5, <1>6, <1>7 DEF Inv, IInv

LEMMA PayingKeepsInv ==
  ASSUME Inv, NEW i \in DOMAIN vaults, payDeposit(i)
  PROVE  Inv' /\ \A id \in Ids : FilledFrom(id)' = FilledFrom(id)
<1>1. UNCHANGED <<bookVars, settingVars, registryVars, now>>
  BY DEF payDeposit
<1>2. PICK v \in Loan :
        /\ vaults' = [vaults EXCEPT ![i] = v]
        /\ v.mandate = vaults[i].mandate /\ v.principal = vaults[i].principal
        /\ v.lender # v.borrower /\ v.deposit \in {0, v.requiredDeposit}
        /\ MoneyTyped'
        /\ Paid(v) = Paid(vaults[i]) + vaults[i].premium
        /\ v.balance = vaults[i].balance + vaults[i].requiredDeposit
        /\ reserve' = reserve + vaults[i].premium
        /\ SumFunctionOnSet(wallet, Wallets)
             = SumFunctionOnSet(wallet', Wallets)
                 + vaults[i].requiredDeposit + vaults[i].premium
  BY LoanFunded DEF Inv
<1>3. Conserved' /\ \A id : FilledFrom(id)' = FilledFrom(id) /\ LentOn(id)' = LentOn(id)
  BY <1>2, ConservedByDeposit DEF Inv, IInv
<1>4. Ids' = Ids
  BY <1>1 DEF bookVars, Ids
<1>5. /\ DOMAIN vaults' = DOMAIN vaults
      /\ \A j \in DOMAIN vaults : vaults'[j] = IF j = i THEN v ELSE vaults[j]
  BY <1>2, LoansAreTyped DEF Inv, IInv, MoneyTyped
<1>6. LoansSound'
  BY <1>2, <1>4, <1>5 DEF Inv, IInv, LoansSound
<1>7. BookTyped' /\ SettingsTyped'
  BY <1>1 DEF Inv, IInv, BookTyped, SettingsTyped, bookVars, settingVars, registryVars
<1>8. Withdrawal' /\ FilledWithinCapacity' /\ Counted'
  BY <1>1, <1>3, <1>4
  DEF Inv, IInv, Withdrawal, FilledWithinCapacity, Counted, bookVars
<1> QED
  BY <1>2, <1>3, <1>6, <1>7, <1>8 DEF Inv, IInv

LEMMA FillingKeepsInv ==
  ASSUME Inv, NEW borrower \in Borrowers, NEW id \in Ids,
         NEW principal \in Principals, NEW term \in Tenors,
         NEW deposit \in Deposits, NEW maxAprBps \in Limits,
         fillMandate(borrower, id, principal, term, deposit, maxAprBps)
  PROVE  /\ Inv'
         /\ isMandateLive(id)
         /\ \A other : other # id => FilledFrom(other)' = FilledFrom(other)
<1> DEFINE apr == quoteMandateApr(id, term, (deposit * BPS) \div principal)
           p == [lender |-> mandates[id].lender, borrower |-> borrower,
                 principal |-> principal, aprBps |-> apr, term |-> term,
                 deposit |-> deposit, maxTier |-> mandates[id].terms.maxTier]
           paidNow == [deposit |-> deposit, premium |-> premiumFor(p)]
           m == [mandates[id] EXCEPT !.filled = mandates[id].filled + principal]
<1>1. /\ mandates' = [mandates EXCEPT ![id] = m]
      /\ UNCHANGED <<lenderNonce, withdrawn, settingVars, registryVars, now>>
      /\ isMandateLive(id)
      /\ principal <= mandateRemaining(id)
      /\ _deployVault(p, id, paidNow)
  BY DEF fillMandate, WithinBounds, filledAfter, _fundBorrowerSide
<1>2. Ids = 1 .. Len(mandates) /\ \A i \in Ids : mandates[i] \in Mandate
  BY BookIsTyped DEF Inv, IInv
<1>3. principal \in Nat \ {0} /\ deposit \in Nat \ {0} /\ term \in Nat
  BY <1>1, FactoryAssumption DEF _deployVault, Gates
<1>4. apr \in Nat
  <2>1. deposit * BPS \in Nat
    BY <1>3, ProductType DEF BPS
  <2>2. (deposit * BPS) \div principal \in Nat
    BY <1>3, <2>1, DivBounds
  <2> QED
    BY <1>3, <2>2, PriceType DEF Inv
<1> HIDE DEF apr
<1>5. p \in OriginationParams
  BY <1>2, <1>3, <1>4, FactoryAssumption
  DEF Mandate, OfferedTerms, MandateTerms, OriginationParams
<1>6. p.principal = principal /\ p.deposit = deposit
  OBVIOUS
<1> HIDE DEF p
<1>7. /\ paidNow \in [deposit: Nat, premium: Nat]
      /\ paidNow.deposit = p.deposit
      /\ paidNow.premium = IF paidNow.deposit > 0 THEN premiumFor(p) ELSE 0
  <2>1. premiumFor(p) \in Nat
    BY <1>5, ChargesType DEF Inv
  <2> QED
    BY <1>3, <1>6, <2>1
<1> HIDE DEF paidNow
<1>8. /\ m \in Mandate /\ m.cancelled = mandates[id].cancelled
      /\ m.nonce = mandates[id].nonce /\ m.lender = mandates[id].lender
      /\ m.filled = mandates[id].filled + principal /\ m.terms = mandates[id].terms
  BY <1>2, <1>3 DEF Mandate
<1> HIDE DEF m
<1>9. mandates' \in Seq(Mandate) /\ Len(mandates') = Len(mandates)
  BY <1>1, <1>2, <1>8, ExceptSeq DEF Inv, IInv, BookTyped
<1>10. Ids' = Ids /\ \A i \in Ids : mandates'[i] = IF i = id THEN m ELSE mandates[i]
  BY <1>1, <1>2 DEF Ids
<1>11. /\ MoneyTyped' /\ LoansSound' /\ Conserved'
       /\ \A i : /\ i # id => FilledFrom(i)' = FilledFrom(i)
                 /\ LentOn(i)' = IF i = id THEN LentOn(i) + p.principal
                                 ELSE LentOn(i)
  BY <1>1, <1>5, <1>7, <1>10, LoanKeepsInv
<1>12. m.filled <= m.terms.totalCapacity
  <2>1. /\ mandates[id].filled \in Nat
        /\ mandates[id].terms.totalCapacity \in Nat
    BY <1>2 DEF Mandate, OfferedTerms, MandateTerms
  <2>2. principal <= mandates[id].terms.totalCapacity - mandates[id].filled
    BY <1>1 DEF mandateRemaining
  <2> QED
    BY <1>3, <1>8, <2>1, <2>2
<1>13. BookTyped' /\ SettingsTyped'
  BY <1>1, <1>9
  DEF Inv, IInv, BookTyped, SettingsTyped, settingVars, registryVars
<1>14. Withdrawal'
  BY <1>1, <1>8, <1>10 DEF Inv, IInv, Withdrawal
<1>15. FilledWithinCapacity'
  BY <1>10, <1>12 DEF Inv, IInv, FilledWithinCapacity
<1>16. Counted'
  BY <1>6, <1>8, <1>10, <1>11 DEF Inv, Counted
<1> QED
  BY <1>1, <1>11, <1>13, <1>14, <1>15, <1>16 DEF Inv, IInv

\* What the operator, the owner, the token and the clock do.
LEMMA ElsewhereKeepsInv ==
  ASSUME Inv,
         \/ Administration
         \/ \E w \in Wallets, amount \in Allowances : Approve(w, amount)
         \/ Tick \/ UNCHANGED vars
  PROVE  Inv' /\ UNCHANGED vaults
<1>1. allowance \in [Wallets -> Nat] /\ now \in 0 .. MaxTime /\ SettingsTyped
  BY DEF Inv, IInv, MoneyTyped, BookTyped
<1>2. CASE Administration
  <2>1. /\ UNCHANGED bookVars /\ UNCHANGED <<vaults, wallet, reserve>>
        /\ UNCHANGED <<allowance, now>>
    BY <1>2 DEF Administration, setRisk, List, Screen, setInsuranceSkimRateBps,
                setMaxMandateDuration, moneyVars
  <2>2. SettingsTyped'
    <3>1. CASE \E config \in RiskConfigs, coeffBps \in Coefficients :
                 setRisk(config, coeffBps)
      BY <1>1, <3>1 DEF setRisk, SettingsTyped, settingVars
    <3>2. CASE \E listed \in BOOLEAN : List(listed)
      BY <1>1, <3>2 DEF List, SettingsTyped, settingVars
    <3>3. CASE \E pair \in Screened : Screen(pair)
      BY <1>1, <3>3, FactoryAssumption DEF Screen, SettingsTyped, settingVars
    <3>4. CASE \E bps \in SkimRates : setInsuranceSkimRateBps(bps)
      BY <1>1, <3>4 DEF setInsuranceSkimRateBps, SettingsTyped, registryVars
    <3>5. CASE \E seconds \in Durations : setMaxMandateDuration(seconds)
      BY <1>1, <3>5 DEF setMaxMandateDuration, SettingsTyped, registryVars
    <3> QED
      BY <1>2, <3>1, <3>2, <3>3, <3>4, <3>5 DEF Administration
  <2> QED
    BY <1>1, <2>1, <2>2, BookUntouched
<1>3. CASE \E w \in Wallets, amount \in Allowances : Approve(w, amount)
  <2>1. /\ UNCHANGED bookVars /\ UNCHANGED <<vaults, wallet, reserve>>
        /\ UNCHANGED <<settingVars, registryVars, now>>
        /\ allowance' \in [Wallets -> Nat]
    BY <1>1, <1>3, FactoryAssumption DEF Approve
  <2>2. SettingsTyped'
    BY <1>1, <2>1 DEF SettingsTyped, settingVars, registryVars
  <2> QED
    BY <1>1, <2>1, <2>2, BookUntouched
<1>4. CASE Tick \/ UNCHANGED vars
  <2>1. /\ UNCHANGED bookVars /\ UNCHANGED <<vaults, wallet, reserve>>
        /\ UNCHANGED <<settingVars, registryVars, allowance>>
    BY <1>4 DEF Tick, vars, moneyVars
  <2>2. now' \in 0 .. MaxTime
    BY <1>1, <1>4, FactoryAssumption DEF Tick, vars
  <2>3. SettingsTyped'
    BY <1>1, <2>1 DEF SettingsTyped, settingVars, registryVars
  <2> QED
    BY <1>1, <2>1, <2>2, <2>3, BookUntouched
<1> QED
  BY <1>2, <1>3, <1>4

\* What a step may do to the invariant and to the loans made of a mandate.
LEMMA StepIsFair ==
  ASSUME Inv, [Next]_vars
  PROVE  /\ Inv'
         /\ \A id \in Ids : FilledFrom(id)' # FilledFrom(id) => isMandateLive(id)
<1> DEFINE OnlyOfLive ==
      \A id \in Ids : FilledFrom(id)' # FilledFrom(id) => isMandateLive(id)
<1>1. ASSUME UNCHANGED vaults PROVE OnlyOfLive
  BY <1>1 DEF FilledFrom
<1>2. CASE Lending
  <2>1. CASE \E lender \in Lenders, t \in Offers : publishMandate(lender, t)
    BY <1>1, <2>1, PublishingKeepsInv
  <2>2. CASE \E lender \in Lenders, id \in Ids : cancelMandate(lender, id)
    BY <1>1, <2>2, CancellingKeepsInv
  <2>3. CASE \E lender \in Lenders : cancelAllMandates(lender)
    BY <1>1, <2>3, CancellingAllKeepsInv
  <2>4. CASE \E lender \in Lenders, borrower \in Borrowers, offer \in DirectTerms :
               deployVault(lender, borrower, offer)
    BY <2>4, DeployingKeepsInv
  <2> QED
    BY <1>2, <2>1, <2>2, <2>3, <2>4 DEF Lending
<1>3. CASE Borrowing
  <2>1. CASE \E borrower \in Borrowers, id \in Ids, principal \in Principals,
                term \in Tenors, deposit \in Deposits, maxAprBps \in Limits :
               fillMandate(borrower, id, principal, term, deposit, maxAprBps)
    BY <2>1, FillingKeepsInv
  <2>2. CASE \E i \in DOMAIN vaults : payDeposit(i)
    BY <2>2, PayingKeepsInv
  <2> QED
    BY <1>3, <2>1, <2>2 DEF Borrowing
<1>4. CASE \/ Administration
           \/ \E w \in Wallets, amount \in Allowances : Approve(w, amount)
           \/ Tick \/ UNCHANGED vars
  BY <1>1, <1>4, ElsewhereKeepsInv
<1> QED
  BY <1>2, <1>3, <1>4 DEF Next

THEOREM InvariantHolds == Spec => []Inv
<1>1. Inv /\ [Next]_vars => Inv'
  BY StepIsFair
<1> QED
  BY <1>1, InitInv, PTL DEF Spec

-----------------------------------------------------------------------------
(***************************************************************************)
(* What the invariant says of the factory.                                 *)
(***************************************************************************)
\* Everything in the book, the log of loans and the wallets keeps its type;
\* nobody pays what they do not have and no mandate is overdrawn.
THEOREM FactoryIsTyped == Spec => []TypeOK
<1>1. Inv => TypeOK
  <2> SUFFICES ASSUME Inv PROVE TypeOK
    OBVIOUS
  <2>1. /\ BookTyped /\ SettingsTyped /\ MoneyTyped /\ LoansSound /\ Withdrawal
        /\ FilledWithinCapacity
    BY DEF Inv, IInv
  <2>2. ASSUME NEW id \in Ids
        PROVE  /\ mandates[id].terms \in MandateTerms /\ WellFormed(mandates[id].terms)
               /\ mandates[id].lender \in Wallets /\ mandates[id].expiry \in Nat
               /\ mandates[id].nonce \in 0 .. lenderNonce[mandates[id].lender]
               /\ mandates[id].cancelled \in BOOLEAN
               /\ mandates[id].filled \in 0 .. mandates[id].terms.totalCapacity
    <3>1. mandates[id] \in Mandate
      BY <2>1, BookIsTyped
    <3>2. /\ mandates[id].terms \in MandateTerms /\ WellFormed(mandates[id].terms)
          /\ mandates[id].lender \in Wallets /\ mandates[id].expiry \in Nat
          /\ mandates[id].nonce \in Nat /\ mandates[id].cancelled \in BOOLEAN
          /\ mandates[id].filled \in Nat
      BY <3>1 DEF Mandate, OfferedTerms
    <3>3. /\ mandates[id].terms.totalCapacity \in Nat
          /\ lenderNonce[mandates[id].lender] \in Nat
      BY <2>1, <3>2 DEF MandateTerms, BookTyped
    <3> QED
      BY <2>1, <3>2, <3>3 DEF Withdrawal, FilledWithinCapacity
  <2>3. ASSUME NEW i \in DOMAIN vaults
        PROVE  /\ vaults[i].mandate \in Ids \cup {0}
               /\ vaults[i].lender # vaults[i].borrower
               /\ vaults[i].deposit \in {0, vaults[i].requiredDeposit}
               /\ vaults[i].balance \in Nat
               /\ vaults[i].premium \in Nat /\ vaults[i].skim \in Nat
    BY <2>1, LoansAreTyped, LoanFigures DEF LoansSound
  <2> QED
    BY <2>1, <2>2, <2>3
    DEF TypeOK, BookTyped, SettingsTyped, MoneyTyped, Withdrawal
<1> QED
  BY <1>1, InvariantHolds, PTL

\* mandateRemaining() cannot underflow: the book never counts more as lent
\* than the lender offered.
THEOREM FillsStayWithinCapacity == Spec => []FilledWithinCapacity
<1>1. Inv => FilledWithinCapacity
  BY DEF Inv, IInv
<1> QED
  BY <1>1, InvariantHolds, PTL

\* Item 13: however many borrowers fill a mandate and in whatever sizes, the
\* book's count is the sum of the principals really lent, and the lender's
\* capacity bounds them all together.
THEOREM CapacityBoundsEveryFill == Spec => []CapacityBoundsAllFills
<1>1. Inv => CapacityBoundsAllFills
  BY DEF Inv, IInv, Counted, LentOn, PrincipalOf, FilledWithinCapacity,
         CapacityBoundsAllFills
<1> QED
  BY <1>1, InvariantHolds, PTL

\* The pool holds every skim and every premium due to it, and not a unit of
\* the loan asset is made, lost or kept by the factory.
THEOREM OriginationConserves == Spec => []PoolIsPaid
<1>1. Inv => PoolIsPaid
  BY DEF Inv, Conserved, PaidOf, BalanceOf, Paid, PoolIsPaid
<1> QED
  BY <1>1, InvariantHolds, PTL

\* No live mandate's price has a cheap corner, whatever its terms and the
\* registry's settings: not for a compelled deposit, not for a larger or a
\* longer loan, never below the lender's minimum.
THEOREM NoCheapCorner == Spec => []PriceSurface
<1>1. Inv => PriceSurface
  BY SurfaceHolds DEF Inv
<1> QED
  BY <1>1, InvariantHolds, PTL

\* At every tier, whatever the operator sets, four times the term asks for
\* twice the deposit to within the rounding of a root.
THEOREM FloorIsSquareRoot == Spec => []FloorFollowsRootOfTerm
<1>1. Inv => FloorFollowsRootOfTerm
  BY FloorFollows DEF Inv
<1> QED
  BY <1>1, InvariantHolds, PTL

\* A live mandate is not one that was taken back.
LEMMA WithdrawnIsNotLive ==
  ASSUME Inv, NEW id \in withdrawn
  PROVE  ~isMandateLive(id)
<1>1. id \in Ids
  BY DEF Inv, IInv, Withdrawal
<1>2. mandates[id] \in Mandate
  BY <1>1, BookIsTyped DEF Inv, IInv
<1>3. mandates[id].nonce \in Nat /\ lenderNonce[mandates[id].lender] \in Nat
  BY <1>2 DEF Inv, IInv, BookTyped, Mandate
<1> QED
  BY <1>3 DEF Inv, IInv, Withdrawal, isMandateLive

\* No loan is ever made of a mandate its lender took back or let expire.
THEOREM WithdrawnForGood == Spec => WithdrawnStaysWithdrawn
<1> DEFINE OnlyOfStanding ==
      \A id \in Ids : FilledFrom(id)' # FilledFrom(id)
        => id \notin withdrawn /\ now <= mandates[id].expiry
<1>1. ASSUME Inv, [Next]_vars PROVE OnlyOfStanding
  BY <1>1, StepIsFair, WithdrawnIsNotLive DEF isMandateLive
<1>2. Inv /\ [Next]_vars => [OnlyOfStanding]_vars
  BY <1>1
<1> QED
  BY <1>2, InvariantHolds, PTL DEF Spec, WithdrawnStaysWithdrawn

=============================================================================
