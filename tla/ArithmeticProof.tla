-------------------------- MODULE ArithmeticProof --------------------------
(***************************************************************************)
(* Facts that the proofs of the other modules cite.  Induction over finite *)
(* sets and over intervals, as the existence of a smallest counterexample; *)
(* sums over finite sets, from the definition of SumFunctionOnSet; and the *)
(* arithmetic of LoanMath.  All numbers are naturals, as uint256 is.       *)
(***************************************************************************)
EXTENDS LoanMath, Functions, FiniteSetTheorems, TLAPS

(***************************************************************************)
(* Induction.                                                              *)
(***************************************************************************)
\* Every nonempty family of subsets of a finite set has a smallest member.
LEMMA FiniteWellFounded ==
  ASSUME NEW S, IsFiniteSet(S), NEW F, F \subseteq SUBSET S, F # {}
  PROVE  \E T \in F : \A U \in F : U \subseteq T => U = T
<1>1. IsWellFoundedOn(StrictSubsetOrdering(S), SUBSET S)
  BY FS_StrictSubsetOrderingWellFounded, FS_FiniteSubsetsOfFinite
<1>2. PICK T \in F : \A U \in F : <<U, T>> \notin StrictSubsetOrdering(S)
  BY <1>1, WFMin
<1> QED
  BY <1>2 DEF StrictSubsetOrdering

\* What holds of nothing, and of a set with one element more, holds of all.
LEMMA SetInduction ==
  ASSUME NEW S, IsFiniteSet(S), NEW G, {} \in G,
         \A T \in SUBSET S : \A x \in S \ T : T \in G => T \cup {x} \in G
  PROVE  S \in G
<1> DEFINE bad == {T \in SUBSET S : T \notin G}
<1>1. SUFFICES ASSUME bad # {} PROVE FALSE
  OBVIOUS
<1>2. PICK T \in bad : \A U \in bad : U \subseteq T => U = T
  <2>1. bad \subseteq SUBSET S
    OBVIOUS
  <2> HIDE DEF bad
  <2> QED
    BY <1>1, <2>1, FiniteWellFounded
<1>3. PICK x : x \in T
  BY <1>2
<1>4. T \ {x} \in SUBSET S /\ x \in S \ (T \ {x}) /\ (T \ {x}) \cup {x} = T
  BY <1>2, <1>3
<1>5. T \ {x} \in G
  BY <1>2, <1>3
<1> QED
  BY <1>2, <1>4, <1>5

\* What holds of 0, and of the next number, holds up to n.
LEMMA IntervalInduction ==
  ASSUME NEW n \in Nat, NEW G, 0 \in G,
         \A i \in 0 .. n : i < n /\ i \in G => i + 1 \in G
  PROVE  0 .. n \subseteq G
<1> DEFINE whole == 0 .. n
           bad == {0 .. i : i \in {j \in whole : j \notin G}}
<1>1. SUFFICES ASSUME bad # {} PROVE FALSE
  OBVIOUS
<1>2. IsFiniteSet(whole)
  <2>1. 0 \in Int /\ n \in Int
    OBVIOUS
  <2> QED
    BY <2>1, FS_Interval
<1>3. PICK T \in bad : \A U \in bad : U \subseteq T => U = T
  <2>1. bad \subseteq SUBSET whole
    OBVIOUS
  <2> HIDE DEF bad, whole
  <2> QED
    BY <1>1, <1>2, <2>1, FiniteWellFounded
<1>4. PICK i \in 0 .. n : i \notin G /\ T = 0 .. i
  BY <1>3
<1>5. i - 1 \in 0 .. n /\ i - 1 \in G
  <2>1. i # 0 /\ i - 1 \in 0 .. n
    BY <1>4
  <2>2. 0 .. i - 1 \subseteq T /\ 0 .. i - 1 # T
    BY <1>4, <2>1
  <2> QED
    BY <1>3, <2>1, <2>2
<1> QED
  BY <1>4, <1>5

-----------------------------------------------------------------------------
(***************************************************************************)
(* Sums.                                                                   *)
(***************************************************************************)
\* The element of a set that the library's sum takes first, one step of its
\* recursion, and the table it computes.
Chosen(S) == CHOOSE x \in S : TRUE

LEMMA SomeIsIn ==
  ASSUME NEW S, S # {}
  PROVE  Chosen(S) \in S
BY DEF Chosen

Step(f, g, s) == IF s = {} THEN 0 ELSE f[Chosen(s)] + g[s \ {Chosen(s)}]

Adds(f, g, S) == g = [s \in SUBSET S |-> Step(f, g, s)]

LEMMA SumUnfolded ==
  ASSUME NEW f, NEW S
  PROVE  SumFunctionOnSet(f, S) = (CHOOSE g : Adds(f, g, S))[S]
BY DEF SumFunctionOnSet, FoldFunctionOnSet, MapThenFoldSet, Adds, Step, Chosen

\* Two tables of sums agree wherever both are defined.
LEMMA TablesAgree ==
  ASSUME NEW f, NEW S, NEW T, IsFiniteSet(T), T \subseteq S,
         NEW g, NEW h, Adds(f, g, S), Adds(f, h, T)
  PROVE  \A s \in SUBSET T : g[s] = h[s]
<1> DEFINE bad == {s \in SUBSET T : g[s] # h[s]}
<1>1. SUFFICES ASSUME bad # {} PROVE FALSE
  OBVIOUS
<1>2. PICK s \in bad : \A u \in bad : u \subseteq s => u = s
  <2>1. bad \subseteq SUBSET T
    OBVIOUS
  <2> HIDE DEF bad
  <2> QED
    BY <1>1, <2>1, FiniteWellFounded
<1>3. g[s] = Step(f, g, s) /\ h[s] = Step(f, h, s)
  BY <1>2 DEF Adds
<1>4. s # {}
  BY <1>2, <1>3 DEF Step
<1>5. Chosen(s) \in s
  BY <1>4, SomeIsIn
<1>6. s \ {Chosen(s)} \in SUBSET T /\ g[s \ {Chosen(s)}] = h[s \ {Chosen(s)}]
  BY <1>2, <1>5
<1> QED
  BY <1>2, <1>3, <1>4, <1>6 DEF Step

\* There is such a table, built from those of the smaller sets.
LEMMA TableExists ==
  ASSUME NEW f, NEW S, IsFiniteSet(S)
  PROVE  \E g : Adds(f, g, S)
<1> DEFINE bad == {T \in SUBSET S : ~ \E g : Adds(f, g, T)}
<1>1. SUFFICES ASSUME bad # {} PROVE FALSE
  OBVIOUS
<1>2. PICK T \in bad : \A U \in bad : U \subseteq T => U = T
  <2>1. bad \subseteq SUBSET S
    OBVIOUS
  <2> HIDE DEF bad
  <2> QED
    BY <1>1, <2>1, FiniteWellFounded
<1> DEFINE table(U) == CHOOSE g : Adds(f, g, U)
           whole == [U \in SUBSET T |->
                       IF U = T
                       THEN IF T = {} THEN 0
                            ELSE f[Chosen(T)] + table(T \ {Chosen(T)})[T \ {Chosen(T)}]
                       ELSE table(U)[U]]
<1>3. ASSUME NEW U \in SUBSET T, U # T PROVE Adds(f, table(U), U)
  <2>1. \E g : Adds(f, g, U)
    BY <1>2, <1>3
  <2> QED
    BY <2>1
<1>4. ASSUME NEW U \in SUBSET T PROVE whole[U] = Step(f, whole, U)
  <2>1. CASE U = {}
    <3>1. CASE T = {}
      BY <2>1, <3>1 DEF Step
    <3>2. CASE T # {}
      <4>1. Adds(f, table(U), U) /\ U \in SUBSET U
        BY <1>3, <2>1, <3>2
      <4>2. whole[U] = table(U)[U]
        BY <2>1, <3>2
      <4> HIDE DEF table, whole
      <4>3. table(U)[U] = Step(f, table(U), U)
        BY <4>1 DEF Adds
      <4> QED
        BY <2>1, <4>2, <4>3 DEF Step
    <3> QED
      BY <3>1, <3>2
  <2>2. CASE U # {}
    <3> DEFINE V == U \ {Chosen(U)}
    <3>1. Chosen(U) \in U /\ V \in SUBSET T /\ V # T /\ V \subseteq U /\ V \in SUBSET U
      BY <2>2, SomeIsIn
    <3>2. whole[V] = table(V)[V]
      BY <3>1
    <3>3. CASE U = T
      BY <2>2, <3>2, <3>3 DEF Step
    <3>4. CASE U # T
      <4>1. Adds(f, table(U), U) /\ Adds(f, table(V), V) /\ IsFiniteSet(V)
        BY <1>3, <3>1, <3>4, <1>2, FS_Subset
      <4>2. table(U)[U] = Step(f, table(U), U)
        BY <4>1 DEF Adds
      <4> HIDE DEF table, V, whole
      <4>3. table(U)[V] = table(V)[V]
        BY <4>1, <3>1, TablesAgree
      <4> USE DEF V
      <4>4. Step(f, table(U), U) = f[Chosen(U)] + table(V)[V]
        BY <2>2, <4>3 DEF Step
      <4>5. Step(f, whole, U) = f[Chosen(U)] + whole[V]
        BY <2>2 DEF Step
      <4>6. whole[U] = table(U)[U]
        BY <3>4 DEF whole
      <4> QED
        BY <3>2, <4>2, <4>4, <4>5, <4>6
    <3> QED
      BY <3>3, <3>4
  <2> QED
    BY <2>1, <2>2
<1>5. whole = [U \in SUBSET T |-> Step(f, whole, U)]
  <2>1. \A U \in SUBSET T : whole[U] = Step(f, whole, U)
    BY <1>4
  <2>2. whole = [U \in SUBSET T |-> whole[U]]
    OBVIOUS
  <2> HIDE DEF whole
  <2> QED
    BY <2>1, <2>2
<1>6. Adds(f, whole, T)
  BY <1>5 DEF Adds
<1> QED
  BY <1>2, <1>6

\* The sum over a finite set, by the element its definition takes first.
LEMMA SumStep ==
  ASSUME NEW f, NEW S, IsFiniteSet(S)
  PROVE  SumFunctionOnSet(f, S) =
           IF S = {} THEN 0
           ELSE f[Chosen(S)] + SumFunctionOnSet(f, S \ {Chosen(S)})
<1> DEFINE table(T) == CHOOSE g : Adds(f, g, T)
           T == S \ {Chosen(S)}
<1>1. IsFiniteSet(T) /\ T \in SUBSET S
  BY FS_Subset
<1>2. Adds(f, table(S), S) /\ Adds(f, table(T), T)
  BY <1>1, TableExists
<1>3. SumFunctionOnSet(f, S) = table(S)[S] /\ SumFunctionOnSet(f, T) = table(T)[T]
  BY SumUnfolded
<1> HIDE DEF table
<1>4. table(S)[T] = table(T)[T]
  <2> HIDE DEF T
  <2> QED
    BY <1>1, <1>2, TablesAgree
<1>5. table(S)[S] = Step(f, table(S), S)
  BY <1>2 DEF Adds
<1> QED
  BY <1>3, <1>4, <1>5 DEF Step

\* A sum of naturals is one; of nothing, it is zero.
LEMMA SumEmpty ==
  ASSUME NEW f, NEW S, S = {}
  PROVE  SumFunctionOnSet(f, S) = 0
BY SumStep, FS_EmptySet

\* A proof by a smallest counterexample gives the sum without one element.
LEMMA SumType ==
  ASSUME NEW f, NEW S, IsFiniteSet(S), \A x \in S : f[x] \in Nat
  PROVE  SumFunctionOnSet(f, S) \in Nat
<1> DEFINE sum(T) == SumFunctionOnSet(f, T)
           bad == {T \in SUBSET S : sum(T) \notin Nat}
<1>1. SUFFICES ASSUME bad # {} PROVE FALSE
  OBVIOUS
<1>2. PICK T \in bad : \A U \in bad : U \subseteq T => U = T
  <2>1. bad \subseteq SUBSET S
    OBVIOUS
  <2> HIDE DEF bad
  <2> QED
    BY <1>1, <2>1, FiniteWellFounded
<1>3. T \in SUBSET S /\ IsFiniteSet(T)
  BY <1>2, FS_Subset
<1>4. T # {}
  <2>1. T = {} => sum(T) = 0
    BY SumEmpty
  <2> HIDE DEF sum
  <2> QED
    BY <1>2, <2>1
<1>5. sum(T) = f[Chosen(T)] + sum(T \ {Chosen(T)})
  BY <1>3, <1>4, SumStep
<1>6. Chosen(T) \in T
  BY <1>4, SomeIsIn
<1>7. sum(T \ {Chosen(T)}) \in Nat
  BY <1>2, <1>3, <1>6
<1>8. f[Chosen(T)] \in Nat
  BY <1>3, <1>6
<1> HIDE DEF sum
<1>9. sum(T) \in Nat
  BY <1>5, <1>7, <1>8
<1> QED
  BY <1>2, <1>9

\* Any element may be taken first.
LEMMA SumRemove ==
  ASSUME NEW f, NEW S, IsFiniteSet(S), \A x \in S : f[x] \in Nat, NEW a \in S
  PROVE  SumFunctionOnSet(f, S) = f[a] + SumFunctionOnSet(f, S \ {a})
<1> DEFINE sum(T) == SumFunctionOnSet(f, T)
           bad == {T \in SUBSET S : \E x \in T : sum(T) # f[x] + sum(T \ {x})}
<1>1. SUFFICES ASSUME bad # {} PROVE FALSE
  OBVIOUS
<1>2. PICK T \in bad : \A U \in bad : U \subseteq T => U = T
  <2>1. bad \subseteq SUBSET S
    OBVIOUS
  <2> HIDE DEF bad
  <2> QED
    BY <1>1, <2>1, FiniteWellFounded
<1>3. PICK x \in T : sum(T) # f[x] + sum(T \ {x})
  BY <1>2
<1> DEFINE c == Chosen(T)
<1>4. T \in SUBSET S /\ IsFiniteSet(T) /\ c \in T
  BY <1>2, <1>3, FS_Subset, SomeIsIn
<1>5. sum(T) = f[c] + sum(T \ {c})
  BY <1>3, <1>4, SumStep
<1>6. x # c
  BY <1>3, <1>5
<1> HIDE DEF c
<1> DEFINE V == (T \ {c}) \ {x}
<1>7. sum(T \ {c}) = f[x] + sum(V)
  <2>1. T \ {c} \in SUBSET S /\ T \ {c} \notin bad /\ x \in T \ {c}
    BY <1>2, <1>4, <1>6
  <2> QED
    BY <2>1
<1>8. sum(T \ {x}) = f[c] + sum(V)
  <2>1. T \ {x} \in SUBSET S /\ T \ {x} \notin bad /\ c \in T \ {x}
    BY <1>2, <1>3, <1>4, <1>6
  <2>2. (T \ {x}) \ {c} = V
    OBVIOUS
  <2> QED
    BY <2>1, <2>2
<1>9. f[x] \in Nat /\ f[c] \in Nat
  BY <1>4
<1>10. sum(V) \in Nat
  <2>1. IsFiniteSet(V) /\ \A y \in V : f[y] \in Nat
    BY <1>4, FS_Subset
  <2> QED
    BY <2>1, SumType
<1> HIDE DEF sum, V
<1> QED
  BY <1>3, <1>5, <1>7, <1>8, <1>9, <1>10

\* What a function of naturals adds up to depends on its values there only,
\* and grows with them.
LEMMA SumMonotone ==
  ASSUME NEW f, NEW g, NEW S, IsFiniteSet(S),
         \A x \in S : f[x] \in Nat /\ g[x] \in Nat /\ f[x] <= g[x]
  PROVE  SumFunctionOnSet(f, S) <= SumFunctionOnSet(g, S)
<1> DEFINE sum(h, T) == SumFunctionOnSet(h, T)
           bad == {T \in SUBSET S : ~ (sum(f, T) <= sum(g, T))}
<1>1. SUFFICES ASSUME bad # {} PROVE FALSE
  OBVIOUS
<1>2. PICK T \in bad : \A U \in bad : U \subseteq T => U = T
  <2>1. bad \subseteq SUBSET S
    OBVIOUS
  <2> HIDE DEF bad
  <2> QED
    BY <1>1, <2>1, FiniteWellFounded
<1>3. T \in SUBSET S /\ IsFiniteSet(T)
  BY <1>2, FS_Subset
<1>4. PICK x : x \in T
  <2>1. T = {} => sum(f, T) = 0 /\ sum(g, T) = 0
    BY SumEmpty
  <2> HIDE DEF sum
  <2>2. T # {}
    BY <1>2, <2>1
  <2> QED
    BY <2>2
<1>5. T \ {x} \in SUBSET S /\ T \ {x} \notin bad /\ IsFiniteSet(T \ {x})
  BY <1>2, <1>3, <1>4, FS_Subset
<1>6. sum(f, T) = f[x] + sum(f, T \ {x}) /\ sum(g, T) = g[x] + sum(g, T \ {x})
  <2>1. \A y \in T : f[y] \in Nat /\ g[y] \in Nat
    BY <1>3
  <2> QED
    BY <2>1, <1>3, <1>4, SumRemove
<1>7. sum(f, T \ {x}) \in Nat /\ sum(g, T \ {x}) \in Nat
  <2>1. \A y \in T \ {x} : f[y] \in Nat /\ g[y] \in Nat
    BY <1>3
  <2> QED
    BY <2>1, <1>5, SumType
<1>8. sum(f, T \ {x}) <= sum(g, T \ {x}) /\ ~ (sum(f, T) <= sum(g, T))
  BY <1>2, <1>5
<1>9. f[x] \in Nat /\ g[x] \in Nat /\ f[x] <= g[x]
  BY <1>3, <1>4
<1> HIDE DEF sum
<1> QED
  BY <1>6, <1>7, <1>8, <1>9

LEMMA SumEqual ==
  ASSUME NEW f, NEW g, NEW S, IsFiniteSet(S),
         \A x \in S : f[x] \in Nat /\ f[x] = g[x]
  PROVE  SumFunctionOnSet(f, S) = SumFunctionOnSet(g, S)
<1>1. SumFunctionOnSet(f, S) <= SumFunctionOnSet(g, S)
  BY SumMonotone
<1>2. SumFunctionOnSet(g, S) <= SumFunctionOnSet(f, S)
  BY SumMonotone
<1>3. SumFunctionOnSet(f, S) \in Nat /\ SumFunctionOnSet(g, S) \in Nat
  BY SumType
<1> QED
  BY <1>1, <1>2, <1>3

\* The sums of two functions, and of their sum.
LEMMA SumOfSums ==
  ASSUME NEW f, NEW g, NEW h, NEW S, IsFiniteSet(S),
         \A x \in S : f[x] \in Nat /\ g[x] \in Nat /\ h[x] = f[x] + g[x]
  PROVE  SumFunctionOnSet(h, S) = SumFunctionOnSet(f, S) + SumFunctionOnSet(g, S)
<1> DEFINE sum(k, T) == SumFunctionOnSet(k, T)
           bad == {T \in SUBSET S : sum(h, T) # sum(f, T) + sum(g, T)}
<1>1. SUFFICES ASSUME bad # {} PROVE FALSE
  OBVIOUS
<1>2. PICK T \in bad : \A U \in bad : U \subseteq T => U = T
  <2>1. bad \subseteq SUBSET S
    OBVIOUS
  <2> HIDE DEF bad
  <2> QED
    BY <1>1, <2>1, FiniteWellFounded
<1>3. T \in SUBSET S /\ IsFiniteSet(T)
  BY <1>2, FS_Subset
<1>4. PICK x : x \in T
  <2>1. T = {} => sum(f, T) = 0 /\ sum(g, T) = 0 /\ sum(h, T) = 0
    BY SumEmpty
  <2> HIDE DEF sum
  <2>2. T # {}
    BY <1>2, <2>1
  <2> QED
    BY <2>2
<1>5. T \ {x} \in SUBSET S /\ T \ {x} \notin bad /\ IsFiniteSet(T \ {x})
  BY <1>2, <1>3, <1>4, FS_Subset
<1>6. \A y \in T : f[y] \in Nat /\ g[y] \in Nat /\ h[y] \in Nat
  BY <1>3
<1>7. /\ sum(f, T) = f[x] + sum(f, T \ {x})
      /\ sum(g, T) = g[x] + sum(g, T \ {x})
      /\ sum(h, T) = h[x] + sum(h, T \ {x})
  BY <1>3, <1>4, <1>6, SumRemove
<1>8. sum(f, T \ {x}) \in Nat /\ sum(g, T \ {x}) \in Nat
  BY <1>5, <1>6, SumType
<1>9. /\ sum(h, T \ {x}) = sum(f, T \ {x}) + sum(g, T \ {x})
      /\ sum(h, T) # sum(f, T) + sum(g, T)
  BY <1>2, <1>5
<1>10. f[x] \in Nat /\ g[x] \in Nat /\ h[x] = f[x] + g[x]
  BY <1>3, <1>4
<1> HIDE DEF sum
<1> QED
  BY <1>7, <1>8, <1>9, <1>10

\* Nothing added up is nothing.
LEMMA SumZero ==
  ASSUME NEW f, NEW S, IsFiniteSet(S), \A x \in S : f[x] = 0
  PROVE  SumFunctionOnSet(f, S) = 0
<1>1. SumFunctionOnSet(f, S) = SumFunctionOnSet(f, S) + SumFunctionOnSet(f, S)
  BY SumOfSums
<1>2. SumFunctionOnSet(f, S) \in Nat
  BY SumType
<1> QED
  BY <1>1, <1>2

\* A function defined at one element more, and one changed at one element.
LEMMA SumExtended ==
  ASSUME NEW f, NEW g, NEW S, IsFiniteSet(S), NEW a, a \notin S, g[a] \in Nat,
         \A x \in S : g[x] \in Nat /\ f[x] = g[x]
  PROVE  SumFunctionOnSet(g, S \cup {a}) = SumFunctionOnSet(f, S) + g[a]
<1>1. IsFiniteSet(S \cup {a}) /\ a \in S \cup {a} /\ (S \cup {a}) \ {a} = S
  BY FS_AddElement
<1>2. \A x \in S \cup {a} : g[x] \in Nat
  OBVIOUS
<1>3. SumFunctionOnSet(g, S \cup {a}) = g[a] + SumFunctionOnSet(g, S)
  BY <1>1, <1>2, SumRemove
<1>4. SumFunctionOnSet(g, S) = SumFunctionOnSet(f, S) /\ SumFunctionOnSet(g, S) \in Nat
  BY SumEqual, SumType
<1> QED
  BY <1>3, <1>4

LEMMA SumChange ==
  ASSUME NEW f, NEW g, NEW S, IsFiniteSet(S), NEW a \in S,
         f[a] \in Nat, g[a] \in Nat,
         \A x \in S \ {a} : f[x] \in Nat /\ f[x] = g[x]
  PROVE  SumFunctionOnSet(g, S) + f[a] = SumFunctionOnSet(f, S) + g[a]
<1>1. IsFiniteSet(S \ {a})
  BY FS_Subset
<1>2. SumFunctionOnSet(f, S \ {a}) = SumFunctionOnSet(g, S \ {a})
  BY <1>1, SumEqual
<1>3. SumFunctionOnSet(f, S \ {a}) \in Nat
  BY <1>1, SumType
<1>4. (\A x \in S : f[x] \in Nat) /\ (\A x \in S : g[x] \in Nat)
  OBVIOUS
<1>5. SumFunctionOnSet(f, S) = f[a] + SumFunctionOnSet(f, S \ {a})
  BY <1>4, SumRemove
<1>6. SumFunctionOnSet(g, S) = g[a] + SumFunctionOnSet(g, S \ {a})
  BY <1>4, SumRemove
<1> QED
  BY <1>2, <1>3, <1>5, <1>6

\* A sum of part of a set is at most the sum of the whole.
LEMMA SumSubset ==
  ASSUME NEW f, NEW S, IsFiniteSet(S), \A x \in S : f[x] \in Nat, NEW T \in SUBSET S
  PROVE  SumFunctionOnSet(f, T) <= SumFunctionOnSet(f, S)
<1> DEFINE added == S \ T
           G == {U \in SUBSET added :
                   SumFunctionOnSet(f, T) <= SumFunctionOnSet(f, T \cup U)}
<1>1. IsFiniteSet(T) /\ IsFiniteSet(added)
  BY FS_Subset
<1>2. SumFunctionOnSet(f, T) \in Nat
  BY <1>1, SumType
<1>3. {} \in G
  <2>1. T \cup {} = T
    OBVIOUS
  <2> QED
    BY <1>2, <2>1
<1>4. ASSUME NEW U \in SUBSET added, NEW x \in added \ U, U \in G
      PROVE  U \cup {x} \in G
  <2> DEFINE W == T \cup U
  <2>1. /\ W \in SUBSET S /\ x \in S /\ x \notin W
        /\ T \cup (U \cup {x}) = W \cup {x}
    OBVIOUS
  <2>2. IsFiniteSet(W)
    BY <2>1, FS_Subset
  <2>3. SumFunctionOnSet(f, T) <= SumFunctionOnSet(f, W)
    BY <1>4
  <2> HIDE DEF W
  <2>4. SumFunctionOnSet(f, W \cup {x}) = SumFunctionOnSet(f, W) + f[x]
    BY <2>1, <2>2, SumExtended
  <2>5. SumFunctionOnSet(f, W) \in Nat /\ f[x] \in Nat
    BY <2>1, <2>2, SumType
  <2>6. SumFunctionOnSet(f, T) <= SumFunctionOnSet(f, W \cup {x})
    BY <1>2, <2>3, <2>4, <2>5
  <2> QED
    BY <2>1, <2>6
<1> HIDE DEF G
<1>5. added \in G
  <2> HIDE DEF added
  <2> QED
    BY <1>1, <1>3, <1>4, SetInduction
<1>6. T \cup added = S
  OBVIOUS
<1> QED
  BY <1>5, <1>6 DEF G

-----------------------------------------------------------------------------
(***************************************************************************)
(* Division and the charges of a loan.                                     *)
(***************************************************************************)
\* Division rounds down: the one fact about \div the other lemmas need.
LEMMA DivBounds ==
  ASSUME NEW n \in Nat, NEW d \in Nat \ {0}
  PROVE  n \div d \in Nat /\ d * (n \div d) <= n
  OBVIOUS

\* What it leaves is less than the divisor.
LEMMA DivRemainder ==
  ASSUME NEW n \in Nat, NEW d \in Nat \ {0}
  PROVE  n < d * (n \div d) + d
<1>1. n = d * (n \div d) + (n % d) /\ (n % d) \in 0 .. d - 1
  OBVIOUS
<1>2. PICK p \in Int : p = d * (n \div d)
  OBVIOUS
<1> QED
  BY <1>1, <1>2

\* A product of naturals is one.
LEMMA ProductType ==
  ASSUME NEW m \in Nat, NEW n \in Nat
  PROVE  m * n \in Nat
  OBVIOUS

\* Rounding down is monotone and exact on multiples.
LEMMA DivAtMost ==
  ASSUME NEW n \in Nat, NEW d \in Nat \ {0}, NEW x \in Nat, n <= d * x
  PROVE  n \div d <= x
<1>1. PICK q \in Nat : q = n \div d /\ d * q <= n
  BY DivBounds
<1>2. d * q <= d * x
  BY <1>1
<1>3. q <= x
  BY <1>2
<1> QED
  BY <1>1, <1>3

LEMMA DivBelow ==
  ASSUME NEW n \in Nat, NEW d \in Nat \ {0}, NEW x \in Nat, n < d * x
  PROVE  n \div d < x
<1>1. PICK q \in Nat : q = n \div d /\ d * q <= n
  BY DivBounds
<1>2. d * q < d * x
  BY <1>1
<1>3. q < x
  BY <1>2
<1> QED
  BY <1>1, <1>3

LEMMA DivReaches ==
  ASSUME NEW n \in Nat, NEW d \in Nat \ {0}, NEW x \in Nat, d * x <= n
  PROVE  x <= n \div d
<1>1. PICK q \in Nat : q = n \div d /\ n < d * q + d
  BY DivBounds, DivRemainder
<1>2. d * x < d * (q + 1)
  BY <1>1
<1>3. x < q + 1
  BY <1>2
<1> QED
  BY <1>1, <1>3

LEMMA DivMonotone ==
  ASSUME NEW m \in Nat, NEW n \in Nat, NEW d \in Nat \ {0}, m <= n
  PROVE  m \div d <= n \div d
<1>1. PICK q \in Nat : q = m \div d /\ d * q <= m
  BY DivBounds
<1>2. d * q <= n
  BY <1>1
<1> QED
  BY <1>1, <1>2, DivReaches

\* A share of at most the whole is at most the amount.
LEMMA ShareBound ==
  ASSUME NEW x \in Nat, NEW bps \in 0 .. BPS
  PROVE  Share(x, bps) \in 0 .. x
<1>1. BPS \in Nat \ {0} /\ bps \in Nat /\ bps <= BPS
  BY DEF BPS
<1>2. x * bps \in Nat /\ x * bps <= BPS * x
  BY DEF BPS
<1>3. (x * bps) \div BPS <= x
  BY <1>1, <1>2, DivAtMost
<1>4. (x * bps) \div BPS \in Nat
  BY <1>1, <1>2, DivBounds
<1> QED
  BY <1>3, <1>4 DEF Share

\* A share of less than the whole leaves something.
LEMMA ShareStrict ==
  ASSUME NEW x \in Nat \ {0}, NEW bps \in 0 .. (BPS - 1)
  PROVE  Share(x, bps) < x
<1>1. BPS \in Nat \ {0} /\ bps \in Nat /\ bps < BPS
  BY DEF BPS
<1>2. x * bps \in Nat /\ x * bps < BPS * x
  BY DEF BPS
<1> QED
  BY <1>1, <1>2, DivBelow DEF Share

-----------------------------------------------------------------------------
\* Every charge of a loan is a natural number.
LEMMA ShareType ==
  ASSUME NEW x \in Nat, NEW bps \in Nat
  PROVE  Share(x, bps) \in Nat
<1>1. x * bps \in Nat
  BY ProductType
<1> QED
  BY <1>1, DivBounds DEF Share, BPS

LEMMA AnnualisedType ==
  ASSUME NEW x \in Nat, NEW bps \in Nat, NEW seconds \in Nat,
         NEW year \in Nat \ {0}
  PROVE  Annualised(x, bps, seconds, year) \in Nat
<1>1. x * bps \in Nat
  BY ProductType
<1>2. x * bps * seconds \in Nat
  BY <1>1, ProductType
<1>3. BPS * year \in Nat \ {0}
  BY DEF BPS
<1> QED
  BY <1>2, <1>3, DivBounds DEF Annualised

LEMMA AccruedFeeType ==
  ASSUME NEW principal \in Nat, NEW aprBps \in Nat, NEW minimum \in Nat,
         NEW term \in Nat, NEW year \in Nat \ {0}, NEW elapsed \in Nat
  PROVE  AccruedFee(principal, aprBps, minimum, term, year, elapsed) \in Nat
<1>1. FullTermFee(principal, aprBps, term, year) \in Nat
  BY AnnualisedType DEF FullTermFee
<1>2. Share(principal, minimum) \in Nat
  BY ShareType
<1>3. Annualised(principal, aprBps, elapsed, year) \in Nat
  BY AnnualisedType
<1> QED
  BY <1>1, <1>2, <1>3 DEF AccruedFee, AtMost, AtLeast

LEMMA AccruedBountyType ==
  ASSUME NEW principal \in Nat, NEW rate \in Nat, NEW cap \in Nat,
         NEW hour \in Nat \ {0}, NEW elapsed \in Nat
  PROVE  AccruedBounty(principal, rate, cap, hour, elapsed) \in Nat
<1>1. elapsed * rate \in Nat
  BY ProductType
<1>2. (elapsed * rate) \div hour \in Nat
  BY <1>1, DivBounds
<1>3. AtMost((elapsed * rate) \div hour, cap) \in Nat
  BY <1>2 DEF AtMost
<1> QED
  BY <1>3, ShareType DEF AccruedBounty

\* A draw exceeds neither what is missing nor the reserve, and leaves a
\* positive reserve positive when the draw share is less than the whole.
LEMMA DrawBounds ==
  ASSUME NEW shortfall \in Nat, NEW principal \in Nat, NEW reserve \in Nat,
         NEW capBps \in Nat, NEW shareBps \in 0 .. BPS
  PROVE  LET drawn == DrawAmount(shortfall, principal, reserve, capBps, shareBps)
         IN  /\ drawn \in Nat /\ drawn <= shortfall /\ drawn <= reserve
             /\ reserve > 0 /\ shareBps < BPS => drawn < reserve
<1>1. Share(principal, capBps) \in Nat
  BY ShareType
<1>2. Share(reserve, shareBps) \in 0 .. reserve
  BY ShareBound
<1>3. ASSUME reserve > 0, shareBps < BPS
      PROVE  Share(reserve, shareBps) < reserve
  <2>1. reserve \in Nat \ {0} /\ shareBps \in 0 .. (BPS - 1)
    BY <1>3 DEF BPS
  <2> QED
    BY <2>1, ShareStrict
<1> QED
  BY <1>1, <1>2, <1>3 DEF DrawAmount, AtMost

\* What a division of `available` among the parties of a loan must satisfy:
\* everything is handed out, the lender gets at most the target, and nobody
\* else gets anything before the lender has it.
Conserves(w, available, target) ==
  LET others == w.borrower + w.keeper + w.treasury + w.referrer
  IN  /\ w \in [lender: Nat, keeper: Nat, treasury: Nat, referrer: Nat,
                 borrower: Nat]
      /\ w.lender + others = available
      /\ w.lender <= target
      /\ others > 0 => w.lender = target

\* The waterfall hands out exactly what is available, to the lender first.
THEOREM WaterfallConserves ==
  ASSUME NEW available \in Nat, NEW target \in Nat, NEW fee \in Nat,
         NEW bounty \in Nat, NEW feeRateBps \in Nat,
         NEW shareBps \in 0 .. BPS
  PROVE  Conserves(Waterfall(available, target, fee, bounty, feeRateBps,
                             shareBps), available, target)
<1> DEFINE residual1 == Above(available, target)
           paidKeeper == AtMost(bounty, residual1)
           residual2 == residual1 - paidKeeper
           charged == AtMost(Share(fee, feeRateBps), residual2)
           referred == Share(charged, shareBps)
<1>1. residual1 \in Nat /\ residual1 + AtMost(available, target) = available
  BY DEF Above, AtMost
<1>2. paidKeeper \in 0 .. residual1
  BY <1>1 DEF AtMost
<1>3. residual2 \in Nat
  BY <1>1, <1>2
<1>4. Share(fee, feeRateBps) \in Nat
  BY ShareType
<1>5. charged \in 0 .. residual2
  BY <1>3, <1>4 DEF AtMost
<1>6. referred \in 0 .. charged
  BY <1>5, ShareBound
<1>7. AtMost(available, target) \in Nat
  BY DEF AtMost
<1>8. residual1 > 0 => AtMost(available, target) = target
  BY DEF Above, AtMost
<1>9. Waterfall(available, target, fee, bounty, feeRateBps, shareBps)
       = [lender |-> AtMost(available, target), keeper |-> paidKeeper,
          treasury |-> charged - referred, referrer |-> referred,
          borrower |-> residual2 - charged]
  BY DEF Waterfall
<1> HIDE DEF residual1, paidKeeper, charged, referred
<1>10. AtMost(available, target) <= target
  BY DEF AtMost
<1> QED
  BY <1>1, <1>2, <1>3, <1>5, <1>6, <1>7, <1>8, <1>9, <1>10 DEF Conserves

=============================================================================
