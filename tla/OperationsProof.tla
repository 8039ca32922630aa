-------------------------- MODULE OperationsProof --------------------------
(***************************************************************************)
(* Proofs about Operations: for every series of scripts, however long and  *)
(* wherever interrupted, with any number of stacks, factories, Safes and   *)
(* announcements.                                                          *)
(*                                                                         *)
(* Most steps leave alone what the properties are about: they keep the     *)
(* frame (Frame) and no script that matters runs after them (Aside).  The  *)
(* scripts that matter are those of Tracked; for each the invariant says   *)
(* what it has done by each of its steps.                                  *)
(***************************************************************************)
EXTENDS Operations, ArithmeticProof, SequenceTheorems

-----------------------------------------------------------------------------
(***************************************************************************)
(* Sequences of anything.                                                  *)
(***************************************************************************)
IsSeq(s) == \E S : s \in Seq(S)

LEMMA SeqDomain ==
  ASSUME NEW s, IsSeq(s)
  PROVE  Len(s) \in Nat /\ DOMAIN s = 1 .. Len(s)
BY LenProperties DEF IsSeq

LEMMA SeqAppend ==
  ASSUME NEW s, IsSeq(s), NEW e
  PROVE  /\ IsSeq(Append(s, e)) /\ Len(Append(s, e)) = Len(s) + 1
         /\ Append(s, e)[Len(s) + 1] = e
         /\ \A i \in 1 .. Len(s) : Append(s, e)[i] = s[i]
<1> PICK S : s \in Seq(S)
  BY DEF IsSeq
<1>1. s \in Seq(S \cup {e})
  BY SeqMonotonic
<1> QED
  BY <1>1, AppendProperties DEF IsSeq

LEMMA SeqTail ==
  ASSUME NEW s, IsSeq(s), s # <<>>
  PROVE  /\ IsSeq(Tail(s)) /\ Len(s) >= 1 /\ Len(Tail(s)) = Len(s) - 1
         /\ Head(s) = s[1]
         /\ \A i \in 1 .. Len(s) - 1 : Tail(s)[i] = s[i + 1]
<1> PICK S : s \in Seq(S)
  BY DEF IsSeq
<1>1. Len(s) \in Nat \ {0}
  BY EmptySeq
<1> QED
  BY <1>1, HeadTailProperties DEF IsSeq

LEMMA SeqEmpty == IsSeq(<<>>) /\ Len(<<>>) = 0
BY EmptySeq DEF IsSeq

-----------------------------------------------------------------------------
(***************************************************************************)
(* Records of announcements.  Repointings of a pool are recorded in the    *)
(* order of their factories.                                               *)
(***************************************************************************)
Wire(s, f) == Call(s, "wire", f)

LEMMA WireIsOne ==
  ASSUME NEW s, NEW f, NEW t, NEW g
  PROVE  /\ Wire(s, f) = Wire(t, g) <=> s = t /\ f = g
         /\ Wire(s, f).kind = "wire" /\ Wire(s, f).stack = s /\ Wire(s, f).arg = f
BY DEF Wire, Call

OtherKinds == {"grant", "settle", "cap", "list"}

\* What may be on record.
Recordable(e) ==
  e.kind \in OtherKinds \/ \E s, f \in Nat : e = Wire(s, f)

WireSeq(p) ==
  /\ IsSeq(p)
  /\ \A e : Contains(p, e) => Recordable(e)
  /\ \A i, j \in 1 .. Len(p), s, f, g \in Nat :
       i < j /\ p[i] = Wire(s, f) /\ p[j] = Wire(s, g) => f < g

LEMMA WireSeqEmpty == WireSeq(<<>>) /\ \A e : ~Contains(<<>>, e)
BY SeqEmpty DEF WireSeq, Contains

LEMMA WireSeqAppend ==
  ASSUME NEW p, WireSeq(p), NEW e, Recordable(e),
         \A s, f, g \in Nat : e = Wire(s, f) /\ Contains(p, Wire(s, g)) => g < f
  PROVE  /\ WireSeq(Append(p, e))
         /\ \A x : Contains(Append(p, e), x) <=> Contains(p, x) \/ x = e
<1> PICK q : q = Append(p, e)
  OBVIOUS
<1>1. /\ IsSeq(q) /\ Len(q) = Len(p) + 1 /\ Len(p) \in Nat
      /\ q[Len(p) + 1] = e /\ \A i \in 1 .. Len(p) : q[i] = p[i]
  BY SeqAppend, SeqDomain DEF WireSeq
<1>2. \A x : Contains(q, x) <=> Contains(p, x) \/ x = e
  BY <1>1 DEF Contains
<1>3. ASSUME NEW x, Contains(q, x) PROVE Recordable(x)
  BY <1>2, <1>3 DEF WireSeq
<1>4. ASSUME NEW i \in 1 .. Len(q), NEW j \in 1 .. Len(q),
             NEW s \in Nat, NEW f \in Nat, NEW g \in Nat,
             i < j, q[i] = Wire(s, f), q[j] = Wire(s, g)
      PROVE  f < g
  <2>1. CASE j \in 1 .. Len(p)
    <3>1. i \in 1 .. Len(p) /\ p[i] = Wire(s, f) /\ p[j] = Wire(s, g)
      BY <1>1, <1>4, <2>1
    <3> QED
      BY <1>4, <2>1, <3>1 DEF WireSeq
  <2>2. CASE j = Len(p) + 1
    <3>1. i \in 1 .. Len(p) /\ p[i] = Wire(s, f) /\ e = Wire(s, g)
      BY <1>1, <1>4, <2>2
    <3>2. Contains(p, Wire(s, f))
      BY <3>1 DEF Contains
    <3> QED
      BY <3>1, <3>2
  <2> QED
    BY <1>1, <2>1, <2>2
<1> QED
  BY <1>1, <1>2, <1>3, <1>4 DEF WireSeq

LEMMA WireSeqTail ==
  ASSUME NEW p, WireSeq(p), p # <<>>
  PROVE  /\ WireSeq(Tail(p))
         /\ \A x : Contains(p, x) <=> x = Head(p) \/ Contains(Tail(p), x)
         /\ \A s, f, g \in Nat :
              Head(p) = Wire(s, f) /\ Contains(Tail(p), Wire(s, g)) => f < g
<1> PICK q : q = Tail(p)
  OBVIOUS
<1>1. /\ IsSeq(q) /\ Len(p) \in Nat /\ Len(p) >= 1 /\ Len(q) = Len(p) - 1
      /\ Head(p) = p[1] /\ \A i \in 1 .. Len(p) - 1 : q[i] = p[i + 1]
  BY SeqTail, SeqDomain DEF WireSeq
<1>2. \A x : Contains(p, x) <=> x = Head(p) \/ Contains(q, x)
  <2> SUFFICES ASSUME NEW x PROVE Contains(p, x) <=> x = Head(p) \/ Contains(q, x)
    OBVIOUS
  <2>1. ASSUME Contains(p, x), x # Head(p) PROVE Contains(q, x)
    <3>1. PICK i \in 1 .. Len(p) : p[i] = x
      BY <2>1 DEF Contains
    <3>2. i - 1 \in 1 .. Len(q) /\ q[i - 1] = x
      BY <1>1, <2>1, <3>1
    <3> QED
      BY <3>2 DEF Contains
  <2>2. Contains(q, x) => Contains(p, x)
    <3>1. \A i \in 1 .. Len(q) : i + 1 \in 1 .. Len(p) /\ q[i] = p[i + 1]
      BY <1>1
    <3> QED
      BY <3>1 DEF Contains
  <2>3. Contains(p, Head(p))
    BY <1>1 DEF Contains
  <2> QED
    BY <2>1, <2>2, <2>3
<1>3. \A x : Contains(q, x) => Recordable(x)
  BY <1>2 DEF WireSeq
<1>4. ASSUME NEW i \in 1 .. Len(q), NEW j \in 1 .. Len(q),
             NEW s \in Nat, NEW f \in Nat, NEW g \in Nat,
             i < j, q[i] = Wire(s, f), q[j] = Wire(s, g)
      PROVE  f < g
  <2>1. /\ i + 1 \in 1 .. Len(p) /\ j + 1 \in 1 .. Len(p) /\ i + 1 < j + 1
        /\ p[i + 1] = Wire(s, f) /\ p[j + 1] = Wire(s, g)
    BY <1>1, <1>4
  <2> QED
    BY <2>1 DEF WireSeq
<1>5. ASSUME NEW s \in Nat, NEW f \in Nat, NEW g \in Nat,
             Head(p) = Wire(s, f), Contains(q, Wire(s, g))
      PROVE  f < g
  <2>1. PICK i \in 1 .. Len(q) : q[i] = Wire(s, g)
    BY <1>5 DEF Contains
  <2>2. /\ 1 \in 1 .. Len(p) /\ i + 1 \in 1 .. Len(p) /\ 1 < i + 1
        /\ p[1] = Wire(s, f) /\ p[i + 1] = Wire(s, g)
    BY <1>1, <1>5, <2>1
  <2> QED
    BY <2>2 DEF WireSeq
<1> QED
  BY <1>1, <1>2, <1>3, <1>4, <1>5 DEF WireSeq

-----------------------------------------------------------------------------
(***************************************************************************)
(* Clearing a record.                                                      *)
(***************************************************************************)
IsKept(f, p, call, k) ==
  f = [n \in 0 .. k |-> IF n = 0 THEN <<>>
                        ELSE IF p[n] = call THEN f[n - 1]
                        ELSE Append(f[n - 1], p[n])]

LEMMA KeptExists ==
  ASSUME NEW p, NEW call, NEW k \in Nat
  PROVE  \E f : IsKept(f, p, call, k)
<1> DEFINE G == {i \in 0 .. k : \E f : IsKept(f, p, call, i)}
<1>1. 0 \in G
  <2> DEFINE f == [n \in 0 .. 0 |-> <<>>]
  <2>1. f = [n \in 0 .. 0 |-> IF n = 0 THEN <<>>
                              ELSE IF p[n] = call THEN f[n - 1]
                              ELSE Append(f[n - 1], p[n])]
    OBVIOUS
  <2>2. IsKept(f, p, call, 0)
    BY <2>1 DEF IsKept
  <2> HIDE DEF f
  <2> QED
    BY <2>2
<1>2. ASSUME NEW i \in 0 .. k, i < k, i \in G PROVE i + 1 \in G
  <2>1. PICK f : IsKept(f, p, call, i)
    BY <1>2
  <2> DEFINE last == IF p[i + 1] = call THEN f[i] ELSE Append(f[i], p[i + 1])
  <2> HIDE DEF last
  <2> DEFINE g == [n \in 0 .. i + 1 |-> IF n <= i THEN f[n] ELSE last]
  <2>2. ASSUME NEW n \in 0 .. i + 1
        PROVE  g[n] = IF n = 0 THEN <<>>
                      ELSE IF p[n] = call THEN g[n - 1]
                      ELSE Append(g[n - 1], p[n])
    <3>1. CASE n <= i
      <4>1. n \in 0 .. i /\ g[n] = f[n]
        BY <3>1
      <4>2. n # 0 => g[n - 1] = f[n - 1]
        BY <3>1
      <4>3. f[n] = IF n = 0 THEN <<>>
                   ELSE IF p[n] = call THEN f[n - 1]
                   ELSE Append(f[n - 1], p[n])
        BY <2>1, <4>1 DEF IsKept
      <4> HIDE DEF g
      <4> QED
        BY <4>1, <4>2, <4>3
    <3>2. CASE n = i + 1
      <4>1. g[n] = last /\ g[n - 1] = f[i] /\ n # 0
        BY <3>2
      <4> HIDE DEF g
      <4> QED
        BY <3>2, <4>1 DEF last
    <3> QED
      BY <3>1, <3>2
  <2>3. g = [n \in 0 .. i + 1 |-> IF n = 0 THEN <<>>
                                  ELSE IF p[n] = call THEN g[n - 1]
                                  ELSE Append(g[n - 1], p[n])]
    <3>1. g = [n \in 0 .. i + 1 |-> g[n]]
      OBVIOUS
    <3> HIDE DEF g
    <3> QED
      BY <2>2, <3>1
  <2> HIDE DEF g
  <2>4. IsKept(g, p, call, i + 1)
    BY <2>3 DEF IsKept
  <2> QED
    BY <1>2, <2>4
<1> HIDE DEF G
<1>3. k \in G
  BY <1>1, <1>2, IntervalInduction
<1> QED
  BY <1>3 DEF G

\* What has been kept of the first n records.
LEMMA KeptOnTheWay ==
  ASSUME NEW p, WireSeq(p), NEW call, NEW f, IsKept(f, p, call, Len(p))
  PROVE  /\ WireSeq(f[Len(p)])
         /\ \A x : Contains(f[Len(p)], x) <=> Contains(p, x) /\ x # call
<1> DEFINE Good(n) ==
             /\ WireSeq(f[n])
             /\ \A x : Contains(f[n], x)
                         <=> x # call /\ \E i \in 1 .. n : p[i] = x
           G == {n \in 0 .. Len(p) : Good(n)}
<1>1. Len(p) \in Nat
  BY SeqDomain DEF WireSeq
<1>2. 0 \in G
  <2>1. f[0] = <<>>
    BY <1>1 DEF IsKept
  <2>2. Good(0)
    BY <2>1, WireSeqEmpty
  <2> QED
    BY <1>1, <2>2
<1>3. ASSUME NEW n \in 0 .. Len(p), n < Len(p), n \in G PROVE n + 1 \in G
  <2>1. n + 1 \in 1 .. Len(p) /\ n \in Nat
    BY <1>1, <1>3
  <2>2. f[n + 1] = IF p[n + 1] = call THEN f[n] ELSE Append(f[n], p[n + 1])
    <3>1. n + 1 \in 0 .. Len(p) /\ n + 1 # 0 /\ (n + 1) - 1 = n
      BY <2>1
    <3> QED
      BY <3>1 DEF IsKept
  <2>3. Good(n)
    BY <1>3
  <2>4. \A x : (\E i \in 1 .. n + 1 : p[i] = x)
                 <=> (\E i \in 1 .. n : p[i] = x) \/ x = p[n + 1]
    BY <2>1
  <2>5. CASE p[n + 1] = call
    <3>1. Good(n + 1)
      BY <2>2, <2>3, <2>4, <2>5
    <3> QED
      BY <2>1, <3>1
  <2>6. CASE p[n + 1] # call
    <3>1. Contains(p, p[n + 1])
      BY <2>1 DEF Contains
    <3>2. ASSUME NEW s \in Nat, NEW g \in Nat, NEW h \in Nat,
                 p[n + 1] = Wire(s, g), Contains(f[n], Wire(s, h))
          PROVE  h < g
      <4>1. PICK i \in 1 .. n : p[i] = Wire(s, h)
        BY <2>3, <3>2
      <4>2. i \in 1 .. Len(p) /\ i < n + 1
        BY <2>1
      <4> QED
        BY <2>1, <3>2, <4>1, <4>2 DEF WireSeq
    <3>3. /\ WireSeq(Append(f[n], p[n + 1]))
          /\ \A x : Contains(Append(f[n], p[n + 1]), x)
                      <=> Contains(f[n], x) \/ x = p[n + 1]
      <4>1. Recordable(p[n + 1])
        BY <3>1 DEF WireSeq
      <4> QED
        BY <2>3, <3>2, <4>1, WireSeqAppend
    <3>4. Good(n + 1)
      BY <2>2, <2>3, <2>4, <2>6, <3>3
    <3> QED
      BY <2>1, <3>4
  <2> QED
    BY <2>5, <2>6
<1> HIDE DEF G
<1>4. 0 .. Len(p) \subseteq G
  BY <1>1, <1>2, <1>3, IntervalInduction
<1>5. Len(p) \in G
  BY <1>1, <1>4
<1>6. Good(Len(p))
  BY <1>5 DEF G
<1> QED
  BY <1>6 DEF Contains

LEMMA Cleared ==
  ASSUME WireSeq(pending), NEW call
  PROVE  /\ WireSeq(clearPending(call))
         /\ \A x : Contains(clearPending(call), x) <=> Contains(pending, x) /\ x # call
<1>1. Len(pending) \in Nat
  BY SeqDomain DEF WireSeq
<1> DEFINE kept == CHOOSE f : IsKept(f, pending, call, Len(pending))
<1>2. IsKept(kept, pending, call, Len(pending))
  BY <1>1, KeptExists
<1>3. clearPending(call) = kept[Len(pending)]
  BY DEF clearPending, IsKept
<1> HIDE DEF kept
<1> QED
  BY <1>2, <1>3, KeptOnTheWay

LEMMA Written ==
  ASSUME WireSeq(pending), NEW call, Recordable(call),
         \A s, f, g \in Nat :
           call = Wire(s, f) /\ Contains(pending, Wire(s, g)) => g < f
  PROVE  /\ WireSeq(writePending(call))
         /\ \A x : Contains(writePending(call), x) <=> Contains(pending, x) \/ x = call
<1> PICK rest : rest = clearPending(call)
  OBVIOUS
<1>1. /\ WireSeq(rest)
      /\ \A x : Contains(rest, x) <=> Contains(pending, x) /\ x # call
  BY Cleared
<1>2. \A s, f, g \in Nat : call = Wire(s, f) /\ Contains(rest, Wire(s, g)) => g < f
  BY <1>1
<1>3. /\ WireSeq(Append(rest, call))
      /\ \A x : Contains(Append(rest, call), x) <=> Contains(rest, x) \/ x = call
  BY <1>1, <1>2, WireSeqAppend
<1> QED
  BY <1>1, <1>3 DEF writePending

-----------------------------------------------------------------------------
(***************************************************************************)
(* The frame.                                                              *)
(***************************************************************************)
StackFields ==
  {"delay", "vaultFactory", "shortWindow", "cap", "listed", "known", "grace",
   "approved", "fast", "eligible", "moved"}
Fields ==
  {"stack", "factory", "pair", "call", "then", "todo", "loan", "plan", "was",
   "failed", "since"}

Announced(s, f) == Queued(Wire(s, f))
OnRecord(s, f)  == Contains(pending, Wire(s, f))

Shape ==
  /\ now \in Nat
  /\ IsSeq(stacks)
  /\ \A s \in 1 .. Len(stacks) : /\ DOMAIN stacks[s] = StackFields
                                 /\ stacks[s].delay \in Nat
                                 /\ stacks[s].vaultFactory \in Nat
  /\ IsSeq(factories)
  /\ WireSeq(pending)
  /\ DOMAIN control = Contracts
  /\ DOMAIN book = {"stack", "factory", "pair"}
  /\ DOMAIN local = Fields

\* A step that leaves alone the factories, which one each pool takes vaults
\* from, the announcements of repointings and their records.
SameStack(t, s) ==
  /\ DOMAIN t = StackFields
  /\ t.delay = s.delay /\ t.vaultFactory = s.vaultFactory /\ t.moved = s.moved

StacksKept ==
  /\ IsSeq(stacks') /\ Len(stacks') = Len(stacks)
  /\ \A s \in 1 .. Len(stacks) : SameStack(stacks'[s], stacks[s])

WiresKept ==
  \A s, f : /\ Announced(s, f)' <=> Announced(s, f)
            /\ Announced(s, f) => queue'[Wire(s, f)] = queue[Wire(s, f)]

RecordsKept ==
  WireSeq(pending)' /\ \A s, f : OnRecord(s, f)' <=> OnRecord(s, f)

BookKept ==
  /\ DOMAIN book' = DOMAIN book
  /\ book'.stack = book.stack /\ book'.factory = book.factory

Frame ==
  /\ now' \in Nat /\ now' >= now
  /\ factories' = factories
  /\ DOMAIN control' = DOMAIN control
  /\ StacksKept /\ WiresKept /\ RecordsKept /\ BookKept

\* No stack gets the values of a test.
NoFaster == \A s \in 1 .. Len(stacks) : stacks'[s].fast \in {stacks[s].fast, FALSE}

\* A mishap is never forgotten.
MishapKept ==
  /\ mishap' = "none" => mishap = "none"
  /\ mishap \in Grave => mishap' \in Grave

\* The scripts the invariant follows; the call in hand of any other is not
\* the repointing of a pool.
Tracked == {"deployStack", "redeployFactory", "executeTimelocked", "acceptRoles",
            "proveKeeper"}

CallInHand ==
  /\ script = "setTierConfig" => local.call.kind = "cap"
  /\ script = "listAsset" => local.call.kind = "list"
  /\ script \notin {"executeTimelocked", "redeployFactory"} =>
       /\ local.call.kind # "wire"
       /\ step \in {"clear", "record"} => local.call.kind \in OtherKinds

\* The scripts that lend and leave the configuration alone.
Lenders   == {"proveDraw", "lifecycle"}
LoanSteps == {"originate", "deposit", "swap", "wait", "settle"}

LoanFlow ==
  script \in Lenders =>
    local.plan \in Seq(LoanSteps) /\ step = NextOf(local.plan)

Aside ==
  /\ script' \notin Tracked
  /\ DOMAIN local' = Fields /\ CallInHand' /\ LoanFlow'

Quiet ==
  /\ Frame /\ NoFaster /\ MishapKept /\ Aside
  /\ script = "redeployFactory" => mishap' # "none"
  /\ script = "proveKeeper" /\ step # "shorten" => mishap' \in Grave

LEMMA NothingInHand ==
  /\ DOMAIN NoLocal = Fields /\ NoLocal.call = NoCall /\ NoLocal.todo = <<>>
  /\ NoCall.kind = "none"
BY DEF NoLocal, NoCall, Fields

LEMMA StackUnchanged ==
  ASSUME Shape, UNCHANGED stacks
  PROVE  StacksKept /\ NoFaster
BY DEF Shape, StacksKept, SameStack, NoFaster

LEMMA StackChanged ==
  ASSUME Shape, NEW k, NEW r, stacks' = [stacks EXCEPT ![k] = r],
         k \in 1 .. Len(stacks) => SameStack(r, stacks[k])
  PROVE  /\ StacksKept
         /\ (k \in 1 .. Len(stacks) => r.fast \in {stacks[k].fast, FALSE}) => NoFaster
<1>1. /\ IsSeq(stacks') /\ Len(stacks') = Len(stacks)
      /\ \A i \in 1 .. Len(stacks) : stacks'[i] = IF i = k THEN r ELSE stacks[i]
  <2>1. PICK S : stacks \in Seq(S)
    BY DEF Shape, IsSeq
  <2>2. stacks \in Seq(S \cup {r}) /\ r \in S \cup {r}
    BY <2>1, SeqMonotonic
  <2>3. CASE k \in 1 .. Len(stacks)
    BY <2>2, <2>3, ExceptSeq DEF IsSeq
  <2>4. CASE k \notin 1 .. Len(stacks)
    <3>1. DOMAIN stacks = 1 .. Len(stacks)
      BY SeqDomain DEF Shape
    <3>2. stacks' = stacks
      BY <2>1, <2>4, <3>1
    <3> QED
      BY <2>1, <2>4, <3>2 DEF IsSeq
  <2> QED
    BY <2>3, <2>4
<1>2. \A i \in 1 .. Len(stacks) : SameStack(stacks'[i], stacks[i])
  BY <1>1 DEF Shape, SameStack
<1>3. ASSUME k \in 1 .. Len(stacks) => r.fast \in {stacks[k].fast, FALSE}
      PROVE  NoFaster
  BY <1>1, <1>3 DEF NoFaster
<1> QED
  BY <1>1, <1>2, <1>3 DEF StacksKept

LEMMA QueueUnchanged ==
  ASSUME UNCHANGED queue
  PROVE  WiresKept
BY DEF WiresKept, Announced, Queued

LEMMA FilesUnchanged ==
  ASSUME Shape, UNCHANGED fileVars
  PROVE  RecordsKept /\ BookKept
BY DEF Shape, fileVars, RecordsKept, BookKept, OnRecord

LEMMA NothingChanged ==
  ASSUME Shape, UNCHANGED <<now, chainVars, fileVars>>
  PROVE  Frame /\ NoFaster
<1>1. UNCHANGED <<now, stacks, factories, control, queue, fileVars>>
  BY DEF chainVars
<1>2. StacksKept /\ NoFaster /\ WiresKept /\ RecordsKept /\ BookKept
  BY <1>1, StackUnchanged, QueueUnchanged, FilesUnchanged
<1> QED
  BY <1>1, <1>2 DEF Frame, Shape

-----------------------------------------------------------------------------
(***************************************************************************)
(* How a script begins and ends.                                           *)
(***************************************************************************)
LEMMA EndsAside ==
  ASSUME Shape, Ends
  PROVE  Aside
<1>1. script' = "idle" /\ step' = "" /\ local' = NoLocal
  BY DEF Ends
<1> QED
  BY <1>1, NothingInHand DEF Aside, CallInHand, LoanFlow, Lenders, Tracked

LEMMA EndsBadlyAside ==
  ASSUME Shape, NEW how, EndsBadly(how), how # "none"
  PROVE  /\ Aside /\ MishapKept /\ script' = "idle" /\ mishap' # "none"
         /\ how \in Grave => mishap' \in Grave
<1>1. Ends /\ Mishap(how)
  BY DEF EndsBadly
<1>2. "none" \notin Grave
  BY DEF Grave
<1>3. /\ MishapKept /\ mishap' # "none"
      /\ how \in Grave => mishap' \in Grave
  BY <1>1, <1>2 DEF MishapKept, Mishap
<1> QED
  BY <1>1, <1>3, EndsAside DEF Ends

LEMMA DoneAside ==
  ASSUME Shape, Done
  PROVE  Aside /\ MishapKept /\ script' = "idle"
<1>1. Ends /\ mishap' = mishap
  BY DEF Done
<1> QED
  BY <1>1, EndsAside DEF Ends, MishapKept

LEMMA FailsAside ==
  ASSUME Shape, Fails
  PROVE  Aside /\ MishapKept /\ script' = "idle" /\ mishap' # "none"
BY EndsBadlyAside DEF Fails

LEMMA BeginsAside ==
  ASSUME Shape, NEW name, NEW first, NEW memory, Begins(name, first, memory),
         script = "idle",
         name \notin Tracked, DOMAIN memory = Fields,
         first \notin {"clear", "record"},
         name = "setTierConfig" => memory.call.kind = "cap",
         name = "listAsset" => memory.call.kind = "list",
         name \in Lenders => memory.plan \in Seq(LoanSteps) /\ first = NextOf(memory.plan),
         memory.call.kind # "wire"
  PROVE  Quiet
<1>1. /\ UNCHANGED <<now, chainVars, fileVars>> /\ mishap' = mishap
      /\ script' = name /\ step' = first /\ local' = memory
  BY DEF Begins
<1>2. Frame /\ NoFaster
  BY <1>1, NothingChanged
<1>3. Aside
  BY <1>1 DEF Aside, CallInHand, LoanFlow
<1>4. MishapKept
  BY <1>1 DEF MishapKept
<1> QED
  BY <1>2, <1>3, <1>4 DEF Quiet

\* The plans of the lenders.
LEMMA PlansAreLoans ==
  /\ Plan("proveDraw") \in Seq(LoanSteps) /\ NextOf(Plan("proveDraw")) = "originate"
  /\ Plan("lifecycle") \in Seq(LoanSteps) /\ NextOf(Plan("lifecycle")) = "originate"
<1>1. /\ Opening \in Seq(LoanSteps) /\ <<"settle">> \in Seq(LoanSteps)
      /\ <<"wait", "settle">> \in Seq(LoanSteps)
  BY DEF Opening, LoanSteps
<1>2. ASSUME NEW p \in Seq(LoanSteps), NEW q \in Seq(LoanSteps),
             Len(p) >= 1, p[1] = "originate"
      PROVE  /\ p \o q \in Seq(LoanSteps) /\ Len(p \o q) >= 1
             /\ (p \o q)[1] = "originate"
  BY <1>2, ConcatProperties, LenProperties
<1>3. Len(Opening) >= 1 /\ Opening[1] = "originate"
  BY DEF Opening
<1>4. ASSUME NEW p \in Seq(LoanSteps), Len(p) >= 1, p[1] = "originate"
      PROVE  NextOf(p) = "originate"
  BY <1>4, EmptySeq, HeadTailProperties DEF NextOf
<1> HIDE DEF Opening
<1>5. Plan("proveDraw") = Opening \o <<"wait", "settle">>
  BY DEF Plan
<1>6. Plan("lifecycle") =
        Opening \o <<"settle">> \o Opening \o <<"settle">> \o Opening \o <<"wait", "settle">>
  BY DEF Plan
<1>7. LET a == Opening \o <<"settle">>
          b == a \o Opening
          c == b \o <<"settle">>
          d == c \o Opening
          e == d \o <<"wait", "settle">>
      IN  e \in Seq(LoanSteps) /\ NextOf(e) = "originate"
  <2> DEFINE a == Opening \o <<"settle">>
             b == a \o Opening
             c == b \o <<"settle">>
             d == c \o Opening
             e == d \o <<"wait", "settle">>
  <2>1. a \in Seq(LoanSteps) /\ Len(a) >= 1 /\ a[1] = "originate"
    BY <1>1, <1>2, <1>3
  <2>2. b \in Seq(LoanSteps) /\ Len(b) >= 1 /\ b[1] = "originate"
    <3> HIDE DEF a
    <3> QED
      BY <1>1, <1>2, <2>1
  <2>3. c \in Seq(LoanSteps) /\ Len(c) >= 1 /\ c[1] = "originate"
    <3> HIDE DEF b
    <3> QED
      BY <1>1, <1>2, <2>2
  <2>4. d \in Seq(LoanSteps) /\ Len(d) >= 1 /\ d[1] = "originate"
    <3> HIDE DEF c
    <3> QED
      BY <1>1, <1>2, <2>3
  <2>5. e \in Seq(LoanSteps) /\ Len(e) >= 1 /\ e[1] = "originate"
    <3> HIDE DEF d
    <3> QED
      BY <1>1, <1>2, <2>4
  <2> HIDE DEF a, b, c, d, e
  <2>6. NextOf(e) = "originate"
    BY <1>4, <2>5
  <2> QED
    BY <2>5, <2>6 DEF a, b, c, d, e
<1>8. Plan("proveDraw") \in Seq(LoanSteps) /\ NextOf(Plan("proveDraw")) = "originate"
  BY <1>1, <1>2, <1>3, <1>4, <1>5
<1> QED
  BY <1>6, <1>7, <1>8

LEMMA BeginnersAreQuiet ==
  ASSUME Shape,
         \/ \E cap \in 1 .. 2 : SetTierConfig(cap)
         \/ \E grace \in 0 .. 1 : ListAsset(grace)
         \/ ApproveTestnetPools \/ CreateSafes
         \/ \E pair \in 1 .. safes : TransferControl(pair)
         \/ VerifyTwoStep \/ ProveDraw \/ (\E l \in DOMAIN loans : ResumeDraw(l))
         \/ Lifecycle \/ SettleStuck
  PROVE  Quiet
<1> USE NothingInHand
<1>1. ASSUME NEW cap \in 1 .. 2, SetTierConfig(cap) PROVE Quiet
  <2> DEFINE memory == [NoLocal EXCEPT !.call = Call(book.stack, "cap", cap)]
  <2>1. DOMAIN memory = Fields /\ memory.call.kind = "cap"
    BY DEF Call, Fields
  <2>2. Begins("setTierConfig", "send", memory) /\ script = "idle"
    BY <1>1 DEF SetTierConfig, Starting
  <2> HIDE DEF memory
  <2> QED
    BY <2>1, <2>2, BeginsAside DEF Tracked, Lenders
<1>2. ASSUME NEW grace \in 0 .. 1, ListAsset(grace) PROVE Quiet
  <2> DEFINE memory == [NoLocal EXCEPT !.call = Call(book.stack, "list", grace)]
             first  == IF stacks[book.stack].listed THEN "approve" ELSE "send"
  <2>1. DOMAIN memory = Fields /\ memory.call.kind = "list"
    BY DEF Call, Fields
  <2>2. Begins("listAsset", first, memory) /\ script = "idle"
    BY <1>2 DEF ListAsset, Starting
  <2>3. first \notin {"clear", "record"}
    OBVIOUS
  <2> HIDE DEF memory, first
  <2> QED
    BY <2>1, <2>2, <2>3, BeginsAside DEF Tracked, Lenders
<1>3. CASE ApproveTestnetPools
  <2>1. Begins("approvePools", "approve", NoLocal) /\ script = "idle"
    BY <1>3 DEF ApproveTestnetPools, Starting
  <2> QED
    BY <2>1, BeginsAside DEF Tracked, Lenders
<1>4. CASE CreateSafes
  <2>1. Begins("createSafes", "create", NoLocal) /\ script = "idle"
    BY <1>4 DEF CreateSafes, Starting
  <2> QED
    BY <2>1, BeginsAside DEF Tracked, Lenders
<1>5. ASSUME NEW pair \in 1 .. safes, TransferControl(pair) PROVE Quiet
  <2> DEFINE memory == [NoLocal EXCEPT !.pair = pair]
  <2>1. DOMAIN memory = Fields /\ memory.call = NoCall
    BY DEF Fields
  <2>2. Begins("transferControl", "role", memory) /\ script = "idle"
    BY <1>5 DEF TransferControl, Starting
  <2> HIDE DEF memory
  <2> QED
    BY <2>1, <2>2, BeginsAside DEF Tracked, Lenders
<1>6. CASE VerifyTwoStep
  <2>1. Begins("verifyTwoStep", "nominate", NoLocal) /\ script = "idle"
    BY <1>6 DEF VerifyTwoStep, Starting
  <2> QED
    BY <2>1, BeginsAside DEF Tracked, Lenders
<1>7. CASE ProveDraw
  <2> DEFINE memory == [NoLocal EXCEPT !.plan = Plan("proveDraw")]
  <2>1. /\ DOMAIN memory = Fields /\ memory.call = NoCall
        /\ memory.plan = Plan("proveDraw")
    BY DEF Fields
  <2>2. Begins("proveDraw", "originate", memory) /\ script = "idle"
    BY <1>7 DEF ProveDraw, Starting
  <2> HIDE DEF memory
  <2> QED
    BY <2>1, <2>2, PlansAreLoans, BeginsAside DEF Tracked, Lenders
<1>8. ASSUME NEW l \in DOMAIN loans, ResumeDraw(l) PROVE Quiet
  <2> DEFINE memory == [NoLocal EXCEPT !.plan = <<"wait", "settle">>, !.loan = l]
  <2>1. DOMAIN memory = Fields /\ memory.call = NoCall /\ memory.plan = <<"wait", "settle">>
    BY DEF Fields
  <2>2. Begins("proveDraw", "wait", memory) /\ script = "idle"
    BY <1>8 DEF ResumeDraw, Starting
  <2> HIDE DEF memory
  <2>3. memory.plan \in Seq(LoanSteps) /\ NextOf(memory.plan) = "wait"
    BY <2>1 DEF LoanSteps, NextOf
  <2> QED
    BY <2>1, <2>2, <2>3, BeginsAside DEF Tracked, Lenders
<1>9. CASE Lifecycle
  <2> DEFINE memory == [NoLocal EXCEPT !.plan = Plan("lifecycle")]
  <2>1. /\ DOMAIN memory = Fields /\ memory.call = NoCall
        /\ memory.plan = Plan("lifecycle")
    BY DEF Fields
  <2>2. Begins("lifecycle", "originate", memory) /\ script = "idle"
    BY <1>9 DEF Lifecycle, Starting
  <2> HIDE DEF memory
  <2> QED
    BY <2>1, <2>2, PlansAreLoans, BeginsAside DEF Tracked, Lenders
<1>10. CASE SettleStuck
  <2> PICK plan : plan = SetToSortSeq({l \in Stuck : BountyDue(l)}, <)
    OBVIOUS
  <2> DEFINE memory == [NoLocal EXCEPT !.plan = plan]
  <2>1. DOMAIN memory = Fields /\ memory.call = NoCall
    BY DEF Fields
  <2>2. Begins("settleStuck", "sweep", memory) /\ script = "idle"
    BY <1>10 DEF SettleStuck, Starting
  <2> HIDE DEF memory
  <2> QED
    BY <2>1, <2>2, BeginsAside DEF Tracked, Lenders
<1> QED
  BY <1>1, <1>2, <1>3, <1>4, <1>5, <1>6, <1>7, <1>8, <1>9, <1>10

-----------------------------------------------------------------------------
(***************************************************************************)
(* Calls other than repointing a pool.                                     *)
(***************************************************************************)
LEMMA AfterOtherCall ==
  ASSUME Shape, NEW call, call.kind \in OtherKinds, call.stack \in 1 .. Len(stacks)
  PROVE  /\ SameStack(AfterCall(call), stacks[call.stack])
         /\ AfterCall(call).fast \in {stacks[call.stack].fast, FALSE}
<1> PICK s : s = stacks[call.stack]
  OBVIOUS
<1>1. DOMAIN s = StackFields
  BY DEF Shape
<1>2. CASE call.kind = "settle"
  BY <1>1, <1>2 DEF AfterCall, SameStack, StackFields
<1>3. CASE call.kind = "cap"
  BY <1>1, <1>3 DEF AfterCall, SameStack, StackFields
<1>4. CASE call.kind = "list"
  BY <1>1, <1>4 DEF AfterCall, SameStack, StackFields
<1>5. CASE call.kind = "grant"
  BY <1>1, <1>5 DEF AfterCall, SameStack, StackFields
<1> QED
  BY <1>2, <1>3, <1>4, <1>5 DEF OtherKinds

LEMMA OtherCallQueue ==
  ASSUME NEW call, call.kind # "wire",
         queueAction(call) \/ queue' = Without(call) \/ queue' = queue
  PROVE  WiresKept
<1>1. \A s, f : Wire(s, f) # call
  BY WireIsOne
<1>2. CASE queueAction(call)
  BY <1>1, <1>2 DEF queueAction, WiresKept, Announced, Queued
<1>3. CASE queue' = Without(call)
  BY <1>1, <1>3 DEF Without, WiresKept, Announced, Queued
<1> QED
  BY <1>2, <1>3, QueueUnchanged

LEMMA ExecuteOther ==
  ASSUME Shape, NEW call, call.kind \in OtherKinds, Execute(call),
         UNCHANGED <<now, fileVars>>
  PROVE  Frame /\ NoFaster
<1>1. /\ stacks' = [stacks EXCEPT ![call.stack] = AfterCall(call)]
      /\ UNCHANGED <<factories, control>>
      /\ queue' = Without(call) \/ queue' = queue
  BY DEF Execute
<1>2. StacksKept /\ NoFaster
  BY <1>1, AfterOtherCall, StackChanged
<1>3. call.kind # "wire"
  BY DEF OtherKinds
<1>4. WiresKept
  BY <1>1, <1>3, OtherCallQueue
<1>5. RecordsKept /\ BookKept
  BY FilesUnchanged
<1> QED
  BY <1>1, <1>2, <1>4, <1>5 DEF Frame, Shape

LEMMA QueueOther ==
  ASSUME Shape, NEW call, call.kind \in OtherKinds, queueAction(call),
         UNCHANGED <<now, fileVars>>
  PROVE  Frame /\ NoFaster
<1>1. UNCHANGED <<stacks, factories, control>> /\ call.kind # "wire"
  BY DEF queueAction, OtherKinds
<1>2. StacksKept /\ NoFaster /\ WiresKept /\ RecordsKept /\ BookKept
  BY <1>1, StackUnchanged, OtherCallQueue, FilesUnchanged
<1> QED
  BY <1>1, <1>2 DEF Frame, Shape

\* Where a script is after sending a call.
GoesOn(call, then, otherwise) ==
  /\ script' = script
  /\ DOMAIN local' = Fields
  /\ local'.stack = local.stack /\ local'.factory = local.factory
  /\ local'.call \in {local.call, call}
  /\ \/ step' \in {then, otherwise}
     \/ /\ step' \in {"clear", "record"}
        /\ local'.then \in {then, otherwise} /\ local'.call = call

LEMMA SendingIsKept ==
  ASSUME Shape, NEW call, call.kind \in OtherKinds, NEW then, NEW otherwise,
         sendOrQueue(call, then, otherwise), UNCHANGED <<now, fileVars>>
  PROVE  /\ Frame /\ NoFaster /\ MishapKept
         /\ GoesOn(call, then, otherwise) \/ (Aside /\ script' = "idle")
<1>1. DOMAIN local = Fields
  BY DEF Shape
<1>2. ASSUME NEW next \in {then, otherwise},
             local' = [local EXCEPT !.call = call, !.then = next]
      PROVE  /\ DOMAIN local' = Fields
             /\ local'.stack = local.stack /\ local'.factory = local.factory
             /\ local'.call = call /\ local'.then = next
  BY <1>1, <1>2 DEF Fields
<1>3. \A s : Goto(s) => step' = s /\ script' = script /\ MishapKept
  BY DEF Goto, MishapKept
<1>4. CASE ~HeldBy(Target(call), Key)
  <2>1. Goto(otherwise) /\ UNCHANGED <<chainVars, local>>
    BY <1>4 DEF sendOrQueue
  <2>2. Frame /\ NoFaster
    BY <2>1, NothingChanged
  <2> QED
    BY <1>1, <1>3, <2>1, <2>2 DEF GoesOn
<1>5. CASE HeldBy(Target(call), Key) /\ Accepted(call)
  <2>1. /\ Execute(call)
        /\ Goto(IF Delay(call) > 0 /\ isExecutable(call) THEN "clear" ELSE then)
        /\ local' = [local EXCEPT !.call = call, !.then = then]
    BY <1>5 DEF sendOrQueue
  <2>2. Frame /\ NoFaster
    BY <2>1, ExecuteOther
  <2>3. step' \in {"clear", then} /\ script' = script /\ MishapKept
    BY <1>3, <2>1
  <2> QED
    BY <1>2, <2>1, <2>2, <2>3 DEF GoesOn
<1>6. CASE HeldBy(Target(call), Key) /\ ~Accepted(call)
  <2>1. CASE Fails /\ UNCHANGED chainVars
    <3>1. Frame /\ NoFaster
      BY <2>1, NothingChanged
    <3> QED
      BY <2>1, <3>1, FailsAside
  <2>2. CASE Goto(otherwise) /\ UNCHANGED <<chainVars, local>>
    <3>1. Frame /\ NoFaster
      BY <2>2, NothingChanged
    <3> QED
      BY <1>1, <1>3, <2>2, <3>1 DEF GoesOn
  <2>3. CASE /\ queueAction(call) /\ Goto("record")
             /\ local' = [local EXCEPT !.call = call, !.then = otherwise]
    <3>1. Frame /\ NoFaster
      BY <2>3, QueueOther
    <3>2. step' = "record" /\ script' = script /\ MishapKept
      BY <1>3, <2>3
    <3> QED
      BY <1>2, <2>3, <3>1, <3>2 DEF GoesOn
  <2> QED
    BY <1>6, <2>1, <2>2, <2>3 DEF sendOrQueue
<1> QED
  BY <1>4, <1>5, <1>6

-----------------------------------------------------------------------------
(***************************************************************************)
(* The other quiet steps.                                                  *)
(***************************************************************************)
\* A script that is not followed goes on with what it has in hand, or ends.
LEMMA StaysAside ==
  ASSUME Shape, CallInHand, script \notin Tracked, DOMAIN local' = Fields,
         script' = script, local'.call = local.call,
         step' \in {"clear", "record"} => local.call.kind \in OtherKinds,
         script \in Lenders => LoanFlow'
  PROVE  Aside
BY DEF Aside, CallInHand, LoanFlow, Shape, Tracked

LEMMA SendersAreQuiet ==
  ASSUME Shape, CallInHand, SendTierConfig \/ SendListing
  PROVE  Quiet
<1>1. CASE SendTierConfig
  <2>1. /\ script = "setTierConfig" /\ sendOrQueue(local.call, "end", "end")
        /\ UNCHANGED <<now, fileVars>>
    BY <1>1 DEF SendTierConfig, At
  <2>2. local.call.kind \in OtherKinds
    BY <2>1 DEF CallInHand, OtherKinds
  <2>3. /\ Frame /\ NoFaster /\ MishapKept
        /\ GoesOn(local.call, "end", "end") \/ Aside
    BY <2>1, <2>2, SendingIsKept
  <2>4. Aside
    BY <2>1, <2>2, <2>3, StaysAside DEF GoesOn, Tracked, Lenders
  <2> QED
    BY <2>1, <2>3, <2>4 DEF Quiet
<1>2. CASE SendListing
  <2>1. /\ script = "listAsset" /\ sendOrQueue(local.call, "approve", "end")
        /\ UNCHANGED <<now, fileVars>>
    BY <1>2 DEF SendListing, At
  <2>2. local.call.kind \in OtherKinds
    BY <2>1 DEF CallInHand, OtherKinds
  <2>3. /\ Frame /\ NoFaster /\ MishapKept
        /\ GoesOn(local.call, "approve", "end") \/ Aside
    BY <2>1, <2>2, SendingIsKept
  <2>4. Aside
    BY <2>1, <2>2, <2>3, StaysAside DEF GoesOn, Tracked, Lenders
  <2> QED
    BY <2>1, <2>3, <2>4 DEF Quiet
<1> QED
  BY <1>1, <1>2

LEMMA ClearedOther ==
  ASSUME Shape, NEW call, call.kind \in OtherKinds, UNCHANGED book,
         pending' = clearPending(call) \/ pending' = writePending(call)
  PROVE  RecordsKept /\ BookKept
<1>1. (\A s, f : Wire(s, f) # call) /\ Recordable(call)
  BY WireIsOne DEF OtherKinds, Recordable
<1>2. WireSeq(pending)
  BY DEF Shape
<1>3. CASE pending' = clearPending(call)
  <2>1. /\ WireSeq(clearPending(call))
        /\ \A x : Contains(clearPending(call), x) <=> Contains(pending, x) /\ x # call
    BY <1>2, Cleared
  <2> QED
    BY <1>1, <1>3, <2>1 DEF RecordsKept, OnRecord, BookKept
<1>4. CASE pending' = writePending(call)
  <2>1. /\ WireSeq(writePending(call))
        /\ \A x : Contains(writePending(call), x) <=> Contains(pending, x) \/ x = call
    BY <1>1, <1>2, Written
  <2> QED
    BY <1>1, <1>4, <2>1 DEF RecordsKept, OnRecord, BookKept
<1> QED
  BY <1>3, <1>4

\* The two file writes of a script whose call is not a repointing.
LEMMA FilingIsKept ==
  ASSUME Shape, local.call.kind \in OtherKinds, Clear \/ Record
  PROVE  /\ Frame /\ NoFaster /\ MishapKept
         /\ script' = script /\ step' = local.then /\ UNCHANGED local
<1>1. /\ UNCHANGED <<now, chainVars, book, local>> /\ Goto(local.then)
      /\ pending' = clearPending(local.call) \/ pending' = writePending(local.call)
  BY DEF Clear, Record
<1>2. RecordsKept /\ BookKept
  BY <1>1, ClearedOther
<1>3. UNCHANGED <<stacks, factories, control, queue>>
  BY <1>1 DEF chainVars
<1>4. StacksKept /\ NoFaster /\ WiresKept
  BY <1>3, StackUnchanged, QueueUnchanged
<1>5. Frame
  BY <1>1, <1>2, <1>3, <1>4 DEF Frame, Shape
<1> QED
  BY <1>1, <1>4, <1>5 DEF Goto, MishapKept

LEMMA FilersAreQuiet ==
  ASSUME Shape, CallInHand, LoanFlow, script \notin Tracked, Clear \/ Record
  PROVE  Quiet
<1>1. local.call.kind \in OtherKinds
  BY DEF CallInHand, Tracked, Clear, Record
<1>2. /\ Frame /\ NoFaster /\ MishapKept
      /\ script' = script /\ UNCHANGED local
  BY <1>1, FilingIsKept
<1>3. Aside
  <2>1. script \notin Lenders
    <3> SUFFICES ASSUME script \in Lenders PROVE FALSE
      OBVIOUS
    <3>1. local.plan \in Seq(LoanSteps) /\ step = NextOf(local.plan)
      BY DEF LoanFlow
    <3>2. step \in LoanSteps \cup {"end"}
      BY <3>1, HeadTailProperties DEF NextOf
    <3> QED
      BY <3>2 DEF LoanSteps, Clear, Record
  <2> QED
    BY <1>1, <1>2, <2>1, StaysAside DEF Shape
<1> QED
  BY <1>2, <1>3 DEF Quiet, Tracked

LEMMA ControlChanged ==
  ASSUME Shape, UNCHANGED <<now, stacks, factories, queue, fileVars>>,
         DOMAIN control' = DOMAIN control
  PROVE  Frame /\ NoFaster
<1>1. StacksKept /\ NoFaster /\ WiresKept /\ RecordsKept /\ BookKept
  BY StackUnchanged, QueueUnchanged, FilesUnchanged
<1> QED
  BY <1>1 DEF Frame, Shape

LEMMA ListingsChanged ==
  ASSUME Shape, NEW k, NEW r, stacks' = [stacks EXCEPT ![k] = r],
         k \in 1 .. Len(stacks) => SameStack(r, stacks[k]) /\ r.fast = stacks[k].fast,
         UNCHANGED <<now, factories, control, queue, fileVars>>
  PROVE  Frame /\ NoFaster
<1>1. StacksKept /\ NoFaster
  BY StackChanged
<1>2. WiresKept /\ RecordsKept /\ BookKept
  BY QueueUnchanged, FilesUnchanged
<1> QED
  BY <1>1, <1>2 DEF Frame, Shape

LEMMA GoesAside ==
  ASSUME Shape, CallInHand, script \notin Tracked \cup Lenders, NEW s, Goto(s),
         s \notin {"clear", "record"},
         DOMAIN local' = Fields, local'.call = local.call
  PROVE  Aside /\ MishapKept
<1>1. script' = script /\ step' = s /\ MishapKept
  BY DEF Goto, MishapKept
<1> QED
  BY <1>1, StaysAside

\* The listings of the book's registry.
LEMMA ListersAreQuiet ==
  ASSUME Shape, CallInHand, ApproveListed \/ ApproveAll \/ RemoveAsset
  PROVE  Quiet
<1> PICK k : k = book.stack
  OBVIOUS
<1>1. ASSUME ApprovePoolOf(k), UNCHANGED <<now, fileVars>>
      PROVE  Frame /\ NoFaster
  <2> PICK e : e = (stacks[k].approved \/ (stacks[k].listed /\ HistorySuffices(k)))
    OBVIOUS
  <2> DEFINE r == [stacks[k] EXCEPT !.approved = e]
  <2>1. /\ stacks' = [stacks EXCEPT ![k] = r]
        /\ UNCHANGED <<now, factories, control, queue, fileVars>>
    BY <1>1 DEF ApprovePoolOf
  <2>2. k \in 1 .. Len(stacks) => SameStack(r, stacks[k]) /\ r.fast = stacks[k].fast
    BY DEF Shape, SameStack, StackFields
  <2> HIDE DEF r
  <2> QED
    BY <2>1, <2>2, ListingsChanged
<1>2. DOMAIN local = Fields
  BY DEF Shape
<1>3. CASE ApproveListed
  <2>1. /\ ApprovePoolOf(k) /\ Goto("end") /\ UNCHANGED <<now, fileVars, local>>
        /\ script = "listAsset"
    BY <1>3 DEF ApproveListed, At
  <2>2. Frame /\ NoFaster
    BY <1>1, <2>1
  <2>3. Aside /\ MishapKept
    BY <1>2, <2>1, GoesAside DEF Tracked, Lenders
  <2> QED
    BY <2>1, <2>2, <2>3 DEF Quiet
<1>4. CASE ApproveAll
  <2>1. script = "approvePools" /\ UNCHANGED <<now, fileVars>>
    BY <1>4 DEF ApproveAll, At
  <2>2. CASE ApprovePoolOf(k) /\ Goto("end") /\ UNCHANGED local
    <3>1. Frame /\ NoFaster
      BY <1>1, <2>1, <2>2
    <3>2. Aside /\ MishapKept
      BY <1>2, <2>1, <2>2, GoesAside DEF Tracked, Lenders
    <3> QED
      BY <2>1, <3>1, <3>2 DEF Quiet
  <2>3. CASE Throws
    <3>1. Fails /\ UNCHANGED <<now, chainVars, fileVars>>
      BY <2>1, <2>3 DEF Throws
    <3>2. Frame /\ NoFaster
      BY <3>1, NothingChanged
    <3>3. Aside /\ MishapKept
      BY <3>1, FailsAside
    <3> QED
      BY <2>1, <3>2, <3>3 DEF Quiet
  <2> QED
    BY <1>4, <2>2, <2>3 DEF ApproveAll
<1>5. CASE RemoveAsset
  <2> DEFINE r == [stacks[k] EXCEPT !.listed = FALSE]
  <2>1. /\ stacks' = [stacks EXCEPT ![k] = r] /\ script = "idle"
        /\ UNCHANGED <<now, factories, control, queue, fileVars>>
        /\ UNCHANGED <<script, step, local, mishap>>
    BY <1>5 DEF RemoveAsset, scriptVars, Starting
  <2>2. k \in 1 .. Len(stacks) => SameStack(r, stacks[k]) /\ r.fast = stacks[k].fast
    BY DEF Shape, SameStack, StackFields
  <2> HIDE DEF r
  <2>3. Frame /\ NoFaster
    BY <2>1, <2>2, ListingsChanged
  <2>4. Aside
    BY <1>2, <2>1, StaysAside DEF Tracked, Lenders, CallInHand
  <2>5. MishapKept
    BY <2>1 DEF MishapKept
  <2> QED
    BY <2>1, <2>3, <2>4, <2>5 DEF Quiet
<1> QED
  BY <1>3, <1>4, <1>5

LEMMA EndersAreQuiet ==
  ASSUME Shape,
         script \in {"proveKeeper", "redeployFactory"} => step \notin {"end", "complete"},
         \/ Finish \/ HandoverEnds \/ ExecutedAll \/ SweptAll \/ Interrupt
  PROVE  Quiet
<1>1. CASE Finish \/ HandoverEnds \/ ExecutedAll \/ SweptAll
  <2>1. /\ Done /\ UNCHANGED <<now, chainVars, fileVars>>
        /\ script \notin {"proveKeeper", "redeployFactory"}
    BY <1>1 DEF Finish, HandoverEnds, ExecutedAll, SweptAll, At
  <2>2. Frame /\ NoFaster
    BY <2>1, NothingChanged
  <2>3. Aside /\ MishapKept
    BY <2>1, DoneAside
  <2> QED
    BY <2>1, <2>2, <2>3 DEF Quiet
<1>2. CASE Interrupt
  <2>1. EndsBadly("interrupted") /\ UNCHANGED <<now, chainVars, fileVars>>
    BY <1>2 DEF Interrupt
  <2>2. Frame /\ NoFaster
    BY <2>1, NothingChanged
  <2>3. Aside /\ MishapKept /\ mishap' # "none" /\ mishap' \in Grave
    BY <2>1, EndsBadlyAside DEF Grave
  <2> QED
    BY <2>2, <2>3 DEF Quiet
<1> QED
  BY <1>1, <1>2

LEMMA SetControlKeeps ==
  ASSUME NEW c, NEW part, NEW who, SetControl(c, part, who)
  PROVE  /\ UNCHANGED <<stacks, factories, queue>>
         /\ DOMAIN control' = DOMAIN control
BY DEF SetControl

LEMMA NextRoleKeeps ==
  ASSUME Shape, NEW i, NextRole(i)
  PROVE  /\ Goto(step') /\ step' \in {"role", "complete"}
         /\ DOMAIN local' = Fields /\ local'.call = local.call
         /\ local'.todo = Append(local.todo, Call(0, RoleOrder[i], 0))
         /\ i # Len(RoleOrder) => step' = "role"
         /\ i = Len(RoleOrder) => step' = "complete"
<1> PICK todo : todo = Append(local.todo, Call(0, RoleOrder[i], 0))
  OBVIOUS
<1>1. local' = [local EXCEPT !.todo = todo] /\ DOMAIN local = Fields
  BY DEF NextRole, Shape
<1>2. DOMAIN local' = Fields /\ local'.call = local.call /\ local'.todo = todo
  BY <1>1 DEF Fields
<1>3. Goto(IF i = Len(RoleOrder) THEN "complete" ELSE "role")
  BY DEF NextRole
<1> QED
  BY <1>2, <1>3 DEF Goto

LEMMA NominatorsAreQuiet ==
  ASSUME Shape, CallInHand,
         \/ \E i \in Roles : NominateSafe(i)
         \/ NominateProbe \/ CancelProbe
  PROVE  Quiet
<1>1. DOMAIN local = Fields
  BY DEF Shape
<1>2. ASSUME NEW i \in Roles, NominateSafe(i) PROVE Quiet
  <2>1. /\ script = "transferControl" /\ NextRole(i) /\ UNCHANGED <<now, fileVars>>
        /\ SetControl(Recorded(i), "nominee", local.pair)
    BY <1>2 DEF NominateSafe, RoleStep, At
  <2>2. Frame /\ NoFaster
    BY <2>1, SetControlKeeps, ControlChanged
  <2>3. Aside /\ MishapKept
    BY <2>1, NextRoleKeeps, GoesAside DEF Tracked, Lenders
  <2> QED
    BY <2>1, <2>2, <2>3 DEF Quiet
<1>3. CASE NominateProbe
  <2>1. script = "verifyTwoStep" /\ UNCHANGED now
    BY <1>3 DEF NominateProbe, At
  <2>2. CASE /\ SetControl(Recorded(2), "nominee", Probe)
             /\ Goto("cancel") /\ UNCHANGED <<local, fileVars>>
    <3>1. Frame /\ NoFaster
      BY <2>1, <2>2, SetControlKeeps, ControlChanged
    <3>2. Aside /\ MishapKept
      BY <1>1, <2>1, <2>2, GoesAside DEF Tracked, Lenders
    <3> QED
      BY <2>1, <3>1, <3>2 DEF Quiet
  <2>3. CASE Throws
    <3>1. Fails /\ UNCHANGED <<now, chainVars, fileVars>>
      BY <2>1, <2>3 DEF Throws
    <3>2. Frame /\ NoFaster
      BY <3>1, NothingChanged
    <3>3. Aside /\ MishapKept
      BY <3>1, FailsAside
    <3> QED
      BY <2>1, <3>2, <3>3 DEF Quiet
  <2> QED
    BY <1>3, <2>2, <2>3 DEF NominateProbe
<1>4. CASE CancelProbe
  <2>1. /\ script = "verifyTwoStep" /\ Goto("end") /\ UNCHANGED <<now, fileVars, local>>
        /\ SetControl(Recorded(2), "nominee", Nobody)
    BY <1>4 DEF CancelProbe, At
  <2>2. Frame /\ NoFaster
    BY <2>1, SetControlKeeps, ControlChanged
  <2>3. Aside /\ MishapKept
    BY <1>1, <2>1, GoesAside DEF Tracked, Lenders
  <2> QED
    BY <2>1, <2>2, <2>3 DEF Quiet
<1> QED
  BY <1>2, <1>3, <1>4

LEMMA SafeMakersAreQuiet ==
  ASSUME Shape, CallInHand, CreatePair \/ PersistSafes
  PROVE  Quiet
<1>1. CASE CreatePair
  <2> PICK pair : pair = safes'
    OBVIOUS
  <2>1. /\ script = "createSafes" /\ Goto("persist")
        /\ local' = [local EXCEPT !.pair = pair]
        /\ UNCHANGED <<now, stacks, factories, control, queue, fileVars>>
    BY <1>1 DEF CreatePair, At
  <2>2. Frame /\ NoFaster
    BY <2>1, ControlChanged
  <2>3. DOMAIN local' = Fields /\ local'.call = local.call
    BY <2>1 DEF Shape, Fields
  <2>4. Aside /\ MishapKept
    BY <2>1, <2>3, GoesAside DEF Tracked, Lenders
  <2> QED
    BY <2>1, <2>2, <2>4 DEF Quiet
<1>2. CASE PersistSafes
  <2>1. /\ script = "createSafes" /\ Done /\ UNCHANGED <<now, chainVars, pending>>
        /\ book' = [book EXCEPT !.pair = local.pair]
    BY <1>2 DEF PersistSafes, At
  <2>2. UNCHANGED <<stacks, factories, control, queue>>
    BY <2>1 DEF chainVars
  <2>3. BookKept
    BY <2>1 DEF BookKept, Shape
  <2>4. RecordsKept
    BY <2>1 DEF RecordsKept, Shape, OnRecord
  <2>5. StacksKept /\ NoFaster /\ WiresKept
    BY <2>2, StackUnchanged, QueueUnchanged
  <2>6. Frame
    BY <2>1, <2>2, <2>3, <2>4, <2>5 DEF Frame, Shape
  <2>7. Aside /\ MishapKept
    BY <2>1, DoneAside
  <2> QED
    BY <2>1, <2>5, <2>6, <2>7 DEF Quiet
<1> QED
  BY <1>1, <1>2

-----------------------------------------------------------------------------
(***************************************************************************)
(* Loans.  A step of one changes nothing the invariant is about, and the   *)
(* script goes on to the next of its plan or gives up.                     *)
(***************************************************************************)
LoanCall ==
  Originate \/ PayDeposit \/ Swap \/ WaitOut \/ SettleLoan

LEMMA LoanCalls ==
  ASSUME LoanCall
  PROVE  /\ UNCHANGED <<now, stacks, factories, control, queue, fileVars>>
         /\ script \in Lenders \cup {"proveKeeper"} /\ step \in LoanSteps
         /\ (\E loan : Onward(loan)) \/ Aborts
<1>1. CASE Originate
  BY <1>1 DEF Originate, LoanStepAt, Lending, Refused, chainVars, Lenders, LoanSteps
<1>2. CASE PayDeposit
  BY <1>2 DEF PayDeposit, LoanStepAt, Lending, Refused, chainVars, Lenders, LoanSteps
<1>3. CASE Swap
  BY <1>3 DEF Swap, LoanStepAt, Lending, Refused, chainVars, Lenders, LoanSteps
<1>4. CASE WaitOut
  BY <1>4 DEF WaitOut, LoanStepAt, chainVars, Lenders, LoanSteps
<1>5. CASE SettleLoan
  BY <1>5 DEF SettleLoan, LoanStepAt, Lending, Refused, chainVars, Lenders, LoanSteps
<1> QED
  BY <1>1, <1>2, <1>3, <1>4, <1>5 DEF LoanCall

LEMMA OnwardKeeps ==
  ASSUME Shape, NEW loan, Onward(loan)
  PROVE  /\ script' = script /\ step' = NextOf(Tail(local.plan)) /\ mishap' = mishap
         /\ DOMAIN local' = Fields /\ local'.plan = Tail(local.plan)
         /\ local'.call = local.call /\ local'.was = local.was
BY DEF Onward, Shape, Fields, Goto

LEMMA LendersAreQuiet ==
  ASSUME Shape, CallInHand, LoanFlow, script \in Lenders, LoanCall
  PROVE  Quiet
<1>1. /\ UNCHANGED <<now, stacks, factories, control, queue, fileVars>>
      /\ step \in LoanSteps
      /\ (\E loan : Onward(loan)) \/ Aborts
  BY LoanCalls
<1>2. Frame /\ NoFaster
  BY <1>1, ControlChanged
<1>3. ASSUME NEW loan, Onward(loan) PROVE Aside /\ MishapKept
  <2>1. /\ script' = script /\ step' = NextOf(Tail(local.plan)) /\ mishap' = mishap
        /\ DOMAIN local' = Fields /\ local'.plan = Tail(local.plan)
        /\ local'.call = local.call
    BY <1>3, OnwardKeeps
  <2>2. local.plan \in Seq(LoanSteps) /\ step = NextOf(local.plan)
    BY DEF LoanFlow
  <2>3. local.plan # <<>>
    <3>1. local.plan = <<>> => NextOf(local.plan) = "end"
      BY DEF NextOf
    <3>2. step \in LoanSteps
      BY <1>1
    <3>3. step # "end"
      BY <3>2 DEF LoanSteps
    <3> QED
      BY <2>2, <3>1, <3>3
  <2>4. Tail(local.plan) \in Seq(LoanSteps)
    BY <2>2, <2>3, HeadTailProperties
  <2>5. LoanFlow'
    BY <2>1, <2>4 DEF LoanFlow
  <2>6. step' \in LoanSteps \cup {"end"}
    BY <2>1, <2>4, HeadTailProperties DEF NextOf
  <2>7. script \notin Tracked /\ step' \notin {"clear", "record"}
    BY <2>6 DEF LoanSteps, Lenders, Tracked
  <2>8. Aside
    BY <2>1, <2>5, <2>7, StaysAside
  <2> QED
    BY <2>1, <2>8 DEF MishapKept
<1>4. ASSUME Aborts PROVE Aside /\ MishapKept
  <2>1. Fails
    BY <1>4 DEF Aborts, Lenders
  <2> QED
    BY <2>1, FailsAside
<1>5. Aside /\ MishapKept
  BY <1>1, <1>3, <1>4
<1> QED
  BY <1>2, <1>5 DEF Quiet, Lenders

LEMMA SweepersAreQuiet ==
  ASSUME Shape, CallInHand, SweepOne \/ SweepTry
  PROVE  Quiet
<1> PICK plan : plan = Tail(local.plan)
  OBVIOUS
<1>1. /\ UNCHANGED <<now, stacks, factories, control, queue, fileVars>>
      /\ script = "settleStuck" /\ (Goto("try") \/ Goto("sweep"))
      /\ local' = local \/ local' = [local EXCEPT !.plan = plan]
  BY DEF SweepOne, SweepTry, Lending, At, chainVars
<1>2. Frame /\ NoFaster
  BY <1>1, ControlChanged
<1>3. DOMAIN local' = Fields /\ local'.call = local.call
  BY <1>1 DEF Shape, Fields
<1>4. Aside /\ MishapKept
  BY <1>1, <1>3, GoesAside DEF Tracked, Lenders
<1> QED
  BY <1>1, <1>2, <1>4 DEF Quiet

\* A call that throws ends its script, but for those inside the try of
\* prove-keeper-bounty.js.
LEMMA ThrowersAreQuiet ==
  ASSUME Shape, CallThrows, ~InTry
  PROVE  Quiet
<1>1. UNCHANGED <<now, chainVars, fileVars>>
  BY DEF CallThrows
<1>2. Frame /\ NoFaster
  BY <1>1, NothingChanged
<1>3. CASE Restoring
  <2>1. EndsBadly("unrestored")
    BY <1>3 DEF CallThrows
  <2>2. Aside /\ MishapKept /\ mishap' # "none" /\ mishap' \in Grave
    BY <2>1, EndsBadlyAside DEF Grave
  <2> QED
    BY <1>2, <2>2 DEF Quiet
<1>4. CASE ~Restoring
  <2>1. Fails
    BY <1>4 DEF CallThrows
  <2>2. Aside /\ MishapKept /\ mishap' # "none"
    BY <2>1, FailsAside
  <2>3. script = "proveKeeper" => step = "shorten"
    BY <1>4 DEF InTry, Restoring, At
  <2> QED
    BY <1>2, <2>2, <2>3 DEF Quiet
<1> QED
  BY <1>3, <1>4

-----------------------------------------------------------------------------
(***************************************************************************)
(* Every step is a quiet one, the passing of time, or a step of a script   *)
(* the invariant follows.                                                  *)
(***************************************************************************)
DeploySteps ==
  \/ DeployStack \/ DeployContracts \/ GrantDemoWallets \/ SetSettlement
  \/ ListAssets \/ DeployFactory \/ WireFirst \/ PersistStack
RedeploySteps ==
  RedeployFactory \/ RedeployContracts \/ Rewire \/ PersistRedeploy
AcceptSteps == AcceptRoles \/ \E i \in Roles : AcceptRole(i)
KeeperSteps ==
  \/ ProveKeeper \/ ShortenGrace \/ RestoreGrace
  \/ script = "proveKeeper" /\ LoanCall
  \/ InTry /\ CallThrows
FilingSteps == script \in Tracked /\ (Clear \/ Record)

LEMMA StepsAreKnown ==
  ASSUME Shape, CallInHand, LoanFlow,
         script \in {"proveKeeper", "redeployFactory"} => step \notin {"end", "complete"},
         Next
  PROVE  \/ Quiet \/ Tick \/ DeploySteps \/ RedeploySteps
         \/ ExecuteTimelocked \/ ExecuteEach \/ ExecuteSend \/ AcceptSteps
         \/ KeeperSteps \/ FilingSteps
<1>1. CASE AdminStep
  BY <1>1, BeginnersAreQuiet, SendersAreQuiet, ListersAreQuiet, EndersAreQuiet,
     FilersAreQuiet DEF AdminStep, FilingSteps
<1>2. CASE DeployStep
  BY <1>2 DEF DeployStep, DeploySteps, RedeploySteps
<1>3. CASE HandoverStep
  BY <1>3, BeginnersAreQuiet, EndersAreQuiet, NominatorsAreQuiet, SafeMakersAreQuiet
     DEF HandoverStep, AcceptSteps
<1>4. CASE LoanStep
  <2>1. CASE LoanCall
    <3>1. script \in Lenders \cup {"proveKeeper"}
      BY <2>1, LoanCalls
    <3> QED
      BY <2>1, <3>1, LendersAreQuiet DEF KeeperSteps
  <2> QED
    BY <1>4, <2>1, BeginnersAreQuiet, EndersAreQuiet, SweepersAreQuiet,
       ThrowersAreQuiet DEF LoanStep, LoanCall, KeeperSteps
<1>5. CASE Interrupt
  BY <1>5, EndersAreQuiet
<1> QED
  BY <1>1, <1>2, <1>3, <1>4, <1>5 DEF Next

-----------------------------------------------------------------------------
(***************************************************************************)
(* The invariant.  World is about the contracts and the files; a Flow is   *)
(* what a script has done by each of its steps.                            *)
(***************************************************************************)
\* No pool takes vaults from a factory that is not there.
PoolsFit ==
  /\ Len(stacks) <= MaxStacks /\ Len(factories) <= MaxFactories
  /\ \A s \in 1 .. Len(stacks) : stacks[s].vaultFactory <= Len(factories)

\* What is on record is deployed and fits together, and its pool is wired.
BookFits ==
  /\ book.stack \in 0 .. Len(stacks) /\ book.factory \in 0 .. Len(factories)
  /\ book.stack = 0 <=> book.factory = 0
  /\ FactoryFitsStack
  /\ book.stack # 0 => stacks[book.stack].vaultFactory # 0

\* An announced or recorded repointing is to a factory that was built, of a
\* pool that takes vaults from another already.
WiresFit ==
  \A s, f :
    /\ Announced(s, f) \/ OnRecord(s, f) =>
         s \in 1 .. Len(stacks) /\ f \in 1 .. Len(factories)
    /\ Announced(s, f) =>
         /\ stacks[s].vaultFactory # 0
         /\ queue[Wire(s, f)] \in Nat /\ queue[Wire(s, f)] <= now

\* What keeps an announcement from moving a pool back that was moved as `moved`
\* says: it lapsed, or the run that moved the pool had been going for longer than
\* the time between the two announcements.
Beaten(call, moved) ==
  Lapsed(call) \/ moved.announced - queue[call] < moved.took

\* No announcement of an older factory than the pool's is left but these.
OlderOnesBeaten ==
  \A s, f : Announced(s, f) /\ OnRecord(s, f) /\ f < stacks[s].vaultFactory =>
              Beaten(Wire(s, f), stacks[s].moved)

World == PoolsFit /\ BookFits /\ WiresFit /\ OlderOnesBeaten

\* The factory in hand is the last one built, on the stack in hand.
FactoryBuilt ==
  /\ local.factory = Len(factories) /\ local.factory # 0
  /\ factories[local.factory] = local.stack

\* A deployment works on a stack nobody has announced anything for.
DeployFlow ==
  script = "deployStack" =>
    /\ step \in {"contracts", "grant", "settlement", "assets", "factory", "wire",
                 "persist", "clear", "record"}
    /\ step \in {"clear", "record"} =>
         /\ local.then \in {"settlement", "assets"}
         /\ local.call.kind \in {"grant", "settle"}
    /\ step = "contracts" => Len(stacks) < MaxStacks
    /\ step \notin {"wire", "persist"} => Len(factories) < MaxFactories
    /\ step # "contracts" =>
         /\ local.stack \in 1 .. Len(stacks)
         /\ \A f : ~Announced(local.stack, f) /\ ~OnRecord(local.stack, f)
         /\ stacks[local.stack].vaultFactory =
              IF step = "persist" THEN local.factory ELSE 0
    /\ step \in {"wire", "persist"} => FactoryBuilt

\* A redeployment announces its factory after all others of the pool.
RedeployFlow ==
  script = "redeployFactory" =>
    /\ step \in {"factory", "rewire", "record", "persist"}
    /\ local.stack = book.stack /\ book.stack # 0
    /\ step = "factory" => Len(factories) < MaxFactories
    /\ step # "factory" => FactoryBuilt
    /\ step = "rewire" =>
         \A f : Announced(local.stack, f) \/ OnRecord(local.stack, f) =>
                  f < local.factory
    /\ step = "record" =>
         /\ local.call = Wire(local.stack, local.factory)
         /\ local.then = "persist"
         /\ Announced(local.stack, local.factory)
         /\ \A f : OnRecord(local.stack, f) => f < local.factory
    /\ step = "persist" =>
         \/ stacks[local.stack].vaultFactory = local.factory
         \/ /\ OnRecord(local.stack, local.factory)
            /\ Announced(local.stack, local.factory)

\* A run that passes over an announcement finds it lapsed or not mature yet.
PassedOver(call) == Lapsed(call) \/ Matures(call) > local.since

\* An announced repointing on record is still to go through or was passed over.
ExecuteFlow ==
  script = "executeTimelocked" =>
    /\ step \in {"each", "send", "clear"}
    /\ local.since \in Nat /\ local.since <= now
    /\ WireSeq(local.todo)
    /\ \A s, f : Contains(local.todo, Wire(s, f)) => OnRecord(s, f)
    /\ \A s, f : OnRecord(s, f) /\ Announced(s, f) =>
                   Contains(local.todo, Wire(s, f)) \/ PassedOver(Wire(s, f))
    /\ step = "send" => local.todo # <<>> /\ Queued(Head(local.todo))
    /\ step = "clear" =>
         /\ local.then = "each"
         /\ \A s, f : local.call = Wire(s, f) =>
              /\ s \in 1 .. Len(stacks) /\ stacks[s].vaultFactory = f
              /\ ~Contains(local.todo, Wire(s, f)) /\ ~Announced(s, f)

\* As long as nothing went wrong, the book's factory is the newest on record,
\* and its record is only dropped once the pool is wired to it.
RecordedFlow ==
  mishap = "none" =>
    /\ \A f : OnRecord(book.stack, f) =>
         \/ f <= book.factory
         \/ script = "redeployFactory" /\ step = "persist"
    /\ OnRecord(book.stack, book.factory) =>
         \/ Announced(book.stack, book.factory)
         \/ stacks[book.stack].vaultFactory = book.factory
    /\ RecordedFactoryIsWired

\* The roles gone through are held by the recorded Safes.
AcceptFlow ==
  script = "acceptRoles" =>
    /\ step \in {"role", "complete"}
    /\ book.stack # 0 /\ book.pair # 0
    /\ IsSeq(local.todo) /\ Len(local.todo) <= 4
    /\ step = "complete" => Len(local.todo) = 4
    /\ \A i \in Roles : i <= Len(local.todo) =>
         HeldBy(Recorded(i), book.pair) /\ Nominated(Recorded(i), Nobody)

\* prove-keeper-bounty.js always comes to put the configuration back.
KeeperPlan(p) ==
  /\ IsSeq(p) /\ Len(p) >= 1
  /\ p[Len(p)] = "restore"
  /\ \A i \in 1 .. Len(p) - 1 : p[i] \in LoanSteps

KeeperFlow ==
  script = "proveKeeper" =>
    /\ KeeperPlan(local.plan)
    /\ step = "shorten" => NextOf(local.plan) = "originate"
    /\ step # "shorten" => step = NextOf(local.plan)
    /\ book.stack # 0
    /\ mishap \notin Grave => local.was = FALSE

\* No stack has the values of a test, but for the one a proof runs on.
NoneFast ==
  mishap \notin Grave =>
    \A s \in 1 .. Len(stacks) :
      \/ stacks[s].fast = FALSE
      \/ script = "proveKeeper" /\ step # "shorten" /\ s = book.stack

Inv ==
  /\ Shape /\ CallInHand /\ LoanFlow /\ World
  /\ DeployFlow /\ RedeployFlow /\ ExecuteFlow /\ AcceptFlow /\ KeeperFlow
  /\ RecordedFlow /\ NoneFast

LEMMA ShapeIsKept ==
  ASSUME Shape, Frame, DOMAIN local' = Fields
  PROVE  Shape'
<1>1. /\ now' \in Nat /\ factories' = factories /\ DOMAIN control' = DOMAIN control
      /\ IsSeq(stacks') /\ Len(stacks') = Len(stacks)
      /\ WireSeq(pending') /\ DOMAIN book' = DOMAIN book
  BY DEF Frame, StacksKept, RecordsKept, BookKept
<1>2. \A s \in 1 .. Len(stacks) : /\ DOMAIN stacks'[s] = StackFields
                                  /\ stacks'[s].delay \in Nat
                                  /\ stacks'[s].vaultFactory \in Nat
  BY DEF Frame, StacksKept, SameStack, Shape
<1> QED
  BY <1>1, <1>2 DEF Shape

\* What lapsed stays so.
LEMMA LapsedStays ==
  ASSUME Shape, World, Frame, NEW s, NEW f, Announced(s, f)
  PROVE  /\ Lapsed(Wire(s, f)) => Lapsed(Wire(s, f))'
         /\ Matures(Wire(s, f))' = Matures(Wire(s, f))
         /\ Announced(s, f)'
         /\ Matures(Wire(s, f)) = queue[Wire(s, f)] + stacks[s].delay
<1>1. /\ now \in Nat /\ now' \in Nat /\ now' >= now
      /\ s \in 1 .. Len(stacks) /\ queue[Wire(s, f)] \in Nat
      /\ stacks[s].delay \in Nat /\ stacks'[s].delay = stacks[s].delay
      /\ queue'[Wire(s, f)] = queue[Wire(s, f)] /\ Announced(s, f)'
  BY DEF World, WiresFit, Shape, Frame, StacksKept, SameStack, WiresKept
<1>2. /\ Matures(Wire(s, f)) = queue[Wire(s, f)] + stacks[s].delay
      /\ Matures(Wire(s, f))' = queue'[Wire(s, f)] + stacks'[s].delay
  BY WireIsOne DEF Matures, Delay
<1>3. Lapsed(Wire(s, f)) => Lapsed(Wire(s, f))'
  BY <1>1, <1>2, DeploymentAssumption DEF Lapsed, Announced
<1> QED
  BY <1>1, <1>2, <1>3

LEMMA WorldIsKept ==
  ASSUME Shape, World, Frame
  PROVE  World'
<1>1. /\ now \in Nat /\ now' \in Nat /\ now' >= now
      /\ Len(stacks) \in Nat /\ Len(stacks') = Len(stacks) /\ factories' = factories
      /\ Len(factories) \in Nat
      /\ book'.stack = book.stack /\ book'.factory = book.factory
  BY SeqDomain DEF Frame, StacksKept, BookKept, Shape
<1>2. \A s \in 1 .. Len(stacks) :
        /\ stacks'[s].vaultFactory = stacks[s].vaultFactory
        /\ stacks'[s].delay = stacks[s].delay /\ stacks[s].delay \in Nat
        /\ stacks[s].vaultFactory \in Nat
  BY DEF Frame, StacksKept, SameStack, Shape
<1>3. \A s, f : /\ Announced(s, f)' <=> Announced(s, f)
                /\ OnRecord(s, f)' <=> OnRecord(s, f)
                /\ Announced(s, f) => queue'[Wire(s, f)] = queue[Wire(s, f)]
  BY DEF Frame, WiresKept, RecordsKept
<1>4. PoolsFit'
  BY <1>1, <1>2 DEF World, PoolsFit
<1>5. BookFits'
  BY <1>1, <1>2 DEF World, BookFits, FactoryFitsStack
<1>6. WiresFit'
  <2>1. \A s, f : /\ Announced(s, f) \/ OnRecord(s, f) =>
                       s \in 1 .. Len(stacks) /\ f \in 1 .. Len(factories)
                  /\ Announced(s, f) => /\ stacks[s].vaultFactory # 0
                                        /\ queue[Wire(s, f)] \in Nat
                                        /\ queue[Wire(s, f)] <= now
    BY DEF World, WiresFit
  <2> QED
    BY <1>1, <1>2, <1>3, <2>1 DEF WiresFit
<1>7. OlderOnesBeaten'
  <2> SUFFICES ASSUME NEW s, NEW f, Announced(s, f)', OnRecord(s, f)',
                      f < stacks'[s].vaultFactory
               PROVE  Beaten(Wire(s, f), stacks[s].moved)'
    BY DEF OlderOnesBeaten
  <2>1. /\ Announced(s, f) /\ OnRecord(s, f) /\ s \in 1 .. Len(stacks)
        /\ queue'[Wire(s, f)] = queue[Wire(s, f)]
        /\ Beaten(Wire(s, f), stacks[s].moved)
    BY <1>2, <1>3 DEF World, WiresFit, OlderOnesBeaten
  <2>2. Lapsed(Wire(s, f)) => Lapsed(Wire(s, f))'
    BY <2>1, LapsedStays
  <2>3. stacks'[s].moved = stacks[s].moved
    BY <2>1 DEF Frame, StacksKept, SameStack
  <2> QED
    BY <2>1, <2>2, <2>3 DEF Beaten
<1> QED
  BY <1>4, <1>5, <1>6, <1>7 DEF World

LEMMA RecordedIsKept ==
  ASSUME Shape, World, RecordedFlow, Frame, mishap' = "none" => mishap = "none",
         mishap' = "none" /\ script = "redeployFactory" /\ step = "persist" =>
           script' = script /\ step' = step
  PROVE  RecordedFlow'
<1> SUFFICES ASSUME mishap' = "none" PROVE RecordedFlow'
  BY DEF RecordedFlow
<1> PICK k : k = book.stack
  OBVIOUS
<1> PICK b : b = book.factory
  OBVIOUS
<1>1. book'.stack = k /\ book'.factory = b
  BY DEF Frame, BookKept
<1>2. \A s, f : /\ Announced(s, f)' <=> Announced(s, f)
                /\ OnRecord(s, f)' <=> OnRecord(s, f)
  BY DEF Frame, WiresKept, RecordsKept
<1>3. k \in 1 .. Len(stacks) \/ (k = 0 /\ b = 0)
  BY SeqDomain DEF World, BookFits, Shape
<1>4. \A s \in 1 .. Len(stacks) : stacks'[s].vaultFactory = stacks[s].vaultFactory
  BY DEF Frame, StacksKept, SameStack
<1>5. RecordedFactoryIsWired =>
        (b # 0 => stacks[k].vaultFactory = b \/ OnRecord(k, b))
  BY DEF RecordedFactoryIsWired, OnRecord, Wire
<1>6. /\ \A f : OnRecord(k, f) =>
           f <= b \/ (script' = "redeployFactory" /\ step' = "persist")
      /\ OnRecord(k, b) => Announced(k, b) \/ stacks[k].vaultFactory = b
      /\ b # 0 => stacks[k].vaultFactory = b \/ OnRecord(k, b)
  BY <1>5 DEF RecordedFlow
<1>7. \A f : ~OnRecord(0, f)
  BY DEF World, WiresFit
<1>8. /\ \A f : OnRecord(k, f)' =>
           f <= b \/ (script' = "redeployFactory" /\ step' = "persist")
      /\ OnRecord(k, b)' => Announced(k, b)' \/ stacks'[k].vaultFactory = b
      /\ b # 0 => stacks'[k].vaultFactory = b \/ OnRecord(k, b)'
  BY <1>2, <1>3, <1>4, <1>6, <1>7
<1>9. RecordedFactoryIsWired'
  BY <1>1, <1>8 DEF RecordedFactoryIsWired, OnRecord, Wire
<1> QED
  BY <1>1, <1>8, <1>9 DEF RecordedFlow

\* After a step that keeps the frame the invariant is what the script says.
LEMMA FrameKeepsInv ==
  ASSUME Inv, Frame, MishapKept, NoneFast',
         DOMAIN local' = Fields, CallInHand', LoanFlow',
         DeployFlow', RedeployFlow', ExecuteFlow', AcceptFlow', KeeperFlow',
         mishap' = "none" /\ script = "redeployFactory" /\ step = "persist" =>
           script' = script /\ step' = step
  PROVE  Inv'
<1>1. Shape /\ World /\ RecordedFlow
  BY DEF Inv
<1>2. Shape' /\ World'
  BY <1>1, ShapeIsKept, WorldIsKept
<1>3. RecordedFlow'
  BY <1>1, RecordedIsKept DEF MishapKept
<1> QED
  BY <1>2, <1>3 DEF Inv

LEMMA AsideKeepsInv ==
  ASSUME Inv, Frame, MishapKept, NoneFast', Aside,
         script = "redeployFactory" => mishap' # "none"
  PROVE  Inv'
<1>1. /\ script' \notin Tracked /\ DOMAIN local' = Fields
      /\ CallInHand' /\ LoanFlow'
  BY DEF Aside
<1>2. DeployFlow' /\ RedeployFlow' /\ ExecuteFlow' /\ AcceptFlow' /\ KeeperFlow'
  BY <1>1 DEF Tracked, DeployFlow, RedeployFlow, ExecuteFlow, AcceptFlow, KeeperFlow
<1> QED
  BY <1>1, <1>2, FrameKeepsInv

LEMMA NoneFastIsKept ==
  ASSUME NoneFast, Frame, NoFaster, MishapKept,
         mishap' \notin Grave /\ script = "proveKeeper" /\ step # "shorten" =>
           script' = script /\ step' = step
  PROVE  NoneFast'
<1> SUFFICES ASSUME mishap' \notin Grave, NEW s \in 1 .. Len(stacks)
             PROVE  \/ stacks'[s].fast = FALSE
                    \/ script' = "proveKeeper" /\ step' # "shorten" /\ s = book.stack
  BY DEF NoneFast, Frame, StacksKept, BookKept
<1>1. \/ stacks[s].fast = FALSE
      \/ script = "proveKeeper" /\ step # "shorten" /\ s = book.stack
  BY DEF NoneFast, MishapKept
<1> QED
  BY <1>1 DEF NoFaster

LEMMA QuietKeepsInv ==
  ASSUME Inv, Quiet
  PROVE  Inv'
<1>1. /\ Frame /\ NoFaster /\ MishapKept /\ Aside
      /\ script = "redeployFactory" => mishap' # "none"
      /\ script = "proveKeeper" /\ step # "shorten" => mishap' \in Grave
  BY DEF Quiet
<1>2. NoneFast'
  BY <1>1, NoneFastIsKept DEF Inv
<1> QED
  BY <1>1, <1>2, AsideKeepsInv

\* Time does not bring back what was passed over.
LEMMA ExecutionGoesOn ==
  ASSUME Shape, World, ExecuteFlow, Frame, UNCHANGED <<script, step, local, pending, stacks, queue>>
  PROVE  ExecuteFlow'
<1> SUFFICES ASSUME script = "executeTimelocked" PROVE ExecuteFlow'
  BY DEF ExecuteFlow
<1>1. UNCHANGED <<stacks, queue, script, step, local, pending>>
  OBVIOUS
<1>2. \A s, f : /\ Announced(s, f)' <=> Announced(s, f)
                /\ OnRecord(s, f)' <=> OnRecord(s, f)
  BY <1>1 DEF Announced, OnRecord, Queued
<1>3. ASSUME NEW s, NEW f, Announced(s, f), PassedOver(Wire(s, f))
      PROVE  PassedOver(Wire(s, f))'
  BY <1>1, <1>3, LapsedStays DEF PassedOver
<1>4. \A s, f : OnRecord(s, f)' /\ Announced(s, f)' =>
        Contains(local.todo, Wire(s, f)) \/ PassedOver(Wire(s, f))'
  BY <1>2, <1>3 DEF ExecuteFlow
<1>5. local.since <= now'
  BY DEF ExecuteFlow, Frame, Shape
<1> QED
  BY <1>1, <1>2, <1>4, <1>5
     DEF ExecuteFlow, OnRecord, Announced, Queued, PassedOver

LEMMA InvHoldsInit ==
  ASSUME Init
  PROVE  Inv
<1>1. /\ Len(stacks) = 0 /\ Len(factories) = 0
      /\ IsSeq(stacks) /\ IsSeq(factories)
  BY SeqEmpty DEF Init
<1>2. WireSeq(pending) /\ \A s, f : ~OnRecord(s, f)
  BY WireSeqEmpty DEF OnRecord, Init
<1>3. /\ now = 1 /\ DOMAIN control = Contracts /\ local = NoLocal
      /\ DOMAIN book = {"stack", "factory", "pair"}
      /\ book.stack = 0 /\ book.factory = 0
      /\ script = "idle" /\ step = ""
  BY DEF Init
<1>4. \A s \in 1 .. Len(stacks) : FALSE
  BY <1>1
<1>5. Shape
  BY <1>1, <1>2, <1>3, <1>4, NothingInHand DEF Shape
<1>6. \A s, f : ~Announced(s, f)
  <2>1. queue = <<>>
    BY DEF Init
  <2>2. DOMAIN queue = 1 .. 0
    BY <2>1, SeqEmpty, SeqDomain
  <2> QED
    BY <2>2 DEF Announced, Queued
<1>7. World
  <2>1. PoolsFit
    BY <1>1, <1>4, DeploymentAssumption DEF PoolsFit
  <2>2. BookFits
    <3>1. book.stack \in 0 .. Len(stacks) /\ book.factory \in 0 .. Len(factories)
      <4>1. 0 \in 0 .. Len(stacks) /\ 0 \in 0 .. Len(factories)
        BY <1>1
      <4>2. book.stack = 0 /\ book.factory = 0
        BY <1>3
      <4> QED
        BY <4>1, <4>2
    <3> QED
      BY <1>3, <3>1 DEF BookFits, FactoryFitsStack
  <2>3. WiresFit /\ OlderOnesBeaten
    BY <1>2, <1>6 DEF WiresFit, OlderOnesBeaten
  <2> QED
    BY <2>1, <2>2, <2>3 DEF World
<1>8. CallInHand /\ LoanFlow
  BY <1>3, NothingInHand DEF CallInHand, LoanFlow, Lenders
<1>9. DeployFlow /\ RedeployFlow /\ ExecuteFlow /\ AcceptFlow /\ KeeperFlow
  BY <1>3 DEF DeployFlow, RedeployFlow, ExecuteFlow, AcceptFlow, KeeperFlow
<1>10. RecordedFlow
  BY <1>2, <1>3 DEF RecordedFlow, RecordedFactoryIsWired
<1>11. NoneFast
  BY <1>4 DEF NoneFast
<1> QED
  BY <1>5, <1>7, <1>8, <1>9, <1>10, <1>11 DEF Inv

\* Time passes.
LEMMA TickKeepsInv ==
  ASSUME Inv, Tick
  PROVE  Inv'
<1>1. /\ UNCHANGED <<stacks, factories, control, queue, book, pending, fileVars>>
      /\ UNCHANGED <<script, step, local, mishap>>
      /\ now' = now + 1
  BY DEF Tick, chainVars, fileVars, scriptVars
<1>2. Shape
  BY DEF Inv
<1>3. Frame /\ NoFaster
  <2>1. StacksKept /\ NoFaster /\ WiresKept /\ RecordsKept /\ BookKept
    BY <1>1, <1>2, StackUnchanged, QueueUnchanged, FilesUnchanged
  <2> QED
    BY <1>1, <1>2, <2>1 DEF Frame, Shape
<1>4. MishapKept
  BY <1>1 DEF MishapKept
<1>5. NoneFast'
  BY <1>1, <1>3, <1>4, NoneFastIsKept DEF Inv
<1>6. CallInHand' /\ LoanFlow'
  BY <1>1 DEF Inv, CallInHand, LoanFlow
<1>7. DeployFlow'
  BY <1>1 DEF Inv, DeployFlow, FactoryBuilt, Announced, OnRecord, Queued
<1>8. RedeployFlow'
  BY <1>1 DEF Inv, RedeployFlow, FactoryBuilt, Announced, OnRecord, Queued
<1>9. ExecuteFlow'
  BY <1>1, <1>2, <1>3, ExecutionGoesOn DEF Inv
<1>10. AcceptFlow'
  BY <1>1 DEF Inv, AcceptFlow, HeldBy, Nominated, Recorded
<1>11. KeeperFlow'
  BY <1>1 DEF Inv, KeeperFlow
<1>12. DOMAIN local' = Fields
  BY <1>1, <1>2 DEF Shape
<1> QED
  BY <1>1, <1>3, <1>4, <1>5, <1>6, <1>7, <1>8, <1>9, <1>10, <1>11, <1>12, FrameKeepsInv

-----------------------------------------------------------------------------
(***************************************************************************)
(* safe-accept-roles.js.                                                   *)
(***************************************************************************)
LEMMA OnlyAccepting ==
  ASSUME script' = "acceptRoles"
  PROVE  DeployFlow' /\ RedeployFlow' /\ ExecuteFlow' /\ KeeperFlow' /\ LoanFlow'
BY DEF DeployFlow, RedeployFlow, ExecuteFlow, KeeperFlow, LoanFlow, Lenders

LEMMA FourRoles == Roles = 1 .. 4 /\ Len(RoleOrder) = 4
BY DEF Roles, RoleOrder

\* The book names contracts that are there.
LEMMA RecordedIsAContract ==
  ASSUME Shape, World, book.stack # 0, NEW i \in Roles
  PROVE  Recorded(i) \in Contracts
<1>1. /\ book.stack \in 1 .. MaxStacks /\ book.factory \in 1 .. MaxFactories
  BY SeqDomain, DeploymentAssumption DEF Shape, World, PoolsFit, BookFits
<1>2. i \in 1 .. 4
  BY FourRoles
<1>3. RoleOrder[i] \in StackRoles \/ RoleOrder[i] = "vaultFactory"
  BY <1>2 DEF RoleOrder, StackRoles
<1>4. "vaultFactory" \notin StackRoles
  BY DEF StackRoles
<1> QED
  BY <1>1, <1>3, <1>4 DEF Recorded, ContractOf, Contracts

LEMMA AcceptRolesKeepsInv ==
  ASSUME Inv, AcceptRoles
  PROVE  Inv'
<1>1. /\ script = "idle" /\ book.stack # 0 /\ book.pair # 0
      /\ script' = "acceptRoles" /\ step' = "role" /\ local' = NoLocal
      /\ UNCHANGED <<now, chainVars, fileVars, mishap>>
  BY DEF AcceptRoles, Begins, Starting
<1>2. Frame /\ NoFaster
  BY <1>1, NothingChanged DEF Inv
<1>3. MishapKept
  BY <1>1 DEF MishapKept
<1>4. NoneFast'
  BY <1>1, <1>2, <1>3, NoneFastIsKept DEF Inv
<1>5. AcceptFlow'
  <2>1. local'.todo = <<>> /\ book' = book
    BY <1>1, NothingInHand DEF fileVars
  <2>2. \A i \in Roles : ~(i <= Len(<<>>))
    BY FourRoles, SeqEmpty
  <2> QED
    BY <1>1, <2>1, <2>2, SeqEmpty DEF AcceptFlow
<1>6. CallInHand'
  BY <1>1, NothingInHand DEF CallInHand
<1> QED
  BY <1>1, <1>2, <1>3, <1>4, <1>5, <1>6, NothingInHand, OnlyAccepting, FrameKeepsInv

LEMMA AcceptRoleKeepsInv ==
  ASSUME Inv, NEW i \in Roles, AcceptRole(i)
  PROVE  Inv'
<1>1. /\ script = "acceptRoles" /\ i = Len(local.todo) + 1
      /\ UNCHANGED <<now, fileVars>> /\ book' = book
  BY DEF AcceptRole, RoleStep, At, fileVars
<1>2. /\ Shape /\ World /\ CallInHand /\ NoneFast
      /\ book.stack # 0 /\ book.pair # 0
      /\ IsSeq(local.todo) /\ Len(local.todo) <= 4
      /\ \A j \in Roles : j <= Len(local.todo) =>
           HeldBy(Recorded(j), book.pair) /\ Nominated(Recorded(j), Nobody)
  BY <1>1 DEF Inv, AcceptFlow
<1>3. CASE SetControl(Recorded(i), "holder", book.pair) /\ NextRole(i)
  <2>1. /\ control' = [control EXCEPT ![Recorded(i)] =
                         [holder |-> book.pair, nominee |-> Nobody]]
        /\ DOMAIN control = Contracts
    BY <1>2, <1>3 DEF SetControl, Shape
  <2>2. Frame /\ NoFaster
    BY <1>1, <1>2, <1>3, SetControlKeeps, ControlChanged
  <2>3. /\ Goto(step') /\ step' \in {"role", "complete"}
        /\ DOMAIN local' = Fields /\ local'.call = local.call
        /\ local'.todo = Append(local.todo, Call(0, RoleOrder[i], 0))
        /\ step' = "complete" => i = 4
    BY <1>2, <1>3, NextRoleKeeps, FourRoles
  <2>4. script' = script /\ MishapKept
    BY <2>3 DEF Goto, MishapKept
  <2>5. /\ IsSeq(local'.todo) /\ Len(local'.todo) = i
        /\ Len(local.todo) \in Nat /\ i <= 4
    BY <1>1, <1>2, <2>3, SeqAppend, SeqDomain, FourRoles
  <2>6. AcceptFlow'
    <3>1. ASSUME NEW j \in Roles, j <= i
          PROVE  /\ control'[Recorded(j)].holder = book.pair
                 /\ control'[Recorded(j)].nominee = Nobody
      <4>1. CASE j = i
        BY <1>2, <2>1, <4>1, RecordedIsAContract
      <4>2. CASE j # i
        <5>1. j <= Len(local.todo)
          BY <1>1, <2>5, <3>1, <4>2, FourRoles
        <5>2. /\ control[Recorded(j)].holder = book.pair
              /\ control[Recorded(j)].nominee = Nobody
          BY <1>2, <5>1 DEF HeldBy, Nominated
        <5>3. Recorded(j) \in Contracts /\ Recorded(i) \in Contracts
          BY <1>2, RecordedIsAContract
        <5> QED
          BY <2>1, <5>2, <5>3
      <4> QED
        BY <4>1, <4>2
    <3>2. \A j \in Roles : Recorded(j)' = Recorded(j)
      BY <1>1 DEF Recorded
    <3>3. \A j \in Roles : j <= Len(local'.todo) =>
            HeldBy(Recorded(j), book.pair)' /\ Nominated(Recorded(j), Nobody)'
      BY <1>1, <2>5, <3>1, <3>2 DEF HeldBy, Nominated
    <3> QED
      BY <1>1, <1>2, <2>3, <2>5, <3>3 DEF AcceptFlow
  <2>7. CallInHand'
    BY <1>1, <1>2, <2>3, <2>4 DEF CallInHand
  <2>8. NoneFast'
    BY <1>1, <1>2, <2>2, <2>4, NoneFastIsKept
  <2> QED
    BY <1>1, <2>2, <2>3, <2>4, <2>6, <2>7, <2>8, OnlyAccepting, FrameKeepsInv
<1>4. CASE Fails /\ UNCHANGED chainVars
  <2>1. Frame /\ NoFaster
    BY <1>1, <1>2, <1>4, NothingChanged
  <2>2. Aside /\ MishapKept
    BY <1>2, <1>4, FailsAside
  <2>3. NoneFast'
    BY <1>1, <1>2, <2>1, <2>2, NoneFastIsKept
  <2> QED
    BY <1>1, <2>1, <2>2, <2>3, AsideKeepsInv
<1> QED
  BY <1>3, <1>4 DEF AcceptRole, AfterAcceptance

-----------------------------------------------------------------------------
(***************************************************************************)
(* prove-keeper-bounty.js.                                                 *)
(***************************************************************************)
LEMMA OnlyProving ==
  ASSUME script' = "proveKeeper"
  PROVE  DeployFlow' /\ RedeployFlow' /\ ExecuteFlow' /\ AcceptFlow' /\ LoanFlow'
BY DEF DeployFlow, RedeployFlow, ExecuteFlow, AcceptFlow, LoanFlow, Lenders

LEMMA KeeperPlanOfProof ==
  KeeperPlan(Plan("proveKeeper")) /\ NextOf(Plan("proveKeeper")) = "originate"
<1> DEFINE last == <<"wait", "settle", "restore">>
           S == LoanSteps \cup {"restore"}
<1>1. /\ Opening \in Seq(S) /\ Len(Opening) = 3
      /\ Opening[1] = "originate" /\ Opening[2] = "deposit" /\ Opening[3] = "swap"
  BY DEF Opening, LoanSteps
<1>2. /\ last \in Seq(S) /\ Len(last) = 3
      /\ last[1] = "wait" /\ last[2] = "settle" /\ last[3] = "restore"
  BY DEF LoanSteps
<1>3. Plan("proveKeeper") = Opening \o last
  BY DEF Plan
<1> HIDE DEF last, S
<1>0. PICK p : p = Opening \o last
  OBVIOUS
<1>4. p \in Seq(S) /\ Len(p) = 6
  <2>1. Opening \o last \in Seq(S) /\ Len(Opening \o last) = Len(Opening) + Len(last)
    BY <1>1, <1>2, ConcatProperties
  <2> QED
    BY <1>0, <1>1, <1>2, <2>1
<1>5. /\ p[1] = Opening[1] /\ p[2] = Opening[2] /\ p[3] = Opening[3]
      /\ p[4] = last[1] /\ p[5] = last[2] /\ p[6] = last[3]
  <2>1. \A i \in 1 .. 6 : p[i] = IF i <= 3 THEN Opening[i] ELSE last[i - 3]
    <3>1. \A i \in 1 .. Len(Opening) + Len(last) :
            (Opening \o last)[i] = IF i <= Len(Opening) THEN Opening[i]
                                   ELSE last[i - Len(Opening)]
      BY <1>1, <1>2, ConcatProperties
    <3> QED
      BY <1>0, <1>1, <1>2, <3>1
  <2> HIDE DEF Opening
  <2> QED
    BY <2>1
<1>6. ASSUME NEW i \in 1 .. 5 PROVE p[i] \in LoanSteps
  <2>1. i \in {1, 2, 3, 4, 5}
    OBVIOUS
  <2> QED
    BY <1>1, <1>2, <1>5, <2>1 DEF LoanSteps
<1>7. NextOf(p) = "originate"
  <2>1. p # <<>>
    BY <1>4, SeqEmpty
  <2>2. Head(p) = p[1]
    BY <1>4, <2>1, HeadTailProperties
  <2> QED
    BY <1>1, <1>5, <2>1, <2>2 DEF NextOf
<1>8. KeeperPlan(p)
  BY <1>2, <1>4, <1>5, <1>6 DEF KeeperPlan, IsSeq
<1> QED
  BY <1>0, <1>3, <1>7, <1>8

\* Short of putting the configuration back there is always a next step.
LEMMA KeeperPlanTail ==
  ASSUME NEW p, KeeperPlan(p), NextOf(p) # "restore"
  PROVE  /\ KeeperPlan(Tail(p)) /\ NextOf(p) \in LoanSteps
         /\ NextOf(Tail(p)) \in LoanSteps \cup {"restore"}
<1>1. IsSeq(p) /\ Len(p) \in Nat /\ Len(p) >= 1
  BY SeqDomain DEF KeeperPlan
<1>2. p # <<>>
  BY <1>1, SeqEmpty
<1>0. PICK q : q = Tail(p)
  OBVIOUS
<1>3. /\ IsSeq(q) /\ Len(q) = Len(p) - 1 /\ Head(p) = p[1]
      /\ \A i \in 1 .. Len(p) - 1 : q[i] = p[i + 1]
  BY <1>0, <1>1, <1>2, SeqTail
<1>4. NextOf(p) = p[1]
  BY <1>2, <1>3 DEF NextOf
<1>5. p[Len(p)] = "restore" /\ \A i \in 1 .. Len(p) - 1 : p[i] \in LoanSteps
  BY DEF KeeperPlan
<1>6. Len(p) > 1
  BY <1>1, <1>4, <1>5
<1>7. p[1] \in LoanSteps
  BY <1>1, <1>5, <1>6
<1>8. q[Len(q)] = "restore"
  <2>1. Len(q) \in 1 .. Len(p) - 1 /\ Len(q) + 1 = Len(p)
    BY <1>1, <1>3, <1>6
  <2> QED
    BY <1>3, <1>5, <2>1
<1>9. ASSUME NEW i \in 1 .. Len(q) - 1 PROVE q[i] \in LoanSteps
  <2>1. i \in 1 .. Len(p) - 1 /\ i + 1 \in 1 .. Len(p) - 1
    BY <1>1, <1>3
  <2> QED
    BY <1>3, <1>5, <2>1
<1>10. KeeperPlan(q)
  BY <1>1, <1>3, <1>6, <1>8, <1>9 DEF KeeperPlan
<1>11. NextOf(q) \in LoanSteps \cup {"restore"}
  <2>1. q # <<>>
    BY <1>1, <1>3, <1>6, SeqEmpty
  <2>2. NextOf(q) = q[1]
    BY <1>3, <2>1, SeqTail DEF NextOf
  <2>3. CASE Len(q) = 1
    BY <1>8, <2>2, <2>3
  <2>4. CASE Len(q) # 1
    <3>1. 1 \in 1 .. Len(q) - 1
      BY <1>1, <1>3, <1>6, <2>4
    <3> QED
      BY <1>9, <2>2, <3>1
  <2> QED
    BY <2>3, <2>4
<1> QED
  BY <1>0, <1>4, <1>7, <1>10, <1>11

LEMMA ProveKeeperKeepsInv ==
  ASSUME Inv, ProveKeeper
  PROVE  Inv'
<1> DEFINE memory == [NoLocal EXCEPT !.plan = Plan("proveKeeper"),
                                     !.was = stacks[book.stack].fast]
<1>1. /\ script = "idle" /\ book.stack # 0
      /\ script' = "proveKeeper" /\ step' = "shorten" /\ local' = memory
      /\ UNCHANGED <<now, chainVars, fileVars, mishap>>
  BY DEF ProveKeeper, Begins, Starting
<1>2. /\ DOMAIN memory = Fields /\ memory.call = NoCall
      /\ memory.plan = Plan("proveKeeper") /\ memory.was = stacks[book.stack].fast
  BY NothingInHand DEF NoLocal, Fields
<1> HIDE DEF memory
<1>3. Frame /\ NoFaster
  BY <1>1, NothingChanged DEF Inv
<1>4. MishapKept
  BY <1>1 DEF MishapKept
<1>5. NoneFast'
  BY <1>1, <1>3, <1>4, NoneFastIsKept DEF Inv
<1>6. KeeperFlow'
  <2>1. ASSUME mishap \notin Grave PROVE stacks[book.stack].fast = FALSE
    <3>1. book.stack \in 1 .. Len(stacks)
      BY <1>1, SeqDomain DEF Inv, World, BookFits, Shape
    <3> QED
      BY <1>1, <2>1, <3>1 DEF Inv, NoneFast
  <2>2. book' = book
    BY <1>1 DEF fileVars
  <2> QED
    BY <1>1, <1>2, <2>1, <2>2, KeeperPlanOfProof DEF KeeperFlow
<1>7. CallInHand'
  BY <1>1, <1>2, NothingInHand DEF CallInHand
<1> QED
  BY <1>1, <1>2, <1>3, <1>4, <1>5, <1>6, <1>7, OnlyProving, FrameKeepsInv

\* A stack's grace and bounty.
LEMMA GraceSet ==
  ASSUME Shape, World, book.stack # 0, NEW fast, SetGrace(fast),
         UNCHANGED <<now, fileVars>>
  PROVE  /\ Frame
         /\ \A s \in 1 .. Len(stacks) :
              stacks'[s].fast = IF s = book.stack THEN fast ELSE stacks[s].fast
<1> PICK k : k = book.stack
  OBVIOUS
<1>1. k \in 1 .. Len(stacks)
  BY SeqDomain DEF World, BookFits, Shape
<1> DEFINE r == [stacks[k] EXCEPT !.fast = fast]
<1>2. /\ stacks' = [stacks EXCEPT ![k] = r]
      /\ UNCHANGED <<factories, control, queue>>
  BY DEF SetGrace
<1>3. SameStack(r, stacks[k]) /\ r.fast = fast
  BY <1>1 DEF Shape, SameStack, StackFields
<1> HIDE DEF r
<1>4. StacksKept /\ WiresKept /\ RecordsKept /\ BookKept
  BY <1>2, <1>3, StackChanged, QueueUnchanged, FilesUnchanged
<1>5. Frame
  BY <1>2, <1>4 DEF Frame, Shape
<1>6. DOMAIN stacks = 1 .. Len(stacks)
  BY SeqDomain DEF Shape
<1>7. \A s \in 1 .. Len(stacks) : stacks'[s] = IF s = k THEN r ELSE stacks[s]
  BY <1>1, <1>2, <1>6
<1> QED
  BY <1>3, <1>5, <1>7

LEMMA AtProving ==
  ASSUME Inv, NEW s \in {"shorten", "restore"}, LoanStepAt(s)
  PROVE  /\ script = "proveKeeper" /\ step = s
         /\ UNCHANGED <<now, fileVars>>
<1>1. /\ script \in Lenders \cup {"proveKeeper"} /\ step = s
      /\ UNCHANGED <<now, fileVars>>
  BY DEF LoanStepAt, Lenders
<1>2. ASSUME script \in Lenders PROVE FALSE
  <2>1. local.plan \in Seq(LoanSteps) /\ step = NextOf(local.plan)
    BY <1>2 DEF Inv, LoanFlow
  <2>2. step \in LoanSteps \cup {"end"}
    BY <2>1, HeadTailProperties DEF NextOf
  <2> QED
    BY <1>1, <2>2 DEF LoanSteps
<1> QED
  BY <1>1, <1>2

LEMMA ShortenGraceKeepsInv ==
  ASSUME Inv, ShortenGrace
  PROVE  Inv'
<1>1. /\ script = "proveKeeper" /\ step = "shorten"
      /\ UNCHANGED <<now, fileVars>>
  BY AtProving DEF ShortenGrace
<1>2. /\ Shape /\ World /\ NoneFast /\ CallInHand /\ book.stack # 0
      /\ KeeperPlan(local.plan) /\ NextOf(local.plan) = "originate"
      /\ mishap \notin Grave => local.was = FALSE
  BY <1>1 DEF Inv, KeeperFlow
<1>3. CASE SetGrace(TRUE) /\ Goto("originate") /\ UNCHANGED local
  <2>1. /\ Frame
        /\ \A s \in 1 .. Len(stacks) :
             stacks'[s].fast = IF s = book.stack THEN TRUE ELSE stacks[s].fast
    BY <1>1, <1>2, <1>3, GraceSet
  <2>2. /\ script' = "proveKeeper" /\ step' = "originate" /\ mishap' = mishap
        /\ local' = local /\ book' = book
    BY <1>1, <1>3 DEF Goto, fileVars
  <2>3. MishapKept
    BY <2>2 DEF MishapKept
  <2>4. NoneFast'
    BY <1>1, <1>2, <2>1, <2>2 DEF NoneFast, Frame, StacksKept
  <2>5. KeeperFlow'
    BY <1>2, <2>2 DEF KeeperFlow
  <2>6. CallInHand' /\ DOMAIN local' = Fields
    BY <1>1, <1>2, <2>2 DEF CallInHand, Shape
  <2> QED
    BY <1>1, <2>1, <2>2, <2>3, <2>4, <2>5, <2>6, OnlyProving, FrameKeepsInv
<1>4. CASE Fails /\ UNCHANGED chainVars
  <2>1. Frame /\ NoFaster
    BY <1>1, <1>2, <1>4, NothingChanged
  <2>2. Aside /\ MishapKept
    BY <1>2, <1>4, FailsAside
  <2>3. NoneFast'
    BY <1>1, <1>2, <2>1, <2>2, NoneFastIsKept
  <2> QED
    BY <1>1, <2>1, <2>2, <2>3, AsideKeepsInv
<1>5. CASE SetGrace(TRUE) /\ EndsBadly("unrestored")
  <2>1. Frame
    BY <1>1, <1>2, <1>5, GraceSet
  <2>2. Aside /\ MishapKept /\ mishap' \in Grave
    BY <1>2, <1>5, EndsBadlyAside DEF Grave
  <2>3. NoneFast'
    BY <2>2 DEF NoneFast
  <2> QED
    BY <1>1, <2>1, <2>2, <2>3, AsideKeepsInv
<1> QED
  BY <1>3, <1>4, <1>5 DEF ShortenGrace

LEMMA RestoreGraceKeepsInv ==
  ASSUME Inv, RestoreGrace
  PROVE  Inv'
<1>1. /\ script = "proveKeeper" /\ step = "restore"
      /\ UNCHANGED <<now, fileVars>>
  BY AtProving DEF RestoreGrace
<1>2. /\ Shape /\ World /\ NoneFast /\ book.stack # 0
      /\ mishap \notin Grave => local.was = FALSE
  BY <1>1 DEF Inv, KeeperFlow
<1>3. /\ Frame
      /\ \A s \in 1 .. Len(stacks) :
           stacks'[s].fast = IF s = book.stack THEN local.was ELSE stacks[s].fast
  <2>1. SetGrace(local.was)
    BY DEF RestoreGrace
  <2> QED
    BY <1>1, <1>2, <2>1, GraceSet
<1>4. Fails \/ Done
  BY DEF RestoreGrace
<1>5. Aside /\ MishapKept
  BY <1>2, <1>4, FailsAside, DoneAside
<1>6. NoneFast'
  BY <1>1, <1>2, <1>3, <1>5 DEF NoneFast, MishapKept, Frame, StacksKept
<1> QED
  BY <1>1, <1>3, <1>5, <1>6, AsideKeepsInv

LEMMA KeeperLoanKeepsInv ==
  ASSUME Inv, script = "proveKeeper", LoanCall \/ (InTry /\ CallThrows)
  PROVE  Inv'
<1>1. /\ UNCHANGED <<now, stacks, factories, control, queue, fileVars>>
      /\ step \in LoanSteps
      /\ (\E loan : Onward(loan)) \/ Aborts
  <2>1. CASE InTry /\ CallThrows
    <3>1. step \in LoanSteps
      BY <2>1, KeeperPlanTail DEF InTry, Inv, KeeperFlow
    <3>2. UNCHANGED <<now, chainVars, fileVars>> /\ Aborts
      BY <2>1 DEF CallThrows, InTry, Restoring, At
    <3> QED
      BY <3>1, <3>2 DEF chainVars
  <2> QED
    BY <2>1, LoanCalls
<1>2. /\ Shape /\ World /\ NoneFast /\ CallInHand /\ book.stack # 0
      /\ KeeperPlan(local.plan) /\ step = NextOf(local.plan)
      /\ mishap \notin Grave => local.was = FALSE
      /\ step \notin {"restore", "shorten", "clear", "record"}
  <2>1. step \notin {"restore", "shorten", "clear", "record"}
    BY <1>1 DEF LoanSteps
  <2> QED
    BY <2>1 DEF Inv, KeeperFlow
<1>3. Frame /\ NoFaster
  BY <1>1, <1>2, ControlChanged
<1>4. MishapKept /\ script' = script /\ mishap' = mishap
  <2>1. \A s : Goto(s) => script' = script /\ mishap' = mishap
    BY DEF Goto
  <2> QED
    BY <1>1, <2>1 DEF MishapKept, Onward, Aborts
<1>5. /\ DOMAIN local' = Fields /\ local'.call = local.call
      /\ local'.was = local.was /\ KeeperPlan(local'.plan)
      /\ step' = NextOf(local'.plan) /\ step' \in LoanSteps \cup {"restore"}
  <2>1. CASE \E loan : Onward(loan)
    <3>1. /\ step' = NextOf(Tail(local.plan))
          /\ DOMAIN local' = Fields /\ local'.plan = Tail(local.plan)
          /\ local'.call = local.call /\ local'.was = local.was
      BY <1>2, <2>1, OnwardKeeps
    <3>2. /\ KeeperPlan(Tail(local.plan))
          /\ NextOf(Tail(local.plan)) \in LoanSteps \cup {"restore"}
      BY <1>2, KeeperPlanTail
    <3> QED
      BY <3>1, <3>2
  <2>2. CASE Aborts
    <3>1. /\ local' = [local EXCEPT !.plan = <<"restore">>, !.failed = TRUE]
          /\ step' = "restore"
      BY <2>2 DEF Aborts, Goto
    <3>2. /\ DOMAIN local' = Fields /\ local'.call = local.call
          /\ local'.was = local.was /\ local'.plan = <<"restore">>
      BY <1>2, <3>1 DEF Shape, Fields
    <3>3. KeeperPlan(<<"restore">>) /\ NextOf(<<"restore">>) = "restore"
      <4>1. <<"restore">> \in Seq({"restore"})
        OBVIOUS
      <4>2. /\ Len(<<"restore">>) = 1 /\ <<"restore">>[1] = "restore"
            /\ Head(<<"restore">>) = "restore" /\ <<"restore">> # <<>>
        OBVIOUS
      <4>3. IsSeq(<<"restore">>)
        BY <4>1 DEF IsSeq
      <4>4. \A i \in 1 .. Len(<<"restore">>) - 1 : FALSE
        BY <4>2
      <4>5. KeeperPlan(<<"restore">>)
        BY <4>2, <4>3, <4>4 DEF KeeperPlan
      <4> QED
        BY <4>2, <4>5 DEF NextOf
    <3> QED
      BY <3>1, <3>2, <3>3
  <2> QED
    BY <1>1, <2>1, <2>2
<1>6. step' \notin {"shorten", "clear", "record"} /\ book' = book
  BY <1>1, <1>5 DEF LoanSteps, fileVars
<1>7. KeeperFlow'
  BY <1>2, <1>4, <1>5, <1>6 DEF KeeperFlow
<1>8. CallInHand'
  BY <1>2, <1>4, <1>5, <1>6 DEF CallInHand
<1>9. NoneFast'
  BY <1>1, <1>2, <1>4, <1>6 DEF NoneFast
<1> QED
  BY <1>3, <1>4, <1>5, <1>7, <1>8, <1>9, OnlyProving, FrameKeepsInv

LEMMA KeeperStepsKeepInv ==
  ASSUME Inv, KeeperSteps
  PROVE  Inv'
BY ProveKeeperKeepsInv, ShortenGraceKeepsInv, RestoreGraceKeepsInv, KeeperLoanKeepsInv
   DEF KeeperSteps, InTry

-----------------------------------------------------------------------------
(***************************************************************************)
(* deploy-robinhood-testnet.js.                                            *)
(***************************************************************************)
LEMMA OnlyDeploying ==
  ASSUME script' = "deployStack"
  PROVE  RedeployFlow' /\ ExecuteFlow' /\ AcceptFlow' /\ KeeperFlow' /\ LoanFlow'
BY DEF RedeployFlow, ExecuteFlow, AcceptFlow, KeeperFlow, LoanFlow, Lenders

LEMMA DeployStackKeepsInv ==
  ASSUME Inv, DeployStack
  PROVE  Inv'
<1>1. /\ script = "idle" /\ Len(stacks) < MaxStacks /\ Len(factories) < MaxFactories
      /\ script' = "deployStack" /\ step' = "contracts" /\ local' = NoLocal
      /\ UNCHANGED <<now, chainVars, fileVars, mishap>>
      /\ stacks' = stacks /\ factories' = factories
  BY DEF DeployStack, Begins, Starting, chainVars
<1>2. Frame /\ NoFaster
  BY <1>1, NothingChanged DEF Inv
<1>3. MishapKept
  BY <1>1 DEF MishapKept
<1>4. NoneFast'
  BY <1>1, <1>2, <1>3, NoneFastIsKept DEF Inv
<1>5. DeployFlow'
  BY <1>1 DEF DeployFlow
<1>6. CallInHand'
  BY <1>1, NothingInHand DEF CallInHand
<1> QED
  BY <1>1, <1>2, <1>3, <1>4, <1>5, <1>6, NothingInHand, OnlyDeploying, FrameKeepsInv

\* While a deployment runs no stack has the values of a test.
LEMMA DeployingIsSlow ==
  ASSUME Inv, script # "proveKeeper", mishap \notin Grave,
         NEW s \in 1 .. Len(stacks)
  PROVE  stacks[s].fast = FALSE
BY DEF Inv, NoneFast

LEMMA NewStackIsTyped ==
  ASSUME NEW delay \in Delays
  PROVE  /\ DOMAIN NewStack(delay) = StackFields
         /\ NewStack(delay).delay \in Nat /\ NewStack(delay).vaultFactory = 0
         /\ NewStack(delay).fast = FALSE
BY DeploymentAssumption DEF NewStack, StackFields

LEMMA DeployContractsKeepsInv ==
  ASSUME Inv, DeployContracts
  PROVE  Inv'
<1>1. /\ Shape /\ World /\ CallInHand /\ RecordedFlow
      /\ script = "deployStack" /\ step = "contracts"
      /\ Len(stacks) < MaxStacks /\ Len(factories) < MaxFactories
  BY DEF Inv, DeployContracts, At, DeployFlow
<1>2. PICK delay \in Delays : stacks' = Append(stacks, NewStack(delay))
  BY DEF DeployContracts
<1>3. PICK new : new = NewStack(delay)
  OBVIOUS
<1>4. /\ DOMAIN new = StackFields /\ new.delay \in Nat
      /\ new.vaultFactory = 0 /\ new.fast = FALSE
  BY <1>3, NewStackIsTyped
<1>5. /\ IsSeq(stacks') /\ Len(stacks') = Len(stacks) + 1
      /\ Len(stacks) \in Nat /\ Len(factories) \in Nat
      /\ stacks'[Len(stacks) + 1] = new
      /\ \A s \in 1 .. Len(stacks) : stacks'[s] = stacks[s]
  BY <1>1, <1>2, <1>3, SeqAppend, SeqDomain DEF Shape
<1>6. /\ script' = "deployStack" /\ step' = "grant" /\ mishap' = mishap
      /\ UNCHANGED <<now, factories, queue, book, pending>>
      /\ DOMAIN control' = Contracts
  BY <1>1 DEF DeployContracts, Goto, Controlling, fileVars
<1>7. DOMAIN local' = Fields /\ local'.stack = Len(stacks) + 1 /\ local'.call = local.call
  <2>1. local' = [local EXCEPT !.stack = Len(stacks')] /\ DOMAIN local = Fields
    BY <1>1 DEF DeployContracts, Shape
  <2>2. "stack" \in Fields /\ "call" \in Fields
    BY DEF Fields
  <2> QED
    BY <1>5, <2>1, <2>2
<1>8. \A s \in 1 .. Len(stacks') : stacks'[s] = IF s = Len(stacks) + 1 THEN new ELSE stacks[s]
  BY <1>5
<1>9. Shape'
  <2>1. \A s \in 1 .. Len(stacks') : /\ DOMAIN stacks'[s] = StackFields
                                     /\ stacks'[s].delay \in Nat
                                     /\ stacks'[s].vaultFactory \in Nat
    BY <1>1, <1>4, <1>5, <1>8 DEF Shape
  <2> QED
    BY <1>1, <1>5, <1>6, <1>7, <2>1 DEF Shape
<1>10. \A s, f : /\ Announced(s, f)' <=> Announced(s, f)
                 /\ OnRecord(s, f)' <=> OnRecord(s, f)
  BY <1>6 DEF Announced, OnRecord, Queued
<1>11. World'
  <2>1. PoolsFit'
    BY <1>1, <1>4, <1>5, <1>6, <1>8, DeploymentAssumption DEF World, PoolsFit
  <2>2. BookFits'
    BY <1>1, <1>5, <1>6 DEF World, BookFits, FactoryFitsStack
  <2>3. WiresFit'
    BY <1>1, <1>5, <1>6, <1>10 DEF World, WiresFit
  <2>4. OlderOnesBeaten'
    BY <1>1, <1>5, <1>6, <1>10, WireIsOne
       DEF World, WiresFit, OlderOnesBeaten, Beaten, Lapsed, Matures, Delay, Queued,
           Announced
  <2> QED
    BY <2>1, <2>2, <2>3, <2>4 DEF World
<1>12. DeployFlow'
  <2>1. \A f : ~Announced(Len(stacks) + 1, f) /\ ~OnRecord(Len(stacks) + 1, f)
    BY <1>1, <1>5 DEF World, WiresFit
  <2> QED
    BY <1>1, <1>4, <1>5, <1>6, <1>7, <1>10, <2>1 DEF DeployFlow
<1>13. RecordedFlow'
  <2>1. book.stack \in 1 .. Len(stacks) \/ (book.stack = 0 /\ book.factory = 0)
    BY <1>1, <1>5 DEF World, BookFits
  <2>2. \A f : ~OnRecord(0, f)
    BY <1>1 DEF World, WiresFit
  <2> QED
    BY <1>1, <1>5, <1>6, <1>10, <2>1, <2>2
       DEF RecordedFlow, RecordedFactoryIsWired, OnRecord, Announced, Queued
<1>14. NoneFast'
  <2> SUFFICES ASSUME mishap \notin Grave, NEW s \in 1 .. Len(stacks')
               PROVE  stacks'[s].fast = FALSE
    BY <1>6 DEF NoneFast
  <2>1. CASE s = Len(stacks) + 1
    BY <1>4, <1>5, <2>1
  <2>2. CASE s # Len(stacks) + 1
    <3>1. s \in 1 .. Len(stacks)
      BY <1>5, <2>2
    <3>2. stacks[s].fast = FALSE
      BY <1>1, <3>1, DeployingIsSlow
    <3> QED
      BY <1>5, <3>1, <3>2
  <2> QED
    BY <2>1, <2>2
<1>15. CallInHand'
  BY <1>1, <1>6, <1>7 DEF CallInHand
<1> QED
  BY <1>6, <1>9, <1>11, <1>12, <1>13, <1>14, <1>15, OnlyDeploying DEF Inv

\* A step on the way from the contracts to the factory.
LEMMA DeployGoesOn ==
  ASSUME Inv, Frame, NoFaster, MishapKept,
         script = "deployStack", step \in {"grant", "settlement", "assets", "clear", "record"},
         script' = "deployStack",
         step' \in {"settlement", "assets", "factory", "clear", "record"},
         step' \in {"clear", "record"} => /\ local'.then \in {"settlement", "assets"}
                                          /\ local'.call.kind \in {"grant", "settle"},
         DOMAIN local' = Fields, local'.stack = local.stack,
         local'.call = local.call \/ local'.call.kind \in {"grant", "settle"}
  PROVE  Inv'
<1>1. /\ Len(factories) < MaxFactories
      /\ local.stack \in 1 .. Len(stacks)
      /\ \A f : ~Announced(local.stack, f) /\ ~OnRecord(local.stack, f)
      /\ stacks[local.stack].vaultFactory = 0
  BY DEF Inv, DeployFlow
<1>2. \A s, f : /\ Announced(s, f)' <=> Announced(s, f)
                /\ OnRecord(s, f)' <=> OnRecord(s, f)
  BY DEF Frame, WiresKept, RecordsKept
<1>3. /\ factories' = factories /\ Len(stacks') = Len(stacks)
      /\ stacks'[local.stack].vaultFactory = 0
  BY <1>1 DEF Frame, StacksKept, SameStack
<1> PICK k : k = local.stack
  OBVIOUS
<1>4. \A f : ~Announced(k, f)' /\ ~OnRecord(k, f)'
  BY <1>1, <1>2
<1>5. DeployFlow'
  BY <1>1, <1>3, <1>4 DEF DeployFlow, Announced, OnRecord, Queued
<1>6. NoneFast'
  BY NoneFastIsKept DEF Inv
<1>7. CallInHand'
  BY DEF Inv, CallInHand, OtherKinds
<1> QED
  BY <1>5, <1>6, <1>7, OnlyDeploying, FrameKeepsInv

LEMMA DeploySendsKeepInv ==
  ASSUME Inv, GrantDemoWallets \/ SetSettlement
  PROVE  Inv'
<1>1. PICK kind \in {"grant", "settle"}, next \in {"settlement", "assets"} :
        /\ script = "deployStack" /\ step \in {"grant", "settlement"}
        /\ sendOrQueue(Call(local.stack, kind, 0), next, next)
        /\ UNCHANGED <<now, fileVars>>
  BY DEF GrantDemoWallets, SetSettlement, At
<1>2. PICK call : call = Call(local.stack, kind, 0)
  OBVIOUS
<1>3. call.kind = kind /\ call.kind \in OtherKinds
  BY <1>1, <1>2 DEF Call, OtherKinds
<1>4. Shape /\ DOMAIN local = Fields
  BY DEF Inv, Shape
<1>5. /\ Frame /\ NoFaster /\ MishapKept
      /\ GoesOn(call, next, next) \/ (Aside /\ script' = "idle")
  BY <1>1, <1>2, <1>3, <1>4, SendingIsKept
<1>6. CASE GoesOn(call, next, next)
  <2>1. /\ script' = script /\ DOMAIN local' = Fields /\ local'.stack = local.stack
        /\ local'.call \in {local.call, call}
        /\ \/ step' = next
           \/ /\ step' \in {"clear", "record"}
              /\ local'.then = next /\ local'.call = call
    BY <1>6 DEF GoesOn
  <2>2. step' \in {"clear", "record"} => local'.call = call
    BY <1>1, <2>1
  <2> QED
    BY <1>1, <1>3, <1>5, <2>1, <2>2, DeployGoesOn
<1>7. CASE Aside /\ script' = "idle"
  <2>1. NoneFast'
    BY <1>1, <1>5, NoneFastIsKept DEF Inv
  <2> QED
    BY <1>1, <1>5, <1>7, <2>1, AsideKeepsInv
<1> QED
  BY <1>5, <1>6, <1>7

LEMMA ListAssetsKeepsInv ==
  ASSUME Inv, ListAssets
  PROVE  Inv'
<1> PICK k : k = local.stack
  OBVIOUS
<1> PICK e : e = HistorySuffices(k)
  OBVIOUS
<1> DEFINE r == [stacks[k] EXCEPT !.cap = LowCap, !.listed = TRUE, !.known = TRUE,
                                  !.grace = StockGrace, !.approved = e]
<1>1. /\ stacks' = [stacks EXCEPT ![k] = r] /\ script = "deployStack" /\ step = "assets"
      /\ Goto("factory")
      /\ UNCHANGED <<now, factories, control, queue, fileVars, local>>
  BY DEF ListAssets, At
<1>2. Shape
  BY DEF Inv
<1>3. k \in 1 .. Len(stacks) => SameStack(r, stacks[k]) /\ r.fast = stacks[k].fast
  BY <1>2 DEF Shape, SameStack, StackFields
<1> HIDE DEF r
<1>4. Frame /\ NoFaster
  BY <1>1, <1>2, <1>3, ListingsChanged
<1>5. script' = script /\ step' = "factory" /\ MishapKept
  BY <1>1 DEF Goto, MishapKept
<1> QED
  BY <1>1, <1>2, <1>4, <1>5, DeployGoesOn DEF Shape

LEMMA DeployFilesKeepInv ==
  ASSUME Inv, script = "deployStack", Clear \/ Record
  PROVE  Inv'
<1>1. Shape /\ DOMAIN local = Fields
  BY DEF Inv, Shape
<1>2. step \in {"clear", "record"}
  BY DEF Clear, Record
<1>3. local.call.kind \in {"grant", "settle"} /\ local.then \in {"settlement", "assets"}
  BY <1>2 DEF Inv, DeployFlow
<1>4. local.call.kind \in OtherKinds
  BY <1>3 DEF OtherKinds
<1>5. /\ Frame /\ NoFaster /\ MishapKept
      /\ script' = script /\ step' = local.then /\ UNCHANGED local
  BY <1>1, <1>4, FilingIsKept
<1> QED
  BY <1>1, <1>2, <1>3, <1>5, DeployGoesOn

-----------------------------------------------------------------------------
(***************************************************************************)
(* A factory is built; a pool is repointed.                                *)
(***************************************************************************)
LEMMA FactoryAdded ==
  ASSUME Inv, NEW k \in 1 .. Len(stacks), DeployFactoryOn(k),
         Len(factories) < MaxFactories, UNCHANGED <<now, fileVars, mishap>>,
         script \in {"deployStack", "redeployFactory"}, script' = script, step # "persist"
  PROVE  /\ Shape' /\ World' /\ RecordedFlow' /\ NoneFast'
         /\ UNCHANGED <<stacks, queue, book, pending>>
         /\ Len(factories) \in Nat /\ Len(factories') = Len(factories) + 1
         /\ factories'[Len(factories')] = k
         /\ local'.factory = Len(factories')
         /\ local'.stack = local.stack /\ local'.call = local.call
<1>1. Shape /\ World /\ RecordedFlow
  BY DEF Inv
<1>2. /\ factories' = Append(factories, k)
      /\ UNCHANGED <<stacks, queue, book, pending, mishap, now>>
      /\ DOMAIN control' = Contracts
  BY DEF DeployFactoryOn, fileVars, Controlling
<1>3. /\ IsSeq(factories') /\ Len(factories') = Len(factories) + 1
      /\ Len(stacks) \in Nat /\ Len(factories) \in Nat
      /\ factories'[Len(factories) + 1] = k
      /\ \A f \in 1 .. Len(factories) : factories'[f] = factories[f]
  BY <1>1, <1>2, SeqAppend, SeqDomain DEF Shape
<1>4. /\ DOMAIN local' = Fields /\ local'.factory = Len(factories')
      /\ local'.stack = local.stack /\ local'.call = local.call
  <2>1. local' = [local EXCEPT !.factory = Len(factories')] /\ DOMAIN local = Fields
    BY <1>1 DEF DeployFactoryOn, Shape
  <2>2. "factory" \in Fields
    BY DEF Fields
  <2> QED
    BY <2>1, <2>2
<1>5. Shape'
  BY <1>1, <1>2, <1>3, <1>4 DEF Shape
<1>6. \A s, f : /\ Announced(s, f)' <=> Announced(s, f)
                /\ OnRecord(s, f)' <=> OnRecord(s, f)
  BY <1>2 DEF Announced, OnRecord, Queued
<1>7. World'
  <2>1. PoolsFit'
    <3>1. \A s \in 1 .. Len(stacks) :
            stacks[s].vaultFactory \in Nat /\ stacks[s].vaultFactory <= Len(factories)
      BY <1>1 DEF Shape, World, PoolsFit
    <3>2. \A s \in 1 .. Len(stacks) : stacks[s].vaultFactory <= Len(factories) + 1
      BY <1>3, <3>1
    <3>3. Len(stacks) <= MaxStacks
      BY <1>1 DEF World, PoolsFit
    <3> QED
      BY <1>2, <1>3, <3>2, <3>3, DeploymentAssumption DEF PoolsFit
  <2>2. BookFits'
    BY <1>1, <1>2, <1>3 DEF World, BookFits, FactoryFitsStack
  <2>3. WiresFit'
    BY <1>1, <1>2, <1>3, <1>6 DEF World, WiresFit
  <2>4. OlderOnesBeaten'
    BY <1>1, <1>2, <1>6
       DEF World, OlderOnesBeaten, Beaten, Lapsed, Matures, Delay, Queued
  <2> QED
    BY <2>1, <2>2, <2>3, <2>4 DEF World
<1>8. RecordedFlow'
  BY <1>1, <1>2, <1>6
     DEF RecordedFlow, RecordedFactoryIsWired, OnRecord, Announced, Queued
<1>9. NoneFast'
  BY <1>2 DEF Inv, NoneFast
<1> QED
  BY <1>2, <1>3, <1>4, <1>5, <1>7, <1>8, <1>9

\* The announcements that stay behind when the pool of stack s moves to factory f
\* are beaten by the one it moves by.
StaysBehind(s, f) ==
  \A g : Announced(s, g) /\ OnRecord(s, g) /\ g < f =>
           Announced(s, f) /\ Beaten(Wire(s, g), Moved(Wire(s, f)))

LEMMA PoolRepointed ==
  ASSUME Shape, World, NEW s \in 1 .. Len(stacks), NEW f \in 1 .. Len(factories),
         Execute(Wire(s, f)), StaysBehind(s, f),
         UNCHANGED <<now, fileVars>>, DOMAIN local' = Fields
  PROVE  /\ Shape' /\ World' /\ UNCHANGED <<factories, book, pending>>
         /\ Len(stacks') = Len(stacks)
         /\ \A t \in 1 .. Len(stacks) :
              /\ stacks'[t].vaultFactory = IF t = s THEN f ELSE stacks[t].vaultFactory
              /\ stacks'[t].fast = stacks[t].fast /\ stacks'[t].delay = stacks[t].delay
         /\ \A t, g : /\ Announced(t, g)' <=> Announced(t, g) /\ ~(t = s /\ g = f)
                      /\ OnRecord(t, g)' <=> OnRecord(t, g)
                      /\ Announced(t, g)' => queue'[Wire(t, g)] = queue[Wire(t, g)]
<1> PICK call : call = Wire(s, f)
  OBVIOUS
<1>1. call.kind = "wire" /\ call.stack = s /\ call.arg = f
  BY WireIsOne
<1> PICK m : m = IF Queued(call) THEN Moved(call) ELSE stacks[s].moved
  OBVIOUS
<1> DEFINE r == [stacks[s] EXCEPT !.vaultFactory = f, !.moved = m]
<1>2. /\ stacks' = [stacks EXCEPT ![s] = r]
      /\ queue' = IF stacks[s].vaultFactory # 0 THEN Without(call) ELSE queue
      /\ UNCHANGED <<now, factories, control, book, pending>>
  BY <1>1 DEF Execute, AfterCall, MustBeAnnounced, fileVars
<1>3. /\ DOMAIN r = StackFields /\ r.vaultFactory = f /\ r.moved = m
      /\ r.fast = stacks[s].fast /\ r.delay = stacks[s].delay
  BY DEF Shape, StackFields
<1> HIDE DEF r
<1>4. /\ IsSeq(stacks') /\ Len(stacks') = Len(stacks)
      /\ \A t \in 1 .. Len(stacks) : stacks'[t] = IF t = s THEN r ELSE stacks[t]
  <2>1. PICK S : stacks \in Seq(S)
    BY DEF Shape, IsSeq
  <2>2. stacks \in Seq(S \cup {r}) /\ r \in S \cup {r}
    BY <2>1, SeqMonotonic
  <2> QED
    BY <1>2, <2>2, ExceptSeq DEF IsSeq
<1>5. \A t \in 1 .. Len(stacks) :
        /\ stacks'[t].vaultFactory = IF t = s THEN f ELSE stacks[t].vaultFactory
        /\ stacks'[t].fast = stacks[t].fast /\ stacks'[t].delay = stacks[t].delay
        /\ stacks'[t].moved = IF t = s THEN m ELSE stacks[t].moved
        /\ DOMAIN stacks'[t] = StackFields
  BY <1>3, <1>4 DEF Shape
<1>6. \A t, g : /\ Announced(t, g)' <=> Announced(t, g) /\ ~(t = s /\ g = f)
                /\ Announced(t, g)' => queue'[Wire(t, g)] = queue[Wire(t, g)]
  <2>1. CASE stacks[s].vaultFactory # 0
    <3>1. queue' = [c \in DOMAIN queue \ {call} |-> queue[c]]
      BY <1>2, <2>1 DEF Without
    <3> QED
      BY <3>1, WireIsOne DEF Announced, Queued
  <2>2. CASE stacks[s].vaultFactory = 0
    <3>1. \A g : ~Announced(s, g)
      BY <2>2 DEF World, WiresFit
    <3>2. queue' = queue
      BY <1>2, <2>2
    <3> QED
      BY <3>1, <3>2 DEF Announced, Queued
  <2> QED
    BY <2>1, <2>2
<1>7. \A t, g : OnRecord(t, g)' <=> OnRecord(t, g)
  BY <1>2 DEF OnRecord
<1>8. Len(factories) \in Nat /\ Len(stacks) \in Nat /\ f \in Nat /\ f # 0
  BY SeqDomain DEF Shape
<1>9. Shape'
  <2>1. \A t \in 1 .. Len(stacks) : /\ DOMAIN stacks'[t] = StackFields
                                    /\ stacks'[t].delay \in Nat
                                    /\ stacks'[t].vaultFactory \in Nat
    BY <1>5, <1>8 DEF Shape
  <2> QED
    BY <1>2, <1>4, <2>1 DEF Shape
<1>10. PoolsFit'
  BY <1>2, <1>4, <1>5, <1>8 DEF World, PoolsFit
<1>11. BookFits'
  BY <1>2, <1>4, <1>5, <1>8 DEF World, BookFits, FactoryFitsStack
<1>12. WiresFit'
  <2>1. \A t, g : /\ Announced(t, g) \/ OnRecord(t, g) =>
                       t \in 1 .. Len(stacks) /\ g \in 1 .. Len(factories)
                  /\ Announced(t, g) => /\ stacks[t].vaultFactory # 0
                                        /\ queue[Wire(t, g)] \in Nat
                                        /\ queue[Wire(t, g)] <= now
    BY DEF World, WiresFit
  <2> QED
    BY <1>2, <1>4, <1>5, <1>6, <1>7, <1>8, <2>1 DEF WiresFit
<1>13. OlderOnesBeaten'
  <2> SUFFICES ASSUME NEW t, NEW g, Announced(t, g)', OnRecord(t, g)',
                      g < stacks'[t].vaultFactory
               PROVE  Beaten(Wire(t, g), stacks[t].moved)'
    BY DEF OlderOnesBeaten
  <2>1. /\ Announced(t, g) /\ OnRecord(t, g) /\ t \in 1 .. Len(stacks)
        /\ queue'[Wire(t, g)] = queue[Wire(t, g)]
    BY <1>6, <1>7 DEF World, WiresFit
  <2>2. Lapsed(Wire(t, g)) => Lapsed(Wire(t, g))'
    <3>1. stacks'[t].delay = stacks[t].delay
      BY <1>5, <2>1
    <3> QED
      BY <1>2, <2>1, <3>1, WireIsOne DEF Lapsed, Matures, Delay, Announced
  <2>3. Beaten(Wire(t, g), stacks'[t].moved)
    <3>1. CASE t = s
      <4>1. Announced(s, f) /\ Beaten(Wire(s, g), Moved(Wire(s, f)))
        BY <1>5, <2>1, <3>1 DEF StaysBehind
      <4>2. m = Moved(Wire(s, f))
        BY <4>1 DEF Announced
      <4> QED
        BY <1>5, <2>1, <3>1, <4>1, <4>2
    <3>2. CASE t # s
      <4>1. /\ stacks'[t].vaultFactory = stacks[t].vaultFactory
            /\ stacks'[t].moved = stacks[t].moved
        BY <1>5, <2>1, <3>2
      <4> QED
        BY <2>1, <4>1 DEF World, OlderOnesBeaten
    <3> QED
      BY <3>1, <3>2
  <2> QED
    BY <2>1, <2>2, <2>3 DEF Beaten
<1>14. World'
  BY <1>10, <1>11, <1>12, <1>13 DEF World
<1> QED
  BY <1>2, <1>4, <1>5, <1>6, <1>7, <1>9, <1>14

-----------------------------------------------------------------------------
(***************************************************************************)
(* The end of a deployment.                                                *)
(***************************************************************************)
LEMMA DeployFactoryKeepsInv ==
  ASSUME Inv, DeployFactory
  PROVE  Inv'
<1> PICK k : k = local.stack
  OBVIOUS
<1>1. /\ script = "deployStack" /\ step = "factory" /\ DeployFactoryOn(k)
      /\ script' = script /\ step' = "wire"
      /\ UNCHANGED <<now, fileVars, mishap>>
  BY DEF DeployFactory, At, Goto
<1>2. /\ Shape /\ CallInHand /\ Len(factories) < MaxFactories
      /\ k \in 1 .. Len(stacks)
      /\ \A f : ~Announced(k, f) /\ ~OnRecord(k, f)
      /\ stacks[k].vaultFactory = 0
  BY <1>1 DEF Inv, DeployFlow
<1>3. /\ Shape' /\ World' /\ RecordedFlow' /\ NoneFast'
      /\ UNCHANGED <<stacks, queue, book, pending>>
      /\ Len(factories) \in Nat /\ Len(factories') = Len(factories) + 1
      /\ factories'[Len(factories')] = k
      /\ local'.factory = Len(factories')
      /\ local'.stack = k /\ local'.call = local.call
  BY <1>1, <1>2, FactoryAdded
<1>4. \A f : ~Announced(k, f)' /\ ~OnRecord(k, f)'
  BY <1>2, <1>3 DEF Announced, OnRecord, Queued
<1>5. FactoryBuilt'
  BY <1>3 DEF FactoryBuilt
<1>6. DeployFlow'
  BY <1>1, <1>2, <1>3, <1>4, <1>5 DEF DeployFlow, Announced, OnRecord, Queued
<1>7. CallInHand'
  BY <1>1, <1>2, <1>3 DEF CallInHand
<1> QED
  BY <1>1, <1>3, <1>6, <1>7, OnlyDeploying DEF Inv

LEMMA WireFirstKeepsInv ==
  ASSUME Inv, WireFirst
  PROVE  Inv'
<1> PICK k : k = local.stack
  OBVIOUS
<1> PICK f : f = local.factory
  OBVIOUS
<1>1. /\ script = "deployStack" /\ step = "wire" /\ Execute(Wire(k, f))
      /\ script' = script /\ step' = "persist"
      /\ UNCHANGED <<now, fileVars, mishap, local>>
  BY DEF WireFirst, At, Goto, Wire
<1>2. /\ Shape /\ World /\ RecordedFlow /\ CallInHand
      /\ k \in 1 .. Len(stacks) /\ FactoryBuilt
      /\ \A g : ~Announced(k, g) /\ ~OnRecord(k, g)
      /\ stacks[k].vaultFactory = 0
  BY <1>1 DEF Inv, DeployFlow
<1>3. Len(stacks) \in Nat /\ f \in 1 .. Len(factories)
  BY <1>2, SeqDomain DEF Shape, FactoryBuilt
<1>4. StaysBehind(k, f) /\ DOMAIN local' = Fields
  BY <1>1, <1>2 DEF StaysBehind, Shape
<1>5. /\ Shape' /\ World' /\ UNCHANGED <<factories, book, pending>>
      /\ Len(stacks') = Len(stacks)
      /\ \A t \in 1 .. Len(stacks) :
           /\ stacks'[t].vaultFactory = IF t = k THEN f ELSE stacks[t].vaultFactory
           /\ stacks'[t].fast = stacks[t].fast /\ stacks'[t].delay = stacks[t].delay
      /\ \A t, g : /\ Announced(t, g)' <=> Announced(t, g) /\ ~(t = k /\ g = f)
                   /\ OnRecord(t, g)' <=> OnRecord(t, g)
                   /\ Announced(t, g)' => queue'[Wire(t, g)] = queue[Wire(t, g)]
  BY <1>1, <1>2, <1>3, <1>4, PoolRepointed
<1>6. DeployFlow'
  <2>1. \A g : ~Announced(k, g)' /\ ~OnRecord(k, g)'
    BY <1>2, <1>5
  <2>2. FactoryBuilt'
    BY <1>1, <1>2, <1>5 DEF FactoryBuilt
  <2>3. stacks'[k].vaultFactory = f
    BY <1>2, <1>5
  <2> QED
    BY <1>1, <1>2, <1>5, <2>1, <2>2, <2>3 DEF DeployFlow, Announced, OnRecord, Queued
<1>7. RecordedFlow'
  <2> PICK b : b = book.stack
    OBVIOUS
  <2> PICK c : c = book.factory
    OBVIOUS
  <2>1. b # k /\ book'.stack = b /\ book'.factory = c
    BY <1>2, <1>3, <1>5 DEF World, BookFits
  <2>2. /\ b \in 1 .. Len(stacks) => stacks'[b].vaultFactory = stacks[b].vaultFactory
        /\ Announced(b, c)' <=> Announced(b, c)
        /\ \A g : OnRecord(b, g)' <=> OnRecord(b, g)
    BY <1>5, <2>1
  <2>3. b \in 1 .. Len(stacks) \/ (b = 0 /\ c = 0)
    BY <1>2, <1>3 DEF World, BookFits
  <2>4. \A g : ~OnRecord(0, g)
    BY <1>2 DEF World, WiresFit
  <2>5. mishap = "none" =>
          /\ \A g : OnRecord(b, g) => g <= c
          /\ OnRecord(b, c) => Announced(b, c) \/ stacks[b].vaultFactory = c
          /\ c # 0 => stacks[b].vaultFactory = c \/ OnRecord(b, c)
    BY <1>1, <1>2 DEF RecordedFlow, RecordedFactoryIsWired, OnRecord, Wire
  <2>6. mishap' = "none" =>
          /\ \A g : OnRecord(b, g)' => g <= c
          /\ OnRecord(b, c)' => Announced(b, c)' \/ stacks'[b].vaultFactory = c
          /\ c # 0 => stacks'[b].vaultFactory = c \/ OnRecord(b, c)'
    BY <1>1, <2>2, <2>3, <2>4, <2>5
  <2> QED
    BY <2>1, <2>6 DEF RecordedFlow, RecordedFactoryIsWired, OnRecord, Announced, Wire
<1>8. NoneFast'
  BY <1>1, <1>5, DeployingIsSlow DEF NoneFast
<1>9. CallInHand'
  BY <1>1, <1>2 DEF CallInHand
<1> QED
  BY <1>1, <1>5, <1>6, <1>7, <1>8, <1>9, OnlyDeploying DEF Inv

\* The book is written and the script ends.
LEMMA BookWritten ==
  ASSUME Inv, script \in {"deployStack", "redeployFactory"}, Done,
         UNCHANGED <<now, chainVars, pending>>,
         NEW k \in 1 .. Len(stacks), NEW f \in 1 .. Len(factories),
         factories[f] = k, stacks[k].vaultFactory # 0,
         DOMAIN book' = DOMAIN book, book'.stack = k, book'.factory = f,
         mishap = "none" =>
           /\ \A g : OnRecord(k, g) => g <= f
           /\ stacks[k].vaultFactory = f \/ (OnRecord(k, f) /\ Announced(k, f))
  PROVE  Inv'
<1>1. /\ Shape /\ World /\ UNCHANGED <<now, stacks, factories, control, queue, pending>>
      /\ mishap' = mishap
  BY DEF Inv, chainVars, Done
<1>2. Aside
  BY <1>1, DoneAside
<1>3. /\ script' \notin Tracked /\ DOMAIN local' = Fields
      /\ CallInHand' /\ LoanFlow'
  BY <1>2 DEF Aside
<1>4. Shape'
  BY <1>1, <1>3 DEF Shape
<1>5. \A s, g : /\ Announced(s, g)' <=> Announced(s, g)
                /\ OnRecord(s, g)' <=> OnRecord(s, g)
  BY <1>1 DEF Announced, OnRecord, Queued
<1>6. World'
  <2>1. BookFits'
    BY <1>1, SeqDomain DEF BookFits, FactoryFitsStack, Shape
  <2>2. PoolsFit'
    BY <1>1 DEF World, PoolsFit
  <2>3. WiresFit'
    BY <1>1, <1>5 DEF World, WiresFit
  <2>4. OlderOnesBeaten'
    BY <1>1, <1>5 DEF World, OlderOnesBeaten, Beaten, Lapsed, Matures, Delay, Queued
  <2> QED
    BY <2>1, <2>2, <2>3, <2>4 DEF World
<1>7. RecordedFlow'
  <2>1. mishap' = "none" =>
          /\ \A g : OnRecord(k, g)' => g <= f
          /\ OnRecord(k, f)' => Announced(k, f)' \/ stacks'[k].vaultFactory = f
          /\ f # 0 => stacks'[k].vaultFactory = f \/ OnRecord(k, f)'
    BY <1>1, <1>5
  <2> QED
    BY <2>1 DEF RecordedFlow, RecordedFactoryIsWired, OnRecord, Announced, Wire
<1>8. NoneFast'
  BY <1>1, DeployingIsSlow DEF NoneFast
<1>9. DeployFlow' /\ RedeployFlow' /\ ExecuteFlow' /\ AcceptFlow' /\ KeeperFlow'
  BY <1>3 DEF Tracked, DeployFlow, RedeployFlow, ExecuteFlow, AcceptFlow, KeeperFlow
<1> QED
  BY <1>3, <1>4, <1>6, <1>7, <1>8, <1>9 DEF Inv

LEMMA PersistStackKeepsInv ==
  ASSUME Inv, PersistStack
  PROVE  Inv'
<1> PICK k : k = local.stack
  OBVIOUS
<1> PICK f : f = local.factory
  OBVIOUS
<1>1. /\ script = "deployStack" /\ step = "persist" /\ Done
      /\ UNCHANGED <<now, chainVars, pending>>
      /\ book' = [book EXCEPT !.stack = k, !.factory = f]
  BY DEF PersistStack, At, Persist
<1>2. /\ Shape /\ k \in 1 .. Len(stacks) /\ FactoryBuilt
      /\ \A g : ~Announced(k, g) /\ ~OnRecord(k, g)
      /\ stacks[k].vaultFactory = f
  BY <1>1 DEF Inv, DeployFlow
<1>3. f \in 1 .. Len(factories) /\ factories[f] = k /\ f # 0
  BY <1>2, SeqDomain DEF Shape, FactoryBuilt
<1>4. DOMAIN book' = DOMAIN book /\ book'.stack = k /\ book'.factory = f
  BY <1>1, <1>2 DEF Shape
<1> QED
  BY <1>1, <1>2, <1>3, <1>4, BookWritten

LEMMA DeployStepsKeepInv ==
  ASSUME Inv, DeploySteps
  PROVE  Inv'
BY DeployStackKeepsInv, DeployContractsKeepsInv, DeploySendsKeepInv,
   ListAssetsKeepsInv, DeployFactoryKeepsInv, WireFirstKeepsInv, PersistStackKeepsInv
   DEF DeploySteps

-----------------------------------------------------------------------------
(***************************************************************************)
(* redeploy-factory-v21.js.                                                *)
(***************************************************************************)
LEMMA OnlyRedeploying ==
  ASSUME script' = "redeployFactory"
  PROVE  DeployFlow' /\ ExecuteFlow' /\ AcceptFlow' /\ KeeperFlow' /\ LoanFlow' /\ CallInHand'
BY DEF DeployFlow, ExecuteFlow, AcceptFlow, KeeperFlow, LoanFlow, Lenders, CallInHand

LEMMA RedeployFactoryKeepsInv ==
  ASSUME Inv, RedeployFactory
  PROVE  Inv'
<1> DEFINE memory == [NoLocal EXCEPT !.stack = book.stack]
<1>1. /\ script = "idle" /\ Len(factories) < MaxFactories /\ book.stack # 0
      /\ script' = "redeployFactory" /\ step' = "factory" /\ local' = memory
      /\ UNCHANGED <<now, chainVars, fileVars, mishap>>
      /\ factories' = factories /\ book' = book
  BY DEF RedeployFactory, Begins, Starting, chainVars, fileVars
<1>2. DOMAIN memory = Fields /\ memory.stack = book.stack
  BY NothingInHand DEF Fields
<1> HIDE DEF memory
<1>3. Frame /\ NoFaster
  BY <1>1, NothingChanged DEF Inv
<1>4. MishapKept
  BY <1>1 DEF MishapKept
<1>5. NoneFast'
  BY <1>1, <1>3, <1>4, NoneFastIsKept DEF Inv
<1>6. RedeployFlow'
  BY <1>1, <1>2 DEF RedeployFlow
<1> QED
  BY <1>1, <1>2, <1>3, <1>4, <1>5, <1>6, OnlyRedeploying, FrameKeepsInv

LEMMA RedeployContractsKeepsInv ==
  ASSUME Inv, RedeployContracts
  PROVE  Inv'
<1> PICK k : k = local.stack
  OBVIOUS
<1>1. /\ script = "redeployFactory" /\ step = "factory" /\ DeployFactoryOn(k)
      /\ script' = script /\ step' = "rewire"
      /\ UNCHANGED <<now, fileVars, mishap>>
  BY DEF RedeployContracts, At, Goto
<1>2. /\ Shape /\ World /\ Len(factories) < MaxFactories
      /\ k = book.stack /\ k # 0
  BY <1>1 DEF Inv, RedeployFlow
<1>3. k \in 1 .. Len(stacks)
  BY <1>2, SeqDomain DEF World, BookFits, Shape
<1>4. /\ Shape' /\ World' /\ RecordedFlow' /\ NoneFast'
      /\ UNCHANGED <<stacks, queue, book, pending>>
      /\ Len(factories) \in Nat /\ Len(factories') = Len(factories) + 1
      /\ factories'[Len(factories')] = k
      /\ local'.factory = Len(factories')
      /\ local'.stack = k /\ local'.call = local.call
  BY <1>1, <1>2, <1>3, FactoryAdded
<1>5. \A f : Announced(k, f)' \/ OnRecord(k, f)' => f < local'.factory
  <2>1. \A f : Announced(k, f) \/ OnRecord(k, f) => f \in 1 .. Len(factories)
    BY <1>2 DEF World, WiresFit
  <2>2. \A f : Announced(k, f)' \/ OnRecord(k, f)' => Announced(k, f) \/ OnRecord(k, f)
    BY <1>4 DEF Announced, OnRecord, Queued
  <2> QED
    BY <1>4, <2>1, <2>2
<1>6. FactoryBuilt'
  BY <1>4 DEF FactoryBuilt
<1>7. RedeployFlow'
  BY <1>1, <1>2, <1>4, <1>5, <1>6 DEF RedeployFlow, Announced, OnRecord, Queued
<1> QED
  BY <1>1, <1>4, <1>7, OnlyRedeploying DEF Inv

LEMMA RewireKeepsInv ==
  ASSUME Inv, Rewire
  PROVE  Inv'
<1> PICK k : k = local.stack
  OBVIOUS
<1> PICK f : f = local.factory
  OBVIOUS
<1>1. /\ script = "redeployFactory" /\ step = "rewire"
      /\ UNCHANGED <<now, fileVars>>
      /\ book' = book /\ pending' = pending
  BY DEF Rewire, At, fileVars
<1>2. /\ Shape /\ World /\ RecordedFlow /\ k = book.stack /\ k # 0 /\ FactoryBuilt
      /\ \A g : Announced(k, g) \/ OnRecord(k, g) => g < f
  BY <1>1 DEF Inv, RedeployFlow
<1>3. /\ k \in 1 .. Len(stacks) /\ stacks[k].vaultFactory # 0
      /\ f \in 1 .. Len(factories) /\ Len(factories) \in Nat
  BY <1>2, SeqDomain DEF World, BookFits, Shape, FactoryBuilt
<1> PICK call : call = Wire(k, f)
  OBVIOUS
<1>4. ~Announced(k, f) /\ ~OnRecord(k, f)
  BY <1>2, <1>3
<1>5. CASE /\ queueAction(call) /\ Goto("record")
           /\ local' = [local EXCEPT !.call = call, !.then = "persist"]
  <2>1. /\ DOMAIN local' = Fields /\ local'.stack = k /\ local'.factory = f
        /\ local'.call = call /\ local'.then = "persist"
    BY <1>2, <1>5 DEF Shape, Fields
  <2>2. /\ UNCHANGED <<stacks, factories, control>>
        /\ script' = script /\ step' = "record" /\ mishap' = mishap
    BY <1>5 DEF queueAction, Goto
  <2>3. \A s, g : /\ Announced(s, g)' <=> Announced(s, g) \/ (s = k /\ g = f)
                  /\ Announced(s, g) => queue'[Wire(s, g)] = queue[Wire(s, g)]
    BY <1>4, <1>5, WireIsOne DEF queueAction, Announced, Queued
  <2>4. queue'[Wire(k, f)] = now
    BY <1>5 DEF queueAction
  <2>5. \A s, g : OnRecord(s, g)' <=> OnRecord(s, g)
    BY <1>1 DEF OnRecord
  <2>6. Shape'
    BY <1>1, <1>2, <2>1, <2>2 DEF Shape
  <2>7. World'
    <3>1. PoolsFit' /\ BookFits'
      BY <1>1, <1>2, <2>2 DEF World, PoolsFit, BookFits, FactoryFitsStack
    <3>2. WiresFit'
      <4>1. \A s, g : /\ Announced(s, g) \/ OnRecord(s, g) =>
                           s \in 1 .. Len(stacks) /\ g \in 1 .. Len(factories)
                      /\ Announced(s, g) => /\ stacks[s].vaultFactory # 0
                                            /\ queue[Wire(s, g)] \in Nat
                                            /\ queue[Wire(s, g)] <= now
        BY <1>2 DEF World, WiresFit
      <4>2. now \in Nat /\ now <= now
        BY <1>2 DEF Shape
      <4>3. \A s, g : /\ Announced(s, g)' \/ OnRecord(s, g)' =>
                           s \in 1 .. Len(stacks) /\ g \in 1 .. Len(factories)
                      /\ Announced(s, g)' => /\ stacks[s].vaultFactory # 0
                                             /\ queue'[Wire(s, g)] \in Nat
                                             /\ queue'[Wire(s, g)] <= now
        BY <1>3, <2>3, <2>4, <2>5, <4>1, <4>2
      <4> QED
        BY <1>1, <2>2, <4>3 DEF WiresFit
    <3>3. OlderOnesBeaten'
      <4> SUFFICES ASSUME NEW s, NEW g, Announced(s, g)', OnRecord(s, g)',
                          g < stacks[s].vaultFactory
                   PROVE  Beaten(Wire(s, g), stacks[s].moved)'
        BY <2>2 DEF OlderOnesBeaten
      <4>1. OnRecord(s, g) /\ Announced(s, g)
        BY <1>4, <2>3, <2>5
      <4>2. /\ Beaten(Wire(s, g), stacks[s].moved)
            /\ queue'[Wire(s, g)] = queue[Wire(s, g)]
        BY <1>2, <2>3, <4>1 DEF World, OlderOnesBeaten
      <4> QED
        BY <1>1, <2>2, <4>2 DEF Beaten, Lapsed, Matures, Delay, Announced
    <3> QED
      BY <3>1, <3>2, <3>3 DEF World
  <2>8. RecordedFlow'
    <3>1. \A s, g : Announced(s, g) => Announced(s, g)'
      BY <2>3
    <3>2. mishap = "none" =>
            /\ \A g : OnRecord(k, g) => g <= book.factory
            /\ OnRecord(k, book.factory) =>
                 Announced(k, book.factory) \/ stacks[k].vaultFactory = book.factory
            /\ RecordedFactoryIsWired
      BY <1>1, <1>2 DEF RecordedFlow
    <3>3. RecordedFactoryIsWired' <=> RecordedFactoryIsWired
      BY <1>1, <2>2 DEF RecordedFactoryIsWired
    <3> PICK b : b = book.factory
      OBVIOUS
    <3>4. mishap' = "none" =>
            /\ \A g : OnRecord(k, g)' => g <= b
            /\ OnRecord(k, b)' => Announced(k, b)' \/ stacks'[k].vaultFactory = b
            /\ RecordedFactoryIsWired'
      BY <2>2, <2>5, <3>1, <3>2, <3>3
    <3>5. book'.stack = k /\ book'.factory = b
      BY <1>1, <1>2
    <3> QED
      BY <3>4, <3>5 DEF RecordedFlow, OnRecord, Announced
  <2>9. RedeployFlow'
    <3>1. FactoryBuilt'
      BY <1>2, <2>1, <2>2 DEF FactoryBuilt
    <3>2. Announced(k, f)' /\ \A g : OnRecord(k, g)' => g < f
      BY <1>2, <2>3, <2>5
    <3>3. book'.stack = k
      BY <1>1, <1>2
    <3> QED
      BY <1>2, <2>1, <2>2, <3>1, <3>2, <3>3
         DEF RedeployFlow, Announced, OnRecord, Queued
  <2>10. NoneFast'
    BY <1>1, <2>2, DeployingIsSlow DEF NoneFast
  <2> QED
    BY <1>1, <2>2, <2>6, <2>7, <2>8, <2>9, <2>10, OnlyRedeploying DEF Inv
<1>6. CASE Accepted(call)
  <2>1. MustBeAnnounced(call)
    BY <1>3, WireIsOne DEF MustBeAnnounced
  <2>2. Announced(k, f)
    BY <1>6, <2>1 DEF Accepted, isExecutable, Announced
  <2> QED
    BY <1>4, <2>2
<1>7. CASE EndsBadly("refused") /\ UNCHANGED chainVars
  <2>1. Frame /\ NoFaster
    BY <1>1, <1>2, <1>7, NothingChanged
  <2>2. Aside /\ MishapKept /\ mishap' # "none"
    BY <1>2, <1>7, EndsBadlyAside
  <2>3. NoneFast'
    BY <1>1, <2>1, <2>2, NoneFastIsKept DEF Inv
  <2> QED
    BY <2>1, <2>2, <2>3, AsideKeepsInv
<1> QED
  BY <1>5, <1>6, <1>7 DEF Rewire, Wire

LEMMA RedeployFilesKeepInv ==
  ASSUME Inv, script = "redeployFactory", Clear \/ Record
  PROVE  Inv'
<1> PICK k : k = local.stack
  OBVIOUS
<1> PICK f : f = local.factory
  OBVIOUS
<1>1. step = "record" /\ Record
  BY DEF Inv, RedeployFlow, Clear, Record
<1>2. /\ Shape /\ World /\ RecordedFlow /\ k = book.stack /\ k # 0 /\ FactoryBuilt
      /\ local.call = Wire(k, f) /\ local.then = "persist" /\ Announced(k, f)
      /\ \A g : OnRecord(k, g) => g < f
  BY <1>1 DEF Inv, RedeployFlow
<1>3. /\ pending' = writePending(Wire(k, f))
      /\ UNCHANGED <<now, stacks, factories, control, queue, book, local, mishap>>
      /\ script' = script /\ step' = "persist"
  BY <1>1, <1>2 DEF Record, Goto, chainVars
<1>4. /\ k \in 1 .. Len(stacks) /\ f \in 1 .. Len(factories) /\ f = Len(factories)
      /\ Len(factories) \in Nat /\ Len(stacks) \in Nat
  BY <1>2, SeqDomain DEF World, BookFits, Shape, FactoryBuilt
<1>5. /\ WireSeq(writePending(Wire(k, f)))
      /\ \A x : Contains(writePending(Wire(k, f)), x)
                  <=> Contains(pending, x) \/ x = Wire(k, f)
  <2>1. Recordable(Wire(k, f))
    BY <1>4 DEF Recordable
  <2>2. \A s, h, g \in Nat :
          Wire(k, f) = Wire(s, h) /\ Contains(pending, Wire(s, g)) => g < h
    BY <1>2, WireIsOne DEF OnRecord
  <2>3. WireSeq(pending)
    BY <1>2 DEF Shape
  <2> QED
    BY <2>1, <2>2, <2>3, Written
<1>6. /\ WireSeq(pending')
      /\ \A s, g : OnRecord(s, g)' <=> OnRecord(s, g) \/ (s = k /\ g = f)
  BY <1>3, <1>5, WireIsOne DEF OnRecord
<1>7. \A s, g : Announced(s, g)' <=> Announced(s, g)
  BY <1>3 DEF Announced, Queued
<1>8. Shape'
  BY <1>2, <1>3, <1>6 DEF Shape
<1>9. World'
  <2>1. PoolsFit' /\ BookFits'
    BY <1>2, <1>3 DEF World, PoolsFit, BookFits, FactoryFitsStack
  <2>2. WiresFit'
    BY <1>2, <1>3, <1>4, <1>6, <1>7 DEF World, WiresFit
  <2>3. OlderOnesBeaten'
    <3> SUFFICES ASSUME NEW s, NEW g, Announced(s, g)', OnRecord(s, g)',
                        g < stacks[s].vaultFactory
                 PROVE  Beaten(Wire(s, g), stacks[s].moved)'
      BY <1>3 DEF OlderOnesBeaten
    <3>1. stacks[k].vaultFactory <= Len(factories) /\ stacks[k].vaultFactory \in Nat
      BY <1>2, <1>4 DEF World, PoolsFit, Shape
    <3>2. OnRecord(s, g)
      BY <1>4, <1>6, <3>1
    <3>3. Beaten(Wire(s, g), stacks[s].moved)
      BY <1>2, <1>7, <3>2 DEF World, OlderOnesBeaten
    <3> QED
      BY <1>3, <3>3 DEF Beaten, Lapsed, Matures, Delay, Queued
  <2> QED
    BY <2>1, <2>2, <2>3 DEF World
<1>10. RecordedFlow'
  <2> PICK b : b = book.factory
    OBVIOUS
  <2>1. mishap = "none" =>
          /\ OnRecord(k, b) => Announced(k, b) \/ stacks[k].vaultFactory = b
          /\ b # 0 => stacks[k].vaultFactory = b \/ OnRecord(k, b)
    BY <1>2 DEF RecordedFlow, RecordedFactoryIsWired, OnRecord, Wire
  <2>2. mishap' = "none" =>
          /\ OnRecord(k, b)' => Announced(k, b)' \/ stacks'[k].vaultFactory = b
          /\ b # 0 => stacks'[k].vaultFactory = b \/ OnRecord(k, b)'
    BY <1>2, <1>3, <1>6, <1>7, <2>1
  <2>3. book'.stack = k /\ book'.factory = b /\ script' = "redeployFactory" /\ step' = "persist"
    BY <1>2, <1>3
  <2> QED
    BY <2>2, <2>3 DEF RecordedFlow, RecordedFactoryIsWired, OnRecord, Announced, Wire
<1>11. RedeployFlow'
  <2>1. OnRecord(k, f)' /\ Announced(k, f)' /\ FactoryBuilt'
    BY <1>2, <1>3, <1>6, <1>7 DEF FactoryBuilt
  <2>2. local'.stack = k /\ local'.factory = f /\ book'.stack = k
    BY <1>2, <1>3
  <2> QED
    BY <1>2, <1>3, <2>1, <2>2 DEF RedeployFlow, OnRecord, Announced, Queued
<1>12. NoneFast'
  BY <1>3, DeployingIsSlow DEF NoneFast
<1> QED
  BY <1>3, <1>8, <1>9, <1>10, <1>11, <1>12, OnlyRedeploying DEF Inv

LEMMA PersistRedeployKeepsInv ==
  ASSUME Inv, PersistRedeploy
  PROVE  Inv'
<1> PICK k : k = local.stack
  OBVIOUS
<1> PICK f : f = local.factory
  OBVIOUS
<1>1. /\ script = "redeployFactory" /\ step = "persist" /\ Done
      /\ UNCHANGED <<now, chainVars, pending>>
      /\ book' = [book EXCEPT !.factory = f]
  BY DEF PersistRedeploy, At, PersistFactory
<1>2. /\ Shape /\ World /\ k = book.stack /\ k # 0 /\ FactoryBuilt
      /\ \/ stacks[k].vaultFactory = f
         \/ OnRecord(k, f) /\ Announced(k, f)
  BY <1>1 DEF Inv, RedeployFlow
<1>3. /\ k \in 1 .. Len(stacks) /\ stacks[k].vaultFactory # 0
      /\ f \in 1 .. Len(factories) /\ factories[f] = k /\ f = Len(factories)
  <2>0. FactoryBuilt
    BY <1>1 DEF Inv, RedeployFlow
  <2>1. Len(stacks) \in Nat /\ Len(factories) \in Nat
    BY <1>2, SeqDomain DEF Shape
  <2>2. k \in 1 .. Len(stacks) /\ stacks[k].vaultFactory # 0
    BY <1>2, <2>1 DEF World, BookFits
  <2>3. f = Len(factories) /\ f # 0 /\ factories[f] = k
    BY <2>0 DEF FactoryBuilt
  <2>4. f \in 1 .. Len(factories)
    BY <2>1, <2>3
  <2> QED
    BY <2>2, <2>3, <2>4
<1>4. DOMAIN book' = DOMAIN book /\ book'.stack = k /\ book'.factory = f
  BY <1>1, <1>2 DEF Shape
<1>5. \A g : OnRecord(k, g) => g <= f
  BY <1>2, <1>3 DEF World, WiresFit
<1> QED
  BY <1>1, <1>2, <1>3, <1>4, <1>5, BookWritten

LEMMA RedeployStepsKeepInv ==
  ASSUME Inv, RedeploySteps
  PROVE  Inv'
BY RedeployFactoryKeepsInv, RedeployContractsKeepsInv, RewireKeepsInv,
   PersistRedeployKeepsInv DEF RedeploySteps

-----------------------------------------------------------------------------
(***************************************************************************)
(* execute-timelocked.js.                                                  *)
(***************************************************************************)
LEMMA OnlyExecuting ==
  ASSUME script' = "executeTimelocked"
  PROVE  DeployFlow' /\ RedeployFlow' /\ AcceptFlow' /\ KeeperFlow' /\ LoanFlow' /\ CallInHand'
BY DEF DeployFlow, RedeployFlow, AcceptFlow, KeeperFlow, LoanFlow, Lenders, CallInHand

LEMMA ExecuteTimelockedKeepsInv ==
  ASSUME Inv, ExecuteTimelocked
  PROVE  Inv'
<1> DEFINE memory == [NoLocal EXCEPT !.todo = pending, !.since = now]
<1>1. /\ script = "idle"
      /\ script' = "executeTimelocked" /\ step' = "each" /\ local' = memory
      /\ UNCHANGED <<now, chainVars, fileVars, mishap>>
      /\ pending' = pending /\ stacks' = stacks /\ queue' = queue
  BY DEF ExecuteTimelocked, Begins, Starting, chainVars, fileVars
<1>2. DOMAIN memory = Fields /\ memory.todo = pending /\ memory.since = now
  BY NothingInHand DEF Fields
<1> HIDE DEF memory
<1>3. Frame /\ NoFaster
  BY <1>1, NothingChanged DEF Inv
<1>4. MishapKept
  BY <1>1 DEF MishapKept
<1>5. NoneFast'
  BY <1>1, <1>3, <1>4, NoneFastIsKept DEF Inv
<1>6. ExecuteFlow'
  <2>1. WireSeq(pending) /\ now \in Nat /\ now <= now
    BY DEF Inv, Shape
  <2> QED
    BY <1>1, <1>2, <2>1 DEF ExecuteFlow, OnRecord
<1> QED
  BY <1>1, <1>2, <1>3, <1>4, <1>5, <1>6, OnlyExecuting, FrameKeepsInv

\* A record is cleared that the book does not need any more.
LEMMA RecordDropped ==
  ASSUME Inv, script = "executeTimelocked", script' = script,
         UNCHANGED <<now, chainVars, book, mishap>>, DOMAIN local' = Fields,
         NEW call, pending' = clearPending(call),
         \A s, f : call = Wire(s, f) => ~Announced(s, f) \/ stacks[s].vaultFactory = f
  PROVE  /\ Shape' /\ World' /\ RecordedFlow' /\ NoneFast'
         /\ UNCHANGED <<now, stacks, queue>>
         /\ \A s, f : OnRecord(s, f)' <=> OnRecord(s, f) /\ Wire(s, f) # call
<1>1. /\ Shape /\ World /\ RecordedFlow
      /\ UNCHANGED <<now, stacks, factories, control, queue, book>>
  BY DEF Inv, chainVars
<1>2. /\ WireSeq(pending')
      /\ \A s, f : OnRecord(s, f)' <=> OnRecord(s, f) /\ Wire(s, f) # call
  <2>1. WireSeq(pending)
    BY <1>1 DEF Shape
  <2>2. /\ WireSeq(clearPending(call))
        /\ \A x : Contains(clearPending(call), x) <=> Contains(pending, x) /\ x # call
    BY <2>1, Cleared
  <2> QED
    BY <2>2 DEF OnRecord
<1>3. \A s, f : Announced(s, f)' <=> Announced(s, f)
  BY <1>1 DEF Announced, Queued
<1>4. Shape'
  BY <1>1, <1>2 DEF Shape
<1>5. World'
  <2>1. PoolsFit' /\ BookFits'
    BY <1>1 DEF World, PoolsFit, BookFits, FactoryFitsStack
  <2>2. WiresFit'
    BY <1>1, <1>2, <1>3 DEF World, WiresFit
  <2>3. OlderOnesBeaten'
    BY <1>1, <1>2, <1>3
       DEF World, OlderOnesBeaten, Beaten, Lapsed, Matures, Delay, Queued
  <2> QED
    BY <2>1, <2>2, <2>3 DEF World
<1>6. RecordedFlow'
  <2> PICK k : k = book.stack
    OBVIOUS
  <2> PICK b : b = book.factory
    OBVIOUS
  <2>1. mishap = "none" =>
          /\ \A g : OnRecord(k, g) => g <= b
          /\ OnRecord(k, b) => Announced(k, b) \/ stacks[k].vaultFactory = b
          /\ b # 0 => stacks[k].vaultFactory = b \/ OnRecord(k, b)
    BY <1>1 DEF RecordedFlow, RecordedFactoryIsWired, OnRecord, Wire
  <2>2. mishap' = "none" =>
          /\ \A g : OnRecord(k, g)' => g <= b
          /\ OnRecord(k, b)' => Announced(k, b)' \/ stacks'[k].vaultFactory = b
          /\ b # 0 => stacks'[k].vaultFactory = b \/ OnRecord(k, b)'
    BY <1>1, <1>2, <1>3, <2>1
  <2>3. book'.stack = k /\ book'.factory = b
    BY <1>1
  <2> QED
    BY <2>2, <2>3 DEF RecordedFlow, RecordedFactoryIsWired, OnRecord, Announced, Wire
<1>7. NoneFast'
  BY <1>1, DeployingIsSlow DEF NoneFast
<1> QED
  BY <1>1, <1>2, <1>4, <1>5, <1>6, <1>7

LEMMA ExecuteFilesKeepInv ==
  ASSUME Inv, script = "executeTimelocked", Clear \/ Record
  PROVE  Inv'
<1>1. step = "clear" /\ Clear
  BY DEF Inv, ExecuteFlow, Clear, Record
<1> PICK call : call = local.call
  OBVIOUS
<1> PICK todo : todo = local.todo
  OBVIOUS
<1>2. /\ DOMAIN local = Fields /\ local.then = "each"
      /\ WireSeq(todo)
      /\ \A s, f : Contains(todo, Wire(s, f)) => OnRecord(s, f)
      /\ \A s, f : OnRecord(s, f) /\ Announced(s, f) =>
                     Contains(todo, Wire(s, f)) \/ PassedOver(Wire(s, f))
      /\ \A s, f : call = Wire(s, f) => /\ stacks[s].vaultFactory = f
                                        /\ ~Contains(todo, Wire(s, f))
  BY <1>1 DEF Inv, ExecuteFlow, Shape
<1>3. /\ pending' = clearPending(call) /\ script' = script /\ step' = "each"
      /\ UNCHANGED <<now, chainVars, book, local, mishap>>
  BY <1>1, <1>2 DEF Clear, Goto
<1>4. /\ Shape' /\ World' /\ RecordedFlow' /\ NoneFast'
      /\ UNCHANGED <<now, stacks, queue>>
      /\ \A s, f : OnRecord(s, f)' <=> OnRecord(s, f) /\ Wire(s, f) # call
  BY <1>2, <1>3, RecordDropped
<1>5. \A s, f : /\ PassedOver(Wire(s, f))' <=> PassedOver(Wire(s, f))
                /\ Announced(s, f)' <=> Announced(s, f)
  BY <1>3, <1>4 DEF PassedOver, Matures, Delay, Lapsed, Queued, Announced
<1>6. ExecuteFlow'
  <2>1. local'.todo = todo
    BY <1>3
  <2>2. /\ \A s, f : Contains(todo, Wire(s, f)) => OnRecord(s, f)'
        /\ \A s, f : OnRecord(s, f)' /\ Announced(s, f)' =>
                       Contains(todo, Wire(s, f)) \/ PassedOver(Wire(s, f))'
    BY <1>2, <1>4, <1>5
  <2>3. local'.since \in Nat /\ local'.since <= now'
    BY <1>1, <1>3, <1>4 DEF Inv, ExecuteFlow
  <2> QED
    BY <1>2, <1>3, <2>1, <2>2, <2>3 DEF ExecuteFlow, OnRecord, Announced, PassedOver
<1> QED
  BY <1>3, <1>4, <1>6, OnlyExecuting DEF Inv

\* The record at hand is the first of those still to go through.
LEMMA RecordAtHand ==
  ASSUME Inv, script = "executeTimelocked", local.todo # <<>>
  PROVE  /\ WireSeq(Tail(local.todo)) /\ Recordable(Head(local.todo))
         /\ \A s, f : Contains(Tail(local.todo), Wire(s, f)) => OnRecord(s, f)
         /\ \A s, f : OnRecord(s, f) /\ Announced(s, f) =>
              \/ Wire(s, f) = Head(local.todo) \/ Contains(Tail(local.todo), Wire(s, f))
              \/ PassedOver(Wire(s, f))
         /\ \A s, f : Head(local.todo) = Wire(s, f) =>
              OnRecord(s, f) /\ ~Contains(Tail(local.todo), Wire(s, f))
         /\ \A s, f, g \in Nat :
              Head(local.todo) = Wire(s, f) /\ Contains(Tail(local.todo), Wire(s, g)) => f < g
<1> PICK todo : todo = local.todo
  OBVIOUS
<1>1. /\ Shape /\ World /\ WireSeq(todo) /\ todo # <<>>
      /\ \A s, f : Contains(todo, Wire(s, f)) => OnRecord(s, f)
      /\ \A s, f : OnRecord(s, f) /\ Announced(s, f) =>
                     Contains(todo, Wire(s, f)) \/ PassedOver(Wire(s, f))
  BY DEF Inv, ExecuteFlow
<1>2. /\ WireSeq(Tail(todo))
      /\ \A x : Contains(todo, x) <=> x = Head(todo) \/ Contains(Tail(todo), x)
      /\ \A s, f, g \in Nat :
           Head(todo) = Wire(s, f) /\ Contains(Tail(todo), Wire(s, g)) => f < g
  BY <1>1, WireSeqTail
<1>3. Recordable(Head(todo))
  BY <1>1, <1>2 DEF WireSeq
<1>4. ASSUME NEW s, NEW f, Head(todo) = Wire(s, f)
      PROVE  OnRecord(s, f) /\ ~Contains(Tail(todo), Wire(s, f))
  <2>1. OnRecord(s, f)
    BY <1>1, <1>2, <1>4
  <2>2. s \in Nat /\ f \in Nat
    BY <1>1, <2>1, SeqDomain DEF World, WiresFit, Shape
  <2>3. ~(f < f)
    BY <2>2
  <2> QED
    BY <1>2, <1>4, <2>1, <2>2, <2>3
<1> QED
  BY <1>1, <1>2, <1>3, <1>4

\* Records are gone through in the order of their factories: an older one than
\* the one at hand was passed over, so that it lapsed or has matured since the
\* run began.
LEMMA OlderOnesStayBehind ==
  ASSUME Inv, script = "executeTimelocked", local.todo # <<>>,
         NEW s, NEW f, Head(local.todo) = Wire(s, f), isExecutable(Wire(s, f))
  PROVE  /\ s \in 1 .. Len(stacks) /\ f \in 1 .. Len(factories)
         /\ OnRecord(s, f) /\ Announced(s, f) /\ StaysBehind(s, f)
         /\ stacks[s].vaultFactory \in Nat
<1> PICK todo : todo = local.todo
  OBVIOUS
<1>1. /\ Shape /\ World
      /\ OnRecord(s, f) /\ Announced(s, f)
  BY RecordAtHand DEF Inv, isExecutable, Announced
<1>2. /\ s \in 1 .. Len(stacks) /\ f \in 1 .. Len(factories)
      /\ queue[Wire(s, f)] \in Nat
      /\ stacks[s].vaultFactory \in Nat /\ stacks[s].delay \in Nat
      /\ Len(stacks) \in Nat /\ Len(factories) \in Nat /\ now \in Nat
      /\ local.since \in Nat
  BY <1>1, SeqDomain DEF World, WiresFit, Shape, Inv, ExecuteFlow
<1>3. now >= queue[Wire(s, f)] + stacks[s].delay
  BY <1>1, <1>2, WireIsOne DEF isExecutable, Matures, Delay
<1>4. StaysBehind(s, f)
  <2> SUFFICES ASSUME NEW g, Announced(s, g), OnRecord(s, g), g < f,
                      ~Lapsed(Wire(s, g))
               PROVE  Moved(Wire(s, f)).announced - queue[Wire(s, g)]
                        < Moved(Wire(s, f)).took
    BY <1>1 DEF StaysBehind, Beaten
  <2>1. g \in 1 .. Len(factories) /\ queue[Wire(s, g)] \in Nat
    BY <1>1 DEF World, WiresFit
  <2>2. Wire(s, g) # Head(todo)
    BY <1>2, <2>1, WireIsOne
  <2>3. ~Contains(Tail(todo), Wire(s, g))
    <3>1. Contains(Tail(todo), Wire(s, g)) => f < g
      BY <1>2, <2>1, RecordAtHand
    <3> QED
      BY <1>2, <2>1, <3>1
  <2>4. PassedOver(Wire(s, g))
    BY <2>2, <2>3, RecordAtHand
  <2>5. queue[Wire(s, g)] + stacks[s].delay > local.since
    BY <2>4, WireIsOne DEF PassedOver, Matures, Delay
  <2>6. queue[Wire(s, f)] - queue[Wire(s, g)] < now - local.since
    BY <1>2, <1>3, <2>1, <2>5
  <2> QED
    BY <2>6 DEF Moved
<1> QED
  BY <1>1, <1>2, <1>4

\* A repointing is executed.
LEMMA ExecuteWireKeepsInv ==
  ASSUME Inv, script = "executeTimelocked", local.todo # <<>>,
         NEW s, NEW f, Head(local.todo) = Wire(s, f), isExecutable(Wire(s, f)),
         Execute(Wire(s, f)), UNCHANGED <<now, fileVars>>, script' = script,
         step' = "clear",
         local' = [local EXCEPT !.todo = Tail(@), !.call = Wire(s, f), !.then = "each"],
         IF Overtakes(Wire(s, f)) THEN Mishap("overtaken") ELSE UNCHANGED mishap
  PROVE  Inv'
<1> PICK rest : rest = Tail(local.todo)
  OBVIOUS
<1>1. /\ Shape /\ World /\ RecordedFlow
      /\ script' = "executeTimelocked"
  BY DEF Inv
<1>2. /\ DOMAIN local' = Fields /\ local'.todo = rest /\ local'.call = Wire(s, f)
      /\ local'.then = "each" /\ local'.since = local.since
  BY <1>1 DEF Shape, Fields
<1>3. /\ WireSeq(rest)
      /\ \A t, g : Contains(rest, Wire(t, g)) => OnRecord(t, g)
      /\ \A t, g : OnRecord(t, g) /\ Announced(t, g) =>
           \/ Wire(t, g) = Wire(s, f) \/ Contains(rest, Wire(t, g))
           \/ PassedOver(Wire(t, g))
      /\ ~Contains(rest, Wire(s, f))
  BY RecordAtHand
<1>4. /\ s \in 1 .. Len(stacks) /\ f \in 1 .. Len(factories)
      /\ OnRecord(s, f) /\ StaysBehind(s, f)
      /\ stacks[s].vaultFactory \in Nat
  BY OlderOnesStayBehind
<1>5. /\ Shape' /\ World' /\ UNCHANGED <<factories, book, pending>>
      /\ Len(stacks') = Len(stacks)
      /\ \A t \in 1 .. Len(stacks) :
           /\ stacks'[t].vaultFactory = IF t = s THEN f ELSE stacks[t].vaultFactory
           /\ stacks'[t].fast = stacks[t].fast /\ stacks'[t].delay = stacks[t].delay
      /\ \A t, g : /\ Announced(t, g)' <=> Announced(t, g) /\ ~(t = s /\ g = f)
                   /\ OnRecord(t, g)' <=> OnRecord(t, g)
                   /\ Announced(t, g)' => queue'[Wire(t, g)] = queue[Wire(t, g)]
  BY <1>1, <1>2, <1>4, PoolRepointed
<1>6. ExecuteFlow'
  <2>1. ASSUME NEW t, NEW g, OnRecord(t, g)', Announced(t, g)'
        PROVE  Contains(rest, Wire(t, g)) \/ PassedOver(Wire(t, g))'
    <3>1. /\ Announced(t, g) /\ OnRecord(t, g) /\ ~(t = s /\ g = f)
          /\ queue'[Wire(t, g)] = queue[Wire(t, g)]
      BY <1>5, <2>1
    <3>2. t \in 1 .. Len(stacks)
      BY <1>1, <3>1 DEF World, WiresFit
    <3>3. stacks'[t].delay = stacks[t].delay
      BY <1>5, <3>2
    <3>4. Matures(Wire(t, g))' = Matures(Wire(t, g)) /\ now' = now
      BY <3>1, <3>3, WireIsOne DEF Matures, Delay
    <3>5. PassedOver(Wire(t, g)) => PassedOver(Wire(t, g))'
      BY <1>2, <2>1, <3>4 DEF PassedOver, Lapsed, Announced
    <3>6. Wire(t, g) # Wire(s, f)
      BY <3>1, WireIsOne
    <3> QED
      BY <1>3, <3>1, <3>5, <3>6
  <2>2. \A t, g : Wire(s, f) = Wire(t, g) =>
          /\ t \in 1 .. Len(stacks') /\ stacks'[t].vaultFactory = g
          /\ ~Contains(rest, Wire(t, g)) /\ ~Announced(t, g)'
    <3>1. \A t, g : Wire(s, f) = Wire(t, g) => t = s /\ g = f
      BY WireIsOne
    <3>2. stacks'[s].vaultFactory = f /\ ~Announced(s, f)' /\ s \in 1 .. Len(stacks')
      BY <1>4, <1>5
    <3> QED
      BY <1>3, <3>1, <3>2
  <2>3. \A t, g : Contains(rest, Wire(t, g)) => OnRecord(t, g)'
    BY <1>3, <1>5
  <2>4. /\ \A t, g : Contains(local'.todo, Wire(t, g)) => OnRecord(t, g)'
        /\ \A t, g : OnRecord(t, g)' /\ Announced(t, g)' =>
             Contains(local'.todo, Wire(t, g)) \/ PassedOver(Wire(t, g))'
        /\ \A t, g : local'.call = Wire(t, g) =>
             /\ t \in 1 .. Len(stacks') /\ stacks'[t].vaultFactory = g
             /\ ~Contains(local'.todo, Wire(t, g)) /\ ~Announced(t, g)'
    BY <1>2, <2>1, <2>2, <2>3
  <2>5. local'.since \in Nat /\ local'.since <= now'
    BY <1>2 DEF Inv, ExecuteFlow
  <2> QED
    BY <1>2, <1>3, <2>4, <2>5 DEF ExecuteFlow, OnRecord, Announced, PassedOver
<1>0. MishapKept /\ (mishap' = "none" => ~Overtakes(Wire(s, f)) /\ mishap = "none")
  BY DEF MishapKept, Mishap, Grave
<1>7. RecordedFlow'
  <2> PICK k : k = book.stack
    OBVIOUS
  <2> PICK b : b = book.factory
    OBVIOUS
  <2>1. mishap = "none" =>
          /\ \A g : OnRecord(k, g) => g <= b
          /\ OnRecord(k, b) => Announced(k, b) \/ stacks[k].vaultFactory = b
          /\ b # 0 => stacks[k].vaultFactory = b \/ OnRecord(k, b)
    BY <1>1 DEF RecordedFlow, RecordedFactoryIsWired, OnRecord, Wire
  <2>2. book'.stack = k /\ book'.factory = b
    BY <1>5
  <2>3. /\ k \in 1 .. Len(stacks) \/ (k = 0 /\ b = 0)
        /\ b \in Nat /\ f \in Nat
        /\ \A g : ~OnRecord(0, g)
    BY <1>1, <1>4, SeqDomain DEF World, BookFits, WiresFit, Shape
  <2>4. mishap' = "none" /\ k = s /\ stacks[k].vaultFactory = b => f = b
    <3>1. mishap' = "none" => f >= stacks[s].vaultFactory
      BY <1>0, <1>4, <2>3, WireIsOne DEF Overtakes
    <3> QED
      BY <1>0, <1>4, <2>1, <2>3, <3>1
  <2>5. mishap' = "none" =>
          /\ \A g : OnRecord(k, g)' => g <= b
          /\ OnRecord(k, b)' => Announced(k, b)' \/ stacks'[k].vaultFactory = b
          /\ b # 0 => stacks'[k].vaultFactory = b \/ OnRecord(k, b)'
    BY <1>0, <1>5, <2>1, <2>2, <2>3, <2>4
  <2> QED
    BY <2>2, <2>5 DEF RecordedFlow, RecordedFactoryIsWired, OnRecord, Announced, Wire
<1>8. NoneFast'
  BY <1>0, <1>5, DeployingIsSlow DEF NoneFast, MishapKept
<1> QED
  BY <1>1, <1>5, <1>6, <1>7, <1>8, OnlyExecuting DEF Inv

\* A record is passed over, or another call than a repointing is executed.
LEMMA PassedOverKeepsInv ==
  ASSUME Inv, script = "executeTimelocked", local.todo # <<>>,
         Frame, NoFaster, UNCHANGED <<now, mishap>>, script' = script,
         DOMAIN local' = Fields, local'.todo = Tail(local.todo),
         local'.since = local.since,
         \A s, f : Head(local.todo) = Wire(s, f) => ~isExecutable(Wire(s, f)),
         \/ step' = "each"
         \/ /\ step' = "clear" /\ local'.then = "each"
            /\ \A s, f : local'.call # Wire(s, f)
  PROVE  Inv'
<1> PICK rest : rest = Tail(local.todo)
  OBVIOUS
<1>1. /\ Shape /\ World /\ script' = "executeTimelocked"
      /\ now \in Nat /\ local.since \in Nat /\ local.since <= now
  BY DEF Inv, ExecuteFlow, Shape
<1>2. /\ WireSeq(rest)
      /\ \A s, f : Contains(rest, Wire(s, f)) => OnRecord(s, f)
      /\ \A s, f : OnRecord(s, f) /\ Announced(s, f) =>
           \/ Wire(s, f) = Head(local.todo) \/ Contains(rest, Wire(s, f))
           \/ PassedOver(Wire(s, f))
  BY RecordAtHand
<1>3. ASSUME NEW s, NEW f, OnRecord(s, f)', Announced(s, f)'
      PROVE  Contains(rest, Wire(s, f)) \/ PassedOver(Wire(s, f))'
  <2>1. Announced(s, f) /\ OnRecord(s, f)
    BY <1>3 DEF Frame, WiresKept, RecordsKept
  <2>2. /\ s \in 1 .. Len(stacks) /\ queue[Wire(s, f)] \in Nat
        /\ stacks[s].delay \in Nat
    BY <1>1, <2>1 DEF World, WiresFit, Shape
  <2>3. /\ Lapsed(Wire(s, f)) => Lapsed(Wire(s, f))'
        /\ Matures(Wire(s, f))' = Matures(Wire(s, f))
        /\ Matures(Wire(s, f)) = queue[Wire(s, f)] + stacks[s].delay
    BY <1>1, <2>1, LapsedStays
  <2>4. PassedOver(Wire(s, f)) => PassedOver(Wire(s, f))'
    BY <2>3 DEF PassedOver
  <2>5. ~isExecutable(Wire(s, f)) => PassedOver(Wire(s, f))
    BY <1>1, <2>1, <2>2, <2>3 DEF isExecutable, PassedOver, Announced
  <2> QED
    BY <1>2, <2>1, <2>4, <2>5
<1>4. \A s, f : Contains(rest, Wire(s, f)) => OnRecord(s, f)'
  BY <1>2 DEF Frame, RecordsKept
<1>5. ExecuteFlow'
  <2>1. /\ \A s, f : Contains(local'.todo, Wire(s, f)) => OnRecord(s, f)'
        /\ \A s, f : OnRecord(s, f)' /\ Announced(s, f)' =>
             Contains(local'.todo, Wire(s, f)) \/ PassedOver(Wire(s, f))'
    BY <1>3, <1>4
  <2>2. WireSeq(local'.todo) /\ local'.since \in Nat /\ local'.since <= now'
    BY <1>1, <1>2
  <2> QED
    BY <2>1, <2>2 DEF ExecuteFlow, OnRecord, Announced, PassedOver
<1>6. MishapKept
  BY DEF MishapKept
<1>7. NoneFast'
  BY <1>1, <1>6, NoneFastIsKept DEF Inv
<1> QED
  BY <1>1, <1>5, <1>6, <1>7, OnlyExecuting, FrameKeepsInv

LEMMA ExecuteEachKeepsInv ==
  ASSUME Inv, ExecuteEach
  PROVE  Inv'
<1> PICK call : call = Head(local.todo)
  OBVIOUS
<1> PICK rest : rest = Tail(local.todo)
  OBVIOUS
<1>1. /\ local.todo # <<>> /\ script = "executeTimelocked" /\ now' = now
      /\ Shape /\ World /\ DOMAIN local = Fields
      /\ local.since \in Nat /\ local.since <= now
  BY DEF ExecuteEach, At, Inv, Shape, ExecuteFlow
<1>2. CASE /\ ~Queued(call) /\ pending' = clearPending(call)
           /\ NextRecord /\ Goto("each") /\ UNCHANGED <<chainVars, book>>
  <2>1. /\ DOMAIN local' = Fields /\ local'.todo = rest /\ local'.since = local.since
        /\ script' = script /\ step' = "each" /\ mishap' = mishap
    BY <1>1, <1>2 DEF NextRecord, Goto, Fields
  <2>2. /\ WireSeq(rest)
        /\ \A s, f : Contains(rest, Wire(s, f)) => OnRecord(s, f)
        /\ \A s, f : OnRecord(s, f) /\ Announced(s, f) =>
             Wire(s, f) = call \/ Contains(rest, Wire(s, f)) \/ PassedOver(Wire(s, f))
        /\ \A s, f : call = Wire(s, f) => ~Contains(rest, Wire(s, f))
    BY <1>1, RecordAtHand
  <2>3. \A s, f : call = Wire(s, f) => ~Announced(s, f)
    BY <1>2 DEF Announced
  <2>4. /\ Shape' /\ World' /\ RecordedFlow' /\ NoneFast'
        /\ UNCHANGED <<now, stacks, queue>>
        /\ \A s, f : OnRecord(s, f)' <=> OnRecord(s, f) /\ Wire(s, f) # call
    BY <1>1, <1>2, <2>1, <2>3, RecordDropped
  <2>5. \A s, f : /\ PassedOver(Wire(s, f))' <=> PassedOver(Wire(s, f))
                  /\ Announced(s, f)' <=> Announced(s, f)
    BY <2>1, <2>4 DEF PassedOver, Matures, Delay, Lapsed, Queued, Announced
  <2>6. ExecuteFlow'
    <3>1. \A s, f : Contains(rest, Wire(s, f)) => OnRecord(s, f)'
      BY <2>2, <2>4
    <3>2. \A s, f : OnRecord(s, f)' /\ Announced(s, f)' =>
                      Contains(rest, Wire(s, f)) \/ PassedOver(Wire(s, f))'
      BY <2>2, <2>4, <2>5
    <3>3. local'.since \in Nat /\ local'.since <= now'
      BY <1>1, <2>1
    <3> QED
      BY <2>1, <2>2, <3>1, <3>2, <3>3 DEF ExecuteFlow, OnRecord, Announced, PassedOver
  <2> QED
    BY <1>1, <2>1, <2>4, <2>6, OnlyExecuting DEF Inv
<1>3. CASE /\ ~isExecutable(call)
           /\ NextRecord /\ Goto("each") /\ UNCHANGED <<chainVars, fileVars>>
  <2>1. /\ DOMAIN local' = Fields /\ local'.todo = rest /\ local'.since = local.since
        /\ script' = script /\ step' = "each" /\ mishap' = mishap
    BY <1>1, <1>3 DEF NextRecord, Goto, Fields
  <2>2. Frame /\ NoFaster
    BY <1>1, <1>3, NothingChanged
  <2>3. \A s, f : call = Wire(s, f) => ~isExecutable(Wire(s, f))
    BY <1>3
  <2> QED
    BY <1>1, <2>1, <2>2, <2>3, PassedOverKeepsInv
<1>4. CASE /\ isExecutable(call)
           /\ Goto("send") /\ UNCHANGED <<chainVars, fileVars, local>>
  <2>1. /\ script' = "executeTimelocked" /\ step' = "send" /\ mishap' = mishap
        /\ UNCHANGED <<stacks, queue, pending, local>>
    BY <1>1, <1>4 DEF Goto, chainVars, fileVars
  <2>2. Frame /\ NoFaster
    BY <1>1, <1>4, NothingChanged
  <2>3. MishapKept
    BY <2>1 DEF MishapKept
  <2>4. NoneFast'
    BY <1>1, <2>1, <2>2, <2>3, NoneFastIsKept DEF Inv
  <2>5. Queued(call)
    BY <1>4 DEF isExecutable
  <2>6. ExecuteFlow'
    BY <1>1, <2>1, <2>5
       DEF Inv, ExecuteFlow, OnRecord, Announced, PassedOver, Lapsed, Matures, Delay,
           Queued
  <2>7. DOMAIN local' = Fields
    BY <1>1, <2>1
  <2> QED
    BY <1>1, <2>1, <2>2, <2>3, <2>4, <2>6, <2>7, OnlyExecuting, FrameKeepsInv
<1> QED
  BY <1>2, <1>3, <1>4 DEF ExecuteEach

\* The pool takes a repointing only once it has matured.
LEMMA SentWhenMature ==
  ASSUME World, NEW s, NEW f, Queued(Wire(s, f)), Accepted(Wire(s, f))
  PROVE  isExecutable(Wire(s, f))
<1>1. stacks[s].vaultFactory # 0
  BY DEF World, WiresFit, Announced
<1>2. MustBeAnnounced(Wire(s, f))
  BY <1>1, WireIsOne DEF MustBeAnnounced
<1> QED
  BY <1>2 DEF Accepted

LEMMA ExecuteSendKeepsInv ==
  ASSUME Inv, ExecuteSend
  PROVE  Inv'
<1> PICK call : call = Head(local.todo)
  OBVIOUS
<1>1. /\ script = "executeTimelocked" /\ local.todo # <<>> /\ Queued(call)
      /\ now' = now /\ Shape /\ World /\ DOMAIN local = Fields
  BY DEF ExecuteSend, At, Inv, ExecuteFlow, Shape
<1>2. Recordable(call)
  BY <1>1, RecordAtHand
<1>3. CASE /\ Accepted(call) /\ Execute(call)
           /\ local' = [local EXCEPT !.todo = Tail(@), !.call = call, !.then = "each"]
           /\ step' = "clear" /\ UNCHANGED <<script, runs, fileVars>>
           /\ IF Overtakes(call) THEN Mishap("overtaken") ELSE UNCHANGED mishap
  <2>1. CASE call.kind \in OtherKinds
    <3>1. /\ DOMAIN local' = Fields /\ local'.todo = Tail(local.todo)
          /\ local'.call = call /\ local'.then = "each" /\ local'.since = local.since
      BY <1>1, <1>3 DEF Fields
    <3>2. Frame /\ NoFaster
      BY <1>1, <1>3, <2>1, ExecuteOther
    <3>3. \A s, f : call # Wire(s, f)
      BY <2>1, WireIsOne DEF OtherKinds
    <3>4. mishap' = mishap
      BY <1>3, <2>1 DEF Overtakes, OtherKinds
    <3> QED
      BY <1>1, <1>3, <3>1, <3>2, <3>3, <3>4, PassedOverKeepsInv
  <2>2. ASSUME NEW s \in Nat, NEW f \in Nat, call = Wire(s, f)
        PROVE  Inv'
    <3>1. isExecutable(Wire(s, f))
      BY <1>1, <1>3, <2>2, SentWhenMature
    <3> QED
      BY <1>1, <1>3, <2>2, <3>1, ExecuteWireKeepsInv
  <2> QED
    BY <1>2, <2>1, <2>2 DEF Recordable
<1>4. CASE Throws
  <2>1. Fails /\ UNCHANGED <<chainVars, fileVars>>
    BY <1>4 DEF Throws
  <2>2. Frame /\ NoFaster
    BY <1>1, <2>1, NothingChanged
  <2>3. Aside /\ MishapKept
    BY <1>1, <2>1, FailsAside
  <2>4. NoneFast'
    BY <1>1, <2>2, <2>3, NoneFastIsKept DEF Inv
  <2> QED
    BY <1>1, <2>2, <2>3, <2>4, AsideKeepsInv
<1> QED
  BY <1>3, <1>4 DEF ExecuteSend

-----------------------------------------------------------------------------
(***************************************************************************)
(* The invariant holds throughout.                                         *)
(***************************************************************************)
\* What the scripts that cannot be at such a step are not at.
LEMMA StepsOfTheScripts ==
  ASSUME Inv
  PROVE  /\ script \in {"proveKeeper", "redeployFactory"} => step \notin {"end", "complete"}
         /\ script \in {"proveKeeper", "acceptRoles"} => step \notin {"clear", "record"}
<1>1. CASE script = "proveKeeper"
  <2>1. KeeperPlan(local.plan) /\ (step = "shorten" \/ step = NextOf(local.plan))
    BY <1>1 DEF Inv, KeeperFlow
  <2>2. NextOf(local.plan) \in LoanSteps \cup {"restore"}
    BY <2>1, KeeperPlanTail
  <2>3. step \in LoanSteps \cup {"restore", "shorten"}
    BY <2>1, <2>2
  <2> QED
    BY <1>1, <2>3 DEF LoanSteps
<1>2. CASE script = "redeployFactory"
  BY <1>2 DEF Inv, RedeployFlow
<1>3. CASE script = "acceptRoles"
  BY <1>3 DEF Inv, AcceptFlow
<1> QED
  BY <1>1, <1>2, <1>3

LEMMA InvIsKept ==
  ASSUME Inv, [Next]_vars
  PROVE  Inv'
<1>1. CASE Next
  <2>1. \/ Quiet \/ Tick \/ DeploySteps \/ RedeploySteps
        \/ ExecuteTimelocked \/ ExecuteEach \/ ExecuteSend \/ AcceptSteps
        \/ KeeperSteps \/ FilingSteps
    <3>1. Shape /\ CallInHand /\ LoanFlow
      BY DEF Inv
    <3> QED
      BY <1>1, <3>1, StepsOfTheScripts, StepsAreKnown
  <2>2. CASE FilingSteps
    <3>1. script \in {"deployStack", "redeployFactory", "executeTimelocked"}
      BY <2>2, StepsOfTheScripts DEF FilingSteps, Tracked, Clear, Record
    <3> QED
      BY <2>2, <3>1, DeployFilesKeepInv, RedeployFilesKeepInv, ExecuteFilesKeepInv
         DEF FilingSteps
  <2>3. CASE AcceptSteps
    BY <2>3, AcceptRolesKeepsInv, AcceptRoleKeepsInv DEF AcceptSteps
  <2> QED
    BY <2>1, <2>2, <2>3, QuietKeepsInv, TickKeepsInv, DeployStepsKeepInv,
       RedeployStepsKeepInv, ExecuteTimelockedKeepsInv, ExecuteEachKeepsInv,
       ExecuteSendKeepsInv, KeeperStepsKeepInv
<1>2. CASE UNCHANGED vars
  <2>1. /\ UNCHANGED <<now, stacks, factories, control, queue, book, pending>>
        /\ UNCHANGED <<script, step, local, mishap>>
    BY <1>2 DEF vars, chainVars, fileVars, scriptVars
  <2>2. /\ Shape' /\ CallInHand' /\ LoanFlow'
    BY <2>1 DEF Inv, Shape, CallInHand, LoanFlow
  <2>3. \A s, f : /\ Announced(s, f)' <=> Announced(s, f)
                  /\ OnRecord(s, f)' <=> OnRecord(s, f)
                  /\ Lapsed(Wire(s, f))' <=> Lapsed(Wire(s, f))
    BY <2>1 DEF Announced, OnRecord, Lapsed, Matures, Delay, Queued
  <2>4. World'
    <3>1. PoolsFit' /\ BookFits'
      BY <2>1 DEF Inv, World, PoolsFit, BookFits, FactoryFitsStack
    <3>2. WiresFit' /\ OlderOnesBeaten'
      BY <2>1, <2>3 DEF Inv, World, WiresFit, OlderOnesBeaten, Beaten
    <3> QED
      BY <3>1, <3>2 DEF World
  <2>5. DeployFlow' /\ RedeployFlow'
    BY <2>1 DEF Inv, DeployFlow, RedeployFlow, FactoryBuilt, Announced, OnRecord, Queued
  <2>6. ExecuteFlow'
    BY <2>1 DEF Inv, ExecuteFlow, Announced, OnRecord, PassedOver, Lapsed, Matures,
                Delay, Queued
  <2>7. AcceptFlow' /\ KeeperFlow'
    BY <2>1 DEF Inv, AcceptFlow, KeeperFlow, HeldBy, Nominated, Recorded
  <2>8. RecordedFlow' /\ NoneFast'
    BY <2>1 DEF Inv, RecordedFlow, RecordedFactoryIsWired, NoneFast, Announced,
                OnRecord, Queued
  <2> QED
    BY <2>2, <2>4, <2>5, <2>6, <2>7, <2>8 DEF Inv
<1> QED
  BY <1>1, <1>2

\* The invariant holds in every state of every series of scripts.
THEOREM OperationsInvariant == Spec => []Inv
<1>1. Init => Inv
  BY InvHoldsInit
<1>2. Inv /\ [Next]_vars => Inv'
  BY InvIsKept
<1> QED
  BY <1>1, <1>2, PTL DEF Spec

\* deploy-robinhood-testnet.js and redeploy-factory-v21.js: the recorded
\* factory was built on the recorded registries and pool, whatever was deployed
\* or redeployed and wherever it was interrupted.
THEOREM RecordFits == Spec => []FactoryFitsStack
<1>1. Inv => FactoryFitsStack
  BY DEF Inv, World, BookFits
<1> QED
  BY <1>1, OperationsInvariant, PTL

\* safe-accept-roles.js: when it reports the handover complete the recorded
\* Safes hold all four roles and verify-handover.js would pass, even when a
\* Safe swallowed a failed call on the way.
THEOREM CompletionIsTrue == Spec => []CompleteMeansMoved
<1>1. Inv => CompleteMeansMoved
  <2> SUFFICES ASSUME Inv, At("acceptRoles", "complete")
               PROVE  VerifyHandover /\ \A i \in Roles : HeldBy(Recorded(i), book.pair)
    BY DEF CompleteMeansMoved
  <2>1. /\ Len(local.todo) = 4 /\ book.pair # 0
        /\ \A i \in Roles : i <= Len(local.todo) =>
             HeldBy(Recorded(i), book.pair) /\ Nominated(Recorded(i), Nobody)
    BY DEF Inv, AcceptFlow, At
  <2>2. \A i \in Roles : HeldBy(Recorded(i), book.pair) /\ Nominated(Recorded(i), Nobody)
    BY <2>1, FourRoles
  <2>3. VerifyHandover
    BY <2>1, <2>2, FourRoles DEF VerifyHandover, HeldBy, Key
  <2> QED
    BY <2>2, <2>3
<1> QED
  BY <1>1, OperationsInvariant, PTL

\* redeploy-factory-v21.js with lib/timelock.js: as long as no script was cut
\* short and no factory overtook a newer one, the recorded factory is the one the
\* pool takes vaults from or its announcement is on record.
THEOREM RecordIsWired == Spec => []RecordedFactoryIsWired
<1>1. Inv => RecordedFactoryIsWired
  BY DEF Inv, RecordedFlow, RecordedFactoryIsWired
<1> QED
  BY <1>1, OperationsInvariant, PTL

\* prove-keeper-bounty.js:94-185: whatever fails between the receipt of the
\* shortened grace and the call that restores it, no stack is left with the values
\* of the test; what leaves them is a kill or one of those two calls throwing.
THEOREM ConfigIsRestored == Spec => []ConfigRestored
<1>1. Inv => ConfigRestored
  BY SeqDomain DEF Inv, NoneFast, ConfigRestored, Shape
<1> QED
  BY <1>1, OperationsInvariant, PTL

-----------------------------------------------------------------------------
(***************************************************************************)
(* What moves a pool.                                                      *)
(***************************************************************************)
PoolsKept ==
  \A s \in 1 .. Len(stacks) : stacks'[s].vaultFactory = stacks[s].vaultFactory

LEMMA FrameKeepsPools ==
  ASSUME Frame
  PROVE  PoolsKept
BY DEF Frame, StacksKept, SameStack, PoolsKept

\* A redeployment announces its repointing: the contract would not take it yet.
LEMMA RepointingWaits ==
  ASSUME Inv, At("redeployFactory", "rewire")
  PROVE  ~Accepted(Wire(local.stack, local.factory))
<1> PICK k : k = local.stack
  OBVIOUS
<1> PICK f : f = local.factory
  OBVIOUS
<1>1. /\ Shape /\ World /\ k = book.stack /\ k # 0 /\ FactoryBuilt
      /\ \A g : Announced(k, g) \/ OnRecord(k, g) => g < f
  BY DEF Inv, RedeployFlow, At
<1>2. stacks[k].vaultFactory # 0 /\ f \in Nat
  BY <1>1, SeqDomain DEF World, BookFits, Shape, FactoryBuilt
<1>3. ~Announced(k, f)
  BY <1>1, <1>2
<1>4. MustBeAnnounced(Wire(k, f))
  BY <1>2, WireIsOne DEF MustBeAnnounced
<1> QED
  BY <1>3, <1>4 DEF Accepted, isExecutable, Announced

LEMMA DeployKeepsPools ==
  ASSUME Inv, DeploySteps, ~WireFirst
  PROVE  PoolsKept
<1> PICK k : k = local.stack
  OBVIOUS
<1>1. Shape
  BY DEF Inv
<1>2. CASE DeployStack \/ DeployFactory \/ PersistStack
  <2>1. UNCHANGED stacks
    BY <1>2 DEF DeployStack, DeployFactory, PersistStack, Begins, DeployFactoryOn, chainVars
  <2> QED
    BY <2>1 DEF PoolsKept
<1>3. CASE DeployContracts
  <2>1. PICK delay \in Delays : stacks' = Append(stacks, NewStack(delay))
    BY <1>3 DEF DeployContracts
  <2>2. \A s \in 1 .. Len(stacks) : stacks'[s] = stacks[s]
    BY <1>1, <2>1, SeqAppend DEF Shape
  <2> QED
    BY <2>2 DEF PoolsKept
<1>4. CASE GrantDemoWallets \/ SetSettlement
  <2>1. PICK call, then : /\ call.kind \in OtherKinds
                          /\ sendOrQueue(call, then, then) /\ UNCHANGED <<now, fileVars>>
    BY <1>4 DEF GrantDemoWallets, SetSettlement, Call, OtherKinds
  <2>2. Frame
    BY <1>1, <2>1, SendingIsKept
  <2> QED
    BY <2>2, FrameKeepsPools
<1>5. CASE ListAssets
  <2> DEFINE r == [stacks[k] EXCEPT
                     !.cap = LowCap, !.listed = TRUE, !.known = TRUE,
                     !.grace = StockGrace, !.approved = HistorySuffices(k)]
  <2>1. stacks' = [stacks EXCEPT ![k] = r]
    BY <1>5 DEF ListAssets
  <2>2. k \in 1 .. Len(stacks) => SameStack(r, stacks[k])
    BY <1>1 DEF Shape, SameStack, StackFields
  <2> HIDE DEF r
  <2>3. StacksKept
    BY <1>1, <2>1, <2>2, StackChanged
  <2> QED
    BY <2>3 DEF StacksKept, SameStack, PoolsKept
<1> QED
  BY <1>2, <1>3, <1>4, <1>5 DEF DeploySteps

LEMMA OthersKeepPools ==
  ASSUME Inv,
         \/ RedeploySteps \/ ExecuteTimelocked \/ ExecuteEach \/ AcceptSteps
         \/ KeeperSteps \/ FilingSteps
  PROVE  PoolsKept
<1>1. /\ Shape /\ World
      /\ UNCHANGED stacks => PoolsKept
  BY DEF Inv, PoolsKept
<1>2. CASE RedeploySteps
  <2>1. ~Rewire => UNCHANGED stacks
    BY <1>2 DEF RedeploySteps, RedeployFactory, RedeployContracts, PersistRedeploy,
                Begins, DeployFactoryOn, chainVars
  <2>2. Rewire => UNCHANGED stacks
    <3> PICK call : call = Wire(local.stack, local.factory)
      OBVIOUS
    <3>1. Rewire => ~Accepted(call)
      BY RepointingWaits DEF Rewire
    <3>2. Rewire => queueAction(call) \/ Accepted(call) \/ UNCHANGED chainVars
      BY DEF Rewire, Wire
    <3> QED
      BY <3>1, <3>2 DEF queueAction, chainVars
  <2> QED
    BY <1>1, <2>1, <2>2
<1>3. CASE ExecuteTimelocked \/ ExecuteEach \/ AcceptSteps \/ FilingSteps
  <2>1. UNCHANGED stacks
    BY <1>3 DEF ExecuteTimelocked, ExecuteEach, AcceptSteps, FilingSteps, AcceptRoles, AcceptRole,
                Begins, SetControl, Clear, Record, chainVars
  <2> QED
    BY <1>1, <2>1
<1>4. CASE KeeperSteps
  <2>1. CASE ShortenGrace \/ RestoreGrace
    <3>1. script = "proveKeeper" /\ UNCHANGED <<now, fileVars>>
      BY <2>1, AtProving DEF ShortenGrace, RestoreGrace
    <3>2. book.stack # 0
      BY <3>1 DEF Inv, KeeperFlow
    <3>3. (\E fast : SetGrace(fast)) \/ UNCHANGED stacks
      BY <2>1 DEF ShortenGrace, RestoreGrace, chainVars
    <3>4. Frame \/ UNCHANGED stacks
      BY <1>1, <3>1, <3>2, <3>3, GraceSet
    <3> QED
      BY <1>1, <3>4, FrameKeepsPools
  <2>2. CASE ProveKeeper
    BY <1>1, <2>2 DEF ProveKeeper, Begins, chainVars
  <2>3. CASE script = "proveKeeper" /\ LoanCall
    BY <1>1, <2>3, LoanCalls
  <2>4. CASE CallThrows
    BY <1>1, <2>4 DEF CallThrows, chainVars
  <2> QED
    BY <1>4, <2>1, <2>2, <2>3, <2>4 DEF KeeperSteps
<1> QED
  BY <1>2, <1>3, <1>4

LEMMA PoolSetTo ==
  ASSUME Shape, NEW k \in 1 .. Len(stacks), NEW f, Execute(Wire(k, f)),
         NEW s \in 1 .. Len(stacks)
  PROVE  stacks'[s].vaultFactory = IF s = k THEN f ELSE stacks[s].vaultFactory
<1> PICK call : call = Wire(k, f)
  OBVIOUS
<1>1. call.kind = "wire" /\ call.stack = k /\ call.arg = f
  BY WireIsOne
<1> PICK m : m = IF Queued(call) THEN Moved(call) ELSE stacks[k].moved
  OBVIOUS
<1>2. stacks' = [stacks EXCEPT ![k] = [stacks[k] EXCEPT !.vaultFactory = f, !.moved = m]]
  BY <1>1 DEF Execute, AfterCall
<1>3. DOMAIN stacks[k] = StackFields /\ s \in DOMAIN stacks
  BY SeqDomain DEF Shape
<1> QED
  BY <1>2, <1>3 DEF StackFields

\* A pool moves back only to a factory that was beaten.
LEMMA PoolMovesBackOnlyWhenBeaten ==
  ASSUME Inv, [Next]_vars, NEW s \in DOMAIN stacks,
         stacks'[s].vaultFactory < stacks[s].vaultFactory
  PROVE  stacks[s].moved.announced - queue[Call(s, "wire", stacks'[s].vaultFactory)]
           < stacks[s].moved.took
<1>1. /\ Shape /\ World /\ CallInHand /\ LoanFlow
      /\ s \in 1 .. Len(stacks)
  BY SeqDomain DEF Inv, Shape
<1>2. stacks[s].vaultFactory \in Nat /\ Len(factories) \in Nat
  BY <1>1, SeqDomain DEF Shape
<1>3. ~PoolsKept
  BY <1>1, <1>2 DEF PoolsKept
<1>4. ~UNCHANGED vars
  BY <1>3 DEF vars, chainVars, PoolsKept
<1>5. ~Tick /\ ~Quiet
  <2>1. Tick \/ Quiet => UNCHANGED stacks \/ Frame
    BY DEF Tick, Quiet, chainVars
  <2> QED
    BY <1>3, <2>1, FrameKeepsPools DEF PoolsKept
<1>6. ~DeploySteps
  <2>1. ~WireFirst
    <3> SUFFICES ASSUME WireFirst PROVE FALSE
      OBVIOUS
    <3> PICK k : k = local.stack
      OBVIOUS
    <3> PICK f : f = local.factory
      OBVIOUS
    <3>1. /\ Execute(Wire(k, f)) /\ stacks[k].vaultFactory = 0
          /\ k \in 1 .. Len(stacks) /\ f \in Nat
      BY <1>1, <1>2 DEF WireFirst, At, Wire, Inv, DeployFlow, FactoryBuilt
    <3>2. stacks'[s].vaultFactory = IF s = k THEN f ELSE stacks[s].vaultFactory
      BY <1>1, <3>1, PoolSetTo
    <3> QED
      BY <1>2, <3>1, <3>2
  <2> QED
    BY <1>3, <2>1, DeployKeepsPools
<1>7. ~(\/ RedeploySteps \/ ExecuteTimelocked \/ ExecuteEach \/ AcceptSteps
        \/ KeeperSteps \/ FilingSteps)
  BY <1>3, OthersKeepPools
<1>8. ExecuteSend
  BY <1>1, <1>4, <1>5, <1>6, <1>7, StepsOfTheScripts, StepsAreKnown
<1> PICK call : call = Head(local.todo)
  OBVIOUS
<1>9. /\ script = "executeTimelocked" /\ local.todo # <<>> /\ Queued(call)
      /\ UNCHANGED now
      /\ Accepted(call) /\ Execute(call) /\ UNCHANGED fileVars
  <2>1. ~Throws
    BY <1>3 DEF Throws, chainVars, PoolsKept
  <2> QED
    BY <1>8, <2>1 DEF ExecuteSend, At, Inv, ExecuteFlow
<1>10. call.kind \notin OtherKinds
  BY <1>1, <1>3, <1>9, ExecuteOther, FrameKeepsPools
<1>11. PICK k \in Nat, f \in Nat : call = Wire(k, f)
  BY <1>9, <1>10, RecordAtHand DEF Recordable
<1>12. isExecutable(Wire(k, f))
  BY <1>1, <1>9, <1>11, SentWhenMature
<1>13. /\ k \in 1 .. Len(stacks) /\ OnRecord(k, f) /\ Announced(k, f)
  BY <1>9, <1>11, <1>12, OlderOnesStayBehind
<1>14. stacks'[s].vaultFactory = IF s = k THEN f ELSE stacks[s].vaultFactory
  BY <1>1, <1>9, <1>11, <1>13, PoolSetTo
<1>15. s = k /\ f = stacks'[s].vaultFactory /\ f < stacks[s].vaultFactory
  BY <1>2, <1>14
<1>16. Beaten(Wire(s, f), stacks[s].moved) /\ ~Lapsed(Wire(s, f))
  BY <1>1, <1>12, <1>13, <1>15 DEF World, OlderOnesBeaten, isExecutable
<1> QED
  BY <1>15, <1>16 DEF Beaten, Wire

\* redeploy-factory-v21.js:181 and execute-timelocked.js: however announcements
\* lapse, wait, are executed or interrupted, a pool is moved back only to a factory
\* announced so shortly before the one it had that the run which executed the
\* latter had been going for longer.
THEOREM PoolsMoveForward == Spec => PoolMovesForward
<1>1. Inv /\ [Next]_vars =>
        [\A s \in DOMAIN stacks :
           LET older == stacks'[s].vaultFactory
           IN  older < stacks[s].vaultFactory =>
                 stacks[s].moved.announced - queue[Call(s, "wire", older)]
                   < stacks[s].moved.took]_vars
  BY PoolMovesBackOnlyWhenBeaten
<1> QED
  BY <1>1, OperationsInvariant, PTL DEF Spec, PoolMovesForward

-----------------------------------------------------------------------------
(***************************************************************************)
(* The recorded Safes.                                                     *)
(***************************************************************************)
LEMMA BookWriters ==
  ASSUME Next
  PROVE  UNCHANGED book \/ PersistStack \/ PersistRedeploy \/ PersistSafes
<1>1. CASE AdminStep
  BY <1>1 DEF AdminStep, SetTierConfig, SendTierConfig, ListAsset, SendListing,
     ApproveListed, ApproveTestnetPools, ApproveAll, ExecuteTimelocked, ExecuteEach,
     ExecuteSend, ExecutedAll, RemoveAsset, Clear, Record, Finish, Begins, Throws,
     fileVars
<1>2. CASE DeployStep
  BY <1>2 DEF DeployStep, DeployStack, DeployContracts, GrantDemoWallets, SetSettlement,
     ListAssets, DeployFactory, WireFirst, RedeployFactory, RedeployContracts, Rewire,
     Begins, fileVars
<1>3. CASE HandoverStep
  BY <1>3 DEF HandoverStep, CreateSafes, CreatePair, TransferControl, NominateSafe,
     AcceptRoles, AcceptRole, HandoverEnds, VerifyTwoStep, NominateProbe, CancelProbe,
     Begins, Throws, fileVars
<1>4. CASE LoanStep
  BY <1>4 DEF LoanStep, ProveKeeper, ShortenGrace, RestoreGrace, ProveDraw, ResumeDraw,
     Lifecycle, Originate, PayDeposit, Swap, WaitOut, SettleLoan, SettleStuck, SweepOne,
     SweepTry, SweptAll, CallThrows, LoanStepAt, Begins, fileVars
<1>5. CASE Interrupt \/ Tick
  BY <1>5 DEF Interrupt, Tick, fileVars
<1> QED
  BY <1>1, <1>2, <1>3, <1>4, <1>5 DEF Next

\* deploy-robinhood-testnet.js:350: only create-safes.js changes the recorded
\* Safes, whatever is deployed, redeployed or interrupted in between.
THEOREM SafesStay == Spec => SafesKept
<1>1. ASSUME Inv, [Next]_vars
      PROVE  [book.pair # 0 /\ book'.pair # book.pair => script = "createSafes"]_vars
  <2>1. ASSUME PersistStack \/ PersistRedeploy PROVE book'.pair = book.pair
    <3>1. DOMAIN book = {"stack", "factory", "pair"}
      BY <1>1 DEF Inv, Shape
    <3>2. book' = Persist \/ book' = PersistFactory
      BY <2>1 DEF PersistStack, PersistRedeploy
    <3> QED
      BY <3>1, <3>2 DEF Persist, PersistFactory
  <2>2. PersistSafes => script = "createSafes"
    BY DEF PersistSafes, At
  <2> QED
    BY <1>1, <2>1, <2>2, BookWriters
<1> QED
  BY <1>1, OperationsInvariant, PTL DEF Spec, SafesKept

=============================================================================
