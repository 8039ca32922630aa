--------------------------- MODULE OutageLogProof ---------------------------
(***************************************************************************)
(* Proofs about OutageLog: the order of the log, which the search and the  *)
(* walk of settlementWindow rely on; what that search and walk compute on  *)
(* a log in order; that no heartbeat shortens a window; and the rule the   *)
(* two setters share.  For every configuration an operator may choose and  *)
(* every number of outages.                                                *)
(***************************************************************************)
EXTENDS OutageLog, ArithmeticProof

IInv == TypeOK /\ LogOrdered /\ RecoveryCoversTwap

LEMMA InitIInv == Init => IInv
<1> SUFFICES ASSUME Init PROVE IInv
  OBVIOUS
<1>1. TypeOK
  BY OutageAssumption DEF Init, TypeOK, OutageConfig
<1>2. LogOrdered
  BY DEF Init, LogOrdered
<1>3. RecoveryCoversTwap
  BY OutageAssumption DEF Init, RecoveryCoversTwap
<1> QED
  BY <1>1, <1>2, <1>3 DEF IInv

\* What recording a silence adds at the end keeps the log in order.
LEMMA RecordKeepsOrder ==
  ASSUME TypeOK, LogOrdered,
         NEW log, log = RecordSilence(outages, lastHeartbeat, now,
                                      outageGapThreshold)
  PROVE  /\ log \in Seq(Outage)
         /\ \A i \in 1 .. Len(log) :
              /\ log[i].start < log[i].end
              /\ log[i].end <= now
              /\ i > 1 => log[i - 1].end <= log[i].start
<1>1. CASE log = outages
  <2>1. outages \in Seq(Outage)
    BY DEF TypeOK
  <2>2. ASSUME NEW i \in 1 .. Len(outages)
        PROVE  /\ outages[i].start < outages[i].end
               /\ outages[i].end <= now
               /\ i > 1 => outages[i - 1].end <= outages[i].start
    <3>1. outages[i] \in Outage
      BY <2>1
    <3>2. outages[i].end \in Nat
      BY <3>1 DEF Outage
    <3> QED
      BY <3>2 DEF LogOrdered, TypeOK
  <2> QED
    BY <1>1, <2>1, <2>2
<1>2. CASE log # outages
  <2> DEFINE o == [start |-> lastHeartbeat, end |-> now]
  <2>1. log = Append(outages, o) /\ now > lastHeartbeat
    BY <1>2 DEF RecordSilence, TypeOK
  <2>2. o \in Outage /\ o.start = lastHeartbeat /\ o.end = now
    BY DEF TypeOK, Outage
  <2> HIDE DEF o
  <2>3. log \in Seq(Outage) /\ Len(log) = Len(outages) + 1
    BY <2>1, <2>2 DEF TypeOK
  <2>4. \A i \in 1 .. Len(outages) : log[i] = outages[i]
    BY <2>1, <2>2 DEF TypeOK
  <2>5. log[Len(log)] = o
    BY <2>1, <2>2, <2>3 DEF TypeOK
  <2>6. Len(outages) \in Nat
    BY DEF TypeOK
  <2>7. ASSUME NEW i \in 1 .. Len(log)
        PROVE  /\ log[i].start < log[i].end
               /\ log[i].end <= now
               /\ i > 1 => log[i - 1].end <= log[i].start
    <3>1. CASE i \in 1 .. Len(outages)
      <4>1. outages[i] \in Outage /\ log[i] = outages[i]
        BY <3>1, <2>4 DEF TypeOK
      <4>2. i > 1 => i - 1 \in 1 .. Len(outages)
        BY <3>1, <2>6
      <4>3. i > 1 => log[i - 1] = outages[i - 1]
        BY <4>2, <2>4
      <4> QED
        BY <3>1, <4>1, <4>3, SMTT(30) DEF LogOrdered, TypeOK, Outage
    <3>2. CASE i = Len(log)
      <4>1. log[i].start = lastHeartbeat /\ log[i].end = now
        BY <3>2, <2>2, <2>5
      <4>2. i > 1 => i - 1 \in 1 .. Len(outages) /\ i - 1 = Len(outages)
        BY <3>2, <2>3, <2>6
      <4>3. i > 1 => log[i - 1] = outages[i - 1]
        BY <4>2, <2>4
      <4>4. i > 1 => outages[i - 1].end <= lastHeartbeat
        BY <4>2 DEF LogOrdered
      <4> QED
        BY <4>1, <4>3, <4>4, <2>1 DEF TypeOK
    <3> QED
      BY <2>3, <2>6, <3>1, <3>2
  <2> QED
    BY <2>3, <2>7
<1> QED
  BY <1>1, <1>2

LEMMA StepIInv == IInv /\ [Next]_vars => IInv'
<1> SUFFICES ASSUME IInv, [Next]_vars PROVE IInv'
  OBVIOUS
<1> USE DEF IInv
<1>1. ASSUME heartbeat PROVE IInv'
  <2>1. outages' = RecordSilence(outages, lastHeartbeat, now,
                                 outageGapThreshold)
        /\ lastHeartbeat' = now /\ now' = now
    BY <1>1 DEF heartbeat
  <2>2. TypeOK'
    BY <1>1, <2>1, RecordKeepsOrder DEF heartbeat, TypeOK, configVars
  <2>3. LogOrdered'
    BY <2>1, RecordKeepsOrder DEF LogOrdered, TypeOK
  <2>4. RecoveryCoversTwap'
    BY <1>1 DEF heartbeat, configVars, RecoveryCoversTwap
  <2> QED
    BY <2>2, <2>3, <2>4
<1>2. ASSUME NEW gap \in Settings, NEW recovery \in Settings,
             NEW extension \in Settings,
             setOutageConfig(gap, recovery, extension)
      PROVE  IInv'
  <2>1. gap \in Nat /\ recovery \in Nat /\ extension \in Nat
    BY OutageAssumption
  <2>2. TypeOK' /\ LogOrdered'
    BY <1>2, <2>1 DEF setOutageConfig, TypeOK, LogOrdered, logVars
  <2>3. RecoveryCoversTwap'
    BY <1>2 DEF setOutageConfig, RecoveryCoversTwap, TypeOK
  <2> QED
    BY <2>2, <2>3
<1>3. ASSUME NEW window \in Settings, setSettlementConfig(window) PROVE IInv'
  <2>1. window \in Nat
    BY OutageAssumption
  <2> QED
    BY <1>3, <2>1 DEF setSettlementConfig, TypeOK, LogOrdered,
       RecoveryCoversTwap, logVars
<1>4. ASSUME Tick PROVE IInv'
  BY <1>4 DEF Tick, TypeOK, LogOrdered, RecoveryCoversTwap, logVars, configVars
<1>5. ASSUME UNCHANGED vars PROVE IInv'
  BY <1>5 DEF vars, TypeOK, LogOrdered, RecoveryCoversTwap, logVars, configVars
<1> QED
  BY <1>1, <1>2, <1>3, <1>4, <1>5 DEF Next


-----------------------------------------------------------------------------
(***************************************************************************)
(* A log in order, at any time no earlier than its last end.               *)
(***************************************************************************)
Sound(log, t) ==
  /\ log \in Seq(Outage) /\ t \in Nat
  /\ \A i \in 1 .. Len(log) :
       /\ log[i].start < log[i].end
       /\ log[i].end <= t
       /\ i > 1 => log[i - 1].end <= log[i].start

LEMMA LogIsSound == IInv => Sound(outages, now)
<1> SUFFICES ASSUME IInv PROVE Sound(outages, now)
  OBVIOUS
<1>1. outages \in Seq(Outage) /\ now \in Nat /\ lastHeartbeat \in Nat
  BY DEF IInv, TypeOK
<1>2. ASSUME NEW i \in 1 .. Len(outages)
      PROVE  /\ outages[i].start < outages[i].end
             /\ outages[i].end <= now
             /\ i > 1 => outages[i - 1].end <= outages[i].start
  <2>1. outages[i] \in Outage
    BY <1>1
  <2>2. outages[i].end \in Nat
    BY <2>1 DEF Outage
  <2> QED
    BY <1>1, <2>2 DEF IInv, LogOrdered
<1> QED
  BY <1>1, <1>2 DEF Sound

LEMMA Spans ==
  ASSUME NEW log, NEW t, Sound(log, t)
  PROVE  /\ Len(log) \in Nat
         /\ \A i \in 1 .. Len(log) : /\ log[i].start \in Nat /\ log[i].end \in Nat
                                     /\ log[i].start < log[i].end /\ log[i].end <= t
<1>1. Len(log) \in Nat /\ \A i \in 1 .. Len(log) : log[i] \in Outage
  BY DEF Sound
<1>2. \A i \in 1 .. Len(log) : log[i].start \in Nat /\ log[i].end \in Nat
  BY <1>1 DEF Outage
<1> QED
  BY <1>1, <1>2 DEF Sound

\* The order of neighbours is the order of all.
LEMMA InOrder ==
  ASSUME NEW log, NEW t, Sound(log, t)
  PROVE  \A i \in 1 .. Len(log), j \in 1 .. Len(log) :
           j < i => log[j].end <= log[i].start
<1> DEFINE n == Len(log)
           G == {m \in 0 .. n : \A i \in 1 .. m, j \in 1 .. m :
                                  j < i => log[j].end <= log[i].start}
<1>1. 0 \in G
  BY Spans
<1>2. ASSUME NEW m \in 0 .. n, m < n, m \in G PROVE m + 1 \in G
  <2>1. /\ m + 1 \in 0 .. n /\ m + 1 \in 1 .. n
        /\ \A j \in 1 .. m + 1 : j \in 1 .. n /\ (j \in 1 .. m \/ j = m + 1)
    BY <1>2, Spans
  <2>2. ASSUME NEW j \in 1 .. m PROVE log[j].end <= log[m + 1].start
    <3>1. m + 1 > 1 /\ (m + 1) - 1 = m /\ m \in 1 .. n /\ j \in 1 .. n
      BY <1>2, <2>1, Spans
    <3>2. log[m].end <= log[m + 1].start
      BY <2>1, <3>1 DEF Sound
    <3>3. j < m => log[j].end <= log[m].start
      BY <1>2
    <3>4. /\ log[m].start < log[m].end
          /\ log[m].start \in Nat /\ log[m].end \in Nat
          /\ log[j].end \in Nat /\ log[m + 1].start \in Nat
      BY <2>1, <3>1, Spans
    <3>5. j < m \/ j = m
      BY <1>2
    <3> QED
      BY <3>2, <3>3, <3>4, <3>5
  <2>3. \A i \in 1 .. m + 1, j \in 1 .. m + 1 : j < i => log[j].end <= log[i].start
    BY <1>2, <2>1, <2>2
  <2> QED
    BY <2>1, <2>3
<1>3. 0 .. n \subseteq G
  <2>1. n \in Nat
    BY Spans
  <2> HIDE DEF G, n
  <2> QED
    BY <1>1, <1>2, <2>1, IntervalInduction
<1>4. n \in G
  <2>1. n \in 0 .. n
    BY Spans
  <2> HIDE DEF G, n
  <2> QED
    BY <1>3, <2>1
<1> QED
  BY <1>4

\* The outages that start before a horizon are the first of the log.
LEMMA SplitExists ==
  ASSUME NEW log, NEW t, Sound(log, t), NEW horizon \in Nat
  PROVE  \E k \in 0 .. Len(log) :
           \A i \in 1 .. Len(log) : log[i].start < horizon <=> i <= k
<1> DEFINE n == Len(log)
           G == {m \in 0 .. n : \E k \in 0 .. m :
                   \A i \in 1 .. m : log[i].start < horizon <=> i <= k}
<1>1. 0 \in G
  BY Spans
<1>2. ASSUME NEW m \in 0 .. n, m < n, m \in G PROVE m + 1 \in G
  <2>1. PICK k \in 0 .. m : \A i \in 1 .. m : log[i].start < horizon <=> i <= k
    BY <1>2
  <2>2. /\ m + 1 \in 0 .. n /\ m + 1 \in 1 .. n /\ m \in Nat
        /\ \A i \in 1 .. m + 1 : i \in 1 .. m \/ i = m + 1
    BY <1>2, Spans
  <2>3. CASE log[m + 1].start < horizon
    <3>1. ASSUME NEW i \in 1 .. m PROVE log[i].start < horizon
      <4>1. i \in 1 .. n /\ i < m + 1
        BY <1>2, Spans
      <4>2. log[i].end <= log[m + 1].start
        BY <2>2, <4>1, InOrder
      <4>3. /\ log[i].start \in Nat /\ log[i].end \in Nat
            /\ log[i].start < log[i].end /\ log[m + 1].start \in Nat
        BY <2>2, <4>1, Spans
      <4> QED
        BY <2>3, <4>2, <4>3
    <3>2. /\ m + 1 \in 0 .. m + 1
          /\ \A i \in 1 .. m + 1 : log[i].start < horizon <=> i <= m + 1
      BY <2>2, <2>3, <3>1
    <3> QED
      BY <2>2, <3>2
  <2>4. CASE ~(log[m + 1].start < horizon)
    <3>1. /\ k \in 0 .. m + 1
          /\ \A i \in 1 .. m + 1 : log[i].start < horizon <=> i <= k
      BY <2>1, <2>2, <2>4
    <3> QED
      BY <2>2, <3>1
  <2> QED
    BY <2>3, <2>4
<1>3. 0 .. n \subseteq G
  <2>1. n \in Nat
    BY Spans
  <2> HIDE DEF G, n
  <2> QED
    BY <1>1, <1>2, <2>1, IntervalInduction
<1>4. n \in G
  <2>1. n \in 0 .. n
    BY Spans
  <2> HIDE DEF G, n
  <2> QED
    BY <1>3, <2>1
<1> QED
  BY <1>4

-----------------------------------------------------------------------------
(***************************************************************************)
(* The binary search.                                                      *)
(***************************************************************************)
Ranges(n) == [lo: 0 .. n, hi: 0 .. n]
Middle(s) == (s.lo + s.hi) \div 2

\* What LET Search of firstAtOrAfter defines.
IsSearch(f, log, horizon) ==
  f = [s \in Ranges(Len(log)) |->
         IF s.lo >= s.hi THEN s.lo
         ELSE IF log[Middle(s) + 1].start < horizon
         THEN f[[s EXCEPT !.lo = Middle(s) + 1]]
         ELSE f[[s EXCEPT !.hi = Middle(s)]]]

\* Where it ends, from a range, when the first k elements are below.
Bisected(k, s) ==
  IF s.lo >= s.hi \/ k <= s.lo THEN s.lo ELSE AtMost(k, s.hi)

LEMMA Halves ==
  ASSUME NEW n \in Nat, NEW s \in Ranges(n), s.lo < s.hi
  PROVE  LET below == [s EXCEPT !.hi = Middle(s)]
             above == [s EXCEPT !.lo = Middle(s) + 1]
         IN  /\ Middle(s) \in Nat /\ s.lo <= Middle(s) /\ Middle(s) < s.hi
             /\ below \in Ranges(n) /\ above \in Ranges(n)
             /\ below.lo = s.lo /\ below.hi = Middle(s)
             /\ above.lo = Middle(s) + 1 /\ above.hi = s.hi
<1>1. s.lo \in Nat /\ s.hi \in Nat /\ s.lo \in 0 .. n /\ s.hi \in 0 .. n
  BY DEF Ranges
<1>2. PICK a \in Nat, b \in Nat : a = s.lo /\ b = s.hi
  BY <1>1
<1>3. (a + b) \div 2 \in Nat /\ a <= (a + b) \div 2 /\ (a + b) \div 2 < b
  BY <1>2
<1>4. PICK m \in Nat : m = Middle(s) /\ a <= m /\ m < b
  BY <1>2, <1>3 DEF Middle
<1>5. m \in 0 .. n /\ m + 1 \in 0 .. n
  BY <1>1, <1>2, <1>4
<1> HIDE DEF Middle
<1> QED
  BY <1>1, <1>2, <1>4, <1>5 DEF Ranges, Middle

LEMMA BisectedStep ==
  ASSUME NEW n \in Nat, NEW s \in Ranges(n), s.lo < s.hi, NEW k \in 0 .. n
  PROVE  Bisected(k, s) =
           IF Middle(s) + 1 <= k THEN Bisected(k, [s EXCEPT !.lo = Middle(s) + 1])
           ELSE Bisected(k, [s EXCEPT !.hi = Middle(s)])
<1> DEFINE below == [s EXCEPT !.hi = Middle(s)]
           above == [s EXCEPT !.lo = Middle(s) + 1]
<1>1. /\ Middle(s) \in Nat /\ s.lo <= Middle(s) /\ Middle(s) < s.hi
      /\ below.lo = s.lo /\ below.hi = Middle(s)
      /\ above.lo = Middle(s) + 1 /\ above.hi = s.hi
  BY Halves
<1>3. s.lo \in Nat /\ s.hi \in Nat
  BY DEF Ranges
<1> HIDE DEF below, above
<1>2. Bisected(k, s) = IF Middle(s) + 1 <= k THEN Bisected(k, above)
                       ELSE Bisected(k, below)
  BY <1>1, <1>3 DEF Bisected, AtMost
<1> QED
  BY <1>2 DEF below, above

LEMMA SearchExists ==
  ASSUME NEW log, NEW t, Sound(log, t), NEW horizon \in Nat
  PROVE  \E f : IsSearch(f, log, horizon)
<1> DEFINE n == Len(log)
<1>1. PICK k \in 0 .. n : \A i \in 1 .. n : log[i].start < horizon <=> i <= k
  BY SplitExists
<1> DEFINE f == [s \in Ranges(n) |-> Bisected(k, s)]
           r(s) == IF s.lo >= s.hi THEN s.lo
                   ELSE IF log[Middle(s) + 1].start < horizon
                   THEN f[[s EXCEPT !.lo = Middle(s) + 1]]
                   ELSE f[[s EXCEPT !.hi = Middle(s)]]
<1>2. ASSUME NEW s \in Ranges(n) PROVE f[s] = r(s)
  <2>1. n \in Nat /\ s.lo \in Nat /\ s.hi \in Nat /\ s.hi <= n
    BY Spans DEF Ranges
  <2>2. CASE s.lo >= s.hi
    BY <2>2 DEF Bisected
  <2>3. CASE s.lo < s.hi
    <3>1. /\ Middle(s) + 1 \in 1 .. n
          /\ [s EXCEPT !.lo = Middle(s) + 1] \in Ranges(n)
          /\ [s EXCEPT !.hi = Middle(s)] \in Ranges(n)
      BY <2>1, <2>3, Halves
    <3>2. log[Middle(s) + 1].start < horizon <=> Middle(s) + 1 <= k
      BY <1>1, <3>1
    <3>3. f[s] = IF Middle(s) + 1 <= k
                 THEN Bisected(k, [s EXCEPT !.lo = Middle(s) + 1])
                 ELSE Bisected(k, [s EXCEPT !.hi = Middle(s)])
      BY <2>1, <2>3, BisectedStep
    <3>4. /\ f[[s EXCEPT !.lo = Middle(s) + 1]]
               = Bisected(k, [s EXCEPT !.lo = Middle(s) + 1])
          /\ f[[s EXCEPT !.hi = Middle(s)]]
               = Bisected(k, [s EXCEPT !.hi = Middle(s)])
      BY <3>1
    <3> HIDE DEF f
    <3> QED
      BY <2>1, <2>3, <3>2, <3>3, <3>4
  <2> QED
    BY <2>1, <2>2, <2>3
<1>3. f = [s \in Ranges(n) |-> f[s]]
  OBVIOUS
<1> HIDE DEF f
<1>4. f = [s \in Ranges(n) |-> r(s)]
  BY <1>2, <1>3
<1> QED
  BY <1>4 DEF IsSearch

LEMMA SearchFinds ==
  ASSUME NEW log, NEW t, Sound(log, t), NEW horizon \in Nat,
         NEW f, IsSearch(f, log, horizon), NEW k \in 0 .. Len(log),
         \A i \in 1 .. Len(log) : log[i].start < horizon <=> i <= k
  PROVE  f[[lo |-> 0, hi |-> Len(log)]] = k
<1> DEFINE n == Len(log)
           G == {d \in 0 .. n : \A s \in Ranges(n) :
                   s.hi <= s.lo + d => f[s] = Bisected(k, s)}
<1>1. n \in Nat
  BY Spans
<1>2. ASSUME NEW s \in Ranges(n)
      PROVE  /\ s.lo >= s.hi => f[s] = s.lo
             /\ s.lo < s.hi =>
                  f[s] = IF Middle(s) + 1 <= k
                         THEN f[[s EXCEPT !.lo = Middle(s) + 1]]
                         ELSE f[[s EXCEPT !.hi = Middle(s)]]
  <2>1. f[s] = IF s.lo >= s.hi THEN s.lo
               ELSE IF log[Middle(s) + 1].start < horizon
               THEN f[[s EXCEPT !.lo = Middle(s) + 1]]
               ELSE f[[s EXCEPT !.hi = Middle(s)]]
    BY DEF IsSearch
  <2>2. s.lo \in Nat /\ s.hi \in Nat /\ s.hi <= n
    BY <1>1 DEF Ranges
  <2>3. ASSUME s.lo < s.hi PROVE Middle(s) + 1 \in 1 .. n
    <3>1. Middle(s) \in Nat /\ Middle(s) < s.hi
      BY <1>1, <2>3, Halves
    <3> QED
      BY <1>1, <2>2, <3>1
  <2> QED
    BY <2>1, <2>2, <2>3
<1>3. 0 \in G
  <2>1. ASSUME NEW s \in Ranges(n), s.hi <= s.lo + 0 PROVE f[s] = Bisected(k, s)
    <3>1. s.lo >= s.hi
      BY <2>1 DEF Ranges
    <3> QED
      BY <1>2, <3>1 DEF Bisected
  <2> QED
    BY <1>1, <2>1
<1>4. ASSUME NEW d \in 0 .. n, d < n, d \in G PROVE d + 1 \in G
  <2>1. ASSUME NEW s \in Ranges(n), s.hi <= s.lo + (d + 1)
        PROVE  f[s] = Bisected(k, s)
    <3>1. s.lo \in Nat /\ s.hi \in Nat
      BY <1>1 DEF Ranges
    <3>2. CASE s.lo >= s.hi
      BY <1>2, <3>2 DEF Bisected
    <3>3. CASE s.lo < s.hi
      <4> DEFINE below == [s EXCEPT !.hi = Middle(s)]
                 above == [s EXCEPT !.lo = Middle(s) + 1]
      <4>1. /\ Middle(s) \in Nat /\ s.lo <= Middle(s) /\ Middle(s) < s.hi
            /\ below \in Ranges(n) /\ above \in Ranges(n)
            /\ below.lo = s.lo /\ below.hi = Middle(s)
            /\ above.lo = Middle(s) + 1 /\ above.hi = s.hi
        BY <1>1, <3>3, Halves
      <4>2. f[s] = IF Middle(s) + 1 <= k THEN f[above] ELSE f[below]
        BY <1>2, <3>3
      <4>3. Bisected(k, s) = IF Middle(s) + 1 <= k THEN Bisected(k, above)
                             ELSE Bisected(k, below)
        BY <1>1, <3>3, BisectedStep
      <4> HIDE DEF below, above
      <4>4. above.hi <= above.lo + d /\ below.hi <= below.lo + d
        BY <1>4, <2>1, <3>1, <4>1
      <4>5. f[above] = Bisected(k, above) /\ f[below] = Bisected(k, below)
        BY <1>4, <4>1, <4>4
      <4> QED
        BY <4>2, <4>3, <4>5
    <3> QED
      BY <3>1, <3>2, <3>3
  <2>2. d + 1 \in 0 .. n
    BY <1>1, <1>4
  <2> QED
    BY <2>1, <2>2
<1>5. 0 .. n \subseteq G
  <2> HIDE DEF G, n
  <2> QED
    BY <1>1, <1>3, <1>4, IntervalInduction
<1>6. n \in G
  BY <1>1, <1>5
<1> DEFINE s == [lo |-> 0, hi |-> n]
<1>7. s \in Ranges(n) /\ s.lo = 0 /\ s.hi = n
  BY <1>1 DEF Ranges
<1> HIDE DEF s
<1>8. f[s] = Bisected(k, s)
  BY <1>1, <1>6, <1>7
<1>9. Bisected(k, s) = k
  BY <1>1, <1>7 DEF Bisected, AtMost
<1> QED
  BY <1>8, <1>9 DEF s

-----------------------------------------------------------------------------
(***************************************************************************)
(* The backward walk.                                                      *)
(***************************************************************************)
\* What LET Walk of lostTime defines.
IsWalk(f, log, deadline, last) ==
  f = [i \in 0 .. last |->
         IF i = 0 \/ log[i].end <= deadline THEN 0
         ELSE (log[i].end - AtLeast(log[i].start, deadline)) + f[i - 1]]

\* The instants it counts from its i-th step on.
Lost(log, deadline, i, t) ==
  {u \in deadline .. t : \E j \in 1 .. i : log[j].start <= u /\ u < log[j].end}

LEMMA LostNothing ==
  ASSUME NEW log, NEW t, Sound(log, t), NEW deadline \in Nat,
         NEW i \in 0 .. Len(log), i = 0 \/ log[i].end <= deadline
  PROVE  Cardinality(Lost(log, deadline, i, t)) = 0
<1>1. ASSUME NEW j \in 1 .. i PROVE log[j].end <= deadline
  <2>1. i \in 1 .. Len(log) /\ j \in 1 .. Len(log) /\ (j < i \/ j = i)
    BY Spans
  <2>2. j < i => log[j].end <= log[i].start
    BY <2>1, InOrder
  <2> QED
    BY <2>1, <2>2, Spans
<1>2. ASSUME NEW u \in Lost(log, deadline, i, t) PROVE FALSE
  <2>1. PICK j \in 1 .. i : log[j].start <= u /\ u < log[j].end
    BY DEF Lost
  <2>2. log[j].end <= deadline /\ log[j].end \in Nat /\ u \in Nat /\ u >= deadline
    <3>1. j \in 1 .. Len(log)
      BY Spans
    <3>2. u \in deadline .. t /\ t \in Nat
      BY DEF Lost, Sound
    <3>3. log[j].end \in Nat
      BY <3>1, Spans
    <3> QED
      BY <1>1, <3>2, <3>3
  <2> QED
    BY <2>1, <2>2
<1>3. Lost(log, deadline, i, t) = {}
  BY <1>2
<1> QED
  BY <1>3, FS_EmptySet

LEMMA LostMore ==
  ASSUME NEW log, NEW t, Sound(log, t), NEW deadline \in Nat,
         NEW i \in 1 .. Len(log), ~(log[i].end <= deadline)
  PROVE  Cardinality(Lost(log, deadline, i, t))
           = (log[i].end - AtLeast(log[i].start, deadline))
               + Cardinality(Lost(log, deadline, i - 1, t))
<1> DEFINE before == Lost(log, deadline, i - 1, t)
           from == AtLeast(log[i].start, deadline)
           here == from .. log[i].end - 1
<1>1. /\ log[i].start \in Nat /\ log[i].end \in Nat /\ log[i].start < log[i].end
      /\ log[i].end <= t /\ t \in Nat /\ i \in Nat /\ i - 1 \in Nat
      /\ Len(log) \in Nat
  <2>1. t \in Nat
    BY DEF Sound
  <2>2. Len(log) \in Nat /\ i \in Nat /\ i - 1 \in Nat
    BY Spans
  <2> QED
    BY <2>1, <2>2, Spans
<1>2. /\ from \in Nat /\ from < log[i].end /\ deadline <= from
      /\ log[i].start <= from
      /\ \A u \in Nat : u >= deadline /\ log[i].start <= u => u >= from
  BY <1>1 DEF AtLeast
<1> HIDE DEF from
<1>3. \A j \in 1 .. i - 1 : /\ j \in 1 .. Len(log) /\ log[j].end \in Nat
                            /\ log[j].end <= log[i].start
  <2>1. ASSUME NEW j \in 1 .. i - 1 PROVE j \in 1 .. Len(log) /\ j < i
    BY <1>1
  <2> QED
    BY <2>1, InOrder, Spans
<1>4. Lost(log, deadline, i, t) = before \cup here
  <2>1. ASSUME NEW u \in Lost(log, deadline, i, t) PROVE u \in before \cup here
    <3>1. PICK j \in 1 .. i : log[j].start <= u /\ u < log[j].end
      BY DEF Lost
    <3>2. u \in deadline .. t
      BY DEF Lost
    <3>3. CASE j = i
      BY <1>1, <1>2, <3>1, <3>2, <3>3
    <3>4. CASE j # i
      <4>1. j \in 1 .. i - 1
        BY <1>1, <3>4
      <4> QED
        BY <3>1, <3>2, <4>1 DEF Lost
    <3> QED
      BY <3>3, <3>4
  <2>2. ASSUME NEW u \in before PROVE u \in Lost(log, deadline, i, t)
    <3>1. PICK j \in 1 .. i - 1 : log[j].start <= u /\ u < log[j].end
      BY DEF Lost
    <3>2. j \in 1 .. i
      BY <1>1
    <3> QED
      BY <3>1, <3>2 DEF Lost
  <2>3. ASSUME NEW u \in here PROVE u \in Lost(log, deadline, i, t)
    <3>1. /\ u \in deadline .. t /\ log[i].start <= u /\ u < log[i].end
          /\ i \in 1 .. i
      BY <1>1, <1>2
    <3> QED
      BY <3>1 DEF Lost
  <2> QED
    BY <2>1, <2>2, <2>3
<1>5. before \cap here = {}
  <2>1. ASSUME NEW u \in before, u \in here PROVE FALSE
    <3>1. PICK j \in 1 .. i - 1 : log[j].start <= u /\ u < log[j].end
      BY DEF Lost
    <3>2. log[j].end \in Nat /\ log[j].end <= log[i].start
      BY <1>3
    <3>3. u \in Nat /\ u >= from
      BY <1>1, <1>2, <2>1
    <3> QED
      BY <1>1, <1>2, <3>1, <3>2, <3>3
  <2> QED
    BY <2>1
<1>6. IsFiniteSet(before) /\ Cardinality(before) \in Nat
  <2>1. IsFiniteSet(deadline .. t)
    <3>1. deadline \in Int /\ t \in Int
      BY <1>1
    <3> QED
      BY <3>1, FS_Interval
  <2>2. before \in SUBSET (deadline .. t)
    BY DEF Lost
  <2> HIDE DEF before
  <2> QED
    BY <2>1, <2>2, FS_Subset, FS_CardinalityType
<1>7. IsFiniteSet(here) /\ Cardinality(here) = log[i].end - from
  <2>1. from \in Int /\ log[i].end - 1 \in Int /\ ~(from > log[i].end - 1)
        /\ (log[i].end - 1) - from + 1 = log[i].end - from
    BY <1>1, <1>2
  <2> QED
    BY <2>1, FS_Interval
<1> HIDE DEF before, here
<1>8. Cardinality(before \cup here) = Cardinality(before) + Cardinality(here)
  <2>1. Cardinality(before \cup here)
          = Cardinality(before) + Cardinality(here) - Cardinality(before \cap here)
    BY <1>6, <1>7, FS_Union
  <2>2. Cardinality(before \cap here) = 0
    BY <1>5, FS_EmptySet
  <2>3. Cardinality(here) \in Nat
    BY <1>7, FS_CardinalityType
  <2> QED
    BY <1>6, <2>1, <2>2, <2>3
<1>9. log[i].end - from \in Nat
  BY <1>1, <1>2
<1> QED
  BY <1>4, <1>6, <1>7, <1>8, <1>9 DEF before, from

LEMMA WalkExists ==
  ASSUME NEW log, NEW t, Sound(log, t), NEW deadline \in Nat,
         NEW last \in 0 .. Len(log)
  PROVE  \E f : IsWalk(f, log, deadline, last)
<1> DEFINE f == [i \in 0 .. last |-> Cardinality(Lost(log, deadline, i, t))]
           r(i) == IF i = 0 \/ log[i].end <= deadline THEN 0
                   ELSE (log[i].end - AtLeast(log[i].start, deadline)) + f[i - 1]
<1>1. ASSUME NEW i \in 0 .. last PROVE f[i] = r(i)
  <2>1. i \in 0 .. Len(log) /\ last \in Nat
    BY Spans
  <2>2. CASE i = 0 \/ log[i].end <= deadline
    BY <2>1, <2>2, LostNothing
  <2>3. CASE ~(i = 0 \/ log[i].end <= deadline)
    <3>1. i \in 1 .. Len(log) /\ i - 1 \in 0 .. last
      BY <2>1, <2>3
    <3>2. f[i - 1] = Cardinality(Lost(log, deadline, i - 1, t))
      BY <3>1
    <3>3. f[i] = Cardinality(Lost(log, deadline, i, t))
      OBVIOUS
    <3> HIDE DEF f
    <3> QED
      BY <2>3, <3>1, <3>2, <3>3, LostMore
  <2> QED
    BY <2>2, <2>3
<1>2. f = [i \in 0 .. last |-> f[i]]
  OBVIOUS
<1> HIDE DEF f
<1>3. f = [i \in 0 .. last |-> r(i)]
  BY <1>1, <1>2
<1> QED
  BY <1>3 DEF IsWalk

LEMMA WalkCounts ==
  ASSUME NEW log, NEW t, Sound(log, t), NEW deadline \in Nat,
         NEW last \in 0 .. Len(log), NEW f, IsWalk(f, log, deadline, last)
  PROVE  f[last] = Cardinality(Lost(log, deadline, last, t))
<1> DEFINE G == {i \in 0 .. last :
                   f[i] = Cardinality(Lost(log, deadline, i, t))}
<1>1. last \in Nat /\ Len(log) \in Nat /\ last <= Len(log)
  BY Spans
<1>2. \A i \in 0 .. last :
        f[i] = IF i = 0 \/ log[i].end <= deadline THEN 0
               ELSE (log[i].end - AtLeast(log[i].start, deadline)) + f[i - 1]
  BY DEF IsWalk
<1>3. 0 \in G
  <2>1. 0 \in 0 .. last /\ 0 \in 0 .. Len(log)
    BY <1>1
  <2>2. f[0] = 0
    BY <1>2, <2>1
  <2>3. Cardinality(Lost(log, deadline, 0, t)) = 0
    BY <2>1, LostNothing
  <2> QED
    BY <2>1, <2>2, <2>3
<1>4. ASSUME NEW i \in 0 .. last, i < last, i \in G PROVE i + 1 \in G
  <2>1. PICK n \in 1 .. last : n = i + 1
    BY <1>1, <1>4
  <2>2. n \in 0 .. last /\ n \in 1 .. Len(log) /\ n \in 0 .. Len(log) /\ n - 1 = i
        /\ n # 0
    BY <1>1, <2>1
  <2>3. CASE log[n].end <= deadline
    BY <1>2, <2>2, <2>3, LostNothing
  <2>4. CASE ~(log[n].end <= deadline)
    <3>1. f[n] = (log[n].end - AtLeast(log[n].start, deadline)) + f[n - 1]
      BY <1>2, <2>2, <2>4
    <3>2. Cardinality(Lost(log, deadline, n, t))
            = (log[n].end - AtLeast(log[n].start, deadline))
                + Cardinality(Lost(log, deadline, n - 1, t))
      BY <2>2, <2>4, LostMore
    <3>3. f[n - 1] = Cardinality(Lost(log, deadline, n - 1, t))
      BY <1>4, <2>2
    <3> QED
      BY <2>2, <3>1, <3>2, <3>3
  <2>5. n \in G
    BY <2>2, <2>3, <2>4
  <2> QED
    BY <2>1, <2>5
<1>5. 0 .. last \subseteq G
  <2> HIDE DEF G
  <2> QED
    BY <1>1, <1>3, <1>4, IntervalInduction
<1> QED
  BY <1>1, <1>5

-----------------------------------------------------------------------------
(***************************************************************************)
(* The window.                                                             *)
(***************************************************************************)
LEMMA FirstIsSplit ==
  ASSUME NEW t, Sound(outages, t), NEW horizon \in Nat
  PROVE  /\ firstAtOrAfter(horizon) \in 0 .. Len(outages)
         /\ \A i \in 1 .. Len(outages) :
              outages[i].start < horizon <=> i <= firstAtOrAfter(horizon)
<1>1. PICK k \in 0 .. Len(outages) :
        \A i \in 1 .. Len(outages) : outages[i].start < horizon <=> i <= k
  BY SplitExists
<1> DEFINE f == CHOOSE g : IsSearch(g, outages, horizon)
<1>2. IsSearch(f, outages, horizon)
  BY SearchExists
<1>3. firstAtOrAfter(horizon) = f[[lo |-> 0, hi |-> Len(outages)]]
  BY DEF firstAtOrAfter, IsSearch, Ranges, Middle
<1> HIDE DEF f
<1>4. firstAtOrAfter(horizon) = k
  BY <1>1, <1>2, <1>3, SearchFinds
<1> QED
  BY <1>1, <1>4

LEMMA LostTimeCounts ==
  ASSUME NEW t, Sound(outages, t), NEW deadline \in Nat,
         NEW last \in 0 .. Len(outages)
  PROVE  lostTime(deadline, last) = Cardinality(Lost(outages, deadline, last, t))
<1> DEFINE f == CHOOSE g : IsWalk(g, outages, deadline, last)
<1>1. IsWalk(f, outages, deadline, last)
  BY WalkExists
<1>2. lostTime(deadline, last) = f[last]
  BY DEF lostTime, IsWalk
<1> HIDE DEF f
<1> QED
  BY <1>1, <1>2, WalkCounts

\* Both together: every instant of an outage starting before the horizon.
LEMMA WalkIsExact ==
  ASSUME NEW t, Sound(outages, t), NEW deadline \in Nat, NEW horizon \in Nat
  PROVE  lostTime(deadline, firstAtOrAfter(horizon))
           = Cardinality(OutageInstants(outages, deadline, horizon, t))
<1>1. PICK k \in 0 .. Len(outages) :
        /\ k = firstAtOrAfter(horizon)
        /\ \A i \in 1 .. Len(outages) : outages[i].start < horizon <=> i <= k
  BY FirstIsSplit
<1>2. Len(outages) \in Nat
  BY Spans
<1>3. Lost(outages, deadline, k, t) = OutageInstants(outages, deadline, horizon, t)
  <2>1. ASSUME NEW i \in 1 .. k
        PROVE  i \in 1 .. Len(outages) /\ outages[i].start < horizon
    BY <1>1, <1>2
  <2>2. ASSUME NEW i \in 1 .. Len(outages), outages[i].start < horizon
        PROVE  i \in 1 .. k
    BY <1>1, <1>2, <2>2
  <2> QED
    BY <2>1, <2>2 DEF Lost, OutageInstants
<1> QED
  BY <1>1, <1>3, LostTimeCounts

LEMMA WalkAgreesNow == IInv => WalkAgrees
<1> SUFFICES ASSUME IInv, NEW d \in Deadlines, NEW g \in Graces
             PROVE  Window(d, g) =
                      [graceEnd |-> GraceEnd(outages, d, d + g, maxGraceExtension, now),
                       keeperFrom |-> KeeperFrom(outages, d, d + g, maxGraceExtension,
                                                 recoveryPeriod, now)]
  BY Zenon DEF WalkAgrees
<1>1. /\ d \in Nat /\ g \in Nat /\ maxGraceExtension \in Nat /\ recoveryPeriod \in Nat
  BY OutageAssumption DEF IInv, TypeOK
<1>2. Sound(outages, now)
  BY LogIsSound
<1> DEFINE horizon == (d + g) + maxGraceExtension
           graceEnd == GraceEnd(outages, d, d + g, maxGraceExtension, now)
           extension == AtMost(lostTime(d, firstAtOrAfter(horizon)), maxGraceExtension)
<1>3. horizon \in Nat
  BY <1>1
<1>4. extension = Extension(outages, d, d + g, maxGraceExtension, now)
  <2> HIDE DEF horizon
  <2>1. lostTime(d, firstAtOrAfter(horizon))
          = Cardinality(OutageInstants(outages, d, horizon, now))
    BY <1>1, <1>2, <1>3, WalkIsExact
  <2> QED
    BY <2>1 DEF Extension, horizon
<1>5. graceEnd = (d + g) + extension
  BY <1>4 DEF GraceEnd
<1>6. Cardinality(OutageInstants(outages, d, horizon, now)) \in Nat
  <2>1. IsFiniteSet(d .. now)
    <3>1. d \in Int /\ now \in Int
      BY <1>1, <1>2 DEF Sound
    <3> QED
      BY <3>1, FS_Interval
  <2>2. OutageInstants(outages, d, horizon, now) \in SUBSET (d .. now)
    BY DEF OutageInstants
  <2> HIDE DEF horizon
  <2> QED
    BY <2>1, <2>2, FS_Subset, FS_CardinalityType
<1>7. graceEnd \in Nat
  <2>1. Extension(outages, d, d + g, maxGraceExtension, now) \in Nat
    <3>1. PICK x \in Nat : x = Cardinality(OutageInstants(outages, d, horizon, now))
      BY <1>6
    <3>2. Extension(outages, d, d + g, maxGraceExtension, now)
            = AtMost(x, maxGraceExtension)
      BY <3>1 DEF Extension
    <3> QED
      BY <1>1, <3>1, <3>2 DEF AtMost
  <2> QED
    BY <1>1, <2>1 DEF GraceEnd
<1>8. Window(d, g) =
        [graceEnd |-> (d + g) + extension,
         keeperFrom |-> IF Len(outages) = 0 THEN (d + g) + extension
                        ELSE AtLeast((d + g) + extension,
                                     outages[Len(outages)].end + recoveryPeriod)]
  BY DEF Window, settlementWindow
<1>9. KeeperFrom(outages, d, d + g, maxGraceExtension, recoveryPeriod, now)
        = IF Len(outages) = 0 THEN graceEnd
          ELSE AtLeast(graceEnd, outages[Len(outages)].end + recoveryPeriod)
  <2>1. KeeperFrom(outages, d, d + g, maxGraceExtension, recoveryPeriod, now)
          = IF Len(outages) > 0 /\ outages[Len(outages)].end + recoveryPeriod > graceEnd
            THEN outages[Len(outages)].end + recoveryPeriod
            ELSE graceEnd
    BY DEF KeeperFrom
  <2>2. Len(outages) \in Nat /\ (Len(outages) # 0 => outages[Len(outages)].end \in Nat)
    BY <1>2, Spans
  <2> HIDE DEF graceEnd
  <2> QED
    BY <1>1, <1>7, <2>1, <2>2 DEF AtLeast
<1> HIDE DEF graceEnd, extension
<1>10. Window(d, g) =
         [graceEnd |-> graceEnd,
          keeperFrom |-> KeeperFrom(outages, d, d + g, maxGraceExtension,
                                    recoveryPeriod, now)]
  BY <1>5, <1>8, <1>9
<1> QED
  BY <1>10 DEF graceEnd

\* Longer is a log that continues another one.
Continues(longer, log) ==
  /\ Len(log) <= Len(longer)
  /\ \A i \in 1 .. Len(log) : longer[i] = log[i]

LEMMA InstantsGrow ==
  ASSUME NEW log, NEW t, Sound(log, t), NEW longer, NEW later,
         Sound(longer, later), Continues(longer, log), t <= later,
         NEW deadline \in Nat, NEW horizon \in Nat
  PROVE  /\ Cardinality(OutageInstants(log, deadline, horizon, t)) \in Nat
         /\ Cardinality(OutageInstants(longer, deadline, horizon, later)) \in Nat
         /\ Cardinality(OutageInstants(log, deadline, horizon, t))
              <= Cardinality(OutageInstants(longer, deadline, horizon, later))
<1> DEFINE small == OutageInstants(log, deadline, horizon, t)
           large == OutageInstants(longer, deadline, horizon, later)
<1>1. /\ t \in Nat /\ later \in Nat /\ Len(log) \in Nat /\ Len(longer) \in Nat
      /\ \A i \in 1 .. Len(log) : i \in 1 .. Len(longer) /\ longer[i] = log[i]
  BY Spans DEF Sound, Continues
<1>2. small \subseteq large
  <2>1. ASSUME NEW u \in small PROVE u \in large
    <3>1. PICK i \in 1 .. Len(log) :
            log[i].start < horizon /\ log[i].start <= u /\ u < log[i].end
      BY DEF OutageInstants
    <3>2. u \in deadline .. t
      BY DEF OutageInstants
    <3>3. u \in deadline .. later
      BY <1>1, <3>2
    <3> QED
      BY <1>1, <3>1, <3>3 DEF OutageInstants
  <2> QED
    BY <2>1
<1>3. IsFiniteSet(large)
  <2>1. deadline \in Int /\ later \in Int
    BY <1>1
  <2>2. IsFiniteSet(deadline .. later) /\ large \in SUBSET (deadline .. later)
    BY <2>1, FS_Interval DEF OutageInstants
  <2> HIDE DEF large
  <2> QED
    BY <2>2, FS_Subset
<1> HIDE DEF small, large
<1>4. /\ IsFiniteSet(small) /\ Cardinality(small) <= Cardinality(large)
      /\ Cardinality(small) \in Nat /\ Cardinality(large) \in Nat
  BY <1>2, <1>3, FS_Subset, FS_CardinalityType
<1> QED
  BY <1>4 DEF small, large

LEMMA WindowGrows ==
  ASSUME NEW log, NEW t, Sound(log, t), NEW longer, NEW later,
         Sound(longer, later), Continues(longer, log), t <= later,
         NEW deadline \in Nat, NEW base \in Nat, NEW cap \in Nat,
         NEW recovery \in Nat
  PROVE  /\ GraceEnd(log, deadline, base, cap, t)
              <= GraceEnd(longer, deadline, base, cap, later)
         /\ KeeperFrom(log, deadline, base, cap, recovery, t)
              <= KeeperFrom(longer, deadline, base, cap, recovery, later)
<1> DEFINE first  == GraceEnd(log, deadline, base, cap, t)
           second == GraceEnd(longer, deadline, base, cap, later)
<1>1. first \in Nat /\ second \in Nat /\ first <= second
  <2>1. PICK h \in Nat : h = base + cap
    OBVIOUS
  <2> DEFINE small == Cardinality(OutageInstants(log, deadline, h, t))
             large == Cardinality(OutageInstants(longer, deadline, h, later))
  <2>2. small \in Nat /\ large \in Nat /\ small <= large
    BY InstantsGrow
  <2>3. first = base + AtMost(small, cap) /\ second = base + AtMost(large, cap)
    BY <2>1 DEF GraceEnd, Extension
  <2> HIDE DEF first, second, small, large
  <2> QED
    BY <2>2, <2>3 DEF AtMost
<1> DEFINE m == Len(log)
           n == Len(longer)
<1>2. /\ m \in Nat /\ n \in Nat /\ m <= n
      /\ m > 0 => /\ log[m].end \in Nat /\ longer[n].end \in Nat
                  /\ log[m].end <= longer[n].end
  <2>1. m \in Nat /\ n \in Nat /\ m <= n
    BY Spans DEF Continues
  <2>2. ASSUME m > 0
        PROVE  /\ log[m].end \in Nat /\ longer[n].end \in Nat
               /\ log[m].end <= longer[n].end
    <3>1. m \in 1 .. m /\ m \in 1 .. n /\ n \in 1 .. n
      BY <2>1, <2>2
    <3>2. longer[m] = log[m]
      BY <3>1 DEF Continues
    <3>3. m < n => longer[m].end <= longer[n].start
      BY <3>1, InOrder
    <3>4. /\ longer[m].end \in Nat /\ longer[n].end \in Nat
          /\ longer[n].start \in Nat /\ longer[n].start < longer[n].end
      BY <3>1, Spans
    <3> QED
      BY <2>1, <3>2, <3>3, <3>4
  <2> QED
    BY <2>1, <2>2
<1>3. /\ KeeperFrom(log, deadline, base, cap, recovery, t)
           = IF m > 0 /\ log[m].end + recovery > first
             THEN log[m].end + recovery ELSE first
      /\ KeeperFrom(longer, deadline, base, cap, recovery, later)
           = IF n > 0 /\ longer[n].end + recovery > second
             THEN longer[n].end + recovery ELSE second
  BY DEF KeeperFrom
<1> HIDE DEF first, second, m, n
<1>4. KeeperFrom(log, deadline, base, cap, recovery, t)
        <= KeeperFrom(longer, deadline, base, cap, recovery, later)
  <2>1. CASE m > 0
    <3>1. PICK a \in Nat, b \in Nat : a = log[m].end /\ b = longer[n].end /\ a <= b
      BY <1>2, <2>1
    <3>2. n > 0
      BY <1>2, <2>1
    <3> QED
      BY <1>1, <1>3, <2>1, <3>1, <3>2
  <2>2. CASE ~(m > 0)
    <3>1. CASE n > 0 /\ longer[n].end + recovery > second
      <4>1. longer[n].end \in Nat
        BY <1>2, <3>1, Spans DEF n
      <4> QED
        BY <1>1, <1>3, <2>2, <3>1, <4>1
    <3>2. CASE ~(n > 0 /\ longer[n].end + recovery > second)
      BY <1>1, <1>3, <2>2, <3>2
    <3> QED
      BY <3>1, <3>2
  <2> QED
    BY <2>1, <2>2
<1> QED
  BY <1>1, <1>4 DEF first, second

\* No step rewrites the log.
LEMMA LogGrows ==
  ASSUME IInv, [Next]_vars
  PROVE  Continues(outages', outages) /\ now <= now'
<1>1. outages \in Seq(Outage) /\ now \in Nat /\ Len(outages) \in Nat
  BY DEF IInv, TypeOK
<1>2. CASE heartbeat
  <2> DEFINE o == [start |-> lastHeartbeat, end |-> now]
  <2>1. /\ now' = now
        /\ outages' = outages \/ outages' = Append(outages, o)
    BY <1>2 DEF heartbeat, RecordSilence
  <2>2. o \in Outage
    BY DEF IInv, TypeOK, Outage
  <2> HIDE DEF o
  <2>3. CASE outages' = outages
    BY <1>1, <2>1, <2>3 DEF Continues
  <2>4. CASE outages' = Append(outages, o)
    <3>1. /\ Len(outages') = Len(outages) + 1
          /\ \A i \in 1 .. Len(outages) : outages'[i] = outages[i]
      BY <1>1, <2>2, <2>4
    <3> QED
      BY <1>1, <2>1, <3>1 DEF Continues
  <2> QED
    BY <2>1, <2>3, <2>4
<1>3. CASE ~heartbeat
  <2>1. outages' = outages /\ now' \in {now, now + 1}
    BY <1>3 DEF Next, setOutageConfig, setSettlementConfig, Tick, logVars, vars
  <2> QED
    BY <1>1, <2>1 DEF Continues
<1> QED
  BY <1>2, <1>3

THEOREM InvariantHolds == Spec => []IInv
BY InitIInv, StepIInv, PTL DEF Spec

\* The registry's outages are disjoint, in time order and behind the last
\* heartbeat, however many there are.
THEOREM LogStaysOrdered == Spec => []LogOrdered
BY InvariantHolds, PTL DEF IInv

\* Neither setter can leave keepers free to act on a stale TWAP.
THEOREM RecoveryAlwaysCoversTwap == Spec => []RecoveryCoversTwap
BY InvariantHolds, PTL DEF IInv

\* The binary search and the walk backwards add up every instant of recorded
\* silence after the deadline that belongs to an outage starting before the
\* horizon, and no other, for every log the registry can build.
THEOREM SearchAndWalkAreExact == Spec => []WalkAgrees
BY WalkAgreesNow, InvariantHolds, PTL

\* No heartbeat, whoever calls it and however late, takes time back from the
\* parties of any loan or lets a keeper in earlier.
THEOREM HeartbeatOnlyExtends == Spec => HeartbeatNeverShortens
<1> DEFINE Extends ==
      UNCHANGED configVars =>
        \A d \in Deadlines, g \in Graces :
          /\ Window(d, g)'.graceEnd >= Window(d, g).graceEnd
          /\ Window(d, g)'.keeperFrom >= Window(d, g).keeperFrom
<1>1. ASSUME IInv, IInv', [Next]_vars PROVE Extends
  <2> SUFFICES ASSUME UNCHANGED configVars, NEW d \in Deadlines, NEW g \in Graces
               PROVE  /\ Window(d, g)'.graceEnd >= Window(d, g).graceEnd
                      /\ Window(d, g)'.keeperFrom >= Window(d, g).keeperFrom
    BY Zenon
  <2>1. /\ d \in Nat /\ d + g \in Nat
        /\ maxGraceExtension \in Nat /\ recoveryPeriod \in Nat
        /\ maxGraceExtension' = maxGraceExtension /\ recoveryPeriod' = recoveryPeriod
    BY <1>1, OutageAssumption DEF IInv, TypeOK, configVars
  <2>2. Sound(outages, now) /\ Sound(outages', now')
    <3>1. Sound(outages, now) /\ Sound(outages, now)'
      BY <1>1, LogIsSound, PTL
    <3> QED
      BY <3>1
  <2>3. Continues(outages', outages) /\ now <= now'
    BY <1>1, LogGrows
  <2>4. WalkAgrees /\ WalkAgrees'
    BY <1>1, WalkAgreesNow, PTL
  <2>5. /\ Window(d, g).graceEnd
             = GraceEnd(outages, d, d + g, maxGraceExtension, now)
        /\ Window(d, g).keeperFrom
             = KeeperFrom(outages, d, d + g, maxGraceExtension, recoveryPeriod, now)
    BY <2>4 DEF WalkAgrees
  <2>6. /\ Window(d, g)'.graceEnd
             = GraceEnd(outages', d, d + g, maxGraceExtension, now')
        /\ Window(d, g)'.keeperFrom
             = KeeperFrom(outages', d, d + g, maxGraceExtension, recoveryPeriod, now')
    BY <2>1, <2>4 DEF WalkAgrees
  <2>7. /\ GraceEnd(outages, d, d + g, maxGraceExtension, now)
             <= GraceEnd(outages', d, d + g, maxGraceExtension, now')
        /\ KeeperFrom(outages, d, d + g, maxGraceExtension, recoveryPeriod, now)
             <= KeeperFrom(outages', d, d + g, maxGraceExtension, recoveryPeriod, now')
    BY <2>1, <2>2, <2>3, WindowGrows
  <2> QED
    BY <2>5, <2>6, <2>7
<1>2. IInv /\ IInv' /\ [Next]_vars => [Extends]_vars
  BY <1>1
<1> QED
  BY <1>2, InvariantHolds, PTL DEF Spec, HeartbeatNeverShortens

=============================================================================
