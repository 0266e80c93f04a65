--------------------------- MODULE TelemetryProofs ---------------------------
(***************************************************************************)
(* What a snapshot of ReadStats() tells, for any CPUs, frames and reads    *)
(* that fail: every drop in it has its reason in it, and the detector is   *)
(* shown every drop once.                                                  *)
(***************************************************************************)
EXTENDS Telemetry, FiniteSetTheorems, SequenceTheorems, TLAPS

----------------------------------------------------------------------------
\* The order in which ReadStats() goes through stats_map.

\* s goes through S, each element once.
Goes(s, S) ==
    /\ s \in Seq(S)
    /\ \A i, j \in 1..Len(s) : s[i] = s[j] => i = j
    /\ \A x \in S : \E i \in 1..Len(s) : s[i] = x

\* One sequence after the other goes through both sets.
LEMMA GoesOn ==
    ASSUME NEW S, NEW T, NEW s, NEW t, Goes(s, S), Goes(t, T), S \cap T = {}
    PROVE  /\ Goes(s \o t, S \cup T)
           /\ Len(s) \in Nat /\ Len(t) \in Nat
           /\ Len(s \o t) = Len(s) + Len(t)
           /\ \A i \in 1..Len(s) : (s \o t)[i] = s[i]
           /\ \A i \in 1..Len(t) : (s \o t)[Len(s) + i] = t[i]
<1> DEFINE u == s \o t
<1>1. /\ s \in Seq(S \cup T) /\ t \in Seq(S \cup T)
      /\ Len(s) \in Nat /\ Len(t) \in Nat
      /\ \A i \in 1..Len(s) : s[i] \in S
      /\ \A i \in 1..Len(t) : t[i] \in T
  BY DEF Goes
<1>2. /\ u \in Seq(S \cup T) /\ Len(u) = Len(s) + Len(t)
      /\ \A i \in 1..Len(u) : u[i] = IF i <= Len(s) THEN s[i] ELSE t[i - Len(s)]
  BY <1>1, ConcatProperties
<1> HIDE DEF u
<1>3. /\ \A i \in 1..Len(s) : i \in 1..Len(u) /\ u[i] = s[i]
      /\ \A i \in 1..Len(t) : Len(s) + i \in 1..Len(u) /\ u[Len(s) + i] = t[i]
  <2>1. ASSUME NEW i \in 1..Len(s) PROVE i \in 1..Len(u) /\ u[i] = s[i]
    <3>1. i \in Int /\ 1 <= i /\ i <= Len(s) /\ i \in 1..Len(u)
      BY <1>1, <1>2
    <3> QED
      BY <3>1, <1>2
  <2>2. ASSUME NEW i \in 1..Len(t)
        PROVE  Len(s) + i \in 1..Len(u) /\ u[Len(s) + i] = t[i]
    <3>1. /\ Len(s) + i \in 1..Len(u) /\ ~(Len(s) + i <= Len(s))
          /\ Len(s) + i - Len(s) = i
      BY <1>1, <1>2
    <3> QED
      BY <3>1, <1>2
  <2> QED
    BY <2>1, <2>2
<1>4. ASSUME NEW i \in 1..Len(u), NEW j \in 1..Len(u), u[i] = u[j]
      PROVE  i = j
  <2>1. CASE i <= Len(s) /\ j <= Len(s)
    <3>1. i \in 1..Len(s) /\ j \in 1..Len(s)
      BY <1>1, <1>2, <2>1
    <3>2. s[i] = s[j]
      BY <1>2, <1>4, <2>1
    <3> QED
      BY <3>1, <3>2 DEF Goes
  <2>2. CASE i > Len(s) /\ j > Len(s)
    <3>1. i - Len(s) \in 1..Len(t) /\ j - Len(s) \in 1..Len(t)
      BY <1>1, <1>2, <2>2
    <3>2. t[i - Len(s)] = t[j - Len(s)]
      BY <1>1, <1>2, <1>4, <2>2
    <3>3. i - Len(s) = j - Len(s)
      BY <3>1, <3>2 DEF Goes
    <3> QED
      BY <1>1, <3>3
  <2>3. ASSUME NEW a \in 1..Len(u), NEW b \in 1..Len(u),
               a <= Len(s), b > Len(s), u[a] = u[b]
        PROVE  FALSE
    <3>1. a \in 1..Len(s) /\ b - Len(s) \in 1..Len(t)
      BY <1>1, <1>2, <2>3
    <3>2. u[a] \in S /\ u[b] \in T
      BY <1>1, <1>2, <2>3, <3>1
    <3> QED
      BY <2>3, <3>2
  <2> QED
    BY <1>1, <1>4, <2>1, <2>2, <2>3
<1>5. \A x \in S \cup T : \E i \in 1..Len(u) : u[i] = x
  <2>1. ASSUME NEW x \in S PROVE \E i \in 1..Len(u) : u[i] = x
    <3>1. PICK i \in 1..Len(s) : s[i] = x
      BY DEF Goes
    <3> QED
      BY <3>1, <1>3
  <2>2. ASSUME NEW x \in T PROVE \E i \in 1..Len(u) : u[i] = x
    <3>1. PICK i \in 1..Len(t) : t[i] = x
      BY DEF Goes
    <3> QED
      BY <3>1, <1>3
  <2> QED
    BY <2>1, <2>2
<1>6. Goes(u, S \cup T)
  BY <1>2, <1>4, <1>5 DEF Goes
<1> QED
  BY <1>1, <1>2, <1>3, <1>6 DEF u

\* A protocol has a slot or none.
LEMMA SlotGoes == ASSUME NEW p PROVE Goes(Slot(p), {p} \cap Protos)
<1>1. CASE p \in Protos
  <2>1. Slot(p) = <<p>> /\ {p} \cap Protos = {p}
    BY <1>1 DEF Slot
  <2>2. Goes(<<p>>, {p})
    BY DEF Goes
  <2> QED
    BY <2>1, <2>2
<1>2. CASE p \notin Protos
  <2>1. Slot(p) = <<>> /\ {p} \cap Protos = {}
    BY <1>2 DEF Slot
  <2>2. Goes(<<>>, {})
    BY DEF Goes
  <2> QED
    BY <2>1, <2>2
<1> QED
  BY <1>1, <1>2

\* The next protocol's slot leaves what is before it in its place.
LEMMA SlotJoins ==
    ASSUME NEW s, NEW S, NEW p, Goes(s, S), p \notin S,
           Len(s) >= 2, s[2] = "drop_pkts"
    PROVE  LET t == s \o Slot(p)
           IN  /\ Goes(t, S \cup ({p} \cap Protos))
               /\ Len(t) \in Nat /\ Len(t) >= 2 /\ t[2] = "drop_pkts"
<1> DEFINE t == Slot(p)
           T == {p} \cap Protos
<1>1. Goes(t, T)
  BY SlotGoes
<1>2. S \cap T = {}
  OBVIOUS
<1> HIDE DEF t, T
<1>3. /\ Goes(s \o t, S \cup T)
      /\ Len(s) \in Nat /\ Len(t) \in Nat
      /\ Len(s \o t) = Len(s) + Len(t)
      /\ \A i \in 1..Len(s) : (s \o t)[i] = s[i]
  <2>1. Goes(s \o t, S \cup T)
    BY <1>1, <1>2, GoesOn
  <2>2. Len(s \o t) = Len(s) + Len(t)
    BY <1>1, <1>2, GoesOn
  <2>3. Len(s) \in Nat /\ Len(t) \in Nat
    BY <1>1, <1>2, GoesOn
  <2>4. \A i \in 1..Len(s) : (s \o t)[i] = s[i]
    BY <1>1, <1>2, GoesOn
  <2> QED
    BY <2>1, <2>2, <2>3, <2>4
<1>4. 2 \in 1..Len(s)
  BY <1>3
<1> QED
  BY <1>3, <1>4 DEF t, T

\* ReadStats() reads each counter once, the drops before their reasons.
LEMMA Order ==
    /\ Goes(ReadOrder, Counters)
    /\ Len(ReadOrder) \in Nat /\ Len(ReadOrder) >= 4
    /\ ReadOrder[2] = "drop_pkts"
    /\ ReadOrder[Len(ReadOrder) - 1] = "banned"
    /\ ReadOrder[Len(ReadOrder)] = "rate"
<1>0. Protos \subseteq {"udp", "icmp", "syn"}
  BY TelemetryAssumption
<1> DEFINE a == <<"pass_pkts", "drop_pkts">>
           A == {"pass_pkts", "drop_pkts"}
           b == a \o Slot("udp")
           B == A \cup ({"udp"} \cap Protos)
           c == b \o Slot("icmp")
           C == B \cup ({"icmp"} \cap Protos)
           d == c \o Slot("syn")
           D == C \cup ({"syn"} \cap Protos)
           e == <<"banned", "rate">>
           E == {"banned", "rate"}
<1>1. Goes(a, A) /\ Goes(e, E) /\ Len(a) = 2 /\ Len(e) = 2
  BY DEF Goes
<1>2. /\ a[2] = "drop_pkts" /\ e[1] = "banned" /\ e[2] = "rate"
  OBVIOUS
<1>3. D \cup E = Counters /\ D \cap E = {} /\ C \cap {"syn"} = {}
      /\ B \cap {"icmp"} = {} /\ A \cap {"udp"} = {}
  BY <1>0 DEF Counters, Reasons
<1> HIDE DEF a, A, e, E
<1>4. Goes(b, B) /\ Len(b) \in Nat /\ Len(b) >= 2 /\ b[2] = "drop_pkts"
  <2>1. /\ Goes(a, A) /\ Len(a) \in Nat /\ Len(a) >= 2
        /\ a[2] = "drop_pkts" /\ "udp" \notin A
    BY <1>1, <1>2, <1>3
  <2> QED
    BY <2>1, SlotJoins
<1> HIDE DEF b, B
<1>5. Goes(c, C) /\ Len(c) \in Nat /\ Len(c) >= 2 /\ c[2] = "drop_pkts"
  <2>1. /\ Goes(b, B) /\ Len(b) \in Nat /\ Len(b) >= 2
        /\ b[2] = "drop_pkts" /\ "icmp" \notin B
    BY <1>4, <1>3
  <2> QED
    BY <2>1, SlotJoins
<1> HIDE DEF c, C
<1>6. Goes(d, D) /\ Len(d) \in Nat /\ Len(d) >= 2 /\ d[2] = "drop_pkts"
  <2>1. /\ Goes(c, C) /\ Len(c) \in Nat /\ Len(c) >= 2
        /\ c[2] = "drop_pkts" /\ "syn" \notin C
    BY <1>5, <1>3
  <2> QED
    BY <2>1, SlotJoins
<1> HIDE DEF d, D
<1>7. /\ Goes(d \o e, D \cup E) /\ Len(d \o e) = Len(d) + 2
      /\ (d \o e)[2] = "drop_pkts"
      /\ (d \o e)[Len(d) + 1] = "banned" /\ (d \o e)[Len(d) + 2] = "rate"
  <2>1. Goes(d, D) /\ Goes(e, E) /\ D \cap E = {}
    BY <1>1, <1>3, <1>6
  <2>2. /\ Goes(d \o e, D \cup E) /\ Len(d \o e) = Len(d) + Len(e)
        /\ \A i \in 1..Len(d) : (d \o e)[i] = d[i]
        /\ \A i \in 1..Len(e) : (d \o e)[Len(d) + i] = e[i]
    BY <2>1, GoesOn
  <2>3. 2 \in 1..Len(d) /\ 1 \in 1..Len(e) /\ 2 \in 1..Len(e)
    BY <1>1, <1>6
  <2> QED
    BY <2>2, <2>3, <1>1, <1>2, <1>6
<1>8. ReadOrder = d \o e
  BY DEF ReadOrder, a, b, c, d, e
<1>9. Len(d) + 2 - 1 = Len(d) + 1
  BY <1>6
<1>10. Goes(ReadOrder, Counters)
  BY <1>3, <1>7, <1>8
<1>11. Len(ReadOrder) = Len(d) + 2
  BY <1>7, <1>8
<1>12. /\ ReadOrder[2] = "drop_pkts" /\ ReadOrder[Len(d) + 1] = "banned"
       /\ ReadOrder[Len(d) + 2] = "rate"
  BY <1>7, <1>8
<1> QED
  BY <1>6, <1>9, <1>10, <1>11, <1>12
----------------------------------------------------------------------------
\* What the CPUs of S have in f, one by one.  The provers have no induction
\* for sums, but they know how sets add up.
Units(f, S) == {u \in S \X Nat : 1 <= u[2] /\ u[2] <= f[u[1]]}

\* Over the CPUs of S, f adds up to n.
AddsUp(f, S, n) ==
    IsFiniteSet(Units(f, S)) /\ Cardinality(Units(f, S)) = n

\* A counter that no CPU's copy was read of.
LEMMA NothingAddsUp == ASSUME NEW f PROVE AddsUp(f, {}, 0)
<1>1. Units(f, {}) = {}
  BY DEF Units
<1> QED
  BY <1>1, FS_EmptySet DEF AddsUp

\* A counter that no CPU has bumped.
LEMMA ZerosAddUp ==
    ASSUME NEW f, NEW S, \A c \in S : f[c] = 0 PROVE AddsUp(f, S, 0)
<1>1. Units(f, S) = {}
  BY DEF Units
<1> QED
  BY <1>1, FS_EmptySet DEF AddsUp

\* Only the copies of the CPUs that were read matter.
LEMMA SameAddsUp ==
    ASSUME NEW f, NEW g, NEW S, NEW n, \A c \in S : f[c] = g[c], AddsUp(f, S, n)
    PROVE  AddsUp(g, S, n)
<1>1. Units(g, S) = Units(f, S)
  BY DEF Units
<1> QED
  BY <1>1 DEF AddsUp

\* ReadStats() adds the copy of one more CPU.
LEMMA OneMoreAddsUp ==
    ASSUME NEW f, NEW S, NEW n, NEW c, AddsUp(f, S, n), c \notin S, f[c] \in Nat
    PROVE  n \in Nat /\ AddsUp(f, S \cup {c}, n + f[c])
<1> DEFINE m == f[c]
           mine == Units(f, {c})
           b == [i \in 1..m |-> <<c, i>>]
<1>1. /\ IsFiniteSet(Units(f, S)) /\ Cardinality(Units(f, S)) = n /\ n \in Nat
  BY FS_CardinalityType DEF AddsUp
<1>2. Units(f, S \cup {c}) = Units(f, S) \cup mine
  BY DEF Units
<1>3. Units(f, S) \cap mine = {}
  BY DEF Units
<1>4. IsFiniteSet(mine) /\ Cardinality(mine) = m
  <2>1. b \in Bijection(1..m, mine)
    <3>1. \A i \in 1..m : <<c, i>> \in mine
      BY DEF Units
    <3>2. ASSUME NEW u \in mine PROVE u[2] \in 1..m /\ u = <<c, u[2]>>
      BY <3>2 DEF Units
    <3>3. b \in [1..m -> mine]
      BY <3>1
    <3>4. \A i, j \in 1..m : b[i] = b[j] => i = j
      OBVIOUS
    <3>5. \A u \in mine : \E i \in 1..m : b[i] = u
      BY <3>2
    <3> HIDE DEF b, mine
    <3> QED
      BY <3>3, <3>4, <3>5 DEF Bijection, Injection, Surjection, IsInjective
  <2>2. IsFiniteSet(1..m) /\ Cardinality(1..m) = m
    BY SMTT(60), FS_Interval
  <2> QED
    BY <2>1, <2>2, FS_Bijection DEF ExistsBijection
<1>5. Cardinality({}) = 0
  BY FS_EmptySet
<1>6. /\ IsFiniteSet(Units(f, S) \cup mine)
      /\ Cardinality(Units(f, S) \cup mine) = n + m
  BY <1>1, <1>3, <1>4, <1>5, FS_Union
<1> QED
  BY <1>1, <1>2, <1>6 DEF AddsUp

\* A sum is no more than two others if it is so on each CPU.
LEMMA SumsCompare ==
    ASSUME NEW f, NEW g, NEW h, NEW S, NEW l, NEW m, NEW n,
           AddsUp(f, S, l), AddsUp(g, S, m), AddsUp(h, S, n),
           \A c \in S : /\ f[c] \in Nat /\ g[c] \in Nat /\ h[c] \in Nat
                        /\ f[c] <= g[c] + h[c]
    PROVE  l \in Nat /\ m \in Nat /\ n \in Nat /\ l <= m + n
<1> DEFINE F == Units(f, S)
           G == Units(g, S)
           H == Units(h, S)
           over == {u \in F : u[2] > g[u[1]]}
           j == [u \in over |-> <<u[1], u[2] - g[u[1]]>>]
<1>1. /\ IsFiniteSet(F) /\ Cardinality(F) = l /\ l \in Nat
      /\ IsFiniteSet(G) /\ Cardinality(G) = m /\ m \in Nat
      /\ IsFiniteSet(H) /\ Cardinality(H) = n /\ n \in Nat
  BY FS_CardinalityType DEF AddsUp
<1>2. F \subseteq G \cup over
  BY DEF Units
<1>3. IsFiniteSet(over) /\ Cardinality(over) \in Nat /\ Cardinality(over) <= n
  <2>1. ASSUME NEW u \in over
        PROVE  /\ <<u[1], u[2] - g[u[1]]>> \in H
               /\ u = <<u[1], u[2]>> /\ u[2] \in Nat /\ g[u[1]] \in Nat
    <3>1. /\ u \in S \X Nat /\ u[1] \in S /\ u[2] \in Nat
          /\ u[2] <= f[u[1]] /\ u[2] > g[u[1]]
      BY <2>1 DEF Units
    <3>2. /\ u[2] - g[u[1]] \in Nat /\ 1 <= u[2] - g[u[1]]
          /\ u[2] - g[u[1]] <= h[u[1]]
      BY <3>1
    <3> QED
      BY <3>1, <3>2 DEF Units
  <2>2. j \in [over -> H]
    BY <2>1
  <2>3. ASSUME NEW u \in over, NEW v \in over, j[u] = j[v] PROVE u = v
    <3>1. u[1] = v[1] /\ u[2] - g[u[1]] = v[2] - g[v[1]]
      BY <2>3
    <3>2. /\ u[2] \in Nat /\ v[2] \in Nat /\ g[u[1]] \in Nat
          /\ g[v[1]] = g[u[1]]
      BY <3>1, <2>1
    <3>3. u[2] = v[2]
      BY <3>1, <3>2
    <3> QED
      BY <3>1, <3>3, <2>1
  <2> HIDE DEF j, over, H
  <2>4. j \in Injection(over, H)
    BY <2>2, <2>3 DEF Injection, IsInjective
  <2>5. IsFiniteSet(over) /\ Cardinality(over) <= Cardinality(H)
    BY <2>4, <1>1, FS_Injection
  <2> QED
    BY <2>5, <1>1, FS_CardinalityType
<1> HIDE DEF F, G, H, over
<1>4. /\ IsFiniteSet(G \cup over)
      /\ Cardinality(G \cup over) =
            Cardinality(G) + Cardinality(over) - Cardinality(G \cap over)
  BY <1>1, <1>3, FS_Union
<1>5. Cardinality(G \cap over) \in Nat
  BY <1>1, FS_Intersection, FS_CardinalityType
<1>6. Cardinality(F) <= Cardinality(G \cup over)
  BY <1>2, <1>4, FS_Subset
<1> QED
  BY <1>1, <1>3, <1>4, <1>5, <1>6
----------------------------------------------------------------------------
\* The types.  A read is at most MaxMissed + 1 seconds after the last, and at
\* least one.
TypeInv ==
    /\ TypeOK
    /\ reader = Waiting => elapsed <= MaxMissed
    /\ reader # Waiting => elapsed >= 1
    /\ detector.state = "attack" => detector.type \in Protos \cup {"mixed"}

\* The constants and the counters, one by one.
LEMMA Numbers ==
    /\ DropLimit \in Nat /\ MaxMissed \in Nat
    /\ Weight \in Nat /\ Weight >= 2
    /\ Protos \subseteq Counters /\ Zeros \in Snapshot
    /\ {"pass_pkts", "drop_pkts", "banned", "rate"} \subseteq Counters
    /\ "drop_pkts" \notin Protos /\ "pass_pkts" \notin Protos
  BY TelemetryAssumption DEF Counters, Reasons, Zeros, Snapshot

\* The counters of a frame: at most three, a drop right after its reason.
Path(s) ==
    /\ s \in Seq(Counters) /\ Len(s) <= 3
    /\ \A i \in 1..Len(s) : s[i] = "drop_pkts" => i > 1 /\ s[i - 1] \in Reasons

\* Every way through the program bumps its counters so.
LEMMA PathsAreSo == \A s \in Paths : Path(s)
<1>1. Path(<<"pass_pkts">>)
  BY DEF Path, Counters
<1>2. Path(<<"banned", "drop_pkts">>)
  BY DEF Path, Counters, Reasons
<1>3. ASSUME NEW p \in Protos, NEW e \in {<<"pass_pkts">>, <<"rate", "drop_pkts">>}
      PROVE  Path(<<p>> \o e)
  <2>1. /\ e \in Seq(Counters) /\ Len(e) \in {1, 2} /\ e[1] # "drop_pkts"
        /\ Len(e) = 2 => e[1] \in Reasons
    <3>1. CASE e = <<"pass_pkts">>
      BY <3>1 DEF Counters
    <3>2. CASE e = <<"rate", "drop_pkts">>
      BY <3>2 DEF Counters, Reasons
    <3> QED
      BY <3>1, <3>2
  <2>2. /\ <<p>> \in Seq(Counters) /\ Len(<<p>>) = 1 /\ <<p>>[1] = p
        /\ p # "drop_pkts"
    BY Numbers
  <2> DEFINE a == <<p>>
             s == a \o e
  <2> HIDE DEF a
  <2>3. /\ s \in Seq(Counters) /\ Len(s) = 1 + Len(e)
        /\ \A i \in 1..Len(s) : s[i] = IF i <= 1 THEN a[i] ELSE e[i - 1]
    BY <2>1, <2>2, ConcatProperties DEF a
  <2> HIDE DEF s
  <2>4. CASE Len(e) = 1
    <3>1. s[1] # "drop_pkts" /\ s[2] # "drop_pkts" /\ Len(s) = 2
      BY <2>1, <2>2, <2>3, <2>4 DEF a
    <3> QED
      BY <2>3, <3>1 DEF Path, s, a
  <2>5. CASE Len(e) = 2
    <3>1. s[1] # "drop_pkts" /\ s[2] # "drop_pkts" /\ s[2] \in Reasons /\ Len(s) = 3
      BY <2>1, <2>2, <2>3, <2>5 DEF a
    <3>2. \A i \in 1..Len(s) : s[i] = "drop_pkts" => i = 3
      BY <3>1
    <3> QED
      BY <2>3, <3>1, <3>2 DEF Path, s, a
  <2> QED
    BY <2>1, <2>4, <2>5
<1>4. DropExit("banned") = <<"banned", "drop_pkts">>
      /\ DropExit("rate") = <<"rate", "drop_pkts">>
  BY DEF DropExit
<1> HIDE DEF DropExit
<1> QED
  <2> SUFFICES ASSUME NEW s \in Paths PROVE Path(s)
    OBVIOUS
  <2>1. CASE s \in {<<"pass_pkts">>, DropExit("banned")}
    BY <2>1, <1>1, <1>2, <1>4
  <2>2. CASE s \in {<<p>> \o <<"pass_pkts">> : p \in Protos}
    BY <2>2, <1>3
  <2>3. CASE s \in {<<p>> \o DropExit("rate") : p \in Protos}
    BY <2>3, <1>3, <1>4
  <2> QED
    BY <2>1, <2>2, <2>3 DEF Paths

\* Whole units of a rate.
LEMMA Quotient ==
    ASSUME NEW m \in Nat, m >= 1, NEW a \in Nat
    PROVE  a \div m \in Nat /\ (a = 0 => a \div m = 0)
  OBVIOUS

\* A sample leaves a base of the right type, and an attack has one.
LEMMA Sample ==
    ASSUME TypeInv, Complete,
           NEW base \in NewBaselines(Rate("pass_pkts") + Rate("drop_pkts"))
    PROVE  LET new == Updated(base, Rate("pass_pkts") + Rate("drop_pkts"))
           IN  /\ new \in [state : {"normal", "attack"},
                           type : Protos \cup {"mixed", ""},
                           base : Nat \cup {NoBaseline}]
               /\ new.state = "attack" =>
                     new.base \in Nat /\ new.type \in Protos \cup {"mixed"}
<1> DEFINE total == Rate("pass_pkts") + Rate("drop_pkts")
<1>1. /\ elapsed \in Nat /\ elapsed >= 1
      /\ reader.curr \in Snapshot /\ prev \in Snapshot
      /\ detector.base \in Nat \cup {NoBaseline}
      /\ detector.state = "attack" => detector.base \in Nat
      /\ detector.state \in {"normal", "attack"}
  <2>0. TypeOK
    BY DEF TypeInv
  <2>1. reader # Waiting
    <3>1. Len(ReadOrder) \in Nat
      BY Order
    <3> QED
      BY <3>1 DEF Complete, Waiting
  <2>2. elapsed >= 1
    BY <2>1 DEF TypeInv
  <2>3. elapsed \in 0..MaxMissed + 1 /\ MaxMissed \in Nat
    BY <2>0, Numbers DEF TypeOK
  <2>4. reader.curr \in Snapshot /\ prev \in Snapshot
    BY <2>0 DEF TypeOK
  <2>5. /\ detector.base \in Nat \cup {NoBaseline}
        /\ detector.state = "attack" => detector.base \in Nat
        /\ detector.state \in {"normal", "attack"}
    BY <2>0 DEF TypeOK
  <2> QED
    BY <2>2, <2>3, <2>4, <2>5
<1>2. \A k \in Counters : Delta(k) \in Nat
  BY <1>1 DEF Delta, SafeSub, Snapshot
<1>3. \A k \in Counters : Rate(k) \in Nat
  BY <1>1, <1>2, Quotient DEF Rate
<1>4. total \in Nat /\ Rate("drop_pkts") \in Nat /\ (total = 0 => Rate("drop_pkts") = 0)
  BY <1>3, Numbers
<1> HIDE DEF total
<1>5. base \in Nat \/ (base = NoBaseline /\ total = 0)
  <2>1. CASE detector.base = NoBaseline
    <3>1. base = IF total = 0 THEN NoBaseline ELSE 5 * total
      BY <2>1 DEF NewBaselines, total
    <3> QED
      BY <3>1, <1>4
  <2>2. CASE detector.base # NoBaseline /\ detector.state = "normal"
    <3>1. base \in Smoothed(detector.base, total) /\ detector.base \in Nat
      BY <2>2, <1>1 DEF NewBaselines, total
    <3> DEFINE low == 5 * total + (Weight - 1) * detector.base
    <3>2. low \in Nat
      <4>1. (Weight - 1) * detector.base \in Nat
        BY <3>1, Numbers
      <4> QED
        BY <4>1, <1>4
    <3> HIDE DEF low
    <3>3. low \div Weight \in Nat /\ (low + Weight - 2) \div Weight \in Nat
      BY <3>2, Numbers, Quotient
    <3>4. base \in low \div Weight .. (low + Weight - 2) \div Weight
      BY <3>1 DEF Smoothed, low
    <3> QED
      BY <3>3, <3>4
  <2>3. CASE detector.base # NoBaseline /\ detector.state # "normal"
    BY <2>3, <1>1 DEF NewBaselines, total
  <2> QED
    BY <2>1, <2>2, <2>3
<1>6. UnderAttack(base, total) => base \in Nat
  BY <1>4, <1>5, Numbers DEF UnderAttack, NoBaseline
<1>7. AttackType \in Protos \cup {"mixed"}
  BY DEF AttackType
<1> QED
  BY <1>5, <1>6, <1>7 DEF Updated, total

\* The program starts with zero counters and the detector without a baseline.
LEMMA TypeStart == Init => TypeInv
<1> SUFFICES ASSUME Init PROVE TypeInv
  OBVIOUS
<1>1. reader = Waiting /\ Len(ReadOrder) \in Nat /\ Zeros \in Snapshot
  BY Order, Numbers DEF Init
<1>2. reader \in [index : 0..Len(ReadOrder) + 1, left : SUBSET CPU, curr : Snapshot]
  BY <1>1 DEF Waiting
<1>3. todo \in [CPU -> Seq(Counters)] /\ \A c \in CPU : Len(todo[c]) <= 3
  <2>1. todo = [c \in CPU |-> <<>>]
    BY DEF Init
  <2>2. <<>> \in Seq(Counters) /\ Len(<<>>) = 0
    OBVIOUS
  <2> QED
    BY <2>1, <2>2
<1>4. history \in Seq(Protos \cup {"mixed"})
  <2>1. history = <<>>
    BY DEF Init
  <2>2. <<>> \in Seq(Protos \cup {"mixed"})
    OBVIOUS
  <2> QED
    BY <2>1, <2>2
<1>5. stats \in [CPU -> Snapshot] /\ prev \in Snapshot
  BY <1>1 DEF Init
<1>6. /\ detector.state = "normal" /\ elapsed = 0
      /\ detector \in [state : {"normal", "attack"},
                       type : Protos \cup {"mixed", ""},
                       base : Nat \cup {NoBaseline}]
  BY DEF Init
<1>7. frames \in Nat /\ fed \in Nat /\ hasPrev \in BOOLEAN /\ capture \in BOOLEAN
  BY DEF Init
<1>9. elapsed \in 0..MaxMissed + 1 /\ elapsed <= MaxMissed
  <2>1. elapsed = 0
    BY <1>6
  <2>2. MaxMissed \in Nat
    BY Numbers
  <2> QED
    BY <2>1, <2>2
<1>8. TypeOK
  <2>1. elapsed \in 0..MaxMissed + 1
    BY <1>9
  <2> QED
    BY <1>2, <1>3, <1>4, <1>5, <1>6, <1>7, <2>1 DEF TypeOK
<1> QED
  BY <1>1, <1>6, <1>8, <1>9 DEF TypeInv

\* Each step of a CPU and of the monitor keeps the types.
LEMMA TypeStep == TypeInv /\ [Next]_vars => TypeInv'
<1> SUFFICES ASSUME TypeInv, [Next]_vars PROVE TypeInv'
  OBVIOUS
<1>0. /\ TypeOK /\ stats \in [CPU -> Snapshot]
      /\ todo \in [CPU -> Seq(Counters)] /\ \A c \in CPU : Len(todo[c]) <= 3
      /\ frames \in Nat /\ fed \in Nat
      /\ reader \in [index : 0..Len(ReadOrder) + 1, left : SUBSET CPU, curr : Snapshot]
      /\ prev \in Snapshot /\ elapsed \in 0..MaxMissed + 1
      /\ history \in Seq(Protos \cup {"mixed"})
      /\ reader = Waiting => elapsed <= MaxMissed
      /\ reader # Waiting => elapsed >= 1
      /\ detector.state = "attack" => detector.type \in Protos \cup {"mixed"}
  BY DEF TypeInv, TypeOK
<1>9. Len(ReadOrder) \in Nat /\ MaxMissed \in Nat
  BY Numbers, Order
<1>10. Waiting \in [index : 0..Len(ReadOrder) + 1, left : SUBSET CPU, curr : Snapshot]
  BY <1>9, Numbers DEF Waiting
<1>1. ASSUME NEW c \in CPU, NEW path \in Paths, Arrive(c, path) PROVE TypeInv'
  <2>1. path \in Seq(Counters) /\ Len(path) <= 3
    BY PathsAreSo DEF Path
  <2>2. todo' \in [CPU -> Seq(Counters)] /\ \A d \in CPU : Len(todo'[d]) <= 3
    BY <1>1, <2>1, <1>0 DEF Arrive
  <2> QED
    <3>1. frames' \in Nat
      BY <1>0, <1>1 DEF Arrive
    <3> QED
      BY <1>0, <1>1, <2>2, <3>1 DEF Arrive, TypeInv, TypeOK
<1>2. ASSUME NEW c \in CPU, Bump(c) PROVE TypeInv'
  <2> DEFINE s == todo[c]
  <2>1. s \in Seq(Counters) /\ s # <<>> /\ Len(s) <= 3
    BY <1>2, <1>0 DEF Bump
  <2>2. /\ Tail(s) \in Seq(Counters) /\ Len(Tail(s)) <= 3 /\ Head(s) \in Counters
    <3>1. Len(s) \in Nat /\ Len(Tail(s)) = Len(s) - 1
      BY <2>1, HeadTailProperties
    <3> QED
      BY <2>1, <3>1, HeadTailProperties
  <2>3. todo' \in [CPU -> Seq(Counters)] /\ \A d \in CPU : Len(todo'[d]) <= 3
    BY <1>2, <2>2, <1>0 DEF Bump
  <2>4. stats' \in [CPU -> Snapshot]
    <3>1. stats' = [stats EXCEPT ![c][Head(s)] = stats[c][Head(s)] + 1]
      BY <1>2 DEF Bump
    <3>2. stats[c] \in [Counters -> Nat]
      BY <1>0 DEF Snapshot
    <3>3. [stats[c] EXCEPT ![Head(s)] = stats[c][Head(s)] + 1] \in [Counters -> Nat]
      BY <3>2, <2>2
    <3> QED
      BY <3>1, <3>3, <1>0 DEF Snapshot
  <2> QED
    BY <1>0, <1>2, <2>3, <2>4 DEF Bump, TypeInv, TypeOK
<1>3. CASE Tick
  <2>1. reader = Waiting /\ elapsed' = elapsed + 1
        /\ reader' = [index |-> 1, left |-> CPU, curr |-> Zeros]
    BY <1>3 DEF Tick, Waiting
  <2>2. reader' \in [index : 0..Len(ReadOrder) + 1, left : SUBSET CPU, curr : Snapshot]
    BY <2>1, <1>9, Numbers
  <2>3. elapsed' \in 0..MaxMissed + 1 /\ elapsed' >= 1
    BY <2>1, <1>0, <1>9
  <2>4. reader' # Waiting
    BY <2>1 DEF Waiting
  <2> QED
    BY <1>0, <1>3, <2>2, <2>3, <2>4 DEF Tick, TypeInv, TypeOK
<1>4. ASSUME NEW c \in CPU, Copy(c) PROVE TypeInv'
  <2> DEFINE k == ReadOrder[reader.index]
  <2>1. /\ reader.index \in 1..Len(ReadOrder) /\ k \in Counters
    <3>1. ReadOrder \in Seq(Counters)
      BY Order DEF Goes
    <3>2. reader.index \in DOMAIN ReadOrder
      BY <1>4 DEF Copy, Reading
    <3> QED
      BY <3>1, <3>2
  <2>2. [reader.curr EXCEPT ![k] = reader.curr[k] + stats[c][k]] \in Snapshot
    BY SMTT(60), <2>1, <1>0 DEF Snapshot
  <2>3. reader' \in [index : 1..Len(ReadOrder) + 1, left : SUBSET CPU, curr : Snapshot]
    BY <1>4, <2>1, <2>2, <1>0, <1>9 DEF Copy
  <2>4. reader # Waiting /\ reader' # Waiting
    BY <2>1, <2>3 DEF Waiting
  <2> QED
    <3>1. reader' \in [index : 0..Len(ReadOrder) + 1, left : SUBSET CPU, curr : Snapshot]
      BY <2>3, <1>9
    <3> QED
      BY <1>0, <1>4, <2>4, <3>1 DEF Copy, TypeInv, TypeOK
<1>5. CASE ReadFails
  BY <1>0, <1>5, <1>10 DEF ReadFails, PrevAfterFailure, TypeInv, TypeOK
<1>6. CASE Observe
  <2>1. /\ detector' \in [state : {"normal", "attack"},
                          type : Protos \cup {"mixed", ""},
                          base : Nat \cup {NoBaseline}]
        /\ detector'.state = "attack" =>
              detector'.base \in Nat /\ detector'.type \in Protos \cup {"mixed"}
        /\ history' \in Seq(Protos \cup {"mixed"})
        /\ capture' \in BOOLEAN
    <3>1. CASE ~hasPrev
      BY <1>6, <3>1, <1>0 DEF Observe, TypeOK
    <3>2. CASE hasPrev
      <4> DEFINE total == Rate("pass_pkts") + Rate("drop_pkts")
      <4>1. PICK base \in NewBaselines(total) :
               /\ detector' = Updated(base, total)
               /\ Logged(detector, detector')
               /\ Captured(detector, detector')
        BY <1>6, <3>2 DEF Observe
      <4>2. Complete
        BY <1>6 DEF Observe
      <4>3. history' \in Seq(Protos \cup {"mixed"})
        <5>1. CASE history' = history
          BY <5>1, <1>0
        <5>2. CASE /\ detector.state = "attack"
                   /\ history' = Append(history, detector.type)
          BY <5>2, <1>0, AppendProperties
        <5> QED
          BY <4>1, <5>1, <5>2 DEF Logged, RecordType
      <4>4. capture' \in BOOLEAN
        BY <4>1 DEF Captured
      <4> QED
        BY <4>1, <4>2, <4>3, <4>4, Sample
    <3> QED
      BY <3>1, <3>2
  <2>2. fed' \in Nat
    <3>1. Delta("drop_pkts") \in Nat
      BY SMTT(60), <1>0, Numbers DEF Delta, SafeSub, Snapshot
    <3> QED
      BY <1>6, <3>1, <1>0 DEF Observe
  <2>3. prev' \in Snapshot /\ hasPrev' \in BOOLEAN /\ elapsed' = 0 /\ reader' = Waiting
    BY <1>6, <1>0 DEF Observe
  <2> QED
    <3>1. elapsed' \in 0..MaxMissed + 1 /\ elapsed' <= MaxMissed
      BY <2>3, <1>9
    <3>2. UNCHANGED <<stats, todo, frames>>
      BY <1>6 DEF Observe
    <3>3. TypeOK'
      BY <1>0, <1>10, <2>1, <2>2, <2>3, <3>1, <3>2 DEF TypeOK
    <3> QED
      BY <2>1, <2>3, <3>1, <3>3 DEF TypeInv
<1>7. CASE CaptureEnds
  BY <1>0, <1>7 DEF CaptureEnds, TypeInv, TypeOK
<1>8. CASE UNCHANGED vars
  BY <1>8 DEF vars, TypeInv, TypeOK
<1> QED
  BY <1>1, <1>2, <1>3, <1>4, <1>5, <1>6, <1>7, <1>8 DEF Next, Kernel, Monitor

\* The types of the counters, the snapshots, the detector and the attack log.
THEOREM TypeCorrect == Spec => []TypeOK
<1>1. TypeInv => TypeOK
  BY DEF TypeInv
<1> QED
  BY <1>1, TypeStart, TypeStep, PTL DEF Spec

----------------------------------------------------------------------------
\* On a CPU no drop is counted before its reason.
Owes(c) == todo[c] # <<>> /\ todo[c][1] = "drop_pkts"

ReasonInv ==
    \A c \in CPU :
        /\ \A i \in 2..Len(todo[c]) :
              todo[c][i] = "drop_pkts" => todo[c][i - 1] \in Reasons
        /\ stats[c]["drop_pkts"] + (IF Owes(c) THEN 1 ELSE 0) <=
              stats[c]["banned"] + stats[c]["rate"]

\* A CPU that counts a frame keeps the reasons ahead of the drops.
LEMMA ReasonStep == TypeInv /\ ReasonInv /\ [Next]_vars => ReasonInv'
<1> SUFFICES ASSUME TypeInv, ReasonInv, [Next]_vars PROVE ReasonInv'
  OBVIOUS
<1>0. /\ stats \in [CPU -> Snapshot] /\ todo \in [CPU -> Seq(Counters)]
      /\ \A c \in CPU : /\ stats[c]["drop_pkts"] \in Nat
                        /\ stats[c]["banned"] \in Nat /\ stats[c]["rate"] \in Nat
  <2>1. /\ stats \in [CPU -> Snapshot] /\ todo \in [CPU -> Seq(Counters)]
    BY DEF TypeInv, TypeOK
  <2>2. ASSUME NEW c \in CPU, NEW k \in Counters PROVE stats[c][k] \in Nat
    BY <2>1 DEF Snapshot
  <2>3. {"drop_pkts", "banned", "rate"} \subseteq Counters
    BY Numbers
  <2> QED
    BY <2>1, <2>2, <2>3
<1>1. CASE UNCHANGED <<stats, todo>>
  BY <1>1 DEF ReasonInv, Owes
<1>2. ASSUME NEW c \in CPU, NEW path \in Paths, Arrive(c, path) PROVE ReasonInv'
  <2>1. /\ Path(path) /\ stats' = stats
        /\ todo' = [todo EXCEPT ![c] = path]
    BY <1>2, PathsAreSo DEF Arrive
  <2>2. ASSUME NEW d \in CPU
        PROVE  /\ \A i \in 2..Len(todo'[d]) :
                     todo'[d][i] = "drop_pkts" => todo'[d][i - 1] \in Reasons
               /\ stats'[d]["drop_pkts"] + (IF Owes(d)' THEN 1 ELSE 0) <=
                     stats'[d]["banned"] + stats'[d]["rate"]
    <3>1. CASE d # c
      BY <2>1, <3>1, <1>0 DEF ReasonInv, Owes
    <3>2. CASE d = c
      <4>1. todo'[c] = path /\ path \in Seq(Counters) /\ Len(path) \in Nat
        BY <2>1, <1>0 DEF Path
      <4>2. \A i \in 2..Len(path) : path[i] = "drop_pkts" => path[i - 1] \in Reasons
        BY <2>1, <4>1 DEF Path
      <4>3. ~Owes(c)'
        <5>1. path # <<>> => 1 \in 1..Len(path)
          BY <4>1
        <5>2. path # <<>> => path[1] # "drop_pkts"
          BY <2>1, <5>1 DEF Path
        <5> QED
          BY <4>1, <5>2 DEF Owes
      <4>4. stats[c]["drop_pkts"] <= stats[c]["banned"] + stats[c]["rate"]
        <5>1. /\ stats[c]["drop_pkts"] + (IF Owes(c) THEN 1 ELSE 0) <=
                    stats[c]["banned"] + stats[c]["rate"]
              /\ stats[c]["drop_pkts"] \in Nat /\ stats[c]["banned"] \in Nat
              /\ stats[c]["rate"] \in Nat
          BY <1>0 DEF ReasonInv
        <5> QED
          BY <5>1
      <4> QED
        BY <3>2, <4>1, <4>2, <4>3, <4>4, <2>1, <1>0
    <3> QED
      BY <3>1, <3>2
  <2> QED
    BY <2>2 DEF ReasonInv
<1>3. ASSUME NEW c \in CPU, Bump(c) PROVE ReasonInv'
  <2> DEFINE s == todo[c]
             k == Head(s)
  <2>1. /\ s \in Seq(Counters) /\ s # <<>> /\ k \in Counters /\ k = s[1]
        /\ stats' = [stats EXCEPT ![c][k] = stats[c][k] + 1]
        /\ todo' = [todo EXCEPT ![c] = Tail(s)]
    BY <1>3, <1>0 DEF Bump
  <2>2. /\ Len(s) \in Nat /\ Len(s) >= 1
        /\ Tail(s) \in Seq(Counters) /\ Len(Tail(s)) = Len(s) - 1
        /\ \A i \in 1..Len(s) - 1 : Tail(s)[i] = s[i + 1]
    BY <2>1
  <2>3. ASSUME NEW d \in CPU
        PROVE  /\ \A i \in 2..Len(todo'[d]) :
                     todo'[d][i] = "drop_pkts" => todo'[d][i - 1] \in Reasons
               /\ stats'[d]["drop_pkts"] + (IF Owes(d)' THEN 1 ELSE 0) <=
                     stats'[d]["banned"] + stats'[d]["rate"]
    <3>1. CASE d # c
      BY <2>1, <3>1, <1>0 DEF ReasonInv, Owes
    <3>2. CASE d = c
      <4>1. todo'[c] = Tail(s)
        BY <2>1, <1>0
      <4>2. ASSUME NEW i \in 2..Len(Tail(s)), Tail(s)[i] = "drop_pkts"
            PROVE  Tail(s)[i - 1] \in Reasons
        <5>1. /\ i \in 1..Len(s) - 1 /\ i - 1 \in 1..Len(s) - 1
              /\ i + 1 \in 2..Len(s) /\ i - 1 + 1 = i /\ i + 1 - 1 = i
          BY <2>2
        <5>2. Tail(s)[i] = s[i + 1] /\ Tail(s)[i - 1] = s[i]
          BY <2>2, <5>1
        <5>3. s[i + 1] = "drop_pkts" => s[i] \in Reasons
          BY <5>1 DEF ReasonInv
        <5> QED
          BY <4>2, <5>2, <5>3
      <4>3. Owes(c)' => k \in Reasons
        <5>1. Owes(c)' => Len(s) - 1 >= 1 /\ Tail(s)[1] = "drop_pkts"
          BY <4>1, <2>2 DEF Owes
        <5>2. ASSUME Len(s) - 1 >= 1, Tail(s)[1] = "drop_pkts" PROVE s[1] \in Reasons
          <6>1. Tail(s)[1] = s[2] /\ 2 \in 2..Len(s) /\ 2 - 1 = 1
            BY <5>2, <2>2
          <6> QED
            BY <5>2, <6>1 DEF ReasonInv
        <5> QED
          BY <5>1, <5>2, <2>1
      <4>4. Owes(c) <=> k = "drop_pkts"
        BY <2>1 DEF Owes
      <4>5. stats'[c] = [stats[c] EXCEPT ![k] = stats[c][k] + 1]
        BY <2>1, <1>0
      <4>6. stats[c] \in [Counters -> Nat]
        BY <1>0 DEF Snapshot
      <4> HIDE DEF k
      <4>7. \A n \in Counters :
               stats'[c][n] = IF n = k THEN stats[c][n] + 1 ELSE stats[c][n]
        BY <4>5, <4>6
      <4>8. stats[c]["drop_pkts"] + (IF k = "drop_pkts" THEN 1 ELSE 0) <=
               stats[c]["banned"] + stats[c]["rate"]
        BY <4>4 DEF ReasonInv
      <4>9. /\ stats'[c]["drop_pkts"] =
                  IF k = "drop_pkts" THEN stats[c]["drop_pkts"] + 1
                                     ELSE stats[c]["drop_pkts"]
            /\ stats'[c]["banned"] =
                  IF k = "banned" THEN stats[c]["banned"] + 1 ELSE stats[c]["banned"]
            /\ stats'[c]["rate"] =
                  IF k = "rate" THEN stats[c]["rate"] + 1 ELSE stats[c]["rate"]
        BY <4>7, Numbers
      <4>10. stats'[c]["drop_pkts"] + (IF Owes(c)' THEN 1 ELSE 0) <=
                stats'[c]["banned"] + stats'[c]["rate"]
        <5>1. CASE k \in Reasons
          BY SMTT(60), <5>1, <4>8, <4>9, <1>0 DEF Reasons
        <5>2. CASE k \notin Reasons
          BY <5>2, <4>3, <4>8, <4>9, <1>0 DEF Reasons
        <5> QED
          BY <5>1, <5>2
      <4> QED
        BY <3>2, <4>1, <4>2, <4>10
    <3> QED
      BY <3>1, <3>2
  <2> QED
    BY <2>3 DEF ReasonInv
<1> QED
  BY <1>1, <1>2, <1>3 DEF Next, Kernel, Monitor, Tick, Copy, ReadFails, Observe,
     CaptureEnds, vars
----------------------------------------------------------------------------
\* The CPUs whose copy of a counter is in the snapshot.
Copied(r, k) ==
    {c \in CPU : \E i \in 1..Len(ReadOrder) :
                    /\ ReadOrder[i] = k
                    /\ i < r.index \/ (i = r.index /\ c \notin r.left)}

\* The snapshot is the sum of copies that the CPUs had, copy[k][c] for a
\* counter and a CPU, and the last one's drops are the sum of earlier ones;
\* the drops of a CPU were copied before their reasons.
CopiesSumUp(copy, last) ==
    /\ \A k \in Counters : AddsUp(copy[k], Copied(reader, k), reader.curr[k])
    /\ AddsUp(last, CPU, prev["drop_pkts"])
    /\ \A c \in CPU : last[c] <= stats[c]["drop_pkts"]
    /\ \A c \in Copied(reader, "drop_pkts") :
          /\ last[c] <= copy["drop_pkts"][c]
          /\ copy["drop_pkts"][c] <= stats[c]["drop_pkts"]
    /\ \A c \in Copied(reader, "banned") :
          copy["drop_pkts"][c] <= copy["banned"][c] + stats[c]["rate"]
    /\ \A c \in Copied(reader, "rate") :
          copy["drop_pkts"][c] <= copy["banned"][c] + copy["rate"][c]

SnapshotInv ==
    \E copy \in [Counters -> [CPU -> Nat]], last \in [CPU -> Nat] :
        CopiesSumUp(copy, last)

\* Before the first counter nothing is copied, after the last one everything.
LEMMA CopiedEnds ==
    ASSUME NEW r, NEW k \in Counters
    PROVE  /\ r.index = 0 => Copied(r, k) = {}
           /\ r.index = 1 /\ r.left = CPU => Copied(r, k) = {}
           /\ r.index \in Nat /\ r.index > Len(ReadOrder) => Copied(r, k) = CPU
<1>1. Len(ReadOrder) \in Nat
  BY Order
<1>2. PICK i \in 1..Len(ReadOrder) : ReadOrder[i] = k
  BY Order DEF Goes
<1>3. ASSUME r.index = 0 PROVE Copied(r, k) = {}
  BY <1>1, <1>3 DEF Copied
<1>4. ASSUME r.index = 1, r.left = CPU PROVE Copied(r, k) = {}
  BY <1>1, <1>4 DEF Copied
<1>5. ASSUME r.index \in Nat, r.index > Len(ReadOrder) PROVE Copied(r, k) = CPU
  <2>1. i < r.index
    BY <1>1, <1>2, <1>5
  <2> QED
    BY <1>2, <2>1 DEF Copied
<1> QED
  BY <1>3, <1>4, <1>5

\* A lookup adds one CPU to what is copied of its counter; when it is about a
\* reason, the drops are copied of all CPUs, and so on.
LEMMA CopyAdds ==
    ASSUME TypeInv, NEW c \in CPU, Copy(c)
    PROVE  LET k == ReadOrder[reader.index]
           IN  /\ k \in Counters
               /\ c \notin Copied(reader, k)
               /\ Copied(reader', k) = Copied(reader, k) \cup {c}
               /\ \A j \in Counters \ {k} : Copied(reader', j) = Copied(reader, j)
               /\ k = "drop_pkts" => Copied(reader, "banned") = {}
               /\ k \in {"drop_pkts", "banned"} => Copied(reader, "rate") = {}
               /\ k \in {"banned", "rate"} => Copied(reader, "drop_pkts") = CPU
               /\ k = "rate" => Copied(reader, "banned") = CPU
<1> DEFINE n == reader.index
           k == ReadOrder[n]
           L == Len(ReadOrder)
<1>1. /\ n \in 1..L /\ L \in Nat /\ L >= 4 /\ c \in reader.left
      /\ reader.left \subseteq CPU
  <2>1. ReadOrder \in Seq(Counters) /\ L \in Nat /\ L >= 4
    BY Order DEF Goes
  <2>2. n \in DOMAIN ReadOrder /\ c \in reader.left
    BY DEF Copy, Reading
  <2>3. reader.left \subseteq CPU
    BY DEF TypeInv, TypeOK
  <2> QED
    BY <2>1, <2>2, <2>3
<1>2. /\ \A i \in 1..L : ReadOrder[i] \in Counters
      /\ \A i, j \in 1..L : ReadOrder[i] = ReadOrder[j] => i = j
      /\ ReadOrder[2] = "drop_pkts" /\ ReadOrder[L - 1] = "banned"
      /\ ReadOrder[L] = "rate"
  BY Order DEF Goes
<1>3. /\ 2 \in 1..L /\ L - 1 \in 1..L /\ L \in 1..L /\ 2 < L - 1 /\ L - 1 < L
  BY <1>1
<1>4. \/ /\ reader.left = {c} /\ reader'.index = n + 1 /\ reader'.left = CPU
      \/ /\ reader'.index = n /\ reader'.left = reader.left \ {c}
  BY DEF Copy
<1> HIDE DEF n, L
<1>5. ASSUME NEW i \in 1..L
      PROVE  Copied(reader, ReadOrder[i]) =
                {d \in CPU : i < n \/ (i = n /\ d \notin reader.left)}
  BY <1>2 DEF Copied, n, L
<1>6. ASSUME NEW i \in 1..L
      PROVE  Copied(reader', ReadOrder[i]) =
                {d \in CPU : \/ i < reader'.index
                             \/ i = reader'.index /\ d \notin reader'.left}
  BY <1>2 DEF Copied, L
<1>7. k \in Counters /\ c \notin Copied(reader, k)
  BY <1>1, <1>2, <1>5
<1>8. ASSUME NEW i \in 1..L
      PROVE  Copied(reader', ReadOrder[i]) =
                IF i = n THEN Copied(reader, k) \cup {c}
                         ELSE Copied(reader, ReadOrder[i])
  <2>1. CASE reader.left = {c} /\ reader'.index = n + 1 /\ reader'.left = CPU
    <3>1. Copied(reader', ReadOrder[i]) = {d \in CPU : i <= n}
      BY <2>1, <1>1, <1>6
    <3>2. CASE i = n
      <4>1. Copied(reader, ReadOrder[i]) = CPU \ {c}
        BY <2>1, <3>2, <1>1, <1>5
      <4> QED
        BY <3>1, <3>2, <4>1, <1>1
    <3>3. CASE i # n
      <4>1. Copied(reader, ReadOrder[i]) = {d \in CPU : i < n}
        BY <3>3, <1>5
      <4>2. i <= n <=> i < n
        BY <3>3, <1>1
      <4> QED
        BY <3>1, <3>3, <4>1, <4>2
    <3> QED
      BY <3>2, <3>3
  <2>2. CASE reader'.index = n /\ reader'.left = reader.left \ {c}
    BY <2>2, <1>1, <1>5, <1>6
  <2> QED
    BY <2>1, <2>2, <1>4
<1>9. ASSUME NEW j \in Counters, j # k
      PROVE  Copied(reader', j) = Copied(reader, j)
  <2>1. PICK i \in 1..L : ReadOrder[i] = j
    BY Order DEF Goes, L
  <2> QED
    BY <2>1, <1>8, <1>9
<1>10. Copied(reader', k) = Copied(reader, k) \cup {c}
  BY <1>1, <1>8
<1>11. /\ k = "drop_pkts" => n = 2
       /\ k = "banned" => n = L - 1
       /\ k = "rate" => n = L
  BY <1>1, <1>2, <1>3
<1>12. /\ Copied(reader, "drop_pkts") =
             {d \in CPU : 2 < n \/ (2 = n /\ d \notin reader.left)}
       /\ Copied(reader, "banned") =
             {d \in CPU : L - 1 < n \/ (L - 1 = n /\ d \notin reader.left)}
       /\ Copied(reader, "rate") =
             {d \in CPU : L < n \/ (L = n /\ d \notin reader.left)}
  BY <1>2, <1>3, <1>5
<1>13. k = "drop_pkts" => Copied(reader, "banned") = {} /\ Copied(reader, "rate") = {}
  BY <1>1, <1>3, <1>11, <1>12
<1>14. k = "banned" => Copied(reader, "rate") = {} /\ Copied(reader, "drop_pkts") = CPU
  BY <1>1, <1>3, <1>11, <1>12
<1>15. k = "rate" => Copied(reader, "banned") = CPU /\ Copied(reader, "drop_pkts") = CPU
  BY <1>1, <1>3, <1>11, <1>12
<1> QED
  BY <1>7, <1>9, <1>10, <1>13, <1>14, <1>15 DEF n

\* At the start nothing is copied and nothing was.
LEMMA SnapshotStart == Init => SnapshotInv
<1> SUFFICES ASSUME Init PROVE SnapshotInv
  OBVIOUS
<1> DEFINE copy == [k \in Counters |-> [c \in CPU |-> 0]]
           last == [c \in CPU |-> 0]
<1>1. copy \in [Counters -> [CPU -> Nat]] /\ last \in [CPU -> Nat]
  OBVIOUS
<1>2. /\ reader.index = 0 /\ \A k \in Counters : reader.curr[k] = 0
      /\ prev["drop_pkts"] = 0
      /\ \A c \in CPU : stats[c]["drop_pkts"] = 0
  BY Numbers DEF Init, Waiting, Zeros
<1>3. \A k \in Counters : Copied(reader, k) = {}
  BY <1>2, CopiedEnds
<1>4. \A k \in Counters : AddsUp(copy[k], Copied(reader, k), reader.curr[k])
  BY <1>2, <1>3, NothingAddsUp
<1>5. AddsUp(last, CPU, prev["drop_pkts"])
  BY <1>2, ZerosAddUp
<1>6. \A c \in CPU : last[c] <= stats[c]["drop_pkts"]
  BY <1>2
<1> HIDE DEF copy, last
<1>7. CopiesSumUp(copy, last)
  BY <1>3, <1>4, <1>5, <1>6, Numbers DEF CopiesSumUp
<1> QED
  BY <1>1, <1>7 DEF SnapshotInv

\* A snapshot begins with nothing copied.
LEMMA FreshSnapshot ==
    ASSUME NEW copy, NEW last,
           \A k \in Counters : Copied(reader', k) = {} /\ reader'.curr[k] = 0,
           AddsUp(last, CPU, prev'["drop_pkts"]),
           \A c \in CPU : last[c] <= stats'[c]["drop_pkts"],
           copy \in [Counters -> [CPU -> Nat]], last \in [CPU -> Nat]
    PROVE  SnapshotInv'
<1>1. \A k \in Counters : AddsUp(copy[k], Copied(reader', k), reader'.curr[k])
  BY NothingAddsUp
<1>2. CopiesSumUp(copy, last)'
  BY <1>1, Numbers DEF CopiesSumUp
<1> QED
  BY <1>2 DEF SnapshotInv

\* When a snapshot is complete, its drops are no fewer than the last one's.
LEMMA CompleteSnapshot ==
    ASSUME TypeInv, Complete,
           NEW copy \in [Counters -> [CPU -> Nat]], NEW last \in [CPU -> Nat],
           CopiesSumUp(copy, last)
    PROVE  /\ AddsUp(copy["drop_pkts"], CPU, reader.curr["drop_pkts"])
           /\ \A c \in CPU : copy["drop_pkts"][c] <= stats[c]["drop_pkts"]
           /\ prev["drop_pkts"] <= reader.curr["drop_pkts"]
           /\ reader.curr["drop_pkts"] <=
                 reader.curr["banned"] + reader.curr["rate"]
<1> DEFINE zero == [c \in CPU |-> 0]
<1>1. \A k \in Counters : Copied(reader, k) = CPU
  <2>1. Len(ReadOrder) \in Nat
    BY Order
  <2>2. reader.index \in Nat /\ reader.index > Len(ReadOrder)
    <3>1. reader.index \in 0..Len(ReadOrder) + 1
      BY DEF TypeInv, TypeOK
    <3> QED
      BY <2>1, <3>1 DEF Complete
  <2> QED
    BY <2>2, CopiedEnds
<1>2. /\ AddsUp(copy["drop_pkts"], CPU, reader.curr["drop_pkts"])
      /\ AddsUp(copy["banned"], CPU, reader.curr["banned"])
      /\ AddsUp(copy["rate"], CPU, reader.curr["rate"])
  BY <1>1, Numbers DEF CopiesSumUp
<1>3. AddsUp(last, CPU, prev["drop_pkts"]) /\ AddsUp(zero, CPU, 0)
  BY ZerosAddUp DEF CopiesSumUp
<1>4. ASSUME NEW c \in CPU
      PROVE  /\ copy["drop_pkts"][c] \in Nat /\ copy["banned"][c] \in Nat
             /\ copy["rate"][c] \in Nat /\ last[c] \in Nat /\ zero[c] = 0
             /\ last[c] <= copy["drop_pkts"][c]
             /\ copy["drop_pkts"][c] <= stats[c]["drop_pkts"]
             /\ copy["drop_pkts"][c] <= copy["banned"][c] + copy["rate"][c]
  BY <1>1, Numbers DEF CopiesSumUp
<1>5. reader.curr["drop_pkts"] <= reader.curr["banned"] + reader.curr["rate"]
  BY <1>2, <1>4, SumsCompare
<1> HIDE DEF zero
<1>6. \A c \in CPU : last[c] <= copy["drop_pkts"][c] + zero[c]
  BY <1>4
<1>7. /\ prev["drop_pkts"] <= reader.curr["drop_pkts"] + 0
      /\ reader.curr["drop_pkts"] \in Nat
  BY <1>2, <1>3, <1>4, <1>6, SumsCompare
<1> QED
  BY <1>2, <1>4, <1>5, <1>7

\* A lookup puts the copy of one more CPU into the snapshot.
LEMMA CopyKeepsSnapshot ==
    ASSUME TypeInv, ReasonInv, NEW c \in CPU, Copy(c),
           NEW copy \in [Counters -> [CPU -> Nat]], NEW last \in [CPU -> Nat],
           CopiesSumUp(copy, last)
    PROVE  SnapshotInv'
<1> DEFINE k == ReadOrder[reader.index]
           mine == [copy[k] EXCEPT ![c] = stats[c][k]]
           new == [copy EXCEPT ![k] = mine]
<1>1. /\ k \in Counters
      /\ c \notin Copied(reader, k)
      /\ Copied(reader', k) = Copied(reader, k) \cup {c}
      /\ \A j \in Counters \ {k} : Copied(reader', j) = Copied(reader, j)
      /\ k = "drop_pkts" => Copied(reader, "banned") = {}
      /\ k \in {"drop_pkts", "banned"} => Copied(reader, "rate") = {}
      /\ k \in {"banned", "rate"} => Copied(reader, "drop_pkts") = CPU
      /\ k = "rate" => Copied(reader, "banned") = CPU
  BY CopyAdds
<1>2. /\ stats' = stats /\ prev' = prev
      /\ reader'.curr = [reader.curr EXCEPT ![k] = reader.curr[k] + stats[c][k]]
  BY DEF Copy
<1>3. reader.curr \in [Counters -> Nat] /\ stats \in [CPU -> [Counters -> Nat]]
  BY DEF TypeInv, TypeOK, Snapshot
<1> HIDE DEF k
<1>4. /\ copy[k] \in [CPU -> Nat] /\ stats[c][k] \in Nat /\ mine \in [CPU -> Nat]
      /\ mine[c] = stats[c][k] /\ \A d \in CPU : d # c => mine[d] = copy[k][d]
  BY <1>1, <1>3
<1> HIDE DEF mine
<1>5. /\ new \in [Counters -> [CPU -> Nat]] /\ new[k] = mine
      /\ \A j \in Counters : j # k => new[j] = copy[j]
  BY <1>1, <1>4
<1> HIDE DEF new
<1>6. /\ reader'.curr[k] = reader.curr[k] + stats[c][k]
      /\ \A j \in Counters : j # k => reader'.curr[j] = reader.curr[j]
  BY <1>1, <1>2, <1>3
<1>7. AddsUp(new[k], Copied(reader', k), reader'.curr[k])
  <2>1. AddsUp(copy[k], Copied(reader, k), reader.curr[k])
    BY <1>1 DEF CopiesSumUp
  <2>2. \A d \in Copied(reader, k) : copy[k][d] = mine[d]
    BY <1>1, <1>4 DEF Copied
  <2>3. AddsUp(mine, Copied(reader, k), reader.curr[k])
    BY <2>1, <2>2, SameAddsUp
  <2>4. AddsUp(mine, Copied(reader, k) \cup {c}, reader.curr[k] + mine[c])
    BY <2>3, <1>1, <1>4, OneMoreAddsUp
  <2> QED
    BY <2>4, <1>1, <1>4, <1>5, <1>6
<1>8. ASSUME NEW j \in Counters
      PROVE  AddsUp(new[j], Copied(reader', j), reader'.curr[j])
  <2>1. CASE j = k
    BY <2>1, <1>7
  <2>2. CASE j # k
    <3>1. AddsUp(copy[j], Copied(reader, j), reader.curr[j])
      BY DEF CopiesSumUp
    <3>2. /\ Copied(reader', j) = Copied(reader, j) /\ new[j] = copy[j]
          /\ reader'.curr[j] = reader.curr[j]
      BY <2>2, <1>1, <1>5, <1>6
    <3> QED
      BY <3>1, <3>2
  <2> QED
    BY <2>1, <2>2
<1>9. ASSUME NEW d \in CPU
      PROVE  /\ last[d] \in Nat /\ last[d] <= stats[d]["drop_pkts"]
             /\ stats[d]["drop_pkts"] \in Nat /\ stats[d]["banned"] \in Nat
             /\ stats[d]["rate"] \in Nat
             /\ stats[d]["drop_pkts"] <= stats[d]["banned"] + stats[d]["rate"]
  <2>1. /\ stats[d]["drop_pkts"] \in Nat /\ stats[d]["banned"] \in Nat
        /\ stats[d]["rate"] \in Nat
    BY <1>3, Numbers
  <2>2. stats[d]["drop_pkts"] <= stats[d]["banned"] + stats[d]["rate"]
    BY <2>1 DEF ReasonInv
  <2> QED
    BY <2>1, <2>2 DEF CopiesSumUp
<1>10. ASSUME NEW d \in Copied(reader', "drop_pkts")
       PROVE  /\ last[d] <= new["drop_pkts"][d]
              /\ new["drop_pkts"][d] <= stats'[d]["drop_pkts"]
  <2>1. d \in CPU
    BY DEF Copied
  <2>2. CASE k = "drop_pkts" /\ d = c
    BY <2>1, <2>2, <1>2, <1>4, <1>5, <1>9
  <2>3. CASE d \in Copied(reader, "drop_pkts") /\ ~(k = "drop_pkts" /\ d = c)
    <3>1. new["drop_pkts"][d] = copy["drop_pkts"][d]
      BY <2>1, <2>3, <1>4, <1>5, Numbers
    <3> QED
      BY <2>3, <3>1, <1>2 DEF CopiesSumUp
  <2> QED
    BY <2>2, <2>3, <1>1, Numbers
<1>11. ASSUME NEW d \in Copied(reader', "banned")
       PROVE  new["drop_pkts"][d] <= new["banned"][d] + stats'[d]["rate"]
  <2>1. d \in CPU
    BY DEF Copied
  <2>2. CASE k = "banned" /\ d = c
    <3>1. copy["drop_pkts"][c] <= stats[c]["drop_pkts"] /\ copy["drop_pkts"][c] \in Nat
      BY <2>2, <1>1, Numbers DEF CopiesSumUp
    <3>2. new["drop_pkts"][c] = copy["drop_pkts"][c] /\ new["banned"][c] = stats[c]["banned"]
      BY <2>2, <1>4, <1>5, Numbers
    <3> QED
      BY <2>2, <3>1, <3>2, <1>2, <1>9
  <2>3. CASE d \in Copied(reader, "banned") /\ ~(k = "banned" /\ d = c)
    <3>1. k # "drop_pkts"
      BY <2>3, <1>1
    <3>2. /\ new["drop_pkts"][d] = copy["drop_pkts"][d]
          /\ new["banned"][d] = copy["banned"][d]
      BY <2>1, <2>3, <3>1, <1>4, <1>5, Numbers
    <3> QED
      BY <2>3, <3>2, <1>2 DEF CopiesSumUp
  <2> QED
    BY <2>2, <2>3, <1>1, Numbers
<1>12. ASSUME NEW d \in Copied(reader', "rate")
       PROVE  new["drop_pkts"][d] <= new["banned"][d] + new["rate"][d]
  <2>1. d \in CPU
    BY DEF Copied
  <2>2. CASE k = "rate" /\ d = c
    <3>1. copy["drop_pkts"][c] <= copy["banned"][c] + stats[c]["rate"]
      BY <2>2, <1>1 DEF CopiesSumUp
    <3>2. /\ new["drop_pkts"][c] = copy["drop_pkts"][c]
          /\ new["banned"][c] = copy["banned"][c]
          /\ new["rate"][c] = stats[c]["rate"]
      BY <2>2, <1>4, <1>5, Numbers
    <3> QED
      BY <2>2, <3>1, <3>2
  <2>3. CASE d \in Copied(reader, "rate") /\ ~(k = "rate" /\ d = c)
    <3>1. k \notin {"drop_pkts", "banned"}
      BY <2>3, <1>1
    <3>2. /\ new["drop_pkts"][d] = copy["drop_pkts"][d]
          /\ new["banned"][d] = copy["banned"][d]
          /\ new["rate"][d] = copy["rate"][d]
      BY <2>1, <2>3, <3>1, <1>4, <1>5, Numbers
    <3> QED
      BY <2>3, <3>2 DEF CopiesSumUp
  <2> QED
    BY <2>2, <2>3, <1>1, Numbers
<1>13. /\ AddsUp(last, CPU, prev'["drop_pkts"])
       /\ \A d \in CPU : last[d] <= stats'[d]["drop_pkts"]
  BY <1>2 DEF CopiesSumUp
<1>14. PICK now \in [Counters -> [CPU -> Nat]] : now = new
  BY <1>5
<1>15. CopiesSumUp(now, last)'
  BY <1>8, <1>10, <1>11, <1>12, <1>13, <1>14 DEF CopiesSumUp
<1> QED
  BY <1>15 DEF SnapshotInv

\* Bumps in the meantime take nothing from what was copied.
LEMMA BumpKeepsSnapshot ==
    ASSUME TypeInv, NEW c \in CPU, Bump(c),
           NEW copy \in [Counters -> [CPU -> Nat]], NEW last \in [CPU -> Nat],
           CopiesSumUp(copy, last)
    PROVE  SnapshotInv'
<1> DEFINE k == Head(todo[c])
<1>1. /\ k \in Counters /\ reader' = reader /\ prev' = prev
      /\ stats' = [stats EXCEPT ![c][k] = stats[c][k] + 1]
  <2>1. todo[c] \in Seq(Counters) /\ todo[c] # <<>>
    BY DEF Bump, TypeInv, TypeOK
  <2>2. k \in Counters
    BY <2>1
  <2> QED
    BY <2>2 DEF Bump
<1>2. stats \in [CPU -> [Counters -> Nat]]
  BY DEF TypeInv, TypeOK, Snapshot
<1> HIDE DEF k
<1>3. ASSUME NEW d \in CPU, NEW j \in Counters
      PROVE  /\ stats[d][j] \in Nat /\ stats'[d][j] \in Nat
             /\ stats[d][j] <= stats'[d][j]
  BY <1>1, <1>2
<1>4. ASSUME NEW d \in CPU
      PROVE  /\ last[d] \in Nat /\ copy["drop_pkts"][d] \in Nat
             /\ copy["banned"][d] \in Nat /\ copy["rate"][d] \in Nat
  BY Numbers
<1>5. \A d \in CPU : last[d] <= stats'[d]["drop_pkts"]
  BY <1>3, <1>4, Numbers DEF CopiesSumUp
<1>6. ASSUME NEW d \in Copied(reader, "drop_pkts")
      PROVE  copy["drop_pkts"][d] <= stats'[d]["drop_pkts"]
  <2>1. d \in CPU /\ copy["drop_pkts"][d] <= stats[d]["drop_pkts"]
    BY DEF CopiesSumUp, Copied
  <2> QED
    BY <2>1, <1>3, <1>4, Numbers
<1>7. ASSUME NEW d \in Copied(reader, "banned")
      PROVE  copy["drop_pkts"][d] <= copy["banned"][d] + stats'[d]["rate"]
  <2>1. d \in CPU /\ copy["drop_pkts"][d] <= copy["banned"][d] + stats[d]["rate"]
    BY DEF CopiesSumUp, Copied
  <2> QED
    BY <2>1, <1>3, <1>4, Numbers
<1>8. CopiesSumUp(copy, last)'
  BY <1>1, <1>5, <1>6, <1>7 DEF CopiesSumUp
<1> QED
  BY <1>8 DEF SnapshotInv

\* No step of the program or of the monitor spoils the sums.
LEMMA SnapshotStep == TypeInv /\ ReasonInv /\ SnapshotInv /\ [Next]_vars => SnapshotInv'
<1> SUFFICES ASSUME TypeInv, ReasonInv, SnapshotInv, [Next]_vars
             PROVE  SnapshotInv'
  OBVIOUS
<1>0. PICK copy \in [Counters -> [CPU -> Nat]], last \in [CPU -> Nat] :
         CopiesSumUp(copy, last)
  BY DEF SnapshotInv
<1>1. CASE UNCHANGED <<stats, reader, prev>>
  <2>1. CopiesSumUp(copy, last)'
    BY <1>0, <1>1 DEF CopiesSumUp
  <2> QED
    BY <2>1 DEF SnapshotInv
<1>2. ASSUME NEW c \in CPU, Bump(c) PROVE SnapshotInv'
  BY <1>0, <1>2, BumpKeepsSnapshot
<1>3. ASSUME NEW c \in CPU, Copy(c) PROVE SnapshotInv'
  BY <1>0, <1>3, CopyKeepsSnapshot
<1>4. CASE Tick
  <2>1. /\ reader'.index = 1 /\ reader'.left = CPU /\ reader'.curr = Zeros
        /\ prev' = prev /\ stats' = stats
    BY <1>4 DEF Tick, Waiting
  <2>2. \A k \in Counters : Copied(reader', k) = {} /\ reader'.curr[k] = 0
    BY <2>1, CopiedEnds DEF Zeros
  <2>3. /\ AddsUp(last, CPU, prev'["drop_pkts"])
        /\ \A c \in CPU : last[c] <= stats'[c]["drop_pkts"]
    BY <1>0, <2>1 DEF CopiesSumUp
  <2> QED
    BY <2>2, <2>3, FreshSnapshot
<1>5. CASE ReadFails \/ Observe
  <2>1. /\ reader'.index = 0 /\ reader'.curr = Zeros /\ stats' = stats
    BY <1>5 DEF ReadFails, Observe, Waiting
  <2>2. \A k \in Counters : Copied(reader', k) = {} /\ reader'.curr[k] = 0
    BY <2>1, CopiedEnds DEF Zeros
  <2>3. CASE ReadFails
    <3>1. /\ AddsUp(last, CPU, prev'["drop_pkts"])
          /\ \A c \in CPU : last[c] <= stats'[c]["drop_pkts"]
      BY <1>0, <2>1, <2>3 DEF CopiesSumUp, ReadFails, PrevAfterFailure
    <3> QED
      BY <2>2, <3>1, FreshSnapshot
  <2>4. CASE Observe
    <3>1. Complete /\ prev' = reader.curr
      BY <2>4 DEF Observe
    <3>2. /\ AddsUp(copy["drop_pkts"], CPU, reader.curr["drop_pkts"])
          /\ \A c \in CPU : copy["drop_pkts"][c] <= stats[c]["drop_pkts"]
      BY <1>0, <3>1, CompleteSnapshot
    <3>3. copy["drop_pkts"] \in [CPU -> Nat]
      BY Numbers
    <3>4. /\ AddsUp(copy["drop_pkts"], CPU, prev'["drop_pkts"])
          /\ \A c \in CPU : copy["drop_pkts"][c] <= stats'[c]["drop_pkts"]
      BY <2>1, <3>1, <3>2
    <3> QED
      BY <2>2, <3>3, <3>4, FreshSnapshot
  <2> QED
    BY <1>5, <2>3, <2>4
<1> QED
  BY <1>1, <1>2, <1>3, <1>4, <1>5 DEF Next, Kernel, Monitor, Arrive,
     CaptureEnds, vars

----------------------------------------------------------------------------
\* The reader and the CPUs, all together.
CountInv ==
    /\ TypeInv /\ ReasonInv /\ SnapshotInv
    /\ fed = prev["drop_pkts"]

\* They hold at every moment.
LEMMA CountInvariant == Spec => []CountInv
<1>1. Init => CountInv
  <2> SUFFICES ASSUME Init PROVE ReasonInv /\ fed = prev["drop_pkts"]
    BY TypeStart, SnapshotStart DEF CountInv
  <2>1. \A c \in CPU : todo[c] = <<>> /\ \A k \in Counters : stats[c][k] = 0
    BY DEF Init, Zeros
  <2> QED
    <3>1. ASSUME NEW c \in CPU
          PROVE  /\ todo[c] = <<>> /\ stats[c]["drop_pkts"] = 0
                 /\ stats[c]["banned"] = 0 /\ stats[c]["rate"] = 0
      BY <2>1, Numbers
    <3>2. ReasonInv
      BY <3>1 DEF ReasonInv, Owes
    <3>3. fed = 0 /\ prev["drop_pkts"] = 0
      BY Numbers DEF Init, Zeros
    <3> QED
      BY <3>2, <3>3
<1>2. CountInv /\ [Next]_vars => CountInv'
  <2> SUFFICES ASSUME CountInv, [Next]_vars PROVE fed' = prev'["drop_pkts"]
    BY TypeStep, ReasonStep, SnapshotStep DEF CountInv
  <2>1. CASE UNCHANGED <<fed, prev>>
    BY <2>1 DEF CountInv
  <2>2. CASE Observe
    <3>1. Complete /\ prev' = reader.curr /\ fed' = fed + Delta("drop_pkts")
      BY <2>2 DEF Observe
    <3>2. prev["drop_pkts"] <= reader.curr["drop_pkts"]
      BY <3>1, CompleteSnapshot DEF CountInv, SnapshotInv
    <3>3. prev["drop_pkts"] \in Nat /\ reader.curr["drop_pkts"] \in Nat
      BY Numbers DEF CountInv, TypeInv, TypeOK, Snapshot
    <3> QED
      BY <3>1, <3>2, <3>3 DEF CountInv, Delta, SafeSub
  <2> QED
    BY <2>1, <2>2 DEF Next, Kernel, Monitor, Arrive, Bump, Tick, Copy, ReadFails,
       PrevAfterFailure, CaptureEnds, vars
<1> QED
  BY <1>1, <1>2, PTL DEF Spec

\* No drop of a snapshot lacks its reason, however many CPUs count meanwhile.
THEOREM DropsExplained == Spec => []ReasonsCoverDrops
<1>1. CountInv => ReasonsCoverDrops
  BY CompleteSnapshot DEF CountInv, SnapshotInv, ReasonsCoverDrops
<1> QED
  BY <1>1, CountInvariant, PTL

\* The deltas the detector is fed add up to the counter, whatever reads fail.
THEOREM DropsCountedOnce == Spec => []CountedOnce
<1>1. CountInv => CountedOnce
  BY DEF CountInv, CountedOnce
<1> QED
  BY <1>1, CountInvariant, PTL
=============================================================================
