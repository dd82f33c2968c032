-------------------------- MODULE FloydWarshallProofs --------------------------
(***************************************************************************)
(* The tables of Device::calculate_path are right for every device: the    *)
(* invariant of the loop of floyd_warshall, and what the paths that        *)
(* get_path reads from the predecessors have in common.                    *)
(***************************************************************************)
EXTENDS FloydWarshall, CircuitProofs, SequenceTheorems

-----------------------------------------------------------------------------
(* Walks                                                                   *)

\* The qubits coupled to a member of S
NextTo(device, S) == {q \in Qubits : \E p \in S : IsAdjacency(device, p, q)}

\* The members of a set of qubits through which a walk from i may go on
Passing(i, bound, S) == {i} \cup {p \in S : p < bound}

\* ReachWithin for walks of any length: none needs more than NumQubits edges.
Walks(device, i, bound, n) ==
    ReachWithin(device, i, bound)[IF n <= NumQubits THEN n ELSE NumQubits]

LEMMA QubitsAreNat == NumQubits \in Nat \ {0} /\ Qubits \subseteq Nat /\ MaxDist \in Nat
                      /\ NoQubit \notin Qubits /\ NumQubits < MaxDist
                      /\ IsFiniteSet(Qubits) /\ Cardinality(Qubits) = NumQubits
<1>1. NumQubits \in Nat /\ NumQubits # 0
  BY NumQubitsAssumption
<1>2. IsFiniteSet(0 .. NumQubits - 1) /\ Cardinality(0 .. NumQubits - 1) = NumQubits
  BY <1>1, FS_Interval
<1>. QED
  BY <1>1, <1>2, FloydWarshallAssumption DEF Qubits, MaxDist, NoQubit

\* What a device couples, as members of sets
LEMMA Coupled ==
    ASSUME NEW device, IsDevice(device)
    PROVE  /\ \A p, q \in Qubits : IsAdjacency(device, p, q) => IsAdjacency(device, q, p) /\ p # q
           /\ \A p \in Qubits : ToSet(device[p]) \subseteq Qubits
<1>1. \A p \in Qubits : device[p] \in Seq(Qubits)
  BY DEF IsDevice
<1>. QED
  BY <1>1 DEF IsDevice, ToSet

\* One more edge
LEMMA ReachStep ==
    ASSUME NEW device, IsDevice(device), NEW i \in Qubits, NEW bound
    PROVE  LET ball == ReachWithin(device, i, bound)
           IN /\ ball[0] = {i}
              /\ \A n \in 0 .. NumQubits - 1 :
                    ball[n + 1] = ball[n] \cup NextTo(device, Passing(i, bound, ball[n]))
              /\ \A n \in 0 .. NumQubits : ball[n] \subseteq Qubits
<1>. DEFINE Grown(S) == S \cup UNION {ToSet(device[q]) : q \in Passing(i, bound, S)}
            Balls(f) == [n \in 0 .. NumQubits |-> IF n = 0 THEN {i} ELSE Grown(f[n - 1])]
            ball == CHOOSE f : f = Balls(f)
            Computed == {m \in Nat : m <= NumQubits =>
                          \E f : /\ f = [n \in 0 .. m |-> f[n]]
                                 /\ f[0] = {i}
                                 /\ \A n \in 1 .. m : f[n] = Grown(f[n - 1])}
<1>1. ReachWithin(device, i, bound) = ball
  BY DEF ReachWithin, Passing
<1>2. NumQubits \in Nat
  BY QubitsAreNat
<1>3. 0 \in Computed
  <2>. DEFINE f == [n \in 0 .. 0 |-> {i}]
  <2>1. f = [n \in 0 .. 0 |-> f[n]] /\ f[0] = {i}
    OBVIOUS
  <2>2. 1 .. 0 = {}
    OBVIOUS
  <2>. HIDE DEF f
  <2>3. \A n \in 1 .. 0 : f[n] = Grown(f[n - 1])
    BY <2>2
  <2>. QED
    BY <2>1, <2>3
<1>4. ASSUME NEW m \in Nat, m \in Computed
      PROVE  m + 1 \in Computed
  <2>. HIDE DEF Grown
  <2>1. SUFFICES ASSUME m + 1 <= NumQubits
                 PROVE  \E g : /\ g = [n \in 0 .. m + 1 |-> g[n]]
                               /\ g[0] = {i}
                               /\ \A n \in 1 .. m + 1 : g[n] = Grown(g[n - 1])
    OBVIOUS
  <2>2. PICK f : /\ f[0] = {i}
                 /\ \A n \in 1 .. m : f[n] = Grown(f[n - 1])
    BY <1>2, <1>4, <2>1
  <2>. DEFINE g == [n \in 0 .. m + 1 |-> IF n = m + 1 THEN Grown(f[m]) ELSE f[n]]
  <2>3. g = [n \in 0 .. m + 1 |-> g[n]]
    OBVIOUS
  <2>4. g[0] = {i}
    BY <2>2
  <2>5. \A n \in 0 .. m : g[n] = f[n]
    OBVIOUS
  <2>6. g[m + 1] = Grown(f[m])
    OBVIOUS
  <2>. HIDE DEF g
  <2>7. ASSUME NEW n \in 1 .. m + 1 PROVE g[n] = Grown(g[n - 1])
    <3>1. CASE n = m + 1
      <4>1. n - 1 = m
        BY <3>1
      <4>. QED
        BY <3>1, <4>1, <2>5, <2>6
    <3>2. CASE n # m + 1
      <4>1. n \in 1 .. m /\ n - 1 \in 0 .. m /\ n \in 0 .. m
        BY <3>2
      <4>. QED
        BY <4>1, <2>2, <2>5
    <3>. QED
      BY <3>1, <3>2
  <2>. QED
    BY <2>3, <2>4, <2>7
<1>5. ball = Balls(ball)
  <2>1. Nat \subseteq Computed
    <3>. HIDE DEF Computed
    <3>. QED
      BY <1>3, <1>4, SetInduction
  <2>. HIDE DEF Grown
  <2>7. NumQubits \in Computed /\ NumQubits <= NumQubits
    <3>. HIDE DEF Computed
    <3>. QED
      BY <1>2, <2>1
  <2>2. PICK f : /\ f = [n \in 0 .. NumQubits |-> f[n]]
                 /\ f[0] = {i}
                 /\ \A n \in 1 .. NumQubits : f[n] = Grown(f[n - 1])
    BY <2>7, Zenon
  <2>3. \A n \in 0 .. NumQubits : n # 0 => n \in 1 .. NumQubits
    BY <1>2
  <2>4. \A n \in 0 .. NumQubits : f[n] = IF n = 0 THEN {i} ELSE Grown(f[n - 1])
    BY <2>2, <2>3
  <2>5. f = Balls(f)
    BY <2>2, <2>4, Zenon
  <2>. HIDE DEF Balls
  <2>6. \E g : g = Balls(g)
    BY <2>5
  <2>. QED
    BY <2>6, Zenon
<1>. HIDE DEF ball
<1>6. ball[0] = {i} /\ \A n \in 0 .. NumQubits - 1 : ball[n + 1] = Grown(ball[n])
  <2>. HIDE DEF Grown
  <2>1. 0 \in 0 .. NumQubits
        /\ \A n \in 0 .. NumQubits - 1 : n + 1 \in 0 .. NumQubits /\ n + 1 # 0 /\ (n + 1) - 1 = n
    BY <1>2
  <2>. QED
    BY <1>5, <2>1
<1>7. ASSUME NEW S \in SUBSET Qubits
      PROVE  Grown(S) = S \cup NextTo(device, Passing(i, bound, S)) /\ Grown(S) \subseteq Qubits
  <2>1. Passing(i, bound, S) \subseteq Qubits
    BY DEF Passing
  <2>. QED
    BY <2>1, Coupled DEF NextTo, IsAdjacency
<1>. HIDE DEF Grown
<1>. DEFINE Inside == {n \in Nat : n <= NumQubits => ball[n] \subseteq Qubits}
<1>8. Nat \subseteq Inside
  <2>1. 0 \in Inside
    BY <1>6
  <2>2. ASSUME NEW n \in Inside, n \in Nat PROVE n + 1 \in Inside
    <3>1. CASE n + 1 <= NumQubits
      <4>1. n \in 0 .. NumQubits - 1 /\ n <= NumQubits
        BY <1>2, <2>2, <3>1
      <4>2. ball[n] \in SUBSET Qubits
        BY <2>2, <4>1
      <4>. QED
        BY <4>1, <4>2, <1>6, <1>7
    <3>2. CASE ~(n + 1 <= NumQubits)
      BY <2>2, <3>2
    <3>. QED
      BY <3>1, <3>2
  <2>. HIDE DEF Inside
  <2>. QED
    BY <2>1, <2>2, SetInduction
<1>9. \A n \in 0 .. NumQubits : ball[n] \subseteq Qubits
  BY <1>2, <1>8
<1>10. ASSUME NEW n \in 0 .. NumQubits - 1
       PROVE  ball[n + 1] = ball[n] \cup NextTo(device, Passing(i, bound, ball[n]))
  <2>1. ball[n] \in SUBSET Qubits
    BY <1>2, <1>9
  <2>. QED
    BY <1>6, <1>7, <2>1
<1>. QED
  BY <1>1, <1>6, <1>9, <1>10

\* Walks grow by one edge at a time, for ever: after NumQubits of them nothing is added.
LEMMA WalkSteps ==
    ASSUME NEW device, IsDevice(device), NEW i \in Qubits, NEW bound
    PROVE  /\ Walks(device, i, bound, 0) = {i}
           /\ \A n \in Nat : /\ Walks(device, i, bound, n) \subseteq Qubits
                            /\ Walks(device, i, bound, n) \subseteq Walks(device, i, bound, NumQubits)
                            /\ Walks(device, i, bound, n + 1) =
                                  Walks(device, i, bound, n)
                                  \cup NextTo(device, Passing(i, bound, Walks(device, i, bound, n)))
<1>. DEFINE ball == ReachWithin(device, i, bound)
            More(S) == NextTo(device, Passing(i, bound, S))
            Complete(S) == More(S) \subseteq S
<1>1. NumQubits \in Nat /\ NumQubits # 0 /\ IsFiniteSet(Qubits) /\ Cardinality(Qubits) = NumQubits
  BY QubitsAreNat
<1>2. /\ ball[0] = {i}
      /\ \A n \in 0 .. NumQubits - 1 : ball[n + 1] = ball[n] \cup More(ball[n])
      /\ \A n \in 0 .. NumQubits : ball[n] \subseteq Qubits
  BY ReachStep
<1>. HIDE DEF ball, More
<1>. DEFINE Grows == {n \in Nat : n <= NumQubits =>
                         Complete(ball[n]) \/ Cardinality(ball[n]) >= n + 1}
<1>3. Nat \subseteq Grows
  <2>1. 0 \in Grows
    BY <1>2, FS_Singleton
  <2>2. ASSUME NEW n \in Nat, n \in Grows, n + 1 <= NumQubits
        PROVE  Complete(ball[n + 1]) \/ Cardinality(ball[n + 1]) >= (n + 1) + 1
    <3>1. n \in 0 .. NumQubits - 1 /\ n \in 0 .. NumQubits /\ n + 1 \in 0 .. NumQubits
      BY <1>1, <2>2
    <3>2. ball[n + 1] = ball[n] \cup More(ball[n])
      BY <1>2, <3>1
    <3>3. CASE Complete(ball[n])
      BY <3>2, <3>3
    <3>4. CASE ~Complete(ball[n])
      <4>1. Cardinality(ball[n]) >= n + 1
        BY <2>2, <3>1, <3>4
      <4>2. IsFiniteSet(ball[n + 1])
        BY <1>1, <1>2, <3>1, FS_Subset
      <4>3. ball[n] \in SUBSET ball[n + 1] /\ ball[n] # ball[n + 1]
        BY <3>2, <3>4
      <4>4. IsFiniteSet(ball[n])
        BY <4>2, <4>3, FS_Subset
      <4>5. Cardinality(ball[n]) <= Cardinality(ball[n + 1])
            /\ Cardinality(ball[n]) # Cardinality(ball[n + 1])
        BY <4>2, <4>3, FS_Subset
      <4>6. Cardinality(ball[n]) \in Nat /\ Cardinality(ball[n + 1]) \in Nat
        BY <4>2, <4>4, FS_CardinalityType
      <4>. QED
        BY <4>1, <4>5, <4>6
    <3>. QED
      BY <3>3, <3>4
  <2>3. ASSUME NEW n \in Grows, n \in Nat PROVE n + 1 \in Grows
    BY <2>2, <2>3
  <2>. HIDE DEF Grows
  <2>. QED
    BY <2>1, <2>3, SetInduction
<1>4. Complete(ball[NumQubits])
  <2>1. NumQubits \in Grows /\ NumQubits <= NumQubits /\ NumQubits \in 0 .. NumQubits
    <3>. HIDE DEF Grows
    <3>. QED
      BY <1>1, <1>3
  <2>2. ball[NumQubits] \in SUBSET Qubits
    BY <1>2, <2>1
  <2>3. IsFiniteSet(ball[NumQubits]) /\ Cardinality(ball[NumQubits]) <= NumQubits
    BY <1>1, <2>2, FS_Subset
  <2>4. Cardinality(ball[NumQubits]) \in Nat
    BY <2>3, FS_CardinalityType
  <2>. QED
    BY <1>1, <2>1, <2>3, <2>4
<1>. DEFINE W(n) == ball[IF n <= NumQubits THEN n ELSE NumQubits]
<1>5. ASSUME NEW n \in Nat
      PROVE  W(n) \subseteq Qubits /\ W(n + 1) = W(n) \cup More(W(n))
  <2>1. CASE n + 1 <= NumQubits
    <3>1. n \in 0 .. NumQubits - 1 /\ n \in 0 .. NumQubits /\ n <= NumQubits
      BY <1>1, <2>1
    <3>. QED
      BY <1>2, <2>1, <3>1
  <2>2. CASE ~(n + 1 <= NumQubits)
    <3>1. W(n) = ball[NumQubits] /\ W(n + 1) = ball[NumQubits] /\ NumQubits \in 0 .. NumQubits
      BY <1>1, <2>2
    <3>. QED
      BY <1>2, <1>4, <3>1
  <2>. QED
    BY <2>1, <2>2
<1>6. W(0) = {i} /\ W(NumQubits) = ball[NumQubits]
  BY <1>1, <1>2
<1>. DEFINE Below == {n \in Nat : n <= NumQubits => ball[NumQubits - n] \subseteq ball[NumQubits]}
<1>7. Nat \subseteq Below
  <2>1. 0 \in Below
    BY <1>1
  <2>2. ASSUME NEW n \in Below, n \in Nat PROVE n + 1 \in Below
    <3>1. CASE n + 1 <= NumQubits
      <4>1. PICK m \in 0 .. NumQubits - 1 : m = NumQubits - (n + 1) /\ m + 1 = NumQubits - n
        BY <1>1, <2>2, <3>1
      <4>2. n <= NumQubits
        BY <1>1, <2>2, <3>1
      <4>3. ball[m + 1] \subseteq ball[NumQubits]
        BY <2>2, <4>1, <4>2
      <4>4. ball[m] \subseteq ball[NumQubits]
        BY <1>2, <4>1, <4>3
      <4>. QED
        BY <2>2, <4>1, <4>4
    <3>2. CASE ~(n + 1 <= NumQubits)
      BY <2>2, <3>2
    <3>. QED
      BY <3>1, <3>2
  <2>. HIDE DEF Below
  <2>. QED
    BY <2>1, <2>2, SetInduction
<1>8. ASSUME NEW n \in Nat PROVE W(n) \subseteq ball[NumQubits]
  <2>1. CASE n <= NumQubits
    <3>1. PICK m \in Nat : m <= NumQubits /\ NumQubits - m = n
      <4>1. NumQubits - n \in Nat /\ NumQubits - n <= NumQubits /\ NumQubits - (NumQubits - n) = n
        BY <1>1, <2>1
      <4>. QED
        BY <4>1
    <3>. QED
      BY <1>7, <2>1, <3>1
  <2>2. CASE ~(n <= NumQubits)
    BY <2>2
  <2>. QED
    BY <2>1, <2>2
<1>9. \A n : Walks(device, i, bound, n) = W(n)
  BY DEF Walks, ball
<1>. HIDE DEF W
<1>10. /\ W(0) = {i}
       /\ \A n \in Nat : W(n) \subseteq Qubits /\ W(n) \subseteq W(NumQubits) /\ W(n + 1) = W(n) \cup More(W(n))
  BY <1>5, <1>6, <1>8
<1>. QED
  BY <1>9, <1>10 DEF More

-----------------------------------------------------------------------------
(* Longer walks, and walks through one more qubit                          *)

\* More edges and more qubits to pass give more walks.
LEMMA WalksGrow ==
    ASSUME NEW device, IsDevice(device), NEW i \in Qubits, NEW bound \in Nat, NEW n \in Nat
    PROVE  /\ Walks(device, i, bound, n) \subseteq Walks(device, i, bound, n + 1)
           /\ Walks(device, i, bound, n) \subseteq Walks(device, i, bound + 1, n)
<1>. DEFINE V(m) == Walks(device, i, bound, m)
            W(m) == Walks(device, i, bound + 1, m)
            Inside == {m \in Nat : V(m) \subseteq W(m)}
<1>1. /\ V(0) = {i} /\ W(0) = {i}
      /\ \A m \in Nat : /\ V(m + 1) = V(m) \cup NextTo(device, Passing(i, bound, V(m)))
                       /\ W(m + 1) = W(m) \cup NextTo(device, Passing(i, bound + 1, W(m)))
                       /\ V(m) \subseteq Qubits
  BY WalkSteps
<1>. HIDE DEF V, W
<1>2. 0 \in Inside
  BY <1>1
<1>3. ASSUME NEW m \in Inside, m \in Nat PROVE m + 1 \in Inside
  <2>1. V(m) \subseteq W(m) /\ V(m) \subseteq Nat
    BY <1>1, <1>3, QubitsAreNat
  <2>2. Passing(i, bound, V(m)) \subseteq Passing(i, bound + 1, W(m))
    BY <2>1 DEF Passing
  <2>3. NextTo(device, Passing(i, bound, V(m))) \subseteq NextTo(device, Passing(i, bound + 1, W(m)))
    BY <2>2 DEF NextTo
  <2>. QED
    BY <1>1, <1>3, <2>1, <2>3
<1>4. Nat \subseteq Inside
  <2>. HIDE DEF Inside
  <2>. QED
    BY <1>2, <1>3, SetInduction
<1>. QED
  BY <1>1, <1>4 DEF V, W

\* A walk to the qubit mid and one from it make a walk through it.
LEMMA WalksJoin ==
    ASSUME NEW device, IsDevice(device), NEW i \in Qubits, NEW mid \in Qubits,
           NEW m \in Nat, mid \in Walks(device, i, mid, m), NEW n \in Nat
    PROVE  Walks(device, mid, mid, n) \subseteq Walks(device, i, mid + 1, m + n)
<1>. DEFINE V(d) == Walks(device, mid, mid, d)
            W(d) == Walks(device, i, mid + 1, d)
            Inside == {d \in Nat : V(d) \subseteq W(m + d)}
<1>0. mid \in Nat
  BY QubitsAreNat
<1>1. /\ V(0) = {mid} /\ mid \in W(m)
      /\ \A d \in Nat : /\ V(d + 1) = V(d) \cup NextTo(device, Passing(mid, mid, V(d)))
                       /\ W(d + 1) = W(d) \cup NextTo(device, Passing(i, mid + 1, W(d)))
                       /\ V(d) \subseteq Qubits
  <2>1. mid \in W(m)
    BY <1>0, WalksGrow
  <2>2. /\ V(0) = {mid}
        /\ \A d \in Nat : /\ V(d + 1) = V(d) \cup NextTo(device, Passing(mid, mid, V(d)))
                         /\ V(d) \subseteq Qubits
    BY <1>0, WalkSteps
  <2>3. /\ W(0) = {i}
        /\ \A d \in Nat : /\ W(d + 1) = W(d) \cup NextTo(device, Passing(i, mid + 1, W(d)))
                         /\ W(d) \subseteq Qubits
    BY WalkSteps
  <2>. HIDE DEF V, W
  <2>. QED
    BY <2>1, <2>2, <2>3
<1>. HIDE DEF V, W
<1>2. 0 \in Inside /\ \A d \in Inside : mid \in W(m + d)
  <2>. DEFINE Has == {d \in Nat : mid \in W(m + d)}
  <2>1. 0 \in Has
    BY <1>1
  <2>2. ASSUME NEW d \in Has, d \in Nat PROVE d + 1 \in Has
    <3>1. m + d \in Nat /\ m + (d + 1) = (m + d) + 1
      OBVIOUS
    <3>. QED
      BY <1>1, <2>2, <3>1
  <2>3. Nat \subseteq Has
    <3>. HIDE DEF Has
    <3>. QED
      BY <2>1, <2>2, SetInduction
  <2>. QED
    BY <1>1, <2>3
<1>3. ASSUME NEW d \in Inside, d \in Nat PROVE d + 1 \in Inside
  <2>1. V(d) \subseteq W(m + d) /\ V(d) \subseteq Nat /\ mid \in W(m + d)
    BY <1>1, <1>2, <1>3, QubitsAreNat
  <2>2. Passing(mid, mid, V(d)) \subseteq Passing(i, mid + 1, W(m + d))
    BY <1>0, <2>1 DEF Passing
  <2>3. NextTo(device, Passing(mid, mid, V(d))) \subseteq NextTo(device, Passing(i, mid + 1, W(m + d)))
    BY <2>2 DEF NextTo
  <2>4. m + d \in Nat /\ m + (d + 1) = (m + d) + 1
    OBVIOUS
  <2>. QED
    BY <1>1, <1>3, <2>1, <2>3, <2>4
<1>4. Nat \subseteq Inside
  <2>. HIDE DEF Inside
  <2>. QED
    BY <1>2, <1>3, SetInduction
<1>5. V(n) \subseteq W(m + n)
  BY <1>4
<1>. QED
  BY <1>5 DEF V, W

\* A walk that may pass mid does not, or falls into one to mid and one from it.
LEMMA WalksSplit ==
    ASSUME NEW device, IsDevice(device), NEW i \in Qubits, NEW mid \in Qubits, NEW n \in Nat,
           NEW j \in Walks(device, i, mid + 1, n)
    PROVE  \/ j \in Walks(device, i, mid, n)
           \/ \E a, b \in Nat : /\ a + b <= n
                               /\ mid \in Walks(device, i, mid, a)
                               /\ j \in Walks(device, mid, mid, b)
<1>. DEFINE U(d) == Walks(device, i, mid, d)
            V(d) == Walks(device, mid, mid, d)
            W(d) == Walks(device, i, mid + 1, d)
            Splits(d, q) == q \in U(d) \/ \E a, b \in Nat : a + b <= d /\ mid \in U(a) /\ q \in V(b)
            Good == {d \in Nat : \A q \in W(d) : Splits(d, q)}
<1>0. mid \in Nat
  BY QubitsAreNat
<1>1. /\ U(0) = {i} /\ V(0) = {mid} /\ W(0) = {i}
      /\ \A d \in Nat : /\ U(d + 1) = U(d) \cup NextTo(device, Passing(i, mid, U(d)))
                       /\ V(d + 1) = V(d) \cup NextTo(device, Passing(mid, mid, V(d)))
                       /\ W(d + 1) = W(d) \cup NextTo(device, Passing(i, mid + 1, W(d)))
                       /\ W(d) \subseteq Qubits
  <2>1. U(0) = {i} /\ \A d \in Nat : U(d + 1) = U(d) \cup NextTo(device, Passing(i, mid, U(d)))
    BY WalkSteps
  <2>2. V(0) = {mid}
        /\ \A d \in Nat : V(d + 1) = V(d) \cup NextTo(device, Passing(mid, mid, V(d)))
    BY WalkSteps
  <2>3. /\ W(0) = {i}
        /\ \A d \in Nat : /\ W(d + 1) = W(d) \cup NextTo(device, Passing(i, mid + 1, W(d)))
                         /\ W(d) \subseteq Qubits
    BY WalkSteps
  <2>. HIDE DEF U, V, W
  <2>. QED
    BY <2>1, <2>2, <2>3
<1>. HIDE DEF U, V, W
<1>2. 0 \in Good
  BY <1>1
<1>3. \A d \in Nat : i \in U(d)
  <2>. DEFINE Has == {d \in Nat : i \in U(d)}
  <2>1. 0 \in Has /\ \A d \in Has : d \in Nat => d + 1 \in Has
    BY <1>1
  <2>2. Nat \subseteq Has
    <3>. HIDE DEF Has
    <3>. QED
      BY <2>1, SetInduction
  <2>. QED
    BY <2>2
<1>4. ASSUME NEW d \in Good, d \in Nat, NEW q \in W(d + 1) PROVE Splits(d + 1, q)
  <2>1. CASE q \in W(d)
    <3>1. Splits(d, q)
      BY <1>4, <2>1
    <3>2. U(d) \subseteq U(d + 1)
      BY <1>1, <1>4
    <3>3. \A a, b \in Nat : a + b <= d => a + b <= d + 1
      BY <1>4
    <3>. QED
      BY <3>1, <3>2, <3>3
  <2>2. CASE q \notin W(d)
    <3>1. PICK p \in Passing(i, mid + 1, W(d)) : IsAdjacency(device, p, q) /\ q \in Qubits
      BY <1>1, <1>4, <2>2 DEF NextTo
    <3>2. CASE p = i
      <4>1. q \in NextTo(device, Passing(i, mid, U(d)))
        BY <3>1, <3>2 DEF NextTo, Passing
      <4>. QED
        BY <1>1, <1>4, <4>1
    <3>3. CASE p # i
      <4>1. p \in W(d) /\ p < mid + 1 /\ p \in Nat
        BY <1>1, <1>4, <3>1, <3>3, QubitsAreNat DEF Passing
      <4>2. Splits(d, p)
        BY <1>4, <4>1
      <4>3. CASE p = mid
        <5>1. q \in V(0 + 1)
          <6>1. q \in NextTo(device, Passing(mid, mid, V(0)))
            BY <3>1, <4>3 DEF NextTo, Passing
          <6>. QED
            BY <1>1, <6>1
        <5>2. CASE p \in U(d)
          <6>1. d + (0 + 1) <= d + 1 /\ d \in Nat /\ 0 + 1 \in Nat
            BY <1>4
          <6>. QED
            BY <4>3, <5>1, <5>2, <6>1
        <5>3. CASE p \notin U(d)
          <6>1. PICK a, b \in Nat : a + b <= d /\ mid \in U(a) /\ p \in V(b)
            BY <4>2, <5>3
          <6>2. a + (0 + 1) <= d + 1 /\ 0 + 1 \in Nat
            BY <1>4, <6>1
          <6>. QED
            BY <5>1, <6>1, <6>2
        <5>. QED
          BY <5>2, <5>3
      <4>4. CASE p # mid
        <5>1. p < mid
          BY <1>0, <4>1, <4>4
        <5>2. CASE p \in U(d)
          <6>1. q \in NextTo(device, Passing(i, mid, U(d)))
            BY <3>1, <5>1, <5>2 DEF NextTo, Passing
          <6>. QED
            BY <1>1, <1>4, <6>1
        <5>3. CASE p \notin U(d)
          <6>1. PICK a, b \in Nat : a + b <= d /\ mid \in U(a) /\ p \in V(b)
            BY <4>2, <5>3
          <6>2. q \in NextTo(device, Passing(mid, mid, V(b)))
            BY <3>1, <5>1, <6>1 DEF NextTo, Passing
          <6>3. q \in V(b + 1) /\ b + 1 \in Nat /\ a + (b + 1) <= d + 1
            BY <1>1, <1>4, <6>1, <6>2
          <6>. QED
            BY <6>1, <6>3
        <5>. QED
          BY <5>2, <5>3
      <4>. QED
        BY <4>3, <4>4
    <3>. QED
      BY <3>2, <3>3
  <2>. QED
    BY <2>1, <2>2
<1>5. \A d \in Good : d \in Nat => d + 1 \in Good
  <2>. HIDE DEF Splits
  <2>. QED
    BY <1>4
<1>6. Nat \subseteq Good
  <2>. HIDE DEF Good
  <2>. QED
    BY <1>2, <1>5, SetInduction
<1>7. Splits(n, j)
  BY <1>6 DEF W
<1>. QED
  BY <1>7 DEF U, V

-----------------------------------------------------------------------------
(* The invariant of the loop                                               *)

\* Every distance is that of a shortest walk through the qubits below bound.
Shortest(device, bound, D) ==
    /\ \A i, j \in Qubits : D[i][j] \in Nat /\ D[i][j] <= MaxDist /\ D[i][j] = D[j][i]
    /\ \A i, j \in Qubits : D[i][j] # MaxDist => j \in Walks(device, i, bound, D[i][j])
    /\ \A i, j \in Qubits : \A n \in Nat : j \in Walks(device, i, bound, n) => D[i][j] <= n

\* Is p the predecessor of j on a shortest walk from i?
IsHop(device, bound, D, i, j, p) ==
    /\ p \in Qubits
    /\ IsAdjacency(device, p, j)
    /\ D[i][p] + 1 = D[i][j]
    /\ p = i \/ p < bound

\* The predecessors are such, and ...
Hops(device, bound, D, P) ==
    \A i, j \in Qubits : IF i = j \/ D[i][j] = MaxDist THEN P[i][j] = NoQubit
                         ELSE IsHop(device, bound, D, i, j, P[i][j])

\* ... a path ends with the predecessor of its end where the path to that begins: it is a
\* path of the table itself.
OwnPrefixes(D, P) ==
    \A i, j \in Qubits : i # j /\ D[i][j] # MaxDist /\ P[i][j] # i => P[P[i][j]][i] = P[j][i]

TablesInv(device, bound, tab) ==
    /\ Shortest(device, bound, tab.dist)
    /\ Hops(device, bound, tab.dist, tab.pred)
    /\ OwnPrefixes(tab.dist, tab.pred)

\* A distance that is none is that of a walk, of NumQubits edges or less.
LEMMA DistancesFit ==
    ASSUME NEW device, IsDevice(device), NEW bound \in Nat, NEW D, Shortest(device, bound, D),
           NEW i \in Qubits, NEW j \in Qubits
    PROVE  /\ D[i][i] = 0
           /\ D[i][j] # MaxDist => D[i][j] <= NumQubits
           /\ \A n \in Nat : j \in Walks(device, i, bound, n) =>
                              D[i][j] <= n /\ D[i][j] # MaxDist
<1>1. NumQubits \in Nat /\ NumQubits < MaxDist /\ MaxDist \in Nat
  BY QubitsAreNat
<1>2. D[i][j] \in Nat /\ D[i][i] \in Nat
  BY DEF Shortest
<1>3. i \in Walks(device, i, bound, 0)
  BY WalkSteps
<1>4. D[i][i] <= 0
  BY <1>3 DEF Shortest
<1>5. ASSUME NEW n \in Nat, j \in Walks(device, i, bound, n)
      PROVE  D[i][j] <= n /\ D[i][j] <= NumQubits
  <2>1. j \in Walks(device, i, bound, NumQubits)
    BY <1>5, WalkSteps
  <2>. QED
    BY <1>1, <1>5, <2>1 DEF Shortest
<1>6. D[i][j] # MaxDist => D[i][j] <= NumQubits
  <2>1. D[i][j] # MaxDist => j \in Walks(device, i, bound, D[i][j])
    BY DEF Shortest
  <2>. QED
    BY <1>2, <1>5, <2>1
<1>. QED
  BY <1>1, <1>2, <1>4, <1>5, <1>6

\* The loop invariant of floyd_warshall, as it is stated for the runs
LEMMA ShortestIsWalkLength ==
    ASSUME NEW device, IsDevice(device), NEW bound \in Nat, NEW D, Shortest(device, bound, D),
           NEW i \in Qubits, NEW j \in Qubits
    PROVE  D[i][j] = WalkLength(device, i, j, bound)
<1>. DEFINE ball == ReachWithin(device, i, bound)
            First(n) == j \in ball[n] /\ (n = 0 \/ j \notin ball[n - 1])
<1>1. NumQubits \in Nat /\ NumQubits < MaxDist /\ D[i][j] \in Nat
  BY QubitsAreNat DEF Shortest
<1>2. \A n \in 0 .. NumQubits : ball[n] = Walks(device, i, bound, n)
  BY <1>1 DEF Walks
<1>3. NumQubits \in 0 .. NumQubits
  BY <1>1
<1>. HIDE DEF ball
<1>4. CASE D[i][j] = MaxDist
  <2>1. j \notin ball[NumQubits]
    <3>1. j \notin Walks(device, i, bound, NumQubits)
      BY <1>1, <1>4 DEF Shortest
    <3>. QED
      BY <1>2, <1>3, <3>1
  <2>. QED
    BY <1>4, <2>1 DEF WalkLength, ball
<1>5. CASE D[i][j] # MaxDist
  <2>1. D[i][j] \in 0 .. NumQubits
    BY <1>1, <1>5, DistancesFit
  <2>2. j \in ball[D[i][j]]
    BY <1>2, <1>5, <2>1 DEF Shortest
  <2>3. ASSUME NEW n \in 0 .. NumQubits, j \in ball[n] PROVE D[i][j] <= n
    <3>1. j \in Walks(device, i, bound, n) /\ n \in Nat
      BY <1>2, <2>3
    <3>. QED
      BY <3>1 DEF Shortest
  <2>4. j \in ball[NumQubits]
    <3>1. j \in Walks(device, i, bound, NumQubits)
      BY <1>1, <1>2, <2>1, <2>2, WalkSteps
    <3>. QED
      BY <1>2, <1>3, <3>1
  <2>5. First(D[i][j])
    <3>1. D[i][j] # 0 => D[i][j] - 1 \in 0 .. NumQubits /\ ~(D[i][j] <= D[i][j] - 1)
      BY <1>1, <2>1
    <3>. QED
      BY <2>2, <2>3, <3>1
  <2>6. ASSUME NEW n \in 0 .. NumQubits, First(n), n # D[i][j] PROVE FALSE
    <3>1. D[i][j] <= n /\ n \in Nat
      BY <2>3, <2>6
    <3>2. n # 0 /\ n - 1 \in Nat /\ D[i][j] <= n - 1 /\ j \notin ball[n - 1] /\ n - 1 \in 0 .. NumQubits
      BY <1>1, <2>6, <3>1
    <3>. DEFINE Has == {m \in Nat : D[i][j] + m <= NumQubits => j \in ball[D[i][j] + m]}
    <3>3. 0 \in Has
      BY <1>1, <2>2
    <3>4. ASSUME NEW m \in Has, m \in Nat PROVE m + 1 \in Has
      <4>1. SUFFICES ASSUME D[i][j] + (m + 1) <= NumQubits PROVE j \in ball[D[i][j] + (m + 1)]
        BY <3>4
      <4>2. /\ D[i][j] + m \in 0 .. NumQubits - 1 /\ D[i][j] + m <= NumQubits
            /\ D[i][j] + (m + 1) = (D[i][j] + m) + 1
        BY <1>1, <3>4, <4>1
      <4>3. j \in ball[D[i][j] + m]
        BY <3>4, <4>2
      <4>4. ball[(D[i][j] + m) + 1]
              = ball[D[i][j] + m] \cup NextTo(device, Passing(i, bound, ball[D[i][j] + m]))
        BY <4>2, ReachStep DEF ball
      <4>. QED
        BY <4>2, <4>3, <4>4
    <3>5. Nat \subseteq Has
      <4>. HIDE DEF Has
      <4>. QED
        BY <3>3, <3>4, SetInduction
    <3>6. PICK m \in Nat : D[i][j] + m = n - 1
      <4>1. (n - 1) - D[i][j] \in Nat /\ D[i][j] + ((n - 1) - D[i][j]) = n - 1
        BY <1>1, <3>2
      <4>. QED
        BY <4>1
    <3>. QED
      BY <1>1, <3>2, <3>5, <3>6
  <2>7. \A n \in 0 .. NumQubits : First(n) <=> n = D[i][j]
    BY <2>5, <2>6
  <2>8. WalkLength(device, i, j, bound) = CHOOSE n \in 0 .. NumQubits : First(n)
    BY <2>4 DEF WalkLength, ball
  <2>. HIDE DEF First
  <2>. QED
    BY <2>1, <2>7, <2>8
<1>. QED
  BY <1>4, <1>5

\* An edge behind a walk: no distance is longer by more than it.
LEMMA EdgeBehind ==
    ASSUME NEW device, IsDevice(device), NEW bound \in Nat, NEW D, Shortest(device, bound, D),
           NEW i \in Qubits, NEW j \in Qubits, NEW p \in Qubits,
           IsAdjacency(device, p, j), p = i \/ p < bound, D[i][p] # MaxDist
    PROVE  D[i][j] <= D[i][p] + 1 /\ D[i][j] # MaxDist
<1>1. PICK n \in Nat : n = D[i][p] /\ p \in Walks(device, i, bound, n)
  BY DEF Shortest
<1>2. j \in NextTo(device, Passing(i, bound, Walks(device, i, bound, n)))
  BY <1>1 DEF NextTo, Passing
<1>3. Walks(device, i, bound, n + 1)
        = Walks(device, i, bound, n)
          \cup NextTo(device, Passing(i, bound, Walks(device, i, bound, n)))
  BY WalkSteps
<1>4. PICK m \in Nat : m = n + 1 /\ j \in Walks(device, i, bound, m)
  BY <1>2, <1>3
<1>5. \A d \in Nat : j \in Walks(device, i, bound, d) => D[i][j] <= d /\ D[i][j] # MaxDist
  BY DistancesFit
<1>. QED
  BY <1>1, <1>4, <1>5

-----------------------------------------------------------------------------
(* The loop                                                                *)

LEMMA InitTablesKeep ==
    ASSUME NEW device, IsDevice(device)
    PROVE  TablesInv(device, 0, InitTables(device))
<1>. DEFINE D == InitTables(device).dist
            P == InitTables(device).pred
            W(i, n) == Walks(device, i, 0, n)
<1>1. NumQubits \in Nat /\ NumQubits # 0 /\ MaxDist \in Nat /\ 1 < MaxDist /\ NoQubit \notin Qubits
      /\ Qubits \subseteq Nat
  BY QubitsAreNat
<1>2. \A i, j \in Qubits :
         /\ D[i][j] = IF IsAdjacency(device, i, j) THEN 1 ELSE IF i = j THEN 0 ELSE MaxDist
         /\ P[i][j] = IF IsAdjacency(device, i, j) THEN i ELSE NoQubit
  BY DEF InitTables
<1>3. \A i, j \in Qubits : IsAdjacency(device, i, j) => IsAdjacency(device, j, i) /\ i # j
  BY Coupled
<1>. HIDE DEF D, P
<1>4. ASSUME NEW i \in Qubits
      PROVE  W(i, 0) = {i} /\ W(i, 1) = {i} \cup NextTo(device, {i})
             /\ \A n \in Nat : W(i, n) \subseteq {i} \cup NextTo(device, {i})
  <2>1. /\ W(i, 0) = {i}
        /\ \A n \in Nat : /\ W(i, n) \subseteq Qubits
                         /\ W(i, n + 1) = W(i, n) \cup NextTo(device, Passing(i, 0, W(i, n)))
    BY WalkSteps
  <2>. HIDE DEF W
  <2>2. ASSUME NEW n \in Nat PROVE Passing(i, 0, W(i, n)) = {i}
    <3>1. W(i, n) \subseteq Nat
      BY <1>1, <2>1
    <3>. QED
      BY <3>1 DEF Passing
  <2>3. \A n \in Nat : W(i, n + 1) = W(i, n) \cup NextTo(device, {i})
    BY <2>1, <2>2
  <2>. DEFINE Inside == {n \in Nat : W(i, n) \subseteq {i} \cup NextTo(device, {i})}
  <2>4. 0 \in Inside
    BY <2>1
  <2>5. ASSUME NEW n \in Inside, n \in Nat PROVE n + 1 \in Inside
    <3>1. W(i, n + 1) = W(i, n) \cup NextTo(device, {i}) /\ n + 1 \in Nat
      BY <2>3, <2>5
    <3>2. W(i, n) \subseteq {i} \cup NextTo(device, {i})
      BY <2>5
    <3>. QED
      BY <3>1, <3>2
  <2>6. Nat \subseteq Inside
    <3>. HIDE DEF Inside
    <3>. QED
      BY <2>4, <2>5, SetInduction
  <2>7. W(i, 1) = W(i, 0) \cup NextTo(device, {i})
    <3>1. W(i, 0 + 1) = W(i, 0) \cup NextTo(device, {i}) /\ 0 + 1 = 1
      BY <2>3
    <3>. QED
      BY <3>1
  <2>8. \A n \in Nat : W(i, n) \subseteq {i} \cup NextTo(device, {i})
    BY <2>6
  <2>. QED
    BY <2>1, <2>7, <2>8
<1>. HIDE DEF W
<1>5. Shortest(device, 0, D)
  <2>1. \A i, j \in Qubits : D[i][j] \in Nat /\ D[i][j] <= MaxDist /\ D[i][j] = D[j][i]
    BY <1>1, <1>2, <1>3
  <2>2. ASSUME NEW i \in Qubits, NEW j \in Qubits, D[i][j] # MaxDist
        PROVE  j \in W(i, D[i][j])
    <3>1. CASE IsAdjacency(device, i, j)
      <4>1. j \in NextTo(device, {i})
        BY <3>1 DEF NextTo
      <4>. QED
        BY <1>2, <1>4, <3>1, <4>1
    <3>2. CASE ~IsAdjacency(device, i, j)
      BY <1>2, <1>4, <2>2, <3>2
    <3>. QED
      BY <3>1, <3>2
  <2>3. ASSUME NEW i \in Qubits, NEW j \in Qubits, NEW n \in Nat, j \in W(i, n)
        PROVE  D[i][j] <= n
    <3>1. CASE i = j
      BY <1>1, <1>2, <1>3, <3>1
    <3>2. CASE i # j
      <4>1. n # 0
        BY <1>4, <2>3, <3>2
      <4>2. IsAdjacency(device, i, j)
        BY <1>4, <2>3, <3>2 DEF NextTo
      <4>. QED
        BY <1>2, <4>1, <4>2
    <3>. QED
      BY <3>1, <3>2
  <2>. QED
    BY <2>1, <2>2, <2>3 DEF Shortest, W
<1>6. \A i \in Qubits : D[i][i] = 0
  BY <1>2, <1>3
<1>7. Hops(device, 0, D, P)
  BY <1>1, <1>2, <1>3, <1>6 DEF Hops, IsHop
<1>8. OwnPrefixes(D, P)
  BY <1>1, <1>2 DEF OwnPrefixes
<1>. QED
  BY <1>5, <1>7, <1>8 DEF TablesInv, D, P

\* Does mid shorten the way from i to j?
Shortens(D, mid, i, j) == D[i][mid] # MaxDist /\ D[i][j] > D[i][mid] + D[mid][j]

\* The tables after one iteration, entry by entry
Relaxed(mid, D, P, E, R) ==
    \A i, j \in Qubits :
        /\ E[i][j] = IF Shortens(D, mid, i, j) THEN D[i][mid] + D[mid][j] ELSE D[i][j]
        /\ R[i][j] = IF Shortens(D, mid, i, j) THEN P[mid][j] ELSE P[i][j]

LEMMA RelaxEntries ==
    ASSUME NEW tab, NEW mid \in Qubits
    PROVE  Relaxed(mid, tab.dist, tab.pred, Relax(tab, mid).dist, Relax(tab, mid).pred)
<1>. DEFINE shorter == {p \in Reaching(tab, mid) :
                           tab.dist[p[1]][p[2]] > tab.dist[p[1]][mid] + tab.dist[mid][p[2]]}
<1>1. \A i, j \in Qubits : <<i, j>> \in shorter <=> Shortens(tab.dist, mid, i, j)
  BY DEF Reaching, Shortens
<1>2. Relax(tab, mid) = Through(tab, mid, shorter)
  BY DEF Relax
<1>. HIDE DEF shorter
<1>3. ASSUME NEW i \in Qubits, NEW j \in Qubits
      PROVE  /\ Through(tab, mid, shorter).dist[i][j] =
                   IF <<i, j>> \in shorter THEN tab.dist[i][mid] + tab.dist[mid][j] ELSE tab.dist[i][j]
             /\ Through(tab, mid, shorter).pred[i][j] =
                   IF <<i, j>> \in shorter THEN tab.pred[mid][j] ELSE tab.pred[i][j]
  BY DEF Through
<1>4. ASSUME NEW i \in Qubits, NEW j \in Qubits
      PROVE  /\ Relax(tab, mid).dist[i][j] =
                   IF Shortens(tab.dist, mid, i, j)
                   THEN tab.dist[i][mid] + tab.dist[mid][j] ELSE tab.dist[i][j]
             /\ Relax(tab, mid).pred[i][j] =
                   IF Shortens(tab.dist, mid, i, j) THEN tab.pred[mid][j] ELSE tab.pred[i][j]
  <2>1. <<i, j>> \in shorter <=> Shortens(tab.dist, mid, i, j)
    BY <1>1
  <2>2. CASE Shortens(tab.dist, mid, i, j)
    BY <1>2, <1>3, <2>1, <2>2
  <2>3. CASE ~Shortens(tab.dist, mid, i, j)
    BY <1>2, <1>3, <2>1, <2>3
  <2>. QED
    BY <2>2, <2>3
<1>. QED
  BY <1>4, Zenon DEF Relaxed

\* The entries that mid shortens are finite before and behind it, on both sides of the
\* diagonal, and none is in its row or column.
LEMMA ShortensBoth ==
    ASSUME NEW device, IsDevice(device), NEW mid \in Qubits, NEW D, Shortest(device, mid, D),
           NEW i \in Qubits, NEW j \in Qubits, Shortens(D, mid, i, j)
    PROVE  /\ Shortens(D, mid, j, i)
           /\ D[i][mid] # MaxDist /\ D[mid][j] # MaxDist
           /\ i # mid /\ j # mid /\ i # j
<1>1. /\ D[i][j] \in Nat /\ D[i][mid] \in Nat /\ D[mid][j] \in Nat /\ D[i][j] <= MaxDist
      /\ D[i][j] = D[j][i] /\ D[i][mid] = D[mid][i] /\ D[mid][j] = D[j][mid]
  BY DEF Shortest
<1>2. D[mid][mid] = 0 /\ D[i][i] = 0 /\ MaxDist \in Nat /\ mid \in Nat
  BY DistancesFit, QubitsAreNat
<1>. QED
  BY <1>1, <1>2 DEF Shortens

LEMMA RelaxKeepsShortest ==
    ASSUME NEW device, IsDevice(device), NEW mid \in Qubits, NEW D, Shortest(device, mid, D),
           NEW P, NEW E, NEW R, Relaxed(mid, D, P, E, R)
    PROVE  Shortest(device, mid + 1, E)
<1>1. mid \in Nat /\ MaxDist \in Nat
  BY QubitsAreNat
<1>2. ASSUME NEW i \in Qubits, NEW j \in Qubits
      PROVE  /\ D[i][j] \in Nat /\ D[i][j] <= MaxDist /\ D[i][j] = D[j][i]
             /\ D[i][mid] \in Nat /\ D[i][mid] <= MaxDist /\ D[i][mid] = D[mid][i]
             /\ D[mid][j] \in Nat /\ D[mid][j] <= MaxDist /\ D[mid][j] = D[j][mid]
             /\ E[i][j] = IF Shortens(D, mid, i, j) THEN D[i][mid] + D[mid][j] ELSE D[i][j]
             /\ E[j][i] = IF Shortens(D, mid, j, i) THEN D[j][mid] + D[mid][i] ELSE D[j][i]
  BY DEF Shortest, Relaxed
<1>3. ASSUME NEW i \in Qubits, NEW j \in Qubits
      PROVE  E[i][j] \in Nat /\ E[i][j] <= MaxDist /\ E[i][j] = E[j][i]
  <2>1. Shortens(D, mid, i, j) <=> Shortens(D, mid, j, i)
    BY ShortensBoth
  <2>2. CASE Shortens(D, mid, i, j)
    <3>1. E[i][j] = D[i][mid] + D[mid][j] /\ E[j][i] = D[j][mid] + D[mid][i]
      BY <1>2, <2>1, <2>2
    <3>2. D[i][j] > D[i][mid] + D[mid][j]
      BY <2>2 DEF Shortens
    <3>. QED
      BY <1>1, <1>2, <3>1, <3>2
  <2>3. CASE ~Shortens(D, mid, i, j)
    BY <1>2, <2>1, <2>3
  <2>. QED
    BY <2>2, <2>3
<1>4. ASSUME NEW i \in Qubits, NEW j \in Qubits, E[i][j] # MaxDist
      PROVE  j \in Walks(device, i, mid + 1, E[i][j])
  <2>1. CASE Shortens(D, mid, i, j)
    <3>1. D[i][mid] # MaxDist /\ D[mid][j] # MaxDist
      BY <2>1, ShortensBoth
    <3>2. mid \in Walks(device, i, mid, D[i][mid]) /\ j \in Walks(device, mid, mid, D[mid][j])
      BY <3>1 DEF Shortest
    <3>3. j \in Walks(device, i, mid + 1, D[i][mid] + D[mid][j])
      BY <1>2, <3>2, WalksJoin
    <3>. QED
      BY <1>2, <2>1, <3>3
  <2>2. CASE ~Shortens(D, mid, i, j)
    <3>1. E[i][j] = D[i][j] /\ D[i][j] \in Nat
      BY <1>2, <2>2
    <3>2. j \in Walks(device, i, mid, D[i][j])
      BY <1>4, <3>1 DEF Shortest
    <3>. QED
      BY <1>1, <3>1, <3>2, WalksGrow
  <2>. QED
    BY <2>1, <2>2
<1>5. ASSUME NEW i \in Qubits, NEW j \in Qubits, NEW n \in Nat,
             j \in Walks(device, i, mid + 1, n)
      PROVE  E[i][j] <= n
  <2>1. E[i][j] <= D[i][j] /\ (D[i][mid] # MaxDist => E[i][j] <= D[i][mid] + D[mid][j])
    BY <1>2 DEF Shortens
  <2>2. CASE j \in Walks(device, i, mid, n)
    <3>1. D[i][j] <= n
      BY <2>2 DEF Shortest
    <3>. QED
      BY <1>2, <1>3, <2>1, <3>1
  <2>3. CASE j \notin Walks(device, i, mid, n)
    <3>1. PICK a, b \in Nat : /\ a + b <= n
                              /\ mid \in Walks(device, i, mid, a)
                              /\ j \in Walks(device, mid, mid, b)
      BY <1>5, <2>3, WalksSplit
    <3>2. D[i][mid] <= a /\ D[i][mid] # MaxDist
      BY <1>1, <3>1, DistancesFit
    <3>3. D[mid][j] <= b
      BY <1>1, <3>1, DistancesFit
    <3>. QED
      BY <1>2, <1>3, <2>1, <3>1, <3>2, <3>3
  <2>. QED
    BY <2>2, <2>3
<1>. QED
  BY <1>3, <1>4, <1>5 DEF Shortest

\* The predecessor of a shortened entry is that of the row of mid: it is in an entry that
\* was shortened as well, or is mid.  That of another entry is in none that was.
LEMMA PredecessorsShorten ==
    ASSUME NEW device, IsDevice(device), NEW mid \in Qubits, NEW D, Shortest(device, mid, D),
           NEW P, Hops(device, mid, D, P), NEW E, NEW R, Relaxed(mid, D, P, E, R),
           NEW i \in Qubits, NEW j \in Qubits, i # j, E[i][j] # MaxDist
    PROVE  /\ IsHop(device, mid + 1, E, i, j, R[i][j])
           /\ IF Shortens(D, mid, i, j)
              THEN /\ R[i][j] = P[mid][j]
                   /\ R[i][j] # mid => Shortens(D, mid, i, R[i][j])
              ELSE R[i][j] = P[i][j] /\ ~Shortens(D, mid, i, R[i][j])
<1>1. mid \in Nat /\ MaxDist \in Nat /\ mid + 1 \in Nat /\ i \in Nat
  BY QubitsAreNat
<1>2. Shortest(device, mid + 1, E)
  BY RelaxKeepsShortest
<1>3. \A a, b \in Qubits : /\ D[a][b] \in Nat /\ D[a][b] <= MaxDist /\ D[a][a] = 0
                          /\ E[a][b] \in Nat /\ E[a][b] <= MaxDist
  <2>1. \A a, b \in Qubits : D[a][b] \in Nat /\ D[a][b] <= MaxDist
                            /\ E[a][b] \in Nat /\ E[a][b] <= MaxDist
    BY <1>2 DEF Shortest
  <2>2. \A a \in Qubits : D[a][a] = 0
    BY <1>1, DistancesFit
  <2>. QED
    BY <2>1, <2>2
<1>4. \A a, b \in Qubits :
         /\ Shortens(D, mid, a, b) => E[a][b] = D[a][mid] + D[mid][b] /\ R[a][b] = P[mid][b]
         /\ ~Shortens(D, mid, a, b) => E[a][b] = D[a][b] /\ R[a][b] = P[a][b]
  BY DEF Relaxed
<1>5. CASE Shortens(D, mid, i, j)
  <2>1. PICK p : p = P[mid][j] /\ p = R[i][j]
    BY <1>4, <1>5
  <2>2. /\ D[i][mid] # MaxDist /\ D[mid][j] # MaxDist /\ i # mid /\ j # mid
        /\ D[i][j] > D[i][mid] + D[mid][j] /\ E[i][j] = D[i][mid] + D[mid][j]
    BY <1>4, <1>5, ShortensBoth DEF Shortens
  <2>3. /\ p \in Qubits /\ IsAdjacency(device, p, j) /\ D[mid][p] + 1 = D[mid][j]
        /\ p = mid \/ p < mid
    <3>1. IsHop(device, mid, D, mid, j, P[mid][j])
      BY <2>2 DEF Hops
    <3>. QED
      BY <2>1, <3>1 DEF IsHop
  <2>4. ASSUME p # mid PROVE Shortens(D, mid, i, p)
    <3>1. SUFFICES ASSUME ~Shortens(D, mid, i, p) PROVE FALSE
      OBVIOUS
    <3>2. D[i][p] <= D[i][mid] + D[mid][p]
      BY <1>3, <2>2, <2>3, <3>1 DEF Shortens
    <3>3. D[i][p] # MaxDist
      BY <1>3, <2>2, <2>3, <3>2
    <3>4. D[i][j] <= D[i][p] + 1
      BY <1>1, <2>3, <2>4, <3>3, EdgeBehind
    <3>. QED
      BY <1>1, <1>3, <2>2, <2>3, <3>2, <3>4
  <2>5. E[i][p] = D[i][mid] + D[mid][p]
    <3>1. CASE p = mid
      <4>1. D[mid][mid] = 0 /\ ~Shortens(D, mid, i, mid)
        BY <1>3 DEF Shortens
      <4>. QED
        BY <1>3, <1>4, <3>1, <4>1
    <3>2. CASE p # mid
      BY <1>4, <2>3, <2>4, <3>2
    <3>. QED
      BY <3>1, <3>2
  <2>6. E[i][p] + 1 = E[i][j]
    BY <1>3, <2>2, <2>3, <2>5
  <2>7. p \in Nat /\ p < mid + 1
    <3>1. p \in Nat
      BY <2>3, QubitsAreNat
    <3>. QED
      BY <1>1, <2>3, <3>1
  <2>. QED
    BY <1>5, <2>1, <2>3, <2>4, <2>6, <2>7 DEF IsHop
<1>6. CASE ~Shortens(D, mid, i, j)
  <2>1. PICK p : p = P[i][j] /\ p = R[i][j]
    BY <1>4, <1>6
  <2>2. D[i][j] # MaxDist /\ E[i][j] = D[i][j]
    BY <1>4, <1>6
  <2>3. /\ p \in Qubits /\ IsAdjacency(device, p, j) /\ D[i][p] + 1 = D[i][j]
        /\ p = i \/ p < mid
    <3>1. IsHop(device, mid, D, i, j, P[i][j])
      BY <2>2 DEF Hops
    <3>. QED
      BY <2>1, <3>1 DEF IsHop
  <2>4. p \in Nat /\ (p = i \/ p < mid + 1)
    BY <1>1, <2>3, QubitsAreNat
  <2>5. ~Shortens(D, mid, i, p)
    <3>1. SUFFICES ASSUME Shortens(D, mid, i, p) PROVE FALSE
      OBVIOUS
    <3>2. E[i][p] < D[i][p]
      BY <1>4, <2>3, <3>1 DEF Shortens
    <3>3. E[i][p] # MaxDist
      BY <1>1, <1>3, <2>3, <3>2
    <3>4. E[i][j] <= E[i][p] + 1
      BY <1>1, <1>2, <2>3, <2>4, <3>3, EdgeBehind
    <3>. QED
      BY <1>3, <2>2, <2>3, <3>2, <3>4
  <2>6. E[i][p] + 1 = E[i][j]
    BY <1>4, <2>2, <2>3, <2>5
  <2>. QED
    BY <1>6, <2>1, <2>3, <2>4, <2>5, <2>6 DEF IsHop
<1>. QED
  BY <1>5, <1>6

LEMMA RelaxKeeps ==
    ASSUME NEW device, IsDevice(device), NEW mid \in Qubits, NEW tab, TablesInv(device, mid, tab)
    PROVE  TablesInv(device, mid + 1, Relax(tab, mid))
<1>1. PICK D, P, E, R : /\ D = tab.dist /\ P = tab.pred
                        /\ E = Relax(tab, mid).dist /\ R = Relax(tab, mid).pred
  OBVIOUS
<1>2. Relaxed(mid, D, P, E, R)
  BY <1>1, RelaxEntries
<1>3. Shortest(device, mid, D) /\ Hops(device, mid, D, P) /\ OwnPrefixes(D, P)
  BY <1>1 DEF TablesInv
<1>4. Shortest(device, mid + 1, E)
  BY <1>2, <1>3, RelaxKeepsShortest
<1>5. mid \in Nat /\ MaxDist \in Nat /\ mid + 1 \in Nat
  BY QubitsAreNat
<1>6. \A a, b \in Qubits :
         /\ Shortens(D, mid, a, b) => E[a][b] = D[a][mid] + D[mid][b] /\ R[a][b] = P[mid][b]
         /\ ~Shortens(D, mid, a, b) => E[a][b] = D[a][b] /\ R[a][b] = P[a][b]
  BY <1>2 DEF Relaxed
<1>7. \A a, b \in Qubits : Shortens(D, mid, a, b) <=> Shortens(D, mid, b, a)
  BY <1>3, ShortensBoth
<1>8. Hops(device, mid + 1, E, R)
  <2>1. ASSUME NEW i \in Qubits, NEW j \in Qubits, i = j \/ E[i][j] = MaxDist
        PROVE  R[i][j] = NoQubit
    <3>1. ~Shortens(D, mid, i, j)
      <4>1. CASE i = j
        BY <1>3, <4>1, ShortensBoth
      <4>2. CASE E[i][j] = MaxDist
        <5>1. D[i][j] \in Nat /\ D[i][j] <= MaxDist
          BY <1>3 DEF Shortest
        <5>2. D[i][mid] \in Nat /\ D[mid][j] \in Nat
          BY <1>3 DEF Shortest
        <5>. QED
          BY <1>5, <1>6, <4>2, <5>1, <5>2 DEF Shortens
      <4>. QED
        BY <2>1, <4>1, <4>2
    <3>2. R[i][j] = P[i][j] /\ E[i][j] = D[i][j]
      BY <1>6, <3>1
    <3>. QED
      BY <1>3, <2>1, <3>2 DEF Hops
  <2>2. ASSUME NEW i \in Qubits, NEW j \in Qubits, i # j, E[i][j] # MaxDist
        PROVE  IsHop(device, mid + 1, E, i, j, R[i][j])
    BY <1>2, <1>3, <2>2, PredecessorsShorten
  <2>. QED
    BY <2>1, <2>2 DEF Hops
<1>9. ASSUME NEW i \in Qubits, NEW j \in Qubits, i # j, E[i][j] # MaxDist, R[i][j] # i
      PROVE  R[R[i][j]][i] = R[j][i]
  <2>1. PICK p : p = R[i][j]
    OBVIOUS
  <2>2. p \in Qubits /\ p # i
    BY <1>2, <1>3, <1>9, <2>1, PredecessorsShorten DEF IsHop
  <2>3. CASE Shortens(D, mid, i, j)
    <3>1. p # mid => Shortens(D, mid, i, p)
      BY <1>2, <1>3, <1>9, <2>1, <2>3, PredecessorsShorten
    <3>2. R[j][i] = P[mid][i]
      BY <1>6, <1>7, <2>3
    <3>3. R[p][i] = P[mid][i]
      <4>1. CASE p = mid
        <5>1. ~Shortens(D, mid, mid, i)
          BY <1>3, ShortensBoth
        <5>. QED
          BY <1>6, <4>1, <5>1
      <4>2. CASE p # mid
        BY <1>6, <1>7, <2>2, <3>1, <4>2
      <4>. QED
        BY <4>1, <4>2
    <3>. QED
      BY <2>1, <3>2, <3>3
  <2>4. CASE ~Shortens(D, mid, i, j)
    <3>1. p = P[i][j] /\ ~Shortens(D, mid, i, p)
      BY <1>2, <1>3, <1>9, <2>1, <2>4, PredecessorsShorten
    <3>2. R[j][i] = P[j][i] /\ R[p][i] = P[p][i] /\ E[i][j] = D[i][j]
      BY <1>6, <1>7, <2>2, <2>4, <3>1
    <3>3. P[p][i] = P[j][i]
      BY <1>3, <1>9, <2>2, <3>1, <3>2 DEF OwnPrefixes
    <3>. QED
      BY <2>1, <3>2, <3>3
  <2>. QED
    BY <2>3, <2>4
<1>10. OwnPrefixes(E, R)
  BY <1>9 DEF OwnPrefixes
<1>. QED
  BY <1>1, <1>4, <1>8, <1>10 DEF TablesInv

-----------------------------------------------------------------------------
(* The paths of get_path                                                   *)

\* x begins with s and from there on, for m steps, every qubit is followed by its
\* predecessor in the row of t.
Towards(P, s, t, m, x) ==
    x[0] = s /\ \A n \in 0 .. m - 1 : x[n] \in Qubits => x[n + 1] = P[t][x[n]]

\* path lists the qubits from x[0] to x[m].
Lists(path, m, x) == path = [n \in 1 .. m + 1 |-> x[n - 1]]

\* It comes nearer to t at every step, and in the end there.
LEMMA ComesNearer ==
    ASSUME NEW device, IsDevice(device), NEW bound \in Nat,
           NEW D, NEW P, Shortest(device, bound, D), Hops(device, bound, D, P),
           NEW s \in Qubits, NEW t \in Qubits, NEW m \in Nat, m = D[s][t], m # MaxDist,
           NEW x, Towards(P, s, t, m, x)
    PROVE  /\ m <= NumQubits
           /\ \A n \in 0 .. m : x[n] \in Qubits /\ D[t][x[n]] = m - n /\ (x[n] = t <=> n = m)
           /\ x[m] = t
<1>1. NumQubits \in Nat /\ NumQubits < MaxDist /\ MaxDist \in Nat /\ m <= NumQubits
  <2>1. m <= NumQubits
    BY DistancesFit
  <2>. QED
    BY <2>1, QubitsAreNat
<1>2. \A a, b \in Qubits : D[a][b] \in Nat /\ D[a][b] = D[b][a] /\ D[a][a] = 0
  <2>1. \A a, b \in Qubits : D[a][b] \in Nat /\ D[a][b] = D[b][a]
    BY DEF Shortest
  <2>2. \A a \in Qubits : D[a][a] = 0
    BY DistancesFit
  <2>. QED
    BY <2>1, <2>2
<1>3. \A a, b \in Qubits : a # b /\ D[a][b] # MaxDist => P[a][b] \in Qubits /\ D[a][P[a][b]] + 1 = D[a][b]
  <2>1. \A a, b \in Qubits : a # b /\ D[a][b] # MaxDist => IsHop(device, bound, D, a, b, P[a][b])
    BY DEF Hops
  <2>. QED
    BY <2>1 DEF IsHop
<1>4. x[0] = s /\ \A n \in 0 .. m - 1 : x[n] \in Qubits => x[n + 1] = P[t][x[n]]
  BY DEF Towards
<1>. DEFINE Near == {n \in Nat : n <= m => x[n] \in Qubits /\ D[t][x[n]] = m - n}
<1>5. 0 \in Near
  BY <1>2, <1>4
<1>6. ASSUME NEW n \in Near, n \in Nat PROVE n + 1 \in Near
  <2>1. SUFFICES ASSUME n + 1 <= m PROVE x[n + 1] \in Qubits /\ D[t][x[n + 1]] = m - (n + 1)
    OBVIOUS
  <2>2. n \in 0 .. m - 1 /\ n <= m
    BY <1>6, <2>1
  <2>3. PICK q \in Qubits : q = x[n] /\ D[t][q] = m - n
    BY <1>6, <2>2
  <2>4. q # t /\ D[t][q] # MaxDist
    BY <1>1, <1>2, <2>2, <2>3
  <2>5. PICK p \in Qubits : p = x[n + 1] /\ D[t][p] + 1 = D[t][q]
    BY <1>3, <1>4, <2>2, <2>3, <2>4
  <2>6. D[t][p] \in Nat
    BY <1>2
  <2>. QED
    BY <1>6, <2>3, <2>5, <2>6
<1>7. Nat \subseteq Near
  <2>. HIDE DEF Near
  <2>. QED
    BY <1>5, <1>6, SetInduction
<1>8. ASSUME NEW n \in 0 .. m
      PROVE  x[n] \in Qubits /\ D[t][x[n]] = m - n /\ (x[n] = t <=> n = m)
  <2>1. PICK q \in Qubits : q = x[n] /\ D[t][q] = m - n
    BY <1>7
  <2>2. q = t => n = m
    BY <1>2, <2>1
  <2>3. n = m => q = t
    <3>1. SUFFICES ASSUME D[t][q] = 0, q # t PROVE FALSE
      BY <2>1
    <3>2. D[t][q] # MaxDist
      BY <1>1, <3>1
    <3>3. PICK p \in Qubits : D[t][p] + 1 = 0
      BY <1>3, <3>1, <3>2
    <3>4. D[t][p] \in Nat
      BY <1>2
    <3>. QED
      BY <3>3, <3>4
  <2>. QED
    BY <2>1, <2>2, <2>3
<1>. QED
  BY <1>1, <1>8

\* Up to its last step it follows the row of the predecessor of t as well.
LEMMA FollowsShorter ==
    ASSUME NEW device, IsDevice(device), NEW bound \in Nat,
           NEW D, NEW P, Shortest(device, bound, D), Hops(device, bound, D, P), OwnPrefixes(D, P),
           NEW s \in Qubits, NEW t \in Qubits, NEW m \in Nat, m + 1 = D[s][t], m + 1 # MaxDist,
           NEW x, Towards(P, s, t, m + 1, x)
    PROVE  /\ P[s][t] \in Qubits /\ D[s][P[s][t]] = m
           /\ Towards(P, s, P[s][t], m, x)
<1>. DEFINE p == P[s][t]
<1>1. NumQubits \in Nat /\ NumQubits < MaxDist /\ MaxDist \in Nat /\ m + 1 \in Nat
  BY QubitsAreNat
<1>2. \A a, b \in Qubits : D[a][b] \in Nat /\ D[a][b] = D[b][a] /\ D[a][a] = 0
  <2>1. \A a, b \in Qubits : D[a][b] \in Nat /\ D[a][b] = D[b][a]
    BY DEF Shortest
  <2>2. \A a \in Qubits : D[a][a] = 0
    BY DistancesFit
  <2>. QED
    BY <2>1, <2>2
<1>3. \A a, b \in Qubits : a # b /\ D[a][b] # MaxDist => P[a][b] \in Qubits /\ D[a][P[a][b]] + 1 = D[a][b]
  <2>1. \A a, b \in Qubits : a # b /\ D[a][b] # MaxDist => IsHop(device, bound, D, a, b, P[a][b])
    BY DEF Hops
  <2>. QED
    BY <2>1 DEF IsHop
<1>4. /\ m + 1 <= NumQubits
      /\ \A n \in 0 .. m + 1 : x[n] \in Qubits /\ D[t][x[n]] = (m + 1) - n /\ (x[n] = t <=> n = m + 1)
  BY <1>1, ComesNearer
<1>5. x[0] = s /\ \A n \in 0 .. (m + 1) - 1 : x[n] \in Qubits => x[n + 1] = P[t][x[n]]
  BY DEF Towards
<1>6. s # t /\ p \in Qubits /\ D[s][p] = m
  <2>1. s # t
    BY <1>2
  <2>2. PICK q \in Qubits : q = p /\ D[s][q] + 1 = m + 1
    BY <1>3, <2>1
  <2>3. D[s][q] \in Nat
    BY <1>2
  <2>. QED
    BY <2>1, <2>2, <2>3
<1>. HIDE DEF p
<1>. DEFINE Same == {n \in Nat : n <= m => P[x[n]][t] = p}
<1>7. 0 \in Same
  BY <1>5 DEF p
<1>8. ASSUME NEW n \in Same, n \in Nat PROVE n + 1 \in Same
  <2>1. SUFFICES ASSUME n + 1 <= m PROVE P[x[n + 1]][t] = p
    OBVIOUS
  <2>2. n \in 0 .. m + 1 /\ n + 1 \in 0 .. m + 1 /\ n \in 0 .. (m + 1) - 1 /\ n <= m /\ n # m + 1
        /\ n + 1 # m + 1
    BY <1>8, <2>1
  <2>3. PICK q \in Qubits : q = x[n] /\ q # t /\ D[t][q] = (m + 1) - n /\ P[q][t] = p
    BY <1>4, <1>8, <2>2
  <2>4. x[n + 1] = P[t][q] /\ P[t][q] # t
    BY <1>4, <1>5, <2>2, <2>3
  <2>5. D[t][q] # MaxDist
    BY <1>1, <1>4, <2>2, <2>3
  <2>6. P[P[t][q]][t] = P[q][t]
    BY <2>3, <2>4, <2>5 DEF OwnPrefixes
  <2>. QED
    BY <2>3, <2>4, <2>6
<1>9. \A n \in 0 .. m : P[x[n]][t] = p
  <2>1. Nat \subseteq Same
    <3>. HIDE DEF Same
    <3>. QED
      BY <1>7, <1>8, SetInduction
  <2>. QED
    BY <2>1
<1>10. D[t][p] = 1
  <2>1. m \in 0 .. m + 1 /\ m \in 0 .. m /\ m # m + 1
    BY <1>1
  <2>2. PICK q \in Qubits : q = x[m] /\ q # t /\ D[t][q] = 1 /\ P[q][t] = p
    <3>1. (m + 1) - m = 1
      OBVIOUS
    <3>. QED
      BY <1>4, <1>9, <2>1, <3>1
  <2>3. D[q][t] = 1 /\ D[q][t] # MaxDist
    BY <1>1, <1>2, <1>4, <2>2
  <2>4. D[q][p] + 1 = 1 /\ D[q][p] \in Nat
    BY <1>2, <1>3, <1>6, <2>2, <2>3
  <2>5. p = q
    <3>1. SUFFICES ASSUME p # q PROVE FALSE
      OBVIOUS
    <3>2. D[q][p] = 0 /\ D[q][p] # MaxDist
      BY <1>1, <2>4
    <3>3. PICK r \in Qubits : D[q][r] + 1 = D[q][p]
      BY <1>3, <1>6, <3>1, <3>2
    <3>4. D[q][r] \in Nat
      BY <1>2
    <3>. QED
      BY <3>2, <3>3, <3>4
  <2>. QED
    BY <2>2, <2>5
<1>11. ASSUME NEW n \in 0 .. m - 1 PROVE x[n + 1] = P[p][x[n]]
  <2>1. n \in 0 .. m + 1 /\ n \in 0 .. m /\ n \in 0 .. (m + 1) - 1 /\ n # m + 1
    OBVIOUS
  <2>2. PICK q \in Qubits : q = x[n] /\ q # t /\ D[t][q] = (m + 1) - n /\ P[q][t] = p
    BY <1>4, <1>9, <2>1
  <2>3. q # p
    BY <1>10, <2>2
  <2>4. D[q][t] # MaxDist
    BY <1>1, <1>2, <1>4, <2>2
  <2>5. P[P[q][t]][q] = P[t][q]
    BY <2>2, <2>3, <2>4 DEF OwnPrefixes
  <2>. QED
    BY <1>5, <2>1, <2>2, <2>5
<1>. QED
  BY <1>5, <1>6, <1>11 DEF Towards, p

\* The two ends of a walk follow one path, in opposite directions.
LEMMA WaysAgree ==
    ASSUME NEW device, IsDevice(device), NEW bound \in Nat,
           NEW D, NEW P, Shortest(device, bound, D), Hops(device, bound, D, P), OwnPrefixes(D, P),
           NEW s \in Qubits, NEW t \in Qubits, NEW m \in Nat, m = D[s][t], m # MaxDist,
           NEW x, Towards(P, s, t, m, x), NEW y, Towards(P, t, s, m, y), NEW n \in 0 .. m
    PROVE  x[n] = y[m - n]
<1>. DEFINE Agrees(d) == \A a, b \in Qubits : d = D[a][b] /\ d # MaxDist =>
                            \A u, v : Towards(P, a, b, d, u) /\ Towards(P, b, a, d, v) =>
                               \A l \in 0 .. d : u[l] = v[d - l]
            Agreeing == {d \in Nat : Agrees(d)}
<1>1. 0 \in Agreeing
  <2>1. ASSUME NEW a \in Qubits, NEW b \in Qubits, 0 = D[a][b], 0 # MaxDist, NEW u, NEW v,
               Towards(P, a, b, 0, u), Towards(P, b, a, 0, v), NEW l \in 0 .. 0
        PROVE  u[l] = v[0 - l]
    <3>1. l = 0 /\ 0 - 0 = 0
      BY SMT
    <3>2. u[0] = b
      BY <2>1, ComesNearer
    <3>3. v[0] = b
      BY <2>1 DEF Towards
    <3>. QED
      BY <3>1, <3>2, <3>3
  <2>. QED
    BY <2>1
<1>2. ASSUME NEW d \in Nat, Agrees(d) PROVE Agrees(d + 1)
  <2>1. SUFFICES ASSUME NEW a \in Qubits, NEW b \in Qubits, d + 1 = D[a][b], d + 1 # MaxDist,
                        NEW u, NEW v, Towards(P, a, b, d + 1, u), Towards(P, b, a, d + 1, v),
                        NEW l \in 0 .. d + 1
                 PROVE  u[l] = v[(d + 1) - l]
    OBVIOUS
  <2>2. PICK p \in Qubits : p = P[a][b] /\ D[a][p] = d /\ Towards(P, a, p, d, u)
    BY <2>1, FollowsShorter
  <2>3. d # MaxDist
    <3>1. D[a][b] \in Nat /\ D[a][b] <= MaxDist /\ MaxDist \in Nat
      BY QubitsAreNat DEF Shortest
    <3>. QED
      BY <2>1, <3>1
  <2>4. v[0] = b /\ \A i \in 0 .. (d + 1) - 1 : v[i] \in Qubits => v[i + 1] = P[a][v[i]]
    BY <2>1 DEF Towards
  <2>. DEFINE w == [i \in 0 .. d |-> v[i + 1]]
  <2>5. Towards(P, p, a, d, w)
    <3>1. w[0] = p
      <4>1. v[0 + 1] = P[a][v[0]] /\ w[0] = v[0 + 1]
        BY <2>4
      <4>. QED
        BY <2>2, <2>4, <4>1
    <3>2. ASSUME NEW i \in 0 .. d - 1, w[i] \in Qubits PROVE w[i + 1] = P[a][w[i]]
      <4>1. i + 1 \in 0 .. (d + 1) - 1 /\ i + 1 \in 0 .. d /\ i \in 0 .. d
        OBVIOUS
      <4>2. w[i + 1] = v[(i + 1) + 1] /\ w[i] = v[i + 1]
        BY <4>1
      <4>. QED
        BY <2>4, <3>2, <4>1, <4>2
    <3>. HIDE DEF w
    <3>. QED
      BY <3>1, <3>2 DEF Towards
  <2>6. \A i \in 0 .. d : u[i] = w[d - i]
    <3>. HIDE DEF w
    <3>. QED
      BY <1>2, <2>2, <2>3, <2>5
  <2>7. CASE l = d + 1
    <3>1. u[d + 1] = b
      <4>1. d + 1 \in Nat
        OBVIOUS
      <4>. QED
        BY <2>1, <4>1, ComesNearer
    <3>2. (d + 1) - l = 0
      BY <2>7
    <3>. QED
      BY <2>4, <2>7, <3>1, <3>2
  <2>8. CASE l # d + 1
    <3>1. l \in 0 .. d /\ d - l \in 0 .. d /\ (d - l) + 1 = (d + 1) - l
      BY <2>8
    <3>2. w[d - l] = v[(d - l) + 1]
      BY <3>1
    <3>. HIDE DEF w
    <3>. QED
      BY <2>6, <3>1, <3>2
  <2>. QED
    BY <2>7, <2>8
<1>3. m \in Agreeing
  <2>1. \A d \in Agreeing : d \in Nat => d + 1 \in Agreeing
    <3>. HIDE DEF Agrees
    <3>. QED
      BY <1>2
  <2>2. Nat \subseteq Agreeing
    <3>. HIDE DEF Agreeing
    <3>. QED
      BY <1>1, <2>1, SetInduction
  <2>. QED
    BY <2>2
<1>. QED
  BY <1>3

\* get_path lists the qubits that such a way comes through.
LEMMA PathFollowsWay ==
    ASSUME NEW device, IsDevice(device), NEW bound \in Nat,
           NEW tab, TablesInv(device, bound, tab),
           NEW s \in Qubits, NEW t \in Qubits, NEW m \in Nat, m = tab.dist[s][t], m # MaxDist
    PROVE  \E x : Towards(tab.pred, s, t, m, x) /\ Lists(GetPath(tab, s, t), m, x)
<1>. DEFINE Next1(q) == IF q = NoQubit THEN NoQubit ELSE tab.pred[t][q]
            Hopping(f) == [n \in 0 .. NumQubits |-> IF n = 0 THEN s ELSE Next1(f[n - 1])]
            hop == CHOOSE f : f = Hopping(f)
            Computed == {l \in Nat : l <= NumQubits =>
                          \E f : /\ f = [n \in 0 .. l |-> f[n]]
                                 /\ f[0] = s
                                 /\ \A n \in 1 .. l : f[n] = Next1(f[n - 1])}
            Marked == {n \in 0 .. NumQubits : hop[n] # NoQubit}
<1>1. GetPath(tab, s, t) = [n \in 1 .. Max(Marked) + 1 |-> hop[n - 1]]
  BY DEF GetPath
<1>2. NumQubits \in Nat
  BY QubitsAreNat
<1>3. 0 \in Computed
  <2>. DEFINE f == [n \in 0 .. 0 |-> s]
  <2>1. f = [n \in 0 .. 0 |-> f[n]] /\ f[0] = s
    OBVIOUS
  <2>2. 1 .. 0 = {}
    OBVIOUS
  <2>. HIDE DEF f
  <2>3. \A n \in 1 .. 0 : f[n] = Next1(f[n - 1])
    BY <2>2
  <2>. QED
    BY <2>1, <2>3
<1>4. ASSUME NEW l \in Nat, l \in Computed
      PROVE  l + 1 \in Computed
  <2>. HIDE DEF Next1
  <2>1. SUFFICES ASSUME l + 1 <= NumQubits
                 PROVE  \E g : /\ g = [n \in 0 .. l + 1 |-> g[n]]
                               /\ g[0] = s
                               /\ \A n \in 1 .. l + 1 : g[n] = Next1(g[n - 1])
    OBVIOUS
  <2>2. PICK f : /\ f[0] = s
                 /\ \A n \in 1 .. l : f[n] = Next1(f[n - 1])
    BY <1>2, <1>4, <2>1
  <2>. DEFINE g == [n \in 0 .. l + 1 |-> IF n = l + 1 THEN Next1(f[l]) ELSE f[n]]
  <2>3. g = [n \in 0 .. l + 1 |-> g[n]]
    OBVIOUS
  <2>4. g[0] = s
    BY <2>2
  <2>5. \A n \in 0 .. l : g[n] = f[n]
    OBVIOUS
  <2>6. g[l + 1] = Next1(f[l])
    OBVIOUS
  <2>. HIDE DEF g
  <2>7. ASSUME NEW n \in 1 .. l + 1 PROVE g[n] = Next1(g[n - 1])
    <3>1. CASE n = l + 1
      <4>1. n - 1 = l
        BY <3>1
      <4>. QED
        BY <3>1, <4>1, <2>5, <2>6
    <3>2. CASE n # l + 1
      <4>1. n \in 1 .. l /\ n - 1 \in 0 .. l /\ n \in 0 .. l
        BY <3>2
      <4>. QED
        BY <4>1, <2>2, <2>5
    <3>. QED
      BY <3>1, <3>2
  <2>. QED
    BY <2>3, <2>4, <2>7
<1>5. hop = Hopping(hop)
  <2>1. Nat \subseteq Computed
    <3>. HIDE DEF Computed
    <3>. QED
      BY <1>3, <1>4, SetInduction
  <2>. HIDE DEF Next1
  <2>7. NumQubits \in Computed /\ NumQubits <= NumQubits
    <3>. HIDE DEF Computed
    <3>. QED
      BY <1>2, <2>1
  <2>2. PICK f : /\ f = [n \in 0 .. NumQubits |-> f[n]]
                 /\ f[0] = s
                 /\ \A n \in 1 .. NumQubits : f[n] = Next1(f[n - 1])
    BY <2>7, Zenon
  <2>3. \A n \in 0 .. NumQubits : n # 0 => n \in 1 .. NumQubits
    BY <1>2
  <2>4. \A n \in 0 .. NumQubits : f[n] = IF n = 0 THEN s ELSE Next1(f[n - 1])
    BY <2>2, <2>3
  <2>5. f = Hopping(f)
    BY <2>2, <2>4, Zenon
  <2>. HIDE DEF Hopping
  <2>6. \E g : g = Hopping(g)
    BY <2>5
  <2>. QED
    BY <2>6, Zenon
<1>. HIDE DEF hop
<1>6. hop[0] = s /\ \A n \in 0 .. NumQubits - 1 : hop[n + 1] = Next1(hop[n])
  <2>. HIDE DEF Next1
  <2>1. 0 \in 0 .. NumQubits
        /\ \A n \in 0 .. NumQubits - 1 : n + 1 \in 0 .. NumQubits /\ n + 1 # 0 /\ (n + 1) - 1 = n
    BY <1>2
  <2>. QED
    BY <1>5, <2>1
<1>. HIDE DEF Computed
<1>7. /\ m <= NumQubits /\ NoQubit \notin Qubits
      /\ Shortest(device, bound, tab.dist) /\ Hops(device, bound, tab.dist, tab.pred)
  <2>1. Shortest(device, bound, tab.dist) /\ Hops(device, bound, tab.dist, tab.pred)
    BY DEF TablesInv
  <2>2. m <= NumQubits
    BY <2>1, DistancesFit
  <2>. QED
    BY <2>1, <2>2, QubitsAreNat
<1>8. Towards(tab.pred, s, t, m, hop)
  <2>1. ASSUME NEW n \in 0 .. m - 1, hop[n] \in Qubits PROVE hop[n + 1] = tab.pred[t][hop[n]]
    <3>1. n \in 0 .. NumQubits - 1 /\ hop[n] # NoQubit
      BY <1>2, <1>7, <2>1
    <3>. QED
      BY <1>6, <3>1
  <2>. QED
    BY <1>6, <2>1 DEF Towards
<1>9. \A n \in 0 .. m : hop[n] # NoQubit
  <2>1. \A n \in 0 .. m : hop[n] \in Qubits
    BY <1>7, <1>8, ComesNearer
  <2>. QED
    BY <1>7, <2>1
<1>10. hop[m] = t /\ tab.pred[t][t] = NoQubit
  <2>1. hop[m] = t
    BY <1>7, <1>8, ComesNearer
  <2>. QED
    BY <1>7, <2>1 DEF Hops
<1>. DEFINE Ended == {n \in Nat : n <= m \/ NumQubits < n \/ hop[n] = NoQubit}
<1>11. ASSUME NEW n \in Ended, n \in Nat PROVE n + 1 \in Ended
  <2>1. SUFFICES ASSUME ~(n + 1 <= m), ~(NumQubits < n + 1) PROVE hop[n + 1] = NoQubit
    OBVIOUS
  <2>2. n \in 0 .. NumQubits - 1
    BY <1>2, <2>1
  <2>3. hop[n] = NoQubit \/ n = m
    BY <1>2, <1>11, <2>1
  <2>. QED
    BY <1>6, <1>10, <2>2, <2>3
<1>12. Marked = 0 .. m
  <2>1. 0 \in Ended
    OBVIOUS
  <2>2. Nat \subseteq Ended
    <3>. HIDE DEF Ended
    <3>. QED
      BY <1>11, <2>1, SetInduction
  <2>3. ASSUME NEW n \in 0 .. NumQubits PROVE hop[n] # NoQubit <=> n \in 0 .. m
    <3>1. n \in Ended
      BY <1>2, <2>2
    <3>. QED
      BY <1>2, <1>9, <3>1
  <2>4. 0 .. m \subseteq 0 .. NumQubits
    BY <1>2, <1>7
  <2>. QED
    BY <2>3, <2>4
<1>13. Max(0 .. m) = m
  <2>1. 0 .. m \subseteq Nat /\ m \in 0 .. m /\ 0 .. m # {} /\ \A n \in 0 .. m : n <= m
    OBVIOUS
  <2>2. Max(0 .. m) \in 0 .. m /\ \A n \in 0 .. m : n <= Max(0 .. m)
    BY <2>1, MaxOfNaturals
  <2>. QED
    BY <2>1, <2>2
<1>. HIDE DEF Marked
<1>. QED
  BY <1>1, <1>8, <1>12, <1>13 DEF Lists

\* The path from the one end is that from the other, backwards.
LEMMA PathsReversed ==
    ASSUME NEW device, IsDevice(device), NEW bound \in Nat,
           NEW tab, TablesInv(device, bound, tab),
           NEW s \in Qubits, NEW t \in Qubits, tab.dist[s][t] # MaxDist
    PROVE  GetPath(tab, s, t) = Reverse(GetPath(tab, t, s))
<1>1. /\ Shortest(device, bound, tab.dist) /\ Hops(device, bound, tab.dist, tab.pred)
      /\ OwnPrefixes(tab.dist, tab.pred)
  BY DEF TablesInv
<1>2. PICK m \in Nat : m = tab.dist[s][t] /\ m = tab.dist[t][s] /\ m # MaxDist
  BY <1>1 DEF Shortest
<1>3. PICK x : Towards(tab.pred, s, t, m, x) /\ Lists(GetPath(tab, s, t), m, x)
  BY <1>2, PathFollowsWay
<1>4. PICK y : Towards(tab.pred, t, s, m, y) /\ Lists(GetPath(tab, t, s), m, y)
  BY <1>2, PathFollowsWay
<1>5. \A n \in 0 .. m : x[n] = y[m - n]
  <2>1. ASSUME NEW n \in 0 .. m PROVE x[n] = y[m - n]
    <3>1. ASSUME NEW D, NEW P, D = tab.dist, P = tab.pred
          PROVE  x[n] = y[m - n]
      <4>1. /\ Shortest(device, bound, D) /\ Hops(device, bound, D, P) /\ OwnPrefixes(D, P)
            /\ m = D[s][t] /\ Towards(P, s, t, m, x) /\ Towards(P, t, s, m, y)
        BY <1>1, <1>2, <1>3, <1>4, <3>1
      <4>. QED
        BY <1>2, <4>1, WaysAgree
    <3>. QED
      BY <3>1
  <2>. QED
    BY <2>1
<1>. DEFINE path == GetPath(tab, t, s)
<1>6. Len(path) = m + 1 /\ \A n \in 1 .. m + 1 : path[n] = y[n - 1]
  <2>1. path = [n \in 1 .. m + 1 |-> y[n - 1]] /\ m + 1 \in Nat
    BY <1>4 DEF Lists
  <2>. HIDE DEF path
  <2>2. DOMAIN path = 1 .. m + 1
    BY <2>1
  <2>. QED
    BY <2>1, <2>2, LenProperties
<1>. HIDE DEF path
<1>7. Reverse(path) = [n \in 1 .. m + 1 |-> path[((m + 1) - n) + 1]]
  BY <1>6 DEF Reverse
<1>8. ASSUME NEW n \in 1 .. m + 1 PROVE path[((m + 1) - n) + 1] = x[n - 1]
  <2>1. /\ ((m + 1) - n) + 1 \in 1 .. m + 1 /\ (((m + 1) - n) + 1) - 1 = m - (n - 1)
        /\ n - 1 \in 0 .. m
    OBVIOUS
  <2>. QED
    BY <1>5, <1>6, <2>1
<1>. QED
  BY <1>3, <1>7, <1>8 DEF path, Lists

-----------------------------------------------------------------------------
(* The theorems                                                            *)

LoopInv == /\ dev \in Devices
           /\ k \in 0 .. NumQubits
           /\ TablesInv(dev, k, tables)

\* After every round of floyd_warshall the tables are those of the shortest walks through
\* the qubits below k, whatever the device: the inductive invariant of the loop.
THEOREM TablesOfWalks == Spec => []LoopInv
<1>1. Init => LoopInv
  BY QubitsAreNat, FloydWarshallAssumption, InitTablesKeep DEF Init, LoopInv
<1>2. LoopInv /\ [Next]_vars => LoopInv'
  <2>. SUFFICES ASSUME LoopInv, [Next]_vars PROVE LoopInv'
    OBVIOUS
  <2>1. CASE Include
    <3>1. k \in Qubits /\ k \in Nat /\ k + 1 \in 0 .. NumQubits /\ IsDevice(dev)
      BY <2>1, QubitsAreNat, FloydWarshallAssumption DEF Include, LoopInv, Qubits
    <3>2. TablesInv(dev, k + 1, Relax(tables, k))
      BY <3>1, RelaxKeeps DEF LoopInv
    <3>. QED
      BY <2>1, <3>1, <3>2 DEF Include, LoopInv
  <2>2. CASE UNCHANGED vars
    BY <2>2 DEF vars, LoopInv
  <2>. QED
    BY <2>1, <2>2 DEF Next, Done
<1>. QED
  BY <1>1, <1>2, PTL DEF Spec

\* Whatever the device and however many its qubits, calculate_path leaves tables to be
\* routed by: the distances are those of the device, the predecessors lead along its edges
\* one step nearer, and the two ends of a walk are on one path.
THEOREM PathTablesAreRight == Spec => []PathTables
<1>1. LoopInv => PathTables
  <2>. SUFFICES ASSUME LoopInv PROVE PathTables
    OBVIOUS
  <2>1. /\ k \in Nat /\ IsDevice(dev) /\ TablesInv(dev, k, tables)
        /\ Shortest(dev, k, tables.dist) /\ Hops(dev, k, tables.dist, tables.pred)
    BY QubitsAreNat, FloydWarshallAssumption DEF LoopInv, TablesInv
  <2>2. ShortestSoFar
    BY <2>1, ShortestIsWalkLength DEF ShortestSoFar
  <2>3. PredecessorsAreHops
    BY <2>1 DEF PredecessorsAreHops, Hops, IsHop
  <2>4. PathsAgree
    BY <2>1, PathsReversed DEF PathsAgree
  <2>. QED
    BY <2>2, <2>3, <2>4 DEF PathTables
<1>. QED
  BY <1>1, TablesOfWalks, PTL
==============================================================================
