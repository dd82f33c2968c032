---------------------------- MODULE CircuitProofs -----------------------------
(***************************************************************************)
(* Lemmas about circuits: the gates before and behind a gate, and what it  *)
(* requires; about the least and the greatest of a set of naturals; and    *)
(* about the order in which get_gates lists the gates.                     *)
(***************************************************************************)
EXTENDS Circuit, FunctionTheorems, FiniteSetTheorems, WellFoundedInduction, TLAPS

-----------------------------------------------------------------------------
(* Natural numbers                                                         *)

\* A nonempty set of naturals has a smallest member.
LEMMA MinOfNaturals ==
    ASSUME NEW S, S \subseteq Nat, S # {}
    PROVE  /\ Min(S) \in S
           /\ \A x \in S : Min(S) <= x
<1>. DEFINE Less == {ss \in Nat \X Nat : ss[1] < ss[2]}
<1>1. IsWellFoundedOn(Less, Nat)
  BY NatLessThanWellFounded DEF OpToRel
<1>2. PICK x \in S : \A y \in S : ~ (<<y, x>> \in Less)
  <2>. HIDE DEF Less
  <2>. QED
    BY <1>1, WFMin
<1>3. \A y \in S : x <= y
  <2>1. SUFFICES ASSUME NEW y \in S, y < x PROVE FALSE
    OBVIOUS
  <2>2. <<y, x>> \in Less
    BY <2>1
  <2>. QED
    BY <2>2, <1>2
<1>. QED
  BY <1>3 DEF Min

\* Induction, with the property as a set
LEMMA SetInduction ==
    ASSUME NEW S, 0 \in S, \A n \in S : n \in Nat => n + 1 \in S
    PROVE  Nat \subseteq S
<1>1. SUFFICES ASSUME Nat \ S # {} PROVE FALSE
  OBVIOUS
<1>2. PICK n \in Nat \ S : \A m \in Nat \ S : n <= m
  <2>1. Min(Nat \ S) \in Nat \ S /\ \A m \in Nat \ S : Min(Nat \ S) <= m
    BY <1>1, MinOfNaturals
  <2>. QED
    BY <2>1
<1>3. n - 1 \in Nat /\ n - 1 \in S
  BY <1>2
<1>4. (n - 1) + 1 \in S
  BY <1>3
<1>. QED
  BY <1>2, <1>4

\* A nonempty set of naturals with a bound has a largest member.
LEMMA MaxOfNaturals ==
    ASSUME NEW S, S \subseteq Nat, S # {}, NEW n \in Nat, \A x \in S : x <= n
    PROVE  /\ Max(S) \in S
           /\ \A x \in S : x <= Max(S)
<1>. DEFINE Mirror == {n - x : x \in S}
<1>1. Mirror \subseteq Nat /\ Mirror # {}
  <2>1. \A x \in S : n - x \in Nat
    OBVIOUS
  <2>2. PICK x \in S : TRUE
    OBVIOUS
  <2>3. n - x \in Mirror
    OBVIOUS
  <2>. QED
    BY <2>1, <2>3
<1>2. Min(Mirror) \in Mirror /\ \A m \in Mirror : Min(Mirror) <= m
  BY <1>1, MinOfNaturals
<1>3. PICK x \in S : Min(Mirror) = n - x
  BY <1>2
<1>4. \A y \in S : n - x <= n - y
  BY <1>2, <1>3
<1>5. \A y \in S : y <= x
  BY <1>4
<1>. QED
  BY <1>5 DEF Max

-----------------------------------------------------------------------------
(* Keeping some members of a sequence                                      *)

\* What KeepOnly keeps are the members of the set.
LEMMA KeptMembers ==
    ASSUME NEW T, NEW s \in Seq(T), NEW S
    PROVE  /\ KeepOnly(s, S) \in Seq(T)
           /\ ToSet(KeepOnly(s, S)) = ToSet(s) \cap S
<1>. DEFINE n == Len(s)
            next(m, r) == IF s[m] \in S THEN Append(r, s[m]) ELSE r
            Steps(f) == [m \in 0 .. n |-> IF m = 0 THEN <<>>
                                          ELSE IF s[m] \in S THEN Append(f[m - 1], s[m])
                                          ELSE f[m - 1]]
            kept == CHOOSE f : f = Steps(f)
            Computed == {m \in Nat : m <= n =>
                          \E f : /\ f = [k \in 0 .. m |-> f[k]]
                                 /\ f[0] = <<>>
                                 /\ \A k \in 1 .. m : f[k] = next(k, f[k - 1])}
<1>1. KeepOnly(s, S) = kept[n]
  BY DEF KeepOnly
<1>2. n \in Nat /\ \A k \in 1 .. n : s[k] \in T
  OBVIOUS
<1>. HIDE DEF n
<1>3. 0 \in Computed
  <2>. DEFINE f == [k \in 0 .. 0 |-> <<>>]
  <2>1. f = [k \in 0 .. 0 |-> f[k]] /\ f[0] = <<>>
    OBVIOUS
  <2>2. 1 .. 0 = {}
    OBVIOUS
  <2>. HIDE DEF f
  <2>3. \A k \in 1 .. 0 : f[k] = next(k, f[k - 1])
    BY <2>2
  <2>. QED
    BY <2>1, <2>3
<1>4. ASSUME NEW m \in Nat, m \in Computed
      PROVE  m + 1 \in Computed
  <2>1. SUFFICES ASSUME m + 1 <= n
                 PROVE  \E g : /\ g = [k \in 0 .. m + 1 |-> g[k]]
                               /\ g[0] = <<>>
                               /\ \A k \in 1 .. m + 1 : g[k] = next(k, g[k - 1])
    OBVIOUS
  <2>2. PICK f : /\ f[0] = <<>>
                 /\ \A k \in 1 .. m : f[k] = next(k, f[k - 1])
    BY <1>2, <1>4, <2>1
  <2>. HIDE DEF next
  <2>. DEFINE g == [k \in 0 .. m + 1 |-> IF k = m + 1 THEN next(k, f[m]) ELSE f[k]]
  <2>3. g = [k \in 0 .. m + 1 |-> g[k]]
    OBVIOUS
  <2>4. g[0] = <<>>
    BY <2>2
  <2>5. \A k \in 0 .. m : g[k] = f[k]
    OBVIOUS
  <2>6. g[m + 1] = next(m + 1, f[m])
    OBVIOUS
  <2>. HIDE DEF g
  <2>7. ASSUME NEW k \in 1 .. m + 1 PROVE g[k] = next(k, g[k - 1])
    <3>1. CASE k = m + 1
      <4>1. k - 1 = m
        BY <3>1
      <4>. QED
        BY <3>1, <4>1, <2>5, <2>6
    <3>2. CASE k # m + 1
      <4>1. k \in 1 .. m /\ k - 1 \in 0 .. m /\ k \in 0 .. m
        BY <3>2
      <4>. QED
        BY <4>1, <2>2, <2>5
    <3>. QED
      BY <3>1, <3>2
  <2>. QED
    BY <2>3, <2>4, <2>7
<1>5. kept = Steps(kept)
  <2>1. Nat \subseteq Computed
    <3>. HIDE DEF Computed
    <3>. QED
      BY <1>3, <1>4, SetInduction
  <2>2. PICK f : /\ f = [k \in 0 .. n |-> f[k]]
                 /\ f[0] = <<>>
                 /\ \A k \in 1 .. n : f[k] = next(k, f[k - 1])
    BY <1>2, <2>1
  <2>3. \A k \in 0 .. n : k # 0 => k \in 1 .. n
    BY <1>2
  <2>4. \A k \in 0 .. n : f[k] = IF k = 0 THEN <<>>
                                 ELSE IF s[k] \in S THEN Append(f[k - 1], s[k])
                                 ELSE f[k - 1]
    BY <2>2, <2>3
  <2>5. f = Steps(f)
    BY <2>2, <2>4, Zenon
  <2>. HIDE DEF Steps
  <2>. QED
    BY <2>5, Zenon
<1>. HIDE DEF kept
<1>6. /\ kept[0] = <<>>
      /\ \A m \in Nat : m + 1 <= n =>
            kept[m + 1] = IF s[m + 1] \in S THEN Append(kept[m], s[m + 1]) ELSE kept[m]
  <2>1. 0 \in 0 .. n
        /\ \A m \in Nat : m + 1 <= n => m + 1 \in 0 .. n /\ m + 1 # 0 /\ (m + 1) - 1 = m
    BY <1>2
  <2>. QED
    BY <1>5, <2>1
<1>. DEFINE Good == {m \in Nat : m <= n => /\ kept[m] \in Seq(T)
                                           /\ \A x : x \in ToSet(kept[m]) <=>
                                                 x \in S /\ \E i \in 1 .. m : s[i] = x}
<1>7. 0 \in Good
  <2>1. kept[0] \in Seq(T) /\ ToSet(kept[0]) = {}
    BY <1>6 DEF ToSet
  <2>2. 1 .. 0 = {}
    OBVIOUS
  <2>. QED
    BY <2>1, <2>2
<1>8. ASSUME NEW m \in Nat, m \in Good PROVE m + 1 \in Good
  <2>1. SUFFICES ASSUME m + 1 <= n
                 PROVE  /\ kept[m + 1] \in Seq(T)
                        /\ \A x : x \in ToSet(kept[m + 1]) <=>
                              x \in S /\ \E i \in 1 .. m + 1 : s[i] = x
    OBVIOUS
  <2>2. /\ kept[m] \in Seq(T)
        /\ \A x : x \in ToSet(kept[m]) <=> x \in S /\ \E i \in 1 .. m : s[i] = x
    BY <1>2, <1>8, <2>1
  <2>3. \A x : (\E i \in 1 .. m + 1 : s[i] = x) <=> x = s[m + 1] \/ \E i \in 1 .. m : s[i] = x
    OBVIOUS
  <2>4. s[m + 1] \in T
    BY <1>2, <2>1
  <2>5. CASE s[m + 1] \in S
    <3>1. kept[m + 1] = Append(kept[m], s[m + 1])
      BY <1>6, <2>1, <2>5
    <3>2. kept[m + 1] \in Seq(T)
      BY <3>1, <2>2, <2>4
    <3>3. \A x : x \in ToSet(kept[m + 1]) <=> x = s[m + 1] \/ x \in ToSet(kept[m])
      <4>1. kept[m] \in Seq(T) /\ s[m + 1] \in T
        BY <2>2, <2>4
      <4>2. PICK a, x1 : a = kept[m] /\ x1 = s[m + 1]
        OBVIOUS
      <4>3. /\ DOMAIN Append(a, x1) = 1 .. Len(a) + 1
            /\ DOMAIN a = 1 .. Len(a) /\ Len(a) \in Nat
            /\ Append(a, x1)[Len(a) + 1] = x1
            /\ \A i \in 1 .. Len(a) : Append(a, x1)[i] = a[i]
        BY <4>1, <4>2
      <4>4. \A x : (\E i \in 1 .. Len(a) + 1 : Append(a, x1)[i] = x)
                  <=> x = x1 \/ \E i \in 1 .. Len(a) : a[i] = x
        BY <4>3
      <4>. QED
        BY <3>1, <4>2, <4>3, <4>4 DEF ToSet
    <3>. QED
      BY <3>2, <3>3, <2>2, <2>3, <2>5
  <2>6. CASE s[m + 1] \notin S
    <3>1. kept[m + 1] = kept[m]
      BY <1>6, <2>1, <2>6
    <3>. QED
      BY <3>1, <2>2, <2>3, <2>6
  <2>. QED
    BY <2>5, <2>6
<1>9. n \in Good
  <2>1. Nat \subseteq Good
    <3>. HIDE DEF Good
    <3>. QED
      BY <1>7, <1>8, SetInduction
  <2>. QED
    BY <1>2, <2>1
<1>10. \A x : x \in ToSet(s) <=> \E i \in 1 .. n : s[i] = x
  BY DEF ToSet, n
<1>11. kept[n] \in Seq(T) /\ \A x : x \in ToSet(kept[n]) <=> x \in S /\ x \in ToSet(s)
  BY <1>2, <1>9, <1>10
<1>. QED
  BY <1>1, <1>11

\* The members of two sequences behind each other, and a sequence of certain members
LEMMA JoinedMembers ==
    ASSUME NEW T, NEW s \in Seq(T), NEW t \in Seq(T)
    PROVE  s \o t \in Seq(T) /\ ToSet(s \o t) = ToSet(s) \cup ToSet(t)
<1>1. PICK m \in Nat, n \in Nat : m = Len(s) /\ n = Len(t)
  OBVIOUS
<1>2. /\ DOMAIN s = 1 .. m /\ DOMAIN t = 1 .. n /\ DOMAIN (s \o t) = 1 .. m + n
      /\ \A i \in 1 .. m : (s \o t)[i] = s[i]
      /\ \A i \in 1 .. n : (s \o t)[m + i] = t[i]
  BY <1>1
<1>3. ASSUME NEW x PROVE x \in ToSet(s \o t) <=> x \in ToSet(s) \/ x \in ToSet(t)
  <2>1. ASSUME NEW i \in 1 .. m + n, (s \o t)[i] = x
        PROVE  x \in ToSet(s) \/ x \in ToSet(t)
    <3>1. CASE i <= m
      <4>1. i \in 1 .. m /\ s[i] = x
        BY <1>2, <2>1, <3>1
      <4>. QED
        BY <1>2, <4>1 DEF ToSet
    <3>2. CASE i > m
      <4>1. i - m \in 1 .. n /\ m + (i - m) = i
        BY <3>2
      <4>2. t[i - m] = x
        BY <1>2, <2>1, <4>1
      <4>. QED
        BY <1>2, <4>1, <4>2 DEF ToSet
    <3>. QED
      BY <3>1, <3>2
  <2>2. ASSUME NEW i \in 1 .. m, s[i] = x PROVE x \in ToSet(s \o t)
    <3>1. i \in 1 .. m + n /\ (s \o t)[i] = x
      BY <1>2, <2>2
    <3>. QED
      BY <1>2, <3>1 DEF ToSet
  <2>3. ASSUME NEW i \in 1 .. n, t[i] = x PROVE x \in ToSet(s \o t)
    <3>1. m + i \in 1 .. m + n /\ (s \o t)[m + i] = x
      BY <1>2, <2>3
    <3>. QED
      BY <1>2, <3>1 DEF ToSet
  <2>. QED
    BY <1>2, <2>1, <2>2, <2>3 DEF ToSet
<1>. QED
  BY <1>3

LEMMA SequenceOfMembers ==
    ASSUME NEW T, NEW s \in Seq(T), NEW U, ToSet(s) \subseteq U
    PROVE  s \in Seq(U)
<1>1. \A i \in 1 .. Len(s) : s[i] \in U
  BY DEF ToSet
<1>. QED
  BY <1>1

-----------------------------------------------------------------------------
(* The gates before and behind a gate                                      *)

\* A gate of a circuit, and its position
LEMMA GateAt ==
    ASSUME NEW Q, NEW c, IsCircuit(c, Q), NEW i \in DOMAIN c
    PROVE  /\ Position(c, c[i].id) = i /\ GetGate(c, c[i].id) = c[i]
           /\ i \in Nat /\ c[i].id \in Nat /\ c[i].id # NoGate
           /\ c[i].qubits \in Seq(Q) /\ c[i].qubits # <<>>
<1>1. \A j \in DOMAIN c : c[j].id = c[i].id => j = i
  BY DEF IsCircuit
<1>2. Position(c, c[i].id) = i
  BY <1>1 DEF Position
<1>3. /\ i \in Nat /\ c[i].id \in Nat
      /\ c[i].qubits \in Seq(Q) /\ c[i].qubits # <<>>
  <2>1. PICK lists : lists = Seq(Q) \ {<<>>}
    OBVIOUS
  <2>2. PICK kinds : kinds = [id : Nat, op : {c[j].op : j \in DOMAIN c}, qubits : lists]
    OBVIOUS
  <2>3. c \in Seq(kinds)
    BY <2>1, <2>2 DEF IsCircuit
  <2>4. i \in Nat /\ c[i] \in kinds
    BY <2>3
  <2>5. c[i].id \in Nat /\ c[i].qubits \in lists
    BY <2>2, <2>4
  <2>. QED
    BY <2>1, <2>4, <2>5
<1>. QED
  BY <1>2, <1>3 DEF GetGate, NoGate

\* No two gates have the same id.
LEMMA UniqueIds ==
    ASSUME NEW Q, NEW c, IsCircuit(c, Q), NEW i \in DOMAIN c, NEW j \in DOMAIN c,
           c[i].id = c[j].id
    PROVE  i = j
  BY DEF IsCircuit

\* The positions of the gates on a qubit are numbers, with a bound.
LEMMA Positions ==
    ASSUME NEW Q, NEW c, IsCircuit(c, Q), NEW l
    PROVE  /\ OnQubit(c, l) \subseteq DOMAIN c /\ OnQubit(c, l) \subseteq Nat
           /\ DOMAIN c = 1 .. Len(c) /\ Len(c) \in Nat
<1>1. PICK kinds : c \in Seq(kinds)
  BY DEF IsCircuit
<1>2. DOMAIN c = 1 .. Len(c) /\ Len(c) \in Nat
  BY <1>1
<1>3. OnQubit(c, l) \subseteq DOMAIN c
  BY DEF OnQubit
<1>. QED
  BY <1>2, <1>3

\* On qubit l, the gate at position i comes next after the one at j.
Follows(c, l, j, i) == /\ i \in OnQubit(c, l) /\ j \in OnQubit(c, l)
                       /\ j < i
                       /\ \A k \in OnQubit(c, l) : k <= j \/ i <= k

\* The predecessor at a pin is the gate that the gate follows there, if there is one.
LEMMA PredecessorFollows ==
    ASSUME NEW Q, NEW c, IsCircuit(c, Q), NEW i \in DOMAIN c,
           NEW pin \in DOMAIN c[i].qubits, NEW l, l = c[i].qubits[pin],
           NEW pred, pred = GetPredecessors(c, c[i].id)[pin]
    PROVE  /\ \/ pred = NoGate /\ \A j \in OnQubit(c, l) : ~(j < i)
              \/ \E j \in DOMAIN c : pred = c[j].id /\ Follows(c, l, j, i)
           /\ \A j \in DOMAIN c : Follows(c, l, j, i) => pred = c[j].id
<1>1. /\ Position(c, c[i].id) = i /\ GetGate(c, c[i].id) = c[i]
      /\ i \in Nat /\ i \in OnQubit(c, l)
  BY GateAt DEF OnQubit, ToSet
<1>2. PICK before : before = {j \in OnQubit(c, l) : j < i}
  OBVIOUS
<1>3. pred = IF before = {} THEN NoGate ELSE c[Max(before)].id
  BY <1>1, <1>2 DEF GetPredecessors
<1>4. before \subseteq Nat /\ before \subseteq DOMAIN c /\ \A j \in before : j <= i
  BY <1>1, <1>2, Positions
<1>5. CASE before = {}
  BY <1>2, <1>3, <1>5 DEF Follows
<1>6. CASE before # {}
  <2>1. Max(before) \in before /\ \A j \in before : j <= Max(before)
    BY <1>1, <1>4, <1>6, MaxOfNaturals
  <2>2. PICK j0 : j0 = Max(before)
    OBVIOUS
  <2>3. OnQubit(c, l) \subseteq Nat /\ j0 \in Nat
    BY <1>4, <2>1, <2>2, Positions
  <2>4. Follows(c, l, j0, i)
    BY <1>1, <1>2, <2>1, <2>2, <2>3 DEF Follows
  <2>5. \A j \in DOMAIN c : Follows(c, l, j, i) => j = j0
    BY <1>1, <2>3, <2>4 DEF Follows
  <2>. QED
    BY <1>3, <1>4, <1>6, <2>1, <2>2, <2>4, <2>5
<1>. QED
  BY <1>5, <1>6

\* So is the successor the gate that follows it.
LEMMA SuccessorFollows ==
    ASSUME NEW Q, NEW c, IsCircuit(c, Q), NEW j \in DOMAIN c,
           NEW pin \in DOMAIN c[j].qubits, NEW l, l = c[j].qubits[pin],
           NEW succ, succ = GetSuccessors(c, c[j].id)[pin]
    PROVE  /\ \/ succ = NoGate /\ \A i \in OnQubit(c, l) : ~(j < i)
              \/ \E i \in DOMAIN c : succ = c[i].id /\ Follows(c, l, j, i)
           /\ \A i \in DOMAIN c : Follows(c, l, j, i) => succ = c[i].id
<1>1. /\ Position(c, c[j].id) = j /\ GetGate(c, c[j].id) = c[j]
      /\ j \in Nat /\ j \in OnQubit(c, l)
  BY GateAt DEF OnQubit, ToSet
<1>2. PICK after : after = {i \in OnQubit(c, l) : i > j}
  OBVIOUS
<1>3. succ = IF after = {} THEN NoGate ELSE c[Min(after)].id
  BY <1>1, <1>2 DEF GetSuccessors
<1>4. after \subseteq Nat /\ after \subseteq DOMAIN c
  BY <1>1, <1>2, Positions
<1>5. CASE after = {}
  <2>1. OnQubit(c, l) \subseteq Nat
    BY Positions
  <2>. QED
    BY <1>1, <1>2, <1>3, <1>5, <2>1 DEF Follows
<1>6. CASE after # {}
  <2>1. Min(after) \in after /\ \A i \in after : Min(after) <= i
    BY <1>4, <1>6, MinOfNaturals
  <2>2. PICK i0 : i0 = Min(after)
    OBVIOUS
  <2>3. OnQubit(c, l) \subseteq Nat /\ i0 \in Nat
    BY <1>4, <2>1, <2>2, Positions
  <2>4. Follows(c, l, j, i0)
    BY <1>1, <1>2, <2>1, <2>2, <2>3 DEF Follows
  <2>5. \A i \in DOMAIN c : Follows(c, l, j, i) => i = i0
    BY <1>1, <2>3, <2>4 DEF Follows
  <2>. QED
    BY <1>3, <1>4, <1>6, <2>1, <2>2, <2>4, <2>5
<1>. QED
  BY <1>5, <1>6

\* What a gate requires, by position
LEMMA RequiresAt ==
    ASSUME NEW Q, NEW c, IsCircuit(c, Q), NEW i \in DOMAIN c
    PROVE  \A x : x \in Requires(c, c[i].id) <=>
              \E j \in DOMAIN c : /\ x = c[j].id /\ j < i
                                  /\ \E l : i \in OnQubit(c, l) /\ j \in OnQubit(c, l)
<1>1. Position(c, c[i].id) = i /\ GetGate(c, c[i].id) = c[i]
  BY GateAt
<1>. QED
  BY <1>1 DEF Requires, OnQubit

\* A gate requires what it follows; what a gate requires it follows itself, or what it
\* follows requires it.
LEMMA RequiresFollows ==
    ASSUME NEW Q, NEW c, IsCircuit(c, Q), NEW i \in DOMAIN c, NEW j \in DOMAIN c, NEW l,
           i \in OnQubit(c, l), j \in OnQubit(c, l), j < i
    PROVE  /\ \E k \in DOMAIN c : /\ Follows(c, l, k, i)
                                  /\ k = j \/ c[j].id \in Requires(c, c[k].id)
           /\ \E k \in DOMAIN c : /\ Follows(c, l, j, k)
                                  /\ k = i \/ c[k].id \in Requires(c, c[i].id)
<1>1. OnQubit(c, l) \subseteq Nat /\ OnQubit(c, l) \subseteq DOMAIN c
  BY Positions
<1>2. \E k \in DOMAIN c : Follows(c, l, k, i) /\ j <= k
  <2>1. PICK before : before = {k \in OnQubit(c, l) : k < i}
    OBVIOUS
  <2>2. before \subseteq Nat /\ j \in before /\ \A k \in before : k <= i
    BY <1>1, <2>1
  <2>3. Max(before) \in before /\ \A k \in before : k <= Max(before)
    BY <1>1, <2>2, MaxOfNaturals
  <2>. QED
    BY <1>1, <2>1, <2>2, <2>3 DEF Follows
<1>3. \E k \in DOMAIN c : Follows(c, l, j, k) /\ k <= i
  <2>1. PICK after : after = {k \in OnQubit(c, l) : j < k}
    OBVIOUS
  <2>2. after \subseteq Nat /\ i \in after
    BY <1>1, <2>1
  <2>3. Min(after) \in after /\ \A k \in after : Min(after) <= k
    BY <2>2, MinOfNaturals
  <2>. QED
    BY <1>1, <2>1, <2>2, <2>3 DEF Follows
<1>4. \A k, m \in OnQubit(c, l) : k < m => c[k].id \in Requires(c, c[m].id)
  BY <1>1, RequiresAt
<1>5. \A k : (Follows(c, l, k, i) \/ Follows(c, l, j, k)) => k \in OnQubit(c, l) /\ k \in Nat
  BY <1>1 DEF Follows
<1>. QED
  BY <1>1, <1>2, <1>3, <1>4, <1>5

-----------------------------------------------------------------------------
(* Running the gates of a circuit in an order that keeps what they require *)

\* A set of gates that have run, and the gates that may run next
Closed(c, ran) == ran \subseteq GateIds(c) /\ \A x \in ran : Requires(c, x) \subseteq ran
Ready(c, ran) == {x \in GateIds(c) \ ran : Requires(c, x) \subseteq ran}

\* What comes after a ready gate requires it, and waits.
LEMMA SuccessorsWait ==
    ASSUME NEW Q, NEW c, IsCircuit(c, Q), NEW ran, Closed(c, ran), NEW id \in Ready(c, ran),
           NEW x \in ToSet(GetSuccessors(c, id)), x \in GateIds(c)
    PROVE  id \in Requires(c, x) /\ x # id /\ x \notin ran
<1>1. PICK i \in DOMAIN c : id = c[i].id
  BY DEF Ready, GateIds
<1>2. /\ i \in Nat /\ GetGate(c, id) = c[i]
      /\ DOMAIN GetSuccessors(c, id) = DOMAIN c[i].qubits
  BY <1>1, GateAt DEF GetSuccessors
<1>3. PICK pin \in DOMAIN c[i].qubits : x = GetSuccessors(c, id)[pin]
  BY <1>2 DEF ToSet
<1>4. x # NoGate
  BY GateAt DEF GateIds
<1>5. PICK k \in DOMAIN c : x = c[k].id /\ Follows(c, c[i].qubits[pin], i, k)
  BY <1>1, <1>3, <1>4, SuccessorFollows
<1>6. i < k /\ i \in OnQubit(c, c[i].qubits[pin]) /\ k \in OnQubit(c, c[i].qubits[pin])
  BY <1>5 DEF Follows
<1>7. id \in Requires(c, x)
  BY <1>1, <1>5, <1>6, RequiresAt
<1>8. x # id
  <2>1. k \in Nat /\ k # i
    BY <1>2, <1>6, GateAt
  <2>. QED
    BY <1>1, <1>5, <2>1, UniqueIds
<1>. QED
  BY <1>7, <1>8 DEF Closed, Ready

\* When a ready gate has run, successors of it become ready, if what they require has run;
\* nothing else changes.
LEMMA ReadyAfter ==
    ASSUME NEW Q, NEW c, IsCircuit(c, Q), NEW ran, Closed(c, ran),
           NEW id \in Ready(c, ran)
    PROVE  /\ Closed(c, ran \cup {id})
           /\ \A x : x \in Ready(c, ran \cup {id}) <=>
                 \/ x \in Ready(c, ran) /\ x # id
                 \/ /\ x \in ToSet(GetSuccessors(c, id)) /\ x \in GateIds(c)
                    /\ Requires(c, x) \subseteq ran \cup {id}
<1>1. PICK i \in DOMAIN c : id = c[i].id
  BY DEF Ready, GateIds
<1>2. /\ i \in Nat /\ GetGate(c, id) = c[i]
      /\ DOMAIN GetSuccessors(c, id) = DOMAIN c[i].qubits
  BY <1>1, GateAt DEF GetSuccessors
<1>3. Closed(c, ran \cup {id})
  BY DEF Closed, Ready
<1>4. \A x \in ToSet(GetSuccessors(c, id)) : x \in GateIds(c) => x # id /\ x \notin ran
  BY SuccessorsWait
<1>5. ASSUME NEW x \in Ready(c, ran \cup {id}), x \notin Ready(c, ran)
      PROVE  x \in ToSet(GetSuccessors(c, id))
  <2>1. /\ x \in GateIds(c) /\ x \notin ran /\ x # id
        /\ Requires(c, x) \subseteq ran \cup {id}
        /\ id \in Requires(c, x)
    BY <1>5 DEF Ready
  <2>2. PICK k \in DOMAIN c : x = c[k].id
    BY <2>1 DEF GateIds
  <2>3. PICK l : i < k /\ k \in OnQubit(c, l) /\ i \in OnQubit(c, l)
    <3>1. PICK j \in DOMAIN c : /\ id = c[j].id /\ j < k
                                /\ \E l : k \in OnQubit(c, l) /\ j \in OnQubit(c, l)
      BY <2>1, <2>2, RequiresAt
    <3>2. j = i
      BY <1>1, <3>1, UniqueIds
    <3>. QED
      BY <3>1, <3>2
  <2>4. PICK m \in DOMAIN c : /\ Follows(c, l, i, m)
                              /\ m = k \/ c[m].id \in Requires(c, x)
    BY <2>2, <2>3, RequiresFollows
  <2>5. id \in Requires(c, c[m].id) /\ c[m].id # id
    <3>1. i < m /\ i \in OnQubit(c, l) /\ m \in OnQubit(c, l)
      BY <2>4 DEF Follows
    <3>2. id \in Requires(c, c[m].id)
      BY <1>1, <3>1, RequiresAt
    <3>3. m \in Nat /\ m # i
      BY <1>2, <3>1, GateAt
    <3>. QED
      BY <1>1, <3>2, <3>3, UniqueIds
  <2>6. m = k
    <3>1. SUFFICES ASSUME c[m].id \in Requires(c, x) PROVE FALSE
      BY <2>4
    <3>2. c[m].id \in ran
      BY <3>1, <2>1, <2>5
    <3>. QED
      BY <3>2, <2>5 DEF Closed, Ready
  <2>7. PICK pin \in DOMAIN c[i].qubits : c[i].qubits[pin] = l
    BY <2>3 DEF OnQubit, ToSet
  <2>8. GetSuccessors(c, id)[pin] = x
    BY <1>1, <2>2, <2>4, <2>6, <2>7, SuccessorFollows
  <2>. QED
    BY <1>2, <2>8 DEF ToSet
<1>6. ASSUME NEW x
      PROVE  x \in Ready(c, ran \cup {id}) <=>
                 \/ x \in Ready(c, ran) /\ x # id
                 \/ /\ x \in ToSet(GetSuccessors(c, id)) /\ x \in GateIds(c)
                    /\ Requires(c, x) \subseteq ran \cup {id}
  <2>1. x \in Ready(c, ran) /\ x # id => x \in Ready(c, ran \cup {id})
    BY DEF Ready
  <2>2. x \in ToSet(GetSuccessors(c, id)) /\ x \in GateIds(c)
        /\ Requires(c, x) \subseteq ran \cup {id} => x \in Ready(c, ran \cup {id})
    BY <1>4 DEF Ready
  <2>3. x \in Ready(c, ran \cup {id}) => /\ x \in GateIds(c) /\ x # id
                                         /\ Requires(c, x) \subseteq ran \cup {id}
    BY DEF Ready
  <2>. QED
    BY <1>5, <2>1, <2>2, <2>3
<1>. QED
  BY <1>3, <1>6

\* It is enough to look at the predecessors of a gate, and among these at the gates kept
\* in a set from which a gate is dropped only when all that follow it have run.
LEMMA PredecessorsSuffice ==
    ASSUME NEW Q, NEW c, IsCircuit(c, Q), NEW ran, Closed(c, ran),
           NEW kept \in SUBSET ran,
           \A j, k \in DOMAIN c : \A l : c[j].id \in ran \ kept /\ Follows(c, l, j, k)
                                        => c[k].id \in ran,
           NEW i \in DOMAIN c, c[i].id \notin ran
    PROVE  (\A pin \in DOMAIN c[i].qubits : GetPredecessors(c, c[i].id)[pin] # NoGate =>
                GetPredecessors(c, c[i].id)[pin] \in kept)
           <=> Requires(c, c[i].id) \subseteq ran
<1>1. ASSUME Requires(c, c[i].id) \subseteq ran,
             NEW pin \in DOMAIN c[i].qubits, GetPredecessors(c, c[i].id)[pin] # NoGate
      PROVE  GetPredecessors(c, c[i].id)[pin] \in kept
  <2>1. PICK j \in DOMAIN c : /\ GetPredecessors(c, c[i].id)[pin] = c[j].id
                              /\ Follows(c, c[i].qubits[pin], j, i)
    BY <1>1, PredecessorFollows
  <2>2. c[j].id \in Requires(c, c[i].id)
    BY <2>1, RequiresAt DEF Follows
  <2>. QED
    BY <1>1, <2>1, <2>2
<1>2. ASSUME \A pin \in DOMAIN c[i].qubits : GetPredecessors(c, c[i].id)[pin] # NoGate =>
                GetPredecessors(c, c[i].id)[pin] \in kept,
             NEW x \in Requires(c, c[i].id)
      PROVE  x \in ran
  <2>1. PICK j, l : /\ j \in DOMAIN c /\ x = c[j].id /\ j < i
                    /\ i \in OnQubit(c, l) /\ j \in OnQubit(c, l)
    BY RequiresAt
  <2>2. PICK k \in DOMAIN c : Follows(c, l, k, i) /\ (k = j \/ x \in Requires(c, c[k].id))
    BY <2>1, RequiresFollows
  <2>3. PICK pin \in DOMAIN c[i].qubits : c[i].qubits[pin] = l
    BY <2>1 DEF OnQubit, ToSet
  <2>4. GetPredecessors(c, c[i].id)[pin] = c[k].id
    BY <2>2, <2>3, PredecessorFollows
  <2>5. c[k].id \in ran
    BY <1>2, <2>4, GateAt
  <2>. QED
    BY <2>1, <2>2, <2>5 DEF Closed
<1>. QED
  BY <1>1, <1>2

\* When nothing is ready any more, every gate has run.
LEMMA NothingReady ==
    ASSUME NEW Q, NEW c, IsCircuit(c, Q), NEW ran, Closed(c, ran), Ready(c, ran) = {}
    PROVE  ran = GateIds(c)
<1>1. SUFFICES ASSUME NEW x \in GateIds(c) \ ran PROVE FALSE
  BY DEF Closed
<1>2. PICK left : left = {i \in DOMAIN c : c[i].id \notin ran}
  OBVIOUS
<1>3. left # {} /\ left \subseteq Nat
  BY <1>1, <1>2, Positions DEF GateIds
<1>4. PICK i \in left : \A j \in left : i <= j
  <2>1. Min(left) \in left /\ \A j \in left : Min(left) <= j
    BY <1>3, MinOfNaturals
  <2>. QED
    BY <2>1
<1>5. Requires(c, c[i].id) \subseteq ran
  <2>1. SUFFICES ASSUME NEW y \in Requires(c, c[i].id) PROVE y \in ran
    OBVIOUS
  <2>2. PICK j \in DOMAIN c : y = c[j].id /\ j < i
    BY <1>2, RequiresAt
  <2>3. j \in Nat /\ i \in Nat
    BY <1>3, GateAt
  <2>. QED
    BY <1>2, <1>4, <2>2, <2>3
<1>6. c[i].id \in Ready(c, ran)
  BY <1>2, <1>5 DEF Ready, GateIds
<1>. QED
  BY <1>6

\* A gate has another gate as predecessor at as many pins as that one has it as successor.
LEMMA CountsAgree ==
    ASSUME NEW Q, NEW c, IsCircuit(c, Q), NEW i \in DOMAIN c, NEW j \in DOMAIN c,
           \A k \in DOMAIN c : \A p, q \in DOMAIN c[k].qubits :
              c[k].qubits[p] = c[k].qubits[q] => p = q
    PROVE  Cardinality({p \in DOMAIN c[i].qubits : GetPredecessors(c, c[i].id)[p] = c[j].id})
           = Cardinality({p \in DOMAIN c[j].qubits : GetSuccessors(c, c[j].id)[p] = c[i].id})
<1>1. PICK pins : pins = {p \in DOMAIN c[i].qubits :
                            GetPredecessors(c, c[i].id)[p] = c[j].id}
  OBVIOUS
<1>2. PICK back : back = {p \in DOMAIN c[j].qubits :
                            GetSuccessors(c, c[j].id)[p] = c[i].id}
  OBVIOUS
<1>3. PICK shared : shared = {l \in ToSet(c[i].qubits) : Follows(c, l, j, i)}
  OBVIOUS
<1>4. /\ \A p \in DOMAIN c[i].qubits : p \in pins <=> Follows(c, c[i].qubits[p], j, i)
      /\ \A p \in DOMAIN c[j].qubits : p \in back <=> Follows(c, c[j].qubits[p], j, i)
  <2>1. c[i].id # NoGate /\ c[j].id # NoGate
    BY GateAt
  <2>2. ASSUME NEW p \in DOMAIN c[i].qubits
        PROVE  p \in pins <=> Follows(c, c[i].qubits[p], j, i)
    <3>1. PICK pred : pred = GetPredecessors(c, c[i].id)[p]
      OBVIOUS
    <3>2. /\ pred = NoGate \/ \E k \in DOMAIN c : /\ pred = c[k].id
                                                 /\ Follows(c, c[i].qubits[p], k, i)
          /\ Follows(c, c[i].qubits[p], j, i) => pred = c[j].id
      BY <3>1, PredecessorFollows
    <3>3. pred = c[j].id => Follows(c, c[i].qubits[p], j, i)
      BY <2>1, <3>2, UniqueIds
    <3>. QED
      BY <1>1, <3>1, <3>2, <3>3
  <2>3. ASSUME NEW p \in DOMAIN c[j].qubits
        PROVE  p \in back <=> Follows(c, c[j].qubits[p], j, i)
    <3>1. PICK succ : succ = GetSuccessors(c, c[j].id)[p]
      OBVIOUS
    <3>2. /\ succ = NoGate \/ \E k \in DOMAIN c : /\ succ = c[k].id
                                                 /\ Follows(c, c[j].qubits[p], j, k)
          /\ Follows(c, c[j].qubits[p], j, i) => succ = c[i].id
      BY <3>1, SuccessorFollows
    <3>3. succ = c[i].id => Follows(c, c[j].qubits[p], j, i)
      BY <2>1, <3>2, UniqueIds
    <3>. QED
      BY <1>2, <3>1, <3>2, <3>3
  <2>. QED
    BY <2>2, <2>3
<1>5. IsFiniteSet(pins) /\ IsFiniteSet(back)
  <2>1. /\ DOMAIN c[i].qubits = 1 .. Len(c[i].qubits) /\ Len(c[i].qubits) \in Nat
        /\ DOMAIN c[j].qubits = 1 .. Len(c[j].qubits) /\ Len(c[j].qubits) \in Nat
    BY GateAt
  <2>2. IsFiniteSet(DOMAIN c[i].qubits) /\ IsFiniteSet(DOMAIN c[j].qubits)
    BY <2>1, FS_Interval
  <2>3. pins \in SUBSET DOMAIN c[i].qubits /\ back \in SUBSET DOMAIN c[j].qubits
    BY <1>1, <1>2
  <2>. QED
    BY <2>2, <2>3, FS_Subset
<1>6. ExistsBijection(pins, shared)
  <2>1. PICK f : f = [p \in pins |-> c[i].qubits[p]]
    OBVIOUS
  <2>2. f \in [pins -> shared]
    BY <2>1, <1>1, <1>3, <1>4 DEF ToSet
  <2>3. \A p, q \in pins : f[p] = f[q] => p = q
    BY <2>1, <1>1
  <2>4. \A l \in shared : \E p \in pins : f[p] = l
    BY <2>1, <1>3, <1>4 DEF ToSet
  <2>. QED
    BY <2>2, <2>3, <2>4, Fun_IsBij DEF ExistsBijection
<1>7. ExistsBijection(back, shared)
  <2>1. PICK f : f = [p \in back |-> c[j].qubits[p]]
    OBVIOUS
  <2>2. f \in [back -> shared]
    BY <2>1, <1>2, <1>3, <1>4 DEF ToSet, Follows, OnQubit
  <2>3. \A p, q \in back : f[p] = f[q] => p = q
    BY <2>1, <1>2
  <2>4. \A l \in shared : \E p \in back : f[p] = l
    BY <2>1, <1>3, <1>4 DEF ToSet, Follows, OnQubit
  <2>. QED
    BY <2>2, <2>3, <2>4, Fun_IsBij DEF ExistsBijection
<1>8. Cardinality(shared) = Cardinality(pins) /\ Cardinality(shared) = Cardinality(back)
  BY <1>5, <1>6, <1>7, FS_Bijection
<1>. QED
  BY <1>1, <1>2, <1>8


-----------------------------------------------------------------------------
(* The depth-first search of get_gates                                     *)

\* What the stack of the depth-first search holds, for gates with the ids given
StackFrames(ids) == {[id |-> x, post |-> FALSE] : x \in ids \cup {NoGate}}
                    \cup {[id |-> x, post |-> TRUE] : x \in ids}

SearchStates(ids) == [stack : Seq(StackFrames(ids)), visited : SUBSET ids, order : Seq(ids)]

\* A circuit as the search sees it: what follows on the pins of each gate has a higher rank.
SearchInput(ids, succ, rank, roots) ==
    /\ NoGate \notin ids
    /\ succ \in [ids -> Seq(ids \cup {NoGate})]
    /\ rank \in [ids -> Nat]
    /\ \A x \in ids : \A h \in ToSet(succ[x]) \ {NoGate} : rank[x] < rank[h]
    /\ roots \in Seq(ids \cup {NoGate})

\* The frames of the gates that were visited and are not finished
Open(stack) == {a \in DOMAIN stack : stack[a].post}

\* A gate was visited when it is in the order or open, and only once.
VisitsOnce(s) ==
    /\ s.visited = ToSet(s.order) \cup {s.stack[a].id : a \in Open(s.stack)}
    /\ \A i, j \in DOMAIN s.order : s.order[i] = s.order[j] => i = j
    /\ \A a \in Open(s.stack) : s.stack[a].id \notin ToSet(s.order)

\* Above an open gate only gates of higher rank wait.
Ascends(rank, stack) ==
    \A a \in Open(stack), b \in DOMAIN stack :
        a < b /\ stack[b].id # NoGate => rank[stack[a].id] < rank[stack[b].id]

\* What is behind an open gate is in the order, or waits above it.
BehindOpen(succ, s) ==
    \A a \in Open(s.stack) : \A h \in ToSet(succ[s.stack[a].id]) \ {NoGate} :
        h \in ToSet(s.order) \/ \E b \in DOMAIN s.stack : a < b /\ s.stack[b].id = h

\* What is behind a gate in the order is there, later.
Topological(succ, order) ==
    \A i \in DOMAIN order : \A h \in ToSet(succ[order[i]]) \ {NoGate} :
        \E j \in DOMAIN order : i < j /\ order[j] = h

\* So does each gate that the search begins with.
RootsSeen(roots, s) ==
    \A r \in ToSet(roots) \ {NoGate} :
        r \in ToSet(s.order) \/ \E b \in DOMAIN s.stack : s.stack[b].id = r

SearchInv(ids, succ, rank, roots, s) ==
    /\ s \in SearchStates(ids)
    /\ VisitsOnce(s)
    /\ Ascends(rank, s.stack)
    /\ BehindOpen(succ, s)
    /\ Topological(succ, s.order)
    /\ RootsSeen(roots, s)

\* Unvisited pins are frames.
LEMMA FramesOfPins ==
    ASSUME NEW ids, NEW pins \in Seq(ids \cup {NoGate})
    PROVE  DfsFrames(pins) \in Seq(StackFrames(ids))
<1>1. \A i \in DOMAIN pins : [id |-> pins[i], post |-> FALSE] \in StackFrames(ids)
  <2>1. \A i \in DOMAIN pins : pins[i] \in ids \cup {NoGate}
    OBVIOUS
  <2>. QED
    BY <2>1, Zenon DEF StackFrames
<1>. HIDE DEF StackFrames
<1>. QED
  BY <1>1 DEF DfsFrames

\* The stack without its last frame
LEMMA StackPopped ==
    ASSUME NEW ids, NEW s \in SearchStates(ids), s.stack # <<>>
    PROVE  \E n \in Nat, top \in StackFrames(ids), rest \in Seq(StackFrames(ids)) :
              /\ top = Last(s.stack) /\ rest = Front(s.stack)
              /\ DOMAIN s.stack = 1 .. n + 1 /\ DOMAIN rest = 1 .. n
              /\ s.stack[n + 1] = top
              /\ \A a \in 1 .. n : a \in 1 .. n + 1 /\ a < n + 1 /\ rest[a] = s.stack[a]
<1>. DEFINE F == StackFrames(ids)
<1>1. s.stack \in Seq(F)
  BY DEF SearchStates
<1>. HIDE DEF F
<1>2. PICK n \in Nat : Len(s.stack) = n + 1
  <2>1. Len(s.stack) \in Nat /\ Len(s.stack) # 0
    BY <1>1
  <2>. QED
    BY <2>1
<1>3. DOMAIN s.stack = 1 .. n + 1 /\ n + 1 \in 1 .. n + 1
  BY <1>1, <1>2
<1>4. Last(s.stack) = s.stack[n + 1] /\ s.stack[n + 1] \in F
  BY <1>1, <1>2, <1>3 DEF Last
<1>5. /\ Front(s.stack) \in Seq(F) /\ Len(Front(s.stack)) = n /\ DOMAIN Front(s.stack) = 1 .. n
      /\ \A a \in 1 .. n : Front(s.stack)[a] = s.stack[a]
  BY <1>1, <1>2 DEF Front
<1>6. \A a \in 1 .. n : a \in 1 .. n + 1 /\ a < n + 1
  OBVIOUS
<1>. QED
  BY <1>3, <1>4, <1>5, <1>6 DEF F

\* What the frames are
LEMMA FrameFields ==
    ASSUME NEW ids, NEW f \in StackFrames(ids)
    PROVE  f.post \in BOOLEAN /\ f.id \in ids \cup {NoGate} /\ (f.post => f.id \in ids)
<1>1. CASE f \in {[id |-> x, post |-> FALSE] : x \in ids \cup {NoGate}}
  <2>1. PICK x \in ids \cup {NoGate} : f = [id |-> x, post |-> FALSE]
    BY <1>1
  <2>. QED
    BY <2>1
<1>2. CASE f \in {[id |-> x, post |-> TRUE] : x \in ids}
  <2>1. PICK x \in ids : f = [id |-> x, post |-> TRUE]
    BY <1>2
  <2>. QED
    BY <2>1
<1>. QED
  BY <1>1, <1>2 DEF StackFrames

\* The frame of an open gate goes, and the gate comes in front of the order.
LEMMA FinishKeeps ==
    ASSUME NEW ids, NEW succ, NEW rank, NEW roots, SearchInput(ids, succ, rank, roots),
           NEW s, SearchInv(ids, succ, rank, roots, s), s.stack # <<>>, Last(s.stack).post
    PROVE  SearchInv(ids, succ, rank, roots, DfsStep(succ, s))
<1>1. /\ s \in SearchStates(ids) /\ VisitsOnce(s) /\ Ascends(rank, s.stack)
      /\ BehindOpen(succ, s) /\ Topological(succ, s.order) /\ RootsSeen(roots, s)
  BY DEF SearchInv
<1>2. PICK n \in Nat, top \in StackFrames(ids), rest \in Seq(StackFrames(ids)) :
         /\ top = Last(s.stack) /\ rest = Front(s.stack)
         /\ DOMAIN s.stack = 1 .. n + 1 /\ DOMAIN rest = 1 .. n
         /\ s.stack[n + 1] = top
         /\ \A a \in 1 .. n : a \in 1 .. n + 1 /\ a < n + 1 /\ rest[a] = s.stack[a]
  BY <1>1, StackPopped
<1>3. top.post /\ top.id \in ids
  BY <1>2, FrameFields
<1>4. PICK g, new : g = top.id /\ new = <<g>> \o s.order
  OBVIOUS
<1>5. s.order \in Seq(ids) /\ s.visited \in SUBSET ids
      /\ s = [stack |-> s.stack, visited |-> s.visited, order |-> s.order]
  BY <1>1 DEF SearchStates
<1>6. PICK m \in Nat : m = Len(s.order) /\ DOMAIN s.order = 1 .. m
  BY <1>5
<1>7. /\ new \in Seq(ids) /\ DOMAIN new = 1 .. m + 1 /\ new[1] = g
      /\ \A i \in 1 .. m : new[i + 1] = s.order[i]
      /\ \A i \in 1 .. m + 1 : i = 1 \/ (i - 1 \in 1 .. m /\ new[i] = s.order[i - 1])
  <2>1. <<g>> \in Seq(ids) /\ Len(<<g>>) = 1 /\ <<g>>[1] = g
    BY <1>3, <1>4
  <2>2. new \in Seq(ids) /\ Len(new) = m + 1 /\ new[1] = g
    BY <1>4, <1>5, <1>6, <2>1
  <2>3. ASSUME NEW i \in 1 .. m PROVE new[i + 1] = s.order[i]
    BY <1>4, <1>5, <1>6, <2>1
  <2>4. ASSUME NEW i \in 1 .. m + 1, i # 1
        PROVE  i - 1 \in 1 .. m /\ new[i] = s.order[i - 1]
    <3>1. i - 1 \in 1 .. m /\ (i - 1) + 1 = i
      BY <2>4
    <3>. QED
      BY <2>3, <3>1
  <2>. QED
    BY <2>2, <2>3, <2>4
<1>8. ToSet(new) = {g} \cup ToSet(s.order)
  <2>1. \A x : x \in ToSet(new) <=> \E i \in 1 .. m + 1 : new[i] = x
    BY <1>7 DEF ToSet
  <2>2. \A x : x \in ToSet(s.order) <=> \E i \in 1 .. m : s.order[i] = x
    BY <1>6 DEF ToSet
  <2>3. 1 \in 1 .. m + 1 /\ \A i \in 1 .. m : i + 1 \in 1 .. m + 1
    OBVIOUS
  <2>4. \A x \in ToSet(new) : x = g \/ x \in ToSet(s.order)
    BY <1>7, <2>1, <2>2
  <2>5. \A x \in ToSet(s.order) : x \in ToSet(new)
    BY <1>7, <2>1, <2>2, <2>3
  <2>6. g \in ToSet(new)
    BY <1>7, <2>1, <2>3
  <2>. QED
    BY <2>4, <2>5, <2>6
<1>9. PICK t : t = [stack |-> rest, visited |-> s.visited, order |-> new]
  OBVIOUS
<1>10. DfsStep(succ, s) = t
  <2>1. DfsStep(succ, s) = [s EXCEPT !.stack = rest, !.order = new]
    BY <1>2, <1>3, <1>4 DEF DfsStep
  <2>. QED
    BY <1>5, <1>9, <2>1
<1>11. /\ t.stack = rest /\ t.visited = s.visited /\ t.order = new
       /\ t \in SearchStates(ids)
  BY <1>2, <1>5, <1>7, <1>9 DEF SearchStates
<1>12. n + 1 \in 1 .. n + 1
  OBVIOUS
<1>13. /\ n + 1 \in Open(s.stack)
       /\ \A a : a \in Open(s.stack) <=> a \in Open(rest) \/ a = n + 1
       /\ \A a \in Open(rest) : a \in 1 .. n /\ rest[a] = s.stack[a] /\ rest[a].post
  <2>1. \A a : a \in 1 .. n + 1 <=> a \in 1 .. n \/ a = n + 1
    OBVIOUS
  <2>2. \A a : a \in Open(s.stack) <=> a \in 1 .. n + 1 /\ s.stack[a].post
    BY <1>2 DEF Open
  <2>3. \A a : a \in Open(rest) <=> a \in 1 .. n /\ rest[a].post
    BY <1>2 DEF Open
  <2>. QED
    BY <1>2, <1>3, <2>1, <2>2, <2>3
<1>14. /\ g \in ids /\ g # NoGate /\ \A a \in Open(rest) : rest[a].id \in ids
  BY <1>2, <1>3, <1>4, <1>13, FrameFields DEF SearchInput
<1>15. g \notin ToSet(s.order)
  BY <1>1, <1>2, <1>4, <1>13 DEF VisitsOnce
<1>16. \A a \in Open(rest) : rank[rest[a].id] < rank[g]
  <2>1. ASSUME NEW a \in Open(rest) PROVE rank[s.stack[a].id] < rank[s.stack[n + 1].id]
    <3>1. a \in Open(s.stack) /\ n + 1 \in DOMAIN s.stack /\ a < n + 1
      BY <1>2, <1>12, <1>13
    <3>2. s.stack[n + 1].id # NoGate
      BY <1>2, <1>4, <1>14
    <3>. QED
      BY <1>1, <3>1, <3>2 DEF Ascends
  <2>. QED
    BY <1>2, <1>4, <1>13, <2>1
<1>17. \A a \in Open(rest) : rest[a].id # g
  <2>1. rank[g] \in Nat
    BY <1>14 DEF SearchInput
  <2>. QED
    BY <1>16, <2>1
<1>18. VisitsOnce(t)
  <2>1. s.visited = ToSet(new) \cup {rest[a].id : a \in Open(rest)}
    BY <1>1, <1>2, <1>4, <1>8, <1>13 DEF VisitsOnce
  <2>2. \A i, j \in 1 .. m + 1 : new[i] = new[j] => i = j
    <3>1. \A i \in 1 .. m : s.order[i] # g
      BY <1>6, <1>15 DEF ToSet
    <3>2. \A i, j \in 1 .. m : s.order[i] = s.order[j] => i = j
      BY <1>1, <1>6 DEF VisitsOnce
    <3>. QED
      BY <1>7, <3>1, <3>2
  <2>3. \A a \in Open(rest) : rest[a].id \notin ToSet(new)
    BY <1>1, <1>8, <1>13, <1>17 DEF VisitsOnce
  <2>. QED
    BY <1>7, <1>11, <2>1, <2>2, <2>3 DEF VisitsOnce
<1>19. Ascends(rank, t.stack)
  <2>1. \A a \in Open(rest), b \in 1 .. n : a < b /\ rest[b].id # NoGate =>
           rank[rest[a].id] < rank[rest[b].id]
    BY <1>1, <1>2, <1>13 DEF Ascends
  <2>. QED
    BY <1>2, <1>11, <2>1 DEF Ascends
<1>20. BehindOpen(succ, t)
  <2>1. ASSUME NEW a \in Open(rest), NEW h \in ToSet(succ[rest[a].id]) \ {NoGate}
        PROVE  h \in ToSet(new) \/ \E b \in 1 .. n : a < b /\ rest[b].id = h
    <3>1. h \in ToSet(s.order) \/ \E b \in 1 .. n + 1 : a < b /\ s.stack[b].id = h
      BY <1>1, <1>2, <1>13, <2>1 DEF BehindOpen
    <3>2. \A b \in 1 .. n + 1 : b \in 1 .. n \/ b = n + 1
      OBVIOUS
    <3>. QED
      BY <1>2, <1>4, <1>8, <3>1, <3>2
  <2>. QED
    BY <1>2, <1>11, <2>1 DEF BehindOpen
<1>21. Topological(succ, t.order)
  <2>1. ASSUME NEW i \in 1 .. m + 1, NEW h \in ToSet(succ[new[i]]) \ {NoGate}
        PROVE  \E j \in 1 .. m + 1 : i < j /\ new[j] = h
    <3>1. CASE i = 1
      <4>1. h \in ToSet(s.order) \/ \E b \in 1 .. n + 1 : n + 1 < b /\ s.stack[b].id = h
        BY <1>1, <1>2, <1>4, <1>7, <1>13, <2>1, <3>1 DEF BehindOpen
      <4>2. \A b \in 1 .. n + 1 : ~(n + 1 < b)
        OBVIOUS
      <4>3. PICK j \in 1 .. m : s.order[j] = h
        BY <1>6, <4>1, <4>2 DEF ToSet
      <4>4. j + 1 \in 1 .. m + 1 /\ i < j + 1 /\ new[j + 1] = h
        BY <1>7, <3>1, <4>3
      <4>. QED
        BY <4>4
    <3>2. CASE i # 1
      <4>1. i - 1 \in 1 .. m /\ new[i] = s.order[i - 1]
        BY <1>7, <3>2
      <4>2. PICK j \in 1 .. m : i - 1 < j /\ s.order[j] = h
        BY <1>1, <1>6, <2>1, <4>1 DEF Topological
      <4>3. j + 1 \in 1 .. m + 1 /\ i < j + 1
        BY <3>2, <4>2
      <4>4. new[j + 1] = h
        BY <1>7, <4>2
      <4>. QED
        BY <4>3, <4>4
    <3>. QED
      BY <3>1, <3>2
  <2>2. Topological(succ, new)
    BY <1>7, <2>1, Zenon DEF Topological
  <2>. QED
    BY <1>11, <2>2
<1>22. RootsSeen(roots, t)
  <2>1. ASSUME NEW r \in ToSet(roots) \ {NoGate}
        PROVE  r \in ToSet(new) \/ \E b \in 1 .. n : rest[b].id = r
    <3>1. r \in ToSet(s.order) \/ \E b \in 1 .. n + 1 : s.stack[b].id = r
      BY <1>1, <1>2 DEF RootsSeen
    <3>2. \A b \in 1 .. n + 1 : b \in 1 .. n \/ b = n + 1
      OBVIOUS
    <3>. QED
      BY <1>2, <1>4, <1>8, <3>1, <3>2
  <2>. QED
    BY <1>2, <1>11, <2>1 DEF RootsSeen
<1>. QED
  BY <1>10, <1>11, <1>18, <1>19, <1>20, <1>21, <1>22 DEF SearchInv

\* A frame of a gate that was visited, or of none, goes.
LEMMA SkipKeeps ==
    ASSUME NEW ids, NEW succ, NEW rank, NEW roots, SearchInput(ids, succ, rank, roots),
           NEW s, SearchInv(ids, succ, rank, roots, s), s.stack # <<>>, ~Last(s.stack).post,
           Last(s.stack).id = NoGate \/ Last(s.stack).id \in s.visited
    PROVE  SearchInv(ids, succ, rank, roots, DfsStep(succ, s))
<1>1. /\ s \in SearchStates(ids) /\ VisitsOnce(s) /\ Ascends(rank, s.stack)
      /\ BehindOpen(succ, s) /\ Topological(succ, s.order) /\ RootsSeen(roots, s)
  BY DEF SearchInv
<1>2. PICK n \in Nat, top \in StackFrames(ids), rest \in Seq(StackFrames(ids)) :
         /\ top = Last(s.stack) /\ rest = Front(s.stack)
         /\ DOMAIN s.stack = 1 .. n + 1 /\ DOMAIN rest = 1 .. n
         /\ s.stack[n + 1] = top
         /\ \A a \in 1 .. n : a \in 1 .. n + 1 /\ a < n + 1 /\ rest[a] = s.stack[a]
  BY <1>1, StackPopped
<1>3. ~top.post /\ (top.id = NoGate \/ top.id \in s.visited)
  BY <1>2
<1>4. s.order \in Seq(ids) /\ s.visited \in SUBSET ids
      /\ s = [stack |-> s.stack, visited |-> s.visited, order |-> s.order]
  BY <1>1 DEF SearchStates
<1>5. PICK t : t = [stack |-> rest, visited |-> s.visited, order |-> s.order]
  OBVIOUS
<1>6. DfsStep(succ, s) = t
  <2>1. DfsStep(succ, s) = [s EXCEPT !.stack = rest]
    BY <1>2, <1>3 DEF DfsStep
  <2>. QED
    BY <1>4, <1>5, <2>1
<1>7. /\ t.stack = rest /\ t.visited = s.visited /\ t.order = s.order
      /\ t \in SearchStates(ids)
  BY <1>2, <1>4, <1>5 DEF SearchStates
<1>8. /\ Open(rest) = Open(s.stack)
      /\ \A a \in Open(rest) : a \in 1 .. n /\ rest[a] = s.stack[a] /\ rest[a].id \in ids
  <2>1. \A a : a \in 1 .. n + 1 <=> a \in 1 .. n \/ a = n + 1
    OBVIOUS
  <2>2. \A a : a \in Open(s.stack) <=> a \in 1 .. n + 1 /\ s.stack[a].post
    BY <1>2 DEF Open
  <2>3. \A a : a \in Open(rest) <=> a \in 1 .. n /\ rest[a].post
    BY <1>2 DEF Open
  <2>4. \A a \in 1 .. n : rest[a].post => rest[a].id \in ids
    BY <1>2, FrameFields
  <2>. QED
    BY <1>2, <1>3, <2>1, <2>2, <2>3, <2>4
\* The gate of the frame is in the order, or open above each gate of lower rank.
<1>9. ASSUME top.id # NoGate, top.id \notin ToSet(s.order)
      PROVE  \E b \in Open(rest) : /\ rest[b].id = top.id
                                   /\ \A a \in Open(rest) : rank[rest[a].id] < rank[top.id] => a < b
  <2>1. PICK b \in Open(rest) : rest[b].id = top.id
    BY <1>1, <1>3, <1>8, <1>9 DEF VisitsOnce
  <2>2. ASSUME NEW a \in Open(rest), rank[rest[a].id] < rank[top.id] PROVE a < b
    <3>1. a \in Nat /\ b \in Nat
      BY <1>8, <2>1
    <3>2. rank[rest[a].id] \in Nat /\ rank[top.id] \in Nat
      BY <1>8, <2>1 DEF SearchInput
    <3>3. a # b
      BY <2>1, <2>2, <3>2
    <3>4. ~(b < a)
      <4>1. rest[a].id # NoGate
        BY <1>8 DEF SearchInput
      <4>2. b < a => rank[s.stack[b].id] < rank[s.stack[a].id]
        BY <1>1, <1>2, <1>8, <2>1, <4>1 DEF Ascends
      <4>3. rank[s.stack[b].id] = rank[top.id] /\ rank[s.stack[a].id] = rank[rest[a].id]
        BY <1>8, <2>1
      <4>. QED
        BY <2>2, <3>2, <4>2, <4>3
    <3>. QED
      BY <3>1, <3>3, <3>4
  <2>. QED
    BY <2>1, <2>2
<1>10. VisitsOnce(t)
  BY <1>1, <1>7, <1>8 DEF VisitsOnce
<1>11. Ascends(rank, t.stack)
  <2>1. \A a \in Open(rest), b \in 1 .. n : a < b /\ rest[b].id # NoGate =>
           rank[rest[a].id] < rank[rest[b].id]
    BY <1>1, <1>2, <1>8 DEF Ascends
  <2>. QED
    BY <1>2, <1>7, <2>1 DEF Ascends
<1>12. BehindOpen(succ, t)
  <2>1. ASSUME NEW a \in Open(rest), NEW h \in ToSet(succ[rest[a].id]) \ {NoGate}
        PROVE  h \in ToSet(s.order) \/ \E b \in 1 .. n : a < b /\ rest[b].id = h
    <3>1. h \in ToSet(s.order) \/ \E b \in 1 .. n + 1 : a < b /\ s.stack[b].id = h
      BY <1>1, <1>2, <1>8, <2>1 DEF BehindOpen
    <3>2. \A b \in 1 .. n + 1 : b \in 1 .. n \/ b = n + 1
      OBVIOUS
    <3>3. CASE h = top.id /\ h \notin ToSet(s.order)
      <4>1. rank[rest[a].id] < rank[h]
        BY <1>8, <2>1 DEF SearchInput
      <4>. QED
        BY <1>8, <1>9, <2>1, <3>3, <4>1
    <3>. QED
      BY <1>2, <3>1, <3>2, <3>3
  <2>. QED
    BY <1>2, <1>7, <2>1 DEF BehindOpen
<1>13. Topological(succ, t.order)
  BY <1>1, <1>7
<1>14. RootsSeen(roots, t)
  <2>1. ASSUME NEW r \in ToSet(roots) \ {NoGate}
        PROVE  r \in ToSet(s.order) \/ \E b \in 1 .. n : rest[b].id = r
    <3>1. r \in ToSet(s.order) \/ \E b \in 1 .. n + 1 : s.stack[b].id = r
      BY <1>1, <1>2 DEF RootsSeen
    <3>2. \A b \in 1 .. n + 1 : b \in 1 .. n \/ b = n + 1
      OBVIOUS
    <3>. QED
      BY <1>2, <1>8, <1>9, <2>1, <3>1, <3>2
  <2>. QED
    BY <1>2, <1>7, <2>1 DEF RootsSeen
<1>. QED
  BY <1>6, <1>7, <1>10, <1>11, <1>12, <1>13, <1>14 DEF SearchInv

\* A sequence behind another
LEMMA Joined ==
    ASSUME NEW T, NEW s \in Seq(T), NEW t \in Seq(T)
    PROVE  /\ s \o t \in Seq(T) /\ Len(s \o t) = Len(s) + Len(t)
           /\ DOMAIN (s \o t) = 1 .. Len(s) + Len(t)
           /\ \A i \in 1 .. Len(s) : (s \o t)[i] = s[i]
           /\ \A i \in 1 .. Len(t) : (s \o t)[Len(s) + i] = t[i]
<1>1. PICK m \in Nat, n \in Nat : m = Len(s) /\ n = Len(t)
  OBVIOUS
<1>2. /\ s \o t \in Seq(T) /\ DOMAIN (s \o t) = 1 .. m + n
      /\ \A i \in 1 .. m : (s \o t)[i] = s[i]
      /\ \A i \in 1 .. n : (s \o t)[m + i] = t[i]
  BY <1>1
<1>3. Len(s \o t) = m + n
  BY <1>1
<1>. QED
  BY <1>1, <1>2, <1>3

\* What a visit of the gate g does to the frames
VisitOf(ids, succ, g, s, t) == /\ g \in ids
                               /\ t.visited = s.visited \cup {g}
                               /\ Len(t.stack) = Len(s.stack) + Len(succ[g])

\* A gate that is visited is open from then on, and what is behind it waits above it.
LEMMA VisitKeeps ==
    ASSUME NEW ids, NEW succ, NEW rank, NEW roots, SearchInput(ids, succ, rank, roots),
           NEW s, SearchInv(ids, succ, rank, roots, s), s.stack # <<>>, ~Last(s.stack).post,
           Last(s.stack).id # NoGate, Last(s.stack).id \notin s.visited
    PROVE  /\ SearchInv(ids, succ, rank, roots, DfsStep(succ, s))
           /\ VisitOf(ids, succ, Last(s.stack).id, s, DfsStep(succ, s))
<1>1. /\ s \in SearchStates(ids) /\ VisitsOnce(s) /\ Ascends(rank, s.stack)
      /\ BehindOpen(succ, s) /\ Topological(succ, s.order) /\ RootsSeen(roots, s)
  BY DEF SearchInv
<1>2. PICK n \in Nat, top \in StackFrames(ids), rest \in Seq(StackFrames(ids)) :
         /\ top = Last(s.stack) /\ rest = Front(s.stack)
         /\ DOMAIN s.stack = 1 .. n + 1 /\ DOMAIN rest = 1 .. n
         /\ s.stack[n + 1] = top
         /\ \A a \in 1 .. n : a \in 1 .. n + 1 /\ a < n + 1 /\ rest[a] = s.stack[a]
  BY <1>1, StackPopped
<1>3. PICK g : g = top.id
  OBVIOUS
<1>4. ~top.post /\ g # NoGate /\ g \notin s.visited /\ g \in ids
  BY <1>2, <1>3, FrameFields
<1>5. s.order \in Seq(ids) /\ s.visited \in SUBSET ids
      /\ s = [stack |-> s.stack, visited |-> s.visited, order |-> s.order]
  BY <1>1 DEF SearchStates
<1>6. PICK frame, above : frame = [id |-> g, post |-> TRUE] /\ above = DfsFrames(succ[g])
  OBVIOUS
<1>7. PICK w \in Nat : w = Len(succ[g]) /\ DOMAIN succ[g] = 1 .. w
  BY <1>4 DEF SearchInput
<1>8. /\ frame \in StackFrames(ids) /\ frame.id = g /\ frame.post
      /\ above \in Seq(StackFrames(ids)) /\ Len(above) = w
      /\ \A i \in 1 .. w : above[i].id = succ[g][i] /\ ~above[i].post
  <2>1. frame \in StackFrames(ids)
    BY <1>4, <1>6, Zenon DEF StackFrames
  <2>2. above \in Seq(StackFrames(ids))
    BY <1>4, <1>6, FramesOfPins DEF SearchInput
  <2>3. DOMAIN above = 1 .. w /\ \A i \in 1 .. w : above[i] = [id |-> succ[g][i], post |-> FALSE]
    BY <1>6, <1>7 DEF DfsFrames
  <2>4. Len(above) = w
    BY <1>7, <2>2, <2>3
  <2>5. \A i \in 1 .. w : above[i].id = succ[g][i] /\ above[i].post = FALSE
    BY <2>3
  <2>6. frame.id = g /\ frame.post = TRUE
    BY <1>6
  <2>. QED
    BY <2>1, <2>2, <2>4, <2>5, <2>6
<1>9. PICK new : new = Append(rest, frame) \o above
  OBVIOUS
<1>10. /\ new \in Seq(StackFrames(ids)) /\ DOMAIN new = 1 .. n + 1 + w /\ Len(new) = n + 1 + w
       /\ \A a \in 1 .. n : new[a] = rest[a]
       /\ new[n + 1] = frame
       /\ \A i \in 1 .. w : new[n + 1 + i] = above[i]
  <2>1. PICK F : F = StackFrames(ids)
    OBVIOUS
  <2>2. rest \in Seq(F) /\ Len(rest) = n /\ frame \in F /\ above \in Seq(F)
    BY <1>2, <1>8, <2>1
  <2>3. PICK first : first = Append(rest, frame)
    OBVIOUS
  <2>4. /\ first \in Seq(F) /\ Len(first) = n + 1 /\ first[n + 1] = frame
        /\ \A a \in 1 .. n : first[a] = rest[a]
    BY <2>2, <2>3
  <2>5. new = first \o above /\ new \in Seq(F) /\ Len(new) = n + 1 + w
    <3>1. new = first \o above
      BY <1>9, <2>3
    <3>2. first \in Seq(F) /\ above \in Seq(F) /\ Len(first) = n + 1 /\ Len(above) = w
      BY <1>8, <2>2, <2>4
    <3>3. new \in Seq(F)
      BY <3>1, <3>2
    <3>4. Len(new) = Len(first) + Len(above)
      BY <3>1, <3>2, Joined
    <3>. QED
      BY <3>1, <3>2, <3>3, <3>4
  <2>6. \A a \in 1 .. n + 1 : new[a] = first[a]
    BY <1>8, <2>2, <2>4, <2>5
  <2>7. ASSUME NEW i \in 1 .. w PROVE new[n + 1 + i] = above[i]
    BY <1>8, <2>2, <2>4, <2>5
  <2>8. \A a \in 1 .. n : a \in 1 .. n + 1
    OBVIOUS
  <2>9. DOMAIN new = 1 .. n + 1 + w /\ n + 1 \in 1 .. n + 1
    BY <2>5
  <2>. QED
    BY <1>2, <2>1, <2>4, <2>5, <2>6, <2>7, <2>8, <2>9
<1>11. \A a : a \in 1 .. n + 1 + w <=>
              a \in 1 .. n \/ a = n + 1 \/ \E i \in 1 .. w : a = n + 1 + i
  <2>1. ASSUME NEW a \in 1 .. n + 1 + w, a \notin 1 .. n, a # n + 1
        PROVE  \E i \in 1 .. w : a = n + 1 + i
    <3>1. a - (n + 1) \in 1 .. w /\ a = n + 1 + (a - (n + 1))
      BY <2>1
    <3>. QED
      BY <3>1
  <2>2. \A a : a \in 1 .. n \/ a = n + 1 => a \in 1 .. n + 1 + w
    OBVIOUS
  <2>3. \A i \in 1 .. w : n + 1 + i \in 1 .. n + 1 + w
    OBVIOUS
  <2>. QED
    BY <2>1, <2>2, <2>3
<1>12. PICK t : t = [stack |-> new, visited |-> s.visited \cup {g}, order |-> s.order]
  OBVIOUS
<1>13. DfsStep(succ, s) = t
  <2>1. DfsStep(succ, s) = [s EXCEPT !.visited = s.visited \cup {g}, !.stack = new]
    BY <1>2, <1>3, <1>4, <1>6, <1>9 DEF DfsStep
  <2>. QED
    BY <1>5, <1>12, <2>1
<1>14. /\ t.stack = new /\ t.visited = s.visited \cup {g} /\ t.order = s.order
       /\ t \in SearchStates(ids)
  BY <1>4, <1>5, <1>10, <1>12 DEF SearchStates
<1>15. /\ \A a : a \in Open(new) <=> a \in Open(s.stack) \/ a = n + 1
       /\ \A a \in Open(s.stack) : /\ a \in 1 .. n /\ new[a] = s.stack[a]
                                   /\ new[a].id \in ids /\ new[a].id \in s.visited
  <2>1. \A a : a \in 1 .. n + 1 <=> a \in 1 .. n \/ a = n + 1
    OBVIOUS
  <2>2. \A a : a \in Open(s.stack) <=> a \in 1 .. n /\ rest[a].post
    BY <1>2, <1>4, <2>1 DEF Open
  <2>3. \A a : a \in Open(new) <=> a \in 1 .. n + 1 + w /\ new[a].post
    BY <1>10 DEF Open
  <2>4. \A a : a \in Open(new) <=> a \in Open(s.stack) \/ a = n + 1
    <3>1. \A a \in 1 .. n : new[a].post <=> rest[a].post
      BY <1>10
    <3>2. new[n + 1].post /\ n + 1 \in 1 .. n + 1 + w
      BY <1>8, <1>10
    <3>3. \A i \in 1 .. w : ~new[n + 1 + i].post
      BY <1>8, <1>10
    <3>4. ASSUME NEW a \in Open(new) PROVE a \in Open(s.stack) \/ a = n + 1
      BY <1>11, <2>2, <2>3, <3>1, <3>3
    <3>5. \A a \in Open(s.stack) : a \in Open(new)
      BY <1>11, <2>2, <2>3, <3>1
    <3>. QED
      BY <2>3, <3>2, <3>4, <3>5
  <2>5. \A a \in Open(s.stack) : a \in 1 .. n /\ new[a] = s.stack[a] /\ new[a].id \in ids
    BY <1>2, <1>10, <2>2, FrameFields
  <2>. QED
    BY <1>1, <2>4, <2>5 DEF VisitsOnce
<1>16. g \notin ToSet(s.order)
  BY <1>1, <1>4 DEF VisitsOnce
<1>17. VisitsOnce(t)
  <2>1. s.visited \cup {g} = ToSet(s.order) \cup {new[a].id : a \in Open(new)}
    <3>1. {new[a].id : a \in Open(new)} = {s.stack[a].id : a \in Open(s.stack)} \cup {new[n + 1].id}
      BY <1>15
    <3>. QED
      BY <1>1, <1>8, <1>10, <3>1 DEF VisitsOnce
  <2>2. \A a \in Open(new) : new[a].id \notin ToSet(s.order)
    BY <1>1, <1>8, <1>10, <1>15, <1>16 DEF VisitsOnce
  <2>. QED
    BY <1>1, <1>14, <2>1, <2>2 DEF VisitsOnce
<1>18. \A a \in Open(s.stack) : rank[new[a].id] < rank[g]
  <2>1. ASSUME NEW a \in Open(s.stack) PROVE rank[s.stack[a].id] < rank[s.stack[n + 1].id]
    <3>1. n + 1 \in DOMAIN s.stack /\ a < n + 1
      BY <1>2, <1>15
    <3>2. s.stack[n + 1].id # NoGate
      BY <1>2, <1>3, <1>4
    <3>. QED
      BY <1>1, <3>1, <3>2 DEF Ascends
  <2>. QED
    BY <1>2, <1>3, <1>15, <2>1
<1>19. \A i \in 1 .. w : succ[g][i] # NoGate =>
          /\ succ[g][i] \in ids /\ rank[g] < rank[succ[g][i]]
  <2>1. succ[g] \in Seq(ids \cup {NoGate})
    BY <1>4 DEF SearchInput
  <2>2. \A i \in 1 .. w : succ[g][i] \in ids \cup {NoGate} /\ succ[g][i] \in ToSet(succ[g])
    BY <1>7, <2>1 DEF ToSet
  <2>. QED
    BY <1>4, <2>2 DEF SearchInput
<1>20. \A a \in Open(s.stack) : \A i \in 1 .. w : succ[g][i] # NoGate =>
          rank[new[a].id] < rank[succ[g][i]]
  <2>1. \A x \in ids : rank[x] \in Nat
    BY DEF SearchInput
  <2>2. \A x, y, z \in Nat : x < y /\ y < z => x < z
    OBVIOUS
  <2>. QED
    BY <1>4, <1>15, <1>18, <1>19, <2>1, <2>2
<1>21. Ascends(rank, t.stack)
  <2>1. ASSUME NEW a \in Open(new), NEW b \in 1 .. n + 1 + w, a < b, new[b].id # NoGate
        PROVE  rank[new[a].id] < rank[new[b].id]
    <3>1. CASE a = n + 1
      <4>1. PICK i \in 1 .. w : b = n + 1 + i
        <5>1. b \notin 1 .. n /\ b # n + 1
          BY <2>1, <3>1
        <5>. QED
          BY <1>11, <5>1
      <4>2. new[a].id = g /\ new[b].id = succ[g][i]
        BY <1>8, <1>10, <3>1, <4>1
      <4>. QED
        BY <1>19, <2>1, <4>2
    <3>2. CASE a \in Open(s.stack) /\ b \in 1 .. n
      <4>1. new[a] = s.stack[a] /\ new[b] = s.stack[b] /\ b \in DOMAIN s.stack
        BY <1>2, <1>10, <1>15, <3>2
      <4>. QED
        BY <1>1, <2>1, <3>2, <4>1 DEF Ascends
    <3>3. CASE a \in Open(s.stack) /\ b = n + 1
      BY <1>8, <1>10, <1>18, <3>3
    <3>4. ASSUME a \in Open(s.stack), NEW i \in 1 .. w, b = n + 1 + i
          PROVE  rank[new[a].id] < rank[new[b].id]
      <4>1. new[b].id = succ[g][i]
        BY <1>8, <1>10, <3>4
      <4>. QED
        BY <1>20, <2>1, <3>4, <4>1
    <3>. QED
      BY <1>11, <1>15, <3>1, <3>2, <3>3, <3>4
  <2>2. Ascends(rank, new)
    BY <1>10, <2>1, Zenon DEF Ascends
  <2>. QED
    BY <1>14, <2>2
<1>22. BehindOpen(succ, t)
  <2>1. ASSUME NEW a \in Open(new), NEW h \in ToSet(succ[new[a].id]) \ {NoGate}
        PROVE  h \in ToSet(s.order) \/ \E b \in 1 .. n + 1 + w : a < b /\ new[b].id = h
    <3>1. CASE a = n + 1
      <4>1. PICK i \in 1 .. w : succ[g][i] = h
        <5>1. new[a].id = g
          BY <1>8, <1>10, <3>1
        <5>2. h \in ToSet(succ[g])
          BY <2>1, <5>1
        <5>. QED
          BY <1>7, <5>2 DEF ToSet
      <4>2. n + 1 + i \in 1 .. n + 1 + w /\ a < n + 1 + i
        BY <3>1, <4>1
      <4>3. new[n + 1 + i].id = h
        BY <1>8, <1>10, <4>1
      <4>. QED
        BY <4>2, <4>3
    <3>2. CASE a \in Open(s.stack)
      <4>1. h \in ToSet(s.order) \/ \E b \in 1 .. n + 1 : a < b /\ s.stack[b].id = h
        BY <1>1, <1>2, <1>15, <2>1, <3>2 DEF BehindOpen
      <4>2. ASSUME NEW b \in 1 .. n + 1, a < b, s.stack[b].id = h
            PROVE  b \in 1 .. n + 1 + w /\ new[b].id = h
        <5>1. b \in 1 .. n \/ b = n + 1
          OBVIOUS
        <5>2. new[b].id = h
          BY <1>2, <1>3, <1>8, <1>10, <4>2, <5>1
        <5>. QED
          BY <1>11, <5>1, <5>2
      <4>. QED
        BY <4>1, <4>2
    <3>. QED
      BY <1>15, <3>1, <3>2
  <2>2. \A a \in Open(new) : \A h \in ToSet(succ[new[a].id]) \ {NoGate} :
           h \in ToSet(s.order) \/ \E b \in DOMAIN new : a < b /\ new[b].id = h
    BY <1>10, <2>1
  <2>. QED
    BY <1>14, <2>2 DEF BehindOpen
<1>23. Topological(succ, t.order)
  BY <1>1, <1>14
<1>24. RootsSeen(roots, t)
  <2>1. ASSUME NEW r \in ToSet(roots) \ {NoGate}
        PROVE  r \in ToSet(s.order) \/ \E b \in 1 .. n + 1 + w : new[b].id = r
    <3>1. r \in ToSet(s.order) \/ \E b \in 1 .. n + 1 : s.stack[b].id = r
      BY <1>1, <1>2 DEF RootsSeen
    <3>2. ASSUME NEW b \in 1 .. n + 1, s.stack[b].id = r
          PROVE  b \in 1 .. n + 1 + w /\ new[b].id = r
      <4>1. b \in 1 .. n \/ b = n + 1
        OBVIOUS
      <4>2. new[b].id = r
        BY <1>2, <1>3, <1>8, <1>10, <3>2, <4>1
      <4>. QED
        BY <1>11, <4>1, <4>2
    <3>. QED
      BY <3>1, <3>2
  <2>. QED
    BY <1>10, <1>14, <2>1 DEF RootsSeen
<1>25. SearchInv(ids, succ, rank, roots, t)
  BY <1>14, <1>17, <1>21, <1>22, <1>23, <1>24 DEF SearchInv
<1>26. Len(s.stack) = n + 1
  <2>1. PICK F : F = StackFrames(ids)
    OBVIOUS
  <2>2. s.stack \in Seq(F)
    BY <1>1, <2>1 DEF SearchStates
  <2>. QED
    BY <1>2, <2>2
<1>. QED
  BY <1>2, <1>3, <1>4, <1>7, <1>10, <1>13, <1>14, <1>25, <1>26 DEF VisitOf

\* Each iteration takes a frame; a visit puts one frame back, and one for each pin.
FramesLeft(ids, width, s) == Len(s.stack) + Cardinality(ids \ s.visited) * (1 + width)

\* An iteration keeps the invariant, and leaves less to do.
LEMMA SearchStepKeeps ==
    ASSUME NEW ids, NEW succ, NEW rank, NEW roots, SearchInput(ids, succ, rank, roots),
           NEW s, SearchInv(ids, succ, rank, roots, s), s.stack # <<>>,
           IsFiniteSet(ids), NEW width \in Nat, \A x \in ids : Len(succ[x]) <= width
    PROVE  /\ SearchInv(ids, succ, rank, roots, DfsStep(succ, s))
           /\ FramesLeft(ids, width, s) \in Nat
           /\ FramesLeft(ids, width, DfsStep(succ, s)) \in Nat
           /\ FramesLeft(ids, width, DfsStep(succ, s)) < FramesLeft(ids, width, s)
<1>1. s \in SearchStates(ids)
  BY DEF SearchInv
<1>2. PICK n \in Nat, top \in StackFrames(ids), rest \in Seq(StackFrames(ids)) :
         /\ top = Last(s.stack) /\ rest = Front(s.stack)
         /\ DOMAIN s.stack = 1 .. n + 1 /\ DOMAIN rest = 1 .. n
         /\ s.stack[n + 1] = top
         /\ \A a \in 1 .. n : a \in 1 .. n + 1 /\ a < n + 1 /\ rest[a] = s.stack[a]
  BY <1>1, StackPopped
<1>3. Len(s.stack) = n + 1 /\ Len(rest) = n
  <2>1. PICK F : F = StackFrames(ids)
    OBVIOUS
  <2>2. s.stack \in Seq(F) /\ rest \in Seq(F)
    BY <1>1, <1>2, <2>1 DEF SearchStates
  <2>. QED
    BY <1>2, <2>2
<1>4. PICK t : t = DfsStep(succ, s)
  OBVIOUS
<1>5. s = [stack |-> s.stack, visited |-> s.visited, order |-> s.order]
      /\ s.visited \in SUBSET ids
  BY <1>1 DEF SearchStates
<1>6. PICK c \in Nat : c = Cardinality(ids \ s.visited)
  BY FS_Subset, FS_CardinalityType
<1>7. PICK product : product = c * (1 + width)
  OBVIOUS
<1>8. product \in Nat
  BY <1>7
<1>9. FramesLeft(ids, width, s) = n + 1 + product
  BY <1>3, <1>6, <1>7 DEF FramesLeft
<1>10. CASE t.stack = rest /\ t.visited = s.visited /\ SearchInv(ids, succ, rank, roots, t)
  <2>1. FramesLeft(ids, width, t) = n + product
    BY <1>3, <1>6, <1>7, <1>10 DEF FramesLeft
  <2>. QED
    BY <1>4, <1>8, <1>9, <1>10, <2>1
<1>11. CASE top.post
  <2>1. SearchInv(ids, succ, rank, roots, t)
    BY <1>2, <1>4, <1>11, FinishKeeps
  <2>2. PICK new : new = <<top.id>> \o s.order
    OBVIOUS
  <2>3. t = [s EXCEPT !.stack = rest, !.order = new]
    BY <1>2, <1>4, <1>11, <2>2 DEF DfsStep
  <2>4. t.stack = rest /\ t.visited = s.visited
    BY <1>5, <2>3
  <2>. QED
    BY <1>10, <2>1, <2>4
<1>12. CASE ~top.post /\ (top.id = NoGate \/ top.id \in s.visited)
  <2>1. SearchInv(ids, succ, rank, roots, t)
    BY <1>2, <1>4, <1>12, SkipKeeps
  <2>2. t = [s EXCEPT !.stack = rest]
    BY <1>2, <1>4, <1>12 DEF DfsStep
  <2>3. t.stack = rest /\ t.visited = s.visited
    BY <1>5, <2>2
  <2>. QED
    BY <1>10, <2>1, <2>3
<1>13. CASE ~top.post /\ top.id # NoGate /\ top.id \notin s.visited
  <2>1. PICK g : g = top.id
    OBVIOUS
  <2>2. /\ SearchInv(ids, succ, rank, roots, t) /\ g \in ids
        /\ t.visited = s.visited \cup {g} /\ Len(t.stack) = Len(s.stack) + Len(succ[g])
    <3>1. /\ s.stack # <<>> /\ ~Last(s.stack).post /\ g = Last(s.stack).id
          /\ Last(s.stack).id # NoGate /\ Last(s.stack).id \notin s.visited
      BY <1>2, <1>13, <2>1
    <3>2. /\ SearchInv(ids, succ, rank, roots, DfsStep(succ, s)) /\ g \in ids
          /\ DfsStep(succ, s).visited = s.visited \cup {g}
          /\ Len(DfsStep(succ, s).stack) = Len(s.stack) + Len(succ[g])
      <4>1. /\ SearchInv(ids, succ, rank, roots, DfsStep(succ, s))
            /\ VisitOf(ids, succ, Last(s.stack).id, s, DfsStep(succ, s))
        BY <3>1, VisitKeeps
      <4>. QED
        BY <3>1, <4>1 DEF VisitOf
    <3>. QED
      BY <1>4, <3>2
  <2>3. Cardinality(ids \ t.visited) = c - 1 /\ c - 1 \in Nat
    <3>1. ids \ t.visited = (ids \ s.visited) \ {g} /\ g \in ids \ s.visited
      BY <1>13, <2>1, <2>2
    <3>2. IsFiniteSet(ids \ s.visited)
      BY FS_Subset
    <3>3. Cardinality((ids \ s.visited) \ {g}) = c - 1
      BY <1>6, <3>1, <3>2, FS_RemoveElement
    <3>4. IsFiniteSet((ids \ s.visited) \ {g})
      BY <3>2, FS_Subset
    <3>. QED
      BY <3>1, <3>3, <3>4, FS_CardinalityType
  <2>4. PICK w \in Nat : w = Len(succ[g]) /\ w <= width
    BY <2>2 DEF SearchInput
  <2>5. PICK d \in Nat : d = c - 1
    BY <2>3
  <2>6. PICK less : less = d * (1 + width)
    OBVIOUS
  <2>7. less \in Nat /\ product = less + 1 + width
    BY <1>7, <2>5, <2>6
  <2>8. FramesLeft(ids, width, t) = n + 1 + w + less
    BY <1>3, <2>2, <2>3, <2>4, <2>5, <2>6 DEF FramesLeft
  <2>9. PICK before, later : before = FramesLeft(ids, width, s) /\ later = FramesLeft(ids, width, t)
    OBVIOUS
  <2>10. before \in Nat /\ later \in Nat /\ later < before
    <3>1. before = n + 1 + product /\ later = n + 1 + w + less
      BY <1>9, <2>8, <2>9
    <3>2. \A a, b, c1, c2 \in Nat : c1 <= c2 => a + 1 + c1 + b < a + 1 + (b + 1 + c2)
      OBVIOUS
    <3>3. later < before
      BY <1>2, <2>4, <2>7, <3>1, <3>2
    <3>4. before \in Nat /\ later \in Nat
      <4>1. n + 1 + product \in Nat
        BY <1>8
      <4>2. n + 1 + w + less \in Nat
        BY <2>7
      <4>. QED
        BY <3>1, <4>1, <4>2
    <3>. QED
      BY <3>3, <3>4
  <2>. QED
    BY <1>4, <2>2, <2>9, <2>10
<1>. QED
  BY <1>11, <1>12, <1>13

\* The states of the loop, in the order in which it runs
SearchRun(roots, succ, n, pops, after) ==
    /\ pops \in Nat
    /\ pops = Len(roots) + n * (1 + Len(roots))
    /\ DfsOrder(roots, succ, n) = after[pops].order
    /\ after[0] = [stack |-> DfsFrames(roots), visited |-> {}, order |-> <<>>]
    /\ \A m \in Nat : m + 1 <= pops => after[m + 1] = DfsStep(succ, after[m])

\* The search runs through such states.
LEMMA SearchRuns ==
    ASSUME NEW succ, NEW roots, Len(roots) \in Nat, NEW n \in Nat
    PROVE  \E pops, after : SearchRun(roots, succ, n, pops, after)
<1>1. PICK pops \in Nat : pops = Len(roots) + n * (1 + Len(roots))
  OBVIOUS
<1>2. PICK start : start = [stack |-> DfsFrames(roots), visited |-> {}, order |-> <<>>]
  OBVIOUS
<1>. DEFINE States(f) == [k \in 0 .. pops |-> IF k = 0 THEN start ELSE DfsStep(succ, f[k - 1])]
            after == CHOOSE f : f = States(f)
            Computed == {m \in Nat : m <= pops =>
                          \E f : /\ f = [k \in 0 .. m |-> f[k]]
                                 /\ f[0] = start
                                 /\ \A k \in 1 .. m : f[k] = DfsStep(succ, f[k - 1])}
<1>4. DfsOrder(roots, succ, n) = after[pops].order
  BY <1>1, <1>2 DEF DfsOrder
<1>5. 0 \in Computed
  <2>. DEFINE f == [k \in 0 .. 0 |-> start]
  <2>1. f = [k \in 0 .. 0 |-> f[k]] /\ f[0] = start
    OBVIOUS
  <2>2. 1 .. 0 = {}
    OBVIOUS
  <2>. HIDE DEF f
  <2>3. \A k \in 1 .. 0 : f[k] = DfsStep(succ, f[k - 1])
    BY <2>2
  <2>. QED
    BY <2>1, <2>3
<1>6. ASSUME NEW m \in Nat, m \in Computed
      PROVE  m + 1 \in Computed
  <2>1. SUFFICES ASSUME m + 1 <= pops
                 PROVE  \E g : /\ g = [k \in 0 .. m + 1 |-> g[k]]
                               /\ g[0] = start
                               /\ \A k \in 1 .. m + 1 : g[k] = DfsStep(succ, g[k - 1])
    OBVIOUS
  <2>2. m <= pops
    BY <2>1
  <2>3. PICK f : /\ f[0] = start
                 /\ \A k \in 1 .. m : f[k] = DfsStep(succ, f[k - 1])
    BY <1>6, <2>2
  <2>. DEFINE g == [k \in 0 .. m + 1 |-> IF k = m + 1 THEN DfsStep(succ, f[m]) ELSE f[k]]
  <2>4. g = [k \in 0 .. m + 1 |-> g[k]]
    OBVIOUS
  <2>5. g[0] = start
    BY <2>3
  <2>6. \A k \in 0 .. m : g[k] = f[k]
    OBVIOUS
  <2>7. g[m + 1] = DfsStep(succ, f[m])
    OBVIOUS
  <2>. HIDE DEF g
  <2>8. ASSUME NEW k \in 1 .. m + 1
        PROVE  g[k] = DfsStep(succ, g[k - 1])
    <3>1. CASE k = m + 1
      <4>1. k - 1 = m
        BY <3>1
      <4>. QED
        BY <3>1, <4>1, <2>6, <2>7
    <3>2. CASE k # m + 1
      <4>1. k \in 1 .. m /\ k - 1 \in 0 .. m /\ k \in 0 .. m
        BY <3>2
      <4>. QED
        BY <4>1, <2>3, <2>6
    <3>. QED
      BY <3>1, <3>2
  <2>. QED
    BY <2>4, <2>5, <2>8
<1>7. after = States(after)
  <2>1. Nat \subseteq Computed
    <3>. HIDE DEF Computed
    <3>. QED
      BY <1>5, <1>6, SetInduction
  <2>2. PICK f : /\ f = [k \in 0 .. pops |-> f[k]]
                 /\ f[0] = start
                 /\ \A k \in 1 .. pops : f[k] = DfsStep(succ, f[k - 1])
    BY <2>1
  <2>3. \A k \in 0 .. pops : k # 0 => k \in 1 .. pops
    OBVIOUS
  <2>4. \A k \in 0 .. pops : f[k] = IF k = 0 THEN start ELSE DfsStep(succ, f[k - 1])
    BY <2>2, <2>3
  <2>5. f = States(f)
    BY <2>2, <2>4, Zenon
  <2>. QED
    BY <2>5
<1>. HIDE DEF after
<1>8. after[0] = start
      /\ \A m \in Nat : m + 1 <= pops => after[m + 1] = DfsStep(succ, after[m])
  <2>1. 0 \in 0 .. pops
        /\ \A m \in Nat : m + 1 <= pops => m + 1 \in 0 .. pops /\ m + 1 # 0 /\ (m + 1) - 1 = m
    OBVIOUS
  <2>. QED
    BY <1>7, <2>1
<1>. QED
  BY <1>1, <1>2, <1>4, <1>8 DEF SearchRun

\* get_gates lists gates once, each one before what is behind it, and what the qubits begin
\* with among them: the loop of n gates ends with an empty stack.
LEMMA SearchIsTopological ==
    ASSUME NEW ids, NEW succ, NEW rank, NEW roots, SearchInput(ids, succ, rank, roots),
           IsFiniteSet(ids), NEW n \in Nat, Cardinality(ids) <= n,
           \A x \in ids : Len(succ[x]) <= Len(roots)
    PROVE  LET order == DfsOrder(roots, succ, n)
           IN  /\ order \in Seq(ids)
               /\ \A i, j \in DOMAIN order : order[i] = order[j] => i = j
               /\ Topological(succ, order)
               /\ ToSet(roots) \ {NoGate} \subseteq ToSet(order)
<1>1. roots \in Seq(ids \cup {NoGate})
  BY DEF SearchInput
<1>2. PICK width \in Nat : width = Len(roots) /\ DOMAIN roots = 1 .. width
  BY <1>1
<1>3. PICK product : product = n * (1 + width)
  OBVIOUS
<1>0. PICK pops \in Nat : \E after : SearchRun(roots, succ, n, pops, after)
  <2>1. Len(roots) \in Nat
    BY <1>2
  <2>2. PICK pops, after : SearchRun(roots, succ, n, pops, after)
    BY <2>1, SearchRuns
  <2>. QED
    BY <2>2 DEF SearchRun
<1>4. PICK after :
         /\ pops = Len(roots) + n * (1 + Len(roots))
         /\ DfsOrder(roots, succ, n) = after[pops].order
         /\ after[0] = [stack |-> DfsFrames(roots), visited |-> {}, order |-> <<>>]
         /\ \A m \in Nat : m + 1 <= pops => after[m + 1] = DfsStep(succ, after[m])
  BY <1>0 DEF SearchRun
<1>5. pops = width + product
  BY <1>2, <1>3, <1>4
<1>6. /\ after[0].stack = DfsFrames(roots) /\ after[0].visited = {} /\ after[0].order = <<>>
      /\ DfsFrames(roots) \in Seq(StackFrames(ids)) /\ after[0] \in SearchStates(ids)
  BY <1>1, <1>4, FramesOfPins DEF SearchStates
<1>7. /\ DOMAIN DfsFrames(roots) = 1 .. width
      /\ \A i \in 1 .. width : DfsFrames(roots)[i].id = roots[i] /\ DfsFrames(roots)[i].post = FALSE
  BY <1>2 DEF DfsFrames
<1>8. Len(DfsFrames(roots)) = width
  <2>1. PICK F : F = StackFrames(ids)
    OBVIOUS
  <2>2. DfsFrames(roots) \in Seq(F)
    BY <1>6, <2>1
  <2>. QED
    BY <1>7, <2>2
<1>9. SearchInv(ids, succ, rank, roots, after[0])
  <2>1. Open(DfsFrames(roots)) = {}
    BY <1>7 DEF Open
  <2>2. ToSet(<<>>) = {} /\ DOMAIN <<>> = {}
    BY DEF ToSet
  <2>3. VisitsOnce(after[0])
    BY <1>6, <2>1, <2>2 DEF VisitsOnce
  <2>4. Ascends(rank, after[0].stack) /\ BehindOpen(succ, after[0])
    BY <1>6, <2>1 DEF Ascends, BehindOpen
  <2>5. Topological(succ, after[0].order)
    BY <1>6, <2>2 DEF Topological
  <2>6. \A r \in ToSet(roots) \ {NoGate} : \E b \in 1 .. width : DfsFrames(roots)[b].id = r
    BY <1>2, <1>7 DEF ToSet
  <2>7. RootsSeen(roots, after[0])
    BY <1>6, <1>7, <2>6 DEF RootsSeen
  <2>. QED
    BY <1>6, <2>3, <2>4, <2>5, <2>7 DEF SearchInv
<1>10. FramesLeft(ids, width, after[0]) <= pops /\ FramesLeft(ids, width, after[0]) \in Nat
  <2>1. ids \ after[0].visited = ids
    BY <1>6
  <2>2. PICK c \in Nat : c = Cardinality(ids) /\ c <= n
    BY FS_CardinalityType
  <2>3. PICK less : less = c * (1 + width)
    OBVIOUS
  <2>4. less \in Nat /\ product \in Nat /\ less <= product
    <3>1. PICK d \in Nat : n = c + d
      <4>1. n - c \in Nat /\ n = c + (n - c)
        BY <2>2
      <4>. QED
        BY <4>1
    <3>2. product = less + d * (1 + width) /\ d * (1 + width) \in Nat
      BY <1>3, <2>3, <3>1
    <3>3. less \in Nat
      BY <2>3
    <3>. QED
      BY <3>2, <3>3
  <2>5. FramesLeft(ids, width, after[0]) = width + less
    BY <1>6, <1>8, <2>1, <2>2, <2>3 DEF FramesLeft
  <2>. QED
    BY <1>5, <2>4, <2>5
<1>. DEFINE Left(m) == FramesLeft(ids, width, after[m])
            Kept == {m \in Nat : m <= pops => /\ SearchInv(ids, succ, rank, roots, after[m])
                                              /\ \/ after[m].stack = <<>>
                                                 \/ (Left(m) \in Nat /\ Left(m) + m <= pops)}
<1>11. 0 \in Kept
  BY <1>9, <1>10
<1>12. ASSUME NEW m \in Kept, m \in Nat PROVE m + 1 \in Kept
  <2>1. SUFFICES ASSUME m + 1 <= pops
                 PROVE  /\ SearchInv(ids, succ, rank, roots, after[m + 1])
                        /\ \/ after[m + 1].stack = <<>>
                           \/ (Left(m + 1) \in Nat /\ Left(m + 1) + (m + 1) <= pops)
    OBVIOUS
  <2>2. /\ SearchInv(ids, succ, rank, roots, after[m])
        /\ after[m].stack = <<>> \/ (Left(m) \in Nat /\ Left(m) + m <= pops)
        /\ after[m + 1] = DfsStep(succ, after[m])
    BY <1>4, <1>12, <2>1
  <2>3. CASE after[m].stack = <<>>
    <3>1. after[m + 1] = after[m]
      BY <2>2, <2>3 DEF DfsStep
    <3>. QED
      BY <2>2, <2>3, <3>1
  <2>4. CASE after[m].stack # <<>>
    <3>1. PICK s : s = after[m]
      OBVIOUS
    <3>2. /\ SearchInv(ids, succ, rank, roots, DfsStep(succ, s))
          /\ FramesLeft(ids, width, DfsStep(succ, s)) \in Nat
          /\ FramesLeft(ids, width, DfsStep(succ, s)) < FramesLeft(ids, width, s)
      BY <1>2, <2>2, <2>4, <3>1, SearchStepKeeps
    <3>. QED
      BY <2>2, <2>4, <3>1, <3>2
  <2>. QED
    BY <2>3, <2>4
<1>13. pops \in Kept
  <2>1. Nat \subseteq Kept
    <3>. HIDE DEF Kept
    <3>. QED
      BY <1>11, <1>12, SetInduction
  <2>. QED
    BY <2>1
<1>14. PICK s : s = after[pops]
  OBVIOUS
<1>15. SearchInv(ids, succ, rank, roots, s) /\ s.stack = <<>>
  <2>1. /\ SearchInv(ids, succ, rank, roots, s)
        /\ \/ s.stack = <<>>
           \/ (FramesLeft(ids, width, s) \in Nat /\ FramesLeft(ids, width, s) + pops <= pops)
    BY <1>13, <1>14
  <2>2. CASE FramesLeft(ids, width, s) \in Nat /\ FramesLeft(ids, width, s) + pops <= pops
    <3>1. PICK m \in Nat, d \in Nat :
             m = Len(s.stack) /\ d = Cardinality(ids \ s.visited)
      <4>1. PICK F : F = StackFrames(ids)
        OBVIOUS
      <4>2. s.stack \in Seq(F)
        BY <2>1, <4>1 DEF SearchInv, SearchStates
      <4>. QED
        BY <4>2, FS_Subset, FS_CardinalityType
    <3>2. d * (1 + width) \in Nat
      BY <3>1
    <3>3. m + d * (1 + width) = 0
      BY <2>2, <3>1, <3>2 DEF FramesLeft
    <3>4. m = 0
      BY <3>2, <3>3
    <3>5. PICK F : F = StackFrames(ids)
      OBVIOUS
    <3>6. s.stack \in Seq(F)
      BY <2>1, <3>5 DEF SearchInv, SearchStates
    <3>7. s.stack = <<>>
      <4>1. Len(s.stack) = 0
        BY <3>1, <3>4
      <4>. QED
        BY <3>6, <4>1
    <3>. QED
      BY <2>1, <3>7
  <2>. QED
    BY <2>1, <2>2
<1>16. DfsOrder(roots, succ, n) = s.order
  BY <1>4, <1>14
<1>17. /\ s.order \in Seq(ids) /\ Topological(succ, s.order)
       /\ \A i, j \in DOMAIN s.order : s.order[i] = s.order[j] => i = j
  BY <1>15 DEF SearchInv, SearchStates, VisitsOnce
<1>18. ToSet(roots) \ {NoGate} \subseteq ToSet(s.order)
  <2>1. DOMAIN s.stack = {}
    BY <1>15
  <2>. QED
    BY <1>15, <2>1 DEF SearchInv, RootsSeen
<1>. QED
  BY <1>16, <1>17, <1>18

\* Each gate begins a qubit or is behind another.
Reached(ids, succ, roots) ==
    \A x \in ids : x \in ToSet(roots) \/ \E y \in ids : x \in ToSet(succ[y])

\* Then get_gates lists all of them.
LEMMA SearchIsComplete ==
    ASSUME NEW ids, NEW succ, NEW rank, NEW roots, SearchInput(ids, succ, rank, roots),
           NEW order, order \in Seq(ids), Topological(succ, order),
           ToSet(roots) \ {NoGate} \subseteq ToSet(order),
           Reached(ids, succ, roots)
    PROVE  ToSet(order) = ids
<1>1. ToSet(order) \subseteq ids
  BY DEF ToSet
<1>2. SUFFICES ASSUME ids \ ToSet(order) # {} PROVE FALSE
  BY <1>1
<1>3. PICK S : S = {rank[x] : x \in ids \ ToSet(order)}
  OBVIOUS
<1>4. S \subseteq Nat /\ S # {}
  BY <1>2, <1>3 DEF SearchInput
<1>5. PICK x \in ids \ ToSet(order) : \A y \in ids \ ToSet(order) : rank[x] <= rank[y]
  <2>1. Min(S) \in S /\ \A k \in S : Min(S) <= k
    BY <1>4, MinOfNaturals
  <2>2. PICK x \in ids \ ToSet(order) : Min(S) = rank[x]
    BY <1>3, <2>1
  <2>3. \A y \in ids \ ToSet(order) : rank[x] <= rank[y]
    BY <1>3, <2>1, <2>2
  <2>. QED
    BY <2>2, <2>3
<1>6. x # NoGate /\ x \notin ToSet(roots)
  BY <1>5 DEF SearchInput
<1>7. PICK y \in ids : x \in ToSet(succ[y])
  BY <1>5, <1>6 DEF Reached
<1>8. rank[y] \in Nat /\ rank[x] \in Nat /\ rank[y] < rank[x]
  BY <1>5, <1>6, <1>7 DEF SearchInput
<1>9. y \in ToSet(order)
  BY <1>5, <1>7, <1>8
<1>10. PICK i \in DOMAIN order : order[i] = y
  BY <1>9 DEF ToSet
<1>11. \E j \in DOMAIN order : order[j] = x
  BY <1>6, <1>7, <1>10 DEF Topological
<1>. QED
  BY <1>5, <1>11 DEF ToSet

-----------------------------------------------------------------------------
(* get_gates of a circuit                                                  *)

\* The search sees the circuit with the positions of the gates as their ranks.
LEMMA CircuitIsSearched ==
    ASSUME NEW n \in Nat, NEW c, IsCircuit(c, 0 .. n - 1),
           NEW succ, succ = [id \in GateIds(c) |-> GetSuccessors(c, id)],
           NEW rank, rank = [id \in GateIds(c) |-> Position(c, id)],
           NEW roots, roots = [q \in 1 .. n |-> FirstGate(c, q - 1)]
    PROVE  /\ SearchInput(GateIds(c), succ, rank, roots)
           /\ Reached(GateIds(c), succ, roots)
           /\ Len(roots) = n
           /\ \A i \in DOMAIN c : Len(succ[c[i].id]) = Len(c[i].qubits)
<1>1. \A x : x \in GateIds(c) <=> \E i \in DOMAIN c : x = c[i].id
  BY DEF GateIds
<1>2. NoGate \notin GateIds(c)
  BY <1>1, GateAt
<1>3. ASSUME NEW q PROVE FirstGate(c, q) \in GateIds(c) \cup {NoGate}
  <2>1. CASE OnQubit(c, q) # {}
    <3>1. Min(OnQubit(c, q)) \in DOMAIN c
      BY <2>1, Positions, MinOfNaturals
    <3>. QED
      BY <2>1, <3>1 DEF FirstGate, GateIds
  <2>. QED
    BY <2>1 DEF FirstGate
<1>4. roots \in Seq(GateIds(c) \cup {NoGate}) /\ Len(roots) = n
  BY <1>3
<1>5. ASSUME NEW i \in DOMAIN c
      PROVE  /\ succ[c[i].id] \in Seq(GateIds(c) \cup {NoGate})
             /\ Len(succ[c[i].id]) = Len(c[i].qubits)
             /\ \A h \in ToSet(succ[c[i].id]) \ {NoGate} : \E k \in DOMAIN c : h = c[k].id /\ i < k
             /\ \A l, k : Follows(c, l, i, k) => c[k].id \in ToSet(succ[c[i].id])
  <2>1. PICK pins : pins = GetSuccessors(c, c[i].id)
    OBVIOUS
  <2>2. /\ c[i].qubits \in Seq(0 .. n - 1) /\ GetGate(c, c[i].id) = c[i]
        /\ succ[c[i].id] = pins
    BY <1>1, <2>1, GateAt
  <2>3. PICK w \in Nat : w = Len(c[i].qubits) /\ DOMAIN c[i].qubits = 1 .. w
    BY <2>2
  <2>4. pins = [pin \in 1 .. w |-> pins[pin]]
    BY <2>1, <2>2, <2>3 DEF GetSuccessors
  <2>5. ASSUME NEW pin \in 1 .. w
        PROVE  /\ \/ pins[pin] = NoGate
                  \/ \E k \in DOMAIN c : pins[pin] = c[k].id /\ i < k
               /\ \A k \in DOMAIN c : Follows(c, c[i].qubits[pin], i, k) => pins[pin] = c[k].id
    <3>1. /\ \/ pins[pin] = NoGate
             \/ \E k \in DOMAIN c : pins[pin] = c[k].id /\ Follows(c, c[i].qubits[pin], i, k)
          /\ \A k \in DOMAIN c : Follows(c, c[i].qubits[pin], i, k) => pins[pin] = c[k].id
      BY <2>1, <2>3, SuccessorFollows
    <3>. QED
      BY <3>1 DEF Follows
  <2>6. \A pin \in 1 .. w : pins[pin] \in GateIds(c) \cup {NoGate}
    BY <1>1, <2>5
  <2>7. pins \in Seq(GateIds(c) \cup {NoGate}) /\ Len(pins) = w /\ DOMAIN pins = 1 .. w
    <3>1. PICK T : T = GateIds(c) \cup {NoGate}
      OBVIOUS
    <3>2. [pin \in 1 .. w |-> pins[pin]] \in Seq(T)
      BY <2>6, <3>1
    <3>3. pins \in Seq(T) /\ DOMAIN pins = 1 .. w
      BY <2>4, <3>2
    <3>. QED
      BY <3>1, <3>3
  <2>8. \A h \in ToSet(pins) \ {NoGate} : \E k \in DOMAIN c : h = c[k].id /\ i < k
    BY <2>5, <2>7 DEF ToSet
  <2>9. ASSUME NEW l, NEW k, Follows(c, l, i, k) PROVE c[k].id \in ToSet(pins)
    <3>1. i \in OnQubit(c, l) /\ k \in DOMAIN c
      BY <2>9 DEF Follows, OnQubit
    <3>2. PICK pin \in 1 .. w : c[i].qubits[pin] = l
      BY <2>3, <3>1 DEF OnQubit, ToSet
    <3>3. pins[pin] = c[k].id
      BY <2>5, <2>9, <3>1, <3>2
    <3>. QED
      BY <2>7, <3>3 DEF ToSet
  <2>. QED
    BY <2>2, <2>3, <2>7, <2>8, <2>9
<1>6. rank \in [GateIds(c) -> Nat] /\ \A i \in DOMAIN c : rank[c[i].id] = i
  BY <1>1, GateAt
<1>7. \A x \in GateIds(c) : \A h \in ToSet(succ[x]) \ {NoGate} : rank[x] < rank[h]
  <2>1. ASSUME NEW i \in DOMAIN c, NEW h \in ToSet(succ[c[i].id]) \ {NoGate}
        PROVE  rank[c[i].id] < rank[h]
    <3>1. PICK k \in DOMAIN c : h = c[k].id /\ i < k
      BY <1>5, <2>1
    <3>. QED
      BY <1>6, <3>1
  <2>2. ASSUME NEW x \in GateIds(c), NEW h \in ToSet(succ[x]) \ {NoGate}
        PROVE  rank[x] < rank[h]
    <3>1. PICK i \in DOMAIN c : x = c[i].id
      BY <1>1
    <3>. QED
      BY <2>1, <2>2, <3>1
  <2>. QED
    BY <2>2
<1>8. succ \in [GateIds(c) -> Seq(GateIds(c) \cup {NoGate})]
  <2>1. \A x \in GateIds(c) : succ[x] \in Seq(GateIds(c) \cup {NoGate})
    BY <1>1, <1>5
  <2>2. succ = [x \in GateIds(c) |-> succ[x]]
    OBVIOUS
  <2>. QED
    BY <2>1, <2>2
<1>9. ASSUME NEW x \in GateIds(c)
      PROVE  x \in ToSet(roots) \/ \E y \in GateIds(c) : x \in ToSet(succ[y])
  <2>1. PICK k \in DOMAIN c : x = c[k].id
    BY <1>1
  <2>2. c[k].qubits \in Seq(0 .. n - 1) /\ c[k].qubits # <<>>
    BY GateAt
  <2>3. PICK l \in 0 .. n - 1 : k \in OnQubit(c, l)
    <3>1. 1 \in DOMAIN c[k].qubits /\ c[k].qubits[1] \in 0 .. n - 1
      BY <2>2
    <3>. QED
      BY <2>1, <3>1 DEF OnQubit, ToSet
  <2>4. OnQubit(c, l) \subseteq Nat /\ OnQubit(c, l) \subseteq DOMAIN c
    BY Positions
  <2>5. CASE \A i \in OnQubit(c, l) : k <= i
    <3>1. Min(OnQubit(c, l)) = k
      <4>1. Min(OnQubit(c, l)) \in OnQubit(c, l) /\ \A i \in OnQubit(c, l) : Min(OnQubit(c, l)) <= i
        BY <2>3, <2>4, MinOfNaturals
      <4>. QED
        BY <2>3, <2>4, <2>5, <4>1
    <3>2. FirstGate(c, l) = x
      BY <2>1, <2>3, <3>1 DEF FirstGate
    <3>3. l + 1 \in 1 .. n /\ (l + 1) - 1 = l
      OBVIOUS
    <3>4. l + 1 \in DOMAIN roots /\ roots[l + 1] = x
      BY <3>2, <3>3
    <3>. QED
      BY <3>4 DEF ToSet
  <2>6. CASE \E i \in OnQubit(c, l) : ~(k <= i)
    <3>1. PICK i \in OnQubit(c, l) : i < k
      BY <2>3, <2>4, <2>6
    <3>2. PICK j \in DOMAIN c : Follows(c, l, j, k)
      BY <2>3, <2>4, <3>1, RequiresFollows
    <3>. QED
      BY <1>1, <1>5, <2>1, <3>2
  <2>. QED
    BY <2>5, <2>6
<1>. QED
  BY <1>2, <1>4, <1>5, <1>6, <1>7, <1>8, <1>9 DEF SearchInput, Reached

\* get_gates lists every gate once, behind all that it requires.
LEMMA GatesInOrder ==
    ASSUME NEW n \in Nat, NEW c, IsCircuit(c, 0 .. n - 1),
           \A i \in DOMAIN c : Len(c[i].qubits) <= n
    PROVE  LET order == GetGates(c, n)
           IN  /\ order \in Seq(GateIds(c))
               /\ ToSet(order) = GateIds(c)
               /\ \A i, j \in DOMAIN order : order[i] = order[j] => i = j
               /\ \A i, j \in DOMAIN order : order[i] \in Requires(c, order[j]) => i < j
<1>1. PICK succ, rank, roots : /\ succ = [id \in GateIds(c) |-> GetSuccessors(c, id)]
                               /\ rank = [id \in GateIds(c) |-> Position(c, id)]
                               /\ roots = [q \in 1 .. n |-> FirstGate(c, q - 1)]
  OBVIOUS
<1>2. /\ SearchInput(GateIds(c), succ, rank, roots) /\ Reached(GateIds(c), succ, roots)
      /\ Len(roots) = n
      /\ \A i \in DOMAIN c : Len(succ[c[i].id]) = Len(c[i].qubits)
  BY <1>1, CircuitIsSearched
<1>3. PICK order : order = GetGates(c, n) /\ order = DfsOrder(roots, succ, Len(c))
  BY <1>1 DEF GetGates
<1>4. Len(c) \in Nat /\ IsFiniteSet(GateIds(c)) /\ Cardinality(GateIds(c)) = Len(c)
  <2>1. PICK m \in Nat : m = Len(c) /\ DOMAIN c = 1 .. m
    <3>1. DOMAIN c = 1 .. Len(c) /\ Len(c) \in Nat
      BY Positions
    <3>2. PICK m : m = Len(c)
      OBVIOUS
    <3>. QED
      BY <3>1, <3>2, Zenon
  <2>2. ExistsBijection(DOMAIN c, GateIds(c))
    <3>. DEFINE f == [i \in DOMAIN c |-> c[i].id]
    <3>1. f \in [DOMAIN c -> GateIds(c)] /\ \A i \in DOMAIN c : f[i] = c[i].id
      BY DEF GateIds
    <3>. HIDE DEF f
    <3>2. \A i, j \in DOMAIN c : f[i] = f[j] => i = j
      BY <3>1, UniqueIds
    <3>3. \A x \in GateIds(c) : \E i \in DOMAIN c : f[i] = x
      BY <3>1 DEF GateIds
    <3>. QED
      BY <3>1, <3>2, <3>3, Fun_IsBij DEF ExistsBijection
  <2>3. IsFiniteSet(DOMAIN c) /\ Cardinality(DOMAIN c) = Len(c)
    <3>1. IsFiniteSet(1 .. m) /\ Cardinality(1 .. m) = m
      BY FS_Interval
    <3>. QED
      BY <2>1, <3>1
  <2>. QED
    BY <2>1, <2>2, <2>3, FS_Bijection
<1>5. \A x \in GateIds(c) : Len(succ[x]) <= Len(roots)
  BY <1>2 DEF GateIds
<1>6. /\ order \in Seq(GateIds(c)) /\ Topological(succ, order)
      /\ \A i, j \in DOMAIN order : order[i] = order[j] => i = j
      /\ ToSet(roots) \ {NoGate} \subseteq ToSet(order)
  <2>1. Cardinality(GateIds(c)) <= Len(c)
    BY <1>4
  <2>. QED
    BY <1>2, <1>3, <1>4, <1>5, <2>1, SearchIsTopological
<1>7. ToSet(order) = GateIds(c)
  BY <1>2, <1>6, SearchIsComplete
<1>. DEFINE Earlier(x, y) == \E i, j \in DOMAIN order : i < j /\ order[i] = x /\ order[j] = y
<1>8. \A x, y, z : Earlier(x, y) /\ Earlier(y, z) => Earlier(x, z)
  <2>1. DOMAIN order \subseteq Nat
    BY <1>6
  <2>2. ASSUME NEW x, NEW y, NEW z, NEW i \in DOMAIN order, NEW j \in DOMAIN order,
               NEW k \in DOMAIN order, NEW m \in DOMAIN order,
               i < j, order[i] = x, order[j] = y, k < m, order[k] = y, order[m] = z
        PROVE  i < m
    BY <1>6, <2>1, <2>2
  <2>. QED
    BY <2>2
<1>9. ASSUME NEW k \in DOMAIN c, NEW i \in DOMAIN c, NEW l, Follows(c, l, k, i)
      PROVE  Earlier(c[k].id, c[i].id)
  <2>1. c[i].id \in ToSet(succ[c[k].id]) \ {NoGate}
    <3>1. k \in OnQubit(c, l)
      BY <1>9 DEF Follows
    <3>2. PICK pin \in DOMAIN c[k].qubits : c[k].qubits[pin] = l
      BY <3>1 DEF OnQubit, ToSet
    <3>3. GetSuccessors(c, c[k].id)[pin] = c[i].id
      BY <1>9, <3>2, SuccessorFollows
    <3>4. /\ GetGate(c, c[k].id) = c[k] /\ c[i].id # NoGate
          /\ succ[c[k].id] = GetSuccessors(c, c[k].id)
      BY <1>1, GateAt DEF GateIds
    <3>5. DOMAIN GetSuccessors(c, c[k].id) = DOMAIN c[k].qubits
      BY <3>4 DEF GetSuccessors
    <3>. QED
      BY <3>2, <3>3, <3>4, <3>5 DEF ToSet
  <2>2. PICK a \in DOMAIN order : order[a] = c[k].id
    BY <1>7 DEF GateIds, ToSet
  <2>3. c[i].id \in ToSet(succ[order[a]]) \ {NoGate}
    BY <2>1, <2>2
  <2>4. PICK b \in DOMAIN order : a < b /\ order[b] = c[i].id
    BY <1>6, <2>3 DEF Topological
  <2>. QED
    BY <2>2, <2>4
<1>. DEFINE Sorted == {m \in Nat : \A i \in DOMAIN c : i <= m =>
                          \A j \in DOMAIN c : \A l :
                              /\ i \in OnQubit(c, l) /\ j \in OnQubit(c, l) /\ j < i
                              => Earlier(c[j].id, c[i].id)}
<1>. HIDE DEF Earlier
<1>10. Nat \subseteq Sorted
  <2>0. DOMAIN c = 1 .. Len(c)
    BY Positions
  <2>1. 0 \in Sorted
    BY <2>0
  <2>2. ASSUME NEW m \in Nat, m \in Sorted PROVE m + 1 \in Sorted
    <3>1. ASSUME NEW i \in DOMAIN c, i <= m + 1, NEW j \in DOMAIN c, NEW l,
                 i \in OnQubit(c, l), j \in OnQubit(c, l), j < i
          PROVE  Earlier(c[j].id, c[i].id)
      <4>1. PICK k \in DOMAIN c : Follows(c, l, k, i) /\ (k = j \/ c[j].id \in Requires(c, c[k].id))
        BY <3>1, RequiresFollows
      <4>2. Earlier(c[k].id, c[i].id)
        BY <1>9, <4>1
      <4>3. CASE k = j
        BY <4>2, <4>3
      <4>4. CASE c[j].id \in Requires(c, c[k].id)
        <5>1. PICK j2 \in DOMAIN c : /\ c[j].id = c[j2].id /\ j2 < k
                                     /\ \E l2 : k \in OnQubit(c, l2) /\ j2 \in OnQubit(c, l2)
          BY <4>4, RequiresAt
        <5>2. k <= m
          <6>1. k < i /\ k \in Nat /\ i \in Nat
            BY <2>0, <4>1 DEF Follows
          <6>. QED
            BY <3>1, <6>1
        <5>3. Earlier(c[j].id, c[k].id)
          BY <2>2, <5>1, <5>2
        <5>. QED
          BY <1>8, <4>2, <5>3
      <4>. QED
        BY <4>1, <4>3, <4>4
    <3>. QED
      BY <3>1
  <2>. HIDE DEF Sorted
  <2>. QED
    BY <2>1, <2>2, SetInduction
<1>11. ASSUME NEW a \in DOMAIN order, NEW b \in DOMAIN order, order[a] \in Requires(c, order[b])
       PROVE  a < b
  <2>1. PICK i \in DOMAIN c : order[b] = c[i].id
    BY <1>6 DEF GateIds
  <2>2. PICK j \in DOMAIN c : /\ order[a] = c[j].id /\ j < i
                              /\ \E l : i \in OnQubit(c, l) /\ j \in OnQubit(c, l)
    BY <1>11, <2>1, RequiresAt
  <2>3. i \in Nat
    BY GateAt
  <2>4. Earlier(c[j].id, c[i].id)
    BY <1>10, <2>2, <2>3
  <2>. QED
    BY <1>6, <2>1, <2>2, <2>4 DEF Earlier
<1>. QED
  BY <1>3, <1>6, <1>7, <1>11
-----------------------------------------------------------------------------
(* The gate that a qubit waits for                                         *)

\* d is the first gate on l that has not run, if there is one.
IsNextOn(c, ran, l, d) ==
    \/ d = NoGate /\ \A m \in OnQubit(c, l) : c[m].id \in ran
    \/ \E k \in OnQubit(c, l) : /\ d = c[k].id /\ c[k].id \notin ran
                                /\ \A m \in OnQubit(c, l) : m < k => c[m].id \in ran

\* There is no other one.
LEMMA NextOnIs ==
    ASSUME NEW Q, NEW c, IsCircuit(c, Q), NEW ran, NEW l, NEW d, IsNextOn(c, ran, l, d),
           NEW k \in OnQubit(c, l), c[k].id \notin ran,
           \A m \in OnQubit(c, l) : m < k => c[m].id \in ran
    PROVE  d = c[k].id
<1>1. PICK j \in OnQubit(c, l) : /\ d = c[j].id /\ c[j].id \notin ran
                                 /\ \A m \in OnQubit(c, l) : m < j => c[m].id \in ran
  BY DEF IsNextOn
<1>2. j \in Nat /\ k \in Nat
  BY <1>1, Positions
<1>3. ~(j < k) /\ ~(k < j)
  BY <1>1
<1>. QED
  BY <1>1, <1>2, <1>3

\* A gate that is not on the qubit is not waited for on it.
LEMMA NextOnIsOn ==
    ASSUME NEW Q, NEW c, IsCircuit(c, Q), NEW ran, NEW l, NEW d, IsNextOn(c, ran, l, d),
           NEW k \in DOMAIN c, d = c[k].id
    PROVE  k \in OnQubit(c, l)
<1>1. d # NoGate
  BY GateAt
<1>2. PICK j \in OnQubit(c, l) : d = c[j].id
  BY <1>1 DEF IsNextOn
<1>3. j \in DOMAIN c /\ c[j].id = c[k].id
  BY <1>2, Positions
<1>4. j = k
  BY <1>3 DEF IsCircuit
<1>. QED
  BY <1>2, <1>4

\* Before any gate has run it is the first one on the qubit.
LEMMA FirstIsNext ==
    ASSUME NEW Q, NEW c, IsCircuit(c, Q), NEW l
    PROVE  IsNextOn(c, {}, l, FirstGate(c, l))
<1>1. CASE OnQubit(c, l) = {}
  BY <1>1 DEF FirstGate, IsNextOn
<1>2. CASE OnQubit(c, l) # {}
  <2>1. PICK k : k = Min(OnQubit(c, l))
    OBVIOUS
  <2>2. OnQubit(c, l) \subseteq Nat
    BY Positions
  <2>3. k \in OnQubit(c, l) /\ \A m \in OnQubit(c, l) : k <= m
    BY <1>2, <2>1, <2>2, MinOfNaturals
  <2>4. \A m \in OnQubit(c, l) : ~(m < k)
    BY <2>2, <2>3
  <2>5. FirstGate(c, l) = c[k].id
    BY <1>2, <2>1 DEF FirstGate
  <2>. QED
    BY <2>3, <2>4, <2>5 DEF IsNextOn
<1>. QED
  BY <1>1, <1>2

\* When a gate runs, its successors are next on its qubits, and on the others nothing
\* changes.
LEMMA NextOnAdvances ==
    ASSUME NEW Q, NEW c, IsCircuit(c, Q), NEW ran, Closed(c, ran),
           NEW k \in DOMAIN c, c[k].id \in Ready(c, ran),
           NEW l, NEW d, IsNextOn(c, ran, l, d), NEW ran2, ran2 = ran \cup {c[k].id}
    PROVE  /\ k \notin OnQubit(c, l) => IsNextOn(c, ran2, l, d)
           /\ \A pin \in DOMAIN c[k].qubits : c[k].qubits[pin] = l =>
                 IsNextOn(c, ran2, l, GetSuccessors(c, c[k].id)[pin])
<1>1. OnQubit(c, l) \subseteq DOMAIN c /\ OnQubit(c, l) \subseteq Nat
  BY Positions
<1>2. \A m \in DOMAIN c : c[m].id = c[k].id => m = k
  BY UniqueIds
<1>3. ASSUME k \notin OnQubit(c, l) PROVE IsNextOn(c, ran2, l, d)
  <2>1. CASE d = NoGate /\ \A m \in OnQubit(c, l) : c[m].id \in ran
    BY <2>1 DEF IsNextOn
  <2>2. CASE \E j \in OnQubit(c, l) : /\ d = c[j].id /\ c[j].id \notin ran
                                      /\ \A m \in OnQubit(c, l) : m < j => c[m].id \in ran
    <3>1. PICK j \in OnQubit(c, l) : /\ d = c[j].id /\ c[j].id \notin ran
                                     /\ \A m \in OnQubit(c, l) : m < j => c[m].id \in ran
      BY <2>2
    <3>2. c[j].id \notin ran2
      BY <1>1, <1>2, <1>3, <3>1
    <3>. QED
      BY <3>1, <3>2 DEF IsNextOn
  <2>. QED
    BY <2>1, <2>2 DEF IsNextOn
<1>4. ASSUME NEW pin \in DOMAIN c[k].qubits, c[k].qubits[pin] = l
      PROVE  IsNextOn(c, ran2, l, GetSuccessors(c, c[k].id)[pin])
  <2>1. k \in OnQubit(c, l) /\ k \in Nat
    BY <1>1, <1>4 DEF OnQubit, ToSet
  <2>2. PICK succ : succ = GetSuccessors(c, c[k].id)[pin]
    OBVIOUS
  <2>3. \/ succ = NoGate /\ \A i \in OnQubit(c, l) : ~(k < i)
        \/ \E i \in DOMAIN c : succ = c[i].id /\ Follows(c, l, k, i)
    BY <1>4, <2>2, SuccessorFollows
  <2>4. ASSUME NEW m \in OnQubit(c, l), m < k PROVE c[m].id \in ran
    <3>1. c[m].id \in Requires(c, c[k].id)
      BY <1>1, <2>1, <2>4, RequiresAt
    <3>. QED
      BY <3>1 DEF Ready
  <2>5. ASSUME NEW m \in OnQubit(c, l), k < m PROVE c[m].id \notin ran2
    <3>1. c[k].id \in Requires(c, c[m].id) /\ m \in DOMAIN c
      BY <1>1, <2>1, <2>5, RequiresAt
    <3>2. c[k].id \notin ran
      BY DEF Ready
    <3>3. c[m].id \notin ran
      BY <3>1, <3>2 DEF Closed
    <3>4. m # k
      BY <2>1, <2>5
    <3>. QED
      BY <1>2, <3>1, <3>3, <3>4
  <2>6. CASE succ = NoGate /\ \A i \in OnQubit(c, l) : ~(k < i)
    <3>1. \A m \in OnQubit(c, l) : m < k \/ m = k
      BY <1>1, <2>1, <2>6
    <3>2. \A m \in OnQubit(c, l) : c[m].id \in ran2
      BY <2>4, <3>1
    <3>. QED
      BY <2>2, <2>6, <3>2 DEF IsNextOn
  <2>7. CASE \E i \in DOMAIN c : succ = c[i].id /\ Follows(c, l, k, i)
    <3>1. PICK i \in DOMAIN c : succ = c[i].id /\ Follows(c, l, k, i)
      BY <2>7
    <3>2. i \in OnQubit(c, l) /\ k < i /\ \A m \in OnQubit(c, l) : m <= k \/ i <= m
      BY <3>1 DEF Follows
    <3>3. \A m \in OnQubit(c, l) : m < i => m < k \/ m = k
      BY <1>1, <2>1, <3>2
    <3>4. c[i].id \notin ran2 /\ \A m \in OnQubit(c, l) : m < i => c[m].id \in ran2
      BY <2>4, <2>5, <3>2, <3>3
    <3>. QED
      BY <2>2, <3>1, <3>2, <3>4 DEF IsNextOn
  <2>. QED
    BY <2>3, <2>6, <2>7
<1>. QED
  BY <1>3, <1>4
=============================================================================
